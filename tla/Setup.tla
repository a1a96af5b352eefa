------------------------------- MODULE Setup -------------------------------
(***************************************************************************)
(* The environment of the model servers: the setup that two screens offer  *)
(* (bootstrap.rs: the uv tool, the Python sources of the bundle, the       *)
(* virtual environment), what the doctor finds missing (env_detect.rs) and *)
(* the fixes it names.  The app may be closed at any point and replaced by *)
(* a later version.  What a child prints is the module ChildOutput's.      *)
(***************************************************************************)
EXTENDS Naturals, FiniteSets

CONSTANTS Screen,       \* the screens that can run the setup
          Backend,      \* packages the doctor looks for
          ExtraOf,      \* the extra of pyproject.toml that brings a package
          MaxVersion,   \* bound: versions of the app
          MaxSetups,    \* bound: setups begun
          MaxQuits      \* bound: times the app is closed

ASSUME SetupAssumption ==
    /\ MaxVersion \in Nat \ {0} /\ MaxSetups \in Nat /\ MaxQuits \in Nat
    /\ DOMAIN ExtraOf = Backend

VARIABLES app,       \* bundled or not, its version, and whether that can be read
          disk,      \* uv, the files by version (0: none or torn), the venv
          setup,     \* where the setup of a screen is
          mishaps,   \* history: what may have spoilt the venv
          budget     \* setups and quits left

setupVars == <<app, disk, setup, mishaps, budget>>

NoFile == 0
Ended == {"off", "done", "failed"}
Copying == {"adapters", "project", "marker"}
Stage == Ended \cup Copying \cup {"uv", "script", "sync", "venv", "python", "create", "packages"}
Mishap == {"overlap", "upgrade", "cut", "fix"}
Running == {s \in Screen : setup[s].at \notin Ended}

SetupInit ==
    \E bundled, told, uv \in BOOLEAN :
        /\ app = [bundled |-> bundled, version |-> 1, told |-> told]
        /\ disk = [uv |-> uv, adapters |-> IF bundled THEN NoFile ELSE 1, project |-> IF bundled THEN NoFile ELSE 1,
                   marker |-> NoFile, python |-> FALSE, packages |-> {}]
        /\ setup = [s \in Screen |-> [at |-> "off"]]
        /\ mishaps = {}
        /\ budget = [setups |-> MaxSetups, quits |-> MaxQuits]

Goes(s, to) == setup' = [setup EXCEPT ![s].at = to]
Advances(s, from, to) == setup[s].at = from /\ Goes(s, to)

\* env_bootstrap; each screen runs at most one, but does not know of the other's.
Begins(s) ==
    /\ setup[s].at \in Ended /\ budget.setups > 0
    /\ Goes(s, "uv")
    /\ mishaps' = IF Running = {} THEN mishaps ELSE mishaps \cup {"overlap"}
    /\ budget' = [budget EXCEPT !.setups = @ - 1]
    /\ UNCHANGED <<app, disk>>

\* ensure_uv: resolve_uv finds it, or the script is run.
FindsUv(s) ==
    /\ Advances(s, "uv", IF disk.uv THEN "sync" ELSE "script")
    /\ UNCHANGED <<app, disk, mishaps, budget>>

ScriptEnds(s, good) ==
    /\ Advances(s, "script", IF good THEN "sync" ELSE "failed")
    /\ disk' = [disk EXCEPT !.uv = @ \/ good]
    /\ UNCHANGED <<app, mishaps, budget>>

\* python_sync_up_to_date: the files are there, torn or not, and the marker has
\* this version.  A torn file is there too.
UpToDate == app.told /\ disk.marker = app.version

\* sync_python_sources: nothing to do, or the copy begins.
ChecksFiles(s) ==
    /\ Advances(s, "sync", IF ~app.bundled \/ UpToDate THEN "venv" ELSE "adapters")
    /\ disk' = [disk EXCEPT !.adapters = IF ~app.bundled \/ UpToDate THEN @ ELSE NoFile]
    /\ UNCHANGED <<app, mishaps, budget>>

\* The directories, then the project file and its lock, then the marker, if the
\* version can be read; each write is torn until it is complete.
Copies(s) ==
    /\ \/ /\ Advances(s, "adapters", "project")
          /\ disk' = [disk EXCEPT !.adapters = app.version, !.project = NoFile]
       \/ /\ Advances(s, "project", "marker")
          /\ disk' = [disk EXCEPT !.project = app.version]
       \/ /\ Advances(s, "marker", "venv")
          /\ disk' = [disk EXCEPT !.marker = IF app.told THEN app.version ELSE @]
    /\ UNCHANGED <<app, mishaps, budget>>

CopyFails(s) ==
    /\ setup[s].at \in Copying
    /\ Goes(s, "failed")
    /\ mishaps' = mishaps \cup {"cut"}
    /\ UNCHANGED <<app, disk, budget>>

\* ensure_venv_and_deps: a venv with a python is taken as it is.
ChecksVenv(s) ==
    /\ Advances(s, "venv", IF disk.python THEN "done" ELSE IF disk.uv THEN "python" ELSE "failed")
    /\ UNCHANGED <<app, disk, mishaps, budget>>

PythonEnds(s, good) ==
    /\ Advances(s, "python", IF good THEN "create" ELSE "failed")
    /\ UNCHANGED <<app, disk, mishaps, budget>>

\* uv sync makes the venv first, from a project file that is whole.
CreatesVenv(s) ==
    /\ Advances(s, "create", IF disk.project = NoFile THEN "failed" ELSE "packages")
    /\ disk' = [disk EXCEPT !.python = @ \/ disk.project # NoFile]
    /\ UNCHANGED <<app, mishaps, budget>>

\* A plausible fault: without --all-extras, only what is needed by all is kept.
SyncEndsBare(s, got) ==
    /\ Advances(s, "packages", IF got = Backend THEN "done" ELSE "failed")
    /\ disk' = [disk EXCEPT !.packages = {}]
    /\ mishaps' = IF got = Backend THEN mishaps ELSE mishaps \cup {"cut"}
    /\ UNCHANGED <<app, budget>>

\* uv sync --all-extras ends, well or with some packages only.
SyncEnds(s, got) ==
    /\ Advances(s, "packages", IF got = Backend THEN "done" ELSE "failed")
    /\ disk' = [disk EXCEPT !.packages = @ \cup got]
    /\ mishaps' = IF got = Backend THEN mishaps ELSE mishaps \cup {"cut"}
    /\ UNCHANGED <<app, budget>>

\* scan_tools, scan_backends: what is reported as missing, and the fix named.
Missing ==
    (IF disk.uv THEN {} ELSE {"uv"}) \cup
    (IF disk.python THEN Backend \ disk.packages ELSE {"python"} \cup Backend)

FixOf(item) ==
    IF app.bundled THEN "setup"
    ELSE IF item = "uv" THEN "brew"
    ELSE IF item \in Backend /\ disk.python THEN ExtraOf[item]
    ELSE "uv sync"

\* run_fix_action of a command: uv sync keeps the packages of the extra it names
\* and removes all others.
RunsFix(item, good) ==
    /\ item \in Missing /\ FixOf(item) # "setup"
    /\ IF FixOf(item) = "brew"
         THEN disk' = [disk EXCEPT !.uv = good]
         ELSE /\ good => disk.uv
              /\ disk' = [disk EXCEPT !.python = @ \/ good,
                             !.packages = IF good THEN {b \in Backend : ExtraOf[b] = FixOf(item)} ELSE @]
    /\ mishaps' = mishaps \cup {"fix"}
    /\ UNCHANGED <<app, setup, budget>>

\* The app is closed; uv goes on to its end, or not.  It is opened again, perhaps
\* in a later version.
Quits(later, got) ==
    /\ budget.quits > 0
    /\ later => app.bundled /\ app.version < MaxVersion
    /\ disk' = [disk EXCEPT !.packages = IF \E s \in Screen : setup[s].at = "packages" THEN @ \cup got ELSE @]
    /\ setup' = [s \in Screen |-> [at |-> "off"]]
    /\ \E told \in BOOLEAN :
           app' = [app EXCEPT !.version = IF later THEN @ + 1 ELSE @, !.told = IF later THEN told ELSE @]
    /\ mishaps' = mishaps
           \cup (IF \E s \in Screen : setup[s].at = "packages" THEN {"cut"} ELSE {})
           \cup (IF later /\ disk.python THEN {"upgrade"} ELSE {})
    /\ budget' = [budget EXCEPT !.quits = @ - 1]

SetupStep(s) ==
    \/ FindsUv(s) \/ ChecksFiles(s) \/ Copies(s) \/ CopyFails(s) \/ ChecksVenv(s) \/ CreatesVenv(s)
    \/ \E good \in BOOLEAN : ScriptEnds(s, good) \/ PythonEnds(s, good)
    \/ \E got \in SUBSET Backend : SyncEnds(s, got)
SetupNext ==
    \/ \E s \in Screen : Begins(s) \/ SetupStep(s)
    \/ \E item \in Missing, good \in BOOLEAN : RunsFix(item, good)
    \/ \E later \in BOOLEAN, got \in SUBSET Backend : Quits(later, got)

SetupSpec == SetupInit /\ [][SetupNext]_setupVars /\ \A s \in Screen : WF_setupVars(SetupStep(s))
-----------------------------------------------------------------------------
(* Properties. *)

SetupTypeOK ==
    /\ app.version \in 1..MaxVersion /\ app.bundled \in BOOLEAN /\ app.told \in BOOLEAN
    /\ {disk.adapters, disk.project, disk.marker} \subseteq NoFile..app.version
    /\ disk.uv \in BOOLEAN /\ disk.python \in BOOLEAN /\ disk.packages \subseteq Backend
    /\ disk.packages # {} => disk.python
    /\ \A s \in Screen : setup[s].at \in Stage
    /\ mishaps \subseteq Mishap

\* The marker never vouches for files of another version or for torn ones,
\* whenever the app is closed, unless the setups of two screens overlapped.
UpToDateIsTrue ==
    app.bundled /\ UpToDate /\ "overlap" \notin mishaps =>
        disk.adapters = app.version /\ disk.project = app.version

\* A setup that reports success leaves the doctor nothing to find and the
\* sources of this version, unless a copy or an installation was cut short,
\* the app upgraded, two setups overlapped, or a single fix run.
DoneIsWhole ==
    (\E s \in Screen : setup[s].at = "done") /\ Running = {} /\ mishaps = {} =>
        /\ Missing = {}
        /\ disk.adapters = app.version /\ disk.project = app.version

\* A setup that has begun ends, if its children do.
SetupEnds == \A s \in Screen : []<>(setup[s].at \in Ended)

\* The marker of a setup and the success it reports are true, whatever failed or
\* was cut before.
SetupIsTrue ==
    /\ SetupTypeOK
    /\ UpToDateIsTrue
    /\ DoneIsWhole
=============================================================================
