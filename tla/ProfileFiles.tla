---------------------------- MODULE ProfileFiles ----------------------------
(***************************************************************************)
(* The profiles, one JSON file for each model (profile.rs): they are       *)
(* generated from what is in the cache, loaded by their id and changed by  *)
(* the settings of the app.  The bridge holds its lock during each of its  *)
(* calls, so that the app is one tool; a command line that generates a     *)
(* profile is another.  A file is written in place: it is cut to nothing   *)
(* first and filled then.  The files are the user's as well, who may edit  *)
(* them and add his own, under any name.                                   *)
(*                                                                         *)
(* Bounds: MaxProfileKills kills, MaxEdits files written by hand.          *)
(***************************************************************************)
EXTENDS Naturals, FiniteSets

CONSTANTS Repo,           \* ids of models
          NoRepo,
          FileOf,         \* profile_filename_from_id: two ids may share a file
          KindOf,         \* what the configuration in the cache describes
          AssistantOf,    \* the drafter that find_matching_assistant_drafter looks for
          BaseOf,         \* the base model of an adapter
          HandName,       \* names that the user gives to files of his own
          HandWritten,    \* the profiles that he may write
          MaxProfileKills, MaxEdits

ASSUME ProfileAssumption ==
    /\ DOMAIN FileOf = Repo
    /\ KindOf \in [Repo -> {"main", "short", "drafter", "adapter"}]
    /\ AssistantOf \in [Repo -> Repo \cup {NoRepo}] /\ BaseOf \in [Repo -> Repo \cup {NoRepo}]
    /\ \A r \in Repo : AssistantOf[r] # NoRepo => KindOf[AssistantOf[r]] = "drafter"
    /\ NoRepo \notin Repo /\ MaxProfileKills \in Nat /\ MaxEdits \in Nat

Tool == {"app", "cli"}
FileName == {FileOf[r] : r \in Repo} \cup HandName
Task == {"llm", "asr"}

VARIABLES files,         \* [FileName -> a profile, Missing or Torn]
          tool,          \* [Tool -> what it is writing]
          chosen,        \* history: [Repo -> the settings that were stored last, if any]
          profileKills,
          edits,         \* how often the user has written a file
          byHand,        \* history: the files that are as the user has written them
          edited,        \* history: the models he has written a profile of
          collided       \* history: both tools were writing the same file

handVars == <<edits, byHand, edited>>
profileVars == <<files, tool, chosen, profileKills, handVars, collided>>

\* What is kept of a ModelProfile: its id, its task (io.output), its drafter, and
\* whether its context reaches 512; and of a file that holds none.
ModelProfile == [id : Repo, task : Task \cup {"drafter"}, link : Repo \cup {NoRepo}, wide : BOOLEAN]
Missing == [id |-> NoRepo, task |-> "missing", link |-> NoRepo, wide |-> TRUE]
Torn == [Missing EXCEPT !.task = "torn"]

ASSUME HandAssumption == HandWritten \subseteq ModelProfile

Resting == [at |-> "rest", op |-> "none", profile |-> Missing]
Unset == [task |-> {}, link |-> {}]

IsProfile(file) == file.id # NoRepo
\* load_profile_file fails on a file that does not parse or that validate_profile
\* refuses: a context that ends below its minimum of 512.
Loadable(file) == IsProfile(file) /\ file.wide
Broken == {n \in FileName : files[n] # Missing /\ ~Loadable(files[n])}

\* load_profile_by_id reads the files in any order and ends at the first that has
\* the id, whatever its name, or cannot be loaded: where there is a broken file it
\* may fail as well.
Loads(r) == {files[n] : n \in {n \in FileName : Loadable(files[n]) /\ files[n].id = r}}

\* Files that are there already are written by hand in the steps that follow.
ProfilesInit ==
    /\ files = [n \in FileName |-> Missing]
    /\ tool = [t \in Tool |-> Resting]
    /\ chosen = [r \in Repo |-> Unset]
    /\ profileKills = 0
    /\ edits = 0 /\ byHand = {} /\ edited = {}
    /\ collided = FALSE

\* draft_from_config, draft_from_lora_adapter, with the models that are cached then:
\* downloads come and go, and a profile stays when its model goes. An adapter whose
\* base is not in the cache is given a length of 4096.
Draft(r, cached) ==
    [id   |-> r,
     task |-> IF KindOf[r] = "drafter" THEN "drafter" ELSE "llm",
     link |-> IF KindOf[r] \in {"main", "short"} /\ AssistantOf[r] \in cached THEN AssistantOf[r] ELSE NoRepo,
     wide |-> IF KindOf[r] = "adapter" /\ BaseOf[r] \in cached THEN KindOf[BaseOf[r]] # "short"
              ELSE KindOf[r] # "short"]

Prepares(t, op, profile) ==
    tool' = [tool EXCEPT ![t] = [at |-> "open", op |-> op, profile |-> profile]]

\* generate_profile_hf, write_profile_draft: refused when the model is not in the
\* cache or a file of the name exists, whoever's profile it is.
Generates(t, r) ==
    /\ tool[t].at = "rest"
    /\ files[FileOf[r]] = Missing
    /\ \E cached \in SUBSET Repo : r \in cached /\ Prepares(t, "generate", Draft(r, cached))
    /\ UNCHANGED <<files, chosen, profileKills, handVars, collided>>

\* fs::write: the file is created or cut, ...
OpensFile(t) ==
    /\ tool[t].at = "open"
    /\ files' = [files EXCEPT ![FileOf[tool[t].profile.id]] = Torn]
    /\ tool' = [tool EXCEPT ![t].at = "fill"]
    /\ byHand' = byHand \ {FileOf[tool[t].profile.id]}
    /\ collided' = (collided \/ \E u \in Tool \ {t} :
                        tool[u].at # "rest" /\ FileOf[tool[u].profile.id] = FileOf[tool[t].profile.id])
    /\ UNCHANGED <<chosen, profileKills, edits, edited>>

Chooses(op, p) ==
    CASE op = "generate" -> [chosen EXCEPT ![p.id] = Unset]
      [] op = "task"     -> [chosen EXCEPT ![p.id].task = {p.task}]
      [] op = "link"     -> [chosen EXCEPT ![p.id].link = {p.link}]

\* ... and filled.
FillsFile(t) ==
    /\ tool[t].at = "fill"
    /\ LET p == tool[t].profile
       IN  /\ files' = [files EXCEPT ![FileOf[p.id]] = p]
           /\ chosen' = Chooses(tool[t].op, p)
    /\ tool' = [tool EXCEPT ![t] = Resting]
    /\ UNCHANGED <<profileKills, handVars, collided>>

ToolKilled(t) ==
    /\ tool[t].at # "rest" /\ profileKills < MaxProfileKills
    /\ tool' = [tool EXCEPT ![t] = Resting]
    /\ profileKills' = profileKills + 1
    /\ UNCHANGED <<files, chosen, handVars, collided>>

\* A setting changes what was loaded, from whatever file, and writes it to the file
\* that is named for the id: one of another name stays beside it as it was.
Changes(op, p, q) ==
    /\ Prepares("app", op, q)
    /\ chosen' = IF p = files[FileOf[p.id]] THEN chosen ELSE [chosen EXCEPT ![p.id] = Unset]

\* A plausible fault: the profile is drafted anew.
RetasksAnew(r, task) ==
    /\ tool["app"].at = "rest"
    /\ \E p \in Loads(r) : Changes("task", p, [Draft(r, {r}) EXCEPT !.task = task])
    /\ UNCHANGED <<files, profileKills, handVars, collided>>

\* set_profile_task: any profile, a drafter's too, is given one of ALL_TASKS, which
\* a drafter's is not.
Retasks(r, task) ==
    /\ tool["app"].at = "rest"
    /\ \E p \in Loads(r) : Changes("task", p, [p EXCEPT !.task = task])
    /\ UNCHANGED <<files, profileKills, handVars, collided>>

\* set_profile_draft_model: to nothing, or to a model whose profile is a drafter's.
Links(r, d) ==
    /\ tool["app"].at = "rest"
    /\ d = NoRepo \/ \E q \in Loads(d) : q.task = "drafter"
    /\ \E p \in Loads(r) : p.task # "drafter" /\ Changes("link", p, [p EXCEPT !.link = d])
    /\ UNCHANGED <<files, profileKills, handVars, collided>>

\* What was stored for the models of the file is no more asked for.
HandTakes(n, file) ==
    /\ \A t \in Tool : tool[t].at = "rest"
    /\ files' = [files EXCEPT ![n] = file]
    /\ chosen' = [r \in Repo |-> IF FileOf[r] = n \/ r \in {files[n].id, file.id} THEN Unset
                                ELSE chosen[r]]
    /\ UNCHANGED <<tool, profileKills, collided>>

\* The user removes a file, while nothing is written; nothing in the programs does.
UserDeletes(n) ==
    /\ files[n] # Missing
    /\ HandTakes(n, Missing)
    /\ byHand' = byHand \ {n}
    /\ UNCHANGED <<edits, edited>>

\* He edits a file or adds one: with a profile of any model, or with none that can be
\* parsed.
UserWrites(n, file) ==
    /\ edits < MaxEdits /\ file # files[n]
    /\ HandTakes(n, file)
    /\ edits' = edits + 1
    /\ byHand' = byHand \cup {n}
    /\ edited' = edited \cup ({file.id} \ {NoRepo})

ProfilesNext ==
    \/ \E r \in Repo, t \in Tool : Generates(t, r)
    \/ \E t \in Tool : OpensFile(t) \/ FillsFile(t) \/ ToolKilled(t)
    \/ \E r \in Repo : \/ \E task \in Task : Retasks(r, task)
                       \/ \E d \in Repo \cup {NoRepo} : Links(r, d)
    \/ \E n \in FileName : \/ UserDeletes(n)
                           \/ \E file \in HandWritten \cup {Torn} : UserWrites(n, file)

ProfilesSpec == ProfilesInit /\ [][ProfilesNext]_profileVars
-----------------------------------------------------------------------------
(* Properties. *)

ProfilesTypeOK ==
    /\ \A n \in FileName : files[n] \in ModelProfile \cup {Missing, Torn}
    /\ \A t \in Tool : tool[t].at \in {"rest", "open", "fill"}
    /\ profileKills \in 0..MaxProfileKills /\ edits \in 0..MaxEdits

\* A setting of a model is under way, which was read from the file or writes to it.
BySetting(n) ==
    LET p == tool["app"].profile
    IN  /\ tool["app"].op \in {"task", "link"}
        /\ \E m \in FileName : files[m].id = p.id /\ (m = n \/ FileOf[p.id] = n)

\* A profile is only written over by a setting for the same model, or for one that
\* the user keeps in a file of another name, unless both tools have found the name
\* free at once.
OnlySettingsReplace ==
    [][\A n \in FileName : IsProfile(files[n]) /\ files'[n] = Torn =>
          BySetting(n) \/ edits' # edits \/ collided']_profileVars

\* Whatever is generated, linked and given another task, a profile that is a
\* drafter's has no drafter, no model is its own, and a profile names no model for
\* its drafter that was never one, unless the user has written it so himself.
DraftersStandAlone ==
    \A n \in FileName : IsProfile(files[n]) /\ files[n].id \notin edited =>
        /\ files[n].task = "drafter" => files[n].link = NoRepo
        /\ files[n].link # NoRepo =>
              files[n].link # files[n].id /\ (KindOf[files[n].link] = "drafter" \/ files[n].link \in edited)

\* One file that cannot be loaded may fail the loading of every profile. There is
\* none but one that is being written, one that a kill has left, the one of a
\* model, or of an adapter's base, whose context is shorter than 512, and one that
\* the user has broken: no setting carries what he has broken into another file.
BrokenHasCause ==
    \A n \in Broken :
        \/ \E t \in Tool : tool[t].at = "fill" /\ FileOf[tool[t].profile.id] = n
        \/ profileKills > 0
        \/ collided
        \/ n \in byHand
        \/ \E r \in Repo : /\ FileOf[r] = n
                           /\ KindOf[r] = "short" \/ (BaseOf[r] # NoRepo /\ KindOf[BaseOf[r]] = "short")

\* A task and a drafter that were stored are there, both, whichever was stored
\* first, as long as the profile is not removed: in the file that is named for the
\* model. Where the user has another of it, that one may be loaded instead.
SettingsAreKept ==
    ~collided => \A r \in Repo : \A p \in Loads(r) : p = files[FileOf[r]] =>
        chosen[r].task \subseteq {p.task} /\ chosen[r].link \subseteq {p.link}

\* Two tools that write and link profiles, a kill, and a user who writes files of his
\* own keep every setting in the file of its model, drafters that stand alone, and no
\* broken file without a cause.
FilesAreRight ==
    /\ ProfilesTypeOK
    /\ DraftersStandAlone
    /\ BrokenHasCause
    /\ SettingsAreKept
=============================================================================
