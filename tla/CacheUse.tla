------------------------------ MODULE CacheUse ------------------------------
(***************************************************************************)
(* The cache of models and those who use it: the chat server and the       *)
(* benchmark, which read a model and fetch it themselves when it is not    *)
(* there; hf_download_start, which looks at the disk first; cache_delete,  *)
(* which asks AppState whether a model is in use; and the model screen,    *)
(* which lists what a scan has found.  Each looks first and acts later,    *)
(* and what is stopped or cancelled may still fetch for a while.           *)
(* One download at a time: the module Download has two.                    *)
(***************************************************************************)
EXTENDS Integers, FiniteSets, FiniteSetsExt

CONSTANTS Model,      \* models
          SizeOf,     \* what one takes on the disk: an even number of units
          Reported,   \* what the hub says of the sizes of its files
          NoModel,    \* None
          Disk,       \* what the disk of the cache holds
          Elsewhere,  \* what is free on the other disk that has the most
          Reserve,    \* DISK_RESERVE_GB
          MaxActs     \* bound: what the user does

ASSUME CacheAssumption ==
    /\ IsFiniteSet(Model) /\ NoModel \notin Model
    /\ SizeOf \in [Model -> Nat \ {0}] /\ \A r \in Model : SizeOf[r] % 2 = 0
    /\ \A r \in Model : Reported[r] \in 0..SizeOf[r]
    /\ Elsewhere \in Nat /\ Disk \in Nat /\ Reserve \in Nat /\ MaxActs \in Nat

VARIABLES stored,     \* what is on the disk of each model
          inUse,      \* serve_profile_id and bench_profile_id
          server,     \* the process of each: its model, and how far it is
          strays,     \* models that processes may fetch which the bridge has forgotten
          deleting,   \* cache_delete: its model, and how far it is
          download,   \* hf_download_start and its task: its model, and how far it is
          scans,      \* the loads of the screen: where each is and what its scan found
          listed,     \* _repos of the screen
          acts,
          hurried,    \* history: the user has acted on the screen while something was pending
          raced,      \* history: those whose model was being deleted when they were started
          crowded,    \* history: another has fetched since the disk was looked at
          unfollowed  \* history: models fetched without the screen, or beyond its cancel

histories == <<hurried, raced, crowded, unfollowed>>
cacheVars == <<stored, inUse, server, strays, deleting, download, scans, listed, acts, histories>>

Reader == {"chat", "bench"}
Load == 1 .. 2
Idle == [repo |-> NoModel, at |-> "none"]
At(r, where) == [repo |-> r, at |-> where]
Free == Disk - MapThenSumSet(LAMBDA r : stored[r], Model)
Whole(r) == stored[r] = SizeOf[r]
Cached == {r \in Model : stored[r] > 0}
Pending == deleting # Idle \/ download # Idle \/ \E l \in Load : scans[l].at # "none"

CacheInit ==
    /\ \E rs \in SUBSET Model : stored = [r \in Model |-> IF r \in rs THEN SizeOf[r] ELSE 0]
    /\ Free >= 0
    /\ inUse = [u \in Reader |-> NoModel] /\ server = [u \in Reader |-> Idle] /\ strays = {}
    /\ deleting = Idle /\ download = Idle
    /\ scans = [l \in Load |-> [at |-> "none", found |-> {}]]
    /\ listed = Cached
    /\ acts = 0 /\ hurried = FALSE /\ raced = {} /\ crowded = FALSE /\ unfollowed = {}

Acts == acts < MaxActs /\ acts' = acts + 1
\* What the user does on the screen.
ActsThere == Acts /\ hurried' = (hurried \/ Pending) /\ UNCHANGED <<raced, crowded, unfollowed>>

\* _load: the list is replaced when its scan is back.
BeginsLoad ==
    \E l \in Load :
        /\ scans[l].at = "none"
        /\ scans' = [scans EXCEPT ![l] = [at |-> "scanning", found |-> {}]]
\* What has ended calls for a load, unless the screen was left in between.
LoadsAgain == BeginsLoad \/ (hurried /\ UNCHANGED scans)

-----------------------------------------------------------------------------
(* The servers. *)

\* serve_start and bench_start register the profile before the server looks for it; a
\* process of the one before may still be dying.
Starts(u, r) ==
    /\ inUse[u] = NoModel
    /\ Acts
    /\ inUse' = [inUse EXCEPT ![u] = r]
    /\ server' = [server EXCEPT ![u] = At(r, "loading")]
    /\ raced' = IF deleting.repo = r THEN raced \cup {u} ELSE raced \ {u}
    /\ UNCHANGED <<stored, strays, deleting, download, scans, listed, hurried, crowded, unfollowed>>

\* The next cycle of a sweep or of a search.
StartsAgain ==
    /\ inUse["bench"] # NoModel /\ server["bench"] = Idle
    /\ server' = [server EXCEPT !["bench"] = At(inUse["bench"], "loading")]
    /\ UNCHANGED <<stored, inUse, strays, deleting, download, scans, listed, acts, histories>>

\* _resolve_model_path: what is not in the cache is fetched by the server itself.
Resolves(u) ==
    /\ server[u].at = "loading"
    /\ server' = [server EXCEPT ![u].at = IF Whole(server[u].repo) THEN "reading" ELSE "fetching"]
    /\ UNCHANGED <<stored, inUse, strays, deleting, download, scans, listed, acts, histories>>

\* Half of a model comes, to what is there already.
Grows(r) ==
    /\ ~Whole(r) /\ Free >= SizeOf[r] \div 2
    /\ stored' = [stored EXCEPT ![r] = @ + SizeOf[r] \div 2]

\* It comes beside the downloads of the screen.
GrowsAside(r) ==
    /\ Grows(r)
    /\ crowded' = TRUE /\ unfollowed' = unfollowed \cup {r}
    /\ UNCHANGED <<hurried, raced>>

ServerFetches(u) ==
    /\ server[u].at = "fetching"
    /\ \/ GrowsAside(server[u].repo) /\ UNCHANGED server
       \/ /\ Whole(server[u].repo)
          /\ server' = [server EXCEPT ![u].at = "reading"]
          /\ UNCHANGED <<stored, histories>>
    /\ UNCHANGED <<inUse, strays, deleting, download, scans, listed, acts>>

\* serve_stop, bench_abort and the end of a benchmark forget the profile, and the
\* process, which dies later.
Stops(u) ==
    /\ inUse[u] # NoModel
    /\ inUse' = [inUse EXCEPT ![u] = NoModel]
    /\ server' = [server EXCEPT ![u] = Idle]
    /\ strays' = strays \cup {r \in Model : \E at \in {"loading", "fetching"} : server[u] = At(r, at)}
    /\ UNCHANGED <<stored, deleting, download, scans, listed, acts, histories>>

\* A process ends by itself, or between two cycles.
ServerEnds(u) ==
    /\ server[u] # Idle
    /\ server' = [server EXCEPT ![u] = Idle]
    /\ UNCHANGED <<stored, inUse, strays, deleting, download, scans, listed, acts, histories>>

StrayFetches(r) ==
    /\ r \in strays
    /\ \/ GrowsAside(r) /\ UNCHANGED strays
       \/ strays' = strays \ {r} /\ UNCHANGED <<stored, histories>>
    /\ UNCHANGED <<inUse, server, deleting, download, scans, listed, acts>>

-----------------------------------------------------------------------------
(* Deletion and download. *)

\* A plausible fault: only the chat server is asked about.
InChat(r) == inUse["chat"] = r

\* repo_in_active_use.
InActiveUse(r) == \E u \in Reader : inUse[u] = r

AsksDelete(r) ==
    /\ deleting = Idle
    /\ ActsThere
    /\ deleting' = IF InActiveUse(r) THEN Idle ELSE At(r, "asked")
    /\ UNCHANGED <<stored, inUse, server, strays, download, scans, listed>>

\* hf_cache.py delete: it scans the cache.  What is not there is not deleted, of which
\* the screen takes no notice: it says that the model is deleted, and loads its list.
ScansForDelete ==
    /\ deleting.at = "asked"
    /\ IF stored[deleting.repo] > 0
       THEN deleting' = At(deleting.repo, "found") /\ UNCHANGED scans
       ELSE deleting' = Idle /\ LoadsAgain
    /\ UNCHANGED <<stored, inUse, server, strays, download, listed, acts, histories>>

\* The files go.
Deletes ==
    /\ deleting.at = "found"
    /\ stored' = [stored EXCEPT ![deleting.repo] = 0]
    /\ deleting' = Idle
    /\ LoadsAgain
    /\ UNCHANGED <<inUse, server, strays, download, listed, acts, histories>>

\* The files cannot be removed, which the screen does not notice either, or the tool
\* does not run, which it does.
DeleteFails ==
    /\ \/ deleting.at = "found" /\ LoadsAgain
       \/ deleting.at \in {"asked", "found"} /\ UNCHANGED scans
    /\ deleting' = Idle
    /\ UNCHANGED <<stored, inUse, server, strays, download, listed, acts, histories>>

AsksDownload(r) ==
    /\ download = Idle
    /\ ActsThere
    /\ download' = At(r, "checking")
    /\ UNCHANGED <<stored, inUse, server, strays, deleting, scans, listed>>

\* hf_model_size: a file of which the hub tells no size counts for nothing.
HfModelSize(r) == Reported[r]
\* disk_usage: the most that is free on any disk, the cache's or another.
Available == IF Free < Elsewhere THEN Elsewhere ELSE Free

\* check_disk_for_download: a fifth more than the model takes, and the reserve.
Required(r) == (HfModelSize(r) * 12) \div 10 + Reserve

\* The size is asked for and the disks are looked at without the lock, then the task
\* runs.
ChecksDisk ==
    /\ download.at = "checking"
    /\ download' = IF Available < Required(download.repo) THEN Idle ELSE At(download.repo, "running")
    /\ crowded' = FALSE
    /\ UNCHANGED <<stored, inUse, server, strays, deleting, scans, listed, acts, hurried, raced, unfollowed>>

Downloads ==
    /\ download.at = "running"
    /\ Grows(download.repo)
    /\ UNCHANGED <<inUse, server, strays, deleting, download, scans, listed, acts, histories>>

\* The screen loads its list again after a download that has succeeded only.
DownloadEnds ==
    /\ download.at = "running"
    /\ \/ Whole(download.repo) /\ LoadsAgain
       \/ ~Whole(download.repo) /\ UNCHANGED scans
    /\ download' = Idle
    /\ UNCHANGED <<stored, inUse, server, strays, deleting, listed, acts, histories>>

\* _cancelDownload does not load the list; the child of a download that runs goes on.
CancelsDownload ==
    /\ download # Idle
    /\ Acts
    /\ download' = Idle
    /\ LET left == {r \in Model : download = At(r, "running")}
       IN  strays' = strays \cup left /\ unfollowed' = unfollowed \cup left
    /\ UNCHANGED <<stored, inUse, server, deleting, scans, listed, hurried, raced, crowded>>

-----------------------------------------------------------------------------
(* The list of the screen. *)

ScansCache(l) ==
    /\ scans[l].at = "scanning"
    /\ scans' = [scans EXCEPT ![l] = [at |-> "scanned", found |-> Cached]]
    /\ UNCHANGED <<stored, inUse, server, strays, deleting, download, listed, acts, histories>>

ShowsList(l) ==
    /\ scans[l].at = "scanned"
    /\ listed' = scans[l].found
    /\ scans' = [scans EXCEPT ![l] = [at |-> "none", found |-> {}]]
    /\ UNCHANGED <<stored, inUse, server, strays, deleting, download, acts, histories>>

\* A screen that is left takes no results; the next one begins with a load.
Reopens ==
    /\ ActsThere
    /\ listed' = {}
    /\ scans' = [l \in Load |-> [at |-> IF l = 1 THEN "scanning" ELSE "none", found |-> {}]]
    /\ UNCHANGED <<stored, inUse, server, strays, deleting, download>>

CacheNext ==
    \/ \E u \in Reader : \/ \E r \in Model : Starts(u, r)
                       \/ Resolves(u) \/ ServerFetches(u) \/ Stops(u) \/ ServerEnds(u)
    \/ StartsAgain
    \/ \E r \in Model : StrayFetches(r) \/ AsksDelete(r) \/ AsksDownload(r)
    \/ ScansForDelete \/ Deletes \/ DeleteFails
    \/ ChecksDisk \/ Downloads \/ DownloadEnds \/ CancelsDownload
    \/ \E l \in Load : ScansCache(l) \/ ShowsList(l)
    \/ Reopens

CacheSpec == CacheInit /\ [][CacheNext]_cacheVars
-----------------------------------------------------------------------------
(* Properties. *)

CacheTypeOK ==
    /\ \A r \in Model : stored[r] \in {0, SizeOf[r] \div 2, SizeOf[r]}
    /\ Free >= 0 /\ listed \subseteq Model
    /\ \A u \in Reader : inUse[u] # NoModel /\ server[u] # Idle => server[u].repo = inUse[u]

\* The model of a server that the bridge knows is in the cache once the server has
\* found it there, whatever deletions are asked for in between: all but one that was
\* asked for before, and has passed its question, when the server was started.
UsedIsCached ==
    \A u \in Reader \ raced :
        server[u].at = "reading" /\ inUse[u] # NoModel => Whole(server[u].repo)

\* A download that was let in because there was room on the disk of the cache, not on
\* another, leaves the reserve of the disk until it ends, if what the hub does not tell
\* of its sizes is within the fifth that is added, and nobody has fetched beside it.
DiskKeepsReserve ==
    LET r == download.repo
    IN  /\ download.at = "running" /\ ~crowded
        /\ Elsewhere < Required(r) /\ (Reported[r] * 12) \div 10 >= SizeOf[r]
        => Free >= Reserve

\* When nothing is under way the list shows every model that is whole, and none that is
\* gone, for a user who does one thing at a time; a model that a server, or a download
\* after its cancel, has fetched need not be shown.
ListIsCurrent ==
    ~Pending /\ ~hurried =>
        {r \in Model \ unfollowed : Whole(r)} \subseteq listed /\ listed \subseteq Cached

\* Deletions, downloads, servers and lists of the cache leave each other what they
\* rely on: a model in use, the reserve of the disk, a list that is true.
CacheIsRight ==
    /\ CacheTypeOK
    /\ UsedIsCached
    /\ DiskKeepsReserve
    /\ ListIsCurrent
=============================================================================
