------------------------------ MODULE Download ------------------------------
(***************************************************************************)
(* Model downloads: hf_download_start and hf_download_cancel of the bridge *)
(* (api.rs) on the shared AppState, the task that runs hf_download         *)
(* (hf_cache.rs) and its child process `hf download`, and the calls the    *)
(* model screen makes (model_manage_screen.dart), which goes away and      *)
(* comes back with the tab it is on.                                       *)
(*                                                                         *)
(* hf_download_start takes the lock of AppState to admit the call, awaits  *)
(* the size and the free disk space without it, spawns the task, and takes *)
(* the lock again to register it.  download_repo_id is written along with  *)
(* download_cancel_tx and never read.                                      *)
(***************************************************************************)
EXTENDS Naturals, FiniteSets

CONSTANTS
  Call,     \* one identity per call of hf_download_start
  NoCall    \* None

ASSUME CallAssumption == NoCall \notin Call

VARIABLES
  downloadTask,  \* AppState.download_task: the call whose task it holds
  cancelTx,      \* AppState.download_cancel_tx: the call whose sender it holds
  call,          \* the call of hf_download_start
  task,          \* its task
  cancel,        \* calls whose watch channel says true
  aborted,       \* calls whose task has been aborted
  child,         \* calls whose process `hf download` exists
  hurried        \* history: calls the user did not wait for: neither to return
                 \* before a cancel nor to be over before the next call

downloadVars == <<downloadTask, cancelTx, call, task, cancel, aborted, child, hurried>>

\* A task that still has to take the lock at its end.
Pending == {"spawned", "reading", "killing", "ending"}

DownloadTypeOK ==
  /\ downloadTask \in Call \cup {NoCall}
  /\ cancelTx \in Call \cup {NoCall}
  /\ call \in [Call -> {"new", "checking", "spawned", "returned", "refused"}]
  /\ task \in [Call -> Pending \cup {"none", "ended", "dropped"}]
  /\ cancel \subseteq Call
  /\ aborted \subseteq Call
  /\ child \subseteq Call
  /\ hurried \subseteq Call

DownloadInit ==
  /\ downloadTask = NoCall
  /\ cancelTx = NoCall
  /\ call = [c \in Call |-> "new"]
  /\ task = [c \in Call |-> "none"]
  /\ cancel = {}
  /\ aborted = {}
  /\ child = {}
  /\ hurried = {}

-----------------------------------------------------------------------------
(* hf_download_start *)

UnderWay == {c \in Call : call[c] \in {"checking", "spawned"}}

\* A call of the user before the last one and what it has spawned are over.
HurriesStart ==
  hurried' = hurried \cup UnderWay \cup child \cup {c \in Call : task[c] \in Pending}

HurriesCancel == hurried' = hurried \cup UnderWay

\* A plausible fault: an old sender is kept.
AdmitsKeepingSender(c) ==
  /\ HurriesStart
  /\ call[c] = "new"
  /\ downloadTask = NoCall
  /\ call' = [call EXCEPT ![c] = "checking"]
  /\ cancelTx' = IF cancelTx = NoCall THEN c ELSE cancelTx
  /\ UNCHANGED <<downloadTask, task, cancel, aborted, child>>

\* The first lock: a call is admitted if no task is registered.
Admits(c) ==
  /\ HurriesStart
  /\ call[c] = "new"
  /\ downloadTask = NoCall
  /\ call' = [call EXCEPT ![c] = "checking"]
  /\ cancelTx' = c
  /\ UNCHANGED <<downloadTask, task, cancel, aborted, child>>

Refuses(c) ==
  /\ HurriesStart
  /\ call[c] = "new"
  /\ downloadTask # NoCall
  /\ call' = [call EXCEPT ![c] = "refused"]
  /\ UNCHANGED <<downloadTask, cancelTx, task, cancel, aborted, child>>

\* The size or the free space is not known, or the disk is too small: the call
\* returns, its sender stays.
CheckFails(c) ==
  /\ call[c] = "checking"
  /\ call' = [call EXCEPT ![c] = "refused"]
  /\ UNCHANGED <<downloadTask, cancelTx, task, cancel, aborted, child, hurried>>

\* The task is spawned and may run from now on ...
Spawns(c) ==
  /\ call[c] = "checking"
  /\ call' = [call EXCEPT ![c] = "spawned"]
  /\ task' = [task EXCEPT ![c] = "spawned"]
  /\ UNCHANGED <<downloadTask, cancelTx, cancel, aborted, child, hurried>>

\* ... and is registered under the second lock.
Registers(c) ==
  /\ call[c] = "spawned"
  /\ call' = [call EXCEPT ![c] = "returned"]
  /\ downloadTask' = c
  /\ UNCHANGED <<cancelTx, task, cancel, aborted, child, hurried>>

-----------------------------------------------------------------------------
(* The task: hf_download and what follows it *)

Moves(c, from, to) ==
  /\ task[c] = from
  /\ task' = [task EXCEPT ![c] = to]

\* The child is spawned.
ChildStarts(c) ==
  /\ Moves(c, "spawned", "reading")
  /\ child' = child \cup {c}
  /\ UNCHANGED <<downloadTask, cancelTx, call, cancel, aborted, hurried>>

\* There is no uv, or it cannot be run.
NoChild(c) ==
  /\ Moves(c, "spawned", "ending")
  /\ UNCHANGED <<downloadTask, cancelTx, call, cancel, aborted, child, hurried>>

\* A plausible fault: the cancel channel is looked at once the child is gone.
SeesCancelLate(c) ==
  /\ c \in cancel \ child
  /\ Moves(c, "reading", "killing")
  /\ UNCHANGED <<downloadTask, cancelTx, call, cancel, aborted, child, hurried>>

\* The head of the loop: cancelled.  kill() sends SIGKILL and awaits the end of the child.
SeesCancel(c) ==
  /\ c \in cancel
  /\ Moves(c, "reading", "killing")
  /\ child' = child \ {c}
  /\ UNCHANGED <<downloadTask, cancelTx, call, cancel, aborted, hurried>>

\* ... and so does a line that says gated or unauthorized.
SeesRefusal(c) ==
  /\ c \in child
  /\ Moves(c, "reading", "killing")
  /\ child' = child \ {c}
  /\ UNCHANGED <<downloadTask, cancelTx, call, cancel, aborted, hurried>>

Killed(c) ==
  /\ Moves(c, "killing", "ending")
  /\ UNCHANGED <<downloadTask, cancelTx, call, cancel, aborted, child, hurried>>

\* The child is gone, or has closed its output and is waited for.
SeesExit(c) ==
  /\ c \notin child
  /\ Moves(c, "reading", "ending")
  /\ UNCHANGED <<downloadTask, cancelTx, call, cancel, aborted, child, hurried>>

\* The output of the child cannot be read: the task gives up, the child goes on.
ReadFails(c) ==
  /\ Moves(c, "reading", "ending")
  /\ UNCHANGED <<downloadTask, cancelTx, call, cancel, aborted, child, hurried>>

\* The last lock: whatever is registered now is cleared.
Leave(c) ==
  /\ Moves(c, "ending", "ended")
  /\ downloadTask' = NoCall
  /\ cancelTx' = NoCall
  /\ UNCHANGED <<call, cancel, aborted, child, hurried>>

\* An aborted task is dropped at its next await; its child is not (tokio kills a
\* dropped child only with kill_on_drop).
Dropped(c) ==
  /\ c \in aborted
  /\ task[c] \in {"spawned", "reading", "killing"}
  /\ task' = [task EXCEPT ![c] = "dropped"]
  /\ UNCHANGED <<downloadTask, cancelTx, call, cancel, aborted, child, hurried>>

\* The child ends by itself.
ChildExits(c) ==
  /\ c \in child
  /\ child' = child \ {c}
  /\ UNCHANGED <<downloadTask, cancelTx, call, task, cancel, aborted, hurried>>

-----------------------------------------------------------------------------
(* hf_download_cancel *)

\* The sender says true, and the task that is registered is aborted; without a
\* sender there is nothing to cancel.
Cancels ==
  /\ HurriesCancel
  /\ cancelTx # NoCall
  /\ cancelTx' = NoCall
  /\ cancel' = cancel \cup {cancelTx}
  /\ aborted' = aborted \cup ({downloadTask} \cap Call)
  /\ downloadTask' = NoCall
  /\ UNCHANGED <<call, task, child>>

-----------------------------------------------------------------------------

\* What the task does in any case, and what the child and its output may make of it.
TaskRuns(c) ==
  \/ ChildStarts(c) \/ NoChild(c)
  \/ SeesCancel(c) \/ Killed(c) \/ SeesExit(c)
  \/ Leave(c) \/ Dropped(c)

TaskStep(c) == TaskRuns(c) \/ SeesRefusal(c) \/ ReadFails(c)

DownloadNext ==
  \/ \E c \in Call :
       \/ Admits(c) \/ Refuses(c) \/ CheckFails(c) \/ Spawns(c) \/ Registers(c)
       \/ TaskStep(c) \/ ChildExits(c)
  \/ Cancels

DownloadSpec == DownloadInit /\ [][DownloadNext]_downloadVars

-----------------------------------------------------------------------------
(* Properties *)

\* A task at work can be cancelled, and keeps another download from starting: it is
\* registered together with its sender, whatever failed or was cancelled before.
ActiveIsCancellable ==
  hurried = {} => \A c \in Call : call[c] = "returned" /\ task[c] \in Pending \ {"ending"} =>
    c \in aborted \/ (downloadTask = c /\ cancelTx = c)

\* A download that was cancelled has no process left once its task is gone.
CancelEndsChild ==
  \A c \in Call : c \in cancel /\ task[c] \in {"ended", "dropped"} => c \notin child

\* A cancel is never lost, however early it comes: the task ends, or never starts.
CancelHolds ==
  \A c \in Call : c \in cancel ~> [](task[c] \notin {"spawned", "reading", "killing"})

\* The registers of the bridge hold the download that is at work, so that a cancel
\* reaches it and no second one starts.
DownloadIsHeld ==
    /\ DownloadTypeOK
    /\ ActiveIsCancellable

-----------------------------------------------------------------------------
(* DownloadFairness: the runtime runs every call and every task, and wakes the loop   *)
(* of hf_download every 100 ms; nothing is assumed of the child or its output.*)

DownloadFairness ==
  \A c \in Call :
    /\ WF_downloadVars(CheckFails(c) \/ Spawns(c))
    /\ WF_downloadVars(Registers(c))
    /\ WF_downloadVars(TaskRuns(c))

DownloadFairSpec == DownloadSpec /\ DownloadFairness
=============================================================================
