---------------------------- MODULE BenchSession ----------------------------
(***************************************************************************)
(* Benchmark sessions as the app sees them: the calls bench_start,         *)
(* bench_events and bench_abort of the bridge (api.rs) on the shared       *)
(* AppState (state.rs), the task each session runs in, the sender that     *)
(* bench.rs keeps for an abort, the row of the session in the database,    *)
(* and the bench screen (bench_screen.dart) that calls them.               *)
(*                                                                         *)
(* bench_start takes the lock of AppState twice, and the task takes it     *)
(* once more when it ends; between those the other calls run.  Inside a    *)
(* session a cycle is only begun and ended: BenchCycle has the rest.       *)
(* bench_profile_id is set and cleared together with bench_task.           *)
(***************************************************************************)
EXTENDS Naturals, FiniteSets

CONSTANTS
  Run,        \* one identity per call of bench_start
  NoRun       \* None

ASSUME RunAssumption == NoRun \notin Run

VARIABLES
  benchTask,  \* AppState.bench_task: the run whose task it holds, or NoRun
  eventsTx,   \* AppState.bench_events_tx: the run whose channel it holds
  abortTx,    \* ACTIVE_BENCH_ABORT_TX: the run whose sender it holds
  call,       \* the call of bench_start
  mode,       \* FrbBenchMode of the call
  work,       \* the spawned task
  cancelled,  \* runs whose task has been aborted
  row,        \* the row of runs that bench_start has allocated
  screen,     \* the screen shows a measurement (_running)
  awaiting,   \* the runs whose bench_start this screen is waiting for
  eventSub,   \* _eventSub: the run whose channel the last subscription is for
  listening,  \* the runs of all subscriptions that have not been cancelled
  heard,      \* a RunFinished is on its way to the screen
  hurried     \* history: runs whose bench_start the user did not wait for

stateVars == <<benchTask, eventsTx, abortTx>>
taskVars == <<work, cancelled, row>>
screenVars == <<screen, awaiting, eventSub, listening, heard>>
vars == <<stateVars, call, mode, taskVars, screenVars, hurried>>

\* A task that is at work; "stranded" waits for the port of a server that is gone,
\* "closing" has sent Stop and waits for Idle.
AtWork == {"begun", "cycle", "stranded", "closing", "recording", "tail"}

TypeOK ==
  /\ benchTask \in Run \cup {NoRun}
  /\ eventsTx \in Run \cup {NoRun}
  /\ abortTx \in Run \cup {NoRun}
  /\ call \in [Run -> {"new", "called", "admitted", "returned", "refused"}]
  /\ mode \in [Run -> {"single", "sweep"}]
  /\ work \in [Run -> AtWork \cup {"none", "ended", "dropped"}]
  /\ cancelled \subseteq Run
  /\ row \in [Run -> {"none", "running", "finished"}]
  /\ screen \in BOOLEAN
  /\ awaiting \subseteq Run
  /\ eventSub \in Run \cup {NoRun}
  /\ listening \subseteq Run
  /\ heard \in BOOLEAN
  /\ hurried \subseteq Run

Init ==
  /\ benchTask = NoRun
  /\ eventsTx = NoRun
  /\ abortTx = NoRun
  /\ call = [r \in Run |-> "new"]
  /\ mode \in [Run -> {"single", "sweep"}]
  /\ work = [r \in Run |-> "none"]
  /\ cancelled = {}
  /\ row = [r \in Run |-> "none"]
  /\ screen = FALSE
  /\ awaiting = {}
  /\ eventSub = NoRun
  /\ listening = {}
  /\ heard = FALSE
  /\ hurried = {}

-----------------------------------------------------------------------------
(* bench_start *)

\* A call of bench_start has not returned when the user acts.
Hurries == hurried' = hurried \cup {r \in Run : call[r] \in {"called", "admitted"}}

\* The screen takes a new run and cancels the last subscription.
Presses(r) ==
  /\ ~screen
  /\ call[r] = "new"
  /\ Hurries
  /\ call' = [call EXCEPT ![r] = "called"]
  /\ screen' = TRUE
  /\ awaiting' = awaiting \cup {r}
  /\ listening' = listening \ {eventSub}
  /\ UNCHANGED <<stateVars, mode, taskVars, eventSub, heard>>

\* An Err reaches the screen that made the call, if it is still there.
Refused(r) ==
  /\ call' = [call EXCEPT ![r] = "refused"]
  /\ screen' = (screen /\ r \notin awaiting)
  /\ awaiting' = awaiting \ {r}
  /\ UNCHANGED <<benchTask, abortTx, mode, taskVars, eventSub, listening, heard, hurried>>

RefusesBusy(r) ==
  /\ call[r] = "called"
  /\ benchTask # NoRun
  /\ Refused(r)
  /\ UNCHANGED eventsTx

\* A bad profile, task or path: the new channel has replaced the old one already.
RefusesInput(r) ==
  /\ call[r] = "called"
  /\ benchTask = NoRun
  /\ Refused(r)
  /\ eventsTx' = r

\* The first lock: a new channel and a row for the run.
Admits(r) ==
  /\ call[r] = "called"
  /\ benchTask = NoRun
  /\ call' = [call EXCEPT ![r] = "admitted"]
  /\ eventsTx' = r
  /\ row' = [row EXCEPT ![r] = "running"]
  /\ UNCHANGED <<benchTask, abortTx, mode, work, cancelled, screenVars, hurried>>

\* A plausible fault: the handle is not kept.
SpawnsDetached(r) ==
  /\ call[r] = "admitted"
  /\ call' = [call EXCEPT ![r] = "returned"]
  /\ work' = [work EXCEPT ![r] = "begun"]
  /\ UNCHANGED <<stateVars, mode, cancelled, row, screenVars, hurried>>

\* The second lock: the task is spawned and registered; bench_start returns.
Spawns(r) ==
  /\ call[r] = "admitted"
  /\ call' = [call EXCEPT ![r] = "returned"]
  /\ work' = [work EXCEPT ![r] = "begun"]
  /\ benchTask' = r
  /\ UNCHANGED <<eventsTx, abortTx, mode, cancelled, row, screenVars, hurried>>

-----------------------------------------------------------------------------
(* The task of a session *)

Moves(r, from, to) ==
  /\ work[r] = from
  /\ work' = [work EXCEPT ![r] = to]

\* run_single_with_id registers its handle for an abort and sends Start.
BeginsCycle(r) ==
  /\ Moves(r, "begun", "cycle")
  /\ abortTx' = r
  /\ UNCHANGED <<benchTask, eventsTx, call, mode, cancelled, row, screenVars, hurried>>

\* finalize_cycle; a load timeout goes round it and leaves the sender.
EndsCycle(r) ==
  /\ Moves(r, "cycle", "closing")
  /\ abortTx' \in {NoRun, abortTx}
  /\ UNCHANGED <<benchTask, eventsTx, call, mode, cancelled, row, screenVars, hurried>>

\* The server dies between Ready and the reading of its port, for which the task then
\* waits for ever (BenchCycle, PortWaitEnds): only an abort gets it out.
Strands(r) ==
  /\ Moves(r, "cycle", "stranded")
  /\ UNCHANGED <<stateVars, call, mode, cancelled, row, screenVars, hurried>>

\* The server is idle; nothing of the rest waits.
Closes(r) ==
  /\ Moves(r, "closing", "recording")
  /\ UNCHANGED <<stateVars, call, mode, cancelled, row, screenVars, hurried>>

\* A single run records its row and announces its end to whoever listens now.
Finishes(r) ==
  /\ mode[r] = "single"
  /\ Moves(r, "recording", "tail")
  /\ row' = [row EXCEPT ![r] = "finished"]
  /\ heard' = (heard \/ r \in listening)
  /\ UNCHANGED <<stateVars, call, mode, cancelled, screen, awaiting, eventSub, listening, hurried>>

\* A sweep has a row for each step, none of them the one of the session; it goes
\* on to the next step ...
SweepGoesOn(r) ==
  /\ mode[r] = "sweep"
  /\ Moves(r, "recording", "begun")
  /\ UNCHANGED <<stateVars, call, mode, cancelled, row, screenVars, hurried>>

\* ... or ends, after the last step, a failed one or with all of them skipped, and
\* announces nothing.
SweepEnds(r) ==
  /\ mode[r] = "sweep"
  /\ Moves(r, "recording", "tail") \/ Moves(r, "begun", "tail")
  /\ UNCHANGED <<stateVars, call, mode, cancelled, row, screenVars, hurried>>

\* An Err of the database, the prompt or the client: logged, nothing else.
Fails(r) ==
  /\ Moves(r, "begun", "tail") \/ Moves(r, "cycle", "tail") \/ Moves(r, "recording", "tail")
  /\ UNCHANGED <<stateVars, call, mode, cancelled, row, screenVars, hurried>>

\* A plausible fault: the session stays registered.
LeavesRegistered(r) ==
  /\ Moves(r, "tail", "ended")
  /\ eventsTx' = NoRun
  /\ UNCHANGED <<benchTask, abortTx, call, mode, cancelled, row, screenVars, hurried>>

\* The last lock: whatever is registered now is cleared.
Leave(r) ==
  /\ Moves(r, "tail", "ended")
  /\ benchTask' = NoRun
  /\ eventsTx' = NoRun
  /\ UNCHANGED <<abortTx, call, mode, cancelled, row, screenVars, hurried>>

\* An aborted task is dropped at its next await.
Dropped(r) ==
  /\ r \in cancelled
  /\ work[r] \in {"begun", "cycle", "stranded", "closing"}
  /\ work' = [work EXCEPT ![r] = "dropped"]
  /\ UNCHANGED <<stateVars, call, mode, cancelled, row, screenVars, hurried>>

-----------------------------------------------------------------------------
(* bench_events, bench_abort and the screen *)

\* bench_start has returned: the screen calls bench_events, which fails without a
\* channel; nothing in the screen reacts to that.
Subscribes(r) ==
  /\ r \in awaiting
  /\ call[r] = "returned"
  /\ awaiting' = awaiting \ {r}
  /\ eventSub' = eventsTx
  /\ listening' = listening \cup ({eventsTx} \cap Run)
  /\ UNCHANGED <<stateVars, call, mode, taskVars, screen, heard, hurried>>

\* RunFinished reaches the screen.
Hears ==
  /\ heard
  /\ heard' = FALSE
  /\ screen' = FALSE
  /\ UNCHANGED <<stateVars, call, mode, taskVars, awaiting, eventSub, listening, hurried>>

\* A plausible fault: the task is aborted, but stays registered.
AbortsKeepingTask ==
  /\ screen
  /\ Hurries
  /\ cancelled' = cancelled \cup ({benchTask} \cap Run)
  /\ eventsTx' = NoRun
  /\ screen' = FALSE
  /\ UNCHANGED <<benchTask, abortTx, call, mode, work, row, awaiting, eventSub, listening, heard>>

\* bench_abort: the task that is registered, if there is one, is aborted.
Aborts ==
  /\ screen
  /\ Hurries
  /\ cancelled' = cancelled \cup ({benchTask} \cap Run)
  /\ benchTask' = NoRun
  /\ eventsTx' = NoRun
  /\ screen' = FALSE
  /\ UNCHANGED <<abortTx, call, mode, work, row, awaiting, eventSub, listening, heard>>

\* The user opens another tab and comes back: the screen is a new one.
Reopens ==
  /\ Hurries
  /\ screen' = FALSE
  /\ awaiting' = {}
  /\ eventSub' = NoRun
  /\ listening' = {}
  /\ heard' = FALSE
  /\ UNCHANGED <<stateVars, call, mode, taskVars>>

-----------------------------------------------------------------------------

TaskStep(r) ==
  \/ BeginsCycle(r) \/ EndsCycle(r) \/ Strands(r) \/ Closes(r)
  \/ Finishes(r) \/ SweepGoesOn(r) \/ SweepEnds(r) \/ Fails(r)
  \/ Leave(r) \/ Dropped(r)

CallStep(r) ==
  RefusesBusy(r) \/ RefusesInput(r) \/ Admits(r) \/ Spawns(r) \/ Subscribes(r)

Next ==
  \/ \E r \in Run : Presses(r) \/ CallStep(r) \/ TaskStep(r)
  \/ Hears \/ Aborts \/ Reopens

Spec == Init /\ [][Next]_vars

-----------------------------------------------------------------------------
(* Properties *)

\* bench_task holds a task that will still clear it, never one that has ended: a
\* stale one would refuse every later bench_start (comment in bench_start).
NoStaleTask == benchTask # NoRun => work[benchTask] \in AtWork /\ benchTask \notin cancelled

\* Without an abort, and for a user who waits for bench_start to return, a session
\* at work is the one that is registered, so that a second one is refused, a
\* subscription is to its channel, and an abort reaches the handle of its cycle.
PatientIsExclusive ==
  hurried = {} /\ cancelled = {} =>
    \A r \in Run : work[r] \in AtWork =>
      /\ benchTask = r /\ eventsTx = r
      /\ work[r] \in {"cycle", "stranded"} => abortTx = r

\* One session at a time, and an abort reaches it ("bench already running").
OneSession ==
  \A r \in Run : work[r] \in AtWork \ {"tail"} /\ r \notin cancelled => benchTask = r

\* Every session that is registered ends or is aborted, and leaves the register; unless
\* a cycle of it waits for the port of a server that is gone.
SessionEnds == \A r \in Run : benchTask = r ~> benchTask # r \/ work[r] = "stranded"

\* The registers hold what they are for, and never a task that is over or aborted:
\* no end of a session, of whatever kind, keeps the next one out for good.
RegisterIsKept ==
    /\ TypeOK
    /\ NoStaleTask

-----------------------------------------------------------------------------
(* Fairness: the runtime runs every call and every task; a cycle ends or is     *)
(* stranded (RunEnds of BenchCycle), a sweep has finitely many steps, the app   *)
(* reads its events.                                                            *)

Fairness ==
  /\ \A r \in Run :
       /\ WF_vars(CallStep(r))
       /\ WF_vars(TaskStep(r))
       /\ SF_vars(SweepEnds(r))
  /\ WF_vars(Hears)

FairSpec == Spec /\ Fairness
=============================================================================
