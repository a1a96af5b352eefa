----------------------------- MODULE BenchCycle -----------------------------
(***************************************************************************)
(* One benchmark run (bench.rs, execute_cycle and run_single_with_id) over *)
(* a lifecycle handle of its own: the run starts the server, waits for     *)
(* Ready, measures one request, stops the server and records its status.   *)
(* It learns of the server in two ways that are not ordered with each      *)
(* other: the broadcast of events and the watch channel of the state.  The *)
(* user may abort the run from another thread at any time (api.rs,         *)
(* bench_abort).                                                           *)
(*                                                                         *)
(* The handle is Lifecycle in full; the run takes the place of its clients.*)
(***************************************************************************)
EXTENDS Lifecycle

VARIABLES
  pc,         \* where the run is
  events,     \* unread broadcast events that matter to it, oldest first
  changed,    \* the state watch channel holds a value the run has not seen
  saw,        \* saw_watchdog_kill
  measure,    \* the spawned measure_task; aborted: given up, whatever it answers
  outcome,    \* the outcome decided so far
  status,     \* the status of the row in runs
  abortTx,    \* ACTIVE_BENCH_ABORT_TX holds the sender of this handle
  cancelled   \* bench_abort was called: not, before Start was sent, or after

handleVars == <<state, active, reaping, port, armed, polled, watchdog, grace,
                alive, phase, killed, history>>
runVars == <<pc, saw, measure, outcome, status, abortTx, cancelled>>
cycleVars == <<vars, runVars, events, changed>>

\* The run has not decided its outcome yet and still reads events.
Open == {"new", "registered", "loading", "port", "measuring"}

Position == Open \cup {"measured", "finalizing", "stopping", "late", "stopped",
                       "done", "broken", "dropped"}

Outcome == {"completed", "failed", "aborted_watchdog"}

CycleTypeOK ==
  /\ TypeOK
  /\ pc \in Position
  /\ events \in Seq({"Ready", "Idle", "Kill"})
  /\ changed \in BOOLEAN /\ saw \in BOOLEAN
  /\ measure \in {"none", "running", "ok", "error", "aborted"}
  /\ outcome \in Outcome \cup {"open"}
  /\ status \in Outcome \cup {"running"}
  /\ abortTx \in BOOLEAN
  /\ cancelled \in {"no", "early", "started"}

CycleInit ==
  /\ Init
  /\ pc = "new"
  /\ events = <<>>
  /\ changed = FALSE /\ saw = FALSE
  /\ measure = "none"
  /\ outcome = "open"
  /\ status = "running"
  /\ abortTx = FALSE
  /\ cancelled = "no"

-----------------------------------------------------------------------------
(* The handle moves, and tells the run *)

\* What a step of the handle broadcasts, as far as the run cares.
Emitted ==
  IF watchdog = "watching" /\ watchdog' = "tripped" THEN <<"Kill">>
  ELSE IF state' # state /\ state' \in {"Ready", "Idle"} THEN <<state'>>
  ELSE <<>>

Observe ==
  /\ events' = IF pc \in Open THEN events \o Emitted ELSE events
  /\ changed' = (changed \/ state' # state)

HandleMoves == HandleNext /\ Observe /\ UNCHANGED runVars

-----------------------------------------------------------------------------
(* Steps of the run *)

Tell(op) ==
  /\ Len(inbox) < QueueCap
  /\ inbox' = Append(inbox, [op |-> op, by |-> NoSession])
  /\ UNCHANGED handleVars

\* Runs on unless bench_abort has cancelled the task while it was waiting.
Awake == cancelled = "no"

Registers ==
  /\ pc = "new"
  /\ pc' = "registered"
  /\ abortTx' = TRUE
  /\ UNCHANGED <<vars, events, changed, saw, measure, outcome, status, cancelled>>

\* A cancelled task gets as far as its first await that has to wait.
Starts ==
  /\ pc = "registered"
  /\ Tell("Start")
  /\ pc' = IF Awake THEN "loading" ELSE "dropped"
  /\ UNCHANGED <<events, changed, saw, measure, outcome, status, abortTx, cancelled>>

\* The loop that waits for the server ends, with the server ready or idle again.
Loaded(ready) ==
  /\ outcome' = IF saw THEN "aborted_watchdog" ELSE IF ready THEN "completed" ELSE "failed"
  /\ pc' = IF ready /\ ~saw THEN "port" ELSE "finalizing"

LoadEvent ==
  /\ pc = "loading" /\ Awake
  /\ events # <<>>
  /\ events' = Tail(events)
  /\ saw' = (saw \/ Head(events) = "Kill")
  /\ IF Head(events) = "Kill" THEN UNCHANGED <<pc, outcome>>
     ELSE Loaded(Head(events) = "Ready")
  /\ UNCHANGED <<vars, changed, measure, status, abortTx, cancelled>>

LoadState ==
  /\ pc = "loading" /\ Awake
  /\ changed
  /\ changed' = FALSE
  /\ IF state \in {"Ready", "Idle"} THEN Loaded(state = "Ready")
     ELSE UNCHANGED <<pc, outcome>>
  /\ UNCHANGED <<vars, events, saw, measure, status, abortTx, cancelled>>

\* load_timeout_sec + 30 s are over, and the loop, which timeout() polls first, has
\* nothing to read; the actor has taken the Start long ago.
LoadTimesOut ==
  /\ pc = "loading" /\ Awake
  /\ events = <<>> /\ ~changed
  /\ state # "Idle"
  /\ Tell("Stop")
  /\ outcome' = "failed"
  /\ pc' = "late"
  /\ UNCHANGED <<events, changed, saw, measure, status, abortTx, cancelled>>

\* The port is read once it is there, however long that takes; BeginWork is
\* sent and the request begins.
Measures ==
  /\ pc = "port" /\ Awake
  /\ port
  /\ Tell("BeginWork")
  /\ measure' = "running"
  /\ pc' = "measuring"
  /\ UNCHANGED <<events, changed, saw, outcome, status, abortTx, cancelled>>

\* There is no client for the request: the run ends by `?`, with its server Ready, no
\* Stop sent, its sender still registered and its row as it was.
ClientFails ==
  /\ pc = "port" /\ Awake
  /\ port
  /\ pc' = "broken"
  /\ UNCHANGED <<vars, events, changed, saw, measure, outcome, status, abortTx, cancelled>>

\* The measuring loop reads an event.
MeasureEvent ==
  /\ pc = "measuring" /\ Awake
  /\ events # <<>>
  /\ events' = Tail(events)
  /\ IF Head(events) = "Kill"
     THEN /\ saw' = TRUE
          /\ measure' = IF measure = "running" THEN "aborted" ELSE measure
          /\ outcome' = "aborted_watchdog"
          /\ pc' = "measured"
     ELSE UNCHANGED <<pc, saw, measure, outcome>>
  /\ UNCHANGED <<vars, changed, status, abortTx, cancelled>>

\* ... or gets the result of measure_task.
MeasureEnds ==
  /\ pc = "measuring" /\ Awake
  /\ measure \in {"ok", "error"}
  /\ outcome' = IF measure = "ok" THEN "completed" ELSE "failed"
  /\ pc' = "measured"
  /\ UNCHANGED <<vars, events, changed, saw, measure, status, abortTx, cancelled>>

\* A plausible fault: no error outcome, the one set at loading stays.
MeasureTimesOutCompleted ==
  /\ pc = "measuring" /\ Awake
  /\ measure' = "aborted"
  /\ pc' = "measured"
  /\ UNCHANGED <<vars, events, changed, saw, outcome, status, abortTx, cancelled>>

\* ... or runs out of time, in all or without progress; an event or an answer that
\* comes at that very moment is not read any more.
MeasureTimesOut ==
  /\ pc = "measuring" /\ Awake
  /\ measure' = "aborted"
  /\ outcome' = "failed"
  /\ pc' = "measured"
  /\ UNCHANGED <<vars, events, changed, saw, status, abortTx, cancelled>>

EndsWork ==
  /\ pc = "measured"
  /\ Tell("EndWork")
  /\ pc' = "finalizing"
  /\ UNCHANGED <<events, changed, saw, measure, outcome, status, abortTx, cancelled>>

\* A plausible fault: the server is left to itself.
FinalizesWithoutStop ==
  /\ pc = "finalizing"
  /\ abortTx' = FALSE
  /\ pc' = "stopping"
  /\ UNCHANGED <<vars, events, changed, saw, measure, outcome, status, cancelled>>

\* finalize_cycle up to its wait.
Finalizes ==
  /\ pc = "finalizing"
  /\ Tell("Stop")
  /\ abortTx' = FALSE
  /\ pc' = "stopping"
  /\ UNCHANGED <<events, changed, saw, measure, outcome, status, cancelled>>

\* A plausible fault: Stop is sent, but not awaited.
StoppedAtOnce ==
  /\ pc \in {"stopping", "late"} /\ Awake
  /\ pc' = "stopped"
  /\ UNCHANGED <<vars, events, changed, saw, measure, outcome, status, abortTx, cancelled>>

\* wait_for_state(Idle).
Stopped ==
  /\ pc \in {"stopping", "late"} /\ Awake
  /\ state = "Idle"
  /\ pc' = "stopped"
  /\ UNCHANGED <<vars, events, changed, saw, measure, outcome, status, abortTx, cancelled>>

\* Samples, results and finish_run; each may fail and leave the row as it is.
Records ==
  /\ pc = "stopped"
  /\ status' \in {outcome, status}
  /\ pc' = "done"
  /\ UNCHANGED <<vars, events, changed, saw, measure, outcome, abortTx, cancelled>>

-----------------------------------------------------------------------------
(* The request that is measured, and the user *)

\* A whole answer needs a server that lives to give it.
Answered ==
  /\ measure = "running"
  /\ active \in alive /\ phase[active] = "loaded"
  /\ measure' = "ok"
  /\ UNCHANGED <<vars, pc, events, changed, saw, outcome, status, abortTx, cancelled>>

RequestFails ==
  /\ measure = "running"
  /\ measure' = "error"
  /\ UNCHANGED <<vars, pc, events, changed, saw, outcome, status, abortTx, cancelled>>

\* A plausible fault: the task is cancelled, the server is not told.
UserAbortsTaskOnly ==
  /\ Awake
  /\ pc \notin {"stopped", "done"}
  /\ cancelled' = IF pc \in {"new", "registered"} THEN "early" ELSE "started"
  /\ UNCHANGED <<vars, pc, events, changed, saw, measure, outcome, status, abortTx>>

\* bench_abort: Abort if a sender is registered (try_send), and the task is cancelled.
UserAborts ==
  /\ Awake
  /\ pc \notin {"stopped", "done"}
  /\ cancelled' = IF pc \in {"new", "registered"} THEN "early" ELSE "started"
  /\ IF abortTx /\ Len(inbox) < QueueCap THEN Tell("Abort") ELSE UNCHANGED vars
  /\ UNCHANGED <<pc, events, changed, saw, measure, outcome, status, abortTx>>

\* A cancelled task is dropped at an await (there is none between registering
\* and Start): nothing of the rest is done, no status is recorded.
Dropped ==
  /\ ~Awake
  /\ pc \notin {"registered", "stopped", "done", "broken", "dropped"}
  /\ pc' = "dropped"
  /\ UNCHANGED <<vars, events, changed, saw, measure, outcome, status, abortTx, cancelled>>

-----------------------------------------------------------------------------

RunStep ==
  \/ Registers \/ Starts
  \/ LoadEvent \/ LoadState \/ LoadTimesOut
  \/ Measures \/ ClientFails \/ MeasureEvent \/ MeasureEnds \/ MeasureTimesOut
  \/ EndsWork \/ Finalizes \/ Stopped \/ Records

CycleNext ==
  \/ HandleMoves
  \/ RunStep
  \/ Answered \/ RequestFails
  \/ UserAborts \/ Dropped

CycleSpec == CycleInit /\ [][CycleNext]_cycleVars

-----------------------------------------------------------------------------
(* Properties *)

\* A run that has ended by itself leaves an idle handle: no server of it runs and
\* none will be started by a command that is still in the channel.  One that breaks
\* off for want of a client leaves its server up, but in reach of an abort.
EndedIsClean ==
  /\ pc \in {"stopped", "done"} =>
       /\ state = "Idle"
       /\ alive \subseteq killed
       /\ \A i \in DOMAIN inbox : inbox[i].op # "Start"
  /\ pc = "broken" => abortTx

\* A run counts as completed only with a whole answer, as failed only without one,
\* and as shot if it noticed that, whatever the order in which the answer, the
\* events, the state and the timers came in; a load timeout apart.
OutcomeIsTrue ==
  pc \in {"measured", "finalizing", "stopping"} =>
    /\ outcome = "completed" => measure = "ok"
    /\ outcome = "failed" => measure # "ok"
    /\ saw => outcome = "aborted_watchdog"

\* An abort by the user that comes after Start was sent leaves no server (technical-spec
\* section 3: no path leaves an orphan).  One that overtakes Start is dropped by the idle
\* handle, which then starts a server that nobody stops.
LateAbortLeavesNoServer == cancelled = "started" ~> [](alive = {})

\* A run that waits for the port of its server gets on, with the port or with the
\* error "server port unavailable".
PortWaitEnds == pc = "port" ~> pc # "port"

\* Whatever happens to the server, a run comes to an end, unless it waits for the
\* port of a server that is gone.
RunEnds == pc = "loading" ~> pc \in {"done", "broken", "dropped"} \/ (pc = "port" /\ ~port)

\* The outcome that is recorded is the one that happened, in every order in which
\* events, answers and timers are seen.
OutcomeIsRight ==
    /\ CycleTypeOK
    /\ OutcomeIsTrue

-----------------------------------------------------------------------------
(* Fairness: that of the handle (see Lifecycle), a runtime that polls every  *)
(* task that is ready and picks at random among the branches of a select!,   *)
(* timers that fire, and a request that ends one way or the other.           *)

CycleFairness ==
  /\ SF_cycleVars(ReceiveCommand /\ HandleMoves)
  /\ SF_cycleVars(ChildExited /\ HandleMoves)
  /\ SF_cycleVars(StartTimesOut /\ HandleMoves)
  /\ SF_cycleVars(StopTimesOut /\ HandleMoves)
  /\ WF_cycleVars(PollHandled /\ HandleMoves)
  /\ WF_cycleVars((ReapConfirmed \/ ReapGivesUp) /\ HandleMoves)
  /\ SF_cycleVars(WatchdogSends /\ HandleMoves)
  /\ WF_cycleVars((\E s \in Session : GraceOver(s) \/ Dies(s)) /\ HandleMoves)
  /\ SF_cycleVars(RunStep)
  /\ WF_cycleVars(LoadTimesOut)
  /\ WF_cycleVars(MeasureEnds) /\ WF_cycleVars(MeasureTimesOut)
  /\ WF_cycleVars(Answered \/ RequestFails)
  /\ WF_cycleVars(Dropped)

FairCycleSpec == CycleSpec /\ CycleFairness
=============================================================================
