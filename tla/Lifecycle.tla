------------------------------ MODULE Lifecycle ------------------------------
(***************************************************************************)
(* The lifecycle actor of aidash-core (lifecycle.rs): the single owner of  *)
(* the state machine of one model server, with the tasks it shares that    *)
(* server with - the child process (pyproc.rs), the memory watchdog        *)
(* (watchdog.rs), the detached task of a graceful stop - and the clients   *)
(* that send it commands.                                                  *)
(*                                                                         *)
(* The actor is one tokio task.  A handler that does not await is one      *)
(* action.  Two handlers await: the health poll (between the answer of the *)
(* server and the reaction to it, variable polled) and enter_cleanup       *)
(* (while it reaps the process group, state "Cleanup"); meanwhile the      *)
(* other tasks run and commands queue up.                                  *)
(***************************************************************************)
EXTENDS Naturals, Sequences, FiniteSets

CONSTANTS
  Session,       \* one identity per child process; bounds the number of spawns
  NoSession,     \* None
  QueueCap       \* capacity of the command channel (32 in the code)

ASSUME SessionAssumption == NoSession \notin Session
ASSUME QueueAssumption == QueueCap \in Nat \ {0}

VARIABLES
  state,      \* LifecycleContext.state, and the value of the state watch channel
  inbox,      \* the command channel, oldest first
  active,     \* LifecycleContext.active: the session whose child is owned
  reaping,    \* the session enter_cleanup has taken and is reaping
  port,       \* the port watch channel holds a port
  armed,      \* the deadlines that are Some
  polled,     \* the health answer the actor is about to act on
  watchdog,   \* the watchdog task of the active session
  grace,      \* sessions whose detached terminate_graceful still has to SIGKILL
  alive,      \* sessions whose process exists
  phase,      \* how far the server of a session has come
  killed,     \* sessions whose process group got SIGKILL while it existed
  unreaped,   \* history: sessions that cleanup gave up on, their process still there
  hasty       \* history: a Start was sent to a handle that was not idle, or had one queued

procVars == <<alive, phase, killed>>
actorVars == <<state, active, reaping, port, armed, polled>>
vars == <<state, inbox, active, reaping, port, armed, polled, watchdog, grace,
          alive, phase, killed, unreaped, hasty>>
history == <<unreaped, hasty>>

LifecycleState == {"Idle", "Spawning", "Loading", "Ready", "Busy",
                   "Stopping", "Killing", "Cleanup"}

\* A command, and the session whose watchdog sent it (NoSession: a client).
Command == [op : {"Start", "Stop", "Abort", "BeginWork", "EndWork"},
            by : Session \cup {NoSession}]

ClientCommand == {c \in Command : c.by = NoSession}

TypeOK ==
  /\ state \in LifecycleState
  /\ inbox \in Seq(Command) /\ Len(inbox) <= QueueCap
  /\ active \in Session \cup {NoSession}
  /\ reaping \in Session \cup {NoSession}
  /\ port \in BOOLEAN
  /\ armed \subseteq {"spawning", "loading", "stopping"}
  /\ polled \in {"none", "responding", "loaded"}
  /\ watchdog \in {"off", "watching", "tripped", "done"}
  /\ grace \subseteq Session
  /\ alive \subseteq Session
  /\ phase \in [Session -> {"unborn", "booting", "serving", "loaded"}]
  /\ killed \subseteq Session
  /\ unreaped \subseteq Session
  /\ hasty \in BOOLEAN

Init ==
  /\ state = "Idle"
  /\ inbox = <<>>
  /\ active = NoSession
  /\ reaping = NoSession
  /\ port = FALSE
  /\ armed = {}
  /\ polled = "none"
  /\ watchdog = "off"
  /\ grace = {}
  /\ alive = {}
  /\ phase = [s \in Session |-> "unborn"]
  /\ killed = {}
  /\ unreaped = {}
  /\ hasty = FALSE

-----------------------------------------------------------------------------
(* Parts of the handlers *)

\* The actor is at its select!, between two handlers.
Selecting == state # "Cleanup" /\ polled = "none"

\* SIGKILL to the process group of session s; no such process is no error.
Sigkill(s) == killed' = killed \cup ({s} \cap alive)

\* A plausible fault: the process group is not killed.
BeginCleanupNoKill ==
  /\ state' = "Cleanup"
  /\ armed' = {} /\ active' = NoSession /\ reaping' = active /\ watchdog' = "off"
  /\ UNCHANGED <<port, polled, killed>>

\* enter_cleanup up to its first await.
BeginCleanup ==
  /\ state' = "Cleanup"
  /\ armed' = {}
  /\ active' = NoSession
  /\ reaping' = active
  /\ watchdog' = "off"
  /\ Sigkill(active)
  /\ UNCHANGED <<port, polled>>

\* A plausible fault: no signal is sent.
EnterKillingNoKill ==
  IF active = NoSession
  THEN BeginCleanup
  ELSE /\ state' = "Killing" /\ armed' = {}
       /\ UNCHANGED <<active, reaping, port, polled, watchdog, killed>>

\* A plausible fault: the deadlines stay.
EnterKillingKeepsDeadlines ==
  IF active = NoSession
  THEN BeginCleanup
  ELSE /\ state' = "Killing"
       /\ Sigkill(active)
       /\ UNCHANGED <<active, reaping, port, armed, polled, watchdog>>

\* enter_killing, the whole of it.
EnterKilling ==
  IF active = NoSession
  THEN BeginCleanup
  ELSE /\ state' = "Killing"
       /\ armed' = {}
       /\ Sigkill(active)
       /\ UNCHANGED <<active, reaping, port, polled, watchdog>>

-----------------------------------------------------------------------------
(* Commands: Receive takes the head of the channel, one action per command *)

Receive(op) ==
  /\ Selecting
  /\ inbox # <<>>
  /\ Head(inbox).op = op
  /\ inbox' = Tail(inbox)

\* handle_start: port, Spawning, child, monitor and watchdog.
StartSpawns(s) ==
  /\ Receive("Start")
  /\ state = "Idle"
  /\ phase[s] = "unborn"
  /\ state' = "Spawning"
  /\ port' = TRUE
  /\ armed' = {"spawning"}
  /\ active' = s
  /\ watchdog' = "watching"
  /\ alive' = alive \cup {s}
  /\ phase' = [phase EXCEPT ![s] = "booting"]
  /\ UNCHANGED <<reaping, polled, grace, killed, history>>

\* handle_start fails: without a port, or after publishing one.
StartFails ==
  /\ Receive("Start")
  /\ state = "Idle"
  /\ state' = "Cleanup"
  /\ armed' = {}
  /\ port' \in BOOLEAN
  /\ UNCHANGED <<active, reaping, polled, watchdog, grace, procVars, history>>

StartIgnored ==
  /\ Receive("Start")
  /\ state # "Idle"
  /\ UNCHANGED <<actorVars, watchdog, grace, procVars, history>>

\* handle_stop on a server that may be serving: SIGTERM now, and SIGKILL after
\* 3 s by a detached task that nothing cancels.
StopGraceful ==
  /\ Receive("Stop")
  /\ state \in {"Ready", "Busy"}
  /\ IF active = NoSession
     THEN BeginCleanup /\ UNCHANGED grace
     ELSE /\ state' = "Stopping"
          /\ armed' = armed \cup {"stopping"}
          /\ grace' = grace \cup {active}
          /\ UNCHANGED <<active, reaping, port, polled, watchdog, killed>>
  /\ UNCHANGED <<alive, phase, history>>

\* handle_stop on a server that is still starting.
StopAtOnce ==
  /\ Receive("Stop")
  /\ state \in {"Spawning", "Loading"}
  /\ EnterKilling
  /\ UNCHANGED <<grace, alive, phase, history>>

StopIgnored ==
  /\ Receive("Stop")
  /\ state \notin {"Ready", "Busy", "Spawning", "Loading"}
  /\ UNCHANGED <<actorVars, watchdog, grace, procVars, history>>

AbortKills ==
  /\ Receive("Abort")
  /\ state \notin {"Idle", "Killing", "Cleanup"}
  /\ EnterKilling
  /\ UNCHANGED <<grace, alive, phase, history>>

\* A plausible fault: an Abort nobody needs now is kept for later.
AbortDeferred ==
  /\ Selecting
  /\ inbox # <<>> /\ Head(inbox).op = "Abort"
  /\ state \in {"Idle", "Killing", "Cleanup"}
  /\ inbox' = Append(Tail(inbox), Head(inbox))
  /\ UNCHANGED <<actorVars, watchdog, grace, procVars, history>>

AbortIgnored ==
  /\ Receive("Abort")
  /\ state \in {"Idle", "Killing", "Cleanup"}
  /\ UNCHANGED <<actorVars, watchdog, grace, procVars, history>>

BeginWork ==
  /\ Receive("BeginWork")
  /\ state' = IF state = "Ready" THEN "Busy" ELSE state
  /\ UNCHANGED <<active, reaping, port, armed, polled, watchdog, grace, procVars, history>>

EndWork ==
  /\ Receive("EndWork")
  /\ state' = IF state = "Busy" THEN "Ready" ELSE state
  /\ UNCHANGED <<active, reaping, port, armed, polled, watchdog, grace, procVars, history>>

ReceiveCommand ==
  \/ \E s \in Session : StartSpawns(s)
  \/ StartFails \/ StartIgnored
  \/ StopGraceful \/ StopAtOnce \/ StopIgnored
  \/ AbortKills \/ AbortIgnored
  \/ BeginWork \/ EndWork

-----------------------------------------------------------------------------
(* The other branches of the select! *)

\* pyproc reports Exited: the child of the active session is gone.
ChildExited ==
  /\ Selecting
  /\ active # NoSession
  /\ active \notin alive
  /\ state # "Idle"
  /\ BeginCleanup
  /\ UNCHANGED <<inbox, grace, alive, phase, history>>

\* GET /health is answered; an unreachable server changes nothing.
PollAnswered ==
  /\ Selecting
  /\ state \in {"Spawning", "Loading"}
  /\ port
  /\ active \in alive
  /\ phase[active] \in {"serving", "loaded"}
  /\ polled' = IF phase[active] = "loaded" THEN "loaded" ELSE "responding"
  /\ UNCHANGED <<state, inbox, active, reaping, port, armed, watchdog, grace, procVars, history>>

\* The reaction to the answer; the child may be gone by now.
PollHandled ==
  /\ polled # "none"
  /\ polled' = "none"
  /\ state' = IF polled = "loaded" THEN "Ready" ELSE "Loading"
  /\ armed' = IF polled = "loaded" THEN armed \ {"spawning", "loading"}
              ELSE IF state = "Spawning" THEN (armed \ {"spawning"}) \cup {"loading"}
              ELSE armed
  /\ UNCHANGED <<inbox, active, reaping, port, watchdog, grace, procVars, history>>

\* A server that does not answer, or does not load its model, in time.
StartTimesOut ==
  /\ Selecting
  /\ \/ "spawning" \in armed /\ state = "Spawning"
     \/ "loading" \in armed /\ state = "Loading"
  /\ EnterKilling
  /\ UNCHANGED <<inbox, grace, alive, phase, history>>

\* A plausible fault: killed, but not reaped.
StopTimesOutNoReap ==
  /\ Selecting
  /\ "stopping" \in armed /\ state = "Stopping"
  /\ state' = "Idle" /\ armed' = {} /\ active' = NoSession
  /\ watchdog' = "off" /\ port' = FALSE
  /\ Sigkill(active)
  /\ UNCHANGED <<inbox, reaping, polled, grace, alive, phase, history>>

\* The grace of a stop is over.
StopTimesOut ==
  /\ Selecting
  /\ "stopping" \in armed /\ state = "Stopping"
  /\ BeginCleanup
  /\ UNCHANGED <<inbox, grace, alive, phase, history>>

-----------------------------------------------------------------------------
(* The rest of enter_cleanup, after the reaping *)

EndCleanup ==
  /\ state = "Cleanup"
  /\ state' = "Idle"
  /\ reaping' = NoSession
  /\ port' = FALSE
  /\ UNCHANGED <<inbox, active, armed, polled, watchdog, grace, procVars, hasty>>

\* The process is gone and its port is free.
ReapConfirmed == reaping \notin alive /\ EndCleanup /\ UNCHANGED unreaped

\* 20 polls of reap_process_group and 20 of the port went by in vain.
ReapGivesUp ==
  /\ reaping \in alive
  /\ EndCleanup
  /\ unreaped' = unreaped \cup {reaping}

-----------------------------------------------------------------------------
(* The other tasks *)

\* Every caller in the core sends its one Start to a handle in this state.
Startable == state = "Idle" /\ \A i \in DOMAIN inbox : inbox[i].op # "Start"

\* A client sends a command when the channel has room.
Send(c) ==
  /\ Len(inbox) < QueueCap
  /\ inbox' = Append(inbox, c)
  /\ hasty' = (hasty \/ (c.op = "Start" /\ ~Startable))
  /\ UNCHANGED <<actorVars, watchdog, grace, procVars, unreaped>>

\* The watchdog sees a footprint at or over the hard limit: WatchdogKill is
\* broadcast, the Abort still has to be sent.
WatchdogTrips ==
  /\ watchdog = "watching"
  /\ watchdog' = "tripped"
  /\ UNCHANGED <<actorVars, inbox, grace, procVars, history>>

\* A plausible fault: the Abort does not wait for room, and is lost without it.
WatchdogTriesToSend ==
  /\ watchdog = "tripped"
  /\ watchdog' = "done"
  /\ inbox' = IF Len(inbox) < QueueCap
              THEN Append(inbox, [op |-> "Abort", by |-> active]) ELSE inbox
  /\ UNCHANGED <<actorVars, grace, procVars, history>>

WatchdogSends ==
  /\ watchdog = "tripped"
  /\ Len(inbox) < QueueCap
  /\ watchdog' = "done"
  /\ inbox' = Append(inbox, [op |-> "Abort", by |-> active])
  /\ UNCHANGED <<actorVars, grace, procVars, history>>

\* The last step of a detached terminate_graceful.
GraceOver(s) ==
  /\ s \in grace
  /\ grace' = grace \ {s}
  /\ Sigkill(s)
  /\ UNCHANGED <<actorVars, inbox, watchdog, alive, phase, history>>

\* The child process: it binds its port, loads its model, and may exit at any
\* time (a crash, or its answer to SIGTERM); SIGKILL ends it.
Serves(s) ==
  /\ s \in alive \ killed
  /\ phase[s] # "loaded"
  /\ phase' = [phase EXCEPT ![s] = IF @ = "booting" THEN "serving" ELSE "loaded"]
  /\ UNCHANGED <<actorVars, inbox, watchdog, grace, alive, killed, history>>

Exits(s) ==
  /\ s \in alive \ killed
  /\ alive' = alive \ {s}
  /\ UNCHANGED <<actorVars, inbox, watchdog, grace, phase, killed, history>>

Dies(s) ==
  /\ s \in alive \cap killed
  /\ alive' = alive \ {s}
  /\ UNCHANGED <<actorVars, inbox, watchdog, grace, phase, killed, history>>

\* Every step but that of a client.
HandleNext ==
  \/ ReceiveCommand
  \/ ChildExited \/ PollAnswered \/ PollHandled
  \/ StartTimesOut \/ StopTimesOut
  \/ ReapConfirmed \/ ReapGivesUp
  \/ WatchdogTrips \/ WatchdogSends
  \/ \E s \in Session : GraceOver(s) \/ Serves(s) \/ Exits(s) \/ Dies(s)

Next == HandleNext \/ \E c \in ClientCommand : Send(c)

Spec == Init /\ [][Next]_vars

-----------------------------------------------------------------------------
(* Properties *)

Owning == {"Spawning", "Loading", "Ready", "Busy", "Stopping", "Killing"}

\* The actor owns a child exactly in the states in which it waits for one, so
\* neither an Exited nor a deadline nor a Stop ever finds it without (active is
\* taken by enter_cleanup and set by handle_start, far from the transitions).
ActiveMatchesState == state \in Owning <=> active # NoSession

\* No path leaves an orphan (technical-spec section 3): a process that exists is
\* the child of the active session, or its group has got SIGKILL.
NoOrphan == alive \ killed \subseteq {active}

\* A deadline is armed in the one state it guards: it is neither lost (the state
\* would have no way out) nor left over to fire in a later session.
DeadlinesMatchState ==
  /\ "spawning" \in armed <=> state = "Spawning"
  /\ "loading" \in armed <=> state = "Loading"
  /\ "stopping" \in armed <=> state = "Stopping"

\* Ready and Busy are only entered for a server that has said model_loaded, and
\* it is the server of this session (the answer is used after an await).
ServingIsLoaded == state \in {"Ready", "Busy"} => phase[active] = "loaded"

\* The answer of a health poll is used for the session that gave it, although the
\* actor awaits between the two (a dead child may still be called loaded).
PolledIsOwn ==
  polled # "none" => /\ state \in {"Spawning", "Loading"}
                     /\ active # NoSession
                     /\ phase[active] = "loaded" \/ polled = "responding"

\* An idle handle has let go of everything a session used.
IdleIsReleased ==
  state = "Idle" => ~port /\ watchdog = "off" /\ reaping = NoSession /\ polled = "none"

\* While it waits in Killing, which has no deadline, the child is dead or has got
\* SIGKILL: nothing else would ever lead out of that state.
KillingIsDoomed == state = "Killing" => active \notin alive \ killed

\* The server of a session is gone before the next one is spawned, so two model
\* servers never share the memory, unless cleanup gave up on one of them.
OneServer == \A s, t \in alive \ unreaped : s = t

\* An Abort that takes effect is never the late one of the watchdog of an earlier
\* session, as long as clients start a handle only while it is idle.
AbortIsOwn ==
  ~hasty /\ inbox # <<>> /\ Head(inbox).op = "Abort" /\ active # NoSession
    => Head(inbox).by \in {NoSession, active}

\* The session a graceful stop will still SIGKILL is being stopped or is over.
GraceIsForStopped ==
  active \in grace => state \in {"Stopping", "Killing"}

-----------------------------------------------------------------------------
(* Fairness: tokio's select! picks at random among the ready branches, so a  *)
(* branch that is ready again and again is taken; the channel serves waiting *)
(* senders in order; timers fire; the kernel ends a SIGKILLed process.       *)

Fairness ==
  /\ SF_vars(ReceiveCommand)
  /\ SF_vars(ChildExited)
  /\ SF_vars(StartTimesOut)
  /\ SF_vars(StopTimesOut)
  /\ WF_vars(PollHandled)
  /\ WF_vars(ReapConfirmed \/ ReapGivesUp)
  /\ SF_vars(WatchdogSends)
  /\ \A s \in Session : WF_vars(GraceOver(s)) /\ WF_vars(Dies(s))

FairSpec == Spec /\ Fairness

\* Every start ends in Ready or back in Idle: no state waits for ever.
StartConverges == state \in {"Spawning", "Loading"} ~> state \in {"Ready", "Idle"}

\* A server that crosses the hard limit is dead in the end, whatever commands
\* and events get in between.
WatchdogKills == \A s \in Session : watchdog = "tripped" /\ active = s ~> s \notin alive

\* A crash is noticed: no session outlives its process.
CrashIsNoticed == \A s \in Session : active = s /\ s \notin alive ~> active # s

\* Every state means what it says, at once and in every order of exits, answers,
\* deadlines and commands: who owns a process, which deadline is armed, whose
\* server is loaded, that Killing waits for a doomed child, and that nothing of
\* a session is left in Idle or in the hands of a helper that is no longer its own.
StatesAreKept ==
    /\ TypeOK
    /\ ActiveMatchesState
    /\ DeadlinesMatchState
    /\ ServingIsLoaded
    /\ PolledIsOwn
    /\ IdleIsReleased
    /\ KillingIsDoomed
    /\ GraceIsForStopped

\* No session is stuck: a start ends in Ready or Idle, a server over its limit is
\* killed though the channel may be full, a crash is noticed.
ActorMovesOn ==
    /\ StartConverges
    /\ WatchdogKills
    /\ CrashIsNoticed

-----------------------------------------------------------------------------
(* The promise to the owner of the handle *)

slot ==
  IF state = "Idle" THEN "free"
  ELSE IF state \in {"Spawning", "Loading"} THEN "starting"
  ELSE IF state \in {"Ready", "Busy"} THEN "serving"
  ELSE "closing"

Slot == INSTANCE ServerSlot
          WITH slot <- slot,
               owner <- IF active # NoSession THEN active ELSE reaping,
               running <- alive \ killed

\* The actor implements ServerSlot, with the fairness that frees a closing slot.
SlotSpec == Slot!SlotSpec

\* The safety part of it.
SlotSafety == Slot!SlotSafety
=============================================================================
