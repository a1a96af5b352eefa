--------------------------- MODULE LifecycleProofs ---------------------------
(***************************************************************************)
(* Proofs about Lifecycle, for every set of sessions, every capacity of    *)
(* the channel and every behaviour of the clients; and about BenchCycle,   *)
(* one run over that actor.                                                *)
(*                                                                         *)
(* The run is a client that starts its handle once, while it is idle; so   *)
(* its steps are steps of Lifecycle, whose theorems hold of it.  What it   *)
(* decides about its outcome needs four more facts: that it hears nothing  *)
(* before its Start is taken (StartPending), where a measurement can be    *)
(* (MeasureKnown), from where on the outcome is decided (OutcomeIsKnown),  *)
(* and that a run that has ended stays idle (EndedIsIdle).                 *)
(***************************************************************************)
EXTENDS BenchCycle, TLAPS

-----------------------------------------------------------------------------
(* The actor *)

\* A session that has not been spawned has left no trace.
UnbornIsUnused ==
  \A s \in Session : phase[s] = "unborn" =>
     s \notin alive \cup killed \cup grace \cup {active, reaping}

\* A session is reaped, and only then, by enter_cleanup; the watchdog lives with
\* the active session.
ReapingMatchesState ==
  /\ reaping # NoSession => state = "Cleanup"
  /\ watchdog # "off" => active # NoSession

\* Only the owned session, the reaped one and those given up have a process.
AliveIsKnown == alive \subseteq {active, reaping} \cup unreaped

IInv ==
  /\ TypeOK
  /\ ActiveMatchesState
  /\ NoOrphan
  /\ DeadlinesMatchState
  /\ ServingIsLoaded
  /\ PolledIsOwn
  /\ IdleIsReleased
  /\ KillingIsDoomed
  /\ GraceIsForStopped
  /\ UnbornIsUnused
  /\ ReapingMatchesState
  /\ AliveIsKnown

-----------------------------------------------------------------------------
(* Type correctness *)

\* Taking the head of the command channel leaves a well-formed channel.
LEMMA ReceiveType ==
  ASSUME TypeOK, NEW op, Receive(op)
  PROVE  inbox' \in Seq(Command) /\ Len(inbox') <= QueueCap
BY QueueAssumption DEF TypeOK, Receive

\* So does adding a command while there is room.
LEMMA AppendType ==
  ASSUME TypeOK, NEW c \in Command, Len(inbox) < QueueCap, inbox' = Append(inbox, c)
  PROVE  inbox' \in Seq(Command) /\ Len(inbox') <= QueueCap
BY QueueAssumption DEF TypeOK

\* The channel stays well-formed in every step.
LEMMA InboxType ==
  ASSUME TypeOK, [Next]_vars
  PROVE  inbox' \in Seq(Command) /\ Len(inbox') <= QueueCap
<1>1. CASE ReceiveCommand
  BY <1>1, ReceiveType
     DEF ReceiveCommand, StartSpawns, StartFails, StartIgnored, StopGraceful,
         StopAtOnce, StopIgnored, AbortKills, AbortIgnored, BeginWork, EndWork
<1>2. ASSUME NEW c \in ClientCommand, Send(c)
      PROVE  inbox' \in Seq(Command) /\ Len(inbox') <= QueueCap
  BY <1>2, AppendType DEF Send, ClientCommand
<1>3. CASE WatchdogSends
  <2>1. [op |-> "Abort", by |-> active] \in Command
    BY DEF TypeOK, Command
  <2>. QED
    BY <1>3, <2>1, AppendType DEF WatchdogSends
<1>4. CASE UNCHANGED inbox
  BY <1>4 DEF TypeOK
<1>5. QED
  BY <1>1, <1>2, <1>3, <1>4
     DEF Next, HandleNext, vars, ChildExited, PollAnswered, PollHandled, StartTimesOut,
         StopTimesOut, ReapConfirmed, ReapGivesUp, EndCleanup, WatchdogTrips,
         GraceOver, Serves, Exits, Dies

-----------------------------------------------------------------------------
(* The inductive invariant: one step per action *)

LEMMA InitIInv == Init => IInv
<1> SUFFICES ASSUME Init PROVE IInv
  OBVIOUS
<1>1. TypeOK
  <2>1. inbox \in Seq(Command) /\ Len(inbox) <= QueueCap
    <3>1. Len(<<>>) = 0 /\ <<>> \in Seq(Command)
      OBVIOUS
    <3>. QED
      BY <3>1, QueueAssumption DEF Init
  <2>. QED
    BY <2>1 DEF Init, TypeOK, LifecycleState
<1>2. QED
  BY <1>1, SessionAssumption
     DEF Init, IInv, ActiveMatchesState, Owning, NoOrphan, DeadlinesMatchState,
         ServingIsLoaded, PolledIsOwn, IdleIsReleased, KillingIsDoomed,
         GraceIsForStopped, UnbornIsUnused, ReapingMatchesState, AliveIsKnown

LEMMA NextIInv == IInv /\ [Next]_vars => IInv'
<1> SUFFICES ASSUME IInv, [Next]_vars PROVE IInv'
  OBVIOUS
<1> USE SessionAssumption
    DEF IInv, TypeOK, LifecycleState, ActiveMatchesState, Owning, NoOrphan,
        DeadlinesMatchState, ServingIsLoaded, PolledIsOwn, IdleIsReleased, KillingIsDoomed,
        GraceIsForStopped, UnbornIsUnused, ReapingMatchesState, AliveIsKnown,
        procVars, actorVars, history, Sigkill, Selecting
<1>0. inbox' \in Seq(Command) /\ Len(inbox') <= QueueCap
  BY InboxType
<1>1. ASSUME NEW s \in Session, StartSpawns(s) PROVE IInv'
  BY <1>0, <1>1 DEF StartSpawns, Receive
<1>2. CASE StartFails
  BY <1>0, <1>2 DEF StartFails, Receive
<1>3. CASE StartIgnored \/ StopIgnored \/ AbortIgnored
  <2>1. UNCHANGED <<actorVars, watchdog, grace, procVars, history>>
    BY <1>3 DEF StartIgnored, StopIgnored, AbortIgnored
  <2>. QED
    BY <1>0, <2>1
<1>4. CASE StopGraceful
  <2>1. active # NoSession /\ state \in {"Ready", "Busy"} /\ polled = "none"
    BY <1>4 DEF StopGraceful, Receive
  <2>2. /\ state' = "Stopping"
        /\ armed' = armed \cup {"stopping"}
        /\ grace' = grace \cup {active}
        /\ UNCHANGED <<active, reaping, port, polled, watchdog, killed, alive, phase, history>>
    BY <1>4, <2>1 DEF StopGraceful
  <2>. QED
    BY <1>0, <2>1, <2>2
<1>5. CASE StopAtOnce
  BY <1>0, <1>5 DEF StopAtOnce, Receive, EnterKilling, BeginCleanup
<1>6. CASE AbortKills
  BY <1>0, <1>6 DEF AbortKills, Receive, EnterKilling, BeginCleanup
<1>7. CASE BeginWork \/ EndWork
  <2>1. UNCHANGED <<active, reaping, port, armed, polled, watchdog, grace, procVars, history>>
    BY <1>7 DEF BeginWork, EndWork
  <2>2. state' = state \/ (state \in {"Ready", "Busy"} /\ state' \in {"Ready", "Busy"})
    BY <1>7 DEF BeginWork, EndWork
  <2>. QED
    BY <1>0, <2>1, <2>2
<1>8. CASE ChildExited
  BY <1>0, <1>8 DEF ChildExited, BeginCleanup
<1>9. CASE PollAnswered
  BY <1>0, <1>9 DEF PollAnswered
<1>10. CASE PollHandled
  BY <1>0, <1>10 DEF PollHandled
<1>11. CASE StartTimesOut
  BY <1>0, <1>11 DEF StartTimesOut, EnterKilling, BeginCleanup
<1>12. CASE StopTimesOut
  BY <1>0, <1>12 DEF StopTimesOut, BeginCleanup
<1>13. CASE ReapConfirmed
  BY <1>0, <1>13 DEF ReapConfirmed, EndCleanup
<1>14. CASE ReapGivesUp
  BY <1>0, <1>14 DEF ReapGivesUp, EndCleanup
<1>15. ASSUME NEW c \in ClientCommand, Send(c) PROVE IInv'
  BY <1>0, <1>15 DEF Send
<1>16. CASE WatchdogTrips
  BY <1>0, <1>16 DEF WatchdogTrips
<1>17. CASE WatchdogSends
  BY <1>0, <1>17 DEF WatchdogSends
<1>18. ASSUME NEW s \in Session, GraceOver(s) PROVE IInv'
  BY <1>0, <1>18 DEF GraceOver
<1>19. ASSUME NEW s \in Session, Serves(s) PROVE IInv'
  BY <1>0, <1>19 DEF Serves
<1>20. ASSUME NEW s \in Session, Exits(s) PROVE IInv'
  BY <1>0, <1>20 DEF Exits
<1>21. ASSUME NEW s \in Session, Dies(s) PROVE IInv'
  BY <1>0, <1>21 DEF Dies
<1>22. CASE UNCHANGED vars
  BY <1>0, <1>22 DEF vars
<1>23. QED
  BY <1>1, <1>2, <1>3, <1>4, <1>5, <1>6, <1>7, <1>8, <1>9, <1>10, <1>11, <1>12, <1>13, <1>14, <1>15, <1>16, <1>17, <1>18, <1>19, <1>20, <1>21, <1>22
     DEF Next, HandleNext, ReceiveCommand

LEMMA Inductive == Spec => []IInv
BY InitIInv, NextIInv, PTL DEF Spec

-----------------------------------------------------------------------------
(* What follows from it *)

\* The variables of the actor keep their types and the channel its capacity.
THEOREM TypeCorrect == Spec => []TypeOK
BY Inductive, PTL DEF IInv

\* No path through the actor leaves an orphan: whatever the clients, the
\* watchdog, the child and the timers do, and in whatever order, a process is
\* owned by the actor or has got SIGKILL.
THEOREM NeverAnOrphan == Spec => []NoOrphan
BY Inductive, PTL DEF IInv

\* Two model servers coexist only if cleanup gave up on one of them.
THEOREM AtMostOneServer == Spec => []OneServer
<1>1. IInv => OneServer
  BY SessionAssumption DEF IInv, OneServer, AliveIsKnown, ActiveMatchesState, Owning, ReapingMatchesState,
         TypeOK
<1>. QED
  BY <1>1, Inductive, PTL

\* No state is without its deadline, and no deadline outlives its state.
THEOREM DeadlinesRight == Spec => []DeadlinesMatchState
BY Inductive, PTL DEF IInv

\* Ready and Busy mean that the server of this very session has its model loaded.
THEOREM ServingIsRight == Spec => [](ServingIsLoaded /\ PolledIsOwn)
BY Inductive, PTL DEF IInv

\* Killing, the one waiting state without a deadline, waits for a doomed child.
THEOREM KillingIsRight == Spec => []KillingIsDoomed
BY Inductive, PTL DEF IInv

\* Every state means what it says: what the run checks of the states, in every order of
\* exits, answers, deadlines and commands.
THEOREM StatesHold == Spec => []StatesAreKept
<1>1. IInv => StatesAreKept
  BY DEF IInv, StatesAreKept
<1>. QED
  BY <1>1, Inductive, PTL

-----------------------------------------------------------------------------
(* The actor implements the slot *)

\* Every step of the actor is a step of the slot or leaves it as it is: the safety
\* half of the refinement that TLC checks with its liveness (SlotSpec).
THEOREM ImplementsSlot == Spec => SlotSafety
<1>1. Init => Slot!SlotInit
  BY DEF Init, Slot!SlotInit, slot
<1>2. IInv /\ [Next]_vars => [Slot!SlotNext]_(Slot!slotVars)
  <2> SUFFICES ASSUME IInv, [Next]_vars
               PROVE  [Slot!SlotNext]_(Slot!slotVars)
    OBVIOUS
  <2> USE SessionAssumption
      DEF IInv, TypeOK, LifecycleState, ActiveMatchesState, Owning, NoOrphan, PolledIsOwn,
          UnbornIsUnused, ReapingMatchesState, IdleIsReleased, KillingIsDoomed,
          Slot!SlotNext, Slot!slotVars, slot, Selecting, Sigkill, actorVars, procVars
  <2>1. ASSUME NEW s \in Session, StartSpawns(s) PROVE Slot!Acquire(s)
    BY <2>1 DEF StartSpawns, Receive, Slot!Acquire
  <2>2. CASE StartFails
    BY <2>2 DEF StartFails, Receive, Slot!AcquireFails
  <2>3. CASE UNCHANGED <<actorVars, alive, killed>>
    BY <2>3
  <2>4. CASE StopGraceful
    BY <2>4 DEF StopGraceful, Receive, BeginCleanup, Slot!Close
  <2>5. CASE StopAtOnce
    BY <2>5 DEF StopAtOnce, Receive, EnterKilling, BeginCleanup, Slot!Close
  <2>6. CASE AbortKills
    BY <2>6 DEF AbortKills, Receive, EnterKilling, BeginCleanup, Slot!Close, Slot!Wane
  <2>7. CASE BeginWork
    BY <2>7 DEF BeginWork, Receive
  <2>8. CASE EndWork
    BY <2>8 DEF EndWork, Receive
  <2>9. CASE ChildExited
    BY <2>9 DEF ChildExited, BeginCleanup, Slot!Close, Slot!Wane
  <2>10. CASE PollAnswered
    BY <2>10 DEF PollAnswered
  <2>11. CASE PollHandled
    BY <2>11 DEF PollHandled, Slot!Serve
  <2>12. CASE StartTimesOut
    BY <2>12 DEF StartTimesOut, EnterKilling, BeginCleanup, Slot!Close
  <2>13. CASE StopTimesOut
    BY <2>13 DEF StopTimesOut, BeginCleanup, Slot!Wane
  <2>14. CASE ReapConfirmed \/ ReapGivesUp
    BY <2>14 DEF ReapConfirmed, ReapGivesUp, EndCleanup, Slot!Release
  <2>15. ASSUME NEW s \in Session, GraceOver(s) PROVE Slot!Wane \/ UNCHANGED Slot!slotVars
    BY <2>15 DEF GraceOver, Slot!Wane
  <2>16. ASSUME NEW s \in Session, Serves(s) PROVE UNCHANGED Slot!slotVars
    BY <2>16 DEF Serves
  <2>17. ASSUME NEW s \in Session, Exits(s) \/ Dies(s) PROVE Slot!Wane \/ UNCHANGED Slot!slotVars
    BY <2>17 DEF Exits, Dies, Slot!Wane
  <2>. QED
    BY <2>1, <2>2, <2>3, <2>4, <2>5, <2>6, <2>7, <2>8, <2>9, <2>10, <2>11, <2>12, <2>13, <2>14, <2>15, <2>16, <2>17
       DEF Next, HandleNext, ReceiveCommand, StartIgnored, StopIgnored, AbortIgnored, Send,
           WatchdogTrips, WatchdogSends, vars
<1>. QED
  BY <1>1, <1>2, Inductive, PTL DEF Spec, SlotSafety, Slot!SlotSafety

-----------------------------------------------------------------------------
(* A late Abort never hits a later session *)

\* With clients that start an idle handle only, one Start at a time: a Start in
\* the channel means the handle is still idle, what is queued behind it is from
\* clients, and while a session is active no other watchdog has a command queued.
InboxIsOrdered ==
  ~hasty =>
    /\ \A i \in 1..Len(inbox) : inbox[i].op = "Start" =>
         /\ state = "Idle"
         /\ \A j \in 1..Len(inbox) : j > i => inbox[j].op # "Start" /\ inbox[j].by = NoSession
    /\ active # NoSession => \A i \in 1..Len(inbox) : inbox[i].by \in {NoSession, active}

\* An element of the tail of the channel is an element of the channel.
LEMMA TailElements ==
  ASSUME TypeOK, inbox # <<>>, inbox' = Tail(inbox)
  PROVE  /\ Len(inbox') = Len(inbox) - 1
         /\ \A i \in 1..Len(inbox') : i + 1 \in 1..Len(inbox) /\ inbox'[i] = inbox[i + 1]
BY DEF TypeOK

\* Taking a command that is not a Start that spawns keeps the order, if the state
\* leaves Idle for no other command and the owned session is kept or dropped.
LEMMA ReceiveOrdered ==
  ASSUME TypeOK, InboxIsOrdered, inbox # <<>>, inbox' = Tail(inbox),
         state = "Idle" => state' = "Idle" \/ Head(inbox).op = "Start",
         active' \in {active, NoSession}, hasty' = hasty
  PROVE  InboxIsOrdered'
<1>1. \A i \in 1..Len(inbox') : i + 1 \in 1..Len(inbox) /\ inbox'[i] = inbox[i + 1]
  BY TailElements
<1>2. 1 \in 1..Len(inbox) /\ Head(inbox) = inbox[1] /\ Len(inbox) \in Nat /\ Len(inbox') \in Nat
  BY TailElements DEF TypeOK
<1>. QED
  BY <1>1, <1>2 DEF InboxIsOrdered

\* The same for steps that leave the channel alone.
LEMMA KeepsOrdered ==
  ASSUME InboxIsOrdered, UNCHANGED inbox, state = "Idle" => state' = "Idle",
         active' \in {active, NoSession}, hasty' = hasty
  PROVE  InboxIsOrdered'
BY DEF InboxIsOrdered

LEMMA NextOrdered == IInv /\ InboxIsOrdered /\ [Next]_vars => InboxIsOrdered'
<1> SUFFICES ASSUME IInv, InboxIsOrdered, [Next]_vars PROVE InboxIsOrdered'
  OBVIOUS
<1>0. TypeOK /\ ActiveMatchesState /\ IdleIsReleased
  BY DEF IInv
<1>1. ASSUME NEW s \in Session, StartSpawns(s) PROVE InboxIsOrdered'
  <2>1. /\ inbox # <<>> /\ inbox' = Tail(inbox) /\ Head(inbox).op = "Start"
        /\ active' = s /\ hasty' = hasty
    BY <1>1 DEF StartSpawns, Receive, history
  <2>2. \A i \in 1..Len(inbox') : i + 1 \in 1..Len(inbox) /\ inbox'[i] = inbox[i + 1]
    BY <1>0, <2>1, TailElements
  <2>3. /\ 1 \in 1..Len(inbox) /\ Head(inbox) = inbox[1]
        /\ Len(inbox) \in Nat /\ Len(inbox') \in Nat
    BY <1>0, <2>1, TailElements DEF TypeOK
  <2>. QED
    BY <2>1, <2>2, <2>3 DEF InboxIsOrdered
<1>2. ASSUME ReceiveCommand, ~(\E s \in Session : StartSpawns(s)) PROVE InboxIsOrdered'
  <2>1. inbox # <<>> /\ inbox' = Tail(inbox) /\ hasty' = hasty
    BY <1>2 DEF history, ReceiveCommand, StartFails, StartIgnored, StopGraceful, StopAtOnce,
       StopIgnored, AbortKills, AbortIgnored, BeginWork, EndWork, Receive
  <2>2. /\ state = "Idle" => state' = "Idle" \/ Head(inbox).op = "Start"
        /\ active' \in {active, NoSession}
    BY <1>2 DEF ReceiveCommand, StartFails, StartIgnored, StopGraceful, StopAtOnce,
       StopIgnored, AbortKills, AbortIgnored, BeginWork, EndWork, Receive, EnterKilling,
       BeginCleanup, actorVars
  <2>. QED
    BY <1>0, <2>1, <2>2, ReceiveOrdered
<1>3. ASSUME NEW c \in ClientCommand, Send(c) PROVE InboxIsOrdered'
  <2>1. /\ inbox' = Append(inbox, c) /\ c.by = NoSession
        /\ UNCHANGED <<state, active>>
        /\ ~hasty' => ~hasty
        /\ ~hasty' /\ c.op = "Start" =>
             state = "Idle" /\ \A i \in 1..Len(inbox) : inbox[i].op # "Start"
    <3>1. hasty' = (hasty \/ (c.op = "Start" /\ ~Startable))
      BY <1>3 DEF Send
    <3>2. ~hasty' => ~hasty /\ (c.op = "Start" => Startable)
      BY <3>1, Zenon
    <3>3. Startable => state = "Idle" /\ \A i \in 1..Len(inbox) : inbox[i].op # "Start"
      BY <1>0 DEF Startable, TypeOK
    <3>4. inbox' = Append(inbox, c) /\ c.by = NoSession /\ UNCHANGED <<state, active>>
      BY <1>3 DEF Send, ClientCommand, actorVars
    <3>. QED
      BY <3>2, <3>3, <3>4, Zenon
  <2>2. /\ Len(inbox) \in Nat /\ Len(inbox') = Len(inbox) + 1
        /\ \A i \in 1..Len(inbox) : inbox'[i] = inbox[i]
        /\ inbox'[Len(inbox) + 1] = c
    BY <1>0, <1>3, <2>1 DEF TypeOK, ClientCommand
  <2>. QED
    BY <2>1, <2>2 DEF InboxIsOrdered
<1>4. CASE WatchdogSends
  <2> DEFINE c == [op |-> "Abort", by |-> active]
  <2>1. inbox' = Append(inbox, c) /\ UNCHANGED <<state, active, hasty>> /\ watchdog = "tripped"
    BY <1>4 DEF WatchdogSends, actorVars, history
  <2>2. state # "Idle" /\ c \in Command
    BY <1>0, <2>1 DEF IdleIsReleased, TypeOK, Command
  <2>3. /\ Len(inbox) \in Nat /\ Len(inbox') = Len(inbox) + 1
        /\ \A i \in 1..Len(inbox) : inbox'[i] = inbox[i]
        /\ inbox'[Len(inbox) + 1] = c
    BY <1>0, <2>1, <2>2 DEF TypeOK
  <2>4. c.by = active /\ c.op = "Abort"
    OBVIOUS
  <2>. QED
    BY <2>1, <2>2, <2>3, <2>4 DEF InboxIsOrdered
<1>5. ASSUME UNCHANGED inbox, Next, ~ReceiveCommand, ~(\E c \in ClientCommand : Send(c))
      PROVE  /\ state = "Idle" => state' = "Idle"
             /\ active' \in {active, NoSession}
             /\ hasty' = hasty
  BY <1>0, <1>5 DEF Next, HandleNext, ChildExited, PollAnswered, PollHandled, StartTimesOut, StopTimesOut,
     ReapConfirmed, ReapGivesUp, EndCleanup, WatchdogTrips, WatchdogSends, GraceOver,
     Serves, Exits, Dies, BeginCleanup, EnterKilling, actorVars, history, IdleIsReleased, Selecting
<1>6. CASE UNCHANGED vars
  BY <1>6 DEF vars, InboxIsOrdered
<1>. QED
  <2>1. ASSUME Next, ~ReceiveCommand, ~(\E c \in ClientCommand : Send(c)), ~WatchdogSends
        PROVE  UNCHANGED inbox
    BY <2>1 DEF Next, HandleNext, ChildExited, PollAnswered, PollHandled, StartTimesOut, StopTimesOut,
       ReapConfirmed, ReapGivesUp, EndCleanup, WatchdogTrips, GraceOver, Serves, Exits, Dies
  <2>. QED
    BY <1>1, <1>2, <1>3, <1>4, <1>5, <1>6, <2>1, KeepsOrdered

\* The Abort of a watchdog only ever kills the session that watchdog was watching.
THEOREM AbortsAreOwn == Spec => []AbortIsOwn
<1>1. Init => InboxIsOrdered
  BY DEF Init, InboxIsOrdered
<1>2. IInv /\ InboxIsOrdered => AbortIsOwn
  <2> SUFFICES ASSUME IInv, InboxIsOrdered, ~hasty, inbox # <<>>, active # NoSession
               PROVE  Head(inbox).by \in {NoSession, active}
    BY DEF AbortIsOwn
  <2>1. 1 \in 1..Len(inbox) /\ Head(inbox) = inbox[1]
    BY DEF IInv, TypeOK
  <2>. QED
    BY <2>1 DEF InboxIsOrdered
<1>. QED
  BY <1>1, <1>2, NextOrdered, Inductive, PTL DEF Spec

-----------------------------------------------------------------------------
(* A run over the actor *)

\* The run has not started its server yet, or its Start has not been taken.
HasStart == \E i \in 1..Len(inbox) : inbox[i].op = "Start"

Unstarted == pc \in {"new", "registered"} \/ HasStart

OneStart ==
  \A i, j \in 1..Len(inbox) : inbox[i].op = "Start" /\ inbox[j].op = "Start" => i = j

\* Until the Start is taken the handle is idle and says nothing, so the run, which waits
\* for a word of it, cannot get past its loading; and there is one Start at most.
StartPending ==
  /\ Unstarted => state = "Idle" /\ events = <<>> /\ ~changed
  /\ HasStart => pc \in {"loading", "dropped"}
  /\ OneStart

\* A measurement begins after the port, without a kill that was seen, and is over or
\* given up when the outcome is decided.
MeasureKnown ==
  /\ pc \in {"new", "registered", "loading", "port"} => measure = "none"
  /\ pc \in {"port", "measuring"} => ~saw
  /\ pc \in {"measured", "finalizing", "stopping"} => measure # "running"

\* The outcome is decided once the run has left its loading.
Decided == {"port", "measuring", "measured", "finalizing", "stopping", "late", "stopped"}

OutcomeIsKnown == pc \in Decided => outcome # "open"

EndedIsIdle == pc \in {"stopped", "done"} => state = "Idle"

\* The sender for an abort stays registered up to the end of the measuring, and when the
\* run breaks off before it.
SenderIsKept == pc \in {"registered", "loading", "port", "broken"} => abortTx

CycleInv ==
  /\ IInv
  /\ CycleTypeOK
  /\ StartPending
  /\ MeasureKnown
  /\ OutcomeIsKnown
  /\ OutcomeIsTrue
  /\ EndedIsIdle
  /\ SenderIsKept

-----------------------------------------------------------------------------
(* The steps of the run and its channel *)

Op == {"Start", "Stop", "Abort", "BeginWork", "EndWork"}

\* A command of the run is a command, and it finds room.
LEMMA Told ==
  ASSUME NEW op \in Op
  PROVE  [op |-> op, by |-> NoSession] \in ClientCommand
BY DEF Op, ClientCommand, Command

\* What a step of the run does to the handle: it tells it something, Start once, or
\* leaves it alone.
LEMMA RunSteps ==
  ASSUME [CycleNext]_cycleVars, ~HandleMoves
  PROVE  \/ UNCHANGED vars
         \/ Starts
         \/ \E op \in Op \ {"Start"} : Tell(op)
BY DEF CycleNext, cycleVars, RunStep, Registers, LoadEvent, LoadState, LoadTimesOut, Measures,
   ClientFails, MeasureEvent, MeasureEnds, MeasureTimesOut, EndsWork, Finalizes, Stopped, Records,
   Answered, RequestFails, UserAborts, Dropped, Op

\* What the channel holds after a command was taken.
LEMMA StartTaken ==
  ASSUME TypeOK, inbox # <<>>, inbox' = Tail(inbox), OneStart
  PROVE  /\ HasStart' => HasStart /\ Head(inbox).op # "Start"
         /\ OneStart'
<1>1. \A i \in 1..Len(inbox') : i + 1 \in 1..Len(inbox) /\ inbox'[i] = inbox[i + 1]
  BY TailElements
<1>2. 1 \in 1..Len(inbox) /\ Head(inbox) = inbox[1] /\ Len(inbox) \in Nat /\ Len(inbox') \in Nat
  BY TailElements DEF TypeOK
<1>3. HasStart' => HasStart
  BY <1>1 DEF HasStart
<1>4. ASSUME HasStart', Head(inbox).op = "Start" PROVE FALSE
  <2>1. PICK i \in 1..Len(inbox') : inbox'[i].op = "Start"
    BY <1>4 DEF HasStart
  <2>2. i + 1 = 1
    BY <1>1, <1>2, <1>4, <2>1 DEF OneStart
  <2> QED
    BY <1>2, <2>1, <2>2
<1>5. ASSUME NEW i \in 1..Len(inbox'), NEW j \in 1..Len(inbox'),
             inbox'[i].op = "Start", inbox'[j].op = "Start"
      PROVE  i = j
  <2>1. i + 1 = j + 1
    BY <1>1, <1>5 DEF OneStart
  <2> QED
    BY <1>2, <1>5, <2>1
<1>6. OneStart'
  BY <1>5 DEF OneStart
<1> QED
  BY <1>3, <1>4, <1>6

\* ... and after one was added.
LEMMA StartAdded ==
  ASSUME TypeOK, NEW c \in Command, inbox' = Append(inbox, c), OneStart,
         c.op = "Start" => ~HasStart
  PROVE  /\ HasStart' <=> HasStart \/ c.op = "Start"
         /\ OneStart'
<1>1. /\ Len(inbox) \in Nat /\ Len(inbox') = Len(inbox) + 1
      /\ \A i \in 1..Len(inbox) : inbox'[i] = inbox[i]
      /\ inbox'[Len(inbox) + 1] = c
  BY DEF TypeOK
<1> QED
  BY <1>1 DEF HasStart, OneStart

\* A step of the handle takes a command, adds the Abort of a watchdog, or does neither.
LEMMA HandleInbox ==
  ASSUME TypeOK, HandleNext
  PROVE  \/ UNCHANGED inbox
         \/ inbox # <<>> /\ inbox' = Tail(inbox)
         \/ \E c \in Command : c.op = "Abort" /\ inbox' = Append(inbox, c)
<1>1. [op |-> "Abort", by |-> active] \in Command
  BY DEF TypeOK, Command
<1>2. CASE ReceiveCommand
  BY <1>2 DEF ReceiveCommand, StartSpawns, StartFails, StartIgnored, StopGraceful, StopAtOnce,
     StopIgnored, AbortKills, AbortIgnored, BeginWork, EndWork, Receive
<1>3. CASE WatchdogSends
  BY <1>1, <1>3 DEF WatchdogSends
<1> QED
  BY <1>2, <1>3 DEF HandleNext, ChildExited, PollAnswered, PollHandled, StartTimesOut, StopTimesOut,
     ReapConfirmed, ReapGivesUp, EndCleanup, WatchdogTrips, GraceOver, Serves, Exits, Dies

\* An idle handle stays idle and says nothing, until it takes a Start.
LEMMA IdleWaits ==
  ASSUME IInv, HandleNext, state = "Idle"
  PROVE  \/ state' = "Idle" /\ watchdog = "off"
         \/ inbox # <<>> /\ inbox' = Tail(inbox) /\ Head(inbox).op = "Start"
<1>1. watchdog = "off" /\ polled = "none" /\ active = NoSession
  BY DEF IInv, IdleIsReleased, ActiveMatchesState, Owning
<1>2. CASE ReceiveCommand
  BY <1>1, <1>2 DEF ReceiveCommand, StartSpawns, StartFails, StartIgnored, StopGraceful, StopAtOnce,
     StopIgnored, AbortKills, AbortIgnored, BeginWork, EndWork, Receive, actorVars
<1> QED
  BY <1>1, <1>2 DEF HandleNext, ChildExited, PollAnswered, PollHandled, StartTimesOut, StopTimesOut,
     ReapConfirmed, ReapGivesUp, EndCleanup, WatchdogTrips, WatchdogSends, GraceOver, Serves, Exits,
     Dies, actorVars

-----------------------------------------------------------------------------
(* The inductive invariant: the handle, the types, and each part by itself *)

LEMMA NextHandle == IInv /\ [CycleNext]_cycleVars => IInv'
<1> SUFFICES ASSUME IInv, [CycleNext]_cycleVars PROVE IInv'
  OBVIOUS
<1>1. CASE HandleMoves
  BY <1>1, NextIInv DEF HandleMoves, Next
<1>2. CASE UNCHANGED vars
  BY <1>2, NextIInv
<1>3. ASSUME NEW op \in Op, Tell(op) PROVE IInv'
  <2>1. TypeOK
    BY DEF IInv
  <2>2. inbox' \in Seq(Command) /\ Len(inbox') <= QueueCap
    BY <1>3, <2>1, Told, AppendType DEF Tell, ClientCommand
  <2> QED
    BY <1>3, <2>2 DEF Tell, handleVars, history, IInv, TypeOK, ActiveMatchesState, NoOrphan,
       DeadlinesMatchState, ServingIsLoaded, PolledIsOwn, IdleIsReleased, KillingIsDoomed,
       GraceIsForStopped, UnbornIsUnused, ReapingMatchesState, AliveIsKnown
<1> QED
  BY <1>1, <1>2, <1>3, RunSteps DEF Starts, Op

LEMMA NextCycleType == CycleTypeOK /\ OutcomeIsKnown /\ IInv' /\ [CycleNext]_cycleVars => CycleTypeOK'
<1> SUFFICES ASSUME CycleTypeOK, OutcomeIsKnown, IInv', [CycleNext]_cycleVars PROVE CycleTypeOK'
  OBVIOUS
<1> DEFINE Event == {"Ready", "Idle", "Kill"}
<1>0. /\ TypeOK' /\ TypeOK
      /\ pc \in Position /\ events \in Seq(Event) /\ changed \in BOOLEAN /\ saw \in BOOLEAN
      /\ measure \in {"none", "running", "ok", "error", "aborted"}
      /\ outcome \in Outcome \cup {"open"} /\ status \in Outcome \cup {"running"}
      /\ abortTx \in BOOLEAN /\ cancelled \in {"no", "early", "started"}
  BY DEF CycleTypeOK, IInv
<1>1. CASE HandleMoves
  <2>1. Emitted \in Seq(Event)
    <3>1. \A e \in Event : <<e>> \in Seq(Event)
      OBVIOUS
    <3>2. Emitted = <<>> \/ \E e \in Event : Emitted = <<e>>
      BY DEF Emitted
    <3>3. <<>> \in Seq(Event)
      OBVIOUS
    <3>4. ASSUME NEW e \in Event, Emitted = <<e>> PROVE Emitted \in Seq(Event)
      BY <3>1, <3>4
    <3> QED
      BY <3>2, <3>3, <3>4
  <2>2. events' \in Seq(Event) /\ changed' \in BOOLEAN
    BY <1>0, <1>1, <2>1 DEF HandleMoves, Observe
  <2> QED
    BY <1>0, <1>1, <2>2 DEF HandleMoves, runVars, CycleTypeOK
<1>2. events' = events \/ (events # <<>> /\ events' = Tail(events)) \/ HandleMoves
  BY DEF CycleNext, cycleVars, RunStep, Registers, Starts, LoadEvent, LoadState, LoadTimesOut, Measures,
     ClientFails, MeasureEvent, MeasureEnds, MeasureTimesOut, EndsWork, Finalizes, Stopped, Records, Answered,
     RequestFails, UserAborts, Dropped
<1>3. ASSUME ~HandleMoves PROVE events' \in Seq(Event)
  BY <1>0, <1>2, <1>3
<1> USE DEF CycleTypeOK, Position, Open, Outcome
<1>4. CASE LoadEvent /\ ~HandleMoves
  BY <1>0, <1>3, <1>4 DEF LoadEvent, Loaded
<1>5. CASE LoadState /\ ~HandleMoves
  BY <1>0, <1>3, <1>5 DEF LoadState, Loaded
<1>6. CASE LoadTimesOut /\ ~HandleMoves
  BY <1>0, <1>3, <1>6 DEF LoadTimesOut
<1>7. CASE Registers /\ ~HandleMoves
  BY <1>0, <1>3, <1>7 DEF Registers
<1>8. CASE Starts /\ ~HandleMoves
  BY <1>0, <1>3, <1>8 DEF Starts
<1>9. CASE Measures /\ ~HandleMoves
  BY <1>0, <1>3, <1>9 DEF Measures
<1>9a. CASE ClientFails /\ ~HandleMoves
  BY <1>0, <1>3, <1>9a DEF ClientFails
<1>10. CASE MeasureEvent /\ ~HandleMoves
  BY <1>0, <1>3, <1>10 DEF MeasureEvent
<1>11. CASE MeasureEnds /\ ~HandleMoves
  BY <1>0, <1>3, <1>11 DEF MeasureEnds
<1>12. CASE MeasureTimesOut /\ ~HandleMoves
  BY <1>0, <1>3, <1>12 DEF MeasureTimesOut
<1>13. CASE EndsWork /\ ~HandleMoves
  BY <1>0, <1>3, <1>13 DEF EndsWork
<1>14. CASE Finalizes /\ ~HandleMoves
  BY <1>0, <1>3, <1>14 DEF Finalizes
<1>15. CASE Stopped /\ ~HandleMoves
  BY <1>0, <1>3, <1>15 DEF Stopped
<1>16. CASE Records /\ ~HandleMoves
  BY <1>0, <1>3, <1>16 DEF Records, OutcomeIsKnown, Decided
<1>17. CASE Answered /\ ~HandleMoves
  BY <1>0, <1>3, <1>17 DEF Answered
<1>18. CASE RequestFails /\ ~HandleMoves
  BY <1>0, <1>3, <1>18 DEF RequestFails
<1>19. CASE UserAborts /\ ~HandleMoves
  BY <1>0, <1>3, <1>19 DEF UserAborts
<1>20. CASE Dropped /\ ~HandleMoves
  BY <1>0, <1>3, <1>20 DEF Dropped
<1>21. CASE UNCHANGED cycleVars
  BY <1>0, <1>21 DEF cycleVars, runVars
<1> QED
  BY <1>1, <1>4, <1>5, <1>6, <1>7, <1>8, <1>9, <1>9a,
     <1>10, <1>11, <1>12, <1>13, <1>14, <1>15, <1>16, <1>17, <1>18, <1>19, <1>20, <1>21 DEF CycleNext, RunStep

LEMMA NextStart == IInv /\ CycleTypeOK /\ StartPending /\ [CycleNext]_cycleVars => StartPending'
<1> SUFFICES ASSUME IInv, CycleTypeOK, StartPending, [CycleNext]_cycleVars PROVE StartPending'
  OBVIOUS
<1>0. TypeOK /\ OneStart /\ (HasStart => pc \in {"loading", "dropped"})
      /\ (Unstarted => state = "Idle" /\ events = <<>> /\ ~changed)
      /\ changed \in BOOLEAN
  BY DEF StartPending, CycleTypeOK
\* The handle moves: its Start is taken, and none is left, or it stays idle.
<1>1. CASE HandleMoves
  <2>1. /\ HandleNext /\ pc' = pc
        /\ changed' = (changed \/ state' # state)
        /\ events' = IF pc \in Open THEN events \o Emitted ELSE events
    BY <1>1 DEF HandleMoves, Observe, runVars
  <2>2. OneStart' /\ (HasStart' => HasStart)
    <3>1. CASE UNCHANGED inbox
      BY <1>0, <3>1 DEF OneStart, HasStart
    <3>2. CASE inbox # <<>> /\ inbox' = Tail(inbox)
      BY <1>0, <3>2, StartTaken
    <3>3. ASSUME NEW c \in Command, c.op = "Abort", inbox' = Append(inbox, c)
          PROVE  OneStart' /\ (HasStart' => HasStart)
      BY <1>0, <3>3, StartAdded
    <3> QED
      BY <1>0, <2>1, <3>1, <3>2, <3>3, HandleInbox
  <2>3. ASSUME Unstarted' PROVE state' = "Idle" /\ events' = <<>> /\ ~changed'
    <3>1. Unstarted
      BY <2>1, <2>2, <2>3 DEF Unstarted
    <3>2. ~(inbox # <<>> /\ inbox' = Tail(inbox) /\ Head(inbox).op = "Start")
      <4>1. SUFFICES ASSUME inbox # <<>>, inbox' = Tail(inbox), Head(inbox).op = "Start" PROVE FALSE
        OBVIOUS
      <4>2. ~HasStart'
        BY <1>0, <4>1, StartTaken
      <4>3. HasStart
        <5>1. 1 \in 1..Len(inbox) /\ Head(inbox) = inbox[1]
          BY <1>0, <4>1 DEF TypeOK
        <5> QED
          BY <4>1, <5>1 DEF HasStart
      <4> QED
        BY <1>0, <2>1, <2>3, <4>2, <4>3 DEF Unstarted
    <3>3. state' = "Idle" /\ state = "Idle" /\ watchdog = "off"
      BY <1>0, <2>1, <3>1, <3>2, IdleWaits
    <3>4. Emitted = <<>>
      BY <3>3 DEF Emitted
    <3> QED
      BY <1>0, <2>1, <3>1, <3>3, <3>4
  <2> QED
    BY <1>0, <2>1, <2>2, <2>3 DEF StartPending
\* The one Start.
<1>2. CASE Starts
  <2>1. /\ pc = "registered" /\ pc' \in {"loading", "dropped"}
        /\ UNCHANGED <<events, changed, state>>
    BY <1>2 DEF Starts, Tell, handleVars
  <2>2. OneStart'
    BY <1>0, <1>2, <2>1, Told, StartAdded DEF Starts, Tell, ClientCommand, Op
  <2> QED
    BY <1>0, <2>1, <2>2 DEF StartPending, Unstarted
\* Otherwise no Start comes in; and a run that still waits for a word of the handle goes
\* on only to be dropped.
<1>3. ASSUME ~HandleMoves, ~Starts PROVE StartPending'
  <2>1. OneStart' /\ (HasStart' <=> HasStart) /\ state' = state
    <3>1. CASE UNCHANGED vars
      BY <1>0, <3>1 DEF vars, OneStart, HasStart
    <3>2. ASSUME NEW op \in Op \ {"Start"}, Tell(op)
          PROVE  OneStart' /\ (HasStart' <=> HasStart) /\ state' = state
      BY <1>0, <3>2, Told, StartAdded DEF Tell, ClientCommand, handleVars
    <3> QED
      BY <1>3, <3>1, <3>2, RunSteps
  <2>2. ASSUME Unstarted
        PROVE  /\ UNCHANGED <<events, changed>>
               /\ pc' = pc \/ (pc = "new" /\ pc' = "registered") \/ pc' = "dropped"
    <3>1. state = "Idle" /\ events = <<>> /\ ~changed /\ pc \in {"new", "registered", "loading", "dropped"}
      BY <1>0, <2>2 DEF Unstarted
    <3> QED
      BY <1>3, <3>1 DEF CycleNext, cycleVars, runVars, RunStep, Registers, LoadEvent, LoadState,
         LoadTimesOut, Measures, ClientFails, MeasureEvent, MeasureEnds, MeasureTimesOut, EndsWork, Finalizes,
         Stopped, Records, Answered, RequestFails, UserAborts, Dropped
  <2>3. pc' \in {"new", "registered"} => pc \in {"new", "registered"}
    BY <1>3 DEF CycleNext, cycleVars, runVars, RunStep, Registers, LoadEvent, LoadState,
         LoadTimesOut, Loaded, Measures, ClientFails, MeasureEvent, MeasureEnds, MeasureTimesOut, EndsWork, Finalizes,
         Stopped, Records, Answered, RequestFails, UserAborts, Dropped
  <2> QED
    BY <1>0, <2>1, <2>2, <2>3 DEF StartPending, Unstarted
<1> QED
  BY <1>1, <1>2, <1>3

LEMMA NextOutcome ==
  ASSUME CycleTypeOK, MeasureKnown, OutcomeIsKnown, OutcomeIsTrue, [CycleNext]_cycleVars
  PROVE  MeasureKnown' /\ OutcomeIsKnown' /\ OutcomeIsTrue'
<1>0. saw \in BOOLEAN
  BY DEF CycleTypeOK
<1> USE DEF MeasureKnown, OutcomeIsKnown, Decided, OutcomeIsTrue
<1>1. CASE HandleMoves \/ UNCHANGED cycleVars
  BY <1>1 DEF HandleMoves, cycleVars, runVars
<1>2. CASE LoadEvent
  BY <1>0, <1>2 DEF LoadEvent, Loaded
<1>3. CASE LoadState
  BY <1>0, <1>3 DEF LoadState, Loaded
<1>4. CASE LoadTimesOut
  BY <1>0, <1>4 DEF LoadTimesOut
<1>5. CASE Registers
  BY <1>0, <1>5 DEF Registers
<1>6. CASE Starts
  BY <1>0, <1>6 DEF Starts
<1>7. CASE Measures
  BY <1>0, <1>7 DEF Measures
<1>7a. CASE ClientFails
  BY <1>0, <1>7a DEF ClientFails
<1>8. CASE MeasureEvent
  BY <1>0, <1>8 DEF MeasureEvent
<1>9. CASE MeasureEnds
  BY <1>0, <1>9 DEF MeasureEnds
<1>10. CASE MeasureTimesOut
  BY <1>0, <1>10 DEF MeasureTimesOut
<1>11. CASE EndsWork
  BY <1>0, <1>11 DEF EndsWork
<1>12. CASE Finalizes
  BY <1>0, <1>12 DEF Finalizes
<1>13. CASE Stopped
  BY <1>0, <1>13 DEF Stopped
<1>14. CASE Records
  BY <1>0, <1>14 DEF Records
<1>15. CASE Answered
  BY <1>0, <1>15 DEF Answered
<1>16. CASE RequestFails
  BY <1>0, <1>16 DEF RequestFails
<1>17. CASE UserAborts
  BY <1>0, <1>17 DEF UserAborts
<1>18. CASE Dropped
  BY <1>0, <1>18 DEF Dropped
<1> QED
  BY <1>1, <1>2, <1>3, <1>4, <1>5, <1>6, <1>7, <1>7a, <1>8, <1>9, <1>10,
     <1>11, <1>12, <1>13, <1>14, <1>15, <1>16, <1>17, <1>18 DEF CycleNext, RunStep

\* A run that is over has an idle handle, which nothing starts any more.
LEMMA NextEnded ==
  ASSUME IInv, StartPending, EndedIsIdle, [CycleNext]_cycleVars
  PROVE  EndedIsIdle'
<1>1. CASE HandleMoves
  <2>1. HandleNext /\ pc' = pc
    BY <1>1 DEF HandleMoves, runVars
  <2>2. ASSUME pc \in {"stopped", "done"} PROVE state' = "Idle"
    <3>1. state = "Idle" /\ ~HasStart
      BY <2>2 DEF EndedIsIdle, StartPending
    <3>2. ASSUME inbox # <<>>, Head(inbox).op = "Start" PROVE FALSE
      <4>1. 1 \in 1..Len(inbox) /\ Head(inbox) = inbox[1]
        BY <3>2 DEF IInv, TypeOK
      <4> QED
        BY <3>1, <3>2, <4>1 DEF HasStart
    <3> QED
      BY <2>1, <3>1, <3>2, IdleWaits
  <2> QED
    BY <2>1, <2>2 DEF EndedIsIdle
<1>2. CASE ~HandleMoves
  <2>1. state' = state
    BY <1>2, RunSteps DEF vars, Starts, Tell, handleVars
  <2>2. pc' \in {"stopped", "done"} => pc \in {"stopped", "done"} \/ state = "Idle"
    BY <1>2 DEF CycleNext, cycleVars, runVars, RunStep, Registers, Starts, LoadEvent, LoadState,
       LoadTimesOut, Loaded, Measures, ClientFails, MeasureEvent, MeasureEnds, MeasureTimesOut, EndsWork, Finalizes,
       Stopped, Records, Answered, RequestFails, UserAborts, Dropped
  <2> QED
    BY <2>1, <2>2 DEF EndedIsIdle
<1> QED
  BY <1>1, <1>2

\* Only the end of a run lets go of its sender.
LEMMA NextSender == SenderIsKept /\ [CycleNext]_cycleVars => SenderIsKept'
<1> SUFFICES ASSUME SenderIsKept, [CycleNext]_cycleVars PROVE SenderIsKept'
  OBVIOUS
<1> USE DEF SenderIsKept
<1>1. CASE HandleMoves \/ UNCHANGED cycleVars
  BY <1>1 DEF HandleMoves, cycleVars, runVars
<1>2. CASE Registers \/ Starts \/ LoadEvent \/ LoadState \/ LoadTimesOut \/ Measures \/ ClientFails
  BY <1>2 DEF Registers, Starts, LoadEvent, LoadState, LoadTimesOut, Loaded, Measures, ClientFails
<1>3. CASE MeasureEvent \/ MeasureEnds \/ MeasureTimesOut \/ EndsWork \/ Finalizes \/ Stopped \/ Records
  BY <1>3 DEF MeasureEvent, MeasureEnds, MeasureTimesOut, EndsWork, Finalizes, Stopped, Records
<1>4. CASE Answered \/ RequestFails \/ UserAborts \/ Dropped
  BY <1>4 DEF Answered, RequestFails, UserAborts, Dropped
<1> QED
  BY <1>1, <1>2, <1>3, <1>4 DEF CycleNext, RunStep

-----------------------------------------------------------------------------
(* The theorems *)

LEMMA CycleStarts == CycleInit => CycleInv
<1> SUFFICES ASSUME CycleInit PROVE CycleInv
  OBVIOUS
<1>1. IInv /\ TypeOK
  BY InitIInv DEF CycleInit, IInv
<1>2. CycleTypeOK
  <2>1. <<>> \in Seq({"Ready", "Idle", "Kill"})
    OBVIOUS
  <2> QED
    BY <1>1, <2>1 DEF CycleInit, CycleTypeOK, Position, Open
<1>3. StartPending
  BY DEF CycleInit, Init, StartPending, Unstarted, HasStart, OneStart
<1> QED
  BY <1>1, <1>2, <1>3 DEF CycleInit, CycleInv, MeasureKnown, OutcomeIsKnown, Decided, OutcomeIsTrue,
     EndedIsIdle, SenderIsKept

\* CycleInv is inductive.
LEMMA CycleInductive == CycleInv /\ [CycleNext]_cycleVars => CycleInv'
<1> SUFFICES ASSUME CycleInv, [CycleNext]_cycleVars PROVE CycleInv'
  OBVIOUS
<1>1. IInv'
  BY NextHandle DEF CycleInv
<1> QED
  BY <1>1, NextCycleType, NextStart, NextOutcome, NextEnded, NextSender DEF CycleInv

LEMMA CycleHolds == CycleSpec => []CycleInv
BY CycleStarts, CycleInductive, PTL DEF CycleSpec

\* A run counts as completed only with a whole answer, as failed only without one, as shot
\* if it saw the kill, in every order of answers, events, states and timers.
THEOREM OutcomesAreRight == CycleSpec => []OutcomeIsRight
<1>1. CycleInv => OutcomeIsRight
  BY DEF CycleInv, OutcomeIsRight
<1> QED
  BY <1>1, CycleHolds, PTL

\* A run that has ended by itself leaves an idle handle, no server that is not killed and
\* no Start in the channel, whatever the actor and its server did meanwhile; or it has
\* broken off for want of a client, and an abort still reaches its server.
THEOREM EndsAreClean == CycleSpec => []EndedIsClean
<1>1. CycleInv => EndedIsClean
  <2> SUFFICES ASSUME CycleInv, pc \in {"stopped", "done"}
               PROVE  /\ state = "Idle"
                      /\ alive \subseteq killed
                      /\ \A i \in DOMAIN inbox : inbox[i].op # "Start"
    BY DEF EndedIsClean, CycleInv, SenderIsKept
  <2>1. state = "Idle" /\ ~HasStart
    BY DEF CycleInv, EndedIsIdle, StartPending
  <2>2. alive \subseteq killed
    BY <2>1, SessionAssumption DEF CycleInv, IInv, TypeOK, NoOrphan, ActiveMatchesState, Owning
  <2>3. \A i \in DOMAIN inbox : inbox[i].op # "Start"
    BY <2>1 DEF CycleInv, IInv, TypeOK, HasStart
  <2> QED
    BY <2>1, <2>2, <2>3
<1> QED
  BY <1>1, CycleHolds, PTL

\* A run is a client of its handle as Lifecycle allows one, and one that is not hasty: all
\* that is proved of Lifecycle holds of the handle of a run.
THEOREM RunIsClient == CycleSpec => Spec /\ []~hasty
<1>1. CycleInv /\ [CycleNext]_cycleVars => [Next]_vars
  <2> SUFFICES ASSUME CycleInv, [CycleNext]_cycleVars PROVE [Next]_vars
    OBVIOUS
  <2>1. ASSUME NEW op \in Op, Tell(op), op = "Start" => state = "Idle" /\ ~HasStart PROVE Next
    <3> DEFINE c == [op |-> op, by |-> NoSession]
    <3>1. c \in ClientCommand /\ c.op = op
      BY Told
    <3>2. /\ Len(inbox) < QueueCap /\ inbox' = Append(inbox, c)
          /\ UNCHANGED <<actorVars, watchdog, grace, procVars, unreaped>> /\ hasty' = hasty
      BY <2>1 DEF Tell, handleVars, actorVars, procVars, history
    <3>3. hasty \in BOOLEAN /\ DOMAIN inbox = 1..Len(inbox)
      BY DEF CycleInv, IInv, TypeOK
    <3>4. c.op = "Start" => Startable
      BY <2>1, <3>1, <3>3 DEF Startable, HasStart
    <3>5. hasty' = (hasty \/ (c.op = "Start" /\ ~Startable))
      BY <3>2, <3>3, <3>4, Zenon
    <3>6. Send(c)
      BY <3>2, <3>5, Zenon DEF Send
    <3> QED
      BY <3>1, <3>6 DEF Next
  <2>2. ASSUME Starts PROVE Tell("Start") /\ state = "Idle" /\ ~HasStart
    BY <2>2 DEF Starts, CycleInv, StartPending, Unstarted
  <2>3. CASE HandleMoves
    BY <2>3 DEF HandleMoves, Next
  <2> QED
    BY <2>1, <2>2, <2>3, RunSteps DEF Op
<1>2. [CycleNext]_cycleVars /\ ~hasty => ~hasty'
  <2> SUFFICES ASSUME [CycleNext]_cycleVars PROVE hasty' = hasty
    OBVIOUS
  <2>1. ASSUME HandleNext PROVE hasty' = hasty
    BY <2>1 DEF HandleNext, ReceiveCommand, StartSpawns, StartFails, StartIgnored, StopGraceful,
       StopAtOnce, StopIgnored, AbortKills, AbortIgnored, BeginWork, EndWork, ChildExited, PollAnswered,
       PollHandled, StartTimesOut, StopTimesOut, ReapConfirmed, ReapGivesUp, EndCleanup, WatchdogTrips,
       WatchdogSends, GraceOver, Serves, Exits, Dies, history
  <2>2. ASSUME NEW op, Tell(op) PROVE hasty' = hasty
    BY <2>2 DEF Tell, handleVars, history
  <2> QED
    BY <2>1, <2>2, RunSteps DEF HandleMoves, Starts, vars
<1>3. CycleInit => Init /\ ~hasty
  BY DEF CycleInit, Init
<1> QED
  BY <1>1, <1>2, <1>3, CycleHolds, PTL DEF CycleSpec, Spec

\* So no orphan is left in the middle of a run either, its states mean what they say, and
\* an Abort that takes effect is the user's or that of the server's own watchdog.
THEOREM RunsHandleIsKept == CycleSpec => [](StatesAreKept /\ NoOrphan /\ OneServer /\ AbortIsOwn)
BY RunIsClient, StatesHold, NeverAnOrphan, AtMostOneServer, AbortsAreOwn, PTL
=============================================================================
