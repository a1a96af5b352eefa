--------------------------- MODULE ServeSessionProofs ---------------------------
(***************************************************************************)
(* Proofs about ServeSession, for any number of presses and models.        *)
(*                                                                         *)
(* What the run checks is inductive with five more facts: which handle a   *)
(* call holds (CallsHoldHandles), that a handle is started once, by its    *)
(* press (StartedOnce), that no Stop stands before a Start except one that *)
(* overtook it (StopsAreLate), that BeginWork is followed by its EndWork   *)
(* (WorkIsAsked) if its request did not break off, and what a patient      *)
(* user's presses look like on their way                                   *)
(* (OneUnderWay, PatientStop, PatientStart, ScreenFollows).                *)
(***************************************************************************)
EXTENDS ServeSession, TLAPS

\* Where a press has not made its handle, and where it has not sent Start either.
Before == {"new", "stop", "sendStop", "closing", "stopped", "start"}

\* A call that uses a handle has got one, and only a handle that was made is used.
CallsHoldHandles ==
  /\ serveHandle # NoPress => pc[serveHandle] \notin Before
  /\ \A p \in Press :
       /\ pc[p] \in {"sendStop", "closing", "waiting", "begin", "asking"} => on[p] # NoPress
       /\ on[p] # NoPress => pc[on[p]] \notin Before

\* Of a command there is at most one; all of one kind stand after all of another; and
\* every BeginWork has an EndWork behind it.
Once(s, e) == \A i, j \in 1..Len(s) : s[i] = e /\ s[j] = e => i = j
After(s, e, f) == \A i, j \in 1..Len(s) : s[i] = e /\ s[j] = f => j < i
Answered(s) ==
  \A i \in 1..Len(s) : s[i] = "BeginWork" => \E j \in 1..Len(s) : j > i /\ s[j] = "EndWork"

\* Start is sent once, and taken by an actor that has not been started.
StartedOnce ==
  \A h \in Press :
    /\ pc[h] \in Before \cup {"sendStart"} => handle[h] = "new" /\ ~Contains(inbox[h], "Start")
    /\ Contains(inbox[h], "Start") => handle[h] = "new"
    /\ Once(inbox[h], "Start")

\* A Stop stands before a Start, or in a channel without its Start, only if it overtook it;
\* a handle dropped between its registration and its Start is about to get its Stop.
IsStopped(h) == \E p \in Press : pc[p] = "sendStop" /\ on[p] = h

StopsAreLate ==
  \A h \in Press : h \notin overtaken =>
    /\ After(inbox[h], "Stop", "Start")
    /\ pc[h] \in Before \cup {"sendStart"} => ~Contains(inbox[h], "Stop")
    /\ pc[h] = "sendStart" /\ h # serveHandle => IsStopped(h)

\* Whoever asks of a handle will send EndWork, and has sent it after any BeginWork,
\* or has broken off.
AskerOf(h) == \E p \in Press : pc[p] = "asking" /\ on[p] = h

WorkIsAsked == \A h \in Press : AskerOf(h) \/ h \in unended \/ Answered(inbox[h])

\* A server says model_loaded only while there is one.
LoadedIsUp == \A h \in loaded : handle[h] \in {"loading", "ready", "busy", "closing"}

\* A user who waits has one press under way, and no Stop overtakes a Start.
OneUnderWay ==
  user = "patient" =>
    /\ overtaken = {}
    /\ \A p, q \in Press : pc[p] \in UnderWay /\ pc[q] \in UnderWay => p = q

\* Such a user's server belongs to AppState or to the stop that is under way, which
\* has a server that was started.
PatientStop ==
  user = "patient" => \A p, h \in Press :
    /\ Up(h) /\ h # serveHandle =>
         \E q \in Press : pc[q] \in {"sendStop", "closing"} /\ on[q] = h
    /\ pc[p] \in {"sendStop", "closing"} => handle[on[p]] # "new"
    /\ pc[p] \in {"sendStop", "closing", "stopped"} => serveHandle = NoPress

\* Such a user's start waits for its own handle, and nobody leaves a handle new.
PatientStart ==
  user = "patient" =>
    /\ serveHandle # NoPress /\ handle[serveHandle] = "new" =>
         pc[serveHandle] \in {"sendStart", "started", "wait", "waiting"}
    /\ \A p \in Press :
         /\ pc[p] \in {"sendStart", "started", "wait", "waiting", "ready"} => serveHandle = p
         /\ pc[p] = "waiting" => on[p] = p

\* On the way the screen has what it will show.
ScreenFollows ==
  user = "patient" /\ left = {} => \A p \in Press :
    /\ pc[p] = "start" => serveHandle = NoPress /\ asked[p] = want
    /\ pc[p] \in {"sendStart", "started"} => serveProfile = want
    /\ pc[p] \in {"wait", "waiting", "ready"} => serveProfile = serving

EarlyIsOver == pc[Early] = "done"

ServeInv ==
  /\ TypeOK /\ CallsHoldHandles /\ StartedOnce /\ StopsAreLate /\ NoServerLost
  /\ WorkIsAsked /\ BusyIsAsked /\ LoadedIsUp
  /\ OneUnderWay /\ PatientStop /\ PatientStart /\ ScreenFollows /\ ScreenIsRight /\ EarlyIsOver

-----------------------------------------------------------------------------
(* Channels *)

\* What a channel holds after a command was added or taken.
LEMMA Added ==
  ASSUME NEW s \in Seq(Command), NEW c \in Command
  PROVE  /\ Append(s, c) \in Seq(Command)
         /\ Len(Append(s, c)) = Len(s) + 1 /\ Len(s) \in Nat
         /\ \A i \in 1..Len(s) : Append(s, c)[i] = s[i]
         /\ Append(s, c)[Len(s) + 1] = c
         /\ \A e : Contains(Append(s, c), e) <=> Contains(s, e) \/ e = c
<1>1. /\ Append(s, c) \in Seq(Command)
      /\ Len(Append(s, c)) = Len(s) + 1 /\ Len(s) \in Nat
      /\ \A i \in 1..Len(s) : Append(s, c)[i] = s[i]
      /\ Append(s, c)[Len(s) + 1] = c
  OBVIOUS
<1> QED
  BY <1>1 DEF Contains

LEMMA Taken ==
  ASSUME NEW s \in Seq(Command), s # <<>>
  PROVE  /\ Tail(s) \in Seq(Command) /\ Head(s) \in Command
         /\ Len(Tail(s)) = Len(s) - 1 /\ Len(s) \in Nat \ {0}
         /\ Head(s) = s[1]
         /\ \A i \in 1..Len(Tail(s)) : i + 1 \in 1..Len(s) /\ Tail(s)[i] = s[i + 1]
         /\ \A e : Contains(s, e) <=> Contains(Tail(s), e) \/ e = Head(s)
<1>1. /\ Tail(s) \in Seq(Command) /\ Head(s) \in Command
      /\ Len(Tail(s)) = Len(s) - 1 /\ Len(s) \in Nat \ {0}
      /\ Head(s) = s[1]
      /\ \A i \in 1..Len(Tail(s)) : i + 1 \in 1..Len(s) /\ Tail(s)[i] = s[i + 1]
  OBVIOUS
<1>2. ASSUME NEW e PROVE Contains(s, e) <=> Contains(Tail(s), e) \/ e = Head(s)
  <2>1. ASSUME Contains(s, e) PROVE Contains(Tail(s), e) \/ e = Head(s)
    <3>1. PICK i \in 1..Len(s) : s[i] = e
      BY <2>1 DEF Contains
    <3>2. CASE i = 1
      BY <1>1, <3>1, <3>2
    <3>3. CASE i > 1
      <4>1. i - 1 \in 1..Len(Tail(s)) /\ Tail(s)[i - 1] = e
        BY <1>1, <3>1, <3>3
      <4> QED
        BY <4>1 DEF Contains
    <3> QED
      BY <3>1, <3>2, <3>3
  <2>2. ASSUME Contains(Tail(s), e) \/ e = Head(s) PROVE Contains(s, e)
    BY <1>1, <2>2 DEF Contains
  <2> QED
    BY <2>1, <2>2
<1> QED
  BY <1>1, <1>2

\* What holds of a channel goes on holding ...
LEMMA AddedInOrder ==
  ASSUME NEW s \in Seq(Command), NEW c \in Command
  PROVE  /\ \A e : Once(s, e) /\ (c # e \/ ~Contains(s, e)) => Once(Append(s, c), e)
         /\ \A e, f : After(s, e, f) /\ e # f /\ (c # f \/ ~Contains(s, e)) => After(Append(s, c), e, f)
         /\ Answered(s) /\ c # "BeginWork" => Answered(Append(s, c))
         /\ c = "EndWork" => Answered(Append(s, c))
<1> DEFINE t == Append(s, c)
<1>1. /\ Len(t) = Len(s) + 1 /\ Len(s) \in Nat
      /\ \A i \in 1..Len(s) : t[i] = s[i]
      /\ t[Len(s) + 1] = c
  BY Added
<1> HIDE DEF t
<1>2. ASSUME NEW e, Once(s, e), c # e \/ ~Contains(s, e) PROVE Once(t, e)
  BY <1>1, <1>2 DEF Once, Contains
<1>3. ASSUME NEW e, NEW f, After(s, e, f), e # f, c # f \/ ~Contains(s, e) PROVE After(t, e, f)
  BY <1>1, <1>3 DEF After, Contains
<1>4. ASSUME Answered(s), c # "BeginWork" PROVE Answered(t)
  BY <1>1, <1>4 DEF Answered
<1>5. ASSUME c = "EndWork" PROVE Answered(t)
  <2> SUFFICES ASSUME NEW i \in 1..Len(t), t[i] = "BeginWork"
               PROVE  \E j \in 1..Len(t) : j > i /\ t[j] = "EndWork"
    BY DEF Answered
  <2>1. Len(t) \in 1..Len(t) /\ Len(t) > i /\ t[Len(t)] = "EndWork"
    BY <1>1, <1>5
  <2> QED
    BY <2>1
<1> QED
  BY <1>2, <1>3, <1>4, <1>5 DEF t

\* ... and what the first command promises, the rest keeps.
LEMMA TakenInOrder ==
  ASSUME NEW s \in Seq(Command), s # <<>>
  PROVE  /\ \A e : Once(s, e) => Once(Tail(s), e) /\ (Head(s) = e => ~Contains(Tail(s), e))
         /\ \A e, f : After(s, e, f) => After(Tail(s), e, f) /\ (Head(s) = e => ~Contains(Tail(s), f))
         /\ Answered(s) => Answered(Tail(s)) /\ (Head(s) = "BeginWork" => Contains(Tail(s), "EndWork"))
<1> DEFINE t == Tail(s)
<1>1. /\ Len(t) = Len(s) - 1 /\ Len(s) \in Nat \ {0}
      /\ Head(s) = s[1]
      /\ \A i \in 1..Len(t) : i + 1 \in 1..Len(s) /\ t[i] = s[i + 1]
  BY Taken
<1> HIDE DEF t
<1>2. ASSUME NEW e, Once(s, e) PROVE Once(t, e) /\ (Head(s) = e => ~Contains(t, e))
  BY <1>1, <1>2 DEF Once, Contains
<1>3. ASSUME NEW e, NEW f, After(s, e, f) PROVE After(t, e, f) /\ (Head(s) = e => ~Contains(t, f))
  BY <1>1, <1>3 DEF After, Contains
<1>4. ASSUME Answered(s), NEW k \in 1..Len(s), s[k] = "BeginWork"
      PROVE  \E j \in 1..Len(t) : j + 1 > k /\ t[j] = "EndWork"
  <2>1. PICK j \in 1..Len(s) : j > k /\ s[j] = "EndWork"
    BY <1>4 DEF Answered
  <2>2. j - 1 \in 1..Len(t) /\ (j - 1) + 1 > k /\ t[j - 1] = "EndWork"
    BY <1>1, <2>1
  <2> QED
    BY <2>2
<1>5. ASSUME Answered(s) PROVE Answered(t) /\ (Head(s) = "BeginWork" => Contains(t, "EndWork"))
  <2>1. ASSUME NEW i \in 1..Len(t), t[i] = "BeginWork"
        PROVE  \E j \in 1..Len(t) : j > i /\ t[j] = "EndWork"
    <3>1. i + 1 \in 1..Len(s) /\ s[i + 1] = "BeginWork"
      BY <1>1, <2>1
    <3>2. PICK j \in 1..Len(t) : j + 1 > i + 1 /\ t[j] = "EndWork"
      BY <1>4, <1>5, <3>1
    <3> QED
      BY <3>2
  <2>2. ASSUME Head(s) = "BeginWork" PROVE Contains(t, "EndWork")
    <3>1. 1 \in 1..Len(s) /\ s[1] = "BeginWork"
      BY <1>1, <2>2
    <3> QED
      BY <1>4, <1>5, <3>1 DEF Contains
  <2> QED
    BY <2>1, <2>2 DEF Answered
<1> QED
  BY <1>2, <1>3, <1>5 DEF t

-----------------------------------------------------------------------------
(* Type correctness *)

\* A press moves from place to place.
LEMMA EnsureType ==
  ASSUME TypeOK, NEW p \in Press, NEW k \in {"start", "send"}, Acts(p), Ensure(p, k), UNCHANGED want
  PROVE  TypeOK'
<1> USE DEF TypeOK, Acts, stateVars, bridgeVars, handleVars
<1>1. CASE Served(p, k) /\ UNCHANGED <<status, inProgress, asked>>
  BY <1>1 DEF Served, Returns, UnderWay, Asking
<1>2. CASE Begins(p, k, "stop") /\ UNCHANGED <<status, inProgress, asked>>
  BY <1>2 DEF Begins, UnderWay, Asking
<1>3. CASE Begins(p, k, "start") /\ Opens(p)
  BY <1>3 DEF Begins, Opens, UnderWay, Asking
<1> QED
  BY <1>1, <1>2, <1>3 DEF Ensure

LEMMA RequestsType ==
  ASSUME TypeOK, NEW p \in Press, NEW k \in {"summary", "send"}, NEW taken, Requests(p, k, taken)
  PROVE  TypeOK'
<1> USE DEF TypeOK, stateVars, bridgeVars, handleVars, screenVars, history
<1>1. CASE Returns(p)
  BY <1>1 DEF Requests, Returns, UnderWay, Asking
<1>2. CASE ~Returns(p)
  <2>1. /\ pc' = [pc EXCEPT ![p] = "begin"] /\ kind' = [kind EXCEPT ![p] = k]
        /\ on' = [on EXCEPT ![p] = serveHandle]
        /\ UNCHANGED <<bridgeVars, handleVars, screenVars, asked, left, history>>
    BY <1>2, Zenon DEF Requests
  <2> QED
    BY <2>1 DEF Asking
<1> QED
  BY <1>1, <1>2

LEMMA SendType ==
  ASSUME TypeOK, NEW h, NEW c \in Command, Send(h, c)
  PROVE  inbox' \in [Press -> Seq(Command)]
BY Added DEF TypeOK, Send

LEMMA NextType == TypeOK /\ CallsHoldHandles /\ [Next]_vars => TypeOK'
<1> SUFFICES ASSUME TypeOK, CallsHoldHandles, [Next]_vars PROVE TypeOK'
  OBVIOUS
<1>1. ASSUME NEW p \in Press, PressesStart(p) \/ PressesSend(p) PROVE TypeOK'
  BY <1>1, EnsureType DEF PressesStart, PressesSend
<1>2. ASSUME NEW p \in Press, AsksSummary(p) \/ Asks(p) PROVE TypeOK'
  BY <1>2, RequestsType DEF AsksSummary, Asks
<1> USE PressAssumption, ModelAssumption
    DEF TypeOK, stateVars, bridgeVars, handleVars, screenVars, pressVars, history
<1>3. ASSUME NEW p \in Press, PressesStop(p) PROVE TypeOK'
  BY <1>3 DEF PressesStop, Acts, Begins, UnderWay
<1>4. ASSUME NEW p \in Press, NEW m \in Model, PicksModel(p, m) PROVE TypeOK'
  BY <1>4 DEF PicksModel, Acts, Begins, UnderWay
<1>5. ASSUME NEW p \in Press, NEW m \in Model, SelectsModel(p, m) PROVE TypeOK'
  BY <1>5 DEF SelectsModel, Acts, Returns
<1>6. CASE Reopens
  BY <1>6 DEF Reopens, FirstModel
<1>7. ASSUME NEW p \in Press, TakesHandle(p) PROVE TypeOK'
  BY <1>7 DEF TakesHandle, Goes, UnderWay
<1>8. ASSUME NEW p \in Press, SendsStop(p) PROVE TypeOK'
  <2>1. inbox' \in [Press -> Seq(Command)]
    BY <1>8, SendType DEF SendsStop, Command
  <2> QED
    BY <1>8, <2>1 DEF SendsStop, Goes, UnderWay
<1>9. ASSUME NEW p \in Press, StopReturns(p) PROVE TypeOK'
  BY <1>9 DEF StopReturns, CallReturns, Goes, UnderWay
<1>10. ASSUME NEW p \in Press, StopEnds(p) PROVE TypeOK'
  BY <1>10 DEF StopEnds, Returns
<1>11. ASSUME NEW p \in Press, StopOpens(p) PROVE TypeOK'
  BY <1>11 DEF StopOpens, Opens, Goes, UnderWay
<1>12. ASSUME NEW p \in Press, StartRefused(p) PROVE TypeOK'
  BY <1>12 DEF StartRefused, Goes, UnderWay
<1>13. ASSUME NEW p \in Press, Registers(p) PROVE TypeOK'
  BY <1>13 DEF Registers, Goes, UnderWay
<1>14. ASSUME NEW p \in Press, SendsStart(p) PROVE TypeOK'
  <2>1. inbox' \in [Press -> Seq(Command)]
    BY <1>14, SendType DEF SendsStart, Command
  <2> QED
    BY <1>14, <2>1 DEF SendsStart, Goes, UnderWay
<1>15. ASSUME NEW p \in Press, Started(p) PROVE TypeOK'
  BY <1>15 DEF Started, Goes, UnderWay
<1>16. ASSUME NEW p \in Press, WaitTakes(p) PROVE TypeOK'
  BY <1>16 DEF WaitTakes, Goes, UnderWay
<1>17. ASSUME NEW p \in Press, WaitReady(p) PROVE TypeOK'
  BY <1>17 DEF WaitReady, CallReturns, Goes, UnderWay
<1>18. ASSUME NEW p \in Press, WaitFails(p) PROVE TypeOK'
  BY <1>18 DEF WaitFails, CallReturns, Goes, UnderWay
<1>19. ASSUME NEW p \in Press, ShowsReady(p) PROVE TypeOK'
  BY <1>19 DEF ShowsReady, Served, Returns, Asking
<1>20. ASSUME NEW p \in Press, ShowsError(p) PROVE TypeOK'
  BY <1>20 DEF ShowsError, Returns
<1>21. ASSUME NEW p \in Press, SendsBegin(p) PROVE TypeOK'
  <2>1. inbox' \in [Press -> Seq(Command)]
    BY <1>21, SendType DEF SendsBegin, Command
  <2> QED
    BY <1>21, <2>1 DEF SendsBegin, Goes, Asking
<1>22. ASSUME NEW p \in Press, Ends(p) PROVE TypeOK'
  <2>1. inbox' \in [Press -> Seq(Command)]
    BY <1>22, SendType DEF Ends, Command
  <2>2. CASE Returns(p)
    BY <1>22, <2>1, <2>2 DEF Ends, Returns
  <2>3. CASE Begins(p, "send", "ask")
    BY <1>22, <2>1, <2>3 DEF Ends, Begins, Asking
  <2> QED
    BY <1>22, <2>2, <2>3 DEF Ends
<1>22a. ASSUME NEW p \in Press, BreaksOff(p) PROVE TypeOK'
  BY <1>22a DEF BreaksOff, Returns, CallsHoldHandles
<1>23. ASSUME NEW h \in Press, TakesCommand(h) PROVE TypeOK'
  <2>1. inbox' \in [Press -> Seq(Command)]
    BY <1>23, Taken DEF TakesCommand
  <2> QED
    BY <1>23, <2>1 DEF TakesCommand, Effect
<1>24. ASSUME NEW h \in Press, Loads(h) \/ GetsReady(h) \/ Fails(h) \/ Closes(h) PROVE TypeOK'
  <2>1. UNCHANGED <<bridgeVars, screenVars, pc, pressVars, history>>
    BY <1>24 DEF Loads, GetsReady, Fails, Closes
  <2>2. /\ handle' \in [Press -> {"new", "loading", "ready", "busy", "closing", "idle"}]
        /\ loaded' \subseteq Press
    BY <1>24 DEF Loads, GetsReady, Fails, Closes
  <2> QED
    BY <2>1, <2>2
<1>25. CASE UNCHANGED vars
  BY <1>25 DEF vars
<1> QED
  BY <1>1, <1>2, <1>3, <1>4, <1>5, <1>6, <1>7, <1>8, <1>9, <1>10, <1>11, <1>12, <1>13, <1>14,
     <1>15, <1>16, <1>17, <1>18, <1>19, <1>20, <1>21, <1>22, <1>22a, <1>23, <1>24, <1>25
     DEF Next, UserActs, PressStep, HandleStep

-----------------------------------------------------------------------------
(* What a press changes besides the screen *)

\* A step of a press that leaves AppState, the channels and the handles alone, and
\* after which it holds no handle that it did not hold before.
QuietMove(p) ==
  /\ \E to \in UnderWay \cup Asking \cup {"done"} :
       /\ pc' = [pc EXCEPT ![p] = to]
       /\ to \in Before => pc[p] \in Before
       /\ to \notin {"sendStop", "closing", "waiting", "begin", "asking", "sendStart"}
  /\ on' \in {on, [on EXCEPT ![p] = NoPress]}
  /\ pc[p] \notin {"sendStop", "sendStart", "begin", "asking"}
  /\ UNCHANGED <<serveHandle, inbox, handle, loaded, overtaken, unended>>

\* These steps are: all but the eight in which a press takes, registers or commands.
LEMMA QuietSteps ==
  ASSUME TypeOK, NEW p \in Press,
         \/ PressesStart(p) \/ PressesSend(p) \/ PressesStop(p)
         \/ \E m \in Model : PicksModel(p, m) \/ SelectsModel(p, m)
         \/ StopReturns(p) \/ StopEnds(p) \/ StopOpens(p) \/ StartRefused(p) \/ Started(p)
         \/ WaitReady(p) \/ WaitFails(p) \/ ShowsReady(p) \/ ShowsError(p)
         \/ (pc[p] \in {"compress", "ask"} /\ Returns(p)
             /\ UNCHANGED <<serveHandle, inbox, handle, loaded, overtaken, unended>>)
  PROVE  QuietMove(p)
<1> USE DEF QuietMove, stateVars, bridgeVars, handleVars, screenVars, pressVars, history,
        UnderWay, Asking, Before
<1>1. ASSUME NEW k, Acts(p), Ensure(p, k) PROVE QuietMove(p)
  BY <1>1 DEF Acts, Ensure, Served, Begins, Returns
<1>2. CASE PressesStart(p) \/ PressesSend(p)
  BY <1>1, <1>2 DEF PressesStart, PressesSend
<1>3. CASE PressesStop(p)
  BY <1>3 DEF PressesStop, Acts, Begins
<1>4. ASSUME NEW m \in Model, PicksModel(p, m) PROVE QuietMove(p)
  BY <1>4 DEF PicksModel, Acts, Begins
<1>5. ASSUME NEW m \in Model, SelectsModel(p, m) PROVE QuietMove(p)
  BY <1>5 DEF SelectsModel, Acts, Returns
<1>6. CASE StopReturns(p)
  BY <1>6 DEF StopReturns, CallReturns, Goes
<1>7. CASE StopEnds(p)
  BY <1>7 DEF StopEnds, Returns
<1>8. CASE StopOpens(p)
  BY <1>8 DEF StopOpens, Goes
<1>9. CASE StartRefused(p)
  BY <1>9 DEF StartRefused, Goes
<1>10. CASE Started(p)
  BY <1>10 DEF Started, Goes
<1>11. CASE WaitReady(p)
  BY <1>11 DEF WaitReady, CallReturns, Goes
<1>12. CASE WaitFails(p)
  BY <1>12 DEF WaitFails, CallReturns, Goes
<1>13. CASE ShowsReady(p)
  BY <1>13 DEF ShowsReady, Served, Returns
<1>14. CASE ShowsError(p)
  BY <1>14 DEF ShowsError, Returns
<1>15. CASE pc[p] \in {"compress", "ask"} /\ Returns(p)
            /\ UNCHANGED <<serveHandle, inbox, handle, loaded, overtaken, unended>>
  BY <1>15 DEF Returns
<1> QED
  BY <1>2, <1>3, <1>4, <1>5, <1>6, <1>7, <1>8, <1>9, <1>10, <1>11, <1>12, <1>13, <1>14, <1>15

\* The other steps of a press, as far as they concern the handles.
Asked(p) ==
  /\ pc[p] \in {"compress", "ask"} /\ serveHandle # NoPress
  /\ pc' = [pc EXCEPT ![p] = "begin"] /\ on' = [on EXCEPT ![p] = serveHandle]
  /\ UNCHANGED <<serveHandle, inbox, handle, loaded, overtaken, unended>>

HandledStep(p) ==
  \/ TakesHandle(p) \/ SendsStop(p) \/ Registers(p) \/ SendsStart(p) \/ WaitTakes(p)
  \/ Asked(p) \/ SendsBegin(p) \/ Ends(p) \/ BreaksOff(p)

LEMMA Steps ==
  ASSUME TypeOK, [Next]_vars
  PROVE  \/ UNCHANGED <<serveHandle, inbox, handle, loaded, overtaken, unended, pc, on>>
         \/ \E p \in Press : QuietMove(p) \/ HandledStep(p) \/ HandleStep(p)
<1>1. ASSUME NEW p \in Press, AsksSummary(p) \/ Asks(p) PROVE Asked(p) \/ QuietMove(p)
  <2>1. CASE Returns(p)
    <3>1. pc[p] \in {"compress", "ask"} /\ UNCHANGED <<serveHandle, inbox, handle, loaded, overtaken, unended>>
      BY <1>1 DEF AsksSummary, Asks, Requests, stateVars, bridgeVars, handleVars, history
    <3> QED
      BY <2>1, <3>1, QuietSteps
  <2>2. CASE ~Returns(p)
    BY <1>1, <2>2 DEF AsksSummary, Asks, Requests, Asked, HasPort, TakesRequest,
       stateVars, bridgeVars, handleVars, history
  <2> QED
    BY <2>1, <2>2
<1>2. CASE Reopens
  BY <1>2 DEF Reopens, stateVars, bridgeVars, handleVars
<1>3. CASE UNCHANGED vars
  BY <1>3 DEF vars, stateVars, bridgeVars, handleVars, pressVars, history
<1> QED
  BY <1>1, <1>2, <1>3, QuietSteps DEF Next, UserActs, PressStep, HandledStep

-----------------------------------------------------------------------------
(* Who holds which handle *)

\* What every step does to the places and the handles the presses hold.
LEMMA NextCalls == TypeOK /\ CallsHoldHandles /\ [Next]_vars => CallsHoldHandles'
<1> SUFFICES ASSUME TypeOK, CallsHoldHandles, [Next]_vars PROVE CallsHoldHandles'
  OBVIOUS
<1> USE PressAssumption DEF TypeOK, CallsHoldHandles, Before
<1>1. ASSUME NEW p \in Press, QuietMove(p) PROVE CallsHoldHandles'
  BY <1>1 DEF QuietMove
<1>2. ASSUME NEW p \in Press, TakesHandle(p) PROVE CallsHoldHandles'
  BY <1>2 DEF TakesHandle, Goes
<1>3. ASSUME NEW p \in Press, SendsStop(p) PROVE CallsHoldHandles'
  BY <1>3 DEF SendsStop, Goes, stateVars, pressVars
<1>4. ASSUME NEW p \in Press, Registers(p) PROVE CallsHoldHandles'
  BY <1>4 DEF Registers, Goes
<1>5. ASSUME NEW p \in Press, SendsStart(p) PROVE CallsHoldHandles'
  BY <1>5 DEF SendsStart, Goes, stateVars, pressVars
<1>6. ASSUME NEW p \in Press, WaitTakes(p) PROVE CallsHoldHandles'
  BY <1>6 DEF WaitTakes, Goes, bridgeVars, stateVars
<1>7. ASSUME NEW p \in Press, Asked(p) PROVE CallsHoldHandles'
  BY <1>7 DEF Asked
<1>8. ASSUME NEW p \in Press, SendsBegin(p) PROVE CallsHoldHandles'
  BY <1>8 DEF SendsBegin, Goes, stateVars, pressVars
<1>9. ASSUME NEW p \in Press, Ends(p) PROVE CallsHoldHandles'
  <2>1. /\ UNCHANGED serveHandle /\ \E to \in {"done", "ask"} : pc' = [pc EXCEPT ![p] = to]
        /\ on' \in {on, [on EXCEPT ![p] = NoPress]}
    BY <1>9 DEF Ends, Returns, Begins, stateVars
  <2> QED
    BY <1>9, <2>1
<1>9a. ASSUME NEW p \in Press, BreaksOff(p) PROVE CallsHoldHandles'
  <2>1. /\ UNCHANGED serveHandle /\ pc' = [pc EXCEPT ![p] = "done"]
        /\ on' = [on EXCEPT ![p] = NoPress]
    BY <1>9a DEF BreaksOff, Returns, bridgeVars, stateVars
  <2> QED
    BY <2>1
<1>10. CASE UNCHANGED <<serveHandle, pc, on>>
  BY <1>10
<1>11. ASSUME NEW h \in Press, HandleStep(h) PROVE UNCHANGED <<serveHandle, pc, on>>
  BY <1>11 DEF HandleStep, TakesCommand, Loads, GetsReady, Fails, Closes, stateVars, bridgeVars, pressVars
<1> QED
  BY <1>1, <1>2, <1>3, <1>4, <1>5, <1>6, <1>7, <1>8, <1>9, <1>9a, <1>10, <1>11, Steps DEF HandledStep

-----------------------------------------------------------------------------
(* Start is sent once *)

LEMMA NextStarted ==
  TypeOK /\ CallsHoldHandles /\ StartedOnce /\ [Next]_vars => StartedOnce'
<1> SUFFICES ASSUME TypeOK, CallsHoldHandles, StartedOnce, [Next]_vars PROVE StartedOnce'
  OBVIOUS
<1> USE DEF TypeOK
<1> DEFINE Unsent(g) == pc[g] \in Before \cup {"sendStart"}
<1>1. ASSUME UNCHANGED <<inbox, handle>>, \A h \in Press : Unsent(h)' => Unsent(h)
      PROVE  StartedOnce'
  BY <1>1 DEF StartedOnce
<1>2. ASSUME NEW p \in Press, QuietMove(p) PROVE StartedOnce'
  <2>1. \A h \in Press : Unsent(h)' => Unsent(h)
    BY <1>2 DEF QuietMove, Before
  <2> QED
    BY <1>1, <1>2, <2>1 DEF QuietMove
<1>3. ASSUME NEW p \in Press, TakesHandle(p) \/ Registers(p) \/ WaitTakes(p) \/ Asked(p) \/ BreaksOff(p) PROVE StartedOnce'
  <2>1. \A h \in Press : Unsent(h)' => Unsent(h)
    BY <1>3 DEF TakesHandle, Registers, WaitTakes, Asked, BreaksOff, Returns, Goes, Before
  <2>2. UNCHANGED <<inbox, handle>>
    BY <1>3 DEF TakesHandle, Registers, WaitTakes, Asked, BreaksOff, Returns, bridgeVars, handleVars
  <2> QED
    BY <1>1, <2>1, <2>2
<1>4. ASSUME NEW h \in Press, NEW c \in Command, c # "Start", Send(h, c), UNCHANGED handle,
             \A g \in Press : Unsent(g)' => Unsent(g)
      PROVE  StartedOnce'
  <2>1. /\ inbox[h] \in Seq(Command) /\ inbox'[h] = Append(inbox[h], c)
        /\ \A g \in Press \ {h} : inbox'[g] = inbox[g]
    BY <1>4 DEF Send
  <2>2. /\ Contains(inbox'[h], "Start") <=> Contains(inbox[h], "Start")
        /\ Once(inbox[h], "Start") => Once(inbox'[h], "Start")
    BY <1>4, <2>1, Added, AddedInOrder
  <2> QED
    BY <1>4, <2>1, <2>2 DEF StartedOnce
<1>5. ASSUME NEW p \in Press, SendsStop(p) \/ SendsBegin(p) \/ Ends(p) PROVE StartedOnce'
  <2>1. \A h \in Press : Unsent(h)' => Unsent(h)
    BY <1>5 DEF SendsStop, SendsBegin, Ends, Returns, Begins, Goes, Before
  <2>2. on[p] \in Press
    BY <1>5 DEF SendsStop, SendsBegin, Ends, Goes, CallsHoldHandles
  <2>3. UNCHANGED handle /\ \E c \in Command : c # "Start" /\ Send(on[p], c)
    BY <1>5 DEF SendsStop, SendsBegin, Ends, Command, handleVars
  <2> QED
    BY <1>4, <2>1, <2>2, <2>3
<1>6. ASSUME NEW p \in Press, SendsStart(p) PROVE StartedOnce'
  <2>1. /\ inbox[p] \in Seq(Command) /\ inbox'[p] = Append(inbox[p], "Start")
        /\ \A g \in Press \ {p} : inbox'[g] = inbox[g] /\ pc'[g] = pc[g]
        /\ pc[p] = "sendStart" /\ pc'[p] = "started" /\ UNCHANGED handle
    BY <1>6 DEF Send, SendsStart, Goes, handleVars
  <2>2. handle[p] = "new" /\ ~Contains(inbox[p], "Start") /\ Once(inbox[p], "Start")
    BY <2>1 DEF StartedOnce
  <2>3. Once(inbox'[p], "Start") /\ ~Unsent(p)'
    BY <2>1, <2>2, AddedInOrder DEF Before, Command
  <2> QED
    BY <2>1, <2>2, <2>3 DEF StartedOnce
<1>7. ASSUME NEW h \in Press, TakesCommand(h) PROVE StartedOnce'
  <2>1. /\ inbox[h] \in Seq(Command) /\ inbox[h] # <<>> /\ inbox'[h] = Tail(inbox[h])
        /\ handle'[h] = Effect(Head(inbox[h]), handle[h]) /\ UNCHANGED pc
        /\ \A g \in Press \ {h} : inbox'[g] = inbox[g] /\ handle'[g] = handle[g]
    BY <1>7 DEF TakesCommand
  <2>2. /\ Contains(inbox[h], "Start") <=> Contains(inbox'[h], "Start") \/ Head(inbox[h]) = "Start"
        /\ Once(inbox[h], "Start") =>
             Once(inbox'[h], "Start") /\ (Head(inbox[h]) = "Start" => ~Contains(inbox'[h], "Start"))
    BY <2>1, Taken, TakenInOrder
  <2>3. handle[h] = "new" /\ Head(inbox[h]) # "Start" => handle'[h] = "new"
    BY <2>1 DEF Effect
  <2> QED
    BY <2>1, <2>2, <2>3 DEF StartedOnce
<1>8. ASSUME NEW h \in Press, HandleStep(h), ~TakesCommand(h) PROVE StartedOnce'
  <2>1. UNCHANGED <<inbox, pc>> /\ \A g \in Press : handle[g] = "new" => handle'[g] = "new"
    BY <1>8 DEF HandleStep, Loads, GetsReady, Fails, Closes, bridgeVars
  <2> QED
    BY <2>1 DEF StartedOnce
<1>9. CASE UNCHANGED <<inbox, handle, pc>>
  BY <1>1, <1>9
<1> QED
  BY <1>2, <1>3, <1>5, <1>6, <1>7, <1>8, <1>9, Steps DEF HandledStep

-----------------------------------------------------------------------------
(* A server the app has let go of is being stopped *)

LEMMA NextStops ==
  TypeOK /\ CallsHoldHandles /\ StartedOnce /\ StopsAreLate /\ [Next]_vars => StopsAreLate'
<1> SUFFICES ASSUME TypeOK, CallsHoldHandles, StartedOnce, StopsAreLate, [Next]_vars
             PROVE  StopsAreLate'
  OBVIOUS
<1> USE PressAssumption DEF TypeOK
<1> DEFINE Unsent(g) == pc[g] \in Before \cup {"sendStart"}
<1>1. ASSUME UNCHANGED <<inbox, overtaken, serveHandle>>,
             \A h \in Press : /\ Unsent(h)' => Unsent(h)
                              /\ pc'[h] = "sendStart" => pc[h] = "sendStart"
                              /\ IsStopped(h) => IsStopped(h)'
      PROVE  StopsAreLate'
  BY <1>1 DEF StopsAreLate
<1>2. ASSUME NEW p \in Press, QuietMove(p) PROVE StopsAreLate'
  <2>1. \A h \in Press : /\ Unsent(h)' => Unsent(h)
                         /\ pc'[h] = "sendStart" => pc[h] = "sendStart"
    BY <1>2 DEF QuietMove, Before
  <2>2. \A h \in Press : IsStopped(h) => IsStopped(h)'
    BY <1>2 DEF QuietMove, IsStopped
  <2> QED
    BY <1>1, <1>2, <2>1, <2>2 DEF QuietMove
<1>3. ASSUME NEW p \in Press, WaitTakes(p) \/ Asked(p) \/ BreaksOff(p) PROVE StopsAreLate'
  <2>1. \A h \in Press : /\ Unsent(h)' => Unsent(h)
                         /\ pc'[h] = "sendStart" => pc[h] = "sendStart"
    BY <1>3 DEF WaitTakes, Asked, BreaksOff, Returns, Goes, Before
  <2>2. \A h \in Press : IsStopped(h) => IsStopped(h)'
    BY <1>3 DEF WaitTakes, Asked, BreaksOff, Returns, Goes, IsStopped
  <2>3. UNCHANGED <<inbox, overtaken, serveHandle>>
    BY <1>3 DEF WaitTakes, Asked, BreaksOff, bridgeVars, stateVars, history
  <2> QED
    BY <1>1, <2>1, <2>2, <2>3
<1>4. ASSUME NEW p \in Press, TakesHandle(p) PROVE StopsAreLate'
  <2>1. /\ pc[p] = "stop" /\ UNCHANGED <<inbox, overtaken>>
        /\ \A h \in Press : /\ Unsent(h)' => Unsent(h)
                            /\ pc'[h] = "sendStart" => pc[h] = "sendStart"
    BY <1>4 DEF TakesHandle, Goes, Before, history
  <2>2. \A h \in Press : IsStopped(h) \/ h = serveHandle => IsStopped(h)'
    BY <1>4 DEF TakesHandle, Goes, IsStopped
  <2> QED
    BY <2>1, <2>2 DEF StopsAreLate
<1>5. ASSUME NEW p \in Press, Registers(p) PROVE StopsAreLate'
  <2>1. /\ serveHandle = NoPress /\ serveHandle' = p /\ pc[p] = "start" /\ UNCHANGED <<inbox, overtaken>>
        /\ \A h \in Press : Unsent(h)' => Unsent(h)
        /\ \A h \in Press \ {p} : pc'[h] = pc[h]
    BY <1>5 DEF Registers, Goes, Before, history
  <2>2. \A h \in Press : IsStopped(h) => IsStopped(h)'
    BY <1>5 DEF Registers, Goes, IsStopped
  <2> QED
    BY <2>1, <2>2 DEF StopsAreLate
<1>6. ASSUME NEW p \in Press, SendsStop(p) PROVE StopsAreLate'
  <2>0. PICK h \in Press : h = on[p]
    BY <1>6 DEF SendsStop, Goes, CallsHoldHandles
  <2>1. /\ inbox[h] \in Seq(Command) /\ inbox'[h] = Append(inbox[h], "Stop")
        /\ \A g \in Press \ {h} : inbox'[g] = inbox[g]
        /\ UNCHANGED serveHandle
        /\ overtaken \subseteq overtaken'
        /\ pc[h] \notin Before /\ (pc[h] = "sendStart" => h \in overtaken')
    BY <1>6, <2>0 DEF SendsStop, Send, Goes, CallsHoldHandles, stateVars
  <2>2. "Stop" \in Command /\ "Stop" # "Start"
    BY DEF Command
  <2>3. After(inbox[h], "Stop", "Start") => After(inbox'[h], "Stop", "Start")
    <3>1. inbox[h] \in Seq(Command) /\ inbox'[h] = Append(inbox[h], "Stop")
      BY <2>1
    <3>2. After(inbox[h], "Stop", "Start") => After(Append(inbox[h], "Stop"), "Stop", "Start")
      BY <2>2, <3>1, AddedInOrder
    <3> QED
      BY <3>1, <3>2
  <2>4. \A g \in Press : /\ Unsent(g)' => Unsent(g)
                         /\ pc'[g] = "sendStart" => pc[g] = "sendStart"
    BY <1>6 DEF SendsStop, Goes, Before
  <2>5. \A g \in Press \ {h} : IsStopped(g) => IsStopped(g)'
    BY <1>6, <2>0 DEF SendsStop, Goes, IsStopped, pressVars
  <2>6. h \notin overtaken' => ~Unsent(h)' /\ pc'[h] # "sendStart"
    BY <2>1, <2>4
  <2> QED
    BY <2>1, <2>3, <2>4, <2>5, <2>6 DEF StopsAreLate
<1>7. ASSUME NEW p \in Press, SendsStart(p) PROVE StopsAreLate'
  <2>1. /\ inbox[p] \in Seq(Command) /\ inbox'[p] = Append(inbox[p], "Start")
        /\ \A g \in Press \ {p} : inbox'[g] = inbox[g] /\ pc'[g] = pc[g]
        /\ pc[p] = "sendStart" /\ pc'[p] = "started" /\ UNCHANGED <<serveHandle, overtaken>>
    BY <1>7 DEF Send, SendsStart, Goes, stateVars, history
  <2>2. After(inbox[p], "Stop", "Start") /\ ~Contains(inbox[p], "Stop") => After(inbox'[p], "Stop", "Start")
    BY <2>1, AddedInOrder DEF Command
  <2>3. \A h \in Press : IsStopped(h) => IsStopped(h)'
    BY <1>7 DEF SendsStart, Goes, IsStopped, pressVars
  <2>4. ~Unsent(p)'
    BY <2>1 DEF Before
  <2> QED
    BY <2>1, <2>2, <2>3, <2>4 DEF StopsAreLate
<1>8. ASSUME NEW p \in Press, SendsBegin(p) \/ Ends(p) PROVE StopsAreLate'
  <2>1. PICK c \in Command \ {"Start", "Stop"} : Send(on[p], c)
    BY <1>8 DEF SendsBegin, Ends, Command
  <2>2. on[p] \in Press /\ UNCHANGED <<serveHandle, overtaken>>
    BY <1>8 DEF SendsBegin, Ends, Goes, CallsHoldHandles, stateVars, history
  <2>3. /\ inbox[on[p]] \in Seq(Command) /\ inbox'[on[p]] = Append(inbox[on[p]], c)
        /\ \A h \in Press \ {on[p]} : inbox'[h] = inbox[h]
    BY <2>1, <2>2 DEF Send
  <2>4. /\ After(inbox[on[p]], "Stop", "Start") => After(inbox'[on[p]], "Stop", "Start")
        /\ Contains(inbox'[on[p]], "Stop") => Contains(inbox[on[p]], "Stop")
    BY <2>3, Added, AddedInOrder
  <2>5. \A h \in Press : /\ Unsent(h)' => Unsent(h)
                         /\ pc'[h] = "sendStart" => pc[h] = "sendStart"
    BY <1>8 DEF SendsBegin, Ends, Returns, Begins, Goes, Before
  <2>6. \A h \in Press : IsStopped(h) => IsStopped(h)'
    BY <1>8 DEF SendsBegin, Ends, Returns, Begins, Goes, IsStopped, pressVars
  <2> QED
    BY <2>2, <2>3, <2>4, <2>5, <2>6 DEF StopsAreLate
<1>9. ASSUME NEW h \in Press, TakesCommand(h) PROVE StopsAreLate'
  <2>1. /\ inbox[h] \in Seq(Command) /\ inbox[h] # <<>> /\ inbox'[h] = Tail(inbox[h])
        /\ UNCHANGED <<serveHandle, overtaken, pc, on>>
        /\ \A g \in Press \ {h} : inbox'[g] = inbox[g]
    BY <1>9 DEF TakesCommand, stateVars, history, pressVars
  <2>2. /\ Contains(inbox'[h], "Stop") => Contains(inbox[h], "Stop")
        /\ After(inbox[h], "Stop", "Start") => After(inbox'[h], "Stop", "Start")
    BY <2>1, Taken, TakenInOrder
  <2> QED
    BY <2>1, <2>2 DEF StopsAreLate, IsStopped
<1>10. ASSUME NEW h \in Press, HandleStep(h), ~TakesCommand(h) PROVE StopsAreLate'
  <2>1. UNCHANGED <<inbox, overtaken, serveHandle, pc, on>>
    BY <1>10 DEF HandleStep, Loads, GetsReady, Fails, Closes, bridgeVars, stateVars, pressVars, history
  <2> QED
    BY <1>1, <2>1 DEF IsStopped
<1>11. CASE UNCHANGED <<inbox, overtaken, serveHandle, pc, on>>
  BY <1>1, <1>11 DEF IsStopped
<1> QED
  BY <1>2, <1>3, <1>4, <1>5, <1>6, <1>7, <1>8, <1>9, <1>10, <1>11, Steps DEF HandledStep

\* The same for a server that runs, or will when its Start is taken.
LEMMA NextLost ==
  TypeOK /\ CallsHoldHandles /\ StartedOnce /\ StopsAreLate /\ NoServerLost /\ [Next]_vars
    => NoServerLost'
<1> SUFFICES ASSUME TypeOK, CallsHoldHandles, StartedOnce, StopsAreLate, NoServerLost, [Next]_vars
             PROVE  NoServerLost'
  OBVIOUS
<1> USE PressAssumption DEF TypeOK
<1> DEFINE Doomed(h) == handle[h] = "closing" \/ Contains(inbox[h], "Stop") \/ IsStopped(h)
<1>0. \A h \in Press : Up(h) /\ h # serveHandle /\ h \notin overtaken => Doomed(h)
  BY DEF NoServerLost, IsStopped
<1>1. ASSUME \A h \in Press : Up(h)' /\ h # serveHandle' /\ h \notin overtaken' => Doomed(h)'
      PROVE  NoServerLost'
  BY <1>1 DEF NoServerLost, IsStopped
<1>2. ASSUME UNCHANGED <<inbox, handle>>, overtaken \subseteq overtaken',
             \A h \in Press : IsStopped(h) => IsStopped(h)',
             \A h \in Press : h = serveHandle => h = serveHandle' \/ IsStopped(h)'
      PROVE  NoServerLost'
  <2>1. \A h \in Press : (Up(h)' <=> Up(h)) /\ (Doomed(h) => Doomed(h)')
    BY <1>2 DEF Up
  <2> QED
    BY <1>0, <1>1, <1>2, <2>1
<1>3. ASSUME NEW p \in Press, QuietMove(p) PROVE NoServerLost'
  <2>1. \A h \in Press : IsStopped(h) => IsStopped(h)'
    BY <1>3 DEF QuietMove, IsStopped
  <2> QED
    BY <1>2, <1>3, <2>1 DEF QuietMove
<1>4. ASSUME NEW p \in Press, TakesHandle(p) \/ Registers(p) \/ WaitTakes(p) \/ Asked(p) \/ BreaksOff(p) PROVE NoServerLost'
  <2>1. \A h \in Press : IsStopped(h) => IsStopped(h)'
    BY <1>4 DEF TakesHandle, Registers, WaitTakes, Asked, BreaksOff, Returns, Goes, IsStopped
  <2>2. \A h \in Press : h = serveHandle => h = serveHandle' \/ IsStopped(h)'
    BY <1>4 DEF TakesHandle, Registers, WaitTakes, Asked, BreaksOff, Returns, Goes, IsStopped, bridgeVars, stateVars
  <2>3. UNCHANGED <<inbox, handle, overtaken>>
    BY <1>4 DEF TakesHandle, Registers, WaitTakes, Asked, BreaksOff, Returns, bridgeVars, handleVars, history
  <2> QED
    BY <1>2, <2>1, <2>2, <2>3
<1>5. ASSUME NEW p \in Press, SendsStop(p) PROVE NoServerLost'
  <2>1. /\ on[p] \in Press /\ inbox[on[p]] \in Seq(Command)
        /\ inbox'[on[p]] = Append(inbox[on[p]], "Stop")
        /\ \A h \in Press \ {on[p]} : inbox'[h] = inbox[h]
        /\ UNCHANGED <<serveHandle, handle>> /\ overtaken \subseteq overtaken'
    BY <1>5 DEF SendsStop, Send, Goes, CallsHoldHandles, stateVars, handleVars
  <2>2. Contains(inbox'[on[p]], "Stop")
    BY <2>1, Added DEF Command
  <2>3. \A h \in Press \ {on[p]} : IsStopped(h) => IsStopped(h)'
    BY <1>5 DEF SendsStop, Goes, IsStopped, pressVars
  <2> QED
    BY <1>0, <1>1, <2>1, <2>2, <2>3 DEF Up
<1>6. ASSUME NEW p \in Press, SendsStart(p) PROVE NoServerLost'
  <2>1. /\ inbox[p] \in Seq(Command) /\ inbox'[p] = Append(inbox[p], "Start")
        /\ \A g \in Press \ {p} : inbox'[g] = inbox[g]
        /\ pc[p] = "sendStart" /\ UNCHANGED <<serveHandle, handle, overtaken>>
    BY <1>6 DEF Send, SendsStart, Goes, stateVars, handleVars, history
  <2>2. \A h \in Press : IsStopped(h) => IsStopped(h)'
    BY <1>6 DEF SendsStart, Goes, IsStopped, pressVars
  <2>3. p # serveHandle /\ p \notin overtaken => IsStopped(p)
    BY <2>1 DEF StopsAreLate
  <2> QED
    BY <1>0, <1>1, <2>1, <2>2, <2>3 DEF Up
<1>7. ASSUME NEW p \in Press, SendsBegin(p) \/ Ends(p) PROVE NoServerLost'
  <2>1. PICK c \in Command \ {"Start", "Stop"} : Send(on[p], c)
    BY <1>7 DEF SendsBegin, Ends, Command
  <2>2. on[p] \in Press /\ UNCHANGED <<serveHandle, overtaken, handle>>
    BY <1>7 DEF SendsBegin, Ends, Goes, CallsHoldHandles, stateVars, handleVars, history
  <2>3. /\ inbox[on[p]] \in Seq(Command) /\ inbox'[on[p]] = Append(inbox[on[p]], c)
        /\ \A h \in Press \ {on[p]} : inbox'[h] = inbox[h]
    BY <2>1, <2>2 DEF Send
  <2>4. /\ Contains(inbox'[on[p]], "Start") <=> Contains(inbox[on[p]], "Start")
        /\ Contains(inbox'[on[p]], "Stop") <=> Contains(inbox[on[p]], "Stop")
    BY <2>3, Added
  <2>5. \A h \in Press : IsStopped(h) => IsStopped(h)'
    BY <1>7 DEF SendsBegin, Ends, Returns, Begins, Goes, IsStopped, pressVars
  <2> QED
    BY <1>0, <1>1, <2>2, <2>3, <2>4, <2>5 DEF Up
<1>8. ASSUME NEW h \in Press, TakesCommand(h) PROVE NoServerLost'
  <2>1. /\ inbox[h] \in Seq(Command) /\ inbox[h] # <<>> /\ inbox'[h] = Tail(inbox[h])
        /\ handle'[h] = Effect(Head(inbox[h]), handle[h])
        /\ UNCHANGED <<serveHandle, overtaken, pc, on>>
        /\ \A g \in Press \ {h} : inbox'[g] = inbox[g] /\ handle'[g] = handle[g]
    BY <1>8 DEF TakesCommand, stateVars, history, pressVars
  <2>2. /\ Head(inbox[h]) \in Command
        /\ \A e : Contains(inbox[h], e) <=> Contains(inbox'[h], e) \/ e = Head(inbox[h])
        /\ After(inbox[h], "Stop", "Start") /\ Head(inbox[h]) = "Stop" => ~Contains(inbox'[h], "Start")
    BY <2>1, Taken, TakenInOrder
  <2>3. \A g \in Press : IsStopped(g) => IsStopped(g)'
    BY <2>1 DEF IsStopped
  <2>4. ASSUME Up(h)', h \notin overtaken PROVE Up(h) /\ (Doomed(h) => Doomed(h)')
    <3>1. handle[h] \in {"new", "loading", "ready", "busy", "closing", "idle"}
      OBVIOUS
    <3>2. handle[h] = "new" /\ handle'[h] # "new" => Head(inbox[h]) = "Start"
      BY <2>1 DEF Effect
    <3>3. handle[h] = "idle" => handle'[h] = "idle"
      BY <2>1 DEF Effect
    <3>4. Up(h)
      BY <2>2, <2>4, <3>1, <3>2, <3>3 DEF Up
    <3>5. handle[h] = "closing" => handle'[h] = "closing"
      BY <2>1 DEF Effect
    <3>6. Head(inbox[h]) = "Stop" => handle'[h] = "closing"
      <4>1. handle[h] = "new" => Contains(inbox[h], "Start")
        BY <3>4 DEF Up
      <4>2. Head(inbox[h]) = "Stop" => handle[h] # "new"
        BY <2>1, <2>2, <2>4, <4>1 DEF StopsAreLate, Up, Effect
      <4> QED
        BY <2>1, <3>4, <4>2 DEF Effect, Up
    <3> QED
      BY <2>2, <2>3, <3>4, <3>5, <3>6
  <2>5. \A g \in Press \ {h} : (Up(g)' <=> Up(g)) /\ (Doomed(g) => Doomed(g)')
    BY <2>1, <2>3 DEF Up
  <2> QED
    BY <1>0, <1>1, <2>1, <2>4, <2>5
<1>9. ASSUME NEW h \in Press, HandleStep(h), ~TakesCommand(h) PROVE NoServerLost'
  <2>1. /\ UNCHANGED <<inbox, overtaken, serveHandle, pc, on>>
        /\ \A g \in Press : handle'[g] # handle[g] =>
             /\ handle[g] \in {"loading", "ready", "busy", "closing"}
             /\ handle'[g] \in {"ready", "closing", "idle"}
             /\ handle[g] = "closing" => handle'[g] \in {"closing", "idle"}
    BY <1>9 DEF HandleStep, Loads, GetsReady, Fails, Closes, bridgeVars, stateVars, pressVars, history
  <2>2. \A g \in Press : Up(g)' => Up(g) /\ (Doomed(g) => Doomed(g)')
    BY <2>1 DEF Up, IsStopped
  <2> QED
    BY <1>0, <1>1, <2>1, <2>2
<1>10. CASE UNCHANGED <<inbox, handle, overtaken, serveHandle, pc, on>>
  BY <1>2, <1>10 DEF IsStopped
<1> QED
  BY <1>3, <1>4, <1>5, <1>6, <1>7, <1>8, <1>9, <1>10, Steps DEF HandledStep

-----------------------------------------------------------------------------
(* Busy is for requests that are on their way *)

LEMMA NextWork ==
  TypeOK /\ CallsHoldHandles /\ WorkIsAsked /\ BusyIsAsked /\ [Next]_vars
    => WorkIsAsked' /\ BusyIsAsked'
<1> SUFFICES ASSUME TypeOK, CallsHoldHandles, WorkIsAsked, BusyIsAsked, [Next]_vars
             PROVE  WorkIsAsked' /\ BusyIsAsked'
  OBVIOUS
<1> USE PressAssumption DEF TypeOK
<1> DEFINE Fine(h) ==
      AskerOf(h) \/ h \in unended \/ (Answered(inbox[h]) /\ (handle[h] = "busy" => Contains(inbox[h], "EndWork")))
<1>0. \A h \in Press : Fine(h)
  BY DEF WorkIsAsked, BusyIsAsked, AskerOf
<1> DEFINE Goal == WorkIsAsked' /\ BusyIsAsked'
<1>1. ASSUME \A h \in Press : Fine(h)' PROVE Goal
  BY <1>1 DEF WorkIsAsked, BusyIsAsked, AskerOf
<1> HIDE DEF Goal
<1>2. ASSUME UNCHANGED <<inbox, handle, unended>>, \A h \in Press : AskerOf(h) => AskerOf(h)' PROVE Goal
  BY <1>0, <1>1, <1>2
<1>3. ASSUME NEW p \in Press, QuietMove(p) PROVE Goal
  <2>1. \A h \in Press : AskerOf(h) => AskerOf(h)'
    BY <1>3 DEF QuietMove, AskerOf
  <2> QED
    BY <1>2, <1>3, <2>1 DEF QuietMove
<1>4. ASSUME NEW p \in Press, TakesHandle(p) \/ Registers(p) \/ WaitTakes(p) \/ Asked(p) PROVE Goal
  <2>1. \A h \in Press : AskerOf(h) => AskerOf(h)'
    BY <1>4 DEF TakesHandle, Registers, WaitTakes, Asked, Goes, AskerOf
  <2>2. UNCHANGED <<inbox, handle, unended>>
    BY <1>4 DEF TakesHandle, Registers, WaitTakes, Asked, bridgeVars, handleVars, history
  <2> QED
    BY <1>2, <2>1, <2>2
<1>5. ASSUME NEW h \in Press, NEW c \in Command, c # "BeginWork", Send(h, c), UNCHANGED <<handle, unended>>,
             \A g \in Press : AskerOf(g) => AskerOf(g)'
      PROVE  Goal
  <2>1. /\ inbox[h] \in Seq(Command) /\ inbox'[h] = Append(inbox[h], c)
        /\ \A g \in Press \ {h} : inbox'[g] = inbox[g]
    BY <1>5 DEF Send
  <2>2. /\ Contains(inbox[h], "EndWork") => Contains(inbox'[h], "EndWork")
        /\ Answered(inbox[h]) => Answered(inbox'[h])
    BY <1>5, <2>1, Added, AddedInOrder
  <2> QED
    BY <1>0, <1>1, <1>5, <2>1, <2>2
<1>6. ASSUME NEW p \in Press, SendsStop(p) \/ SendsStart(p) PROVE Goal
  <2>1. PICK h \in Press, c \in Command : c # "BeginWork" /\ Send(h, c)
    BY <1>6 DEF SendsStop, SendsStart, Goes, CallsHoldHandles, Command
  <2>2. UNCHANGED <<handle, unended>> /\ \A g \in Press : AskerOf(g) => AskerOf(g)'
    BY <1>6 DEF SendsStop, SendsStart, Goes, AskerOf, handleVars, pressVars, history
  <2> QED
    BY <1>5, <2>1, <2>2
<1>7. ASSUME NEW p \in Press, SendsBegin(p) PROVE Goal
  <2>1. on[p] \in Press /\ Send(on[p], "BeginWork") /\ UNCHANGED <<handle, unended, on>>
    BY <1>7 DEF SendsBegin, Goes, CallsHoldHandles, handleVars, pressVars, history
  <2>2. \A g \in Press \ {on[p]} : inbox'[g] = inbox[g]
    BY <2>1 DEF Send
  <2>3. \A g \in Press : AskerOf(g) \/ g = on[p] => AskerOf(g)'
    BY <1>7, <2>1 DEF SendsBegin, Goes, AskerOf
  <2> QED
    BY <1>0, <1>1, <2>1, <2>2, <2>3
<1>8. ASSUME NEW p \in Press, Ends(p) PROVE Goal
  <2>0. PICK h \in Press : h = on[p]
    BY <1>8 DEF Ends, CallsHoldHandles
  <2>1. /\ inbox[h] \in Seq(Command) /\ inbox'[h] = Append(inbox[h], "EndWork")
        /\ \A g \in Press \ {h} : inbox'[g] = inbox[g]
        /\ UNCHANGED handle /\ unended' = unended \ {h}
    BY <1>8, <2>0 DEF Ends, Send, handleVars
  <2>2. "EndWork" \in Command
    BY DEF Command
  <2>3. Contains(inbox'[h], "EndWork") /\ Answered(inbox'[h])
    BY <2>1, <2>2, Added, AddedInOrder
  <2>4. \A g \in Press \ {h} : AskerOf(g) => AskerOf(g)'
    BY <1>8, <2>0 DEF Ends, Returns, Begins, AskerOf
  <2> QED
    BY <1>0, <1>1, <2>1, <2>3, <2>4
\* Who breaks off leaves the handle to the exception.
<1>8a. ASSUME NEW p \in Press, BreaksOff(p) PROVE Goal
  <2>1. UNCHANGED <<inbox, handle>> /\ unended' = unended \cup {on[p]}
    BY <1>8a DEF BreaksOff, bridgeVars, handleVars
  <2>2. \A h \in Press : AskerOf(h) => AskerOf(h)' \/ h = on[p]
    BY <1>8a DEF BreaksOff, Returns, AskerOf
  <2> QED
    BY <1>0, <1>1, <2>1, <2>2
<1>9. ASSUME NEW h \in Press, TakesCommand(h) PROVE Goal
  <2>1. /\ inbox[h] \in Seq(Command) /\ inbox[h] # <<>> /\ inbox'[h] = Tail(inbox[h])
        /\ handle'[h] = Effect(Head(inbox[h]), handle[h])
        /\ UNCHANGED <<unended, pc, on>>
        /\ \A g \in Press \ {h} : inbox'[g] = inbox[g] /\ handle'[g] = handle[g]
    BY <1>9 DEF TakesCommand, pressVars, history
  <2>2. /\ Contains(inbox[h], "EndWork") <=> Contains(inbox'[h], "EndWork") \/ Head(inbox[h]) = "EndWork"
        /\ Answered(inbox[h]) =>
             Answered(inbox'[h]) /\ (Head(inbox[h]) = "BeginWork" => Contains(inbox'[h], "EndWork"))
    BY <2>1, Taken, TakenInOrder
  <2>3. handle'[h] = "busy" => Head(inbox[h]) # "EndWork" /\ (handle[h] = "busy" \/ Head(inbox[h]) = "BeginWork")
    BY <2>1 DEF Effect
  <2>4. \A g \in Press : AskerOf(g) => AskerOf(g)'
    BY <2>1 DEF AskerOf
  <2> QED
    BY <1>0, <1>1, <2>1, <2>2, <2>3, <2>4
<1>10. ASSUME NEW h \in Press, HandleStep(h), ~TakesCommand(h) PROVE Goal
  <2>1. UNCHANGED <<inbox, unended, pc, on>> /\ \A g \in Press : handle'[g] = "busy" => handle[g] = "busy"
    BY <1>10 DEF HandleStep, Loads, GetsReady, Fails, Closes, bridgeVars, pressVars, history
  <2>2. \A g \in Press : AskerOf(g) => AskerOf(g)'
    BY <2>1 DEF AskerOf
  <2> QED
    BY <1>0, <1>1, <2>1, <2>2
<1>11. ASSUME UNCHANGED <<inbox, handle, unended, pc, on>> PROVE Goal
  <2>1. \A h \in Press : AskerOf(h) => AskerOf(h)'
    BY <1>11 DEF AskerOf
  <2> QED
    BY <1>2, <1>11, <2>1
<1> QED
  BY <1>3, <1>4, <1>6, <1>7, <1>8, <1>8a, <1>9, <1>10, <1>11, Steps DEF HandledStep, Goal

LEMMA NextLoaded == TypeOK /\ LoadedIsUp /\ [Next]_vars => LoadedIsUp'
<1> SUFFICES ASSUME TypeOK, LoadedIsUp, [Next]_vars PROVE LoadedIsUp'
  OBVIOUS
<1> USE DEF TypeOK, LoadedIsUp
<1>1. ASSUME NEW p \in Press, HandledStep(p) PROVE UNCHANGED <<handle, loaded>>
  BY <1>1 DEF HandledStep, TakesHandle, SendsStop, Registers, SendsStart, WaitTakes, Asked,
     SendsBegin, Ends, BreaksOff, handleVars
<1>2. ASSUME NEW h \in Press, TakesCommand(h) PROVE LoadedIsUp'
  BY <1>2 DEF TakesCommand, Effect
<1>3. ASSUME NEW h \in Press, Loads(h) PROVE LoadedIsUp'
  BY <1>3 DEF Loads
<1>4. ASSUME NEW h \in Press, GetsReady(h) PROVE LoadedIsUp'
  BY <1>4 DEF GetsReady
<1>5. ASSUME NEW h \in Press, Fails(h) PROVE LoadedIsUp'
  BY <1>5 DEF Fails
<1>6. ASSUME NEW h \in Press, Closes(h) PROVE LoadedIsUp'
  BY <1>6 DEF Closes
<1>7. CASE UNCHANGED <<handle, loaded>>
  BY <1>7
<1> QED
  BY <1>1, <1>2, <1>3, <1>4, <1>5, <1>6, <1>7, Steps DEF QuietMove, HandleStep

-----------------------------------------------------------------------------
(* What a patient user's presses do *)

\* A user who is still patient had no other press under way when this one began.
LEMMA PatientMoves ==
  ASSUME TypeOK, [Next]_vars, user' = "patient"
  PROVE  /\ user = "patient"
         /\ \/ UNCHANGED pc
            \/ \E p \in Press :
                 /\ \A q \in Press \ {p} : pc'[q] = pc[q]
                 /\ pc'[p] \in UnderWay => pc[p] \in UnderWay \/ Settled
<1> USE DEF TypeOK, history
<1> DEFINE Moves(p) == /\ \A q \in Press \ {p} : pc'[q] = pc[q]
                       /\ pc'[p] \in UnderWay => pc[p] \in UnderWay \/ Settled
           Goal == user = "patient" /\ (UNCHANGED pc \/ \E p \in Press : Moves(p))
<1>1. ASSUME NEW p \in Press, Acts(p), \E to : pc' = [pc EXCEPT ![p] = to] PROVE Goal
  <2>1. user = "patient" /\ Settled
    BY <1>1 DEF Acts
  <2>2. Moves(p)
    BY <1>1, <2>1
  <2> QED
    BY <2>1, <2>2
<1>2. ASSUME NEW p \in Press, PressesStart(p) \/ PressesSend(p) \/ PressesStop(p) PROVE Goal
  <2>1. \E to : pc' = [pc EXCEPT ![p] = to]
    BY <1>2 DEF PressesStart, PressesSend, PressesStop, Ensure, Served, Begins, Returns
  <2> QED
    BY <1>1, <1>2, <2>1 DEF PressesStart, PressesSend, PressesStop
<1>3. ASSUME NEW p \in Press, NEW m \in Model, PicksModel(p, m) \/ SelectsModel(p, m) PROVE Goal
  <2>1. \E to : pc' = [pc EXCEPT ![p] = to]
    BY <1>3 DEF PicksModel, SelectsModel, Begins, Returns
  <2> QED
    BY <1>1, <1>3, <2>1 DEF PicksModel, SelectsModel
<1>4. CASE Reopens
  BY <1>4 DEF Reopens
<1>5. ASSUME NEW p \in Press, pc[p] \in UnderWay, user' = user, \E to : pc' = [pc EXCEPT ![p] = to] PROVE Goal
  BY <1>5
<1>6. ASSUME NEW p \in Press, user' = user, \E to : to \notin UnderWay /\ pc' = [pc EXCEPT ![p] = to] PROVE Goal
  BY <1>6
<1> HIDE DEF Goal
<1>7. ASSUME NEW p \in Press, \/ TakesHandle(p) \/ SendsStop(p) \/ StopReturns(p) \/ StopOpens(p) \/ StartRefused(p)
                              \/ Registers(p) \/ SendsStart(p) \/ Started(p) \/ WaitTakes(p)
                              \/ WaitReady(p) \/ WaitFails(p) PROVE Goal
  <2>1. user' = user
    BY <1>7 DEF TakesHandle, SendsStop, StopReturns, StopOpens, StartRefused, Registers, SendsStart, Started,
       WaitTakes, WaitReady, WaitFails
  <2>2. pc[p] \in UnderWay /\ \E to : pc' = [pc EXCEPT ![p] = to]
    BY <1>7 DEF TakesHandle, SendsStop, StopReturns, StopOpens, StartRefused, Registers, SendsStart, Started,
       WaitTakes, WaitReady, WaitFails, Goes, CallReturns, UnderWay
  <2> QED
    BY <1>5, <2>1, <2>2
<1>8. ASSUME NEW p \in Press, \/ StopEnds(p) \/ ShowsReady(p) \/ ShowsError(p) \/ AsksSummary(p) \/ Asks(p)
                              \/ SendsBegin(p) \/ Ends(p) \/ BreaksOff(p) PROVE Goal
  <2>1. user' = user
    BY <1>8 DEF StopEnds, ShowsReady, ShowsError, AsksSummary, Asks, Requests, SendsBegin, Ends, BreaksOff
  <2>2. \E to : to \notin UnderWay /\ pc' = [pc EXCEPT ![p] = to]
    BY <1>8 DEF StopEnds, ShowsReady, ShowsError, Served, AsksSummary, Asks, Requests, SendsBegin, Ends,
       BreaksOff, Returns, Begins, Goes, UnderWay
  <2> QED
    BY <1>6, <2>1, <2>2
<1>9. ASSUME NEW h \in Press, HandleStep(h) PROVE Goal
  BY <1>9 DEF HandleStep, TakesCommand, Loads, GetsReady, Fails, Closes, Goal
<1>10. CASE UNCHANGED vars
  BY <1>10 DEF vars, Goal
<1> QED
  BY <1>2, <1>3, <1>4, <1>7, <1>8, <1>9, <1>10 DEF Next, UserActs, PressStep, Goal

LEMMA NextOne == TypeOK /\ CallsHoldHandles /\ OneUnderWay /\ [Next]_vars => OneUnderWay'
<1> SUFFICES ASSUME TypeOK, CallsHoldHandles, OneUnderWay, [Next]_vars, user' = "patient"
             PROVE  /\ overtaken' = {}
                    /\ \A p, q \in Press : pc'[p] \in UnderWay /\ pc'[q] \in UnderWay => p = q
  BY DEF OneUnderWay
<1>1. /\ user = "patient" /\ overtaken = {}
      /\ \A p, q \in Press : pc[p] \in UnderWay /\ pc[q] \in UnderWay => p = q
  BY PatientMoves DEF OneUnderWay
<1>2. \A p, q \in Press : pc'[p] \in UnderWay /\ pc'[q] \in UnderWay => p = q
  BY <1>1, PatientMoves DEF Settled
<1>3. overtaken' = {}
  <2>1. ASSUME NEW p \in Press, SendsStop(p) PROVE overtaken' = {}
    <3>1. on[p] \in Press /\ pc[p] = "sendStop"
      BY <2>1 DEF SendsStop, Goes, CallsHoldHandles, TypeOK
    <3>2. pc[on[p]] # "sendStart"
      BY <1>1, <3>1 DEF UnderWay
    <3> QED
      BY <1>1, <2>1, <3>2 DEF SendsStop
  <2>2. ASSUME NEW p \in Press, HandledStep(p), ~SendsStop(p) PROVE UNCHANGED overtaken
    BY <2>2 DEF HandledStep, TakesHandle, Registers, SendsStart, WaitTakes, Asked, SendsBegin, Ends, BreaksOff, history
  <2>3. ASSUME NEW h \in Press, HandleStep(h) PROVE UNCHANGED overtaken
    BY <2>3 DEF HandleStep, TakesCommand, Loads, GetsReady, Fails, Closes, history
  <2> QED
    BY <1>1, <2>1, <2>2, <2>3, Steps DEF QuietMove
<1> QED
  BY <1>2, <1>3

\* The handles of a patient user: nobody else touches the handle of a press under way.
PatientParts == PatientStop /\ PatientStart

\* Only SendsStart puts a server up, and only a Start makes an actor anything but new.
LEMMA UpKept ==
  ASSUME TypeOK, CallsHoldHandles, [Next]_vars
  PROVE  /\ \A h \in Press : Up(h)' => Up(h) \/ SendsStart(h)
         /\ \A h \in Press : handle[h] # "new" => handle'[h] # "new"
<1> USE DEF TypeOK
<1> DEFINE Goal(h) == (Up(h)' => Up(h) \/ SendsStart(h)) /\ (handle[h] # "new" => handle'[h] # "new")
<1>1. ASSUME UNCHANGED <<inbox, handle>> PROVE \A h \in Press : Goal(h)
  BY <1>1 DEF Up
<1>2. ASSUME NEW p \in Press, HandledStep(p) PROVE UNCHANGED handle
  BY <1>2 DEF HandledStep, TakesHandle, SendsStop, Registers, SendsStart, WaitTakes, Asked,
     SendsBegin, Ends, BreaksOff, handleVars
<1>3. ASSUME NEW p \in Press, TakesHandle(p) \/ Registers(p) \/ WaitTakes(p) \/ Asked(p) \/ BreaksOff(p) PROVE UNCHANGED inbox
  BY <1>3 DEF TakesHandle, Registers, WaitTakes, Asked, BreaksOff, Returns, bridgeVars
<1>4. ASSUME NEW p \in Press, SendsStop(p) \/ SendsBegin(p) \/ Ends(p) PROVE \A h \in Press : Goal(h)
  <2>1. PICK g \in Press, c \in Command : c # "Start" /\ Send(g, c)
    BY <1>4 DEF SendsStop, SendsBegin, Ends, Goes, CallsHoldHandles, Command
  <2>2. /\ inbox[g] \in Seq(Command) /\ inbox'[g] = Append(inbox[g], c)
        /\ \A h \in Press \ {g} : inbox'[h] = inbox[h]
    BY <2>1 DEF Send
  <2>3. Contains(inbox'[g], "Start") => Contains(inbox[g], "Start")
    BY <2>1, <2>2, Added
  <2>4. UNCHANGED handle
    BY <1>2, <1>4 DEF HandledStep
  <2> QED
    BY <2>2, <2>3, <2>4 DEF Up
<1>5. ASSUME NEW p \in Press, SendsStart(p) PROVE \A h \in Press : Goal(h)
  <2>1. UNCHANGED handle /\ \A h \in Press \ {p} : inbox'[h] = inbox[h]
    BY <1>5 DEF SendsStart, Send, handleVars
  <2> QED
    BY <1>5, <2>1 DEF Up
<1>6. ASSUME NEW g \in Press, TakesCommand(g) PROVE \A h \in Press : Goal(h)
  <2>1. /\ inbox[g] \in Seq(Command) /\ inbox[g] # <<>> /\ inbox'[g] = Tail(inbox[g])
        /\ handle'[g] = Effect(Head(inbox[g]), handle[g])
        /\ \A h \in Press \ {g} : inbox'[h] = inbox[h] /\ handle'[h] = handle[h]
    BY <1>6 DEF TakesCommand
  <2>2. Contains(inbox[g], "Start") <=> Contains(inbox'[g], "Start") \/ Head(inbox[g]) = "Start"
    BY <2>1, Taken
  <2>3. /\ handle[g] = "idle" => handle'[g] = "idle"
        /\ handle[g] # "new" => handle'[g] # "new"
        /\ handle[g] = "new" /\ handle'[g] # "new" => Head(inbox[g]) = "Start"
    BY <2>1 DEF Effect
  <2> QED
    BY <2>1, <2>2, <2>3 DEF Up
<1>7. ASSUME NEW g \in Press, HandleStep(g), ~TakesCommand(g) PROVE \A h \in Press : Goal(h)
  <2>1. /\ UNCHANGED inbox
        /\ \A h \in Press : handle'[h] # handle[h] =>
             handle[h] \in {"loading", "ready", "busy", "closing"} /\ handle'[h] # "new"
    BY <1>7 DEF HandleStep, Loads, GetsReady, Fails, Closes, bridgeVars
  <2> QED
    BY <2>1 DEF Up
<1>8. ASSUME NEW p \in Press, QuietMove(p) PROVE UNCHANGED <<inbox, handle>>
  BY <1>8 DEF QuietMove
<1>9. \A h \in Press : Goal(h)
  BY <1>1, <1>2, <1>3, <1>4, <1>5, <1>6, <1>7, <1>8, Steps DEF HandledStep
<1> QED
  BY <1>9

\* The steps of a press that is not under way, of the user and of the actors.
LEMMA OthersKeepPatient ==
  ASSUME TypeOK, CallsHoldHandles, OneUnderWay, PatientParts, [Next]_vars, user' = "patient",
         UNCHANGED serveHandle,
         \A h \in Press : Up(h)' => Up(h),
         \A p \in Press : pc[p] \in UnderWay => pc'[p] = pc[p] /\ on'[p] = on[p],
         \A p \in Press : pc'[p] \in UnderWay \ {"stop", "start"} => pc[p] \in UnderWay
  PROVE  PatientParts'
<1>1. user = "patient" /\ \A h \in Press : handle[h] # "new" => handle'[h] # "new"
  BY PatientMoves, UpKept
<1> USE DEF TypeOK, UnderWay, PatientParts
<1>2. PatientStop'
  <2>1. \A p \in Press : pc'[p] \in {"sendStop", "closing", "stopped"} => pc[p] = pc'[p] /\ on'[p] = on[p]
    OBVIOUS
  <2>2. \A p \in Press : pc[p] \in {"sendStop", "closing"} => on[p] \in Press
    BY DEF CallsHoldHandles
  <2>3. ASSUME NEW h \in Press, Up(h)', h # serveHandle'
        PROVE  \E q \in Press : pc'[q] \in {"sendStop", "closing"} /\ on'[q] = h
    <3>1. PICK q \in Press : pc[q] \in {"sendStop", "closing"} /\ on[q] = h
      BY <1>1, <2>3 DEF PatientStop
    <3> QED
      BY <3>1
  <2>4. ASSUME NEW p \in Press, pc'[p] \in {"sendStop", "closing"} PROVE handle'[on'[p]] # "new"
    BY <1>1, <2>1, <2>2, <2>4 DEF PatientStop
  <2>5. ASSUME NEW p \in Press, pc'[p] \in {"sendStop", "closing", "stopped"} PROVE serveHandle' = NoPress
    BY <1>1, <2>1, <2>5 DEF PatientStop
  <2> QED
    BY <2>3, <2>4, <2>5 DEF PatientStop
<1>3. PatientStart'
  BY <1>1, PressAssumption DEF PatientStart
<1> QED
  BY <1>2, <1>3

LEMMA NextPatient ==
  TypeOK /\ CallsHoldHandles /\ LoadedIsUp /\ StartedOnce /\ OneUnderWay /\ PatientParts /\ [Next]_vars
    => PatientParts'
<1> SUFFICES ASSUME TypeOK, CallsHoldHandles, LoadedIsUp, StartedOnce, OneUnderWay, PatientParts,
                    [Next]_vars, user' = "patient"
             PROVE  PatientParts'
  BY DEF PatientParts, PatientStop, PatientStart
<1>1. /\ user = "patient" /\ overtaken = {}
      /\ \A p, q \in Press : pc[p] \in UnderWay /\ pc[q] \in UnderWay => p = q
  BY PatientMoves DEF OneUnderWay
<1>2. /\ \A h \in Press : Up(h)' => Up(h) \/ SendsStart(h)
      /\ \A h \in Press : handle[h] # "new" => handle'[h] # "new"
  BY UpKept
<1> DEFINE S == serveHandle
<1>3. /\ \A h \in Press : Up(h) /\ h # S => \E q \in Press : pc[q] \in {"sendStop", "closing"} /\ on[q] = h
      /\ \A p \in Press : pc[p] \in {"sendStop", "closing"} => handle[on[p]] # "new"
      /\ \A p \in Press : pc[p] \in {"sendStop", "closing", "stopped"} => S = NoPress
      /\ S # NoPress /\ handle[S] = "new" => pc[S] \in {"sendStart", "started", "wait", "waiting"}
      /\ \A p \in Press : pc[p] \in {"sendStart", "started", "wait", "waiting", "ready"} => S = p
      /\ \A p \in Press : pc[p] = "waiting" => on[p] = p
  BY <1>1 DEF PatientParts, PatientStop, PatientStart
<1>0. /\ pc \in [Press -> UnderWay \cup Asking \cup {"new", "done"}]
      /\ on \in [Press -> Press \cup {NoPress}]
      /\ handle \in [Press -> {"new", "loading", "ready", "busy", "closing", "idle"}]
      /\ serveHandle \in Press \cup {NoPress}
  BY DEF TypeOK
<1> USE <1>0, PressAssumption DEF UnderWay
<1>4. ASSUME NEW p \in Press, TakesHandle(p) PROVE PatientParts'
  <2>1. /\ pc[p] = "stop" /\ pc' = [pc EXCEPT ![p] = IF S = NoPress THEN "stopped" ELSE "sendStop"]
        /\ on' = [on EXCEPT ![p] = S] /\ serveHandle' = NoPress /\ UNCHANGED <<inbox, handle>>
    BY <1>4 DEF TakesHandle, Goes, handleVars
  <2>2. \A q \in Press : pc[q] \in UnderWay => q = p
    BY <1>1, <2>1
  <2>3. \A h \in Press : Up(h)' => Up(h)
    BY <2>1 DEF Up
  <2>4. \A h \in Press : Up(h) => h = S
    BY <1>3, <2>1, <2>2
  <2>5. S # NoPress => handle[S] # "new"
    BY <1>3, <2>1, <2>2
  <2> QED
    BY <2>1, <2>2, <2>3, <2>4, <2>5 DEF PatientParts, PatientStop, PatientStart
<1>5. ASSUME NEW p \in Press, SendsStop(p) PROVE PatientParts'
  <2>1. /\ pc[p] = "sendStop" /\ pc' = [pc EXCEPT ![p] = "closing"]
        /\ UNCHANGED <<serveHandle, on, handle>>
    BY <1>5 DEF SendsStop, Goes, handleVars, stateVars, pressVars
  <2>2. \A h \in Press : Up(h)' => Up(h)
    <3>1. \A h \in Press : pc[h] # "sendStart"
      BY <1>1, <2>1
    <3> QED
      BY <1>2, <3>1 DEF SendsStart, Goes
  <2> QED
    BY <1>1, <1>3, <2>1, <2>2 DEF PatientParts, PatientStop, PatientStart
<1>6. ASSUME NEW p \in Press, StopReturns(p) PROVE PatientParts'
  <2>1. /\ pc[p] = "closing" /\ pc' = [pc EXCEPT ![p] = "stopped"]
        /\ on[p] \in Press /\ on' = [on EXCEPT ![p] = NoPress] /\ handle[on[p]] = "idle"
        /\ UNCHANGED <<serveHandle, inbox, handle>>
    BY <1>3, <1>6 DEF StopReturns, CallReturns, Goes, bridgeVars, stateVars, handleVars, CallsHoldHandles
  <2>2. \A h \in Press : Up(h)' => Up(h) /\ h # on[p]
    BY <2>1 DEF Up
  <2> QED
    BY <1>1, <1>3, <2>1, <2>2 DEF PatientParts, PatientStop, PatientStart
<1>7. ASSUME NEW p \in Press, StopEnds(p) PROVE PatientParts'
  <2>1. /\ pc[p] = "stopped" /\ pc' = [pc EXCEPT ![p] = "done"] /\ on' = [on EXCEPT ![p] = NoPress]
        /\ UNCHANGED <<serveHandle, inbox, handle>>
    BY <1>7 DEF StopEnds, Returns, bridgeVars, stateVars, handleVars
  <2>2. \A h \in Press : Up(h)' => Up(h)
    BY <2>1 DEF Up
  <2>3. \A q \in Press \ {p} : pc[q] \notin UnderWay /\ pc'[q] = pc[q]
    BY <1>1, <2>1
  <2>4. PatientStart'
    BY <1>3, <2>1, <2>3 DEF StartedOnce, CallsHoldHandles, Before, PatientStart
  <2>5. \A h \in Press : Up(h)' => h = S
    <3>1. \A q \in Press : pc[q] \notin {"sendStop", "closing"}
      BY <2>1, <2>3
    <3> QED
      BY <1>3, <2>2, <3>1
  <2>6. \A q \in Press : pc'[q] \notin {"sendStop", "closing", "stopped"}
    <3>1. pc'[p] \notin {"sendStop", "closing", "stopped"}
      BY <2>1
    <3> QED
      BY <2>3, <3>1
  <2> QED
    BY <2>1, <2>4, <2>5, <2>6 DEF PatientParts, PatientStop
<1>8. ASSUME NEW p \in Press, StopOpens(p) PROVE PatientParts'
  <2>1. /\ pc[p] = "stopped" /\ pc' = [pc EXCEPT ![p] = "start"]
        /\ UNCHANGED <<serveHandle, inbox, handle, on>>
    BY <1>8 DEF StopOpens, Goes, bridgeVars, stateVars, handleVars
  <2>2. \A h \in Press : Up(h)' => Up(h)
    BY <2>1 DEF Up
  <2>3. \A q \in Press \ {p} : pc[q] \notin UnderWay /\ pc'[q] = pc[q]
    BY <1>1, <2>1
  <2>4. PatientStart'
    BY <1>3, <2>1, <2>3 DEF StartedOnce, CallsHoldHandles, Before, PatientStart
  <2>5. \A h \in Press : Up(h)' => h = S
    <3>1. \A q \in Press : pc[q] \notin {"sendStop", "closing"}
      BY <2>1, <2>3
    <3> QED
      BY <1>3, <2>2, <3>1
  <2>6. \A q \in Press : pc'[q] \notin {"sendStop", "closing", "stopped"}
    <3>1. pc'[p] \notin {"sendStop", "closing", "stopped"}
      BY <2>1
    <3> QED
      BY <2>3, <3>1
  <2> QED
    BY <2>1, <2>4, <2>5, <2>6 DEF PatientParts, PatientStop
<1>9. ASSUME NEW p \in Press, StartRefused(p) PROVE PatientParts'
  <2>1. /\ pc[p] = "start" /\ pc' = [pc EXCEPT ![p] = "failed"]
        /\ UNCHANGED <<serveHandle, inbox, handle, on>>
    BY <1>9 DEF StartRefused, Goes, bridgeVars, stateVars, handleVars
  <2>2. \A h \in Press : Up(h)' => Up(h)
    BY <2>1 DEF Up
  <2> QED
    BY <1>1, <1>3, <2>1, <2>2 DEF PatientParts, PatientStop, PatientStart
<1>10. ASSUME NEW p \in Press, Registers(p) PROVE PatientParts'
  <2>1. /\ pc[p] = "start" /\ pc' = [pc EXCEPT ![p] = "sendStart"]
        /\ serveHandle = NoPress /\ serveHandle' = p
        /\ UNCHANGED <<inbox, handle, on>>
    BY <1>10 DEF Registers, Goes, handleVars
  <2>2. \A h \in Press : Up(h)' => Up(h)
    BY <2>1 DEF Up
  <2>3. \A q \in Press \ {p} : pc[q] \notin UnderWay /\ pc'[q] = pc[q]
    BY <1>1, <2>1
  <2>4. PatientStart'
    BY <1>3, <2>1, <2>3 DEF StartedOnce, CallsHoldHandles, Before, PatientStart
  <2>5. \A h \in Press : Up(h)' => h = S
    <3>1. \A q \in Press : pc[q] \notin {"sendStop", "closing"}
      BY <2>1, <2>3
    <3> QED
      BY <1>3, <2>2, <3>1
  <2>6. \A q \in Press : pc'[q] \notin {"sendStop", "closing", "stopped"}
    <3>1. pc'[p] \notin {"sendStop", "closing", "stopped"}
      BY <2>1
    <3> QED
      BY <2>3, <3>1
  <2> QED
    BY <2>1, <2>4, <2>5, <2>6 DEF PatientParts, PatientStop
<1>11. ASSUME NEW p \in Press, SendsStart(p) PROVE PatientParts'
  <2>1. /\ pc[p] = "sendStart" /\ pc' = [pc EXCEPT ![p] = "started"]
        /\ UNCHANGED <<serveHandle, on, handle>>
    BY <1>11 DEF SendsStart, Goes, handleVars, stateVars, pressVars
  <2>2. \A h \in Press : Up(h)' => Up(h) \/ h = S
    BY <1>2, <1>3 DEF SendsStart, Goes
  <2> QED
    BY <1>1, <1>3, <2>1, <2>2 DEF PatientParts, PatientStop, PatientStart
<1>12. ASSUME NEW p \in Press, Started(p) PROVE PatientParts'
  <2>1. /\ pc[p] = "started" /\ pc' = [pc EXCEPT ![p] = "wait"]
        /\ UNCHANGED <<serveHandle, inbox, handle, on>>
    BY <1>12 DEF Started, Goes, bridgeVars, stateVars, handleVars, pressVars
  <2>2. \A h \in Press : Up(h)' => Up(h)
    BY <2>1 DEF Up
  <2> QED
    BY <1>1, <1>3, <2>1, <2>2 DEF PatientParts, PatientStop, PatientStart
<1>13. ASSUME NEW p \in Press, WaitTakes(p) PROVE PatientParts'
  <2>0. pc[p] = "wait" /\ S = p
    BY <1>3, <1>13 DEF WaitTakes, Goes
  <2>1. /\ pc' = [pc EXCEPT ![p] = "waiting"] /\ on' = [on EXCEPT ![p] = p]
        /\ UNCHANGED <<serveHandle, inbox, handle>>
    <3>1. WaitTakes(p)
      BY <1>13
    <3>2. on' = [on EXCEPT ![p] = serveHandle] /\ UNCHANGED <<serveHandle, inbox, handle>>
      BY <3>1 DEF WaitTakes, bridgeVars, stateVars, handleVars
    <3>3. pc' = [pc EXCEPT ![p] = IF serveHandle = NoPress THEN "failed" ELSE "waiting"]
      BY <3>1 DEF WaitTakes, Goes
    <3> QED
      BY <2>0, <3>2, <3>3
  <2>2. \A h \in Press : Up(h)' => Up(h)
    BY <2>1 DEF Up
  <2> QED
    BY <1>1, <1>3, <2>0, <2>1, <2>2 DEF PatientParts, PatientStop, PatientStart
<1>14. ASSUME NEW p \in Press, WaitReady(p) PROVE PatientParts'
  <2>1. /\ pc[p] = "waiting" /\ pc' = [pc EXCEPT ![p] = "ready"] /\ on' = [on EXCEPT ![p] = NoPress]
        /\ on[p] = p /\ handle[p] # "new"
        /\ UNCHANGED <<serveHandle, inbox, handle>>
    BY <1>3, <1>14 DEF WaitReady, CallReturns, Goes, bridgeVars, stateVars, handleVars, LoadedIsUp
  <2>2. \A h \in Press : Up(h)' => Up(h)
    BY <2>1 DEF Up
  <2> QED
    BY <1>1, <1>3, <2>1, <2>2 DEF PatientParts, PatientStop, PatientStart
<1>15. ASSUME NEW p \in Press, WaitFails(p) PROVE PatientParts'
  <2>1. /\ pc[p] = "waiting" /\ pc' = [pc EXCEPT ![p] = "failed"] /\ on' = [on EXCEPT ![p] = NoPress]
        /\ on[p] = p /\ handle[p] # "new"
        /\ UNCHANGED <<serveHandle, inbox, handle>>
    BY <1>1, <1>3, <1>15 DEF WaitFails, CallReturns, Goes, bridgeVars, stateVars, handleVars
  <2>2. \A h \in Press : Up(h)' => Up(h)
    BY <2>1 DEF Up
  <2> QED
    BY <1>1, <1>3, <2>1, <2>2 DEF PatientParts, PatientStop, PatientStart
<1>16. ASSUME NEW p \in Press, ShowsReady(p) \/ ShowsError(p) PROVE PatientParts'
  <2>1. /\ pc[p] \in {"ready", "failed"} /\ \E to \in {"compress", "ask", "done"} : pc' = [pc EXCEPT ![p] = to]
        /\ on' \in {on, [on EXCEPT ![p] = NoPress]}
        /\ UNCHANGED <<serveHandle, inbox, handle>>
    BY <1>16 DEF ShowsReady, ShowsError, Served, Returns, bridgeVars, stateVars, handleVars
  <2>2. \A h \in Press : Up(h)' => Up(h)
    BY <2>1 DEF Up
  <2>3. \A q \in Press \ {p} : pc[q] \notin UnderWay /\ pc'[q] = pc[q]
    BY <1>1, <2>1
  <2>4. PatientStart'
    BY <1>3, <2>1, <2>3 DEF StartedOnce, CallsHoldHandles, Before, PatientStart
  <2>5. \A h \in Press : Up(h)' => h = S
    <3>1. \A q \in Press : pc[q] \notin {"sendStop", "closing"}
      BY <2>1, <2>3
    <3> QED
      BY <1>3, <2>2, <3>1
  <2>6. \A q \in Press : pc'[q] \notin {"sendStop", "closing", "stopped"}
    <3>1. pc'[p] \notin {"sendStop", "closing", "stopped"}
      BY <2>1
    <3> QED
      BY <2>3, <3>1
  <2> QED
    BY <2>1, <2>4, <2>5, <2>6 DEF PatientParts, PatientStop
<1>17. ASSUME NEW p \in Press, Acts(p), \E to \in {"stop", "start", "compress", "ask", "done"} : pc' = [pc EXCEPT ![p] = to],
              on' \in {on, [on EXCEPT ![p] = NoPress]}
       PROVE  PatientParts'
  <2>1. UNCHANGED <<serveHandle, inbox, handle>> /\ pc[p] = "new"
    BY <1>17 DEF Acts, bridgeVars, stateVars, handleVars
  <2>2. \A h \in Press : Up(h)' => Up(h)
    BY <2>1 DEF Up
  <2> QED
    BY <1>17, <2>1, <2>2, OthersKeepPatient
<1>18. CASE UserActs
  <2>1. ASSUME NEW p \in Press, PressesStart(p) \/ PressesSend(p) \/ PressesStop(p) PROVE PatientParts'
    <3>1. /\ Acts(p) /\ \E to \in {"stop", "start", "compress", "ask", "done"} : pc' = [pc EXCEPT ![p] = to]
          /\ on' \in {on, [on EXCEPT ![p] = NoPress]}
      BY <2>1 DEF PressesStart, PressesSend, PressesStop, Ensure, Served, Begins, Returns
    <3> QED
      BY <1>17, <3>1
  <2>2. ASSUME NEW p \in Press, NEW m \in Model, PicksModel(p, m) \/ SelectsModel(p, m) PROVE PatientParts'
    <3>1. /\ Acts(p) /\ \E to \in {"stop", "start", "compress", "ask", "done"} : pc' = [pc EXCEPT ![p] = to]
          /\ on' \in {on, [on EXCEPT ![p] = NoPress]}
      BY <2>2 DEF PicksModel, SelectsModel, Begins, Returns
    <3> QED
      BY <1>17, <3>1
  <2>3. CASE Reopens
    <3>1. UNCHANGED <<serveHandle, inbox, handle, pc, on>>
      BY <2>3 DEF Reopens, bridgeVars, stateVars, handleVars
    <3>2. \A h \in Press : Up(h)' => Up(h)
      BY <3>1 DEF Up
    <3> QED
      BY <3>1, <3>2, OthersKeepPatient
  <2> QED
    BY <1>18, <2>1, <2>2, <2>3 DEF UserActs
<1>19. ASSUME NEW p \in Press, AsksSummary(p) \/ Asks(p) \/ SendsBegin(p) \/ Ends(p) \/ BreaksOff(p) PROVE PatientParts'
  <2>1. /\ pc[p] \in Asking /\ \E to \in Asking \cup {"done"} : pc' = [pc EXCEPT ![p] = to]
        /\ UNCHANGED serveHandle /\ \A q \in Press \ {p} : on'[q] = on[q]
    BY <1>19 DEF AsksSummary, Asks, Requests, SendsBegin, Ends, BreaksOff, Returns, Begins, Goes, Asking, bridgeVars, stateVars, pressVars
  <2>2. \A h \in Press : Up(h)' => Up(h)
    <3>1. \A h \in Press : pc[h] = "sendStart" => pc'[h] # "started"
      BY <2>1 DEF Asking
    <3> QED
      BY <1>2, <3>1 DEF SendsStart, Goes
  <2> QED
    BY <2>1, <2>2, OthersKeepPatient DEF Asking
<1>20. ASSUME NEW h \in Press, HandleStep(h) PROVE PatientParts'
  <2>1. UNCHANGED <<serveHandle, pc, on>>
    BY <1>20 DEF HandleStep, TakesCommand, Loads, GetsReady, Fails, Closes, bridgeVars, stateVars, pressVars
  <2>2. \A g \in Press : Up(g)' => Up(g)
    BY <1>2, <2>1 DEF SendsStart, Goes
  <2> QED
    BY <2>1, <2>2, OthersKeepPatient
<1>21. CASE UNCHANGED vars
  BY <1>21 DEF vars, bridgeVars, stateVars, handleVars, pressVars, history, Up, PatientParts, PatientStop, PatientStart
<1> QED
  BY <1>4, <1>5, <1>6, <1>7, <1>8, <1>9, <1>10, <1>11, <1>12, <1>13, <1>14, <1>15, <1>16, <1>18, <1>19,
     <1>20, <1>21 DEF Next, PressStep

-----------------------------------------------------------------------------
(* What the screen shows *)

LEMMA NextEarly == TypeOK /\ EarlyIsOver /\ [Next]_vars => EarlyIsOver'
<1> SUFFICES ASSUME TypeOK, EarlyIsOver, [Next]_vars PROVE EarlyIsOver'
  OBVIOUS
<1> USE PressAssumption DEF EarlyIsOver
<1>1. pc \in [Press -> UnderWay \cup Asking \cup {"new", "done"}]
  BY DEF TypeOK
<1>2. ASSUME NEW p \in Press, pc[p] # "done", \E to : pc' = [pc EXCEPT ![p] = to] PROVE EarlyIsOver'
  BY <1>1, <1>2
<1>3. ASSUME NEW p \in Press, PressesStart(p) \/ PressesSend(p) \/ PressesStop(p) PROVE EarlyIsOver'
  BY <1>2, <1>3 DEF PressesStart, PressesSend, PressesStop, Acts, Ensure, Served, Begins, Returns
<1>4. ASSUME NEW p \in Press, NEW m \in Model, PicksModel(p, m) \/ SelectsModel(p, m) PROVE EarlyIsOver'
  BY <1>2, <1>4 DEF PicksModel, SelectsModel, Acts, Begins, Returns
<1>5. ASSUME NEW p \in Press, PressStep(p) PROVE EarlyIsOver'
  <2>1. pc[p] # "done"
    BY <1>5 DEF PressStep, TakesHandle, SendsStop, StopReturns, StopEnds, StopOpens, StartRefused, Registers,
       SendsStart, Started, WaitTakes, WaitReady, WaitFails, ShowsReady, ShowsError, AsksSummary, Asks,
       SendsBegin, Ends, BreaksOff, Goes, CallReturns
  <2>2. \E to : pc' = [pc EXCEPT ![p] = to]
    BY <1>5 DEF PressStep, TakesHandle, SendsStop, StopReturns, StopEnds, StopOpens, StartRefused, Registers,
       SendsStart, Started, WaitTakes, WaitReady, WaitFails, ShowsReady, ShowsError, Served, AsksSummary, Asks,
       Requests, SendsBegin, Ends, BreaksOff, Goes, CallReturns, Returns, Begins
  <2> QED
    BY <1>2, <2>1, <2>2
<1>6. ASSUME NEW h \in Press, HandleStep(h) PROVE EarlyIsOver'
  BY <1>6 DEF HandleStep, TakesCommand, Loads, GetsReady, Fails, Closes
<1>7. CASE Reopens \/ UNCHANGED vars
  BY <1>7 DEF Reopens, vars
<1> QED
  BY <1>3, <1>4, <1>5, <1>6, <1>7 DEF Next, UserActs

\* The screen is the first one as long as nobody has left it.
LEMMA FirstScreen ==
  ASSUME EarlyIsOver, [Next]_vars, left' = {}
  PROVE  left = {} /\ ~Reopens
<1>1. ~Reopens
  BY PressAssumption DEF EarlyIsOver, Reopens
<1>2. ASSUME NEW p \in Press, NEW m \in Model,
             PressesStart(p) \/ PressesSend(p) \/ PressesStop(p) \/ PicksModel(p, m) \/ SelectsModel(p, m)
      PROVE  left' = left
  BY <1>2 DEF PressesStart, PressesSend, PressesStop, PicksModel, SelectsModel, Acts
<1>3. ASSUME NEW p \in Press, PressStep(p) PROVE left' = left
  BY <1>3 DEF PressStep, TakesHandle, SendsStop, StopReturns, StopEnds, StopOpens, StartRefused, Registers,
     SendsStart, Started, WaitTakes, WaitReady, WaitFails, ShowsReady, ShowsError, AsksSummary, Asks,
     Requests, SendsBegin, Ends, BreaksOff, pressVars
<1>4. ASSUME NEW h \in Press, HandleStep(h) PROVE left' = left
  BY <1>4 DEF HandleStep, TakesCommand, Loads, GetsReady, Fails, Closes, pressVars
<1>5. ASSUME UNCHANGED vars PROVE left' = left
  BY <1>5 DEF vars, pressVars
<1> QED
  BY <1>1, <1>2, <1>3, <1>4, <1>5, ModelAssumption DEF Next, UserActs

ScreenParts == ScreenFollows /\ ScreenIsRight

LEMMA NextScreen ==
  TypeOK /\ CallsHoldHandles /\ EarlyIsOver /\ OneUnderWay /\ PatientParts /\ ScreenParts /\ [Next]_vars
    => ScreenParts'
<1> SUFFICES ASSUME TypeOK, CallsHoldHandles, EarlyIsOver, OneUnderWay, PatientParts, ScreenParts,
                    [Next]_vars, user' = "patient", left' = {}
             PROVE  ScreenParts'
  BY DEF ScreenParts, ScreenFollows, ScreenIsRight
<1>1. /\ user = "patient" /\ left = {} /\ ~Reopens
      /\ \A p, q \in Press : pc[p] \in UnderWay /\ pc[q] \in UnderWay => p = q
  BY PatientMoves, FirstScreen DEF OneUnderWay
<1> DEFINE S == serveHandle
           Shown == /\ status = "off" => S = NoPress
                    /\ status = "ready" => S # NoPress /\ serveProfile = serving
           Follows(p) == /\ pc[p] = "start" => S = NoPress /\ asked[p] = want
                         /\ pc[p] \in {"sendStart", "started"} => serveProfile = want
                         /\ pc[p] \in {"wait", "waiting", "ready"} => serveProfile = serving
<1>2. /\ \A p \in Press : Follows(p)
      /\ (\A p \in Press : pc[p] \notin UnderWay) => Shown
  BY <1>1 DEF ScreenParts, ScreenFollows, ScreenIsRight, Settled
<1>3. ASSUME \A p \in Press : Follows(p)', (\A p \in Press : pc'[p] \notin UnderWay) => Shown'
      PROVE  ScreenParts'
  BY <1>1, <1>3 DEF ScreenParts, ScreenFollows, ScreenIsRight, Settled
<1>4. /\ \A p \in Press : pc[p] \in {"sendStop", "closing", "stopped"} => S = NoPress
      /\ \A p \in Press : pc[p] \in {"sendStart", "started", "wait", "waiting", "ready"} => S = p
  BY <1>1 DEF PatientParts, PatientStop, PatientStart
<1>5. /\ pc \in [Press -> UnderWay \cup Asking \cup {"new", "done"}]
      /\ asked \in [Press -> Model \cup {NoModel}]
  BY DEF TypeOK
<1> HIDE DEF Shown, Follows
\* A step of the press under way: nobody else is, and its own part has to be shown.
<1>6. ASSUME NEW p \in Press, NEW to, pc[p] \in UnderWay, pc' = [pc EXCEPT ![p] = to],
             Follows(p)', to \notin UnderWay => Shown'
      PROVE  ScreenParts'
  <2>1. \A q \in Press \ {p} : pc'[q] \notin UnderWay
    BY <1>1, <1>5, <1>6
  <2>2. \A q \in Press \ {p} : Follows(q)'
    BY <2>1 DEF Follows, UnderWay
  <2>3. pc'[p] = to
    BY <1>5, <1>6
  <2> QED
    BY <1>3, <1>6, <2>2, <2>3
<1>6a. ASSUME NEW p \in Press, pc[p] \in UnderWay, \E to : pc' = [pc EXCEPT ![p] = to],
              \A q \in Press : q = p => Follows(q)', Shown'
       PROVE  ScreenParts'
  <2>1. \A q \in Press \ {p} : pc'[q] \notin UnderWay
    BY <1>1, <1>5, <1>6a
  <2>2. \A q \in Press \ {p} : Follows(q)'
    BY <2>1 DEF Follows, UnderWay
  <2>3. \A q \in Press : Follows(q)'
    BY <1>6a, <2>2
  <2> QED
    BY <1>3, <1>6a, <2>3
\* A step that leaves AppState and screen alone, and puts no press on the way.
<1>7. ASSUME UNCHANGED <<serveHandle, serveProfile, status, serving, want, asked>>,
             \A p \in Press : pc'[p] # pc[p] => pc[p] \notin UnderWay /\ pc'[p] \notin UnderWay
      PROVE  ScreenParts'
  <2>1. \A p \in Press : Follows(p)'
    BY <1>2, <1>7 DEF Follows, UnderWay
  <2>2. Shown => Shown'
    BY <1>7 DEF Shown
  <2> QED
    BY <1>2, <1>3, <1>7, <2>1, <2>2
<1> USE DEF UnderWay, bridgeVars, stateVars, screenVars, pressVars
<1>8. ASSUME NEW p \in Press, TakesHandle(p) PROVE ScreenParts'
  BY <1>5, <1>6, <1>8 DEF TakesHandle, Goes, Follows
<1>9. ASSUME NEW p \in Press, SendsStop(p) PROVE ScreenParts'
  BY <1>5, <1>6, <1>9 DEF SendsStop, Goes, Follows
<1>10. ASSUME NEW p \in Press, StopReturns(p) PROVE ScreenParts'
  BY <1>5, <1>6, <1>10 DEF StopReturns, CallReturns, Goes, Follows
<1>11. ASSUME NEW p \in Press, StopEnds(p) PROVE ScreenParts'
  <2>1. pc[p] = "stopped" /\ pc' = [pc EXCEPT ![p] = "done"] /\ status' = "off" /\ serveHandle' = NoPress
    BY <1>1, <1>4, <1>11 DEF StopEnds, Returns
  <2>3. Shown'
    BY <2>1 DEF Shown
  <2>4. \A q \in Press : q = p => Follows(q)'
    BY <1>5, <2>1 DEF Follows
  <2>5. pc[p] \in UnderWay
    BY <2>1
  <2> QED
    BY <1>6a, <2>1, <2>3, <2>4, <2>5
<1>12. ASSUME NEW p \in Press, StopOpens(p) PROVE ScreenParts'
  <2>1. /\ pc[p] = "stopped" /\ pc' = [pc EXCEPT ![p] = "start"] /\ serveHandle' = NoPress
        /\ asked'[p] = want /\ want' = want
    BY <1>4, <1>5, <1>12 DEF StopOpens, Opens, Goes
  <2> QED
    BY <1>5, <1>6, <2>1 DEF Follows
<1>13. ASSUME NEW p \in Press, StartRefused(p) PROVE ScreenParts'
  BY <1>5, <1>6, <1>13 DEF StartRefused, Goes, Follows
<1>14. ASSUME NEW p \in Press, Registers(p) PROVE ScreenParts'
  <2>1. pc[p] = "start" /\ pc' = [pc EXCEPT ![p] = "sendStart"] /\ serveProfile' = asked[p] /\ want' = want
    BY <1>14 DEF Registers, Goes
  <2>2. asked[p] = want
    BY <1>2, <2>1 DEF Follows
  <2> QED
    BY <1>5, <1>6, <2>1, <2>2 DEF Follows
<1>15. ASSUME NEW p \in Press, SendsStart(p) PROVE ScreenParts'
  BY <1>2, <1>5, <1>6, <1>15 DEF SendsStart, Goes, Follows
<1>16. ASSUME NEW p \in Press, Started(p) PROVE ScreenParts'
  BY <1>1, <1>2, <1>5, <1>6, <1>16 DEF Started, Goes, Follows
<1>17. ASSUME NEW p \in Press, WaitTakes(p) PROVE ScreenParts'
  <2>1. pc[p] = "wait" /\ UNCHANGED <<serveProfile, serving>>
        /\ \E to \in {"failed", "waiting"} : pc' = [pc EXCEPT ![p] = to]
    BY <1>17 DEF WaitTakes, Goes
  <2> QED
    BY <1>2, <1>5, <1>6, <2>1 DEF Follows
<1>18. ASSUME NEW p \in Press, WaitReady(p) PROVE ScreenParts'
  BY <1>2, <1>5, <1>6, <1>18 DEF WaitReady, CallReturns, Goes, Follows
<1>19. ASSUME NEW p \in Press, WaitFails(p) PROVE ScreenParts'
  BY <1>5, <1>6, <1>19 DEF WaitFails, CallReturns, Goes, Follows
<1>20. ASSUME NEW p \in Press, ShowsReady(p) PROVE ScreenParts'
  <2>1. /\ pc[p] = "ready" /\ \E to \in {"compress", "ask", "done"} : pc' = [pc EXCEPT ![p] = to]
        /\ status' = "ready" /\ UNCHANGED <<serveHandle, serveProfile, serving>>
    BY <1>1, <1>20 DEF ShowsReady, Served, Returns
  <2>2. serveHandle # NoPress /\ serveProfile = serving
    BY <1>2, <1>4, <2>1, PressAssumption DEF Follows
  <2>3. Shown'
    BY <2>1, <2>2 DEF Shown
  <2>4. \A q \in Press : q = p => Follows(q)'
    BY <1>5, <2>1 DEF Follows
  <2>5. pc[p] \in UnderWay
    BY <2>1
  <2> QED
    BY <1>6a, <2>1, <2>3, <2>4, <2>5
<1>21. ASSUME NEW p \in Press, ShowsError(p) PROVE ScreenParts'
  <2>1. pc[p] = "failed" /\ pc' = [pc EXCEPT ![p] = "done"] /\ status' = "error"
    BY <1>1, <1>21 DEF ShowsError, Returns
  <2>3. Shown'
    BY <2>1 DEF Shown
  <2>4. \A q \in Press : q = p => Follows(q)'
    BY <1>5, <2>1 DEF Follows
  <2>5. pc[p] \in UnderWay
    BY <2>1
  <2> QED
    BY <1>6a, <2>1, <2>3, <2>4, <2>5
<1>22. ASSUME NEW p \in Press, AsksSummary(p) \/ Asks(p) \/ SendsBegin(p) \/ Ends(p) \/ BreaksOff(p) PROVE ScreenParts'
  <2>1. pc[p] \in Asking /\ \E to \in Asking \cup {"done"} : pc' = [pc EXCEPT ![p] = to]
    BY <1>22 DEF AsksSummary, Asks, Requests, SendsBegin, Ends, BreaksOff, Returns, Begins, Goes, Asking
  <2>2. UNCHANGED <<serveHandle, serveProfile, status, serving, want, asked>>
    BY <1>22 DEF AsksSummary, Asks, Requests, SendsBegin, Ends, BreaksOff
  <2>3. \A q \in Press : pc'[q] # pc[q] => pc[q] \notin UnderWay /\ pc'[q] \notin UnderWay
    BY <1>5, <2>1 DEF Asking
  <2> QED
    BY <1>7, <2>2, <2>3
<1>23. ASSUME NEW h \in Press, HandleStep(h) PROVE ScreenParts'
  <2>1. UNCHANGED <<serveHandle, serveProfile, status, serving, want, asked, pc>>
    BY <1>23 DEF HandleStep, TakesCommand, Loads, GetsReady, Fails, Closes
  <2> QED
    BY <1>7, <2>1
<1>24. CASE UNCHANGED vars
  BY <1>7, <1>24 DEF vars
\* The user acts: no press is under way before.
<1>25. ASSUME NEW p \in Press, Acts(p)
       PROVE  /\ \A q \in Press : pc[q] \notin UnderWay
              /\ Shown /\ pc[p] = "new" /\ UNCHANGED <<serveHandle, serveProfile, serving>>
  BY <1>2, <1>25 DEF Acts, Settled
<1>26. ASSUME NEW p \in Press, Acts(p), NEW to \in {"stop", "compress", "ask", "done"},
              pc' = [pc EXCEPT ![p] = to], UNCHANGED <<status, asked>>
       PROVE  ScreenParts'
  <2>1. \A q \in Press : Follows(q)'
    BY <1>5, <1>25, <1>26 DEF Follows
  <2>2. Shown'
    BY <1>25, <1>26 DEF Shown
  <2> QED
    BY <1>3, <2>1, <2>2
<1>27. ASSUME NEW p \in Press, NEW k, Acts(p), Ensure(p, k), UNCHANGED want PROVE ScreenParts'
  <2>1. CASE Served(p, k) /\ UNCHANGED <<status, inProgress, asked>>
    BY <1>26, <1>27, <2>1 DEF Served, Returns
  <2>2. CASE Begins(p, k, "stop") /\ UNCHANGED <<status, inProgress, asked>>
    BY <1>26, <1>27, <2>2 DEF Begins
  <2>3. CASE status = "off" /\ Begins(p, k, "start") /\ Opens(p)
    <3>1. pc' = [pc EXCEPT ![p] = "start"] /\ asked'[p] = want /\ want' = want /\ serveHandle' = NoPress
      BY <1>5, <1>25, <1>27, <2>3 DEF Begins, Opens, Shown
    <3>2. \A q \in Press : Follows(q)'
      BY <1>5, <1>25, <1>27, <3>1 DEF Follows
    <3>3. pc'[p] \in UnderWay
      BY <1>5, <3>1
    <3> QED
      BY <1>3, <3>2, <3>3
  <2> QED
    BY <1>27, <2>1, <2>2, <2>3 DEF Ensure
<1>28. ASSUME NEW p \in Press, PressesStart(p) \/ PressesSend(p) PROVE ScreenParts'
  BY <1>27, <1>28 DEF PressesStart, PressesSend
<1>29. ASSUME NEW p \in Press, PressesStop(p) PROVE ScreenParts'
  BY <1>26, <1>29 DEF PressesStop, Begins
<1>30. ASSUME NEW p \in Press, NEW m \in Model, PicksModel(p, m) \/ SelectsModel(p, m) PROVE ScreenParts'
  BY <1>26, <1>30 DEF PicksModel, SelectsModel, Begins, Returns
<1> QED
  BY <1>1, <1>8, <1>9, <1>10, <1>11, <1>12, <1>13, <1>14, <1>15, <1>16, <1>17, <1>18, <1>19, <1>20,
     <1>21, <1>22, <1>23, <1>24, <1>28, <1>29, <1>30 DEF Next, UserActs, PressStep

-----------------------------------------------------------------------------
(* The theorems *)

LEMMA ServeStarts == Init => ServeInv
<1> SUFFICES ASSUME Init PROVE ServeInv
  OBVIOUS
<1> USE PressAssumption, ModelAssumption DEF Init
<1>1. \A h \in Press : inbox[h] \in Seq(Command) /\ \A e : ~Contains(inbox[h], e)
  BY DEF Contains
<1>2. TypeOK
  <2>1. FirstModel \in Model
    BY DEF FirstModel
  <2>2. inbox \in [Press -> Seq(Command)]
    BY <1>1
  <2>3. CASE NoServer
    BY <2>1, <2>2, <2>3 DEF NoServer, TypeOK
  <2>4. CASE EarlyServer
    BY <2>1, <2>2, <2>4 DEF EarlyServer, TypeOK
  <2> QED
    BY <2>3, <2>4
<1>3. CallsHoldHandles
  BY DEF CallsHoldHandles, Before, NoServer, EarlyServer
<1>4. StartedOnce
  BY <1>1 DEF StartedOnce, Once, Before, NoServer, EarlyServer
<1>5. StopsAreLate
  BY <1>1 DEF StopsAreLate, After
<1>6. WorkIsAsked /\ BusyIsAsked
  BY DEF WorkIsAsked, BusyIsAsked, Answered, NoServer, EarlyServer
<1>7. LoadedIsUp
  BY DEF LoadedIsUp, NoServer, EarlyServer
<1>8. \A p \in Press : pc[p] \notin UnderWay
  BY DEF UnderWay
<1>9. \A h \in Press : Up(h) => h = serveHandle
  BY <1>1 DEF Up, NoServer, EarlyServer
<1>10. NoServerLost
  BY <1>9 DEF NoServerLost
<1>11. OneUnderWay
  BY <1>8 DEF OneUnderWay
<1>12. PatientStop
  BY <1>8, <1>9 DEF PatientStop, UnderWay
<1>13. PatientStart
  BY <1>8 DEF PatientStart, UnderWay, NoServer, EarlyServer
<1>14. ScreenFollows
  BY <1>8 DEF ScreenFollows, UnderWay
<1>15. ScreenIsRight
  BY DEF ScreenIsRight, NoServer, EarlyServer
<1>16. EarlyIsOver
  BY DEF EarlyIsOver
<1> QED
  BY <1>2, <1>3, <1>4, <1>5, <1>6, <1>7, <1>10, <1>11, <1>12, <1>13, <1>14, <1>15, <1>16 DEF ServeInv

\* ServeInv is inductive.
LEMMA ServeInductive == ServeInv /\ [Next]_vars => ServeInv'
BY NextType, NextCalls, NextStarted, NextStops, NextLost, NextWork, NextLoaded, NextOne, NextPatient,
   NextScreen, NextEarly DEF ServeInv, PatientParts, ScreenParts

LEMMA ServeHolds == Spec => []ServeInv
BY ServeStarts, ServeInductive, PTL DEF Spec

\* A server that AppState no longer knows is being stopped, for any number of presses
\* that overlap in any order; a Stop that overtook its Start apart.
THEOREM ServersAreNotLost == Spec => []NoServerLost
<1>1. ServeInv => NoServerLost
  BY DEF ServeInv
<1> QED
  BY <1>1, ServeHolds, PTL

\* For a user who waits no two servers are up.
THEOREM PatientHasOneServer == Spec => []OneServer
<1>1. ServeInv => OneServer
  <2> SUFFICES ASSUME ServeInv, user = "patient", NEW g \in Press, NEW h \in Press, Up(g), Up(h)
               PROVE  g = h
    BY DEF OneServer
  <2>1. /\ g # serveHandle => \E q \in Press : pc[q] \in {"sendStop", "closing"} /\ on[q] = g
        /\ h # serveHandle => \E q \in Press : pc[q] \in {"sendStop", "closing"} /\ on[q] = h
        /\ \A p \in Press : pc[p] \in {"sendStop", "closing"} => serveHandle = NoPress
    BY DEF ServeInv, PatientStop
  <2>2. \A p, q \in Press : pc[p] \in {"sendStop", "closing"} /\ pc[q] \in {"sendStop", "closing"} => p = q
    BY DEF ServeInv, OneUnderWay, UnderWay
  <2> QED
    BY <2>1, <2>2, PressAssumption
<1> QED
  BY <1>1, ServeHolds, PTL

\* What the run checks of a patient user's screen and server, and of Busy for any user.
THEOREM PatientIsServed == Spec => []PatientSeesOneServer
<1>1. ServeInv => TypeOK /\ ScreenIsRight /\ BusyIsAsked
  BY DEF ServeInv
<1>2. TypeOK /\ OneServer /\ ScreenIsRight /\ BusyIsAsked => PatientSeesOneServer
  BY DEF PatientSeesOneServer
<1> QED
  BY <1>1, <1>2, ServeHolds, PatientHasOneServer, PTL
=============================================================================
