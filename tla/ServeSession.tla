---------------------------- MODULE ServeSession ----------------------------
(***************************************************************************)
(* The model server of the chat screen: serve_start, serve_wait_ready,     *)
(* serve_stop and the chat requests of the bridge (api.rs) on the shared   *)
(* AppState, the lifecycle handles they make and drop, and the screen      *)
(* (chat_screen.dart) whose asynchronous functions interleave at every     *)
(* await and may belong to a screen that is gone.                          *)
(*                                                                         *)
(* A press is one action of the user and the function of the screen it     *)
(* runs.  A press starts at most one server, so handles have the identity  *)
(* of the press whose serve_start made them.  Of a handle only what its    *)
(* clients see is here (Lifecycle has the rest): the commands in its       *)
(* channel, its state, and whether its server says model_loaded.           *)
(***************************************************************************)
EXTENDS Naturals, Sequences, SequencesExt

CONSTANTS
  Press,    \* what the user does, one identity each
  NoPress,  \* None
  Early,    \* a press that is over when the behaviour begins
  Model,    \* profiles, together with a context
  NoModel   \* none is served

ASSUME PressAssumption == NoPress \notin Press /\ Early \in Press
ASSUME ModelAssumption == NoModel \notin Model /\ Model # {}

VARIABLES
  serveHandle,  \* AppState.serve_handle
  serveProfile, \* AppState.serve_profile_id
  inbox,        \* per handle, the commands in its channel, oldest first
  handle,       \* per handle, its LifecycleState; "new" is Idle before Start
  loaded,       \* handles whose server says model_loaded
  status,       \* _serveStatus
  inProgress,   \* _ensureServeInProgress
  want,         \* _profileId and _ctx
  serving,      \* _servingProfileId and _servingCtx
  pc,           \* where a press is
  kind,         \* what was pressed
  asked,        \* the argument of the call of serve_start
  on,           \* the handle that the current call of the press has got hold of
  left,         \* presses whose screen is gone (not mounted)
  user,         \* history: has waited for the screen to settle before every press
  overtaken,    \* history: handles whose Stop was sent before their Start
  unended       \* history: handles a request broke off on, with no EndWork since

stateVars == <<serveHandle, serveProfile>>
bridgeVars == <<stateVars, inbox>>
handleVars == <<handle, loaded>>
screenVars == <<status, inProgress, want, serving>>
pressVars == <<kind, asked, on, left>>
history == <<user, overtaken, unended>>
vars == <<bridgeVars, handleVars, screenVars, pc, pressVars, history>>

\* What a new screen selects: profiles.first.
FirstModel == CHOOSE m \in Model : TRUE

\* The call a press waits for before the screen shows a settled status.
UnderWay == {"stop", "sendStop", "closing", "stopped", "start", "sendStart", "started",
             "wait", "waiting", "ready", "failed"}

Settled == \A p \in Press : pc[p] \notin UnderWay

\* A request to the server: _streaming or _compressing.
Asking == {"compress", "ask", "begin", "asking"}

\* What a handle is told: LifecycleCommand, but for the Abort of its own watchdog.
Command == {"Start", "Stop", "BeginWork", "EndWork"}

TypeOK ==
  /\ serveHandle \in Press \cup {NoPress}
  /\ serveProfile \in Model \cup {NoModel}
  /\ inbox \in [Press -> Seq(Command)]
  /\ handle \in [Press -> {"new", "loading", "ready", "busy", "closing", "idle"}]
  /\ loaded \subseteq Press
  /\ status \in {"off", "loading", "ready", "error"}
  /\ inProgress \in BOOLEAN
  /\ want \in Model
  /\ serving \in Model \cup {NoModel}
  /\ pc \in [Press -> UnderWay \cup Asking \cup {"new", "done"}]
  /\ kind \in [Press -> {"none", "start", "stop", "send", "restart", "summary"}]
  /\ asked \in [Press -> Model \cup {NoModel}]
  /\ on \in [Press -> Press \cup {NoPress}]
  /\ left \subseteq Press
  /\ user \in {"patient", "hurried"}
  /\ overtaken \subseteq Press /\ unended \subseteq Press

\* Nothing has been started: the app is fresh, or the early press only looked around.
NoServer ==
  /\ serveHandle = NoPress /\ serveProfile = NoModel
  /\ handle = [p \in Press |-> "new"]
  /\ loaded = {}
  /\ status = "off" /\ serving = NoModel

\* The early press has started a server, which is ready.
EarlyServer ==
  /\ serveHandle = Early /\ serveProfile = FirstModel
  /\ handle = [p \in Press |-> IF p = Early THEN "ready" ELSE "new"]
  /\ loaded = {Early}
  /\ status = "ready" /\ serving = FirstModel

Init ==
  /\ NoServer \/ EarlyServer
  /\ inbox = [p \in Press |-> <<>>]
  /\ inProgress = FALSE
  /\ want = FirstModel
  /\ pc = [p \in Press |-> IF p = Early THEN "done" ELSE "new"]
  /\ kind = [p \in Press |-> "none"]
  /\ asked = [p \in Press |-> NoModel]
  /\ on = [p \in Press |-> NoPress]
  /\ left = {}
  /\ user = "patient" /\ overtaken = {} /\ unended = {}

Goes(p, from, to) == pc[p] = from /\ pc' = [pc EXCEPT ![p] = to]

\* A call returns, and the press goes on without its handle.
CallReturns(p, from, to) == Goes(p, from, to) /\ on' = [on EXCEPT ![p] = NoPress]

\* The function of the press itself returns.
Returns(p) ==
  /\ pc' = [pc EXCEPT ![p] = "done"]
  /\ kind' = [kind EXCEPT ![p] = "none"]
  /\ on' = [on EXCEPT ![p] = NoPress]

Send(h, op) == inbox' = [inbox EXCEPT ![h] = Append(@, op)]

-----------------------------------------------------------------------------
(* The screen *)

\* The function of the press waits for its first call.
Begins(p, k, call) ==
  /\ pc' = [pc EXCEPT ![p] = call]
  /\ kind' = [kind EXCEPT ![p] = k]
  /\ UNCHANGED on

\* serve_start is called with what is selected now.
Opens(p) ==
  /\ status' = "loading" /\ inProgress' = TRUE
  /\ asked' = [asked EXCEPT ![p] = want]

\* _ensureServe is over without an error: a send goes on, after a summary if its
\* history is long.
Served(p, k) ==
  IF k = "send"
  THEN /\ \E next \in {"compress", "ask"} : pc' = [pc EXCEPT ![p] = next]
       /\ kind' = [kind EXCEPT ![p] = k]
       /\ UNCHANGED on
  ELSE Returns(p)

\* _ensureServe: nothing to do, another one at work, a server to be stopped first,
\* or a start at once.
Ensure(p, k) ==
  \/ /\ inProgress \/ (status = "ready" /\ serving = want)
     /\ Served(p, k)
     /\ UNCHANGED <<status, inProgress, asked>>
  \/ /\ ~inProgress /\ status # "off" /\ ~(status = "ready" /\ serving = want)
     /\ Begins(p, k, "stop")
     /\ UNCHANGED <<status, inProgress, asked>>
  \/ /\ ~inProgress /\ status = "off"
     /\ Begins(p, k, "start")
     /\ Opens(p)

\* The user acts, whether or not earlier presses are over.
Acts(p) ==
  /\ pc[p] = "new"
  /\ user' = IF Settled THEN user ELSE "hurried"
  /\ UNCHANGED <<bridgeVars, handleVars, serving, left, overtaken, unended>>

PressesStart(p) ==
  /\ status = "off"
  /\ Acts(p)
  /\ Ensure(p, "start")
  /\ UNCHANGED want

PressesSend(p) ==
  /\ ~inProgress /\ status # "loading"
  /\ \A q \in Press \ left : pc[q] \notin Asking
  /\ Acts(p)
  /\ Ensure(p, "send")
  /\ UNCHANGED want

PressesStop(p) ==
  /\ status # "off"
  /\ Acts(p)
  /\ Begins(p, "stop", "stop")
  /\ UNCHANGED <<screenVars, asked>>

\* Another profile or context, while a server is on: _restartServe.
PicksModel(p, m) ==
  /\ status # "off" /\ m # want
  /\ Acts(p)
  /\ Begins(p, "restart", "stop")
  /\ want' = m
  /\ UNCHANGED <<status, inProgress, serving, asked>>

\* Another profile while none is on, or that of another conversation at any time.
SelectsModel(p, m) ==
  /\ m # want
  /\ Acts(p)
  /\ Returns(p)
  /\ want' = m
  /\ UNCHANGED <<status, inProgress, serving, asked>>

\* The user opens another tab and comes back to a new screen (bound: once).
Reopens ==
  /\ left = {}
  /\ left' = {p \in Press : pc[p] # "new"}
  /\ status' = "off" /\ inProgress' = FALSE /\ serving' = NoModel
  /\ want' = FirstModel
  /\ user' = IF Settled THEN user ELSE "hurried"
  /\ UNCHANGED <<bridgeVars, handleVars, pc, kind, asked, on, overtaken, unended>>

-----------------------------------------------------------------------------
(* serve_stop, and what the screen does when it returns *)

\* A plausible fault: a handle that is idle is dropped at once.
TakesHandleIfUp(p) ==
  /\ Goes(p, "stop", IF serveHandle = NoPress \/ handle[serveHandle] = "new"
                     THEN "stopped" ELSE "sendStop")
  /\ on' = [on EXCEPT ![p] = serveHandle]
  /\ serveHandle' = NoPress /\ serveProfile' = NoModel
  /\ UNCHANGED <<inbox, handleVars, screenVars, kind, asked, left, history>>

\* The lock: the handle is taken out of AppState, if there is one.
TakesHandle(p) ==
  /\ Goes(p, "stop", IF serveHandle = NoPress THEN "stopped" ELSE "sendStop")
  /\ on' = [on EXCEPT ![p] = serveHandle]
  /\ serveHandle' = NoPress /\ serveProfile' = NoModel
  /\ UNCHANGED <<inbox, handleVars, screenVars, kind, asked, left, history>>

SendsStop(p) ==
  /\ Goes(p, "sendStop", "closing")
  /\ Send(on[p], "Stop")
  /\ overtaken' = overtaken \cup ({on[p]} \cap {q \in Press : pc[q] = "sendStart"})
  /\ UNCHANGED <<stateVars, handleVars, screenVars, pressVars, user, unended>>

\* A plausible fault: the call does not wait.
StopReturnsAtOnce(p) ==
  /\ CallReturns(p, "closing", "stopped")
  /\ UNCHANGED <<bridgeVars, handleVars, screenVars, kind, asked, left, history>>

\* wait_for_state(Idle), which a handle is in before its Start, too.
StopReturns(p) ==
  /\ CallReturns(p, "closing", "stopped")
  /\ handle[on[p]] \in {"new", "idle"}
  /\ UNCHANGED <<bridgeVars, handleVars, screenVars, kind, asked, left, history>>

\* The screen is off, unless it is gone; a stop ends here, and so does a restart that
\* finds a start at work.
StopEnds(p) ==
  /\ pc[p] = "stopped"
  /\ p \in left \/ kind[p] = "stop" \/ (kind[p] = "restart" /\ inProgress)
  /\ Returns(p)
  /\ IF p \in left THEN UNCHANGED <<status, serving>>
     ELSE status' = "off" /\ serving' = NoModel
  /\ UNCHANGED <<bridgeVars, handleVars, inProgress, want, asked, left, history>>

\* A start that had to stop a server first goes on without looking again.
StopOpens(p) ==
  /\ p \notin left
  /\ kind[p] \in {"start", "send"} \/ (kind[p] = "restart" /\ ~inProgress)
  /\ Goes(p, "stopped", "start")
  /\ serving' = NoModel
  /\ Opens(p)
  /\ UNCHANGED <<bridgeVars, handleVars, want, kind, on, left, history>>

-----------------------------------------------------------------------------
(* serve_start and serve_wait_ready *)

\* There is a handle already, or the profile cannot be loaded.
StartRefused(p) ==
  /\ Goes(p, "start", "failed")
  /\ asked' = [asked EXCEPT ![p] = NoModel]
  /\ UNCHANGED <<bridgeVars, handleVars, screenVars, kind, on, left, history>>

\* The lock: a new handle is registered ...
Registers(p) ==
  /\ serveHandle = NoPress
  /\ Goes(p, "start", "sendStart")
  /\ serveHandle' = p /\ serveProfile' = asked[p]
  /\ asked' = [asked EXCEPT ![p] = NoModel]
  /\ UNCHANGED <<inbox, handleVars, screenVars, kind, on, left, history>>

\* ... and Start is sent without it.
SendsStart(p) ==
  /\ Goes(p, "sendStart", "started")
  /\ Send(p, "Start")
  /\ UNCHANGED <<stateVars, handleVars, screenVars, pressVars, history>>

\* The screen notes the model selected by now, and calls serve_wait_ready.
Started(p) ==
  /\ Goes(p, "started", "wait")
  /\ serving' = IF p \in left THEN serving ELSE want
  /\ UNCHANGED <<bridgeVars, handleVars, status, inProgress, want, pressVars, history>>

\* The lock: it waits for the handle that is registered now.
WaitTakes(p) ==
  /\ Goes(p, "wait", IF serveHandle = NoPress THEN "failed" ELSE "waiting")
  /\ on' = [on EXCEPT ![p] = serveHandle]
  /\ UNCHANGED <<bridgeVars, handleVars, screenVars, kind, asked, left, history>>

\* The handle is Ready, or its server says so itself.
WaitReady(p) ==
  /\ CallReturns(p, "waiting", "ready")
  /\ handle[on[p]] = "ready" \/ on[p] \in loaded
  /\ UNCHANGED <<bridgeVars, handleVars, screenVars, kind, asked, left, history>>

\* A plausible fault: no deadline.
WaitFailsDown(p) ==
  /\ CallReturns(p, "waiting", "failed")
  /\ handle[on[p]] \in {"closing", "idle"}
  /\ UNCHANGED <<bridgeVars, handleVars, screenVars, kind, asked, left, history>>

\* The server ended, could not load or is late; its load timeout, minutes, is longer
\* than a command stays in the channel.
WaitFails(p) ==
  /\ CallReturns(p, "waiting", "failed")
  /\ handle[on[p]] # "new" \/ on[p] \in overtaken
  /\ UNCHANGED <<bridgeVars, handleVars, screenVars, kind, asked, left, history>>

\* The screen shows what has come out, unless it is gone.
ShowsReady(p) ==
  /\ pc[p] = "ready"
  /\ Served(p, kind[p])
  /\ IF p \in left THEN UNCHANGED <<status, inProgress>>
     ELSE status' = "ready" /\ inProgress' = FALSE
  /\ UNCHANGED <<bridgeVars, handleVars, want, serving, asked, left, history>>

ShowsError(p) ==
  /\ pc[p] = "failed"
  /\ Returns(p)
  /\ IF p \in left THEN UNCHANGED <<status, inProgress, serving>>
     ELSE status' = "error" /\ inProgress' = FALSE /\ serving' = NoModel
  /\ UNCHANGED <<bridgeVars, handleVars, want, asked, left, history>>

-----------------------------------------------------------------------------
(* chat_summarize and chat_send *)

\* chat_summarize wants a handle with a port, chat_send one that is Ready or Busy;
\* what is wrong with the profile or the image makes it return in any case.
HasPort(h) == h # NoPress /\ handle[h] \notin {"new", "idle"}

TakesRequest(h) == h # NoPress /\ handle[h] \in {"ready", "busy"}

Requests(p, k, taken) ==
  /\ \/ /\ taken
        /\ pc' = [pc EXCEPT ![p] = "begin"]
        /\ kind' = [kind EXCEPT ![p] = k]
        /\ on' = [on EXCEPT ![p] = serveHandle]
     \/ Returns(p)
  /\ UNCHANGED <<bridgeVars, handleVars, screenVars, asked, left, history>>

AsksSummary(p) == pc[p] = "compress" /\ Requests(p, "summary", HasPort(serveHandle))

Asks(p) == pc[p] = "ask" /\ Requests(p, "send", TakesRequest(serveHandle))

SendsBegin(p) ==
  /\ Goes(p, "begin", "asking")
  /\ Send(on[p], "BeginWork")
  /\ UNCHANGED <<stateVars, handleVars, screenVars, pressVars, history>>

\* The request is over, one way or the other; after a summary the message itself is
\* sent, if the screen is still there.
Ends(p) ==
  /\ pc[p] = "asking"
  /\ Send(on[p], "EndWork")
  /\ unended' = unended \ {on[p]}
  /\ \/ Returns(p)
     \/ kind[p] = "summary" /\ p \notin left /\ Begins(p, "send", "ask")
  /\ UNCHANGED <<stateVars, handleVars, screenVars, asked, left, user, overtaken>>

\* There is no client for the request, or no state: the call returns by `?` between
\* BeginWork and EndWork, which is not sent.
BreaksOff(p) ==
  /\ pc[p] = "asking"
  /\ Returns(p)
  /\ unended' = unended \cup {on[p]}
  /\ UNCHANGED <<bridgeVars, handleVars, screenVars, asked, left, user, overtaken>>

-----------------------------------------------------------------------------
(* The handles *)

\* What a command does in a state; in any other it is ignored.
Effect(command, state) ==
  CASE command = "Start" /\ state = "new" -> "loading"
    [] command = "Stop" /\ state \in {"loading", "ready", "busy"} -> "closing"
    [] command = "BeginWork" /\ state = "ready" -> "busy"
    [] command = "EndWork" /\ state = "busy" -> "ready"
    [] OTHER -> state

TakesCommand(h) ==
  /\ inbox[h] # <<>>
  /\ inbox' = [inbox EXCEPT ![h] = Tail(@)]
  /\ handle' = [handle EXCEPT ![h] = Effect(Head(inbox[h]), @)]
  /\ UNCHANGED <<stateVars, loaded, screenVars, pc, pressVars, history>>

\* The server has loaded its model; the actor sees it at a later poll.
Loads(h) ==
  /\ handle[h] = "loading"
  /\ loaded' = loaded \cup {h}
  /\ UNCHANGED <<bridgeVars, handle, screenVars, pc, pressVars, history>>

GetsReady(h) ==
  /\ handle[h] = "loading" /\ h \in loaded
  /\ handle' = [handle EXCEPT ![h] = "ready"]
  /\ UNCHANGED <<bridgeVars, loaded, screenVars, pc, pressVars, history>>

\* A crash, a timeout, the watchdog; or the server of a handle that is being stopped ends.
Fails(h) ==
  /\ handle[h] \in {"loading", "ready", "busy", "closing"}
  /\ handle' = [handle EXCEPT ![h] = "closing"]
  /\ loaded' = loaded \ {h}
  /\ UNCHANGED <<bridgeVars, screenVars, pc, pressVars, history>>

\* Cleanup is over.
Closes(h) ==
  /\ handle[h] = "closing"
  /\ handle' = [handle EXCEPT ![h] = "idle"]
  /\ loaded' = loaded \ {h}
  /\ UNCHANGED <<bridgeVars, screenVars, pc, pressVars, history>>

-----------------------------------------------------------------------------

PressStep(p) ==
  \/ TakesHandle(p) \/ SendsStop(p) \/ StopReturns(p) \/ StopEnds(p) \/ StopOpens(p)
  \/ StartRefused(p) \/ Registers(p) \/ SendsStart(p) \/ Started(p)
  \/ WaitTakes(p) \/ WaitReady(p) \/ WaitFails(p) \/ ShowsReady(p) \/ ShowsError(p)
  \/ AsksSummary(p) \/ Asks(p) \/ SendsBegin(p) \/ Ends(p) \/ BreaksOff(p)

HandleStep(h) == TakesCommand(h) \/ Loads(h) \/ GetsReady(h) \/ Fails(h) \/ Closes(h)

UserActs ==
  \/ \E p \in Press : PressesStart(p) \/ PressesSend(p) \/ PressesStop(p)
  \/ \E p \in Press, m \in Model : PicksModel(p, m) \/ SelectsModel(p, m)
  \/ Reopens

Next ==
  \/ UserActs
  \/ \E p \in Press : PressStep(p) \/ HandleStep(p)

Spec == Init /\ [][Next]_vars

-----------------------------------------------------------------------------
(* Properties *)

\* A server of this handle runs, or will when Start is taken out of the channel.
Up(h) ==
  \/ handle[h] \in {"loading", "ready", "busy", "closing"}
  \/ handle[h] = "new" /\ Contains(inbox[h], "Start")

\* A server that the app has let go of is being stopped, whatever presses, screens
\* and calls overlap: nobody else could stop it.  A Stop that overtakes the Start of
\* its handle is the exception: the idle actor ignores it.
NoServerLost ==
  \A h \in Press : Up(h) /\ h # serveHandle /\ h \notin overtaken =>
    \/ handle[h] = "closing"
    \/ Contains(inbox[h], "Stop")
    \/ \E p \in Press : pc[p] = "sendStop" /\ on[p] = h

\* One chat server at a time, for a user who waits for the screen to settle.
OneServer == user = "patient" => \A g, h \in Press : Up(g) /\ Up(h) => g = h

\* What the screen shows of the server is true, for such a user and as long as the
\* screen is the first one: off means that there is no handle, ready that there is
\* one, started with the model that is shown as served.
ScreenIsRight ==
  user = "patient" /\ left = {} /\ Settled =>
    /\ status = "off" => serveHandle = NoPress
    /\ status = "ready" => serveHandle # NoPress /\ serveProfile = serving

\* A server is Busy only as long as a request is on its way: no order of requests,
\* stops and crashes leaves it Busy for good.  A request that broke off between its
\* BeginWork and its EndWork is the one exception, until the next one ends.
BusyIsAsked ==
  \A h \in Press : handle[h] = "busy" /\ h \notin unended =>
    \/ Contains(inbox[h], "EndWork")
    \/ \E p \in Press : pc[p] = "asking" /\ on[p] = h

\* Every press comes to its end, whatever it meets: no call waits for ever for a
\* port, for Ready or for Idle; a Stop that overtook its Start apart.
PressesEnd ==
  <>[](\A p \in Press : pc[p] \in {"new", "done"} \/ on[p] \in overtaken)

\* Bridge, actors and screen agree: for a user who waits, one server is up at a
\* time and the screen shows it; Busy is for requests that are on their way, or
\* that broke off before they could say that they are over.
PatientSeesOneServer ==
    /\ TypeOK
    /\ OneServer
    /\ ScreenIsRight
    /\ BusyIsAsked

-----------------------------------------------------------------------------
(* Fairness: the runtime, the isolate and the actors go on as long as there is  *)
(* something to do: calls and continuations run, commands are taken, a cleanup   *)
(* ends (SlotSpec of Lifecycle), timers fire, a request ends, by its own timeout  *)
(* if nothing else.  Nothing is assumed of the server or the user.               *)

Fairness == WF_vars(\E p \in Press : PressStep(p) \/ TakesCommand(p) \/ Closes(p))

FairSpec == Spec /\ Fairness
=============================================================================
