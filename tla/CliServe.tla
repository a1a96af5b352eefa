------------------------------ MODULE CliServe ------------------------------
(***************************************************************************)
(* The two commands of the command line that own a server (main.rs): serve *)
(* start, which follows events, states and Ctrl-C at once, and chat, which *)
(* asks one question.  The actor they command is Lifecycle's, reduced to   *)
(* what its handle shows.  The server is a session of its own and outlives *)
(* the program.                                                            *)
(***************************************************************************)
EXTENDS Naturals, Sequences, FiniteSets

CONSTANTS BusSize,      \* events the broadcast channel holds (256 in the code)
          MaxSamples    \* bound: events besides the change to Ready

ASSUME CliServeAssumption == BusSize \in Nat \ {0} /\ MaxSamples \in Nat

VARIABLES cli,       \* the command, where it is, what it has seen, how it ended
          actor,     \* the state in the watch channel, and whether it changed
          serving,   \* the process of the server exists
          asked,     \* commands sent and not yet handled
          bus,       \* events the program has not read, and whether it lost some
          samples    \* samples left to send

cliServeVars == <<cli, actor, serving, asked, bus, samples>>

Ending == {"open", "own", "early", "lagged", "killed"}
Over(how) == [cli EXCEPT !.at = "over", !.how = how]
Asking(c) == asked' = Append(asked, c)

CliServeInit ==
    /\ cli \in {[cmd |-> c, at |-> "begin", reached |-> FALSE, sawReady |-> FALSE, how |-> "open"] : c \in {"serve", "chat"}}
    /\ actor = [state |-> "Idle", changed |-> FALSE]
    /\ serving = FALSE
    /\ asked = <<>>
    /\ bus = [unread |-> <<>>, lost |-> FALSE]
    /\ samples = MaxSamples

\* Start is sent; the program waits.
SendsStart ==
    /\ cli.at = "begin"
    /\ Asking("Start")
    /\ cli' = [cli EXCEPT !.at = IF cli.cmd = "serve" THEN "loop" ELSE "ready"]
    /\ UNCHANGED <<actor, serving, bus, samples>>

-----------------------------------------------------------------------------
(* The actor and its server. *)

Shows(state) == actor' = [state |-> state, changed |-> TRUE]
Emits(e) == bus' = IF Len(bus.unread) < BusSize THEN [bus EXCEPT !.unread = Append(@, e)]
                   ELSE [bus EXCEPT !.unread = Append(Tail(@), e), !.lost = TRUE]
Takes(c) == asked # <<>> /\ Head(asked) = c /\ asked' = Tail(asked)

ActorStarts ==
    /\ Takes("Start") /\ actor.state = "Idle"
    /\ Shows("Loading") /\ serving' = TRUE
    /\ UNCHANGED <<cli, bus, samples>>
\* No port, no Python or no process: through Spawning and Cleanup to Idle without
\* an await, so that the watch shows Idle again.
ActorStartFails ==
    /\ Takes("Start") /\ actor.state = "Idle"
    /\ Shows("Idle")
    /\ UNCHANGED <<cli, serving, bus, samples>>
ActorReady ==
    /\ actor.state = "Loading" /\ serving
    /\ Shows("Ready") /\ Emits("ready")
    /\ UNCHANGED <<cli, serving, asked, samples>>
ActorWorks ==
    /\ \/ Takes("BeginWork") /\ (IF actor.state = "Ready" THEN Shows("Busy") ELSE UNCHANGED actor)
       \/ Takes("EndWork") /\ (IF actor.state = "Busy" THEN Shows("Ready") ELSE UNCHANGED actor)
    /\ UNCHANGED <<cli, serving, bus, samples>>
\* Stop at any stage ends with the process gone and Idle.
ActorStops ==
    /\ Takes("Stop")
    /\ IF actor.state = "Idle" THEN UNCHANGED <<actor, serving>> ELSE Shows("Idle") /\ serving' = FALSE
    /\ UNCHANGED <<cli, bus, samples>>

\* The server dies, does not get loaded in time, or is aborted by the watchdog.
ActorGivesUp ==
    /\ actor.state # "Idle"
    /\ Shows("Idle") /\ serving' = FALSE
    /\ UNCHANGED <<cli, asked, bus, samples>>
ActorSamples ==
    /\ actor.state # "Idle" /\ samples > 0
    /\ Emits("sample") /\ samples' = samples - 1
    /\ UNCHANGED <<cli, actor, serving, asked>>

-----------------------------------------------------------------------------
(* serve start: the branches of its select!. *)

Looping == cli.cmd = "serve" /\ cli.at = "loop"

HearsEvent ==
    /\ Looping /\ ~bus.lost /\ bus.unread # <<>>
    /\ cli' = [cli EXCEPT !.sawReady = @ \/ Head(bus.unread) = "ready"]
    /\ bus' = [bus EXCEPT !.unread = Tail(@)]
    /\ UNCHANGED <<actor, serving, asked, samples>>
\* An event was lost: recv reports it, and the loop takes it for the end.
HearsLoss ==
    /\ Looping /\ bus.lost
    /\ cli' = Over("lagged")
    /\ UNCHANGED <<actor, serving, asked, bus, samples>>

\* The watch channel shows the last state only; Idle ends the program once
\* another state has been seen.
SeesState ==
    /\ Looping /\ actor.changed
    /\ actor' = [actor EXCEPT !.changed = FALSE]
    /\ cli' = IF actor.state # "Idle" THEN [cli EXCEPT !.reached = TRUE]
              ELSE IF cli.reached THEN Over("own") ELSE cli
    /\ UNCHANGED <<serving, asked, bus, samples>>

\* A plausible fault: the program does not wait for the end of the server.
CtrlCHasty ==
    \/ /\ Looping
       /\ IF cli.sawReady THEN Asking("Stop") /\ cli' = Over("own")
          ELSE UNCHANGED asked /\ cli' = Over("early")
       /\ UNCHANGED <<actor, serving, bus, samples>>
    \/ /\ cli.at # "over" /\ (cli.cmd = "chat" \/ cli.at = "begin")
       /\ cli' = Over("killed")
       /\ UNCHANGED <<actor, serving, asked, bus, samples>>

\* Ctrl-C: the loop of serve start asks for a stop if it has read that the server
\* is ready, and just ends if not; elsewhere the signal ends the program.
CtrlC ==
    \/ /\ Looping
       /\ IF cli.sawReady THEN Asking("Stop") /\ cli' = [cli EXCEPT !.at = "stopping"]
          ELSE UNCHANGED asked /\ cli' = Over("early")
       /\ UNCHANGED <<actor, serving, bus, samples>>
    \/ /\ cli.at # "over" /\ (cli.cmd = "chat" \/ cli.at = "begin")
       /\ cli' = Over("killed")
       /\ UNCHANGED <<actor, serving, asked, bus, samples>>

\* wait_for_state(Idle)
SeesIdle ==
    /\ cli.at = "stopping" /\ actor.state = "Idle"
    /\ cli' = Over("own")
    /\ UNCHANGED <<actor, serving, asked, bus, samples>>

-----------------------------------------------------------------------------
(* chat *)

\* wait_for_state(Ready), with no limit of time, and then for a port, which is
\* withdrawn when the server ends.
SeesReady ==
    /\ cli.at = "ready" /\ actor.state = "Ready"
    /\ cli' = [cli EXCEPT !.at = "port"]
    /\ UNCHANGED <<actor, serving, asked, bus, samples>>
SeesPort ==
    /\ cli.at = "port" /\ actor.state # "Idle"
    /\ Asking("BeginWork")
    /\ cli' = [cli EXCEPT !.at = "answer"]
    /\ UNCHANGED <<actor, serving, bus, samples>>

\* The answer is there, or an error, within 300 s; then the server is stopped.
Answers ==
    /\ cli.at = "answer"
    /\ asked' = asked \o <<"EndWork", "Stop">>
    /\ cli' = [cli EXCEPT !.at = "stopping"]
    /\ UNCHANGED <<actor, serving, bus, samples>>

CliServeStep == SendsStart \/ HearsEvent \/ HearsLoss \/ SeesState \/ SeesIdle \/ SeesReady \/ SeesPort \/ Answers
ActorStep == ActorWorks \/ ActorStops \/ ActorStarts \/ ActorStartFails
\* Without the program there is no actor; its server goes on.
CliServeNext ==
    \/ CliServeStep \/ CtrlC
    \/ cli.at # "over" /\ (ActorStep \/ ActorReady \/ ActorGivesUp \/ ActorSamples)

CliServeSpec ==
    /\ CliServeInit /\ [][CliServeNext]_cliServeVars
    /\ WF_cliServeVars(SeesState) /\ WF_cliServeVars(HearsEvent \/ HearsLoss)
    /\ WF_cliServeVars(SendsStart \/ SeesIdle \/ SeesReady \/ SeesPort \/ Answers)
    /\ WF_cliServeVars(cli.at # "over" /\ ActorStep)
-----------------------------------------------------------------------------
(* Properties. *)

CliServeTypeOK ==
    /\ cli.at \in {"begin", "loop", "ready", "port", "answer", "stopping", "over"}
    /\ cli.how \in Ending /\ (cli.how = "open" <=> cli.at # "over")
    /\ actor.state \in {"Idle", "Loading", "Ready", "Busy"}
    /\ actor.state # "Idle" => serving
    /\ Len(bus.unread) <= BusSize

\* A program that ends by itself, after the server or after stopping it, leaves no
\* server behind.
OwnEndIsClean == cli.how = "own" => ~serving

\* docs/technical-spec.md: on no path is an orphan left.
NoServerLeft == cli.at = "over" => ~serving

\* Once serve start has seen its server active, it does not outlast it.
ServeFollowsServer == []<>(Looping /\ cli.reached => actor.state # "Idle")

\* A chat that has asked its question comes to an end, with an answer or without.
ChatEnds == []<>(cli.at \notin {"answer", "stopping"})

\* A program that runs a server of its own and ends of its own accord has stopped it,
\* whatever it has missed of the actor's events.
OwnServerIsClean ==
    /\ CliServeTypeOK
    /\ OwnEndIsClean
=============================================================================
