------------------------------ MODULE FlowsProofs ------------------------------
(***************************************************************************)
(* Proofs about the small components that MCFlows checks side by side: the *)
(* two commands that own a server (CliServe), the reader of a child's      *)
(* output (ChildOutput), the setup of the environment (Setup), the         *)
(* streaming client (ChatStream), the conversations of the chat screen     *)
(* (Conversations) and the download of a model (Download).  They share no  *)
(* variable; each has an invariant of its own.                             *)
(***************************************************************************)
EXTENDS CliServe, ChildOutput, Setup, ChatStream, Conversations, Download, TLAPS

-----------------------------------------------------------------------------
(* The commands that own a server *)

CliServeTypes ==
  /\ cli \in [cmd : {"serve", "chat"}, reached : BOOLEAN, sawReady : BOOLEAN, how : Ending,
              at : {"begin", "loop", "ready", "port", "answer", "stopping", "over"}]
  /\ actor \in [state : {"Idle", "Loading", "Ready", "Busy"}, changed : BOOLEAN]
  /\ serving \in BOOLEAN
  /\ bus \in [unread : Seq({"ready", "sample"}), lost : BOOLEAN]

\* The watch channel says Idle exactly while there is no server.
IdleIsServerless == (actor.state = "Idle" => ~serving) /\ (actor.state # "Idle" => serving)

CliServeInv ==
  /\ CliServeTypes
  /\ cli.how = "open" <=> cli.at # "over"
  /\ Len(bus.unread) <= BusSize
  /\ IdleIsServerless
  /\ OwnEndIsClean

\* An event that comes in finds room, at the cost of the oldest if there is none.
LEMMA BusKept ==
  ASSUME CliServeTypes, Len(bus.unread) <= BusSize, NEW e \in {"ready", "sample"}, Emits(e)
  PROVE  bus' \in [unread : Seq({"ready", "sample"}), lost : BOOLEAN] /\ Len(bus'.unread) <= BusSize
<1>0. bus \in [unread : Seq({"ready", "sample"}), lost : BOOLEAN] /\ BusSize \in Nat \ {0}
  BY CliServeAssumption DEF CliServeTypes
<1>1. CASE Len(bus.unread) < BusSize
  <2> DEFINE u == Append(bus.unread, e)
  <2>1. bus' = [bus EXCEPT !.unread = u]
    BY <1>1 DEF Emits
  <2>2. u \in Seq({"ready", "sample"}) /\ Len(u) = Len(bus.unread) + 1 /\ Len(bus.unread) \in Nat
    BY <1>0
  <2> HIDE DEF u
  <2>3. bus' \in [unread : Seq({"ready", "sample"}), lost : BOOLEAN] /\ bus'.unread = u
    BY <1>0, <2>1, <2>2
  <2> QED
    BY <1>0, <1>1, <2>2, <2>3
<1>2. CASE ~(Len(bus.unread) < BusSize)
  <2> DEFINE u == Append(Tail(bus.unread), e)
  <2>1. bus' = [bus EXCEPT !.unread = u, !.lost = TRUE]
    BY <1>2 DEF Emits
  <2>2. Len(bus.unread) = BusSize /\ bus.unread # <<>>
    BY <1>0, <1>2
  <2>3. u \in Seq({"ready", "sample"}) /\ Len(u) = Len(bus.unread)
    BY <1>0, <2>2
  <2> HIDE DEF u
  <2> QED
    BY <1>0, <2>1, <2>2, <2>3
<1> QED
  BY <1>1, <1>2

LEMMA NextCliTypes == CliServeInv /\ [CliServeNext]_cliServeVars => CliServeTypes' /\ Len(bus'.unread) <= BusSize
<1> SUFFICES ASSUME CliServeInv, [CliServeNext]_cliServeVars
             PROVE  CliServeTypes' /\ Len(bus'.unread) <= BusSize
  OBVIOUS
<1> DEFINE State == {"Idle", "Loading", "Ready", "Busy"}
<1>0. \A s \in State : Shows(s) => actor' \in [state : State, changed : BOOLEAN]
  BY DEF Shows
<1> USE DEF CliServeInv, CliServeTypes, Ending, Over
<1>1. CASE SendsStart \/ SeesReady \/ SeesPort \/ Answers \/ HearsLoss \/ SeesIdle
  BY <1>1 DEF SendsStart, SeesReady, SeesPort, Answers, HearsLoss, SeesIdle
<1>2. CASE HearsEvent
  <2>1. /\ bus' = [bus EXCEPT !.unread = Tail(@)] /\ bus.unread # <<>>
        /\ UNCHANGED <<actor, serving>>
        /\ cli' = [cli EXCEPT !.sawReady = @ \/ Head(bus.unread) = "ready"]
    BY <1>2 DEF HearsEvent
  <2>2. Tail(bus.unread) \in Seq({"ready", "sample"}) /\ Len(Tail(bus.unread)) = Len(bus.unread) - 1
    BY <2>1
  <2>3. BusSize \in Nat /\ Len(bus.unread) \in Nat /\ bus'.unread = Tail(bus.unread)
    BY <2>1, CliServeAssumption
  <2>4. \E ready \in BOOLEAN : cli' = [cli EXCEPT !.sawReady = ready]
    BY <2>1, Zenon
  <2>5. cli' \in [cmd : {"serve", "chat"}, reached : BOOLEAN, sawReady : BOOLEAN, how : Ending,
              at : {"begin", "loop", "ready", "port", "answer", "stopping", "over"}]
    BY <2>4
  <2>6. bus' \in [unread : Seq({"ready", "sample"}), lost : BOOLEAN]
    BY <2>1, <2>2
  <2>7. Len(bus'.unread) <= BusSize
    BY <2>2, <2>3
  <2> QED
    BY <2>1, <2>5, <2>6, <2>7
<1>3. CASE CtrlC
  <2>1. UNCHANGED <<actor, serving, bus>>
    BY <1>3 DEF CtrlC
  <2>2. \/ cli' = [cli EXCEPT !.at = "stopping"]
        \/ \E how \in {"early", "killed"} : cli' = [cli EXCEPT !.at = "over", !.how = how]
    BY <1>3 DEF CtrlC
  <2> QED
    BY <2>1, <2>2
<1>4. CASE SeesState
  BY <1>4 DEF SeesState
<1>5. CASE ActorStarts \/ ActorStartFails \/ ActorWorks \/ ActorStops \/ ActorGivesUp
  <2>1. UNCHANGED <<cli, bus>>
    BY <1>5 DEF ActorStarts, ActorStartFails, ActorWorks, ActorStops, ActorGivesUp
  <2>2. serving' \in BOOLEAN
    BY <1>5 DEF ActorStarts, ActorStartFails, ActorWorks, ActorStops, ActorGivesUp
  <2>3. actor' = actor \/ \E s \in State : Shows(s)
    BY <1>5 DEF ActorStarts, ActorStartFails, ActorWorks, ActorStops, ActorGivesUp
  <2> QED
    BY <1>0, <2>1, <2>2, <2>3
<1>6. CASE ActorReady \/ ActorSamples
  <2>1. bus' \in [unread : Seq({"ready", "sample"}), lost : BOOLEAN] /\ Len(bus'.unread) <= BusSize
    BY <1>6, BusKept DEF ActorReady, ActorSamples
  <2>2. UNCHANGED <<cli, serving>>
    BY <1>6 DEF ActorReady, ActorSamples
  <2>3. actor' = actor \/ Shows("Ready")
    BY <1>6 DEF ActorReady, ActorSamples
  <2> QED
    BY <1>0, <2>1, <2>2, <2>3
<1>7. CASE UNCHANGED cliServeVars
  BY <1>7 DEF cliServeVars
<1> QED
  BY <1>1, <1>2, <1>3, <1>4, <1>5, <1>6, <1>7 DEF CliServeNext, CliServeStep, ActorStep

LEMMA NextCliEnds ==
  CliServeInv /\ [CliServeNext]_cliServeVars
    => (cli.how = "open" <=> cli.at # "over")' /\ IdleIsServerless' /\ OwnEndIsClean'
<1> SUFFICES ASSUME CliServeInv, [CliServeNext]_cliServeVars
             PROVE  (cli.how = "open" <=> cli.at # "over")' /\ IdleIsServerless' /\ OwnEndIsClean'
  OBVIOUS
<1> USE DEF CliServeInv, CliServeTypes, IdleIsServerless, OwnEndIsClean, Over
<1>1. CASE SendsStart \/ SeesReady \/ SeesPort \/ Answers \/ HearsEvent
  BY <1>1 DEF SendsStart, SeesReady, SeesPort, Answers, HearsEvent, Looping
<1>2. CASE HearsLoss
  BY <1>2 DEF HearsLoss, Looping
<1>3. CASE SeesIdle
  BY <1>3 DEF SeesIdle
<1>4. CASE CtrlC
  <2>1. UNCHANGED <<actor, serving>> /\ cli.at # "over" /\ cli.how = "open"
    BY <1>4 DEF CtrlC, Looping
  <2>2. \/ cli' = [cli EXCEPT !.at = "stopping"]
        \/ \E how \in {"early", "killed"} : cli' = [cli EXCEPT !.at = "over", !.how = how]
    BY <1>4 DEF CtrlC
  <2> QED
    BY <2>1, <2>2
<1>5. CASE SeesState
  BY <1>5 DEF SeesState, Looping
<1>6. CASE cli.at # "over" /\ (ActorStep \/ ActorReady \/ ActorGivesUp \/ ActorSamples)
  BY <1>6 DEF ActorStep, ActorStarts, ActorStartFails, ActorWorks, ActorStops, ActorGivesUp, ActorReady,
     ActorSamples, Shows
<1>7. CASE UNCHANGED cliServeVars
  BY <1>7 DEF cliServeVars
<1> QED
  BY <1>1, <1>2, <1>3, <1>4, <1>5, <1>6, <1>7 DEF CliServeNext, CliServeStep

\* A program that ends by itself leaves no server, whatever the bus has lost and however
\* often its server was up before.
THEOREM OwnServersAreClean == CliServeSpec => []OwnServerIsClean
<1>1. CliServeInit => CliServeInv
  <2> SUFFICES ASSUME CliServeInit PROVE CliServeInv
    OBVIOUS
  <2>1. bus \in [unread : Seq({"ready", "sample"}), lost : BOOLEAN] /\ Len(bus.unread) <= BusSize
    BY CliServeAssumption DEF CliServeInit
  <2>2. PICK c \in {"serve", "chat"} :
          cli = [cmd |-> c, at |-> "begin", reached |-> FALSE, sawReady |-> FALSE, how |-> "open"]
    BY DEF CliServeInit
  <2> QED
    BY <2>1, <2>2 DEF CliServeInit, CliServeInv, CliServeTypes, IdleIsServerless, OwnEndIsClean, Ending
<1>3. CliServeInv /\ [CliServeNext]_cliServeVars => CliServeInv'
  BY NextCliTypes, NextCliEnds DEF CliServeInv
<1>2. CliServeInv => OwnServerIsClean
  BY DEF CliServeInv, CliServeTypes, IdleIsServerless, OwnServerIsClean, CliServeTypeOK
<1> QED
  BY <1>1, <1>2, <1>3, PTL DEF CliServeSpec

-----------------------------------------------------------------------------
(* The output of a child *)

ChildTypes ==
  /\ process \in [wants : [Pipe -> 0..MaxLines], wrote : [Pipe -> Nat], state : Exit \cup {"none", "runs"}]
  /\ pipes \in [Pipe -> 0..PipeSize]
  /\ heard \in [lines : [Pipe -> Nat], at : {"off", "over"} \cup Pipe \cup {"status"},
                status : Exit \cup {"none", "error"}]

\* A process that has exited has written all; a pipe that was read to its end is empty
\* and stays so; and a status is told at the end.
EndsInOrder ==
  /\ process.state \in Exit => process.wrote = process.wants
  /\ heard.at \in {"err", "status"} \/ heard.status \in Exit => process.state \in Exit /\ pipes["out"] = 0
  /\ heard.at = "status" \/ heard.status \in Exit => pipes["err"] = 0
  /\ heard.status \in Exit => heard.at = "over"
  /\ heard.at = "off" => process.state = "none" /\ \A p \in Pipe : process.wrote[p] = 0
  /\ heard.at \notin {"off", "over"} => process.state # "none"
  /\ \A p \in Pipe : process.wrote[p] <= process.wants[p]

ChildInv == ChildTypes /\ LinesAreAccounted /\ EndsInOrder

LEMMA NextChild == ChildInv /\ [ChildNext]_childVars => ChildInv'
<1> SUFFICES ASSUME ChildInv, [ChildNext]_childVars PROVE ChildInv'
  OBVIOUS
<1> USE ChildOutputAssumption DEF ChildInv, ChildTypes, LinesAreAccounted, EndsInOrder, Pipe, Exit
<1>1. ASSUME NEW wants \in [Pipe -> 0..MaxLines], SpawnsChild(wants) PROVE ChildInv'
  <2>1. /\ process' = [process EXCEPT !.wants = wants, !.state = "runs"] /\ pipes' = pipes
        /\ heard' = [heard EXCEPT !.at = "out"] /\ heard.at = "off" /\ heard.status \notin Exit
    BY <1>1 DEF SpawnsChild
  <2>2. \A p \in Pipe : process.wrote[p] = 0 /\ process.wrote[p] <= wants[p]
    <3>1. \A p \in Pipe : wants[p] \in 0..MaxLines
      OBVIOUS
    <3>2. \A p \in Pipe : process.wrote[p] = 0
      BY <2>1
    <3>3. \A n \in 0..MaxLines : 0 <= n
      OBVIOUS
    <3> QED
      BY <3>1, <3>2, <3>3
  <2>3. process' \in [wants : [Pipe -> 0..MaxLines], wrote : [Pipe -> Nat], state : Exit \cup {"none", "runs"}]
        /\ process'.wrote = process.wrote /\ process'.wants = wants /\ process'.state = "runs"
    BY <2>1
  <2> QED
    BY <2>1, <2>2, <2>3
<1>2. CASE SpawnFails
  BY <1>2 DEF SpawnFails
<1>3. ASSUME NEW p \in Pipe, WritesLine(p) PROVE ChildInv'
  <2>1. /\ process.state = "runs" /\ process.wrote[p] < process.wants[p] /\ pipes[p] < PipeSize
        /\ process' = [process EXCEPT !.wrote = [process.wrote EXCEPT ![p] = process.wrote[p] + 1]]
        /\ pipes' = [pipes EXCEPT ![p] = pipes[p] + 1] /\ heard' = heard
    BY <1>3 DEF WritesLine
  <2>2. heard.at \in {"off", "over", "out"} /\ heard.status \notin Exit
    BY <2>1
  <2> DEFINE now == [process.wrote EXCEPT ![p] = process.wrote[p] + 1]
  <2>0. now \in [Pipe -> Nat] /\ process' = [process EXCEPT !.wrote = now]
    BY <2>1
  <2> HIDE DEF now
  <2>3. /\ process' \in [wants : [Pipe -> 0..MaxLines], wrote : [Pipe -> Nat],
                          state : Exit \cup {"none", "runs"}]
        /\ pipes' \in [Pipe -> 0..PipeSize]
    BY <2>0, <2>1
  <2>4. \A q \in Pipe : process'.wrote[q] = pipes'[q] + heard.lines[q]
    BY <2>1
  <2>5. \A q \in Pipe : process'.wrote[q] <= process'.wants[q]
    BY <2>1
  <2> QED
    BY <2>1, <2>2, <2>3, <2>4, <2>5
<1>4. ASSUME NEW status \in Exit, Exits(status) PROVE ChildInv'
  BY <1>4 DEF Exits
<1>5. ASSUME NEW p \in Pipe, Hears(p) PROVE ChildInv'
  BY <1>5 DEF Hears
<1>6. ASSUME NEW p \in Pipe, Finishes(p) PROVE ChildInv'
  BY <1>6 DEF Finishes
<1>7. CASE Reports
  BY <1>7 DEF Reports
<1>8. CASE UNCHANGED childVars
  BY <1>8 DEF childVars
<1> QED
  BY <1>1, <1>2, <1>3, <1>4, <1>5, <1>6, <1>7, <1>8 DEF ChildNext, ChildStep

\* Who cannot move waits for the other: the reader for the first pipe, the process for
\* the second one, which is full.
LEMMA ChildStuckIsFull == ChildInv => StuckIsFull
<1> SUFFICES ASSUME ChildInv, heard.at \notin {"off", "over"}, ~ChildMoves
             PROVE  heard.at = "out" /\ pipes["err"] = PipeSize /\ process.wrote["err"] < process.wants["err"]
  BY DEF StuckIsFull
<1>1. /\ heard.at \in {"out", "err", "status"} /\ process.state \in Exit \cup {"runs"}
      /\ heard.at \in {"err", "status"} => process.state \in Exit
  BY DEF ChildInv, ChildTypes, EndsInOrder, Pipe
<1>2. heard.at = "out" /\ pipes["out"] = 0 /\ process.state = "runs"
  BY <1>1 DEF ChildMoves, Pipe, ChildInv, ChildTypes
<1>3. PICK p \in Pipe : process.wrote[p] # process.wants[p]
  <2>1. process.wrote # process.wants
    BY <1>2 DEF ChildMoves
  <2>2. process.wrote \in [Pipe -> Nat] /\ process.wants \in [Pipe -> 0..MaxLines]
    BY DEF ChildInv, ChildTypes
  <2> QED
    BY <2>1, <2>2
<1>4. process.wrote[p] < process.wants[p]
  <2>1. process.wrote[p] <= process.wants[p] /\ process.wrote[p] \in Nat /\ process.wants[p] \in 0..MaxLines
    BY DEF ChildInv, ChildTypes, EndsInOrder
  <2>2. MaxLines \in Nat
    BY ChildOutputAssumption
  <2> QED
    BY <1>3, <2>1, <2>2
<1>5. pipes[p] = PipeSize
  <2>1. pipes[p] \in 0..PipeSize /\ ~(pipes[p] < PipeSize)
    BY <1>2, <1>4 DEF ChildMoves, ChildInv, ChildTypes
  <2> QED
    BY <2>1, ChildOutputAssumption
<1>6. p = "err"
  BY <1>2, <1>5, ChildOutputAssumption DEF Pipe
<1> QED
  BY <1>2, <1>4, <1>5, <1>6

\* No line of a child is lost or told twice, and its status, which is its own, is told
\* after its last line, unless the process waits for the pipe that is not read
\* (bootstrap.rs).
THEOREM OutputIsWhole == ChildSpec => []OutputIsTrue
<1>1. ChildInit => ChildInv
  BY ChildOutputAssumption DEF ChildInit, ChildInv, ChildTypes, LinesAreAccounted, EndsInOrder, Pipe, Exit
<1>2. ChildInv => LinesAreAccounted /\ StatusIsLast
  <2> SUFFICES ASSUME ChildInv, heard.status \in Exit PROVE heard.lines = process.wants
    BY DEF ChildInv, StatusIsLast
  <2>1. process.wrote = process.wants /\ \A p \in Pipe : pipes[p] = 0
    BY DEF ChildInv, EndsInOrder, Pipe
  <2>2. \A p \in Pipe : heard.lines[p] = process.wants[p]
    BY <2>1 DEF ChildInv, ChildTypes, LinesAreAccounted
  <2> QED
    BY <2>2 DEF ChildInv, ChildTypes
<1>3. ChildInv => OutputIsTrue
  BY <1>2, ChildStuckIsFull DEF OutputIsTrue
<1> QED
  BY <1>1, <1>3, NextChild, PTL DEF ChildSpec

-----------------------------------------------------------------------------
(* The setup of the environment *)

SetupTypes ==
  /\ app \in [bundled : BOOLEAN, version : 1..MaxVersion, told : BOOLEAN]
  /\ disk \in [uv : BOOLEAN, adapters : Nat, project : Nat, marker : Nat,
               python : BOOLEAN, packages : SUBSET Backend]
  /\ disk.adapters <= app.version /\ disk.project <= app.version /\ disk.marker <= app.version
  /\ disk.packages # {} => disk.python
  /\ setup \in [Screen -> [at : Stage]]
  /\ mishaps \subseteq Mishap

\* Packages are installed into a venv that is there.
SyncHasVenv == \A s \in Screen : setup[s].at = "packages" => disk.python

\* Only one setup is at work unless two have overlapped.
OneAtATime == "overlap" \notin mishaps => \A s, t \in Running : s = t

\* Sources are copied from a bundle, and the marker is not right before the copy is.
WholeFiles == disk.adapters = app.version /\ disk.project = app.version

CopyFollows ==
  /\ ~app.bundled => WholeFiles /\ app.version = 1
  /\ \A s \in Screen : setup[s].at \in Copying => app.bundled
  /\ "overlap" \notin mishaps =>
       \A s \in Screen :
         /\ setup[s].at \in Copying => ~UpToDate
         /\ setup[s].at \in {"project", "marker"} => disk.adapters = app.version
         /\ setup[s].at = "marker" => disk.project = app.version

\* What a setup has behind it, if nothing went wrong: uv, the sources, the packages.
AfterUv == {"sync", "venv", "python", "create", "packages", "done"} \cup Copying
AfterFiles == {"venv", "python", "create", "packages"}

StagesHold ==
  mishaps = {} =>
    /\ \A s \in Screen :
         /\ setup[s].at \in AfterUv => disk.uv
         /\ setup[s].at \in AfterFiles => WholeFiles
         /\ setup[s].at = "done" => disk.python /\ disk.packages = Backend
    /\ (\A s \in Screen : setup[s].at \notin Copying) =>
         \A s \in Screen : setup[s].at = "done" => WholeFiles
    /\ disk.python /\ (\A s \in Screen : setup[s].at # "packages") => disk.packages = Backend

SetupInv ==
  /\ SetupTypes /\ SyncHasVenv /\ OneAtATime /\ CopyFollows /\ UpToDateIsTrue /\ StagesHold

\* A setup goes on by itself.
LEMMA SetupMoves ==
  ASSUME SetupTypes, NEW s \in Screen, NEW to \in Stage, Goes(s, to)
  PROVE  /\ setup' \in [Screen -> [at : Stage]]
         /\ setup'[s].at = to
         /\ \A t \in Screen \ {s} : setup'[t].at = setup[t].at
BY DEF SetupTypes, Goes

\* What a step of a setup is: where it comes from and where it goes.
LEMMA SetupSteps ==
  ASSUME SetupTypes, NEW s \in Screen, SetupStep(s)
  PROVE  /\ setup[s].at \notin Ended /\ UNCHANGED app /\ mishaps \subseteq mishaps'
         /\ \E to \in Stage : Goes(s, to)
<1> USE DEF Stage, Ended, Copying, Advances
<1>1. CASE FindsUv(s) \/ ChecksFiles(s) \/ Copies(s) \/ CopyFails(s)
  BY <1>1 DEF FindsUv, ChecksFiles, Copies, CopyFails
<1>2. CASE ChecksVenv(s) \/ CreatesVenv(s)
  BY <1>2 DEF ChecksVenv, CreatesVenv
<1>3. ASSUME NEW good \in BOOLEAN, ScriptEnds(s, good) \/ PythonEnds(s, good)
      PROVE  /\ setup[s].at \notin Ended /\ UNCHANGED app /\ mishaps \subseteq mishaps'
             /\ \E to \in Stage : Goes(s, to)
  BY <1>3 DEF ScriptEnds, PythonEnds
<1>4. ASSUME NEW got \in SUBSET Backend, SyncEnds(s, got)
      PROVE  /\ setup[s].at \notin Ended /\ UNCHANGED app /\ mishaps \subseteq mishaps'
             /\ \E to \in Stage : Goes(s, to)
  BY <1>4 DEF SyncEnds
<1> QED
  BY <1>1, <1>2, <1>3, <1>4 DEF SetupStep

LEMMA NextOneAtATime == SetupTypes /\ OneAtATime /\ [SetupNext]_setupVars => OneAtATime'
<1> SUFFICES ASSUME SetupTypes, OneAtATime, [SetupNext]_setupVars PROVE OneAtATime'
  OBVIOUS
<1>1. ASSUME NEW s \in Screen, Begins(s) PROVE OneAtATime'
  <2>1. /\ setup'[s].at = "uv" /\ \A t \in Screen \ {s} : setup'[t].at = setup[t].at
    BY <1>1, SetupMoves DEF Begins, Stage
  <2>2. "overlap" \notin mishaps' => Running = {}
    BY <1>1 DEF Begins
  <2>3. Running = {} => Running' \subseteq {s}
    BY <2>1 DEF Running
  <2> QED
    BY <2>2, <2>3 DEF OneAtATime
<1>2. ASSUME NEW s \in Screen, SetupStep(s) PROVE OneAtATime'
  <2>1. setup[s].at \notin Ended /\ mishaps \subseteq mishaps'
    BY <1>2, SetupSteps
  <2>2. \A t \in Screen \ {s} : setup'[t].at = setup[t].at
    BY <1>2, SetupSteps, SetupMoves
  <2>3. Running' \subseteq Running
    BY <2>1, <2>2 DEF Running
  <2> QED
    BY <2>1, <2>3 DEF OneAtATime
<1>3. ASSUME NEW item \in Missing, NEW good \in BOOLEAN, RunsFix(item, good) PROVE OneAtATime'
  BY <1>3 DEF RunsFix, OneAtATime, Running
<1>4. ASSUME NEW later \in BOOLEAN, NEW got \in SUBSET Backend, Quits(later, got) PROVE OneAtATime'
  BY <1>4 DEF Quits, OneAtATime, Running, Ended
<1>5. CASE UNCHANGED setupVars
  BY <1>5 DEF setupVars, OneAtATime, Running
<1> QED
  BY <1>1, <1>2, <1>3, <1>4, <1>5 DEF SetupNext

LEMMA NextSetupTypes ==
  SetupTypes /\ SyncHasVenv /\ CopyFollows /\ [SetupNext]_setupVars => SetupTypes' /\ SyncHasVenv'
<1> SUFFICES ASSUME SetupTypes, SyncHasVenv, CopyFollows, [SetupNext]_setupVars
             PROVE  SetupTypes' /\ SyncHasVenv'
  OBVIOUS
<1> DEFINE Apps == [bundled : BOOLEAN, version : 1..MaxVersion, told : BOOLEAN]
           Disks == [uv : BOOLEAN, adapters : Nat, project : Nat, marker : Nat,
                     python : BOOLEAN, packages : SUBSET Backend]
           DiskOK == /\ disk \in Disks
                     /\ disk.adapters <= app.version /\ disk.project <= app.version
                     /\ disk.marker <= app.version
                     /\ disk.packages # {} => disk.python
<1>0. /\ app \in Apps /\ DiskOK /\ setup \in [Screen -> [at : Stage]] /\ mishaps \subseteq Mishap
      /\ \A s \in Screen : setup[s].at = "packages" => disk.python
  BY DEF SetupTypes, SyncHasVenv
<1>1. ASSUME app' \in Apps, DiskOK', setup' \in [Screen -> [at : Stage]], mishaps' \subseteq Mishap,
             \A s \in Screen : setup'[s].at = "packages" => disk'.python
      PROVE  SetupTypes' /\ SyncHasVenv'
  BY <1>1 DEF SetupTypes, SyncHasVenv
\* A setup goes on: it is enough to look at the disk and, at "packages", at its venv.
<1>2. ASSUME NEW s \in Screen, NEW to \in Stage, Goes(s, to), app' = app, DiskOK', mishaps' \subseteq Mishap,
             disk.python => disk'.python, to = "packages" => disk'.python
      PROVE  SetupTypes' /\ SyncHasVenv'
  <2>1. /\ setup' \in [Screen -> [at : Stage]]
        /\ setup'[s].at = to
        /\ \A t \in Screen \ {s} : setup'[t].at = setup[t].at
    BY <1>2, SetupMoves
  <2>2. \A t \in Screen : setup'[t].at = "packages" => disk'.python
    BY <1>0, <1>2, <2>1
  <2> QED
    BY <1>0, <1>1, <1>2, <2>1, <2>2
<1>3. ASSUME NEW s \in Screen, Begins(s) \/ FindsUv(s) \/ CopyFails(s) \/ ChecksVenv(s)
      PROVE  SetupTypes' /\ SyncHasVenv'
  <2>1. /\ UNCHANGED <<app, disk>> /\ mishaps' \subseteq Mishap
        /\ \E to \in Stage \ {"packages"} : Goes(s, to)
    BY <1>0, <1>3 DEF Begins, FindsUv, CopyFails, ChecksVenv, Advances, Stage, Ended, Copying, Mishap
  <2> QED
    BY <1>0, <1>2, <2>1
<1>4. ASSUME NEW s \in Screen, ChecksFiles(s) PROVE SetupTypes' /\ SyncHasVenv'
  <2>1. UNCHANGED <<app, mishaps>> /\ \E to \in Stage \ {"packages"} : Goes(s, to)
    BY <1>4 DEF ChecksFiles, Advances, Stage, Ended, Copying
  <2>2. disk' = disk \/ disk' = [disk EXCEPT !.adapters = NoFile]
    BY <1>0, <1>4 DEF ChecksFiles
  <2>3. DiskOK' /\ disk'.python = disk.python
    BY <1>0, <2>1, <2>2 DEF NoFile
  <2> QED
    BY <1>0, <1>2, <2>1, <2>3
<1>5. ASSUME NEW s \in Screen, Copies(s) PROVE SetupTypes' /\ SyncHasVenv'
  <2>1. UNCHANGED <<app, mishaps>> /\ \E to \in Stage \ {"packages"} : Goes(s, to)
    BY <1>5 DEF Copies, Advances, Stage, Ended, Copying
  <2>2. \E m \in {disk.marker, app.version} :
          \/ disk' = [disk EXCEPT !.adapters = app.version, !.project = NoFile]
          \/ disk' = [disk EXCEPT !.project = app.version]
          \/ disk' = [disk EXCEPT !.marker = m]
    BY <1>5 DEF Copies
  <2>3. app.version \in Nat
    BY <1>0
  <2>4. DiskOK' /\ disk'.python = disk.python
    <3>1. CASE disk' = [disk EXCEPT !.adapters = app.version, !.project = NoFile]
      <4>1. disk' \in Disks
        BY <1>0, <3>1, <2>3 DEF NoFile
      <4>2. /\ disk'.adapters = app.version /\ disk'.project = 0 /\ disk'.marker = disk.marker
            /\ disk'.python = disk.python /\ disk'.packages = disk.packages
        BY <1>0, <3>1 DEF NoFile
      <4> QED
        BY <1>0, <2>1, <2>3, <4>1, <4>2
    <3>2. CASE disk' = [disk EXCEPT !.project = app.version]
      BY <1>0, <2>1, <3>2, <2>3
    <3>3. ASSUME NEW m \in {disk.marker, app.version}, disk' = [disk EXCEPT !.marker = m]
          PROVE  DiskOK' /\ disk'.python = disk.python
      BY <1>0, <2>1, <3>3, <2>3
    <3> QED
      BY <2>2, <3>1, <3>2, <3>3
  <2> QED
    BY <1>0, <1>2, <2>1, <2>4
<1>6. ASSUME NEW s \in Screen, CreatesVenv(s) PROVE SetupTypes' /\ SyncHasVenv'
  <2>1. UNCHANGED <<app, mishaps>>
    BY <1>6 DEF CreatesVenv
  <2>2. disk' = [disk EXCEPT !.python = disk.python \/ disk.project # NoFile]
    BY <1>6 DEF CreatesVenv
  <2>3. Goes(s, IF disk.project = NoFile THEN "failed" ELSE "packages")
    BY <1>6 DEF CreatesVenv, Advances
  <2>4. \E venv \in BOOLEAN : /\ disk' = [disk EXCEPT !.python = venv]
                              /\ disk.python => venv
                              /\ disk.project # NoFile => venv
    BY <2>2, Zenon
  <2>5. DiskOK' /\ (disk.python => disk'.python) /\ (disk.project # NoFile => disk'.python)
    BY <1>0, <2>1, <2>4
  <2>6. CASE disk.project = NoFile
    BY <1>0, <1>2, <2>1, <2>3, <2>5, <2>6 DEF Stage, Ended
  <2>7. CASE disk.project # NoFile
    BY <1>0, <1>2, <2>1, <2>3, <2>5, <2>7 DEF Stage
  <2> QED
    BY <2>6, <2>7
<1>7. ASSUME NEW s \in Screen, NEW good \in BOOLEAN, ScriptEnds(s, good) \/ PythonEnds(s, good)
      PROVE  SetupTypes' /\ SyncHasVenv'
  <2>1. UNCHANGED <<app, mishaps>> /\ \E to \in Stage \ {"packages"} : Goes(s, to)
    BY <1>7 DEF ScriptEnds, PythonEnds, Advances, Stage, Ended
  <2>2. disk' = disk \/ disk' = [disk EXCEPT !.uv = disk.uv \/ good]
    BY <1>7 DEF ScriptEnds, PythonEnds
  <2>3. \E uv \in BOOLEAN : disk' = [disk EXCEPT !.uv = uv]
    BY <1>0, <2>2
  <2>4. DiskOK' /\ disk'.python = disk.python
    BY <1>0, <2>1, <2>3
  <2> QED
    BY <1>0, <1>2, <2>1, <2>4
<1>8. ASSUME NEW s \in Screen, NEW got \in SUBSET Backend, SyncEnds(s, got) PROVE SetupTypes' /\ SyncHasVenv'
  <2>1. /\ UNCHANGED app /\ setup[s].at = "packages" /\ mishaps' \subseteq Mishap
        /\ \E to \in Stage \ {"packages"} : Goes(s, to)
    BY <1>0, <1>8 DEF SyncEnds, Advances, Stage, Ended, Mishap
  <2>2. disk' = [disk EXCEPT !.packages = disk.packages \cup got] /\ disk.python
    BY <1>0, <1>8, <2>1 DEF SyncEnds
  <2>3. DiskOK' /\ disk'.python
    BY <1>0, <2>1, <2>2
  <2> QED
    BY <1>0, <1>2, <2>1, <2>3
<1>9. ASSUME NEW item \in Missing, NEW good \in BOOLEAN, RunsFix(item, good) PROVE SetupTypes' /\ SyncHasVenv'
  <2>1. UNCHANGED <<app, setup>> /\ mishaps' \subseteq Mishap
    BY <1>0, <1>9 DEF RunsFix, Mishap
  <2> DEFINE kept == {b \in Backend : ExtraOf[b] = FixOf(item)}
  <2>2. \/ disk' = [disk EXCEPT !.uv = good]
        \/ good /\ disk' = [disk EXCEPT !.python = TRUE, !.packages = kept]
        \/ ~good /\ disk' = disk
    <3>1. CASE FixOf(item) = "brew"
      BY <1>9, <3>1 DEF RunsFix
    <3>2. CASE FixOf(item) # "brew" /\ good
      <4>1. disk' = [disk EXCEPT !.python = disk.python \/ good, !.packages = IF good THEN kept ELSE disk.packages]
        BY <1>9, <3>2 DEF RunsFix
      <4> QED
        BY <1>0, <3>2, <4>1
    <3>3. CASE FixOf(item) # "brew" /\ ~good
      <4>1. disk' = [disk EXCEPT !.python = disk.python \/ good, !.packages = IF good THEN kept ELSE disk.packages]
        BY <1>9, <3>3 DEF RunsFix
      <4> QED
        BY <1>0, <3>3, <4>1
    <3> QED
      BY <3>1, <3>2, <3>3
  <2> HIDE DEF kept
  <2>3. kept \in SUBSET Backend
    BY DEF kept
  <2>4. DiskOK' /\ (disk.python => disk'.python)
    BY <1>0, <2>1, <2>2, <2>3
  <2> QED
    BY <1>0, <1>1, <2>1, <2>4
<1>10. ASSUME NEW later \in BOOLEAN, NEW got \in SUBSET Backend, Quits(later, got)
       PROVE  SetupTypes' /\ SyncHasVenv'
  <2>1. /\ setup' = [s \in Screen |-> [at |-> "off"]] /\ mishaps' \subseteq Mishap
    BY <1>0, <1>10 DEF Quits, Mishap
  <2>2. /\ app' \in Apps /\ app'.version >= app.version
    <3>1. PICK told \in BOOLEAN :
            app' = [app EXCEPT !.version = IF later THEN app.version + 1 ELSE app.version,
                               !.told = IF later THEN told ELSE app.told]
      BY <1>10 DEF Quits
    <3>2. CASE later
      <4>1. app' = [app EXCEPT !.version = app.version + 1, !.told = told] /\ app.version < MaxVersion
        BY <1>10, <3>1, <3>2 DEF Quits
      <4>2. app.version + 1 \in 1..MaxVersion
        BY <1>0, <4>1, SetupAssumption
      <4>3. app' \in Apps /\ app'.version = app.version + 1
        BY <1>0, <4>1, <4>2
      <4> QED
        BY <1>0, <4>3
    <3>3. CASE ~later
      <4>1. app' = [app EXCEPT !.version = app.version, !.told = app.told]
        BY <3>1, <3>3
      <4>2. app' = app
        BY <1>0, <4>1
      <4> QED
        BY <1>0, <4>2
    <3> QED
      BY <3>2, <3>3
  <2>3. \/ disk' = disk
        \/ disk.python /\ disk' = [disk EXCEPT !.packages = disk.packages \cup got]
    BY <1>0, <1>10 DEF Quits
  <2>4. DiskOK'
    BY <1>0, <2>2, <2>3
  <2>5. setup' \in [Screen -> [at : Stage]] /\ \A s \in Screen : setup'[s].at = "off"
    BY <2>1 DEF Stage, Ended
  <2> QED
    BY <1>1, <2>1, <2>2, <2>4, <2>5
<1>11. CASE UNCHANGED setupVars
  BY <1>0, <1>1, <1>11 DEF setupVars
<1> QED
  BY <1>3, <1>4, <1>5, <1>6, <1>7, <1>8, <1>9, <1>10, <1>11 DEF SetupNext, SetupStep


\* What a step does not touch stays true: the sources, the app, and who copies.
LEMMA QuietSetup ==
  ASSUME CopyFollows, UpToDateIsTrue, app' = app, mishaps \subseteq mishaps',
         disk'.adapters = disk.adapters, disk'.project = disk.project, disk'.marker = disk.marker,
         \A t \in Screen : setup'[t].at \in Copying => setup'[t].at = setup[t].at
  PROVE  CopyFollows' /\ UpToDateIsTrue'
<1>1. (WholeFiles' <=> WholeFiles) /\ (UpToDate' <=> UpToDate)
  BY DEF WholeFiles, UpToDate
<1>2. "overlap" \notin mishaps' => "overlap" \notin mishaps
  OBVIOUS
<1>3. UpToDateIsTrue'
  BY <1>1, <1>2 DEF UpToDateIsTrue, UpToDate
<1>4. CopyFollows'
  BY <1>1, <1>2 DEF CopyFollows, Copying
<1> QED
  BY <1>3, <1>4

\* The copy of one screen, whose files nobody else touches unless two overlap.
LEMMA NextCopy ==
  /\ SetupTypes /\ OneAtATime /\ CopyFollows /\ UpToDateIsTrue /\ [SetupNext]_setupVars
  => CopyFollows' /\ UpToDateIsTrue'
<1> SUFFICES ASSUME SetupTypes, OneAtATime, CopyFollows, UpToDateIsTrue, [SetupNext]_setupVars
             PROVE  CopyFollows' /\ UpToDateIsTrue'
  OBVIOUS
<1>0. /\ app \in [bundled : BOOLEAN, version : 1..MaxVersion, told : BOOLEAN]
      /\ disk \in [uv : BOOLEAN, adapters : Nat, project : Nat, marker : Nat,
                   python : BOOLEAN, packages : SUBSET Backend]
      /\ disk.marker <= app.version
  BY DEF SetupTypes
<1>1. ASSUME NEW s \in Screen, NEW to \in Stage \ Copying, Goes(s, to), app' = app, mishaps \subseteq mishaps',
             disk'.adapters = disk.adapters, disk'.project = disk.project, disk'.marker = disk.marker
      PROVE  CopyFollows' /\ UpToDateIsTrue'
  <2>1. /\ setup'[s].at = to
        /\ \A t \in Screen \ {s} : setup'[t].at = setup[t].at
    BY <1>1, SetupMoves
  <2>2. \A t \in Screen : setup'[t].at \in Copying => setup'[t].at = setup[t].at
    BY <1>1, <2>1
  <2> QED
    BY <1>1, <2>2, QuietSetup
<1>2. ASSUME NEW s \in Screen, Begins(s) \/ FindsUv(s) \/ CopyFails(s) \/ ChecksVenv(s)
      PROVE  CopyFollows' /\ UpToDateIsTrue'
  <2>1. /\ UNCHANGED <<app, disk>> /\ mishaps \subseteq mishaps'
        /\ \E to \in Stage \ Copying : Goes(s, to)
    BY <1>2 DEF Begins, FindsUv, CopyFails, ChecksVenv, Advances, Stage, Ended, Copying
  <2> QED
    BY <1>1, <2>1
<1>3. ASSUME NEW s \in Screen, CreatesVenv(s) PROVE CopyFollows' /\ UpToDateIsTrue'
  <2>1. UNCHANGED <<app, mishaps>> /\ \E to \in Stage \ Copying : Goes(s, to)
    BY <1>3 DEF CreatesVenv, Advances, Stage, Ended, Copying
  <2>2. disk'.adapters = disk.adapters /\ disk'.project = disk.project /\ disk'.marker = disk.marker
    BY <1>0, <1>3 DEF CreatesVenv
  <2> QED
    BY <1>1, <2>1, <2>2
<1>4. ASSUME NEW s \in Screen, NEW good \in BOOLEAN, ScriptEnds(s, good) \/ PythonEnds(s, good)
      PROVE  CopyFollows' /\ UpToDateIsTrue'
  <2>1. UNCHANGED <<app, mishaps>> /\ \E to \in Stage \ Copying : Goes(s, to)
    BY <1>4 DEF ScriptEnds, PythonEnds, Advances, Stage, Ended, Copying
  <2>2. disk'.adapters = disk.adapters /\ disk'.project = disk.project /\ disk'.marker = disk.marker
    BY <1>0, <1>4 DEF ScriptEnds, PythonEnds
  <2> QED
    BY <1>1, <2>1, <2>2
<1>5. ASSUME NEW s \in Screen, NEW got \in SUBSET Backend, SyncEnds(s, got)
      PROVE  CopyFollows' /\ UpToDateIsTrue'
  <2>1. UNCHANGED app /\ mishaps \subseteq mishaps' /\ \E to \in Stage \ Copying : Goes(s, to)
    BY <1>5 DEF SyncEnds, Advances, Stage, Ended, Copying
  <2>2. disk'.adapters = disk.adapters /\ disk'.project = disk.project /\ disk'.marker = disk.marker
    BY <1>0, <1>5 DEF SyncEnds
  <2> QED
    BY <1>1, <2>1, <2>2
<1>6. ASSUME NEW item \in Missing, NEW good \in BOOLEAN, RunsFix(item, good)
      PROVE  CopyFollows' /\ UpToDateIsTrue'
  <2>1. UNCHANGED <<app, setup>> /\ mishaps \subseteq mishaps'
    BY <1>6 DEF RunsFix
  <2>2. disk'.adapters = disk.adapters /\ disk'.project = disk.project /\ disk'.marker = disk.marker
    BY <1>0, <1>6 DEF RunsFix
  <2> QED
    BY <2>1, <2>2, QuietSetup
<1>7. CASE UNCHANGED setupVars
  <2>1. UNCHANGED <<app, disk, setup, mishaps>>
    BY <1>7 DEF setupVars
  <2> QED
    BY <2>1, QuietSetup
\* The copy begins: the marker is not right, and stays so while the files change.
<1>8. ASSUME NEW s \in Screen, ChecksFiles(s) PROVE CopyFollows' /\ UpToDateIsTrue'
  <2>0. UNCHANGED <<app, mishaps>> /\ setup[s].at = "sync"
    BY <1>8 DEF ChecksFiles, Advances
  <2>1. CASE ~app.bundled \/ UpToDate
    <3>1. Goes(s, "venv") /\ disk' = [disk EXCEPT !.adapters = disk.adapters]
      BY <1>8, <2>1 DEF ChecksFiles, Advances
    <3> QED
      BY <1>0, <1>1, <2>0, <3>1 DEF Stage, Ended, Copying
  <2>2. CASE app.bundled /\ ~UpToDate
    <3>1. Goes(s, "adapters") /\ disk' = [disk EXCEPT !.adapters = NoFile]
      BY <1>8, <2>2 DEF ChecksFiles, Advances
    <3>2. setup'[s].at = "adapters" /\ \A t \in Screen \ {s} : setup'[t].at = setup[t].at
      BY <3>1, SetupMoves DEF Stage, Copying
    <3>3. app' = app /\ disk'.marker = disk.marker /\ ~UpToDate'
      BY <1>0, <2>0, <2>2, <3>1 DEF UpToDate
    <3>4. "overlap" \notin mishaps => \A t \in Screen \ {s} : setup[t].at \in Ended
      BY <2>0 DEF OneAtATime, Running, Ended
    <3>5. \A t \in Screen : setup'[t].at \in Copying => app'.bundled
      BY <2>2, <3>3
    <3>6. "overlap" \notin mishaps =>
            \A t \in Screen : setup'[t].at \notin {"project", "marker"}
      BY <3>2, <3>4 DEF Ended
    <3>7. CopyFollows'
      BY <2>0, <2>2, <3>3, <3>5, <3>6 DEF CopyFollows
    <3> QED
      BY <3>3, <3>7 DEF UpToDateIsTrue
  <2> QED
    BY <2>1, <2>2
<1>9. ASSUME NEW s \in Screen, Copies(s) PROVE CopyFollows' /\ UpToDateIsTrue'
  <2>0. UNCHANGED <<app, mishaps>> /\ setup[s].at \in Copying /\ app.bundled
    BY <1>9 DEF Copies, Advances, CopyFollows, Copying
  <2>1. "overlap" \notin mishaps =>
          ~UpToDate /\ \A t \in Screen \ {s} : setup[t].at \in Ended
    BY <2>0 DEF OneAtATime, Running, Ended, Copying, CopyFollows
  <2>2. CASE setup[s].at = "adapters"
    <3>1. Goes(s, "project") /\ disk' = [disk EXCEPT !.adapters = app.version, !.project = NoFile]
      BY <1>9, <2>2 DEF Copies, Advances
    <3>2. setup'[s].at = "project" /\ \A t \in Screen \ {s} : setup'[t].at = setup[t].at
      BY <3>1, SetupMoves DEF Stage, Copying
    <3>3. disk'.marker = disk.marker /\ disk'.adapters = app'.version
      BY <1>0, <2>0, <3>1
    <3>4. UpToDate' <=> UpToDate
      BY <2>0, <3>3 DEF UpToDate
    <3>5. "overlap" \notin mishaps => \A t \in Screen : setup'[t].at # "marker"
      BY <2>1, <3>2 DEF Ended
    <3>6. CopyFollows'
      BY <2>0, <2>1, <3>3, <3>4, <3>5 DEF CopyFollows
    <3> QED
      BY <2>0, <2>1, <3>4, <3>6 DEF UpToDateIsTrue
  <2>3. CASE setup[s].at = "project"
    <3>1. Goes(s, "marker") /\ disk' = [disk EXCEPT !.project = app.version]
      BY <1>9, <2>3 DEF Copies, Advances
    <3>2. setup'[s].at = "marker" /\ \A t \in Screen \ {s} : setup'[t].at = setup[t].at
      BY <3>1, SetupMoves DEF Stage, Copying
    <3>3. disk'.marker = disk.marker /\ disk'.adapters = disk.adapters /\ disk'.project = app'.version
      BY <1>0, <2>0, <3>1
    <3>4. UpToDate' <=> UpToDate
      BY <2>0, <3>3 DEF UpToDate
    <3>5. "overlap" \notin mishaps => disk'.adapters = app'.version
      BY <2>0, <2>3, <3>3 DEF CopyFollows
    <3>6. CopyFollows'
      BY <2>0, <2>1, <3>3, <3>4, <3>5 DEF CopyFollows
    <3> QED
      BY <2>0, <2>1, <3>4, <3>6 DEF UpToDateIsTrue
  <2>4. CASE setup[s].at = "marker"
    <3>1. Goes(s, "venv")
      BY <1>9, <2>4 DEF Copies, Advances
    <3>2. setup'[s].at = "venv" /\ \A t \in Screen \ {s} : setup'[t].at = setup[t].at
      BY <3>1, SetupMoves DEF Stage, Copying
    <3>3. disk'.adapters = disk.adapters /\ disk'.project = disk.project
      BY <1>0, <1>9, <2>4 DEF Copies, Advances
    <3>4. "overlap" \notin mishaps => WholeFiles'
      BY <2>0, <2>4, <3>3 DEF CopyFollows, WholeFiles
    <3>5. "overlap" \notin mishaps => \A t \in Screen : setup'[t].at \notin Copying
      BY <2>1, <3>2 DEF Ended, Copying
    <3>6. CopyFollows'
      BY <2>0, <3>5 DEF CopyFollows, Copying
    <3> QED
      BY <2>0, <3>4, <3>6 DEF UpToDateIsTrue, WholeFiles
  <2> QED
    BY <2>0, <2>2, <2>3, <2>4 DEF Copying
\* A later version is one that no marker has yet.
<1>10. ASSUME NEW later \in BOOLEAN, NEW got \in SUBSET Backend, Quits(later, got)
       PROVE  CopyFollows' /\ UpToDateIsTrue'
  <2>1. /\ setup' = [t \in Screen |-> [at |-> "off"]] /\ mishaps \subseteq mishaps'
        /\ later => app.bundled
    BY <1>10 DEF Quits
  <2>2. \A t \in Screen : setup'[t].at \notin Copying
    BY <2>1 DEF Copying
  <2>3. disk'.adapters = disk.adapters /\ disk'.project = disk.project /\ disk'.marker = disk.marker
    BY <1>0, <1>10 DEF Quits
  <2>4. PICK told \in BOOLEAN :
          app' = [app EXCEPT !.version = IF later THEN app.version + 1 ELSE app.version,
                             !.told = IF later THEN told ELSE app.told]
    BY <1>10 DEF Quits
  <2>5. CASE ~later
    <3>1. app' = [app EXCEPT !.version = app.version, !.told = app.told]
      BY <2>4, <2>5
    <3>2. app' = app
      BY <1>0, <3>1
    <3> QED
      BY <2>1, <2>2, <2>3, <3>2, QuietSetup
  <2>6. CASE later
    <3>1. app' = [app EXCEPT !.version = app.version + 1, !.told = told]
      BY <2>4, <2>6
    <3>2. app'.bundled /\ app'.version = app.version + 1
      BY <1>0, <2>1, <2>6, <3>1
    <3>3. disk'.marker # app'.version
      BY <1>0, <2>3, <3>2
    <3>4. ~UpToDate'
      BY <3>3 DEF UpToDate
    <3>5. CopyFollows'
      BY <2>2, <3>2 DEF CopyFollows, Copying
    <3> QED
      BY <3>4, <3>5 DEF UpToDateIsTrue
  <2> QED
    BY <2>5, <2>6
<1> QED
  BY <1>2, <1>3, <1>4, <1>5, <1>6, <1>7, <1>8, <1>9, <1>10 DEF SetupNext, SetupStep

\* While nothing has gone wrong the other screens are at rest: what the one that
\* moves leaves behind is all there is to see.
LEMMA StagesOfOne ==
  ASSUME StagesHold, mishaps' = {} => mishaps = {}, NEW s \in Screen,
         mishaps' = {} =>
           /\ \A t \in Screen \ {s} : setup[t].at \in Ended /\ setup'[t].at = setup[t].at
           /\ disk.uv => disk'.uv
           /\ disk.python => disk'.python
           /\ disk.packages = Backend => disk'.packages = Backend
           /\ setup'[s].at \in AfterUv => disk'.uv
           /\ setup'[s].at \in AfterFiles \cup {"done"} => WholeFiles'
           /\ setup'[s].at = "done" => disk'.python /\ disk'.packages = Backend
           /\ setup'[s].at \notin Copying =>
                WholeFiles' \/ (setup[s].at \notin Copying /\ (WholeFiles => WholeFiles'))
           /\ setup'[s].at # "packages" /\ disk'.python => disk'.packages = Backend
  PROVE  StagesHold'
<1> SUFFICES ASSUME mishaps' = {} PROVE StagesHold'
  BY DEF StagesHold
<1>1. \A t \in Screen : setup'[t].at \in AfterUv => disk'.uv
  BY DEF StagesHold, AfterUv, Ended, Copying
<1>2. \A t \in Screen : setup'[t].at \in AfterFiles => WholeFiles'
  BY DEF AfterFiles, Ended
<1>3. \A t \in Screen : setup'[t].at = "done" => disk'.python /\ disk'.packages = Backend
  BY DEF StagesHold
<1>4. ASSUME \A t \in Screen : setup'[t].at \notin Copying, NEW t \in Screen, setup'[t].at = "done"
      PROVE  WholeFiles'
  <2>1. CASE t = s
    BY <1>4, <2>1
  <2>2. CASE t # s /\ ~WholeFiles'
    <3>1. setup[s].at \notin Copying /\ setup[t].at = "done" /\ (WholeFiles => WholeFiles')
      BY <1>4, <2>2
    <3>2. \A u \in Screen : setup[u].at \notin Copying
      BY <3>1 DEF Ended, Copying
    <3> QED
      BY <3>1, <3>2 DEF StagesHold
  <2> QED
    BY <2>1, <2>2
<1>5. ASSUME disk'.python, \A t \in Screen : setup'[t].at # "packages" PROVE disk'.packages = Backend
  BY <1>5
<1> QED
  BY <1>1, <1>2, <1>3, <1>4, <1>5 DEF StagesHold

LEMMA NextStages == SetupInv /\ [SetupNext]_setupVars => StagesHold'
<1> SUFFICES ASSUME SetupTypes, SyncHasVenv, OneAtATime, CopyFollows, UpToDateIsTrue, StagesHold,
                    [SetupNext]_setupVars
             PROVE  StagesHold'
  BY DEF SetupInv
<1> USE DEF Ended, Copying, AfterUv, AfterFiles
<1>0. /\ app \in [bundled : BOOLEAN, version : 1..MaxVersion, told : BOOLEAN]
      /\ disk \in [uv : BOOLEAN, adapters : Nat, project : Nat, marker : Nat,
                   python : BOOLEAN, packages : SUBSET Backend]
  BY DEF SetupTypes
<1>1. ASSUME NEW s \in Screen, SetupStep(s)
      PROVE  /\ app' = app
             /\ mishaps' = {} => mishaps = {} /\ \A t \in Screen \ {s} : setup[t].at \in Ended
             /\ \A t \in Screen \ {s} : setup'[t].at = setup[t].at
  <2>1. setup[s].at \notin Ended /\ app' = app /\ mishaps \subseteq mishaps'
    BY <1>1, SetupSteps
  <2>2. \A t \in Screen \ {s} : setup'[t].at = setup[t].at
    BY <1>1, SetupSteps, SetupMoves
  <2> QED
    BY <2>1, <2>2 DEF OneAtATime, Running
<1>2. ASSUME NEW s \in Screen, Begins(s) PROVE StagesHold'
  <2>1. /\ setup'[s].at = "uv" /\ \A t \in Screen \ {s} : setup'[t].at = setup[t].at
    BY <1>2, SetupMoves DEF Begins, Stage
  <2>2. UNCHANGED <<app, disk>> /\ setup[s].at \in Ended
    BY <1>2 DEF Begins
  <2>3. mishaps' = {} => mishaps = {} /\ Running = {}
    BY <1>2 DEF Begins
  <2>4. WholeFiles' <=> WholeFiles
    BY <2>2 DEF WholeFiles
  <2>5. Running = {} => \A t \in Screen : setup[t].at \in Ended
    BY DEF Running
  <2>6. mishaps' = {} /\ disk.python => disk.packages = Backend
    BY <2>3, <2>5 DEF StagesHold
  <2> QED
    BY <2>1, <2>2, <2>3, <2>4, <2>5, <2>6, StagesOfOne
<1>3. ASSUME NEW s \in Screen, FindsUv(s) PROVE StagesHold'
  <2>1. UNCHANGED <<app, disk, mishaps>> /\ setup[s].at = "uv" /\ Goes(s, IF disk.uv THEN "sync" ELSE "script")
    BY <1>3 DEF FindsUv, Advances
  <2>2. setup'[s].at = IF disk.uv THEN "sync" ELSE "script"
    BY <2>1, SetupMoves DEF Stage
  <2>3. WholeFiles' <=> WholeFiles
    BY <2>1 DEF WholeFiles
  <2>4. /\ mishaps' = {} => mishaps = {} /\ \A t \in Screen \ {s} : setup[t].at \in Ended
        /\ \A t \in Screen \ {s} : setup'[t].at = setup[t].at
    BY <1>1, <1>3 DEF SetupStep
  <2>5. mishaps' = {} /\ disk.python => disk.packages = Backend
    BY <2>1, <2>4 DEF StagesHold
  <2> QED
    BY <2>1, <2>2, <2>3, <2>4, <2>5, StagesOfOne
<1>4. ASSUME NEW s \in Screen, NEW good \in BOOLEAN, ScriptEnds(s, good) PROVE StagesHold'
  <2>1. /\ UNCHANGED <<app, mishaps>> /\ setup[s].at = "script" /\ Goes(s, IF good THEN "sync" ELSE "failed")
        /\ disk' = [disk EXCEPT !.uv = disk.uv \/ good]
    BY <1>4 DEF ScriptEnds, Advances
  <2>2. setup'[s].at = IF good THEN "sync" ELSE "failed"
    BY <2>1, SetupMoves DEF Stage
  <2>3. /\ disk'.python = disk.python /\ disk'.packages = disk.packages
        /\ disk'.adapters = disk.adapters /\ disk'.project = disk.project
    BY <1>0, <2>1
  <2>4. disk'.uv <=> disk.uv \/ good
    BY <1>0, <2>1
  <2>5. WholeFiles' <=> WholeFiles
    BY <2>1, <2>3 DEF WholeFiles
  <2>6. /\ mishaps' = {} => mishaps = {} /\ \A t \in Screen \ {s} : setup[t].at \in Ended
        /\ \A t \in Screen \ {s} : setup'[t].at = setup[t].at
    BY <1>1, <1>4 DEF SetupStep
  <2>7. mishaps' = {} /\ disk.python => disk.packages = Backend
    BY <2>1, <2>6 DEF StagesHold
  <2> QED
    BY <2>1, <2>2, <2>3, <2>4, <2>5, <2>6, <2>7, StagesOfOne
<1>5. ASSUME NEW s \in Screen, ChecksFiles(s) PROVE StagesHold'
  <2>0. UNCHANGED <<app, mishaps>> /\ setup[s].at = "sync"
    BY <1>5 DEF ChecksFiles, Advances
  <2>1. /\ mishaps' = {} => mishaps = {} /\ \A t \in Screen \ {s} : setup[t].at \in Ended
        /\ \A t \in Screen \ {s} : setup'[t].at = setup[t].at
    BY <1>1, <1>5 DEF SetupStep
  <2>2. mishaps' = {} => disk.uv /\ (disk.python => disk.packages = Backend)
    BY <2>0, <2>1 DEF StagesHold
  <2>3. disk'.uv = disk.uv /\ disk'.python = disk.python /\ disk'.packages = disk.packages
    BY <1>0, <1>5 DEF ChecksFiles
  <2>4. CASE ~app.bundled \/ UpToDate
    <3>1. Goes(s, "venv") /\ disk' = [disk EXCEPT !.adapters = disk.adapters]
      BY <1>5, <2>4 DEF ChecksFiles, Advances
    <3>2. setup'[s].at = "venv"
      BY <3>1, SetupMoves DEF Stage
    <3>3. mishaps = {} => WholeFiles
      BY <2>4 DEF CopyFollows, UpToDateIsTrue, WholeFiles
    <3>4. WholeFiles' <=> WholeFiles
      BY <1>0, <2>0, <3>1 DEF WholeFiles
    <3> QED
      BY <2>0, <2>1, <2>2, <2>3, <3>2, <3>3, <3>4, StagesOfOne
  <2>5. CASE app.bundled /\ ~UpToDate
    <3>1. Goes(s, "adapters")
      BY <1>5, <2>5 DEF ChecksFiles, Advances
    <3>2. setup'[s].at = "adapters"
      BY <3>1, SetupMoves DEF Stage
    <3> QED
      BY <2>0, <2>1, <2>2, <2>3, <3>2, StagesOfOne
  <2> QED
    BY <2>4, <2>5
<1>6. ASSUME NEW s \in Screen, Copies(s) PROVE StagesHold'
  <2>0. UNCHANGED <<app, mishaps>> /\ setup[s].at \in Copying
    BY <1>6 DEF Copies, Advances
  <2>1. /\ mishaps' = {} => mishaps = {} /\ \A t \in Screen \ {s} : setup[t].at \in Ended
        /\ \A t \in Screen \ {s} : setup'[t].at = setup[t].at
    BY <1>1, <1>6 DEF SetupStep
  <2>2. mishaps' = {} => disk.uv /\ (disk.python => disk.packages = Backend)
    BY <2>0, <2>1 DEF StagesHold
  <2>3. disk'.uv = disk.uv /\ disk'.python = disk.python /\ disk'.packages = disk.packages
    BY <1>0, <1>6 DEF Copies
  <2>4. CASE setup[s].at \in {"adapters", "project"}
    <3>1. \E to \in {"project", "marker"} : Goes(s, to)
      BY <1>6, <2>4 DEF Copies, Advances
    <3>2. setup'[s].at \in {"project", "marker"}
      BY <3>1, SetupMoves DEF Stage
    <3> QED
      BY <2>0, <2>1, <2>2, <2>3, <3>2, StagesOfOne
  <2>5. CASE setup[s].at = "marker"
    <3>1. Goes(s, "venv") /\ disk'.adapters = disk.adapters /\ disk'.project = disk.project
      BY <1>0, <1>6, <2>5 DEF Copies, Advances
    <3>2. setup'[s].at = "venv"
      BY <3>1, SetupMoves DEF Stage
    <3>3. mishaps = {} => WholeFiles
      BY <2>5 DEF CopyFollows, WholeFiles
    <3>4. WholeFiles' <=> WholeFiles
      BY <2>0, <3>1 DEF WholeFiles
    <3> QED
      BY <2>0, <2>1, <2>2, <2>3, <3>2, <3>3, <3>4, StagesOfOne
  <2> QED
    BY <2>0, <2>4, <2>5
<1>7. ASSUME NEW s \in Screen, CopyFails(s) PROVE StagesHold'
  BY <1>7 DEF CopyFails, StagesHold
<1>8. ASSUME NEW s \in Screen, ChecksVenv(s) PROVE StagesHold'
  <2>0. UNCHANGED <<app, disk, mishaps>> /\ setup[s].at = "venv"
    BY <1>8 DEF ChecksVenv, Advances
  <2>1. /\ mishaps' = {} => mishaps = {} /\ \A t \in Screen \ {s} : setup[t].at \in Ended
        /\ \A t \in Screen \ {s} : setup'[t].at = setup[t].at
    BY <1>1, <1>8 DEF SetupStep
  <2>2. mishaps' = {} => disk.uv /\ WholeFiles /\ (disk.python => disk.packages = Backend)
    BY <2>0, <2>1 DEF StagesHold
  <2>3. Goes(s, IF disk.python THEN "done" ELSE IF disk.uv THEN "python" ELSE "failed")
    BY <1>8 DEF ChecksVenv, Advances
  <2>4. setup'[s].at = IF disk.python THEN "done" ELSE IF disk.uv THEN "python" ELSE "failed"
    BY <2>3, SetupMoves DEF Stage
  <2>5. WholeFiles' <=> WholeFiles
    BY <2>0 DEF WholeFiles
  <2> QED
    BY <2>0, <2>1, <2>2, <2>4, <2>5, StagesOfOne
<1>9. ASSUME NEW s \in Screen, NEW good \in BOOLEAN, PythonEnds(s, good) PROVE StagesHold'
  <2>0. UNCHANGED <<app, disk, mishaps>> /\ setup[s].at = "python" /\ Goes(s, IF good THEN "create" ELSE "failed")
    BY <1>9 DEF PythonEnds, Advances
  <2>1. /\ mishaps' = {} => mishaps = {} /\ \A t \in Screen \ {s} : setup[t].at \in Ended
        /\ \A t \in Screen \ {s} : setup'[t].at = setup[t].at
    BY <1>1, <1>9 DEF SetupStep
  <2>2. mishaps' = {} => disk.uv /\ WholeFiles /\ (disk.python => disk.packages = Backend)
    BY <2>0, <2>1 DEF StagesHold
  <2>4. setup'[s].at \in {"create", "failed"}
    BY <2>0, SetupMoves DEF Stage
  <2>5. WholeFiles' <=> WholeFiles
    BY <2>0 DEF WholeFiles
  <2> QED
    BY <2>0, <2>1, <2>2, <2>4, <2>5, StagesOfOne
<1>10. ASSUME NEW s \in Screen, CreatesVenv(s) PROVE StagesHold'
  <2>0. UNCHANGED <<app, mishaps>> /\ setup[s].at = "create"
    BY <1>10 DEF CreatesVenv, Advances
  <2>1. /\ mishaps' = {} => mishaps = {} /\ \A t \in Screen \ {s} : setup[t].at \in Ended
        /\ \A t \in Screen \ {s} : setup'[t].at = setup[t].at
    BY <1>1, <1>10 DEF SetupStep
  <2>2. mishaps' = {} => disk.uv /\ WholeFiles /\ disk.project # NoFile
    BY <1>0, <2>0, <2>1 DEF StagesHold, WholeFiles, NoFile
  <2>3. /\ Goes(s, IF disk.project = NoFile THEN "failed" ELSE "packages")
        /\ disk' = [disk EXCEPT !.python = disk.python \/ disk.project # NoFile]
    BY <1>10 DEF CreatesVenv, Advances
  <2>4. mishaps' = {} => setup'[s].at = "packages"
    BY <2>2, <2>3, SetupMoves DEF Stage
  <2>5. /\ disk'.uv = disk.uv /\ disk'.packages = disk.packages
        /\ disk'.adapters = disk.adapters /\ disk'.project = disk.project
    BY <1>0, <2>3
  <2>6. disk.python => disk'.python
    BY <1>0, <2>3
  <2>7. WholeFiles' <=> WholeFiles
    BY <2>0, <2>5 DEF WholeFiles
  <2> QED
    BY <2>0, <2>1, <2>2, <2>4, <2>5, <2>6, <2>7, StagesOfOne
<1>11. ASSUME NEW s \in Screen, NEW got \in SUBSET Backend, SyncEnds(s, got) PROVE StagesHold'
  <2>0. /\ app' = app /\ setup[s].at = "packages" /\ Goes(s, IF got = Backend THEN "done" ELSE "failed")
        /\ disk' = [disk EXCEPT !.packages = disk.packages \cup got]
    BY <1>11 DEF SyncEnds, Advances
  <2>1. /\ mishaps' = {} => mishaps = {} /\ \A t \in Screen \ {s} : setup[t].at \in Ended
        /\ \A t \in Screen \ {s} : setup'[t].at = setup[t].at
    BY <1>1, <1>11 DEF SetupStep
  <2>2. mishaps' = {} => disk.uv /\ WholeFiles /\ disk.python
    BY <2>0, <2>1 DEF StagesHold, SyncHasVenv
  <2>3. mishaps' = {} => got = Backend
    BY <1>11 DEF SyncEnds
  <2>4. mishaps' = {} => setup'[s].at = "done" /\ disk'.packages = Backend
    BY <1>0, <2>0, <2>3, SetupMoves DEF Stage
  <2>5. /\ disk'.uv = disk.uv /\ disk'.python = disk.python
        /\ disk'.adapters = disk.adapters /\ disk'.project = disk.project
    BY <1>0, <2>0
  <2>6. WholeFiles' <=> WholeFiles
    BY <2>0, <2>5 DEF WholeFiles
  <2> QED
    BY <2>0, <2>1, <2>2, <2>4, <2>5, <2>6, StagesOfOne
<1>12. ASSUME NEW item \in Missing, NEW good \in BOOLEAN, RunsFix(item, good) PROVE StagesHold'
  BY <1>12 DEF RunsFix, StagesHold
<1>13. ASSUME NEW later \in BOOLEAN, NEW got \in SUBSET Backend, Quits(later, got) PROVE StagesHold'
  <2> SUFFICES ASSUME mishaps' = {} PROVE StagesHold'
    BY DEF StagesHold
  <2>1. /\ setup' = [t \in Screen |-> [at |-> "off"]]
        /\ mishaps = {} /\ \A t \in Screen : setup[t].at # "packages"
    BY <1>13 DEF Quits
  <2>2. disk' = [disk EXCEPT !.packages = disk.packages]
    BY <1>13, <2>1 DEF Quits
  <2>3. disk' = disk
    BY <1>0, <2>2
  <2>4. \A t \in Screen : setup'[t].at = "off"
    BY <2>1
  <2> QED
    BY <2>1, <2>3, <2>4 DEF StagesHold
<1>14. CASE UNCHANGED setupVars
  BY <1>14 DEF setupVars, StagesHold, WholeFiles
<1> QED
  BY <1>2, <1>3, <1>4, <1>5, <1>6, <1>7, <1>8, <1>9, <1>10, <1>11, <1>12, <1>13, <1>14 DEF SetupNext, SetupStep

LEMMA InitSetupInv == SetupInit => SetupInv
<1> SUFFICES ASSUME NEW bundled \in BOOLEAN, NEW told \in BOOLEAN, NEW uv \in BOOLEAN,
                    app = [bundled |-> bundled, version |-> 1, told |-> told],
                    disk = [uv |-> uv, adapters |-> IF bundled THEN NoFile ELSE 1,
                            project |-> IF bundled THEN NoFile ELSE 1,
                            marker |-> NoFile, python |-> FALSE, packages |-> {}],
                    setup = [s \in Screen |-> [at |-> "off"]], mishaps = {}
             PROVE  SetupInv
  BY DEF SetupInit
<1> USE DEF Ended, Copying, NoFile
<1>1. SetupTypes
  BY SetupAssumption DEF SetupTypes, Stage
<1>2. \A s \in Screen : setup[s].at = "off"
  OBVIOUS
<1>3. SyncHasVenv /\ OneAtATime
  BY <1>2 DEF SyncHasVenv, OneAtATime, Running
<1>4. CopyFollows /\ UpToDateIsTrue
  BY <1>2 DEF CopyFollows, UpToDateIsTrue, UpToDate, WholeFiles
<1>5. StagesHold
  BY <1>2 DEF StagesHold, AfterUv, AfterFiles
<1> QED
  BY <1>1, <1>3, <1>4, <1>5 DEF SetupInv

LEMMA SetupInvHolds == SetupSpec => []SetupInv
<1>1. SetupInv /\ [SetupNext]_setupVars => SetupInv'
  BY NextOneAtATime, NextSetupTypes, NextCopy, NextStages DEF SetupInv
<1> QED
  BY InitSetupInv, <1>1, PTL DEF SetupSpec

\* The marker never vouches for torn files or those of another version, and a
\* setup that reports success leaves nothing for the doctor to find, whatever
\* ended early, was closed or was replaced by a later version, unless the mishaps
\* that the property names have happened (bootstrap.rs, env_detect.rs).
THEOREM SetupsAreTrue == SetupSpec => []SetupIsTrue
<1> SUFFICES SetupInv => SetupIsTrue
  BY SetupInvHolds, PTL
<1> SUFFICES ASSUME SetupInv PROVE SetupIsTrue
  OBVIOUS
<1>0. SetupTypes /\ StagesHold /\ UpToDateIsTrue
  BY DEF SetupInv
<1>1. SetupTypeOK
  <2>1. /\ app \in [bundled : BOOLEAN, version : 1..MaxVersion, told : BOOLEAN]
        /\ disk \in [uv : BOOLEAN, adapters : Nat, project : Nat, marker : Nat,
                     python : BOOLEAN, packages : SUBSET Backend]
        /\ disk.adapters <= app.version /\ disk.project <= app.version /\ disk.marker <= app.version
    BY <1>0 DEF SetupTypes
  <2>2. {disk.adapters, disk.project, disk.marker} \subseteq NoFile..app.version
    BY <2>1 DEF NoFile
  <2> QED
    BY <1>0, <2>1, <2>2 DEF SetupTypeOK, SetupTypes
<1>2. DoneIsWhole
  <2> SUFFICES ASSUME NEW s \in Screen, setup[s].at = "done", Running = {}, mishaps = {}
               PROVE  Missing = {} /\ WholeFiles
    BY DEF DoneIsWhole, WholeFiles
  <2>1. \A t \in Screen : setup[t].at \notin Copying
    BY DEF Running, Ended, Copying
  <2>2. disk.uv /\ disk.python /\ disk.packages = Backend /\ WholeFiles
    BY <1>0, <2>1 DEF StagesHold, AfterUv
  <2> QED
    BY <2>2 DEF Missing
<1> QED
  BY <1>0, <1>1, <1>2 DEF SetupIsTrue

-----------------------------------------------------------------------------
(* What the first element leaves, and what a new last one adds *)

LEMMA TailIs ==
  ASSUME NEW S, NEW s \in Seq(S), s # <<>>
  PROVE  /\ Tail(s) \in Seq(S) /\ Len(Tail(s)) = Len(s) - 1 /\ Len(s) \in Nat \ {0}
         /\ Head(s) = s[1] /\ 1 \in DOMAIN s /\ Head(s) \in S
         /\ \A i \in DOMAIN Tail(s) : i \in Nat /\ Tail(s)[i] = s[i + 1] /\ i + 1 \in DOMAIN s /\ i + 1 # 1
         /\ \A i \in DOMAIN s : i # 1 => i - 1 \in DOMAIN Tail(s)
OBVIOUS

LEMMA AppendIs ==
  ASSUME NEW S, NEW s \in Seq(S), NEW e \in S
  PROVE  /\ Append(s, e) \in Seq(S) /\ Len(Append(s, e)) = Len(s) + 1 /\ Len(s) \in Nat
         /\ DOMAIN Append(s, e) = 1 .. Len(s) + 1 /\ DOMAIN s = 1 .. Len(s)
         /\ \A i \in DOMAIN s : Append(s, e)[i] = s[i]
         /\ Append(s, e)[Len(s) + 1] = e /\ Append(s, e) # <<>>
OBVIOUS

-----------------------------------------------------------------------------
(* The streamed answer *)

Ends(s) == {i \in DOMAIN s : ~IsToken(s[i])}
InOrder(s) == \A i \in DOMAIN s : s[i] = i

WireEvent == {Token(i) : i \in 1 .. Answer} \cup {<<"[DONE]">>, <<"closed">>, <<"broken">>}
SinkEvent == {Token(i) : i \in 0 .. Answer} \cup {<<"done">>}

StreamTypes ==
  /\ produced \in 0 .. Answer
  /\ wire \in Seq(WireEvent)
  /\ client \in [at : {"idle", "posting", "reading", "complete", "failed", "over"}, read : Seq(1 .. Answer)]
  /\ channel \in Seq(0 .. Answer)
  /\ listening \in BOOLEAN /\ foreign \in BOOLEAN
  /\ sink \in Seq(SinkEvent)
  /\ text \in Seq(0 .. Answer)
  /\ answer \in [at : {"none", "stored"}, text : Seq(0 .. Answer)]

\* The client reads what the server has sent, in its order; nothing follows the end.
WireFollows ==
  /\ InOrder(client.read)
  /\ \A i \in DOMAIN wire : IsToken(wire[i]) => wire[i][2] = Len(client.read) + i
  /\ \A i \in Ends(wire) : i = Len(wire)
  /\ client.at \in {"idle", "posting", "reading"} /\ Ends(wire) = {}
       => produced = Len(client.read) + Len(wire)

\* The end of the answer is told once, and a complete one has a token.
EndIsOnce ==
  /\ client.at = "idle" => ~listening /\ channel = <<>> /\ sink = <<>> /\ text = <<>> /\ client.read = <<>>
  /\ client.at = "complete" => client.read # <<>>
  /\ client.at # "over" => Ends(sink) = {} /\ answer.at = "none"
  /\ answer.at # "none" => Ends(sink) = {}
  /\ \A i, j \in Ends(sink) : i = j
  /\ \A i \in DOMAIN sink : sink[i] = <<"done">> => client.read # <<>>
  /\ OnlyCompleteIsStored

\* Tokens that the forwarding task has passed on, and those up to place i of the sink.
Told == IF Ends(sink) = {} THEN 0 ELSE 1
Forwarded == Len(text) + Len(sink) - Told
UpTo(i) == Len(text) + i - (IF \E j \in Ends(sink) : j < i THEN 1 ELSE 0)

\* Text, sink and channel hold what was read, one behind the other, whatever
\* place the end has among them.
TokensFollow ==
  /\ InOrder(text) /\ InOrder(answer.text)
  /\ \A i \in DOMAIN sink : IsToken(sink[i]) => sink[i][2] = UpTo(i)
  /\ Forwarded <= Len(client.read)
  /\ listening => /\ Forwarded + Len(channel) = Len(client.read)
                  /\ \A i \in DOMAIN channel : channel[i] = Forwarded + i
  /\ Len(answer.text) <= Len(client.read)

TextFollows == ~foreign => TokensFollow

StreamInv == StreamTypes /\ WireFollows /\ EndIsOnce /\ TextFollows

LEMMA EventIs ==
  /\ \A n : IsToken(Token(n)) /\ Token(n)[2] = n
  /\ ~IsToken(<<"[DONE]">>) /\ ~IsToken(<<"closed">>) /\ ~IsToken(<<"broken">>)
  /\ ~IsToken(<<"done">>)
  /\ \A e \in WireEvent : IsToken(e) => e[2] \in 1 .. Answer
  /\ \A e \in SinkEvent : IsToken(e) => e[2] \in 0 .. Answer
  /\ \A e \in SinkEvent : ~IsToken(e) => e = <<"done">>
BY DEF IsToken, Token, WireEvent, SinkEvent

\* What comes in is appended while the task listens.
LEMMA BroadcastIs ==
  ASSUME channel \in Seq(0 .. Answer), NEW t \in 0 .. Answer, Broadcast(t)
  PROVE  /\ channel' \in Seq(0 .. Answer)
         /\ ~listening => channel' = channel
         /\ listening => /\ Len(channel') = Len(channel) + 1 /\ Len(channel) \in Nat
                         /\ DOMAIN channel' = 1 .. Len(channel) + 1 /\ DOMAIN channel = 1 .. Len(channel)
                         /\ \A i \in DOMAIN channel : channel'[i] = channel[i]
                         /\ channel'[Len(channel) + 1] = t
<1>1. CASE listening
  <2>1. channel' = Append(channel, t)
    BY <1>1 DEF Broadcast
  <2> HIDE DEF Broadcast
  <2> QED
    BY <1>1, <2>1, AppendIs
<1>2. CASE ~listening
  BY <1>2 DEF Broadcast
<1> QED
  BY <1>1, <1>2

LEMMA NextStreamTypes == StreamTypes /\ [StreamNext]_streamVars => StreamTypes'
<1> SUFFICES ASSUME StreamTypes, [StreamNext]_streamVars PROVE StreamTypes'
  OBVIOUS
<1> USE StreamAssumption
<1>0. /\ produced \in 0 .. Answer
      /\ wire \in Seq(WireEvent)
      /\ client \in [at : {"idle", "posting", "reading", "complete", "failed", "over"}, read : Seq(1 .. Answer)]
      /\ channel \in Seq(0 .. Answer)
      /\ listening \in BOOLEAN /\ foreign \in BOOLEAN
      /\ sink \in Seq(SinkEvent)
      /\ text \in Seq(0 .. Answer)
      /\ answer \in [at : {"none", "stored"}, text : Seq(0 .. Answer)]
  BY DEF StreamTypes
<1>1. CASE Starts
  BY <1>0, <1>1 DEF Starts, StreamTypes
<1>2. CASE Accepted
  BY <1>0, <1>2 DEF Accepted, StreamTypes
<1>3. CASE Refused
  BY <1>0, <1>3 DEF Refused, StreamTypes
<1>4. CASE Produces
  <2>1. UNCHANGED <<client, channel, listening, sink, text, answer, foreign>>
    BY <1>4 DEF Produces
  <2>2. \/ produced < Answer /\ produced' = produced + 1 /\ wire' = Append(wire, Token(produced + 1))
        \/ /\ \E e \in {<<"[DONE]">>, <<"closed">>, <<"broken">>} : wire' = Append(wire, e)
           /\ produced' = produced
    BY <1>4 DEF Produces
  <2>3. /\ produced < Answer => produced + 1 \in 0 .. Answer /\ Token(produced + 1) \in WireEvent
        /\ {<<"[DONE]">>, <<"closed">>, <<"broken">>} \subseteq WireEvent
    BY <1>0 DEF WireEvent
  <2>4. wire' \in Seq(WireEvent) /\ produced' \in 0 .. Answer
    <3>1. \A e \in WireEvent : Append(wire, e) \in Seq(WireEvent)
      BY <1>0, AppendIs
    <3> QED
      BY <1>0, <2>2, <2>3, <3>1
  <2> QED
    BY <1>0, <2>1, <2>4 DEF StreamTypes
<1>5. CASE ReadsToken
  <2> DEFINE t == Head(wire)[2]
  <2>1. /\ wire # <<>> /\ IsToken(Head(wire)) /\ Broadcast(t) /\ wire' = Tail(wire)
        /\ client' = [client EXCEPT !.read = Append(client.read, t)]
        /\ UNCHANGED <<produced, listening, sink, text, answer, foreign>>
    BY <1>5 DEF ReadsToken
  <2>2. t \in 1 .. Answer /\ wire' \in Seq(WireEvent)
    BY <1>0, <2>1, TailIs, EventIs
  <2> HIDE DEF t
  <2>3. t \in 0 .. Answer
    BY <2>2
  <2>4. Append(client.read, t) \in Seq(1 .. Answer) /\ channel' \in Seq(0 .. Answer)
    BY <1>0, <2>1, <2>2, <2>3, AppendIs, BroadcastIs
  <2>5. client' \in [at : {"idle", "posting", "reading", "complete", "failed", "over"}, read : Seq(1 .. Answer)]
    BY <1>0, <2>1, <2>4
  <2> QED
    BY <1>0, <2>1, <2>2, <2>4, <2>5 DEF StreamTypes
<1>6. CASE ReadsEnd
  <2>1. /\ wire # <<>> /\ wire' = Tail(wire)
        /\ \E at \in {"failed", "complete"} : client' = [client EXCEPT !.at = at]
        /\ UNCHANGED <<produced, channel, listening, sink, text, answer, foreign>>
    BY <1>6 DEF ReadsEnd
  <2>2. wire' \in Seq(WireEvent)
    BY <1>0, <2>1, TailIs
  <2> QED
    BY <1>0, <2>1, <2>2 DEF StreamTypes
<1>7. CASE TimesOut
  BY <1>0, <1>7 DEF TimesOut, StreamTypes
<1>8. CASE OtherToken
  <2>1. /\ Broadcast(0) /\ foreign' = TRUE
        /\ UNCHANGED <<produced, wire, client, listening, sink, text, answer>>
    BY <1>8 DEF OtherToken, Other
  <2>2. channel' \in Seq(0 .. Answer)
    BY <1>0, <2>1, BroadcastIs
  <2> QED
    BY <1>0, <2>1, <2>2 DEF StreamTypes
<1>9. CASE Forwards
  <2>1. channel # <<>> /\ UNCHANGED <<produced, wire, client, text, answer, foreign>>
    BY <1>9 DEF Forwards
  <2>2. \/ listening' = FALSE /\ channel' = <<>> /\ sink' = sink
        \/ listening' = listening /\ sink' = Append(sink, Token(Head(channel))) /\ channel' = Tail(channel)
    BY <1>9 DEF Forwards
  <2>3. Token(Head(channel)) \in SinkEvent /\ Tail(channel) \in Seq(0 .. Answer)
    BY <1>0, <2>1, TailIs DEF SinkEvent
  <2>4. sink' \in Seq(SinkEvent) /\ channel' \in Seq(0 .. Answer) /\ listening' \in BOOLEAN
    <3>1. Append(sink, Token(Head(channel))) \in Seq(SinkEvent)
      BY <1>0, <2>3, AppendIs
    <3>2. <<>> \in Seq(0 .. Answer)
      OBVIOUS
    <3> QED
      BY <1>0, <2>2, <2>3, <3>1, <3>2
  <2> QED
    BY <1>0, <2>1, <2>4 DEF StreamTypes
<1>10. CASE Returns
  <2>1. /\ client' = [client EXCEPT !.at = "over"]
        /\ sink' = Append(sink, <<"done">>)
        /\ UNCHANGED <<produced, wire, channel, listening, text, answer, foreign>>
    BY <1>10 DEF Returns
  <2>2. <<"done">> \in SinkEvent
    BY DEF SinkEvent
  <2>3. sink' \in Seq(SinkEvent)
    BY <1>0, <2>1, <2>2, AppendIs
  <2> QED
    BY <1>0, <2>1, <2>3 DEF StreamTypes
<1>11. CASE Handles
  <2>1. sink # <<>> /\ sink' = Tail(sink) /\ UNCHANGED <<produced, wire, client, channel, listening, foreign>>
    BY <1>11 DEF Handles
  <2>2. sink' \in Seq(SinkEvent)
    BY <1>0, <2>1, TailIs
  <2>3. CASE IsToken(Head(sink))
    <3>1. text' = Append(text, Head(sink)[2]) /\ answer' = answer
      BY <1>11, <2>3 DEF Handles
    <3>2. text' \in Seq(0 .. Answer)
      BY <1>0, <2>1, <2>3, <3>1, TailIs, EventIs, AppendIs
    <3> QED
      BY <1>0, <2>1, <2>2, <3>1, <3>2 DEF StreamTypes
  <2>4. CASE ~IsToken(Head(sink))
    <3>1. answer' = [at |-> "stored", text |-> text] /\ text' = text
      BY <1>11, <2>4 DEF Handles
    <3> QED
      BY <1>0, <2>1, <2>2, <3>1 DEF StreamTypes
  <2> QED
    BY <2>3, <2>4
<1>12. CASE UNCHANGED streamVars
  BY <1>0, <1>12 DEF streamVars, StreamTypes
<1> QED
  BY <1>1, <1>2, <1>3, <1>4, <1>5, <1>6, <1>7, <1>8, <1>9, <1>10, <1>11, <1>12 DEF StreamNext, StreamStep

LEMMA NextWireFollows == StreamTypes /\ WireFollows /\ [StreamNext]_streamVars => WireFollows'
<1> SUFFICES ASSUME StreamTypes, WireFollows, [StreamNext]_streamVars PROVE WireFollows'
  OBVIOUS
<1>0. /\ produced \in Nat /\ wire \in Seq(WireEvent)
      /\ client \in [at : {"idle", "posting", "reading", "complete", "failed", "over"}, read : Seq(1 .. Answer)]
  BY StreamAssumption DEF StreamTypes
<1>1. ASSUME UNCHANGED <<produced, wire>>, client'.read = client.read,
             client'.at \in {"idle", "posting", "reading"} => client.at \in {"idle", "posting", "reading"}
      PROVE  WireFollows'
  BY <1>1 DEF WireFollows, Ends
<1>2. CASE Starts
  BY <1>0, <1>1, <1>2 DEF Starts
<1>3. CASE Accepted
  BY <1>0, <1>1, <1>3 DEF Accepted
<1>4. CASE Refused
  BY <1>0, <1>1, <1>4 DEF Refused
<1>5. CASE TimesOut
  BY <1>0, <1>1, <1>5 DEF TimesOut
<1>6. CASE OtherToken
  BY <1>1, <1>6 DEF OtherToken
<1>7. CASE Forwards
  BY <1>1, <1>7 DEF Forwards
<1>8. CASE Returns
  BY <1>0, <1>1, <1>8 DEF Returns
<1>9. CASE Handles
  BY <1>1, <1>9 DEF Handles
<1>10. CASE UNCHANGED streamVars
  BY <1>1, <1>10 DEF streamVars
<1>11. CASE Produces
  <2>1. /\ UNCHANGED client /\ client.at = "reading" /\ \A i \in DOMAIN wire : IsToken(wire[i])
        /\ \/ produced' = produced + 1 /\ wire' = Append(wire, Token(produced + 1)) /\ produced < Answer
           \/ \E e \in {<<"[DONE]">>, <<"closed">>, <<"broken">>} : wire' = Append(wire, e)
    BY <1>11 DEF Produces
  <2>2. /\ Ends(wire) = {} /\ Len(client.read) \in Nat /\ Len(wire) \in Nat
        /\ produced = Len(client.read) + Len(wire)
    BY <1>0, <2>1 DEF Ends, WireFollows
  <2>3. CASE produced' = produced + 1 /\ wire' = Append(wire, Token(produced + 1)) /\ produced < Answer
    <3>0. produced + 1 \in 1 .. Answer
      BY <1>0, <2>3, StreamAssumption
    <3>1. Token(produced + 1) \in WireEvent
      BY <3>0 DEF WireEvent
    <3>2. /\ Len(wire') = Len(wire) + 1 /\ DOMAIN wire' = 1 .. Len(wire) + 1 /\ DOMAIN wire = 1 .. Len(wire)
          /\ \A i \in DOMAIN wire : wire'[i] = wire[i]
          /\ wire'[Len(wire) + 1] = Token(produced + 1)
      BY <1>0, <2>3, <3>1, AppendIs
    <3>3. \A i \in DOMAIN wire : IsToken(wire'[i]) /\ wire'[i][2] = Len(client.read) + i
      BY <2>1, <3>2 DEF WireFollows
    <3>4. IsToken(wire'[Len(wire) + 1]) /\ wire'[Len(wire) + 1][2] = Len(client.read) + (Len(wire) + 1)
      <4>1. IsToken(Token(produced + 1)) /\ Token(produced + 1)[2] = produced + 1
        BY EventIs
      <4>2. produced + 1 = Len(client.read) + (Len(wire) + 1)
        BY <1>0, <2>2
      <4> QED
        BY <3>2, <4>1, <4>2
    <3>5. \A i \in DOMAIN wire' : IsToken(wire'[i]) /\ wire'[i][2] = Len(client.read) + i
      <4> SUFFICES ASSUME NEW i \in 1 .. Len(wire) + 1 PROVE IsToken(wire'[i]) /\ wire'[i][2] = Len(client.read) + i
        BY <3>2
      <4>1. i \in DOMAIN wire \/ i = Len(wire) + 1
        BY <2>2, <3>2
      <4> QED
        BY <3>3, <3>4, <4>1
    <3>6. Ends(wire') = {} /\ produced' = Len(client.read) + Len(wire')
      BY <1>0, <2>2, <2>3, <3>2, <3>5 DEF Ends
    <3> QED
      BY <2>1, <3>5, <3>6 DEF WireFollows
  <2>4. ASSUME NEW e \in {<<"[DONE]">>, <<"closed">>, <<"broken">>}, wire' = Append(wire, e)
        PROVE  WireFollows'
    <3>1. e \in WireEvent /\ ~IsToken(e)
      BY <2>4, EventIs DEF WireEvent
    <3>2. /\ Len(wire') = Len(wire) + 1 /\ DOMAIN wire' = 1 .. Len(wire) + 1 /\ DOMAIN wire = 1 .. Len(wire)
          /\ \A i \in DOMAIN wire : wire'[i] = wire[i]
          /\ wire'[Len(wire) + 1] = e
      BY <1>0, <2>4, <3>1, AppendIs
    <3>3. \A i \in DOMAIN wire' : IsToken(wire'[i]) => wire'[i][2] = Len(client.read) + i
      BY <2>1, <2>2, <3>1, <3>2 DEF WireFollows
    <3>4. Ends(wire') = {Len(wire) + 1}
      BY <2>1, <2>2, <3>1, <3>2 DEF Ends
    <3> QED
      BY <2>1, <3>2, <3>3, <3>4 DEF WireFollows
  <2> QED
    BY <2>1, <2>3, <2>4
<1>12. CASE ReadsToken
  <2> DEFINE t == Head(wire)[2]
  <2>1. /\ client.at = "reading" /\ wire # <<>> /\ IsToken(Head(wire)) /\ wire' = Tail(wire)
        /\ client' = [client EXCEPT !.read = Append(client.read, t)] /\ produced' = produced
    BY <1>12 DEF ReadsToken
  <2>2. /\ wire' = Tail(wire) /\ Len(wire') = Len(wire) - 1 /\ Len(wire) \in Nat \ {0}
        /\ \A i \in DOMAIN wire' : i \in Nat /\ wire'[i] = wire[i + 1] /\ i + 1 \in DOMAIN wire
        /\ \A i \in DOMAIN wire : i # 1 => i - 1 \in DOMAIN wire'
        /\ Head(wire) = wire[1] /\ 1 \in DOMAIN wire
    BY <1>0, <2>1, TailIs
  <2>3. t = Len(client.read) + 1 /\ t \in 1 .. Answer /\ Len(client.read) \in Nat
    BY <1>0, <2>1, <2>2, TailIs, EventIs DEF WireFollows
  <2> HIDE DEF t
  <2>4. /\ client'.at = "reading" /\ Len(client'.read) = Len(client.read) + 1
        /\ DOMAIN client'.read = 1 .. Len(client.read) + 1 /\ DOMAIN client.read = 1 .. Len(client.read)
        /\ \A i \in DOMAIN client.read : client'.read[i] = client.read[i]
        /\ client'.read[Len(client.read) + 1] = t
    BY <1>0, <2>1, <2>3, AppendIs
  <2>5. InOrder(client'.read)
    BY <2>3, <2>4 DEF WireFollows, InOrder
  <2>6. \A i \in DOMAIN wire' : IsToken(wire'[i]) => wire'[i][2] = Len(client'.read) + i
    <3> SUFFICES ASSUME NEW i \in DOMAIN wire', IsToken(wire'[i]) PROVE wire'[i][2] = Len(client'.read) + i
      OBVIOUS
    <3>1. i \in Nat /\ i + 1 \in DOMAIN wire /\ wire'[i] = wire[i + 1]
      BY <2>2
    <3>2. wire'[i][2] = Len(client.read) + (i + 1)
      BY <3>1 DEF WireFollows
    <3> QED
      <4>1. Len(client.read) + (i + 1) = Len(client'.read) + i
        <5>1. Len(client'.read) = Len(client.read) + 1
          BY <2>4
        <5> QED
          BY <2>3, <3>1, <5>1
      <4> QED
        BY <3>1, <3>2, <4>1
  <2>7. \A i \in Ends(wire') : i = Len(wire')
    BY <2>2 DEF WireFollows, Ends
  <2>8. Ends(wire') = {} => Ends(wire) = {}
    <3> SUFFICES ASSUME NEW i \in DOMAIN wire, ~IsToken(wire[i]), Ends(wire') = {} PROVE FALSE
      BY DEF Ends
    <3>1. i # 1 /\ i \in Nat
      BY <1>0, <2>1, <2>2
    <3>2. i - 1 \in DOMAIN wire' /\ wire'[i - 1] = wire[i]
      BY <2>2, <3>1
    <3> QED
      BY <3>2 DEF Ends
  <2>9. Ends(wire') = {} => produced' = Len(client'.read) + Len(wire')
    BY <1>0, <2>1, <2>2, <2>3, <2>4, <2>8 DEF WireFollows
  <2> QED
    BY <2>5, <2>6, <2>7, <2>9 DEF WireFollows
<1>13. CASE ReadsEnd
  <2>1. /\ wire # <<>> /\ ~IsToken(Head(wire)) /\ wire' = Tail(wire)
        /\ client'.read = client.read /\ client'.at \in {"failed", "complete"}
    BY <1>0, <1>13 DEF ReadsEnd
  <2>2. Len(wire) \in Nat \ {0} /\ Len(wire') = Len(wire) - 1 /\ 1 \in Ends(wire) /\ wire' \in Seq(WireEvent)
    BY <1>0, <2>1, TailIs DEF Ends
  <2>3. Len(wire') = 0
    BY <2>2 DEF WireFollows
  <2>4. DOMAIN wire' = {}
    BY <2>2, <2>3
  <2> QED
    BY <2>1, <2>4 DEF WireFollows, Ends
<1> QED
  BY <1>2, <1>3, <1>4, <1>5, <1>6, <1>7, <1>8, <1>9, <1>10, <1>11, <1>12, <1>13 DEF StreamNext, StreamStep

LEMMA EndsOfAppend ==
  ASSUME NEW s \in Seq(SinkEvent), NEW e \in SinkEvent
  PROVE  Ends(Append(s, e)) = IF IsToken(e) THEN Ends(s) ELSE Ends(s) \cup {Len(s) + 1}
<1> DEFINE t == Append(s, e)
<1>1. /\ Len(s) \in Nat /\ DOMAIN t = 1 .. Len(s) + 1 /\ DOMAIN s = 1 .. Len(s)
      /\ \A i \in DOMAIN s : t[i] = s[i]
      /\ t[Len(s) + 1] = e
  BY AppendIs
<1> HIDE DEF t
<1>2. \A i \in DOMAIN t : i \in DOMAIN s \/ i = Len(s) + 1
  BY <1>1
<1>3. DOMAIN s \subseteq DOMAIN t /\ Len(s) + 1 \in DOMAIN t /\ Len(s) + 1 \notin DOMAIN s
  BY <1>1
<1>4. Ends(t) = IF IsToken(e) THEN Ends(s) ELSE Ends(s) \cup {Len(s) + 1}
  BY <1>1, <1>2, <1>3 DEF Ends
<1> QED
  BY <1>4 DEF t

LEMMA EndsOfTail ==
  ASSUME NEW s \in Seq(SinkEvent), s # <<>>
  PROVE  /\ \A i \in Ends(Tail(s)) : i + 1 \in Ends(s)
         /\ \A i \in Ends(s) : i # 1 => i - 1 \in Ends(Tail(s))
         /\ 1 \in Ends(s) <=> ~IsToken(Head(s))
<1> DEFINE t == Tail(s)
<1>1. /\ Head(s) = s[1] /\ 1 \in DOMAIN s
      /\ \A i \in DOMAIN t : i \in Nat /\ t[i] = s[i + 1] /\ i + 1 \in DOMAIN s
      /\ \A i \in DOMAIN s : i # 1 => i - 1 \in DOMAIN t
  BY TailIs
<1> HIDE DEF t
<1>2. \A i \in Ends(t) : i + 1 \in Ends(s)
  BY <1>1 DEF Ends
<1>3. ASSUME NEW i \in Ends(s), i # 1 PROVE i - 1 \in Ends(t)
  <2>1. i \in Nat /\ i - 1 \in DOMAIN t /\ (i - 1) + 1 = i
    BY <1>1, <1>3 DEF Ends
  <2>2. t[i - 1] = s[i]
    BY <1>1, <2>1
  <2> QED
    BY <1>3, <2>1, <2>2 DEF Ends
<1>4. 1 \in Ends(s) <=> ~IsToken(Head(s))
  BY <1>1 DEF Ends
<1> QED
  BY <1>2, <1>3, <1>4 DEF t

LEMMA NextEndIsOnce == StreamTypes /\ EndIsOnce /\ [StreamNext]_streamVars => EndIsOnce'
<1> SUFFICES ASSUME StreamTypes, EndIsOnce, [StreamNext]_streamVars PROVE EndIsOnce'
  OBVIOUS
<1>0. /\ sink \in Seq(SinkEvent) /\ channel \in Seq(0 .. Answer) /\ wire \in Seq(WireEvent)
      /\ client \in [at : {"idle", "posting", "reading", "complete", "failed", "over"}, read : Seq(1 .. Answer)]
      /\ answer \in [at : {"none", "stored"}, text : Seq(0 .. Answer)]
  BY DEF StreamTypes
<1>1. ASSUME UNCHANGED <<sink, answer>>, client'.at # "idle", client'.read # <<>> \/ client'.read = client.read,
             client'.at = "over" <=> client.at = "over", client'.at = "complete" => client'.read # <<>>
      PROVE  EndIsOnce'
  BY <1>1 DEF EndIsOnce, OnlyCompleteIsStored
<1>2. CASE Starts
  BY <1>0, <1>1, <1>2 DEF Starts
<1>3. CASE Accepted
  BY <1>0, <1>1, <1>3 DEF Accepted
<1>4. CASE Refused
  BY <1>0, <1>1, <1>4 DEF Refused
<1>5. CASE TimesOut
  BY <1>0, <1>1, <1>5 DEF TimesOut
<1>6. CASE Produces
  BY <1>0, <1>1, <1>6 DEF Produces
<1>7. CASE ReadsToken
  <2> DEFINE t == Head(wire)[2]
  <2>1. /\ wire # <<>> /\ IsToken(Head(wire)) /\ UNCHANGED <<sink, answer>> /\ client.at = "reading"
        /\ client' = [client EXCEPT !.read = Append(client.read, t)]
    BY <1>7 DEF ReadsToken
  <2>2. t \in 1 .. Answer /\ client.read \in Seq(1 .. Answer)
    BY <1>0, <2>1, TailIs, EventIs
  <2> HIDE DEF t
  <2>3. Append(client.read, t) # <<>>
    BY <2>2, AppendIs
  <2> QED
    BY <1>0, <1>1, <2>1, <2>3
<1>8. CASE ReadsEnd
  BY <1>0, <1>1, <1>8 DEF ReadsEnd
<1>9. CASE OtherToken
  <2>1. listening /\ UNCHANGED <<client, listening, sink, text, answer>>
    BY <1>9 DEF OtherToken
  <2> QED
    BY <2>1 DEF EndIsOnce, OnlyCompleteIsStored
<1>10. CASE Forwards
  <2>1. channel # <<>> /\ UNCHANGED <<client, text, answer>>
    BY <1>10 DEF Forwards
  <2>2. CASE sink' = sink
    BY <2>1, <2>2 DEF EndIsOnce, OnlyCompleteIsStored
  <2>3. CASE sink' = Append(sink, Token(Head(channel)))
    <3>1. Token(Head(channel)) \in SinkEvent /\ IsToken(Token(Head(channel)))
      BY <1>0, <2>1, TailIs, EventIs DEF SinkEvent
    <3>2. Ends(sink') = Ends(sink)
      BY <1>0, <2>3, <3>1, EndsOfAppend
    <3>3. \A i \in DOMAIN sink' : sink'[i] = <<"done">> => i \in DOMAIN sink /\ sink[i] = <<"done">>
      <4>1. /\ DOMAIN sink' = 1 .. Len(sink) + 1 /\ DOMAIN sink = 1 .. Len(sink) /\ Len(sink) \in Nat
            /\ \A i \in DOMAIN sink : sink'[i] = sink[i]
            /\ sink'[Len(sink) + 1] = Token(Head(channel))
        BY <1>0, <2>3, <3>1, AppendIs
      <4>2. \A i \in DOMAIN sink' : i \in DOMAIN sink \/ i = Len(sink) + 1
        BY <4>1
      <4>3. Token(Head(channel)) # <<"done">>
        BY <3>1, EventIs
      <4> QED
        BY <4>1, <4>2, <4>3
    <3> QED
      BY <2>1, <3>2, <3>3 DEF EndIsOnce, OnlyCompleteIsStored
  <2> QED
    BY <1>10, <2>2, <2>3 DEF Forwards
<1>11. CASE Returns
  <2> DEFINE e == <<"done">>
  <2>1. /\ client.at = "complete" /\ client'.at = "over" /\ client'.read = client.read
        /\ sink' = Append(sink, e) /\ UNCHANGED answer
    BY <1>0, <1>11 DEF Returns
  <2>2. e \in SinkEvent /\ ~IsToken(e)
    BY EventIs DEF SinkEvent
  <2> HIDE DEF e
  <2>3. Ends(sink) = {} /\ answer.at = "none"
    BY <2>1 DEF EndIsOnce
  <2>4. Ends(sink') = {Len(sink) + 1}
    BY <1>0, <2>1, <2>2, <2>3, EndsOfAppend
  <2>5. \A i \in DOMAIN sink' : sink'[i] = <<"done">> => client'.read # <<>>
    <3>1. /\ DOMAIN sink' = 1 .. Len(sink) + 1 /\ DOMAIN sink = 1 .. Len(sink) /\ Len(sink) \in Nat
          /\ \A i \in DOMAIN sink : sink'[i] = sink[i]
          /\ sink'[Len(sink) + 1] = e
      BY <1>0, <2>1, <2>2, AppendIs
    <3>2. \A i \in DOMAIN sink' : i \in DOMAIN sink \/ i = Len(sink) + 1
      BY <3>1
    <3>3. \A i \in DOMAIN sink : sink[i] = <<"done">> => client.read # <<>>
      BY DEF EndIsOnce
    <3>4. client.read # <<>>
      BY <2>1 DEF EndIsOnce
    <3> QED
      BY <2>1, <3>1, <3>2, <3>3, <3>4
  <2>6. answer'.at = "none"
    BY <2>1, <2>3
  <2> QED
    BY <2>1, <2>4, <2>5, <2>6 DEF EndIsOnce, OnlyCompleteIsStored
<1>12. CASE Handles
  <2>1. sink # <<>> /\ sink' = Tail(sink) /\ UNCHANGED <<client, channel, listening>>
    BY <1>12 DEF Handles
  <2>2. /\ \A i \in Ends(sink') : i + 1 \in Ends(sink)
        /\ 1 \in Ends(sink) <=> ~IsToken(Head(sink))
    BY <1>0, <2>1, EndsOfTail
  <2>3. /\ \A i \in DOMAIN sink' : i \in Nat /\ sink'[i] = sink[i + 1] /\ i + 1 \in DOMAIN sink /\ i + 1 # 1
        /\ Head(sink) = sink[1] /\ 1 \in DOMAIN sink /\ Head(sink) \in SinkEvent
    BY <1>0, <2>1, TailIs
  <2>4. \A i, j \in Ends(sink') : i = j
    <3> SUFFICES ASSUME NEW i \in Ends(sink'), NEW j \in Ends(sink') PROVE i = j
      OBVIOUS
    <3>1. i \in Nat /\ j \in Nat
      BY <2>3 DEF Ends
    <3>2. i + 1 = j + 1
      BY <2>2 DEF EndIsOnce
    <3> QED
      BY <3>1, <3>2
  <2>5. \A i \in DOMAIN sink' : sink'[i] = <<"done">> => client.read # <<>>
    BY <2>3 DEF EndIsOnce
  <2>6. client.at # "idle"
    BY <2>1 DEF EndIsOnce
  <2>7. CASE IsToken(Head(sink))
    <3>1. answer' = answer
      BY <1>12, <2>7 DEF Handles
    <3> QED
      BY <2>1, <2>2, <2>4, <2>5, <2>6, <3>1 DEF EndIsOnce, OnlyCompleteIsStored
  <2>8. CASE ~IsToken(Head(sink))
    <3>1. answer'.at = "stored" /\ Head(sink) = <<"done">>
      BY <1>12, <2>3, <2>8, EventIs DEF Handles
    <3>2. client.at = "over"
      BY <2>2, <2>8 DEF EndIsOnce
    <3>3. Ends(sink') = {}
      <4> SUFFICES ASSUME NEW i \in Ends(sink') PROVE FALSE
        OBVIOUS
      <4>1. i + 1 \in Ends(sink) /\ 1 \in Ends(sink) /\ i + 1 # 1
        BY <2>2, <2>3, <2>8 DEF Ends
      <4> QED
        BY <4>1 DEF EndIsOnce
    <3>4. answer'.at = "stored" => client.read # <<>>
      BY <2>3, <3>1 DEF EndIsOnce
    <3> QED
      BY <2>1, <2>4, <2>5, <3>2, <3>3, <3>4 DEF EndIsOnce, OnlyCompleteIsStored
  <2> QED
    BY <2>7, <2>8
<1>13. CASE UNCHANGED streamVars
  BY <1>13 DEF streamVars, EndIsOnce, OnlyCompleteIsStored
<1> QED
  BY <1>2, <1>3, <1>4, <1>5, <1>6, <1>7, <1>8, <1>9, <1>10, <1>11, <1>12, <1>13 DEF StreamNext, StreamStep

\* Text and sink stay as they are.
LEMMA QuietTokens ==
  ASSUME TokensFollow, UNCHANGED <<text, sink, answer>>,
         Forwarded <= Len(client'.read), Len(answer.text) <= Len(client'.read),
         listening' => /\ Forwarded + Len(channel') = Len(client'.read)
                       /\ \A i \in DOMAIN channel' : channel'[i] = Forwarded + i
  PROVE  TokensFollow'
<1>1. Forwarded' = Forwarded /\ \A i : UpTo(i)' = UpTo(i)
  BY DEF Forwarded, Told, UpTo, Ends
<1> QED
  BY <1>1 DEF TokensFollow, InOrder

LEMMA NextTextFollows ==
  StreamTypes /\ WireFollows /\ EndIsOnce /\ TextFollows /\ [StreamNext]_streamVars => TextFollows'
<1> SUFFICES ASSUME StreamTypes, WireFollows, EndIsOnce, TextFollows, [StreamNext]_streamVars, ~foreign'
             PROVE  TokensFollow'
  BY DEF TextFollows
<1>0. /\ sink \in Seq(SinkEvent) /\ channel \in Seq(0 .. Answer) /\ wire \in Seq(WireEvent)
      /\ text \in Seq(0 .. Answer)
      /\ client \in [at : {"idle", "posting", "reading", "complete", "failed", "over"}, read : Seq(1 .. Answer)]
      /\ Len(sink) \in Nat /\ Len(channel) \in Nat /\ Len(text) \in Nat /\ Len(client.read) \in Nat
      /\ Len(answer.text) \in Nat
      /\ Told \in {0, 1} /\ Forwarded \in Int
  BY DEF StreamTypes, Told, Forwarded
<1>1. ~foreign /\ TokensFollow
  <2>1. ~foreign
    BY DEF StreamNext, StreamStep, Starts, Accepted, Refused, TimesOut, Produces, ReadsToken, ReadsEnd,
           OtherToken, Forwards, Returns, Handles, streamVars
  <2> QED
    BY <2>1 DEF TextFollows
<1>2. ASSUME UNCHANGED <<text, sink, answer, channel>>, listening' => listening, client'.read = client.read
      PROVE  TokensFollow'
  BY <1>1, <1>2, QuietTokens DEF TokensFollow
<1>3. CASE Starts
  <2>1. /\ UNCHANGED <<text, sink, answer, channel>> /\ client'.read = client.read /\ client.at = "idle"
    BY <1>0, <1>3 DEF Starts
  <2>2. channel = <<>> /\ sink = <<>> /\ text = <<>> /\ client.read = <<>>
    BY <2>1 DEF EndIsOnce
  <2>3. Forwarded = 0
    BY <2>2 DEF Forwarded, Told, Ends
  <2>4. Len(answer.text) <= Len(client'.read)
    BY <1>1, <2>1 DEF TokensFollow
  <2> QED
    BY <1>1, <2>1, <2>2, <2>3, <2>4, QuietTokens
<1>4. CASE Accepted
  BY <1>0, <1>2, <1>4 DEF Accepted
<1>5. CASE Refused
  BY <1>0, <1>2, <1>5 DEF Refused
<1>6. CASE TimesOut
  BY <1>0, <1>2, <1>6 DEF TimesOut
<1>7. CASE Produces
  BY <1>0, <1>2, <1>7 DEF Produces
<1>8. CASE ReadsEnd
  BY <1>0, <1>2, <1>8 DEF ReadsEnd
<1>9. CASE OtherToken
  BY <1>9 DEF OtherToken
<1>10. CASE UNCHANGED streamVars
  BY <1>2, <1>10 DEF streamVars
\* The next token is read and, if the task listens, put behind those that wait.
<1>11. CASE ReadsToken
  <2> DEFINE t == Head(wire)[2]
  <2>1. /\ wire # <<>> /\ IsToken(Head(wire)) /\ Broadcast(t) /\ UNCHANGED <<text, sink, answer, listening>>
        /\ client' = [client EXCEPT !.read = Append(client.read, t)]
    BY <1>11 DEF ReadsToken
  <2>2. t = Len(client.read) + 1 /\ t \in 1 .. Answer /\ t \in 0 .. Answer
    <3>1. Head(wire) = wire[1] /\ 1 \in DOMAIN wire /\ Head(wire) \in WireEvent
      BY <1>0, <2>1, TailIs
    <3>2. t = Len(client.read) + 1
      BY <2>1, <3>1 DEF WireFollows
    <3>3. t \in 1 .. Answer
      BY <2>1, <3>1, EventIs
    <3> QED
      BY <3>2, <3>3
  <2> HIDE DEF t
  <2>3. Len(client'.read) = Len(client.read) + 1
    <3>1. Len(Append(client.read, t)) = Len(client.read) + 1
      BY <1>0, <2>2, AppendIs
    <3> QED
      BY <1>0, <2>1, <3>1
  <2>4. Forwarded <= Len(client'.read) /\ Len(answer.text) <= Len(client'.read)
    BY <1>0, <1>1, <2>3 DEF TokensFollow
  <2>5. ASSUME listening
        PROVE  /\ Forwarded + Len(channel') = Len(client'.read)
               /\ \A i \in DOMAIN channel' : channel'[i] = Forwarded + i
    <3>1. /\ Len(channel') = Len(channel) + 1
          /\ DOMAIN channel' = 1 .. Len(channel) + 1 /\ DOMAIN channel = 1 .. Len(channel)
          /\ \A i \in DOMAIN channel : channel'[i] = channel[i]
          /\ channel'[Len(channel) + 1] = t
      BY <1>0, <2>1, <2>2, <2>5, BroadcastIs
    <3>2. /\ Forwarded + Len(channel) = Len(client.read)
          /\ \A i \in DOMAIN channel : channel[i] = Forwarded + i
      BY <1>1, <2>5 DEF TokensFollow
    <3>3. Forwarded + Len(channel') = Len(client'.read)
      BY <1>0, <2>3, <3>1, <3>2
    <3>4. t = Forwarded + (Len(channel) + 1)
      <4>1. Forwarded + Len(channel) = Len(client.read) /\ t = Len(client.read) + 1
        BY <2>2, <3>2
      <4>2. Forwarded \in Int /\ Len(channel) \in Int /\ Len(client.read) \in Int
        BY <1>0
      <4> QED
        BY <4>1, <4>2
    <3>5. \A i \in DOMAIN channel' : i \in DOMAIN channel \/ i = Len(channel) + 1
      BY <1>0, <3>1
    <3> QED
      BY <3>1, <3>2, <3>3, <3>4, <3>5
  <2> QED
    BY <1>1, <2>1, <2>4, <2>5, QuietTokens
<1>12. CASE Forwards
  <2>1. channel # <<>> /\ listening /\ UNCHANGED <<client, text, answer>>
    BY <1>12 DEF Forwards
  <2>2. CASE listening' = FALSE /\ sink' = sink
    BY <1>1, <2>1, <2>2, QuietTokens DEF TokensFollow
  <2>3. CASE listening' = listening /\ sink' = Append(sink, Token(Head(channel))) /\ channel' = Tail(channel)
    <3>1. /\ Forwarded + Len(channel) = Len(client.read)
          /\ \A i \in DOMAIN channel : channel[i] = Forwarded + i
      BY <1>1, <2>1 DEF TokensFollow
    <3>2. /\ Head(channel) = channel[1] /\ 1 \in DOMAIN channel /\ Head(channel) \in 0 .. Answer
          /\ Len(channel') = Len(channel) - 1
          /\ \A i \in DOMAIN channel' : i \in Nat /\ channel'[i] = channel[i + 1] /\ i + 1 \in DOMAIN channel
      BY <1>0, <2>1, <2>3, TailIs
    <3>3. Token(Head(channel)) \in SinkEvent /\ IsToken(Token(Head(channel)))
          /\ Token(Head(channel))[2] = Forwarded + 1
      BY <3>1, <3>2, EventIs DEF SinkEvent
    <3>4. Ends(sink') = Ends(sink) /\ Told' = Told
      BY <1>0, <2>3, <3>3, EndsOfAppend DEF Told
    <3>5. /\ DOMAIN sink' = 1 .. Len(sink) + 1 /\ DOMAIN sink = 1 .. Len(sink) /\ Len(sink') = Len(sink) + 1
          /\ \A i \in DOMAIN sink : sink'[i] = sink[i]
          /\ sink'[Len(sink) + 1] = Token(Head(channel))
      BY <1>0, <2>3, <3>3, AppendIs
    <3>6. Forwarded' = Forwarded + 1
      BY <1>0, <2>1, <3>4, <3>5 DEF Forwarded
    <3>7. \A i : UpTo(i)' = UpTo(i)
      BY <2>1, <3>4 DEF UpTo
    <3>8. UpTo(Len(sink) + 1) = Forwarded + 1
      <4>1. \A j \in Ends(sink) : j < Len(sink) + 1
        BY <1>0 DEF Ends
      <4>2. (\E j \in Ends(sink) : j < Len(sink) + 1) <=> Ends(sink) # {}
        BY <4>1
      <4> QED
        <5>1. CASE Ends(sink) = {}
          <6>1. UpTo(Len(sink) + 1) = Len(text) + (Len(sink) + 1) - 0 /\ Forwarded = Len(text) + Len(sink) - 0
            BY <5>1 DEF UpTo, Forwarded, Told
          <6> QED
            BY <1>0, <6>1
        <5>2. CASE Ends(sink) # {}
          <6>1. UpTo(Len(sink) + 1) = Len(text) + (Len(sink) + 1) - 1 /\ Forwarded = Len(text) + Len(sink) - 1
            BY <4>2, <5>2 DEF UpTo, Forwarded, Told
          <6> QED
            BY <1>0, <6>1
        <5> QED
          BY <5>1, <5>2
    <3>9. \A i \in DOMAIN sink' : IsToken(sink'[i]) => sink'[i][2] = UpTo(i)'
      <4>1. \A i \in DOMAIN sink' : i \in DOMAIN sink \/ i = Len(sink) + 1
        BY <1>0, <3>5
      <4>2. \A i \in DOMAIN sink : IsToken(sink[i]) => sink[i][2] = UpTo(i)
        BY <1>1 DEF TokensFollow
      <4> QED
        BY <3>3, <3>5, <3>7, <3>8, <4>1, <4>2
    <3>10. \A i \in DOMAIN channel' : channel'[i] = Forwarded' + i
      <4> SUFFICES ASSUME NEW i \in DOMAIN channel' PROVE channel'[i] = Forwarded' + i
        OBVIOUS
      <4>1. i \in Nat /\ channel'[i] = Forwarded + (i + 1)
        BY <3>1, <3>2
      <4>2. Forwarded + (i + 1) = Forwarded' + i
        BY <1>0, <3>6, <4>1
      <4> QED
        BY <4>1, <4>2
    <3>11. Forwarded' + Len(channel') = Len(client'.read) /\ Forwarded' <= Len(client'.read)
      <4>1. Forwarded' + Len(channel') = Len(client.read) /\ Len(channel') \in Nat
        <5>1. Len(channel') = Len(channel) - 1 /\ Len(channel) \in Nat \ {0}
          BY <1>0, <2>1, <2>3, TailIs
        <5>2. Forwarded + Len(channel) = Len(client.read)
          BY <3>1
        <5>3. Forwarded \in Int /\ Len(channel) \in Int
          BY <1>0
        <5> QED
          BY <3>6, <5>1, <5>2, <5>3
      <4> QED
        BY <1>0, <2>1, <3>6, <4>1
    <3> QED
      BY <1>1, <2>1, <3>9, <3>10, <3>11 DEF TokensFollow, InOrder
  <2> QED
    BY <1>12, <2>1, <2>2, <2>3 DEF Forwards
<1>13. CASE Returns
  <2> DEFINE e == <<"done">>
  <2>1. /\ client.at = "complete" /\ client'.read = client.read
        /\ sink' = Append(sink, e) /\ UNCHANGED <<answer, text, channel, listening>>
    BY <1>0, <1>13 DEF Returns
  <2>2. e \in SinkEvent /\ ~IsToken(e)
    BY EventIs DEF SinkEvent
  <2> HIDE DEF e
  <2>3. Ends(sink) = {}
    BY <2>1 DEF EndIsOnce
  <2>4. Ends(sink') = {Len(sink) + 1}
    BY <1>0, <2>1, <2>2, <2>3, EndsOfAppend
  <2>5. /\ DOMAIN sink' = 1 .. Len(sink) + 1 /\ DOMAIN sink = 1 .. Len(sink) /\ Len(sink') = Len(sink) + 1
        /\ \A i \in DOMAIN sink : sink'[i] = sink[i]
        /\ sink'[Len(sink) + 1] = e
    BY <1>0, <2>1, <2>2, AppendIs
  <2>6. Told = 0 /\ Told' = 1
    BY <2>3, <2>4 DEF Told
  <2>7. Forwarded' = Forwarded
    BY <1>0, <2>1, <2>5, <2>6 DEF Forwarded
  <2>8. \A i \in DOMAIN sink : UpTo(i)' = UpTo(i)
    BY <1>0, <2>1, <2>3, <2>4 DEF UpTo
  <2>9. \A i \in DOMAIN sink' : IsToken(sink'[i]) => sink'[i][2] = UpTo(i)'
    <3>1. \A i \in DOMAIN sink' : i \in DOMAIN sink \/ i = Len(sink) + 1
      BY <1>0, <2>5
    <3>2. \A i \in DOMAIN sink : IsToken(sink[i]) => sink[i][2] = UpTo(i)
      BY <1>1 DEF TokensFollow
    <3> QED
      BY <2>2, <2>5, <2>8, <3>1, <3>2
  <2> QED
    BY <1>1, <2>1, <2>7, <2>9 DEF TokensFollow, InOrder
\* The screen takes the first event: the others move up by one.
<1>14. CASE Handles
  <2>1. sink # <<>> /\ sink' = Tail(sink) /\ UNCHANGED <<client, channel, listening>>
    BY <1>14 DEF Handles
  <2>2. /\ \A i \in Ends(sink') : i + 1 \in Ends(sink)
        /\ \A i \in Ends(sink) : i # 1 => i - 1 \in Ends(sink')
        /\ 1 \in Ends(sink) <=> ~IsToken(Head(sink))
    BY <1>0, <2>1, EndsOfTail
  <2>3. /\ \A i \in DOMAIN sink' : i \in Nat /\ sink'[i] = sink[i + 1] /\ i + 1 \in DOMAIN sink /\ i + 1 # 1
        /\ Head(sink) = sink[1] /\ 1 \in DOMAIN sink /\ Head(sink) \in SinkEvent
        /\ Len(sink') = Len(sink) - 1 /\ Len(sink) \in Nat \ {0}
    BY <1>0, <2>1, TailIs
  <2>4. Ends(sink) \subseteq Nat \ {0} /\ Ends(sink') \subseteq Nat \ {0}
    <3>1. sink' \in Seq(SinkEvent)
      BY <1>0, <2>1, TailIs
    <3> QED
      BY <1>0, <3>1 DEF Ends
  <2>5. \A i \in DOMAIN sink : IsToken(sink[i]) => sink[i][2] = UpTo(i)
    BY <1>1 DEF TokensFollow
  <2>6. CASE IsToken(Head(sink))
    <3>1. text' = Append(text, Head(sink)[2]) /\ answer' = answer
      BY <1>14, <2>6 DEF Handles
    <3>2. UpTo(1) = Len(text) + 1
      <4>1. ~\E j \in Ends(sink) : j < 1
        BY <2>4
      <4> QED
        BY <1>0, <4>1 DEF UpTo
    <3>3. Head(sink)[2] = Len(text) + 1 /\ Head(sink)[2] \in 0 .. Answer
      BY <2>3, <2>5, <2>6, <3>2, EventIs
    <3>4. /\ Len(text') = Len(text) + 1 /\ InOrder(text')
      <4>1. /\ Len(text') = Len(text) + 1 /\ DOMAIN text' = 1 .. Len(text) + 1 /\ DOMAIN text = 1 .. Len(text)
            /\ \A i \in DOMAIN text : text'[i] = text[i]
            /\ text'[Len(text) + 1] = Head(sink)[2]
        BY <1>0, <3>1, <3>3, AppendIs
      <4>2. \A i \in DOMAIN text' : i \in DOMAIN text \/ i = Len(text) + 1
        BY <1>0, <4>1
      <4> QED
        BY <1>1, <3>3, <4>1, <4>2 DEF TokensFollow, InOrder
    <3>5. Told' = Told
      <4>1. Ends(sink') = {} <=> Ends(sink) = {}
        BY <2>2, <2>6
      <4> QED
        BY <4>1 DEF Told
    <3>6. Forwarded' = Forwarded
      BY <1>0, <2>3, <3>4, <3>5 DEF Forwarded
    <3>7. ASSUME NEW i \in DOMAIN sink' PROVE UpTo(i)' = UpTo(i + 1)
      <4>1. i \in Nat
        BY <2>3
      <4>2. ASSUME NEW j \in Ends(sink'), j < i PROVE j + 1 \in Ends(sink) /\ j + 1 < i + 1
        BY <2>2, <2>4, <4>1, <4>2
      <4>3. ASSUME NEW j \in Ends(sink), j < i + 1 PROVE j - 1 \in Ends(sink') /\ j - 1 < i
        BY <2>2, <2>4, <2>6, <4>1, <4>3
      <4>4. (\E j \in Ends(sink') : j < i) <=> (\E j \in Ends(sink) : j < i + 1)
        BY <4>2, <4>3
      <4>5. UpTo(i)' = Len(text') + i - (IF \E j \in Ends(sink') : j < i THEN 1 ELSE 0)
        BY DEF UpTo
      <4>6. UpTo(i + 1) = Len(text) + (i + 1) - (IF \E j \in Ends(sink) : j < i + 1 THEN 1 ELSE 0)
        BY DEF UpTo
      <4> QED
        <5>1. CASE \E j \in Ends(sink') : j < i
          <6>1. UpTo(i)' = Len(text') + i - 1 /\ UpTo(i + 1) = Len(text) + (i + 1) - 1
            BY <4>4, <4>5, <4>6, <5>1
          <6> QED
            BY <1>0, <3>4, <4>1, <6>1
        <5>2. CASE ~\E j \in Ends(sink') : j < i
          <6>1. UpTo(i)' = Len(text') + i - 0 /\ UpTo(i + 1) = Len(text) + (i + 1) - 0
            BY <4>4, <4>5, <4>6, <5>2
          <6> QED
            BY <1>0, <3>4, <4>1, <6>1
        <5> QED
          BY <5>1, <5>2
    <3>8. \A i \in DOMAIN sink' : IsToken(sink'[i]) => sink'[i][2] = UpTo(i)'
      BY <2>3, <2>5, <3>7
    <3> QED
      BY <1>1, <2>1, <3>1, <3>4, <3>6, <3>8 DEF TokensFollow
  <2>7. CASE ~IsToken(Head(sink))
    <3>1. text' = text /\ answer'.text = text
      BY <1>14, <2>7 DEF Handles
    <3>2. 1 \in Ends(sink)
      BY <2>2, <2>7
    <3>3. Ends(sink') = {}
      <4> SUFFICES ASSUME NEW i \in Ends(sink') PROVE FALSE
        OBVIOUS
      <4>1. i + 1 \in Ends(sink) /\ i + 1 # 1
        BY <2>2, <2>4
      <4> QED
        BY <3>2, <4>1 DEF EndIsOnce
    <3>4. Told = 1 /\ Told' = 0
      BY <3>2, <3>3 DEF Told
    <3>5. Forwarded' = Forwarded
      BY <1>0, <2>3, <3>1, <3>4 DEF Forwarded
    <3>6. Len(text) <= Len(client.read)
      <4>1. Forwarded <= Len(client.read) /\ Forwarded = Len(text) + Len(sink) - 1
        BY <1>1, <3>4 DEF TokensFollow, Forwarded
      <4> QED
        BY <1>0, <2>3, <4>1
    <3>7. ASSUME NEW i \in DOMAIN sink' PROVE UpTo(i)' = UpTo(i + 1)
      <4>1. i \in Nat \ {0}
        BY <2>3, <2>4, <1>0, <2>1, TailIs
      <4>2. \E j \in Ends(sink) : j < i + 1
        BY <3>2, <4>1
      <4>3. UpTo(i)' = Len(text') + i - 0
        BY <3>3 DEF UpTo
      <4>4. UpTo(i + 1) = Len(text) + (i + 1) - 1
        BY <4>2 DEF UpTo
      <4> QED
        BY <1>0, <3>1, <4>1, <4>3, <4>4
    <3>8. \A i \in DOMAIN sink' : IsToken(sink'[i]) => sink'[i][2] = UpTo(i)'
      BY <2>3, <2>5, <3>7
    <3> QED
      BY <1>1, <2>1, <3>1, <3>5, <3>6, <3>8 DEF TokensFollow
  <2> QED
    BY <2>6, <2>7
<1> QED
  BY <1>3, <1>4, <1>5, <1>6, <1>7, <1>8, <1>9, <1>10, <1>11, <1>12, <1>13, <1>14 DEF StreamNext, StreamStep

\* What is stored of an answer is a beginning of what the client has read, and of an
\* answer that came to its end, however the client, the forwarding task and the screen interleave
\* and whatever is lost on the way (client.rs, chat_send of api.rs).
THEOREM AnswersAreTrue == StreamSpec => []AnswerIsTrue
<1>1. StreamInit => StreamInv
  <2> SUFFICES ASSUME StreamInit PROVE StreamInv
    OBVIOUS
  <2> USE StreamAssumption DEF StreamInit, NoAnswer
  <2>1. <<>> \in Seq(WireEvent) /\ <<>> \in Seq(SinkEvent) /\ <<>> \in Seq(0 .. Answer) /\ <<>> \in Seq(1 .. Answer)
    OBVIOUS
  <2>2. StreamTypes
    <3>1. client \in [at : {"idle", "posting", "reading", "complete", "failed", "over"}, read : Seq(1 .. Answer)]
      BY <2>1
    <3>2. answer \in [at : {"none", "stored"}, text : Seq(0 .. Answer)]
      BY <2>1
    <3>3. produced \in 0 .. Answer /\ listening \in BOOLEAN /\ foreign \in BOOLEAN
      <4>1. produced = 0 /\ 0 \in 0 .. Answer
        OBVIOUS
      <4>2. listening \in BOOLEAN /\ foreign \in BOOLEAN
        OBVIOUS
      <4> QED
        BY <4>1, <4>2
    <3>4. /\ wire \in Seq(WireEvent) /\ channel \in Seq(0 .. Answer)
          /\ sink \in Seq(SinkEvent) /\ text \in Seq(0 .. Answer)
      BY <2>1
    <3> QED
      BY <3>1, <3>2, <3>3, <3>4 DEF StreamTypes
  <2>3. WireFollows /\ EndIsOnce
    BY DEF WireFollows, EndIsOnce, InOrder, Ends, OnlyCompleteIsStored
  <2>4. TokensFollow
    BY DEF TokensFollow, InOrder, Forwarded, Told, Ends
  <2> QED
    BY <2>2, <2>3, <2>4 DEF StreamInv, TextFollows
<1>2. StreamInv /\ [StreamNext]_streamVars => StreamInv'
  BY NextStreamTypes, NextWireFollows, NextEndIsOnce, NextTextFollows DEF StreamInv
<1>3. StreamInv => AnswerIsTrue
  <2> SUFFICES ASSUME StreamInv PROVE AnswerIsTrue
    OBVIOUS
  <2>1. StreamTypeOK
    <3>1. StreamTypes
      BY DEF StreamInv
    <3>2. client.read \in Seq(1 .. Answer) /\ channel \in Seq(0 .. Answer)
      BY <3>1 DEF StreamTypes
    <3>3. ASSUME NEW S, NEW s \in Seq(S) PROVE ToSet(s) \subseteq S
      BY DEF ToSet
    <3>4. ToSet(client.read) \subseteq 1 .. Answer /\ ToSet(channel) \subseteq 0 .. Answer
      BY <3>2, <3>3
    <3> QED
      BY <3>1, <3>4 DEF StreamTypes, StreamTypeOK
  <2>2. StoredIsPrefix
    BY DEF StreamInv, TextFollows, TokensFollow, InOrder, StoredIsPrefix
  <2> QED
    BY <2>1, <2>2 DEF StreamInv, EndIsOnce, AnswerIsTrue
<1> QED
  BY <1>1, <1>2, <1>3, PTL DEF StreamSpec

-----------------------------------------------------------------------------
(* The conversations *)

HistoryItem == Message \cup {<<"summary", ms>> : ms \in SUBSET Message}
QuestionUnderWay == [at : {"rest", "serve", "summary", "ask", "answer"}, q : 0 .. MaxQuestions,
                     summary : [old : Seq(HistoryItem), recent : Seq(HistoryItem)]]

ChatTypes ==
  /\ rows \in [Conversation -> Seq(Message) \cup {Gone}]
  /\ shown \in Existing \cup {0}
  /\ bubbles \in Nat
  /\ history \in Seq(HistoryItem)
  /\ asking \in QuestionUnderWay
  /\ asking.at # "rest" => asking.q # 0
  /\ streaming \in BOOLEAN /\ moved \in BOOLEAN
  /\ questions \in 0 .. MaxQuestions

\* What one element of a history stands for.
ItemOf(e) == IF e[1] = "summary" THEN e[2] ELSE {e}

\* Every answer has its question before it.
Follows(r) == \A i \in DOMAIN r : r[i][1] = "assistant" => i > 1 /\ r[i - 1] = User(r[i][2])
KeepsQuestions(h) ==
  \A i \in DOMAIN h : h[i][1] = "assistant" =>
    \E k \in DOMAIN h : k < i /\ User(h[i][2]) \in ItemOf(h[k])

\* old and recent are the history, in two parts.
Parts(old, recent, h) ==
  /\ Len(old) + Len(recent) = Len(h)
  /\ \A i \in DOMAIN old : old[i] = h[i]
  /\ \A i \in DOMAIN recent : recent[i] = h[Len(old) + i]

\* The question under way belongs to the conversation that is shown: it stands
\* last in it while its answer is awaited.
AskingFits ==
  /\ asking.at \in {"summary", "ask", "answer"} => shown # 0
  /\ asking.at = "summary" => Parts(asking.summary.old, asking.summary.recent, history)
  /\ asking.at = "answer" => /\ rows[shown] # <<>>
                             /\ rows[shown][Len(rows[shown])] = User(asking.q)

OwnedNow ==
  /\ IF shown = 0 THEN history = <<>> ELSE OfConversation(history, shown)
  /\ \A c \in Existing : Follows(rows[c])
  /\ KeepsQuestions(history)
  /\ AskingFits

ChatOwned == ~moved => OwnedNow

LEMMA MessageIs ==
  /\ Gone \notin Seq(Message) /\ <<>> \in Seq(Message) /\ <<>> # Gone
  /\ \A q \in 1 .. MaxQuestions : User(q) \in Message /\ Assistant(q) \in Message
  /\ \A q : /\ User(q)[1] = "user" /\ Assistant(q)[1] = "assistant"
            /\ User(q)[2] = q /\ Assistant(q)[2] = q
            /\ ItemOf(User(q)) = {User(q)} /\ ItemOf(Assistant(q)) = {Assistant(q)}
  /\ \A m \in Message : m[1] # "summary" /\ ItemOf(m) = {m}
  /\ \A e \in HistoryItem : ItemOf(e) \subseteq Message
  /\ Message \subseteq HistoryItem
<1>1. <<"gone", 0>> \notin Message
  BY DEF Message
<1>2. Gone \notin Seq(Message)
  <2>1. 1 \in DOMAIN Gone /\ Gone[1] = <<"gone", 0>>
    BY DEF Gone
  <2> QED
    BY <1>1, <2>1
<1>3. <<>> \in Seq(Message) /\ <<>> # Gone
  <2>1. <<>> \in Seq(Message)
    OBVIOUS
  <2> QED
    BY <1>2, <2>1
<1>4. \A q \in 1 .. MaxQuestions : User(q) \in Message /\ Assistant(q) \in Message
  BY DEF Message, User, Assistant
<1>5. \A q : /\ User(q)[1] = "user" /\ Assistant(q)[1] = "assistant"
             /\ User(q)[2] = q /\ Assistant(q)[2] = q
             /\ ItemOf(User(q)) = {User(q)} /\ ItemOf(Assistant(q)) = {Assistant(q)}
  BY DEF User, Assistant, ItemOf
<1>6. \A m \in Message : m[1] # "summary" /\ ItemOf(m) = {m}
  BY DEF Message, ItemOf
<1>7. \A e \in HistoryItem : ItemOf(e) \subseteq Message
  BY <1>6 DEF HistoryItem, ItemOf
<1> QED
  BY <1>2, <1>3, <1>4, <1>5, <1>6, <1>7 DEF HistoryItem

LEMMA MessagesAre == ASSUME NEW h PROVE Messages(h) = UNION {ItemOf(h[i]) : i \in DOMAIN h}
BY DEF Messages, ItemOf

\* What is appended to a conversation adds to its messages.
LEMMA AppendedMessages ==
  ASSUME NEW r \in Seq(Message), NEW m \in Message
  PROVE  Messages(r) \subseteq Messages(Append(r, m)) /\ m \in Messages(Append(r, m))
<1> DEFINE s == Append(r, m)
<1>1. /\ Len(r) \in Nat /\ DOMAIN s = 1 .. Len(r) + 1 /\ DOMAIN r = 1 .. Len(r)
      /\ \A i \in DOMAIN r : s[i] = r[i]
      /\ s[Len(r) + 1] = m
  BY AppendIs
<1> HIDE DEF s
<1>2. DOMAIN r \subseteq DOMAIN s /\ Len(r) + 1 \in DOMAIN s
  BY <1>1
<1>3. \A i \in DOMAIN r : ItemOf(s[i]) = ItemOf(r[i])
  BY <1>1
<1>4. ItemOf(s[Len(r) + 1]) = {m}
  BY <1>1, MessageIs
<1>5. Messages(r) \subseteq Messages(s) /\ m \in Messages(s)
  BY <1>2, <1>3, <1>4, MessagesAre
<1> QED
  BY <1>5 DEF s

LEMMA ConcatIs ==
  ASSUME NEW S, NEW s \in Seq(S), NEW t \in Seq(S)
  PROVE  /\ s \o t \in Seq(S) /\ Len(s \o t) = Len(s) + Len(t) /\ Len(s) \in Nat /\ Len(t) \in Nat
         /\ DOMAIN (s \o t) = 1 .. Len(s) + Len(t) /\ DOMAIN s = 1 .. Len(s) /\ DOMAIN t = 1 .. Len(t)
         /\ \A i \in DOMAIN s : (s \o t)[i] = s[i]
         /\ \A i \in DOMAIN t : (s \o t)[Len(s) + i] = t[i]
         /\ \A i \in DOMAIN (s \o t) : i \in DOMAIN s \/ (i - Len(s) \in DOMAIN t /\ (s \o t)[i] = t[i - Len(s)])
OBVIOUS

LEMMA NextChatTypes == ChatTypes /\ [ChatNext]_chatVars => ChatTypes'
<1> SUFFICES ASSUME ChatTypes, [ChatNext]_chatVars PROVE ChatTypes'
  OBVIOUS
<1> USE ChatAssumption
<1>0. /\ rows \in [Conversation -> Seq(Message) \cup {Gone}]
      /\ shown \in Existing \cup {0}
      /\ bubbles \in Nat
      /\ history \in Seq(HistoryItem)
      /\ asking \in QuestionUnderWay
      /\ asking.at # "rest" => asking.q # 0
      /\ streaming \in BOOLEAN /\ moved \in BOOLEAN
      /\ questions \in 0 .. MaxQuestions
  BY DEF ChatTypes
<1>1. <<>> \in Seq(HistoryItem) /\ <<>> \in Seq(Message) /\ <<>> # Gone
  BY MessageIs
<1>2. NotAsking \in QuestionUnderWay /\ NotAsking.at = "rest"
  BY <1>1 DEF NotAsking, NoSummary, QuestionUnderWay
<1>3. Moving => moved' \in BOOLEAN
  BY DEF Moving
<1>4. \A c \in Existing : rows[c] \in Seq(Message) /\ rows[c] \in Seq(HistoryItem) /\ c \in Conversation
  <2>1. Seq(Message) \subseteq Seq(HistoryItem)
    BY MessageIs
  <2> QED
    BY <1>0, <2>1 DEF Existing
<1>5. ASSUME NextConversation \in Conversation, rows' = Created
      PROVE  rows' \in [Conversation -> Seq(Message) \cup {Gone}] /\ NextConversation \in Existing'
  <2> DEFINE n == NextConversation
  <2>1. n \in Conversation /\ rows' = [rows EXCEPT ![n] = <<>>]
    BY <1>5 DEF Created
  <2> HIDE DEF n
  <2>2. rows' \in [Conversation -> Seq(Message) \cup {Gone}] /\ rows'[n] = <<>>
    BY <1>0, <1>1, <2>1
  <2>3. n \in Existing'
    BY <1>1, <2>1, <2>2 DEF Existing
  <2> QED
    BY <2>2, <2>3 DEF n
<1>6. ASSUME NEW c \in Existing, NEW m \in Message, rows' = Appended(c, m)
      PROVE  rows' \in [Conversation -> Seq(Message) \cup {Gone}] /\ Existing \subseteq Existing'
  <2>1. Append(rows[c], m) \in Seq(Message) /\ Append(rows[c], m) # Gone
    <3>1. rows[c] \in Seq(Message)
      BY <1>4
    <3>2. Append(rows[c], m) \in Seq(Message)
      BY <3>1, AppendIs
    <3> QED
      BY <3>2, MessageIs
  <2>2. rows' = [rows EXCEPT ![c] = Append(rows[c], m)]
    BY <1>6 DEF Appended
  <2>3. rows' \in [Conversation -> Seq(Message) \cup {Gone}] /\ rows'[c] = Append(rows[c], m)
        /\ \A d \in Conversation \ {c} : rows'[d] = rows[d]
    BY <1>0, <1>4, <2>1, <2>2
  <2> QED
    BY <2>1, <2>3 DEF Existing
<1>7. CASE NewSession
  <2>1. /\ NextConversation \in Conversation /\ rows' = Created /\ shown' = NextConversation
        /\ bubbles' = 0 /\ history' = <<>> /\ Moving /\ UNCHANGED <<asking, streaming, questions>>
    BY <1>7 DEF NewSession
  <2> QED
    BY <1>0, <1>1, <1>3, <1>5, <2>1 DEF ChatTypes
<1>8. ASSUME NEW c \in Conversation, SelectSession(c) PROVE ChatTypes'
  <2>1. /\ c \in Existing /\ shown' = c /\ bubbles' = Len(rows[c]) /\ history' = rows[c] /\ Moving
        /\ UNCHANGED <<rows, asking, streaming, questions>>
    BY <1>8 DEF SelectSession, Loaded
  <2>2. Len(rows[c]) \in Nat /\ Existing' = Existing
    BY <1>4, <2>1 DEF Existing
  <2> QED
    BY <1>0, <1>3, <1>4, <2>1, <2>2 DEF ChatTypes
<1>9. ASSUME NEW c \in Conversation, DeleteSession(c) PROVE ChatTypes'
  <2>1. /\ c \in Existing /\ rows' = [rows EXCEPT ![c] = Gone] /\ UNCHANGED <<asking, streaming, questions>>
        /\ \/ shown = c /\ shown' = 0 /\ bubbles' = 0 /\ history' = <<>> /\ Moving
           \/ shown # c /\ UNCHANGED <<shown, bubbles, history, moved>>
    BY <1>9 DEF DeleteSession, Deleted
  <2>2. rows' \in [Conversation -> Seq(Message) \cup {Gone}] /\ \A d \in Conversation \ {c} : rows'[d] = rows[d]
    BY <1>0, <2>1
  <2>3. shown' \in Existing' \cup {0}
    BY <1>0, <2>1, <2>2 DEF Existing
  <2>4. bubbles' \in Nat /\ history' \in Seq(HistoryItem) /\ moved' \in BOOLEAN
    <3>1. CASE UNCHANGED <<shown, bubbles, history, moved>>
      BY <1>0, <3>1
    <3>2. CASE bubbles' = 0 /\ history' = <<>> /\ Moving
      BY <1>1, <1>3, <3>2
    <3> QED
      BY <2>1, <3>1, <3>2
  <2> QED
    BY <1>0, <2>1, <2>2, <2>3, <2>4 DEF ChatTypes
<1>10. CASE Send
  <2>1. /\ questions < MaxQuestions /\ questions' = questions + 1
        /\ asking' = [NotAsking EXCEPT !.at = "serve", !.q = questions + 1]
        /\ UNCHANGED <<rows, shown, bubbles, history, streaming, moved>>
    BY <1>10 DEF Send
  <2>2. questions + 1 \in 0 .. MaxQuestions /\ questions + 1 # 0
    BY <1>0, <2>1
  <2>3. asking' \in QuestionUnderWay /\ asking'.q = questions + 1
    BY <1>2, <2>1, <2>2 DEF QuestionUnderWay
  <2> QED
    BY <1>0, <2>1, <2>2, <2>3 DEF ChatTypes, Existing
<1>11. CASE ServeFails
  BY <1>0, <1>2, <1>11 DEF ServeFails, ChatTypes, Existing
<1>12. CASE ServeReady
  <2>1. UNCHANGED <<bubbles, history, streaming, questions, moved>> /\ asking.at = "serve"
    BY <1>12 DEF ServeReady
  <2>2. rows' \in [Conversation -> Seq(Message) \cup {Gone}] /\ shown' \in Existing' \cup {0}
    <3>1. CASE UNCHANGED <<rows, shown>>
      BY <1>0, <3>1 DEF Existing
    <3>2. CASE NextConversation \in Conversation /\ rows' = Created /\ shown' = NextConversation
      BY <1>5, <3>2
    <3> QED
      BY <1>12, <3>1, <3>2 DEF ServeReady
  <2>3. asking' \in QuestionUnderWay /\ asking'.q = asking.q
    <3>1. CASE asking' = [asking EXCEPT !.at = "ask"]
      BY <1>0, <3>1 DEF QuestionUnderWay
    <3>2. CASE /\ Len(history) > KeepMessages
               /\ LET cut == Len(history) - KeepMessages
                  IN asking' = [asking EXCEPT !.at = "summary", !.summary =
                                  [old |-> SubSeq(history, 1, cut),
                                   recent |-> SubSeq(history, cut + 1, Len(history))]]
      <4> DEFINE cut == Len(history) - KeepMessages
                 old == SubSeq(history, 1, cut)
                 recent == SubSeq(history, cut + 1, Len(history))
      <4>1. cut \in Nat /\ cut <= Len(history) /\ Len(history) \in Nat
        BY <1>0, <3>2
      <4>2. old \in Seq(HistoryItem) /\ recent \in Seq(HistoryItem)
        BY <1>0, <4>1
      <4>3. asking' = [asking EXCEPT !.at = "summary", !.summary = [old |-> old, recent |-> recent]]
        BY <3>2
      <4> HIDE DEF cut, old, recent
      <4> QED
        BY <1>0, <4>2, <4>3 DEF QuestionUnderWay
    <3> QED
      BY <1>12, <3>1, <3>2 DEF ServeReady
  <2> QED
    BY <1>0, <2>1, <2>2, <2>3 DEF ChatTypes
<1>13. CASE Summarised
  <2> DEFINE said == <<"summary", Messages(asking.summary.old)>>
  <2>1. /\ asking.at = "summary" /\ history' = <<said>> \o asking.summary.recent /\ bubbles' = bubbles + 1
        /\ asking' = [asking EXCEPT !.at = "ask", !.summary = NoSummary]
        /\ UNCHANGED <<rows, shown, streaming, questions, moved>>
    BY <1>13 DEF Summarised
  <2>2. asking.summary.old \in Seq(HistoryItem) /\ asking.summary.recent \in Seq(HistoryItem)
    BY <1>0 DEF QuestionUnderWay
  <2>3. Messages(asking.summary.old) \subseteq Message
    <3>1. \A i \in DOMAIN asking.summary.old : ItemOf(asking.summary.old[i]) \subseteq Message
      BY <2>2, MessageIs
    <3> QED
      BY <3>1, MessagesAre
  <2>4. said \in HistoryItem
    BY <2>3 DEF HistoryItem
  <2> HIDE DEF said
  <2>5. <<said>> \in Seq(HistoryItem)
    BY <2>4
  <2>6. history' \in Seq(HistoryItem)
    BY <2>1, <2>2, <2>5, ConcatIs
  <2>7. asking' \in QuestionUnderWay /\ asking'.q = asking.q
    BY <1>0, <1>1, <2>1 DEF QuestionUnderWay, NoSummary
  <2> QED
    BY <1>0, <2>1, <2>6, <2>7 DEF ChatTypes, Existing
<1>14. CASE SummaryFails
  BY <1>0, <1>2, <1>14 DEF SummaryFails, ChatTypes, Existing
<1>15. CASE Ask
  <2>1. /\ asking.at = "ask" /\ bubbles' = bubbles + 2 /\ streaming' = TRUE
        /\ UNCHANGED <<shown, history, questions, moved>>
    BY <1>15 DEF Ask
  <2>2. CASE shown = 0
    BY <1>0, <1>2, <1>15, <2>1, <2>2 DEF Ask, ChatTypes, Existing
  <2>3. CASE shown # 0
    <3>1. /\ shown \in Existing /\ rows' = Appended(shown, User(asking.q))
          /\ asking' = [asking EXCEPT !.at = "answer"]
      BY <1>0, <1>15, <2>3 DEF Ask
    <3>2. User(asking.q) \in Message
      <4>1. asking.q \in 1 .. MaxQuestions
        BY <1>0, <2>1 DEF QuestionUnderWay
      <4> QED
        BY <4>1, MessageIs
    <3>3. rows' \in [Conversation -> Seq(Message) \cup {Gone}] /\ shown' \in Existing'
      BY <1>6, <2>1, <3>1, <3>2
    <3>4. asking' \in QuestionUnderWay /\ asking'.q = asking.q
      BY <1>0, <3>1 DEF QuestionUnderWay
    <3> QED
      BY <1>0, <2>1, <3>3, <3>4 DEF ChatTypes
  <2> QED
    BY <2>2, <2>3
<1>16. CASE AnswerDone
  <2>1. asking.at = "answer" /\ asking' = NotAsking /\ UNCHANGED <<shown, bubbles, questions, moved>>
    BY <1>16 DEF AnswerDone
  <2>2. User(asking.q) \in Message /\ Assistant(asking.q) \in Message
    <3>1. asking.q \in 1 .. MaxQuestions
      BY <1>0, <2>1 DEF QuestionUnderWay
    <3> QED
      BY <3>1, MessageIs
  <2>3. CASE bubbles = 0
    BY <1>0, <1>2, <1>16, <2>1, <2>3 DEF AnswerDone, ChatTypes, Existing
  <2>4. CASE bubbles # 0
    <3>1. /\ streaming' = FALSE /\ history' = history \o <<User(asking.q), Assistant(asking.q)>>
          /\ rows' = IF shown = 0 THEN rows ELSE Appended(shown, Assistant(asking.q))
      BY <1>16, <2>4 DEF AnswerDone
    <3>2. history' \in Seq(HistoryItem)
      <4>1. User(asking.q) \in HistoryItem /\ Assistant(asking.q) \in HistoryItem
        BY <2>2, MessageIs
      <4>2. <<User(asking.q), Assistant(asking.q)>> \in Seq(HistoryItem)
        BY <4>1
      <4> QED
        BY <1>0, <3>1, <4>2, ConcatIs
    <3>3. rows' \in [Conversation -> Seq(Message) \cup {Gone}] /\ shown' \in Existing' \cup {0}
      <4>1. CASE shown = 0
        BY <1>0, <2>1, <3>1, <4>1
      <4>2. CASE shown # 0
        BY <1>0, <1>6, <2>1, <2>2, <3>1, <4>2
      <4> QED
        BY <4>1, <4>2
    <3> QED
      BY <1>0, <1>2, <2>1, <3>1, <3>2, <3>3 DEF ChatTypes
  <2> QED
    BY <2>3, <2>4
<1>17. CASE AnswerFails
  BY <1>0, <1>2, <1>17 DEF AnswerFails, ChatTypes, Existing
<1>18. CASE Leaves
  BY <1>0, <1>1, <1>2, <1>18 DEF Leaves, ChatTypes, Existing
<1>19. CASE UNCHANGED chatVars
  BY <1>0, <1>19 DEF chatVars, ChatTypes, Existing
<1> QED
  BY <1>7, <1>8, <1>9, <1>10, <1>11, <1>12, <1>13, <1>14, <1>15, <1>16, <1>17, <1>18, <1>19
  DEF ChatNext, ChatStep

\* What the screen is not told of is a mark of its own.
LEMMA NextFailed == failed \in BOOLEAN /\ [ChatNext]_chatVars => failed' \in BOOLEAN
BY DEF ChatNext, ChatStep, NewSession, SelectSession, DeleteSession, Send, ServeFails, ServeReady,
       Summarised, SummaryFails, Ask, AnswerDone, AnswerFails, Leaves, chatVars

LEMMA FollowsAppend ==
  ASSUME NEW r \in Seq(Message), Follows(r), NEW m \in Message,
         m[1] = "assistant" => r # <<>> /\ r[Len(r)] = User(m[2])
  PROVE  Follows(Append(r, m))
<1> DEFINE s == Append(r, m)
<1>1. /\ Len(r) \in Nat /\ DOMAIN s = 1 .. Len(r) + 1 /\ DOMAIN r = 1 .. Len(r)
      /\ \A i \in DOMAIN r : s[i] = r[i]
      /\ s[Len(r) + 1] = m
  BY AppendIs
<1> HIDE DEF s
<1> SUFFICES ASSUME NEW i \in DOMAIN s, s[i][1] = "assistant" PROVE i > 1 /\ s[i - 1] = User(s[i][2])
  BY DEF Follows, s
<1>2. CASE i \in DOMAIN r
  <2>1. i > 1 /\ r[i - 1] = User(r[i][2])
    BY <1>1, <1>2 DEF Follows
  <2>2. i - 1 \in DOMAIN r
    BY <1>1, <1>2, <2>1
  <2> QED
    BY <1>1, <1>2, <2>1, <2>2
<1>3. CASE i = Len(r) + 1
  <2>1. r # <<>> /\ r[Len(r)] = User(m[2])
    BY <1>1, <1>3
  <2>2. Len(r) # 0 /\ Len(r) \in DOMAIN r
    BY <1>1, <2>1
  <2>3. i > 1 /\ i - 1 = Len(r)
    BY <1>1, <1>3, <2>2
  <2> QED
    BY <1>1, <1>3, <2>1, <2>2, <2>3
<1> QED
  BY <1>1, <1>2, <1>3

\* A conversation that is loaded is a history that keeps its questions.
LEMMA KeepsLoaded ==
  ASSUME NEW r \in Seq(Message), Follows(r) PROVE KeepsQuestions(r)
<1> SUFFICES ASSUME NEW i \in DOMAIN r, r[i][1] = "assistant"
             PROVE  \E k \in DOMAIN r : k < i /\ User(r[i][2]) \in ItemOf(r[k])
  BY DEF KeepsQuestions
<1>1. i > 1 /\ r[i - 1] = User(r[i][2]) /\ i \in 1 .. Len(r) /\ Len(r) \in Nat
  BY DEF Follows
<1>2. i - 1 \in DOMAIN r /\ i - 1 < i
  BY <1>1
<1>3. User(r[i][2]) \in ItemOf(r[i - 1])
  BY <1>1, MessageIs
<1> QED
  BY <1>2, <1>3

\* What the summary of the first part leaves.
LEMMA KeepsSummary ==
  ASSUME NEW h \in Seq(HistoryItem), NEW old \in Seq(HistoryItem), NEW recent \in Seq(HistoryItem),
         Parts(old, recent, h), KeepsQuestions(h)
  PROVE  LET said == << <<"summary", Messages(old)>> >> \o recent
         IN  KeepsQuestions(said) /\ Messages(said) \subseteq Messages(h)
<1> DEFINE first == <<"summary", Messages(old)>>
           said == <<first>> \o recent
<1>1. Messages(old) \subseteq Message
  <2>1. \A i \in DOMAIN old : ItemOf(old[i]) \subseteq Message
    BY MessageIs
  <2> QED
    BY <2>1, MessagesAre
<1>2. first \in HistoryItem
  BY <1>1 DEF HistoryItem
<1>3. ItemOf(first) = Messages(old) /\ first[1] = "summary"
  BY DEF ItemOf
<1> HIDE DEF first
<1>4. <<first>> \in Seq(HistoryItem) /\ Len(<<first>>) = 1 /\ <<first>>[1] = first
  BY <1>2
<1>5. /\ Len(recent) \in Nat /\ DOMAIN said = 1 .. 1 + Len(recent) /\ DOMAIN recent = 1 .. Len(recent)
      /\ said[1] = first
      /\ \A i \in DOMAIN recent : said[1 + i] = recent[i]
  BY <1>4, ConcatIs
<1> HIDE DEF said
<1>6. /\ Len(old) \in Nat /\ DOMAIN old = 1 .. Len(old) /\ Len(h) \in Nat /\ DOMAIN h = 1 .. Len(h)
      /\ Len(old) + Len(recent) = Len(h)
      /\ \A i \in DOMAIN old : old[i] = h[i]
      /\ \A i \in DOMAIN recent : recent[i] = h[Len(old) + i]
  BY DEF Parts
<1>7. \A j \in DOMAIN said : j = 1 \/ (j - 1 \in DOMAIN recent /\ said[j] = recent[j - 1])
  <2> SUFFICES ASSUME NEW j \in DOMAIN said, j # 1 PROVE j - 1 \in DOMAIN recent /\ said[j] = recent[j - 1]
    OBVIOUS
  <2>1. j - 1 \in DOMAIN recent /\ 1 + (j - 1) = j
    BY <1>5
  <2> QED
    BY <1>5, <2>1
<1>8. \A i \in DOMAIN h : i \in DOMAIN old \/ i - Len(old) \in DOMAIN recent
  BY <1>5, <1>6
<1>9. Messages(said) \subseteq Messages(h)
  <2>1. \A i \in DOMAIN old : ItemOf(old[i]) \subseteq Messages(h)
    <3> SUFFICES ASSUME NEW i \in DOMAIN old PROVE ItemOf(old[i]) \subseteq Messages(h)
      OBVIOUS
    <3>1. i \in DOMAIN h /\ old[i] = h[i]
      BY <1>5, <1>6
    <3> QED
      BY <3>1, MessagesAre
  <2>2. \A i \in DOMAIN recent : ItemOf(recent[i]) \subseteq Messages(h)
    <3> SUFFICES ASSUME NEW i \in DOMAIN recent PROVE ItemOf(recent[i]) \subseteq Messages(h)
      OBVIOUS
    <3>1. Len(old) + i \in DOMAIN h /\ recent[i] = h[Len(old) + i]
      BY <1>5, <1>6
    <3> QED
      BY <3>1, MessagesAre
  <2>3. Messages(old) \subseteq Messages(h)
    BY <2>1, MessagesAre
  <2>4. \A j \in DOMAIN said : ItemOf(said[j]) \subseteq Messages(h)
    BY <1>3, <1>5, <1>7, <2>2, <2>3
  <2> QED
    BY <2>4, MessagesAre
<1>10. KeepsQuestions(said)
  <2> SUFFICES ASSUME NEW j \in DOMAIN said, said[j][1] = "assistant"
               PROVE  \E k \in DOMAIN said : k < j /\ User(said[j][2]) \in ItemOf(said[k])
    BY DEF KeepsQuestions
  <2>1. j # 1
    BY <1>3, <1>5
  <2>2. j - 1 \in DOMAIN recent /\ said[j] = recent[j - 1] /\ j \in Nat
    BY <1>5, <1>7, <2>1
  <2> DEFINE i == Len(old) + (j - 1)
  <2>3. i \in DOMAIN h /\ h[i] = said[j] /\ i \in Nat
    BY <1>5, <1>6, <2>2
  <2>4. PICK m \in DOMAIN h : m < i /\ User(said[j][2]) \in ItemOf(h[m])
    BY <2>3 DEF KeepsQuestions
  <2>5. m \in Nat
    BY <1>6
  <2>6. CASE m \in DOMAIN old
    <3>1. User(said[j][2]) \in ItemOf(old[m])
      BY <1>6, <2>4, <2>6
    <3>2. User(said[j][2]) \in ItemOf(said[1])
      BY <1>3, <1>5, <2>6, <3>1, MessagesAre
    <3>3. 1 \in DOMAIN said /\ 1 < j
      BY <1>5, <2>1
    <3> QED
      BY <3>2, <3>3
  <2>7. CASE m - Len(old) \in DOMAIN recent
    <3>1. recent[m - Len(old)] = h[Len(old) + (m - Len(old))]
      BY <1>6, <2>7
    <3>2. Len(old) + (m - Len(old)) = m
      BY <1>6, <2>5
    <3> DEFINE k == 1 + (m - Len(old))
    <3>3. k \in DOMAIN said /\ said[k] = recent[m - Len(old)] /\ k < j
      BY <1>5, <1>6, <2>2, <2>4, <2>5, <2>7
    <3> QED
      BY <2>4, <3>1, <3>2, <3>3
  <2> QED
    BY <1>8, <2>6, <2>7
<1> QED
  BY <1>9, <1>10 DEF said, first

\* What an answer adds.
LEMMA KeepsAnswer ==
  ASSUME NEW h \in Seq(HistoryItem), KeepsQuestions(h), NEW q \in 1 .. MaxQuestions
  PROVE  LET t == h \o <<User(q), Assistant(q)>>
         IN  KeepsQuestions(t) /\ Messages(t) \subseteq Messages(h) \cup {User(q), Assistant(q)}
<1> DEFINE two == <<User(q), Assistant(q)>>
           t == h \o two
<1>1. User(q) \in HistoryItem /\ Assistant(q) \in HistoryItem
  BY MessageIs
<1>2. two \in Seq(HistoryItem) /\ Len(two) = 2 /\ two[1] = User(q) /\ two[2] = Assistant(q)
  BY <1>1
<1> HIDE DEF two
<1>3. /\ Len(h) \in Nat /\ DOMAIN t = 1 .. Len(h) + 2 /\ DOMAIN h = 1 .. Len(h) /\ DOMAIN two = 1 .. 2
      /\ \A i \in DOMAIN h : t[i] = h[i]
      /\ \A i \in DOMAIN two : t[Len(h) + i] = two[i]
  <2>1. /\ Len(h) \in Nat /\ DOMAIN t = 1 .. Len(h) + Len(two)
        /\ DOMAIN h = 1 .. Len(h) /\ DOMAIN two = 1 .. Len(two)
    BY <1>2, ConcatIs
  <2>2. /\ \A i \in DOMAIN h : t[i] = h[i]
        /\ \A i \in DOMAIN two : t[Len(h) + i] = two[i]
    BY <1>2, ConcatIs
  <2> QED
    BY <1>2, <2>1, <2>2
<1> HIDE DEF t
<1>4. t[Len(h) + 1] = User(q) /\ t[Len(h) + 2] = Assistant(q)
  BY <1>2, <1>3
<1>5. \A i \in DOMAIN t : i \in DOMAIN h \/ i = Len(h) + 1 \/ i = Len(h) + 2
  BY <1>3
<1>6. Messages(t) \subseteq Messages(h) \cup {User(q), Assistant(q)}
  <2>1. \A i \in DOMAIN t : ItemOf(t[i]) \subseteq Messages(h) \cup {User(q), Assistant(q)}
    <3> SUFFICES ASSUME NEW i \in DOMAIN t
                 PROVE  ItemOf(t[i]) \subseteq Messages(h) \cup {User(q), Assistant(q)}
      OBVIOUS
    <3>1. CASE i \in DOMAIN h
      BY <1>3, <3>1, MessagesAre
    <3>2. CASE i = Len(h) + 1
      BY <1>4, <3>2, MessageIs
    <3>3. CASE i = Len(h) + 2
      BY <1>4, <3>3, MessageIs
    <3> QED
      BY <1>5, <3>1, <3>2, <3>3
  <2> QED
    BY <2>1, MessagesAre
<1>7. KeepsQuestions(t)
  <2> SUFFICES ASSUME NEW i \in DOMAIN t, t[i][1] = "assistant"
               PROVE  \E k \in DOMAIN t : k < i /\ User(t[i][2]) \in ItemOf(t[k])
    BY DEF KeepsQuestions
  <2>1. CASE i \in DOMAIN h
    <3>1. PICK k \in DOMAIN h : k < i /\ User(h[i][2]) \in ItemOf(h[k])
      BY <1>3, <2>1 DEF KeepsQuestions
    <3>2. k \in DOMAIN t
      BY <1>3
    <3> QED
      BY <1>3, <2>1, <3>1, <3>2
  <2>2. CASE i = Len(h) + 1
    BY <1>4, <2>2, MessageIs
  <2>3. CASE i = Len(h) + 2
    <3>1. User(t[i][2]) = User(q) /\ User(q) \in ItemOf(t[Len(h) + 1])
      BY <1>4, <2>3, MessageIs
    <3>2. Len(h) + 1 \in DOMAIN t /\ Len(h) + 1 < i
      BY <1>3, <2>3
    <3> QED
      BY <3>1, <3>2
  <2> QED
    BY <1>5, <2>1, <2>2, <2>3
<1> QED
  BY <1>6, <1>7 DEF t, two

LEMMA NextChatOwned == ChatTypes /\ ChatOwned /\ [ChatNext]_chatVars => ChatOwned'
<1> SUFFICES ASSUME ChatTypes, ChatOwned, [ChatNext]_chatVars, ~moved' PROVE OwnedNow'
  BY DEF ChatOwned
<1>0. /\ rows \in [Conversation -> Seq(Message) \cup {Gone}]
      /\ shown \in Existing \cup {0} /\ history \in Seq(HistoryItem)
      /\ asking \in QuestionUnderWay
      /\ asking.at # "rest" => asking.q \in 1 .. MaxQuestions
      /\ 0 \notin Conversation
  BY ChatAssumption DEF ChatTypes, QuestionUnderWay
<1>1. ~moved /\ OwnedNow
  <2>1. moved => moved'
    BY DEF ChatNext, ChatStep, NewSession, SelectSession, DeleteSession, Send, ServeFails, ServeReady,
           Summarised, SummaryFails, Ask, AnswerDone, AnswerFails, Leaves, Moving, chatVars
  <2> QED
    BY <2>1 DEF ChatOwned
<1>2. /\ IF shown = 0 THEN history = <<>> ELSE Messages(history) \subseteq Messages(rows[shown])
      /\ \A c \in Existing : Follows(rows[c])
      /\ KeepsQuestions(history)
      /\ AskingFits
  BY <1>1 DEF OwnedNow, OfConversation
<1>3. Moving => asking.at = "rest"
  BY DEF Moving
<1>4. \A c \in Existing : rows[c] \in Seq(Message) /\ c \in Conversation
  BY <1>0 DEF Existing
<1>5. Messages(<<>>) = {} /\ KeepsQuestions(<<>>) /\ Follows(<<>>)
  BY DEF Messages, KeepsQuestions, Follows
<1>6. ASSUME NextConversation \in Conversation, rows' = Created
      PROVE  /\ \A c \in Existing' : Follows(rows'[c])
             /\ \A c \in Conversation : c # NextConversation => rows'[c] = rows[c]
  <2>1. rows' = [rows EXCEPT ![NextConversation] = <<>>]
    BY <1>6 DEF Created
  <2>2. \A c \in Conversation : rows'[c] = IF c = NextConversation THEN <<>> ELSE rows[c]
    BY <1>0, <2>1
  <2> QED
    BY <1>2, <1>5, <2>2 DEF Existing
<1>7. ASSUME NEW c \in Existing, NEW m \in Message, rows' = Appended(c, m),
             m[1] = "assistant" => rows[c] # <<>> /\ rows[c][Len(rows[c])] = User(m[2])
      PROVE  /\ \A d \in Existing' : Follows(rows'[d])
             /\ rows'[c] = Append(rows[c], m)
             /\ Messages(rows[c]) \subseteq Messages(rows'[c]) /\ m \in Messages(rows'[c])
  <2>1. rows' = [rows EXCEPT ![c] = Append(rows[c], m)]
    BY <1>7 DEF Appended
  <2>2. /\ rows'[c] = Append(rows[c], m)
        /\ \A d \in Conversation \ {c} : rows'[d] = rows[d]
    BY <1>0, <1>4, <2>1
  <2>3. rows[c] \in Seq(Message) /\ Follows(rows[c])
    BY <1>2, <1>4
  <2>4. Follows(Append(rows[c], m))
    BY <1>7, <2>3, FollowsAppend
  <2>5. Messages(rows[c]) \subseteq Messages(Append(rows[c], m)) /\ m \in Messages(Append(rows[c], m))
    BY <2>3, AppendedMessages
  <2> QED
    BY <1>2, <2>2, <2>4, <2>5 DEF Existing
<1>8. CASE NewSession
  <2>1. /\ NextConversation \in Conversation /\ rows' = Created /\ shown' = NextConversation
        /\ history' = <<>> /\ Moving /\ asking' = asking
    BY <1>8 DEF NewSession
  <2>2. asking'.at = "rest"
    BY <1>3, <2>1
  <2>3. AskingFits'
    BY <2>2 DEF AskingFits
  <2> QED
    BY <1>5, <1>6, <2>1, <2>3 DEF OwnedNow, OfConversation
<1>9. ASSUME NEW c \in Conversation, SelectSession(c) PROVE OwnedNow'
  <2>1. c \in Existing /\ shown' = c /\ history' = rows[c] /\ Moving /\ UNCHANGED <<rows, asking>>
    BY <1>9 DEF SelectSession, Loaded
  <2>2. asking'.at = "rest" /\ Existing' = Existing
    BY <1>3, <2>1 DEF Existing
  <2>3. AskingFits'
    BY <2>2 DEF AskingFits
  <2>4. KeepsQuestions(history')
    BY <1>2, <1>4, <2>1, KeepsLoaded
  <2> QED
    BY <1>0, <1>2, <2>1, <2>2, <2>3, <2>4 DEF OwnedNow, OfConversation
<1>10. ASSUME NEW c \in Conversation, DeleteSession(c) PROVE OwnedNow'
  <2>1. rows' = [rows EXCEPT ![c] = Gone] /\ asking' = asking
    BY <1>10 DEF DeleteSession, Deleted
  <2>2. rows'[c] = Gone /\ \A d \in Conversation \ {c} : rows'[d] = rows[d]
    BY <1>0, <2>1
  <2>3. \A d \in Existing' : Follows(rows'[d])
    BY <1>2, <2>2 DEF Existing
  <2>4. CASE shown = c
    <3>1. shown' = 0 /\ history' = <<>> /\ Moving
      BY <1>10, <2>4 DEF DeleteSession
    <3>2. asking'.at = "rest"
      BY <1>3, <2>1, <3>1
    <3>3. AskingFits'
      BY <3>2 DEF AskingFits
    <3> QED
      BY <1>5, <2>3, <3>1, <3>3 DEF OwnedNow
  <2>5. CASE shown # c
    <3>1. UNCHANGED <<shown, history>>
      BY <1>10, <2>5 DEF DeleteSession
    <3>2. shown # 0 => rows'[shown] = rows[shown]
      BY <1>0, <1>4, <2>2, <2>5
    <3>3. AskingFits'
      BY <1>2, <2>1, <3>1, <3>2 DEF AskingFits
    <3> QED
      BY <1>2, <2>3, <3>1, <3>2, <3>3 DEF OwnedNow, OfConversation
  <2> QED
    BY <2>4, <2>5
<1>11. ASSUME UNCHANGED <<rows, shown, history>>,
              asking'.at \in {"rest", "serve"} \/ asking' = asking
       PROVE  OwnedNow'
  <2>1. AskingFits'
    BY <1>2, <1>11 DEF AskingFits
  <2> QED
    BY <1>2, <1>11, <2>1 DEF OwnedNow, OfConversation, Existing
<1>12. CASE Send
  BY <1>11, <1>12 DEF Send, NotAsking
<1>13. CASE ServeFails
  BY <1>11, <1>13 DEF ServeFails, NotAsking
<1>14. CASE SummaryFails
  BY <1>11, <1>14 DEF SummaryFails, NotAsking
<1>15. CASE AnswerFails
  BY <1>11, <1>15 DEF AnswerFails, NotAsking
<1>16. CASE UNCHANGED chatVars
  BY <1>11, <1>16 DEF chatVars
<1>17. CASE Leaves
  <2>1. shown' = 0 /\ history' = <<>> /\ asking' = NotAsking /\ rows' = rows
    BY <1>17 DEF Leaves
  <2>2. AskingFits'
    BY <2>1 DEF AskingFits, NotAsking
  <2> QED
    BY <1>2, <1>5, <2>1, <2>2 DEF OwnedNow, Existing
<1>18. CASE ServeReady
  <2>1. history' = history /\ asking.at = "serve"
    BY <1>18 DEF ServeReady
  <2>2. /\ shown' # 0 /\ Messages(history) \subseteq Messages(rows'[shown'])
        /\ \A c \in Existing' : Follows(rows'[c])
    <3>1. CASE shown # 0 /\ UNCHANGED <<rows, shown>>
      BY <1>2, <3>1 DEF Existing
    <3>2. CASE shown = 0 /\ NextConversation \in Conversation /\ rows' = Created /\ shown' = NextConversation
      BY <1>0, <1>2, <1>5, <1>6, <3>2
    <3> QED
      BY <1>18, <3>1, <3>2 DEF ServeReady
  <2>3. AskingFits'
    <3>1. CASE asking' = [asking EXCEPT !.at = "ask"]
      <4>1. asking'.at = "ask"
        BY <1>0, <3>1 DEF QuestionUnderWay
      <4> QED
        BY <2>2, <4>1 DEF AskingFits
    <3>2. CASE /\ Len(history) > KeepMessages
               /\ LET cut == Len(history) - KeepMessages
                  IN asking' = [asking EXCEPT !.at = "summary", !.summary =
                                  [old |-> SubSeq(history, 1, cut),
                                   recent |-> SubSeq(history, cut + 1, Len(history))]]
      <4> DEFINE cut == Len(history) - KeepMessages
                 old == SubSeq(history, 1, cut)
                 recent == SubSeq(history, cut + 1, Len(history))
      <4>1. cut \in Nat /\ cut <= Len(history) /\ Len(history) \in Nat
        BY <1>0, <3>2, ChatAssumption
      <4>2. asking' = [asking EXCEPT !.at = "summary", !.summary = [old |-> old, recent |-> recent]]
        BY <3>2
      <4> HIDE DEF cut
      <4>3. /\ Len(old) = cut /\ DOMAIN old = 1 .. cut /\ \A i \in 1 .. cut : old[i] = history[i]
        BY <1>0, <4>1
      <4>4. /\ Len(recent) = Len(history) - cut /\ DOMAIN recent = 1 .. Len(history) - cut
            /\ \A i \in 1 .. Len(history) - cut : recent[i] = history[cut + i]
        <5>1. \A i \in 1 .. Len(history) - cut : recent[i] = history[(cut + 1) + i - 1] /\ (cut + 1) + i - 1 = cut + i
          BY <1>0, <4>1
        <5>2. Len(recent) = Len(history) - cut /\ DOMAIN recent = 1 .. Len(history) - cut
          BY <1>0, <4>1
        <5> QED
          BY <5>1, <5>2
      <4> HIDE DEF old, recent
      <4>5. Parts(old, recent, history)
        BY <4>1, <4>3, <4>4 DEF Parts
      <4>6. asking'.at = "summary" /\ asking'.summary.old = old /\ asking'.summary.recent = recent
        BY <1>0, <4>2 DEF QuestionUnderWay
      <4> QED
        BY <2>1, <2>2, <4>5, <4>6 DEF AskingFits
    <3> QED
      BY <1>18, <3>1, <3>2 DEF ServeReady
  <2> QED
    BY <1>2, <2>1, <2>2, <2>3 DEF OwnedNow, OfConversation
<1>19. CASE Summarised
  <2> DEFINE old == asking.summary.old
             recent == asking.summary.recent
             said == << <<"summary", Messages(old)>> >> \o recent
  <2>1. /\ asking.at = "summary" /\ history' = said /\ UNCHANGED <<rows, shown>>
        /\ asking' = [asking EXCEPT !.at = "ask", !.summary = NoSummary]
    BY <1>19 DEF Summarised
  <2>2. old \in Seq(HistoryItem) /\ recent \in Seq(HistoryItem)
    BY <1>0 DEF QuestionUnderWay
  <2>3. shown # 0 /\ Parts(old, recent, history)
    BY <1>2, <2>1 DEF AskingFits
  <2> HIDE DEF old, recent
  <2>4. KeepsQuestions(said) /\ Messages(said) \subseteq Messages(history)
    BY <1>0, <1>2, <2>2, <2>3, KeepsSummary
  <2> HIDE DEF said
  <2>5. AskingFits'
    <3>1. asking'.at = "ask"
      BY <1>0, <2>1 DEF QuestionUnderWay
    <3> QED
      BY <2>1, <2>3, <3>1 DEF AskingFits
  <2>6. Messages(history') \subseteq Messages(rows'[shown'])
    BY <1>2, <2>1, <2>3, <2>4
  <2> QED
    BY <1>2, <2>1, <2>3, <2>4, <2>5, <2>6 DEF OwnedNow, OfConversation, Existing
<1>20. CASE Ask
  <2>1. asking.at = "ask" /\ shown # 0 /\ UNCHANGED <<shown, history>>
    BY <1>2, <1>20 DEF Ask, AskingFits
  <2> DEFINE m == User(asking.q)
  <2>2. rows' = Appended(shown, m) /\ asking' = [asking EXCEPT !.at = "answer"] /\ shown \in Existing
    BY <1>0, <1>20, <2>1 DEF Ask
  <2>3. m \in Message /\ m[1] = "user" /\ asking'.at = "answer" /\ asking'.q = asking.q
    <3>1. asking.q \in 1 .. MaxQuestions
      BY <1>0, <2>1
    <3>2. m \in Message /\ m[1] = "user"
      BY <3>1, MessageIs
    <3> HIDE DEF m
    <3>3. asking'.at = "answer" /\ asking'.q = asking.q
      BY <1>0, <2>2 DEF QuestionUnderWay
    <3> QED
      BY <3>2, <3>3
  <2>4. /\ \A d \in Existing' : Follows(rows'[d])
        /\ rows'[shown] = Append(rows[shown], m)
        /\ Messages(rows[shown]) \subseteq Messages(rows'[shown])
    BY <1>7, <2>2, <2>3
  <2>5. rows'[shown] # <<>> /\ rows'[shown][Len(rows'[shown])] = m
    <3>1. rows[shown] \in Seq(Message)
      BY <1>4, <2>2
    <3> HIDE DEF m
    <3>2. /\ Append(rows[shown], m) # <<>> /\ Len(Append(rows[shown], m)) = Len(rows[shown]) + 1
          /\ Append(rows[shown], m)[Len(rows[shown]) + 1] = m
      BY <2>3, <3>1, AppendIs
    <3> QED
      BY <2>4, <3>2
  <2>6. AskingFits'
    BY <2>1, <2>3, <2>5 DEF AskingFits
  <2> QED
    BY <1>2, <2>1, <2>4, <2>6 DEF OwnedNow, OfConversation
<1>21. CASE AnswerDone
  <2>1. /\ asking.at = "answer" /\ asking' = NotAsking /\ shown' = shown
        /\ shown # 0 /\ shown \in Existing
        /\ rows[shown] # <<>> /\ rows[shown][Len(rows[shown])] = User(asking.q)
    BY <1>0, <1>2, <1>21 DEF AnswerDone, AskingFits
  <2>2. CASE bubbles = 0
    BY <1>11, <1>21, <2>1, <2>2 DEF AnswerDone, NotAsking
  <2>3. CASE bubbles # 0
    <3> DEFINE q == asking.q
               m == Assistant(q)
               t == history \o <<User(q), Assistant(q)>>
    <3>1. history' = t /\ rows' = Appended(shown, m)
      BY <1>21, <2>1, <2>3 DEF AnswerDone
    <3>2. q \in 1 .. MaxQuestions
      <4>1. asking.at # "rest"
        BY <2>1
      <4> QED
        BY <1>0, <4>1
    <3>3. m \in Message /\ m[2] = q
      BY <3>2, MessageIs
    <3> HIDE DEF q
    <3>4. KeepsQuestions(t) /\ Messages(t) \subseteq Messages(history) \cup {User(q), m}
      BY <1>0, <1>2, <3>2, KeepsAnswer
    <3> HIDE DEF t
    <3>5. rows[shown] # <<>> /\ rows[shown][Len(rows[shown])] = User(q)
      BY <2>1 DEF q
    <3> HIDE DEF m
    <3>6. /\ \A d \in Existing' : Follows(rows'[d])
          /\ Messages(rows[shown]) \subseteq Messages(rows'[shown]) /\ m \in Messages(rows'[shown])
      BY <1>7, <2>1, <3>1, <3>3, <3>5
    <3>7. User(q) \in Messages(rows[shown])
      <4>1. rows[shown] \in Seq(Message)
        BY <1>4, <2>1
      <4>2. Len(rows[shown]) \in DOMAIN rows[shown]
        BY <3>5, <4>1
      <4>3. User(q) \in ItemOf(rows[shown][Len(rows[shown])])
        BY <3>5, MessageIs
      <4> QED
        BY <4>2, <4>3, MessagesAre
    <3>8. Messages(history') \subseteq Messages(rows'[shown'])
      BY <1>2, <2>1, <3>1, <3>4, <3>6, <3>7
    <3>9. AskingFits'
      BY <2>1 DEF AskingFits, NotAsking
    <3> QED
      BY <2>1, <3>1, <3>4, <3>6, <3>8, <3>9 DEF OwnedNow, OfConversation
  <2> QED
    BY <2>2, <2>3
<1> QED
  BY <1>8, <1>9, <1>10, <1>12, <1>13, <1>14, <1>15, <1>16, <1>17, <1>18, <1>19, <1>20, <1>21
  DEF ChatNext, ChatStep

\* A question is sent with messages of its own conversation, none of them an answer
\* without its question, and its answer is stored behind it there, whatever is
\* created, opened, deleted, summarised or fails meanwhile, as long as the user did
\* not move to another conversation during a question (chat_screen.dart, api.rs).
THEOREM ConversationsStayOwn == ChatSpec => []ConversationsAreOwn
<1> DEFINE CInv == ChatTypes /\ ChatOwned /\ failed \in BOOLEAN
<1>1. ChatInit => CInv
  <2> SUFFICES ASSUME ChatInit PROVE CInv
    OBVIOUS
  <2>1. <<>> \in Seq(HistoryItem) /\ \A c \in Conversation : rows[c] = Gone
    BY DEF ChatInit
  <2>2. asking \in QuestionUnderWay /\ asking.at = "rest"
    BY <2>1, ChatAssumption DEF QuestionUnderWay, ChatInit, NotAsking, NoSummary
  <2>3. ChatTypes
    <3>1. rows \in [Conversation -> Seq(Message) \cup {Gone}]
      BY DEF ChatInit
    <3>2. /\ shown = 0 /\ bubbles = 0 /\ history = <<>> /\ questions = 0
          /\ streaming = FALSE /\ moved = FALSE
      BY DEF ChatInit
    <3>3. questions \in 0 .. MaxQuestions
      BY <3>2, ChatAssumption
    <3>4. asking.at # "rest" => asking.q # 0
      BY <2>2
    <3>5. history \in Seq(HistoryItem)
      BY <2>1, <3>2
    <3> QED
      BY <2>2, <3>1, <3>2, <3>3, <3>4, <3>5 DEF ChatTypes
  <2>4. OwnedNow
    BY <2>1, <2>2 DEF ChatInit, OwnedNow, Existing, KeepsQuestions, AskingFits
  <2> QED
    BY <2>3, <2>4 DEF ChatOwned, ChatInit
<1>2. CInv /\ [ChatNext]_chatVars => CInv'
  BY NextChatTypes, NextChatOwned, NextFailed
<1>3. CInv => ConversationsAreOwn
  <2> SUFFICES ASSUME CInv PROVE ConversationsAreOwn
    OBVIOUS
  <2>1. ChatTypeOK
    BY DEF ChatTypes, ChatTypeOK, QuestionUnderWay, Existing
  <2>2. HistoryIsOwn /\ AnswerFollowsQuestion
    BY DEF ChatOwned, OwnedNow, HistoryIsOwn, AnswerFollowsQuestion, Follows
  <2>3. AnswersKeepQuestions
    <3> SUFFICES ASSUME ~moved, NEW i \in DOMAIN history, history[i][1] = "assistant"
                 PROVE  User(history[i][2]) \in Messages(SubSeq(history, 1, i - 1))
      BY DEF AnswersKeepQuestions
    <3>1. PICK k \in DOMAIN history : k < i /\ User(history[i][2]) \in ItemOf(history[k])
      BY DEF ChatOwned, OwnedNow, KeepsQuestions
    <3>2. history \in Seq(HistoryItem)
      BY DEF ChatTypes
    <3> DEFINE s == SubSeq(history, 1, i - 1)
    <3>3. k \in DOMAIN s /\ s[k] = history[k]
      BY <3>1, <3>2
    <3> HIDE DEF s
    <3>4. User(history[i][2]) \in Messages(s)
      BY <3>1, <3>3, MessagesAre
    <3> QED
      BY <3>4 DEF s
  <2> QED
    BY <2>1, <2>2, <2>3 DEF ConversationsAreOwn
<1> QED
  BY <1>1, <1>2, <1>3, PTL DEF ChatSpec

-----------------------------------------------------------------------------
(* The download of a model *)
(*                                                                         *)
(* ActiveIsCancellable is about calls that have returned.  It is inductive *)
(* with what a patient user's calls look like before: one is active at a   *)
(* time (OneActive), its sender is there until its task is over            *)
(* (AdmittedIsCancellable), and there is no task before one was spawned    *)
(* (TaskIsSpawned).                                                        *)

Active(c) == call[c] \in {"checking", "spawned"} \/ task[c] \in Pending

\* A call that has not spawned its task has none.
TaskIsSpawned == \A c \in Call : call[c] \in {"new", "checking", "refused"} => task[c] = "none"

\* A user who waits has one call or task at work.
OneActive == hurried = {} => \A c, d \in Call : Active(c) /\ Active(d) => c = d

\* Between its two locks a call can be cancelled, unless its task is over already.
AdmittedIsCancellable ==
  hurried = {} => \A c \in Call :
    call[c] \in {"checking", "spawned"} /\ task[c] \in Pending \cup {"none"}
      => downloadTask = NoCall /\ cancelTx = c

\* After its second lock so it can be until its task has taken the last one.
ReturnedIsCancellable ==
  hurried = {} => \A c \in Call : call[c] = "returned" /\ task[c] \in Pending =>
    c \in aborted \/ (downloadTask = c /\ cancelTx = c)

DownloadInv ==
  /\ DownloadTypeOK /\ TaskIsSpawned /\ OneActive
  /\ AdmittedIsCancellable /\ ReturnedIsCancellable


\* Nothing has been called.
LEMMA DownloadStarts == DownloadInit => DownloadInv
BY DEF DownloadInit, DownloadInv, DownloadTypeOK, TaskIsSpawned, OneActive, Active,
   AdmittedIsCancellable, ReturnedIsCancellable, Pending

\* The steps of a call.
LEMMA CallKeeps ==
  ASSUME DownloadInv, NEW c \in Call,
         Admits(c) \/ Refuses(c) \/ CheckFails(c) \/ Spawns(c) \/ Registers(c)
  PROVE  DownloadInv'
<1> USE CallAssumption DEF DownloadInv, DownloadTypeOK, TaskIsSpawned, OneActive, Active,
        AdmittedIsCancellable, ReturnedIsCancellable, Pending
<1>1. CASE Admits(c)
  BY <1>1 DEF Admits, HurriesStart, UnderWay
<1>2. CASE Refuses(c)
  BY <1>2 DEF Refuses, HurriesStart, UnderWay
<1>3. CASE CheckFails(c)
  BY <1>3 DEF CheckFails
<1>4. CASE Spawns(c)
  BY <1>4 DEF Spawns
<1>5. CASE Registers(c)
  BY <1>5 DEF Registers
<1> QED
  BY <1>1, <1>2, <1>3, <1>4, <1>5

\* The steps of a task before its last lock move it on, to an end or to another of its
\* places; none touches a register.
LEMMA TaskKeeps ==
  ASSUME DownloadInv, NEW c \in Call,
         task' \in {[task EXCEPT ![c] = to] : to \in Pending \cup {"dropped"}},
         task[c] \in Pending, child' \subseteq Call,
         UNCHANGED <<downloadTask, cancelTx, call, cancel, aborted, hurried>>
  PROVE  DownloadInv'
BY DEF DownloadInv, DownloadTypeOK, TaskIsSpawned, OneActive, Active,
   AdmittedIsCancellable, ReturnedIsCancellable, Pending

\* The last lock clears both registers, which then belong to nobody else at work.
LEMMA LeaveKeeps ==
  ASSUME DownloadInv, NEW c \in Call, Leave(c)
  PROVE  DownloadInv'
BY DEF Leave, Moves, DownloadInv, DownloadTypeOK, TaskIsSpawned, OneActive, Active,
   AdmittedIsCancellable, ReturnedIsCancellable, Pending

\* A cancel aborts the task that is registered.
LEMMA CancelKeeps == ASSUME DownloadInv, Cancels PROVE DownloadInv'
BY CallAssumption DEF Cancels, HurriesCancel, UnderWay, DownloadInv, DownloadTypeOK, TaskIsSpawned,
   OneActive, Active, AdmittedIsCancellable, ReturnedIsCancellable, Pending

\* DownloadInv is inductive.
LEMMA DownloadInductive == DownloadInv /\ [DownloadNext]_downloadVars => DownloadInv'
<1> SUFFICES ASSUME DownloadInv, [DownloadNext]_downloadVars PROVE DownloadInv'
  OBVIOUS
<1>1. ASSUME NEW c \in Call, TaskStep(c) PROVE DownloadInv'
  <2>1. CASE Leave(c)
    BY <2>1, LeaveKeeps
  <2>2. CASE ~Leave(c)
    <3>1. /\ task[c] \in Pending
          /\ task' \in {[task EXCEPT ![c] = to] : to \in Pending \cup {"dropped"}}
      BY <1>1, <2>2 DEF TaskStep, TaskRuns, ChildStarts, NoChild, SeesCancel, Killed, SeesExit,
         Dropped, SeesRefusal, ReadFails, Moves, Pending
    <3>2. /\ child' \subseteq Call
          /\ UNCHANGED <<downloadTask, cancelTx, call, cancel, aborted, hurried>>
      BY <1>1, <2>2 DEF TaskStep, TaskRuns, ChildStarts, NoChild, SeesCancel, Killed, SeesExit,
         Dropped, SeesRefusal, ReadFails, DownloadInv, DownloadTypeOK
    <3> QED
      BY <3>1, <3>2, TaskKeeps
  <2> QED
    BY <2>1, <2>2
<1>2. ASSUME NEW c \in Call, ChildExits(c) PROVE DownloadInv'
  BY <1>2 DEF ChildExits, DownloadInv, DownloadTypeOK, TaskIsSpawned, OneActive, Active,
     AdmittedIsCancellable, ReturnedIsCancellable
<1>3. CASE UNCHANGED downloadVars
  BY <1>3 DEF downloadVars, DownloadInv, DownloadTypeOK, TaskIsSpawned, OneActive, Active,
     AdmittedIsCancellable, ReturnedIsCancellable
<1> QED
  BY <1>1, <1>2, <1>3, CallKeeps, CancelKeeps DEF DownloadNext

\* DownloadInv holds in every reachable state.
THEOREM DownloadHolds == DownloadSpec => []DownloadInv
BY DownloadStarts, DownloadInductive, PTL DEF DownloadSpec

\* The registers, calls and tasks have their types.
THEOREM DownloadTypes == DownloadSpec => []DownloadTypeOK
<1>1. DownloadInv => DownloadTypeOK
  BY DEF DownloadInv
<1> QED
  BY <1>1, DownloadHolds, PTL

\* For a user who waits, hf_download_cancel reaches every download that is at work,
\* whatever was cancelled, refused or failed before it.
THEOREM DownloadsAreCancellable == DownloadSpec => []ActiveIsCancellable
<1>1. DownloadInv => ActiveIsCancellable
  BY DEF DownloadInv, ReturnedIsCancellable, ActiveIsCancellable
<1> QED
  BY <1>1, DownloadHolds, PTL

\* What the run checks of the registers holds for any number of calls.
THEOREM DownloadsAreHeld == DownloadSpec => []DownloadIsHeld
BY DownloadTypes, DownloadsAreCancellable, PTL DEF DownloadIsHeld
=============================================================================
