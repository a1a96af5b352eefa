---------------------------- MODULE ChildOutput ----------------------------
(***************************************************************************)
(* How the output of a process is read (bootstrap.rs: stream_child_lines;  *)
(* api.rs: run_fix_action): its standard output to the end, and only then  *)
(* its standard error.  A pipe holds a bounded number of lines, and a      *)
(* process that writes to a full one waits.                                *)
(***************************************************************************)
EXTENDS Naturals, Sequences, FiniteSets

CONSTANTS PipeSize,    \* lines a pipe holds
          MaxLines     \* bound: lines a process writes to each of its pipes

ASSUME ChildOutputAssumption == PipeSize \in Nat \ {0} /\ MaxLines \in Nat

VARIABLES process,   \* lines it will write, has written, and how it has ended
          pipes,     \* lines in each pipe
          heard      \* lines forwarded, which pipe is read, and the status reported

childVars == <<process, pipes, heard>>

Pipe == {"out", "err"}
Exit == {"success", "failure"}

ChildInit ==
    /\ process = [wants |-> [p \in Pipe |-> 0], wrote |-> [p \in Pipe |-> 0], state |-> "none"]
    /\ pipes = [p \in Pipe |-> 0]
    /\ heard = [lines |-> [p \in Pipe |-> 0], at |-> "off", status |-> "none"]

\* The command is spawned; or the spawn fails, which is reported at once.
SpawnsChild(wants) ==
    /\ heard.at = "off"
    /\ process' = [process EXCEPT !.wants = wants, !.state = "runs"]
    /\ heard' = [heard EXCEPT !.at = "out"]
    /\ UNCHANGED pipes
SpawnFails ==
    /\ heard.at = "off"
    /\ heard' = [heard EXCEPT !.at = "over", !.status = "error"]
    /\ UNCHANGED <<process, pipes>>

WritesLine(p) ==
    /\ process.state = "runs" /\ process.wrote[p] < process.wants[p] /\ pipes[p] < PipeSize
    /\ process' = [process EXCEPT !.wrote[p] = @ + 1]
    /\ pipes' = [pipes EXCEPT ![p] = @ + 1]
    /\ UNCHANGED heard
Exits(status) ==
    /\ process.state = "runs" /\ process.wrote = process.wants
    /\ process' = [process EXCEPT !.state = status]
    /\ UNCHANGED <<pipes, heard>>

\* A line of the pipe that is being read is passed on.
Hears(p) ==
    /\ heard.at = p /\ pipes[p] > 0
    /\ pipes' = [pipes EXCEPT ![p] = @ - 1]
    /\ heard' = [heard EXCEPT !.lines[p] = @ + 1]
    /\ UNCHANGED process

\* The end of a pipe: the process has exited and the pipe is empty.
Finishes(p) ==
    /\ heard.at = p /\ pipes[p] = 0 /\ process.state \in Exit
    /\ heard' = [heard EXCEPT !.at = IF p = "out" THEN "err" ELSE "status"]
    /\ UNCHANGED <<process, pipes>>

\* A plausible fault: the status is told before the second pipe is read.
ReportsEarly ==
    /\ heard.at \in {"err", "status"} /\ process.state \in Exit
    /\ heard' = [heard EXCEPT !.at = "over", !.status = process.state]
    /\ UNCHANGED <<process, pipes>>

\* wait: the exit status decides the step, and is the last thing told.
Reports ==
    /\ heard.at = "status" /\ process.state \in Exit
    /\ heard' = [heard EXCEPT !.at = "over", !.status = process.state]
    /\ UNCHANGED <<process, pipes>>

ChildStep ==
    \/ \E p \in Pipe : WritesLine(p) \/ Hears(p) \/ Finishes(p)
    \/ \E status \in Exit : Exits(status)
    \/ Reports
ChildNext == ChildStep \/ SpawnFails \/ \E wants \in [Pipe -> 0..MaxLines] : SpawnsChild(wants)

ChildSpec == ChildInit /\ [][ChildNext]_childVars /\ WF_childVars(ChildStep)
-----------------------------------------------------------------------------
(* Properties. *)

\* Every line written is in its pipe or has been passed on; and what is told at
\* the end is the process's own status.
LinesAreAccounted ==
    /\ \A p \in Pipe : process.wrote[p] = pipes[p] + heard.lines[p] /\ pipes[p] \in 0..PipeSize
    /\ heard.status \in Exit => heard.status = process.state

\* A status is told after all that the process had to say.
StatusIsLast == heard.status \in Exit => heard.lines = process.wants

\* The process or its reader has something to do: one of the steps of ChildStep.
ChildMoves ==
    \/ process.state = "runs" /\ process.wrote = process.wants
    \/ process.state = "runs" /\ \E p \in Pipe : process.wrote[p] < process.wants[p] /\ pipes[p] < PipeSize
    \/ heard.at \in Pipe /\ (pipes[heard.at] > 0 \/ process.state \in Exit)
    \/ heard.at = "status" /\ process.state \in Exit

\* The reader and the process wait for each other only if the process has filled the
\* pipe that is not being read.
StuckIsFull ==
    heard.at \notin {"off", "over"} /\ ~ChildMoves =>
        heard.at = "out" /\ pipes["err"] = PipeSize /\ process.wrote["err"] < process.wants["err"]

\* A process whose errors fit into a pipe is read to the end, as what is fair is what
\* can go on.
OutputEnds ==
    /\ [](ChildMoves <=> ENABLED ChildStep)
    /\ []<>(heard.at \notin {"off", "over"} => process.wants["err"] > PipeSize)

\* Of a child everything is heard, its status last, unless the two pipes have made it
\* and its reader wait for each other.
OutputIsTrue ==
    /\ LinesAreAccounted
    /\ StatusIsLast
    /\ StuckIsFull
=============================================================================
