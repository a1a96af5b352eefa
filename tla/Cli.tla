-------------------------------- MODULE Cli --------------------------------
(***************************************************************************)
(* The commands of the command line (main.rs) but the two that keep a      *)
(* model server for themselves (CliServe): what each checks before it      *)
(* begins, the runs or the change it makes, and the code it exits with.  A *)
(* run is BenchCycle's or EvalRun's, reduced to how it ends; Ctrl-C ends   *)
(* the program at any point, and only the monitor handles it.              *)
(***************************************************************************)
EXTENDS Naturals, Sequences, SequencesExt

CONSTANTS MaxRows     \* bound: runs of a command that makes several

ASSUME CliAssumption == MaxRows \in Nat /\ MaxRows >= 2

VARIABLES command,    \* the command, the checks still to pass and where it is
          cliRows,    \* the status of the rows it has put into the store
          exit        \* its code, once it has ended, whether it was interrupted,
                      \* and whether it has made the change it is for

cliVars == <<command, cliRows, exit>>

RowStatus == {"completed", "cancelled", "failed", "aborted_watchdog"}
Bad == {"failed", "aborted_watchdog"}
NoCode == 255
EXIT_ERROR == 1

\* A command has checks in an order and then works: it makes runs, at most so many,
\* of which a bad one may be an error of the command; it reads; it changes one thing;
\* or it goes on until it is stopped.
Measures(checks, most, strict) == [checks |-> checks, work |-> "runs", most |-> most, strict |-> strict]
Works(checks, work) == [checks |-> checks, work |-> work, most |-> 0, strict |-> FALSE]

BenchRun == Measures(<<"root", "profile", "store", "image", "audio">>, 1, TRUE)
BenchSweep == Measures(<<"root", "profile", "store", "steps", "not_empty">>, MaxRows, FALSE)
BenchLimit == Measures(<<"root", "profile", "store">>, MaxRows, FALSE)
BenchAb == Measures(<<"root", "profile_a", "profile_b", "store">>, 2, TRUE)
BenchQuant == Measures(<<"root", "store", "not_empty", "profiles">>, MaxRows, TRUE)
EvalTemplate == Measures(<<"root", "profile", "store", "set", "range">>, 1, FALSE)
EvalOnce == Measures(<<"root", "profile", "store", "set">>, 1, FALSE)
DbListRuns == Works(<<"store", "query">>, "reads")
DbCompare == Works(<<"two_models", "store", "query">>, "reads")
DbExport == Works(<<"store", "query">>, "reads")
StatsOverview == Works(<<"store", "query">>, "reads")
StatsModel == Works(<<"store", "query">>, "reads")
ProfileList == Works(<<"root", "query">>, "reads")
ProfileValidate == Works(<<"valid">>, "reads")
Doctor == Works(<<"root">>, "reads")
ShowsStatus == Works(<<>>, "reads")
DbDelete == Works(<<"one_target", "store", "found", "confirmed">>, "changes")
ProfileGenerate == Works(<<"root">>, "changes")
ExportCard == Works(<<"store">>, "changes")
AuthChange == Works(<<>>, "changes")
ApiServe == Works(<<"root", "store">>, "serves")
Monitor == Works(<<>>, "watches")

Command == [run |-> BenchRun, sweep |-> BenchSweep, limit |-> BenchLimit, ab |-> BenchAb,
            quant |-> BenchQuant, template |-> EvalTemplate, eval |-> EvalOnce,
            list |-> DbListRuns, compare |-> DbCompare, export |-> DbExport,
            overview |-> StatsOverview, model |-> StatsModel, profiles |-> ProfileList,
            validate |-> ProfileValidate, doctor |-> Doctor, status |-> ShowsStatus,
            delete |-> DbDelete, generate |-> ProfileGenerate, card |-> ExportCard,
            auth |-> AuthChange, api |-> ApiServe, monitor |-> Monitor]
Name == DOMAIN Command
MostRows == [n \in Name |-> Command[n].most]
Work == Command[command.name].work
Strict == Command[command.name].strict
\* At a failure a sweep ends; the others go on to their last run.
StopsAtBad == {"sweep"}

CliInit ==
    /\ command \in {[name |-> n, checks |-> Command[n].checks, at |-> "checks"] : n \in Name}
    /\ cliRows = <<>>
    /\ exit = [code |-> NoCode, interrupted |-> FALSE, changed |-> FALSE]

ExitsWith(code) == command' = [command EXCEPT !.at = "over"] /\ exit' = [exit EXCEPT !.code = code]

PassesCheck ==
    /\ command.at = "checks" /\ command.checks # <<>>
    /\ command' = [command EXCEPT !.checks = Tail(@)]
    /\ UNCHANGED <<cliRows, exit>>
\* The error is printed and the program ends.
RefusesInput ==
    /\ command.at = "checks" /\ command.checks # <<>> /\ Head(command.checks) # "confirmed"
    /\ ExitsWith(EXIT_ERROR)
    /\ UNCHANGED cliRows

\* confirm_delete: whoever does not answer y has cancelled, which is no error.
Declines ==
    /\ command.at = "checks" /\ command.checks # <<>> /\ Head(command.checks) = "confirmed"
    /\ ExitsWith(0)
    /\ UNCHANGED cliRows

WorkBegins ==
    /\ command.at = "checks" /\ command.checks = <<>>
    /\ command' = [command EXCEPT !.at = "work"]
    /\ UNCHANGED <<cliRows, exit>>

Open == cliRows # <<>> /\ Last(cliRows) = "running"

Enough ==
    \/ Len(cliRows) = MostRows[command.name]
    \/ command.name \in StopsAtBad /\ \E i \in DOMAIN cliRows : cliRows[i] \in Bad

\* The row of the next run is inserted; then it gets its status.
RowBegins ==
    /\ command.at = "work" /\ Work = "runs" /\ ~Open /\ ~Enough
    /\ cliRows' = Append(cliRows, "running")
    /\ UNCHANGED <<command, exit>>
RowEnds(status) ==
    /\ command.at = "work" /\ Open
    /\ command.name \in {"template", "eval"} => status = "completed"
    /\ cliRows' = [cliRows EXCEPT ![Len(cliRows)] = status]
    /\ UNCHANGED <<command, exit>>

\* A run is deleted, a draft or card is written, a token is set, imported or cleared.
MakesChange ==
    /\ command.at = "work" /\ Work = "changes" /\ ~exit.changed
    /\ exit' = [exit EXCEPT !.changed = TRUE]
    /\ UNCHANGED <<command, cliRows>>

\* The work ends with an error: of a run, before it or in the middle; of the change;
\* of the port or the socket of the server.
WorkErrs ==
    /\ command.at = "work" /\ Work # "reads" /\ ~exit.changed
    /\ ExitsWith(EXIT_ERROR)
    /\ UNCHANGED cliRows

\* bench_run_exit_code, and the same test on every row of a battle or comparison.
\* The other commands that measure exit with 0 once they have a summary: a sweep and
\* a search do so whatever became of their runs.
Code ==
    IF Strict /\ \E i \in DOMAIN cliRows : cliRows[i] \in Bad
    THEN EXIT_ERROR ELSE 0

\* The answer or the summary is printed.  Several sizes or steps of a plan may not
\* come to a run: a step without memory is skipped, a search ends when it has
\* narrowed its range.
ReportsSummary ==
    /\ command.at = "work" /\ ~Open /\ Work \notin {"serves", "watches"}
    /\ Work = "changes" => exit.changed
    /\ Enough \/ command.name \in {"sweep", "limit"} \/ (command.name = "quant" /\ cliRows # <<>>)
    /\ ExitsWith(Code)
    /\ UNCHANGED cliRows

\* No handler is installed: the signal ends the program where it is.
Interrupted ==
    /\ command.at # "over" /\ ~(command.at = "work" /\ Work = "watches")
    /\ command' = [command EXCEPT !.at = "over"]
    /\ exit' = [exit EXCEPT !.interrupted = TRUE]
    /\ UNCHANGED cliRows
\* The monitor takes the signal for its end.
StopsWatching ==
    /\ command.at = "work" /\ Work = "watches"
    /\ ExitsWith(0)
    /\ UNCHANGED cliRows

CliStep ==
    \/ PassesCheck \/ RefusesInput \/ Declines \/ WorkBegins
    \/ RowBegins \/ MakesChange \/ ReportsSummary
CliNext == CliStep \/ (\E s \in RowStatus : RowEnds(s)) \/ WorkErrs \/ Interrupted \/ StopsWatching

\* The program does its part; a run need not end (BenchPlan).
CliSpec == CliInit /\ [][CliNext]_cliVars /\ WF_cliVars(CliStep)
-----------------------------------------------------------------------------
(* Properties. *)

\* A command that has begun its work ends, unless it is one that goes on until it
\* is stopped, or waits for a run that does not end.
CommandEnds == []<>~Open => []<>(command.at = "work" => Work \in {"serves", "watches"})
=============================================================================
