------------------------------ MODULE RunStore ------------------------------
(***************************************************************************)
(* The rows of measurements (db.rs, and bench.rs where it writes them):    *)
(* sessions of the app and of the command line insert a model, a run, its  *)
(* samples and its result, and finish the run, one autocommitted statement *)
(* after another; somebody deletes runs and models after an announcement   *)
(* of what will go; somebody exports a run with three queries.             *)
(*                                                                         *)
(* An id is a rowid without AUTOINCREMENT: the largest in use plus one.    *)
(* The id of a deleted row can therefore be given out again.               *)
(*                                                                         *)
(* Bounds: MaxStarts sessions; once a row has been deleted under a session *)
(* at work (robbed), no other deletion or export is announced.             *)
(***************************************************************************)
EXTENDS Naturals, FiniteSets, FiniteSetsExt

CONSTANTS Profile,     \* profiles that are measured
          Session,     \* places where a session runs: the app, a command line
          MaxStarts,   \* bound: sessions started
          Samples,     \* samples a cycle records
          NoRow        \* no row has this id

Id == 1..MaxStarts
Who == 1..MaxStarts
RunRow == [model : Id, status : {"running", "completed", "failed"}, who : Who, profile : Profile]

ASSUME StoreAssumption ==
    /\ MaxStarts \in Nat /\ Samples \in Nat
    /\ NoRow \notin Profile /\ NoRow \notin RunRow /\ NoRow \notin Who

VARIABLES models,    \* [Id -> profile or NoRow]
          runs,      \* [Id -> row or NoRow]
          results,   \* [Id of a run -> who wrote it, or NoRow]
          samples,   \* [Id of a run -> the rows <<who wrote it, which>>]
          writer,    \* [Session -> what it is writing]
          remover,   \* the deletion under way
          exporter,  \* the export under way
          starts,    \* sessions started so far; their number is who they are
          cut,       \* history: the sessions that an abort, a kill or an error cut short
          robbed     \* history: a row was deleted while its session was at work

storeVars == <<models, runs, results, samples, writer, remover, exporter, starts, cut, robbed>>

Rest == [at |-> "rest", who |-> 0, profile |-> NoRow, model |-> 0, run |-> 0,
         ok |-> FALSE, measured |-> FALSE, left |-> 0]
NoRemoval == [at |-> "rest", kind |-> "run", id |-> 0, ended |-> FALSE, seen |-> <<0, 0, 0>>]
NoExport == [at |-> "rest", run |-> 0, status |-> "running", results |-> FALSE, hit |-> FALSE]

Used(table) == {i \in Id : table[i] # NoRow}
\* The rowid that SQLite gives to the next row.
NextId(table) == IF Used(table) = {} THEN 1 ELSE Max(Used(table)) + 1
RunsOf(m) == {r \in Used(runs) : runs[r].model = m}

StoreInit ==
    /\ models = [i \in Id |-> NoRow]
    /\ runs = [i \in Id |-> NoRow]
    /\ results = [i \in Id |-> NoRow]
    /\ samples = [i \in Id |-> {}]
    /\ writer = [s \in Session |-> Rest]
    /\ remover = NoRemoval
    /\ exporter = NoExport
    /\ starts = 0
    /\ cut = {}
    /\ robbed = FALSE

\* upsert_model: the model's row, an old one or a new one.
UpsertsModel(s, p) ==
    /\ writer[s].at = "rest" /\ starts < MaxStarts
    /\ LET old == {i \in Used(models) : models[i] = p}
           id  == IF old # {} THEN Max(old) ELSE NextId(models)
       IN  /\ models' = [models EXCEPT ![id] = p]
           /\ writer' = [writer EXCEPT ![s] = [Rest EXCEPT !.at = "model", !.who = starts + 1,
                                                           !.profile = p, !.model = id]]
    /\ starts' = starts + 1
    /\ UNCHANGED <<runs, results, samples, remover, exporter, cut, robbed>>

Row(s) == [model |-> writer[s].model, status |-> "running", who |-> writer[s].who,
           profile |-> writer[s].profile]

\* insert_run: the row says running before there is a server.
InsertsRun(s) ==
    /\ writer[s].at = "model" /\ models[writer[s].model] # NoRow
    /\ runs' = [runs EXCEPT ![NextId(runs)] = Row(s)]
    /\ writer' = [writer EXCEPT ![s].at = "cycle", ![s].run = NextId(runs)]
    /\ UNCHANGED <<models, results, samples, remover, exporter, starts, cut, robbed>>

\* The cycle is over; a completed one has statistics, another one may have.
CycleEnds(s) ==
    /\ writer[s].at = "cycle"
    /\ \E ok, measured \in BOOLEAN :
         /\ ok => measured
         /\ writer' = [writer EXCEPT ![s].at = "samples", ![s].ok = ok,
                                     ![s].measured = measured, ![s].left = Samples]
    /\ UNCHANGED <<models, runs, results, samples, remover, exporter, starts, cut, robbed>>

\* insert_samples: one statement for each sample.
InsertsSample(s) ==
    /\ writer[s].at = "samples" /\ writer[s].left > 0 /\ runs[writer[s].run] # NoRow
    /\ samples' = [samples EXCEPT ![writer[s].run] = @ \cup {<<writer[s].who, writer[s].left>>}]
    /\ writer' = [writer EXCEPT ![s].left = @ - 1]
    /\ UNCHANGED <<models, runs, results, remover, exporter, starts, cut, robbed>>

SamplesDone(s) ==
    /\ writer[s].at = "samples" /\ writer[s].left = 0
    /\ writer' = [writer EXCEPT ![s].at = IF writer[s].measured THEN "result" ELSE "finish"]
    /\ UNCHANGED <<models, runs, results, samples, remover, exporter, starts, cut, robbed>>

\* insert_results, insert_timing_results: one row for a run.
InsertsResult(s) ==
    /\ writer[s].at = "result"
    /\ runs[writer[s].run] # NoRow /\ results[writer[s].run] = NoRow
    /\ results' = [results EXCEPT ![writer[s].run] = writer[s].who]
    /\ writer' = [writer EXCEPT ![s].at = "finish"]
    /\ UNCHANGED <<models, runs, samples, remover, exporter, starts, cut, robbed>>

\* finish_run: an UPDATE of a row that is gone changes nothing and is no error.
FinishesRun(s) ==
    /\ writer[s].at = "finish"
    /\ runs' = IF runs[writer[s].run] = NoRow THEN runs
               ELSE [runs EXCEPT ![writer[s].run].status = IF writer[s].ok THEN "completed" ELSE "failed"]
    /\ writer' = [writer EXCEPT ![s] = Rest]
    /\ UNCHANGED <<models, results, samples, remover, exporter, starts, cut, robbed>>

\* A statement that breaks a foreign key or the primary key ends the session
\* with an error; its row, if it has one, stays as it is.
WriteFails(s) ==
    /\ \/ writer[s].at = "model" /\ models[writer[s].model] = NoRow
       \/ writer[s].at = "samples" /\ writer[s].left > 0 /\ runs[writer[s].run] = NoRow
       \/ writer[s].at = "result" /\ (runs[writer[s].run] = NoRow \/ results[writer[s].run] # NoRow)
    /\ cut' = cut \cup {writer[s].who}
    /\ writer' = [writer EXCEPT ![s] = Rest]
    /\ UNCHANGED <<models, runs, results, samples, remover, exporter, starts, robbed>>

\* The session is aborted, its program is killed, or the cycle itself returns an
\* error: nothing more is written for it.
Breaks(s) ==
    /\ writer[s].at # "rest"
    /\ cut' = cut \cup {writer[s].who}
    /\ writer' = [writer EXCEPT ![s] = Rest]
    /\ UNCHANGED <<models, runs, results, samples, remover, exporter, starts, robbed>>

\* What would go with the runs rs: how many runs, samples and results.
Summary(rs) == <<Cardinality(rs), Cardinality(UNION {samples[r] \X {r} : r \in rs}),
                 Cardinality(rs \cap Used(results))>>
\* delete_run_summary, delete_model_summary: an id that is not there is refused.
Announces(kind, i) ==
    /\ ~robbed /\ remover.at = "rest"
    /\ i \in IF kind = "run" THEN Used(runs) ELSE Used(models)
    /\ remover' = [at |-> "announced", kind |-> kind, id |-> i,
                   ended |-> kind = "run" /\ runs[i].status # "running",
                   seen |-> Summary(IF kind = "run" THEN {i} ELSE RunsOf(i))]
    /\ UNCHANGED <<models, runs, results, samples, writer, exporter, starts, cut, robbed>>

\* confirm_delete: the user of a command line may think it over and decline.
Declines ==
    /\ remover.at = "announced"
    /\ remover' = NoRemoval
    /\ UNCHANGED <<models, runs, results, samples, writer, exporter, starts, cut, robbed>>

Doomed == IF remover.kind = "run" THEN {remover.id} \cap Used(runs) ELSE RunsOf(remover.id)

\* A plausible fault: ON DELETE CASCADE is missing for the results.
DeletesRowsOnly ==
    /\ remover.at = "announced"
    /\ runs' = [r \in Id |-> IF r \in Doomed THEN NoRow ELSE runs[r]]
    /\ samples' = [r \in Id |-> IF r \in Doomed THEN {} ELSE samples[r]]
    /\ models' = IF remover.kind = "model" THEN [models EXCEPT ![remover.id] = NoRow] ELSE models
    /\ exporter' = [exporter EXCEPT !.hit = @ \/ exporter.run \in Doomed]
    /\ robbed' = (robbed \/ \E s \in Session : writer[s].at # "rest" /\ writer[s].run \in Doomed)
    /\ remover' = NoRemoval
    /\ UNCHANGED <<results, writer, starts, cut>>

\* delete_run, delete_model: the same check once more, and one DELETE that
\* cascades to everything below the row.
Deletes ==
    /\ remover.at = "announced"
    /\ runs' = [r \in Id |-> IF r \in Doomed THEN NoRow ELSE runs[r]]
    /\ results' = [r \in Id |-> IF r \in Doomed THEN NoRow ELSE results[r]]
    /\ samples' = [r \in Id |-> IF r \in Doomed THEN {} ELSE samples[r]]
    /\ models' = IF remover.kind = "model" THEN [models EXCEPT ![remover.id] = NoRow] ELSE models
    /\ exporter' = [exporter EXCEPT !.hit = @ \/ exporter.run \in Doomed]
    /\ robbed' = (robbed \/ \E s \in Session :
                              /\ writer[s].at # "rest"
                              /\ \/ writer[s].run \in Doomed
                                 \/ remover.kind = "model" /\ writer[s].model = remover.id)
    /\ remover' = NoRemoval
    /\ UNCHANGED <<writer, starts, cut>>

\* export_run: the row of the run, ...
ExportsRun(r) ==
    /\ ~robbed /\ exporter.at = "rest" /\ r \in Used(runs)
    /\ exporter' = [NoExport EXCEPT !.at = "run", !.run = r, !.status = runs[r].status]
    /\ UNCHANGED <<models, runs, results, samples, writer, remover, starts, cut, robbed>>

\* ... its result, if there is one by then, ...
ExportsResult ==
    /\ exporter.at = "run"
    /\ exporter' = [exporter EXCEPT !.at = "results", !.results = results[exporter.run] # NoRow]
    /\ UNCHANGED <<models, runs, results, samples, writer, remover, starts, cut, robbed>>

\* ... and its samples; the whole is written as JSON or CSV.
Exported ==
    /\ exporter.at = "results"
    /\ exporter' = NoExport
    /\ UNCHANGED <<models, runs, results, samples, writer, remover, starts, cut, robbed>>

WriterStep(s) ==
    \/ InsertsRun(s) \/ CycleEnds(s) \/ InsertsSample(s) \/ SamplesDone(s)
    \/ InsertsResult(s) \/ FinishesRun(s) \/ WriteFails(s)

StoreNext ==
    \/ \E s \in Session : WriterStep(s) \/ Breaks(s) \/ \E p \in Profile : UpsertsModel(s, p)
    \/ \E i \in Id, kind \in {"run", "model"} : Announces(kind, i)
    \/ Declines \/ Deletes
    \/ \E r \in Id : ExportsRun(r)
    \/ ExportsResult \/ Exported

StoreSpec == StoreInit /\ [][StoreNext]_storeVars

\* list_runs: the rows joined with their models.
ListRuns == {r \in Used(runs) : runs[r].model \in Id /\ models[runs[r].model] # NoRow}
-----------------------------------------------------------------------------
(* Properties. *)

\* The rows have their types, and no profile has two of them in models.
StoreTypeOK ==
    /\ models \in [Id -> Profile \cup {NoRow}]
    /\ \A i, j \in Used(models) : models[i] = models[j] => i = j
    /\ \A r \in Used(runs) : runs[r] \in RunRow
    /\ results \in [Id -> Who \cup {NoRow}]
    /\ samples \in [Id -> SUBSET (Who \X (1..Samples))]
    /\ \A s \in Session : writer[s].at \in {"rest", "model", "cycle", "samples", "result", "finish"}
    /\ remover.at \in {"rest", "announced"}
    /\ exporter.at \in {"rest", "run", "results"}
    /\ starts \in 0..MaxStarts
    /\ cut \subseteq Who
    /\ robbed \in BOOLEAN

\* However inserts, deletions and the deaths of sessions interleave, every sample
\* and result has its run and every run its model, so that list_runs, which joins
\* them, shows every run there is.
NoOrphans ==
    /\ \A r \in Id : (samples[r] # {} \/ results[r] # NoRow) => runs[r] # NoRow
    /\ Used(runs) = ListRuns

\* Unless a row was deleted under a session at work, samples and results hang on
\* the run of the session that measured them, ids given out again included.
RowsAreOwn ==
    ~robbed => \A r \in Used(runs) : /\ results[r] \in {NoRow, runs[r].who}
                                     /\ \A x \in samples[r] : x[1] = runs[r].who

\* Unless ..., a run is listed under the model that was measured.
ModelIsOwn == ~robbed => \A r \in Used(runs) : models[runs[r].model] = runs[r].profile

\* Unless ..., a completed run has its result and every sample of its cycle.
CompletedIsMeasured ==
    ~robbed => \A r \in Used(runs) : runs[r].status = "completed" =>
                   results[r] # NoRow /\ Cardinality(samples[r]) = Samples

\* The deletion of a run that had ended when it was announced removes exactly
\* the rows that were announced, however long the user thinks it over.
AnnouncedIsDeleted ==
    ~robbed /\ remover.at = "announced" /\ remover.ended => Summary(Doomed) = remover.seen

\* An export whose three queries straddle the statements of another program
\* never shows a completed run without its result, unless the run was deleted.
ExportIsWhole ==
    ~robbed /\ exporter.at = "results" /\ exporter.status = "completed" =>
        exporter.results \/ exporter.hit

\* The verdict on a run is final as long as the row is there.
VerdictIsFinal ==
    [][~robbed' => \A r \in Id : runs[r] # NoRow /\ runs'[r] # NoRow /\ runs[r].status # "running"
            => runs'[r].status = runs[r].status]_storeVars

\* A row that says running belongs to a session at work, or to one that was cut
\* short; unless a row was deleted under a session.
RunningIsAtWork ==
    ~robbed => \A r \in Used(runs) : runs[r].status = "running" =>
                   \/ runs[r].who \in cut
                   \/ \E s \in Session : writer[s].at # "rest" /\ writer[s].who = runs[r].who

\* However measuring, deleting and exporting programs interleave in one store: no row
\* hangs on nothing or on a stranger, a status is what became of the session, and
\* deletions and exports show what they announce.
RowsAreRight ==
    /\ StoreTypeOK
    /\ NoOrphans
    /\ RowsAreOwn
    /\ ModelIsOwn
    /\ CompletedIsMeasured
    /\ AnnouncedIsDeleted
    /\ ExportIsWhole
    /\ RunningIsAtWork
=============================================================================
