------------------------------ MODULE EvalRun ------------------------------
(***************************************************************************)
(* Evaluations (eval.rs, run_quality_eval; eval_templates.rs,              *)
(* run_template_eval and the grouping of the history; eval_template_run of *)
(* the bridge).  An evaluation has a server of its own, Lifecycle's,       *)
(* reduced to whether it answers; it is not registered anywhere, so that   *)
(* several may be under way.  A template evaluation writes a row for each  *)
(* answer, and the history puts rows together again by their time.         *)
(***************************************************************************)
EXTENDS Naturals, Sequences, SequencesExt, FiniteSets

CONSTANTS Eval,        \* evaluations of one profile
          EvalContext, \* context sizes
          Items,       \* templates of a context, items of a set
          FullMark,    \* the mark of a right answer
          Gap,         \* HISTORY_GROUP_GAP_MS
          MaxTime      \* bound: the clock

ASSUME EvalAssumption == Items \in Nat /\ FullMark \in Nat \ {0} /\ Gap \in Nat /\ MaxTime \in Nat

VARIABLES evals,       \* [Eval -> where it is, and the marks of its answers]
          evalServer,  \* [Eval -> its server]
          evalRow,     \* [Eval -> its row in runs: status and score]
          shelf,       \* eval_template_results, the newest first
          clock        \* what created_at is taken from

evalVars == <<evals, evalServer, evalRow, shelf, clock>>

EvalKind == {"quality", "template"}
Unasked == [at |-> "rest", kind |-> "quality", context |-> "none", marks |-> <<>>]

EvalInit ==
    /\ evals = [e \in Eval |-> Unasked]
    /\ evalServer = [e \in Eval |-> "none"]
    /\ evalRow = [e \in Eval |-> [status |-> "none", score |-> 0]]
    /\ shelf = <<>>
    /\ clock = 0

Goes(e, at) == evals' = [evals EXCEPT ![e].at = at]
Says(e, status) == evalRow' = [evalRow EXCEPT ![e].status = status]

\* The evaluation is refused (a benchmark is under way at this moment, no language
\* model, a context out of range, not exactly three templates), or the row is
\* inserted and the server started.  Only templates are asked for a context.
AsksEval(e, kind, c) ==
    /\ evals[e].at = "rest"
    /\ evals' = [evals EXCEPT ![e].at = "load", ![e].kind = kind,
                              ![e].context = IF kind = "template" THEN c ELSE @]
    /\ Says(e, "running")
    /\ evalServer' = [evalServer EXCEPT ![e] = "starting"]
    /\ UNCHANGED <<shelf, clock>>
RefusesEval(e) ==
    /\ evals[e].at = "rest"
    /\ Goes(e, "refused")
    /\ UNCHANGED <<evalServer, evalRow, shelf, clock>>

ServerLoads(e) ==
    /\ evals[e].at = "load" /\ evalServer[e] = "starting"
    /\ evalServer' = [evalServer EXCEPT ![e] = "ready"]
    /\ UNCHANGED <<evals, evalRow, shelf, clock>>
\* What becomes of a server that an evaluation has left is not followed.
ServerDies(e) ==
    /\ evals[e].at \in {"load", "items"} /\ evalServer[e] \in {"starting", "ready"}
    /\ evalServer' = [evalServer EXCEPT ![e] = "dead"]
    /\ UNCHANGED <<evals, evalRow, shelf, clock>>

\* wait_for_state(Ready) was in time: BeginWork.
BeginsWork(e) ==
    /\ evals[e].at = "load" /\ evalServer[e] = "ready"
    /\ Goes(e, "items")
    /\ UNCHANGED <<evalServer, evalRow, shelf, clock>>

\* A plausible fault: after a failed load nobody stops the server.
LoadFailsUnstopped(e) ==
    /\ evals[e].at = "load"
    /\ Goes(e, "failed")
    /\ Says(e, "failed")
    /\ UNCHANGED <<evalServer, shelf, clock>>

\* The load has timed out, or the server was gone again when the state was read:
\* Stop, wait for Idle, and the run has failed, if that can be written.
LoadFails(e) ==
    /\ evals[e].at = "load"
    /\ \/ Goes(e, "failed") /\ Says(e, "failed")
       \/ Goes(e, "unstored") /\ UNCHANGED evalRow
    /\ evalServer' = [evalServer EXCEPT ![e] = "idle"]
    /\ UNCHANGED <<shelf, clock>>

Item(e) == Len(evals[e].marks) + 1
\* The rows are listed with the newest first, and of one second the last inserted.
Shelved(row) == <<row>> \o shelf
\* The answer is scored, and a template's goes to the store.
Marks(e, mark, took) ==
    /\ evals' = [evals EXCEPT ![e].marks = Append(@, mark)]
    /\ clock' = clock + took
    /\ shelf' = IF evals[e].kind = "quality" THEN shelf
                ELSE Shelved([who |-> e, item |-> Item(e), context |-> evals[e].context,
                              score |-> mark, at |-> clock + took])

\* The model has answered, rightly or wrongly, or the request has failed: then the
\* text "[error: ...]" is scored in place of an answer, and may hold what is looked
\* for as well as any other.
Answers(e, took) ==
    /\ evals[e].at = "items" /\ Item(e) <= Items /\ clock + took <= MaxTime
    /\ \E mark \in {0, FullMark} : Marks(e, mark, took)
    /\ UNCHANGED <<evalServer, evalRow>>

\* The client of the requests cannot be built, or, of a template, a prompt cannot be
\* built or a row inserted: the evaluation ends where it stands, its row says
\* running and its server is left.
BreaksOff(e) ==
    /\ \/ evals[e].at = "load" /\ evalServer[e] = "ready"
       \/ evals[e].at = "items" /\ Item(e) <= Items /\ evals[e].kind = "template"
    /\ Goes(e, "broken")
    /\ UNCHANGED <<evalServer, evalRow, shelf, clock>>

\* EndWork, Stop, and Idle is waited for.
EndsWork(e) ==
    /\ evals[e].at = "items" /\ Item(e) > Items
    /\ Goes(e, "store")
    /\ evalServer' = [evalServer EXCEPT ![e] = "idle"]
    /\ UNCHANGED <<evalRow, shelf, clock>>

Mean(marks) == IF marks = <<>> THEN 0 ELSE FoldLeft(LAMBDA a, b : a + b, 0, marks) \div Len(marks)

\* Samples and score are inserted, then the run is completed; a statement that
\* fails in between leaves it running.
StoresEval(e) ==
    /\ evals[e].at = "store"
    /\ Goes(e, "completed")
    /\ evalRow' = [evalRow EXCEPT ![e] = [status |-> "completed", score |-> Mean(evals[e].marks)]]
    /\ UNCHANGED <<evalServer, shelf, clock>>
StoreEvalFails(e) ==
    /\ evals[e].at = "store"
    /\ Goes(e, "unstored")
    /\ UNCHANGED <<evalServer, evalRow, shelf, clock>>

EvalStep(e) ==
    \/ BeginsWork(e) \/ LoadFails(e) \/ EndsWork(e) \/ StoresEval(e) \/ StoreEvalFails(e)
    \/ BreaksOff(e)
    \/ \E took \in 0..Gap + 1 : Answers(e, took)
EvalNext ==
    \/ \E e \in Eval : \/ EvalStep(e) \/ ServerLoads(e) \/ ServerDies(e) \/ RefusesEval(e)
                       \/ \E kind \in EvalKind, c \in EvalContext : AsksEval(e, kind, c)

EvalSpec == EvalInit /\ [][EvalNext]_evalVars

\* group_eval_template_history: a row joins the last group if its context is the
\* same and it is not too far from the first, the newest, row of the group.
Fits(group, row) == Head(group).context = row.context /\ Head(group).at - row.at <= Gap
History ==
    FoldLeft(LAMBDA groups, row :
                 IF groups # <<>> /\ Fits(Last(groups), row)
                   THEN [groups EXCEPT ![Len(groups)] = Append(@, row)]
                   ELSE Append(groups, <<row>>),
             <<>>, shelf)
-----------------------------------------------------------------------------
(* Properties. *)

Over == {"refused", "failed", "completed", "broken", "unstored"}
EvalTypeOK ==
    /\ \A e \in Eval : /\ evals[e].at \in {"rest", "load", "items", "store"} \cup Over
                       /\ Len(evals[e].marks) <= Items
    /\ evalServer \in [Eval -> {"none", "starting", "ready", "dead", "idle"}]
    /\ \A e \in Eval : evalRow[e].status \in {"none", "running", "failed", "completed"}
    /\ clock \in 0..MaxTime

\* Where the rows of e are on the shelf; its newest row stands before its others.
Places(e) == {i \in DOMAIN shelf : shelf[i].who = e}
Newest(e) == shelf[Min(Places(e))]
Oldest(e) == shelf[Max(Places(e))]

\* An evaluation that tells how it ended, by its row, has no server any more.
FinishedIsReleased == \A e \in Eval : evalRow[e].status \in {"failed", "completed"} => evalServer[e] = "idle"

\* A completed evaluation has marked every item, has a row with its mark for each of
\* them and no other, in the order in which they were asked, whatever another one
\* writes in between, and its score is the mean of what the rows say.
CompletedIsWhole ==
    \A e \in Eval : evalRow[e].status = "completed" =>
        /\ Len(evals[e].marks) = Items
        /\ evalRow[e].score = Mean(evals[e].marks)
        /\ evals[e].kind = "template" =>
              /\ \A n \in 1..Items : \E i \in Places(e) :
                    shelf[i].item = n /\ shelf[i].score = evals[e].marks[n]
              /\ \A i \in Places(e) : shelf[i].item \in 1..Items
              /\ \A i, j \in Places(e) : i < j => shelf[i].item > shelf[j].item

\* An entry of the history is about one context and one span of time, and each
\* entry is as large as it can be.
EntriesAreRuns ==
    LET entries == History IN
    \A g \in DOMAIN entries :
        /\ \A i \in DOMAIN entries[g] : /\ entries[g][i].context = entries[g][1].context
                                        /\ entries[g][1].at - entries[g][i].at <= Gap
        /\ g > 1 => \/ entries[g][1].context # entries[g - 1][1].context
                    \/ entries[g - 1][1].at - entries[g][1].at > Gap

\* Rows of e that are Gap or less apart, and that no other evaluation's rows
\* follow closely or come between, are shown as one entry.
Quick(e) == Places(e) # {} /\ Newest(e).at - Oldest(e).at <= Gap
Alone(e) ==
    \A i \in DOMAIN shelf : shelf[i].who # e =>
        \/ shelf[i].at > Newest(e).at + Gap
        \/ shelf[i].at < Oldest(e).at
OneRunOneEntry ==
    LET entries == History IN
    \A e \in Eval : Quick(e) /\ Alone(e) =>
        \E g \in DOMAIN entries : \A i \in Places(e) : shelf[i] \in ToSet(entries[g])

\* An evaluation that tells how it ended has released its server, its score is the mean
\* of its marks, and the history shows it as one entry, whatever runs beside it.
EvaluationIsTrue ==
    /\ EvalTypeOK
    /\ FinishedIsReleased
    /\ CompletedIsWhole
    /\ EntriesAreRuns
    /\ OneRunOneEntry
=============================================================================
