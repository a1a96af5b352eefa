----------------------------- MODULE BenchPlan -----------------------------
(***************************************************************************)
(* The plans of several runs (bench.rs): a sweep over context sizes, an    *)
(* A/B battle of two profiles and a comparison of quantisations.  Each run *)
(* is BenchCycle's, reduced to how it ends; its row in the store is there  *)
(* before it starts and gets its status when it is over.                   *)
(***************************************************************************)
EXTENDS Naturals, Sequences, SequencesExt, FiniteSets, FiniteSetsExt

CONSTANTS Item,        \* context sizes of a sweep, or profiles
          MaxSteps,    \* bound: runs of a plan
          Speed        \* decoding speeds; 0 stands for none measured

ASSUME PlanAssumption == MaxSteps \in Nat \ {0} /\ Speed \subseteq Nat

VARIABLES plan,      \* the kind of the plan, all its items, and those still to run
          planRows,  \* the rows in the store: item and status
          summary,   \* the rows of the summary: item, status and speed
          low,       \* steps skipped for want of memory
          rest,      \* skipped_remaining
          verdict,   \* how the plan ended, and the winner of a battle
          prompt     \* the prompt of the run: bytes wanted and bytes there

planVars == <<plan, planRows, summary, low, rest, verdict, prompt>>

Kind == {"sweep", "battle", "quant"}
Status == {"completed", "aborted_watchdog", "failed", "cancelled"}
NoWinner == [at |-> "open", winner |-> {}]
NoPrompt == [wanted |-> 0, built |-> 0]

\* FILLER_TEXT, in bytes: characters of three (Korean) and of one follow each other,
\* for which two of each stand here.
FillerWidth == 8
IsBoundary(e) == e % FillerWidth \in {0, 3, 6, 7}

\* build_context_fill_prompt: whole copies of the filler, cut at the last
\* boundary of a character that is not beyond what is wanted.
Fill(wanted) == Max({e \in 0..wanted : IsBoundary(e)})

PlanInit ==
    /\ plan = [kind |-> "none", items |-> <<>>, todo |-> <<>>, at |-> "idle"]
    /\ planRows = <<>>
    /\ summary = <<>>
    /\ low = 0
    /\ rest = FALSE
    /\ verdict = NoWinner
    /\ prompt = NoPrompt

\* A plan is asked for; without profiles a comparison is refused.
StartsPlan(kind, items) ==
    /\ plan.at = "idle"
    /\ kind = "battle" => Len(items) = 2
    /\ IF kind = "quant" /\ items = <<>>
         THEN plan' = [plan EXCEPT !.at = "over"] /\ verdict' = [verdict EXCEPT !.at = "error"]
         ELSE plan' = [kind |-> kind, items |-> items, todo |-> items, at |-> "next"] /\ UNCHANGED verdict
    /\ UNCHANGED <<planRows, summary, low, rest, prompt>>

\* Less than 8 GiB are available: the step is passed over without a row.
SkipsStep ==
    /\ plan.at = "next" /\ plan.kind = "sweep" /\ plan.todo # <<>>
    /\ plan' = [plan EXCEPT !.todo = Tail(@)]
    /\ low' = low + 1
    /\ UNCHANGED <<planRows, summary, rest, verdict, prompt>>

\* The prompt is built and the row of the run inserted (allocate_bench_run).
StartsRun(wanted) ==
    /\ plan.at = "next" /\ plan.todo # <<>>
    /\ prompt' = [wanted |-> wanted, built |-> Fill(wanted)]
    /\ planRows' = Append(planRows, [item |-> Head(plan.todo), status |-> "running"])
    /\ plan' = [plan EXCEPT !.at = "run"]
    /\ UNCHANGED <<summary, low, rest, verdict>>

\* The prompt file cannot be read, or the row cannot be inserted.
StartFails ==
    /\ plan.at = "next" /\ plan.todo # <<>>
    /\ plan' = [plan EXCEPT !.at = "over"]
    /\ verdict' = [verdict EXCEPT !.at = "error"]
    /\ UNCHANGED <<planRows, summary, low, rest, prompt>>

Stops(status) == plan.kind = "sweep" /\ status \in {"aborted_watchdog", "failed"}

\* The run is over, with statistics or without; a sweep stops at a failure and
\* says whether steps are left.
RunEnds(status, speed) ==
    /\ plan.at = "run"
    /\ planRows' = [planRows EXCEPT ![Len(planRows)].status = status]
    /\ summary' = Append(summary, [item |-> Head(plan.todo), status |-> status, speed |-> speed])
    /\ rest' = (Stops(status) /\ Len(plan.todo) > 1)
    /\ plan' = [plan EXCEPT !.at = "next", !.todo = IF Stops(status) THEN <<>> ELSE Tail(@)]
    /\ prompt' = NoPrompt
    /\ UNCHANGED <<low, verdict>>

\* The cycle or a write to the store returns an error: the plan ends with it and
\* the row stays as it is.
RunErrs ==
    /\ plan.at = "run"
    /\ plan' = [plan EXCEPT !.at = "over"]
    /\ verdict' = [verdict EXCEPT !.at = "error"]
    /\ prompt' = NoPrompt
    /\ UNCHANGED <<planRows, summary, low, rest>>

\* bench_abort drops the task wherever it waits.
PlanDropped ==
    /\ plan.at \in {"next", "run"}
    /\ plan' = [plan EXCEPT !.at = "over"]
    /\ verdict' = [verdict EXCEPT !.at = "dropped"]
    /\ prompt' = NoPrompt
    /\ UNCHANGED <<planRows, summary, low, rest>>

Completed == {i \in DOMAIN summary : summary[i].status = "completed" /\ summary[i].speed > 0}
Fastest(rows) == {i \in rows : \A j \in rows : summary[j].speed <= summary[i].speed}

\* A plausible fault: whoever completed wins.
PickWinnerAnyhow ==
    IF plan.kind # "battle" \/ Completed = {} THEN {} ELSE {summary[Max(Fastest(Completed))].item}

\* pick_winner: none unless both have completed; the later one of equals.
PickWinner ==
    IF plan.kind # "battle" \/ Cardinality(Completed) < 2 THEN {}
    ELSE {summary[Max(Fastest(Completed))].item}

PlanEnds ==
    /\ plan.at = "next" /\ plan.todo = <<>>
    /\ plan' = [plan EXCEPT !.at = "over"]
    /\ verdict' = [at |-> "summary", winner |-> PickWinner]
    /\ UNCHANGED <<planRows, summary, low, rest, prompt>>

\* The steps of the plan itself.  A run need not end: it may wait for its port for
\* ever (the port loop of BenchCycle).
PlanStep ==
    \/ SkipsStep \/ StartFails \/ PlanEnds
    \/ \E wanted \in 0..2 * FillerWidth : StartsRun(wanted)
PlanNext ==
    \/ PlanStep \/ RunErrs \/ PlanDropped
    \/ \E status \in Status, speed \in Speed : RunEnds(status, speed)
    \/ \E kind \in Kind, items \in SeqOf(Item, MaxSteps) : StartsPlan(kind, items)

PlanSpec == PlanInit /\ [][PlanNext]_planVars /\ WF_planVars(PlanStep)
-----------------------------------------------------------------------------
(* Properties. *)

PlanTypeOK ==
    /\ plan.kind \in Kind \cup {"none"} /\ plan.at \in {"idle", "next", "run", "over"}
    /\ \A i \in DOMAIN planRows : planRows[i].status \in Status \cup {"running"}
    /\ low \in 0..MaxSteps
    /\ rest \in BOOLEAN
    /\ verdict.at \in {"open", "summary", "error", "dropped"}

\* What the summary says of a run is what the store says, run by run; the store
\* has at most one run more, the one under way or left behind.
SummaryIsStored ==
    LET told == [i \in DOMAIN summary |-> [item |-> summary[i].item, status |-> summary[i].status]]
    IN  \/ planRows = told
        \/ \E x \in Item : planRows = Append(told, [item |-> x, status |-> "running"])

\* A plan that reports a summary leaves no row running; one that ends with an
\* error or is dropped leaves at most its last.
OnlyLastIsLeft ==
    /\ \A i \in DOMAIN planRows : planRows[i].status = "running" => i = Len(planRows)
    /\ verdict.at = "summary" => \A i \in DOMAIN planRows : planRows[i].status # "running"

\* No step of a sweep is run after one that failed or was aborted.
SweepStopsAtFailure ==
    plan.kind = "sweep" =>
        \A i \in DOMAIN planRows : planRows[i].status \in {"failed", "aborted_watchdog"} => i = Len(planRows)

\* A summary accounts for every item: measured, skipped for want of memory, or
\* left out after a failure; the flag is set exactly in the last case.
EveryStepIsTold ==
    verdict.at = "summary" => (rest <=> Len(summary) + low < Len(plan.items))

\* A winner was measured, the other one too, and is not slower.
WinnerIsFair ==
    \A w \in verdict.winner :
        \E i, j \in DOMAIN summary : /\ i # j /\ summary[i].item = w
                                     /\ {i, j} = Completed
                                     /\ summary[i].speed >= summary[j].speed

\* A prompt is cut between two characters and less than one character short.
PromptFits ==
    /\ IsBoundary(prompt.built) /\ prompt.built <= prompt.wanted
    /\ prompt.wanted - prompt.built < 3

\* Every plan ends, unless one of its runs does not.
PlanFinishes == []<>(plan.at # "run") => []<>(plan.at \in {"idle", "over"})

\* The summary of a plan and the rows of its runs tell the same, step by step, of
\* failures, errors, skipped steps and a fair winner; a prompt has the length asked for.
PlanIsTold ==
    /\ PlanTypeOK
    /\ SummaryIsStored
    /\ OnlyLastIsLeft
    /\ SweepStopsAtFailure
    /\ EveryStepIsTold
    /\ WinnerIsFair
    /\ PromptFits
=============================================================================
