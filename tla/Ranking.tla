------------------------------ MODULE Ranking ------------------------------
(***************************************************************************)
(* What is shown of the measurements (stats.rs, tps_tier.rs,               *)
(* compare_models of db.rs): for a context that is asked for, each model's *)
(* representative run, its speed and tier, and the order of the models.    *)
(***************************************************************************)
EXTENDS Integers, Sequences, SequencesExt, FiniteSets, FiniteSetsExt, Functions

CONSTANTS Models,      \* how many models there are; they are ordered by their ids
          MaxRuns,     \* bound: runs
          Context,     \* context sizes that are measured
          Target,      \* context sizes that are asked for
          Result       \* what runs measure: decode and total speed, time to the first
                       \* token; -1 stands for NULL

Null == -1
Reading == Nat \cup {Null}

\* Speeds and times are not negative.
ASSUME RankingAssumption ==
    /\ Models \in Nat /\ MaxRuns \in Nat /\ Context \subseteq Nat /\ Target \subseteq Nat
    /\ Result \subseteq [decode : Reading, total : Reading, ttft : Reading]

VARIABLES board,       \* the runs: model, context, status, result, ended_at
          diffusion,   \* the models whose profile_json says diffusion
          minute       \* what ended_at is taken from

rankVars == <<board, diffusion, minute>>

Nothing == [decode |-> Null, total |-> Null, ttft |-> Null]

RankInit == board = <<>> /\ diffusion = {} /\ minute = 0

\* insert_run.
BeginsMeasure(model, context) ==
    /\ Len(board) < MaxRuns
    /\ board' = Append(board, [model |-> model, context |-> context, status |-> "running",
                               result |-> Nothing, ended |-> Null])
    /\ UNCHANGED <<diffusion, minute>>

\* The result is inserted and the run finished, in the same millisecond as another
\* one or later.
EndsMeasure(r, status, result, later) ==
    /\ board[r].status = "running"
    /\ minute' = minute + later
    /\ board' = [board EXCEPT ![r].status = status, ![r].ended = minute + later, ![r].result = result]
    /\ UNCHANGED diffusion

\* upsert_model stores a profile that has changed.
ChangesKind(model) ==
    /\ diffusion' = IF model \in diffusion THEN diffusion \ {model} ELSE diffusion \cup {model}
    /\ UNCHANGED <<board, minute>>

RankNext ==
    \/ \E model \in 1..Models, context \in Context : BeginsMeasure(model, context)
    \/ \E r \in DOMAIN board, status \in {"completed", "failed"}, result \in Result, later \in 0..1 :
          EndsMeasure(r, status, result, later)
    \/ \E model \in 1..Models : ChangesKind(model)

RankSpec == RankInit /\ [][RankNext]_rankVars
-----------------------------------------------------------------------------
(* What the programs compute. *)

\* effective_display_tps: the total speed, if there is one, for a diffusion model.
Effective(model, result) ==
    IF model \notin diffusion THEN result.decode
    ELSE IF result.total > 0 THEN result.total ELSE Null

\* tps_tier, from unusable to realtime.
Tier(speed) == Cardinality({limit \in {10, 40, 60, 100} : speed >= limit})

\* load_model_runs, load_model_runs_for_compare: what was completed and timed.
MeasuredRuns(model) ==
    {r \in DOMAIN board : board[r].model = model /\ board[r].status = "completed" /\ board[r].result.ttft # Null}

\* A plausible fault: the query for a comparison forgets the status.
ComparedRunsAll(model) == {r \in DOMAIN board : board[r].model = model /\ board[r].result.ttft # Null}
ComparedRuns(model) ==
    {r \in DOMAIN board : board[r].model = model /\ board[r].status = "completed" /\ board[r].result.ttft # Null}

Distance(a, b) == IF a > b THEN a - b ELSE b - a

\* nearest_context: the smaller one of two that are equally near.
Nearest(target, contexts) ==
    Min({c \in contexts : \A d \in contexts : Distance(c, target) <= Distance(d, target)})

\* A plausible fault: the run with the largest id.
LatestById(rs) == Max(rs)
\* pick_latest_at_context: the last to end, the larger id of equals.
Latest(rs) ==
    Max({r \in rs : \A q \in rs : board[q].ended <= board[r].ended})

\* pick_representative_run.
Representative(of, target) ==
    Latest({r \in of : board[r].context = Nearest(target, {board[q].context : q \in of})})

ShownRow(model, of, target) ==
    LET r == Representative(of, target)
    IN  [model |-> model, run |-> r, speed |-> Effective(model, board[r].result), time |-> board[r].result.ttft,
         substituted |-> board[r].context # target]

BeforeInSpeed(a, b) == a.speed > b.speed \/ (a.speed = b.speed /\ a.model < b.model)
BeforeInTime(a, b) == a.time > b.time \/ (a.time = b.time /\ a.model < b.model)

\* A set in the order of Before, written out so that the provers can open it.
InOrder(S, Before(_, _)) ==
    [i \in 1..Cardinality(S) |-> CHOOSE x \in S : Cardinality({y \in S : Before(y, x)}) = i - 1]

\* stats_overview: those with a speed, the fastest first; then the others, by the
\* time they take, the longest first.
Overview(target) ==
    LET rows == {ShownRow(m, MeasuredRuns(m), target) : m \in {m \in 1..Models : MeasuredRuns(m) # {}}}
    IN  InOrder({x \in rows : x.speed # Null}, BeforeInSpeed)
          \o InOrder({x \in rows : x.speed = Null}, BeforeInTime)

\* compare_models: a model without a measurement has a row without numbers.
Compare(model, target) == {ShownRow(m, ComparedRuns(m), target) : m \in {m \in {model} : ComparedRuns(m) # {}}}

\* list_runs, map_run_list_row: every run of a model, whatever became of it.
ListedRuns(model) ==
    {[run |-> r, speed |-> Effective(model, board[r].result)] : r \in {r \in DOMAIN board : board[r].model = model}}

\* measured_contexts: what the screens offer to ask for.
MeasuredContexts == {board[r].context : r \in {r \in DOMAIN board : board[r].status = "completed"}}

RunsAt(model, context) == {r \in MeasuredRuns(model) : board[r].context = context}
Speeds(model, context) ==
    LET of(r) == Effective(model, board[r].result)
    IN  [r \in {r \in RunsAt(model, context) : of(r) # Null} |-> of(r)]

MeanSpeed(speeds, rs) == FoldFunction(+, 0, speeds) \div Cardinality(DOMAIN speeds)

\* stats_model: the run whose speed and tier are the model's current ones, whatever
\* its context, ...
Current(model) == Latest(MeasuredRuns(model))

\* ... and the summary of a context in which a speed was measured.
Spread(model, context) ==
    LET speeds == Speeds(model, context)
    IN  [min |-> Min(Range(speeds)), mean |-> MeanSpeed(speeds, RunsAt(model, context)), max |-> Max(Range(speeds))]
-----------------------------------------------------------------------------
(* Properties. *)

RankTypeOK ==
    /\ \A r \in DOMAIN board : /\ board[r].status \in {"running", "completed", "failed"}
                               /\ board[r].ended <= minute
                               /\ board[r].status = "running" <=> board[r].ended = Null
    /\ diffusion \subseteq 1..Models

\* The overview, the comparison and the list of runs, which load the runs with
\* queries of their own, show the same run with the same speed for the same context;
\* a model's own page never goes by an older run than the overview does.
ViewsAgree ==
    \A target \in Target, model \in 1..Models :
        LET shown == {x \in ToSet(Overview(target)) : x.model = model}
        IN  /\ shown = Compare(model, target)
            /\ \A x \in shown : /\ [run |-> x.run, speed |-> x.speed] \in ListedRuns(model)
                              /\ board[x.run].ended <= board[Current(model)].ended

\* No context that was measured is nearer to the one asked for than the one shown,
\* and the mark for a substitute is there exactly when it was not measured itself;
\* what is shown could have been asked for.
NearestIsShown ==
    \A target \in Target : \A x \in ToSet(Overview(target)) :
        /\ board[x.run].context \in MeasuredContexts
        /\ \A r \in MeasuredRuns(x.model) :
              LET near == Distance(board[r].context, target) - Distance(board[x.run].context, target)
              IN  near > 0 \/ (near = 0 /\ board[r].context >= board[x.run].context)
        /\ x.substituted <=> \A r \in MeasuredRuns(x.model) : board[r].context # target

\* Every model with a measurement is in the overview once; none stands below a
\* slower one or one of a lower tier; those without a speed come last.
OverviewIsRanked ==
    \A target \in Target :
        LET rows == Overview(target)
        IN  /\ {x.model : x \in ToSet(rows)} = {m \in 1..Models : MeasuredRuns(m) # {}}
            /\ \A i, j \in DOMAIN rows : i < j =>
                  /\ rows[i].model # rows[j].model
                  /\ rows[i].speed >= rows[j].speed
                  /\ Tier(rows[i].speed) >= Tier(rows[j].speed)

\* A run that is completed at the context asked for is what is shown from then on,
\* unless another one ended in the same millisecond.
NewMeasureShows ==
    [][\A r \in DOMAIN board : \A target \in Target :
          (/\ board[r].status = "running" /\ board'[r].status = "completed"
           /\ board'[r].result.ttft # Null /\ board[r].context = target /\ minute' > minute)
              => \E x \in ToSet(Overview(target))' : x.run = r]_rankVars

\* Least, mean and greatest speed are in this order, where there is a speed, and the
\* speed that the overview shows for the context lies between them.
SpreadIsOrdered ==
    \A model \in 1..Models, context \in Context : Speeds(model, context) # <<>> =>
        LET s == Spread(model, context)
        IN  /\ s.min <= s.mean /\ s.mean <= s.max
            /\ \A x \in ToSet(Overview(context)) :
                  x.model = model /\ x.speed # Null /\ ~x.substituted => s.min <= x.speed /\ x.speed <= s.max

\* The views of the measurements agree with each other and with what was measured,
\* with contexts and speeds that are missing, tied or given out for others.
RankingAgrees ==
    /\ RankTypeOK
    /\ ViewsAgree
    /\ NearestIsShown
    /\ OverviewIsRanked
    /\ SpreadIsOrdered
=============================================================================
