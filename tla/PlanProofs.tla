----------------------------- MODULE PlanProofs -----------------------------
(***************************************************************************)
(* Proofs about what runs many benchmarks: the search of the largest       *)
(* context (LimitSearch), for every range, granularity and outcome of its  *)
(* probes, and the plans (BenchPlan), for all items and speeds.            *)
(***************************************************************************)
EXTENDS LimitSearch, BenchPlan, FiniteSetTheorems, TLAPS

-----------------------------------------------------------------------------
(* The search of the limit *)

\* A probe lies strictly inside the bracket; a search that is over had none.
ProbeIsInside ==
  /\ search = "probing" => lo < mid /\ mid < hi
  /\ search = "done" => ~ProbesBetween(lo, hi)
  /\ opts.min <= opts.max => lo <= hi

SearchInv == TypeOK /\ BracketParts /\ ProbeIsInside

\* The options are numbers.
LEMMA OptionsAreNat ==
  ASSUME TypeOK
  PROVE  opts.min \in Nat /\ opts.max \in Nat /\ opts.granularity \in Nat /\ opts.fits \in Nat
BY ContextsAssumption, GranularitiesAssumption DEF TypeOK, Options

\* next_probe gives a context strictly between the ends.
LEMMA MiddleIsInside ==
  ASSUME NEW a \in Nat, NEW b \in Nat, NEW g \in Nat, Width(a, b) > g, Middle(a, b) > a
  PROVE  Middle(a, b) \in Nat /\ a < Middle(a, b) /\ Middle(a, b) < b
<1>1. b > a
  BY DEF Width
<1>2. b - a \in Nat /\ b - a > 0
  BY <1>1
<1>3. \A n \in Nat : n > 0 => n \div 2 \in Nat /\ n \div 2 < n
  OBVIOUS
<1> QED
  BY <1>1, <1>2, <1>3 DEF Middle

\* Without one the ends are close.
LEMMA NoProbeIsClose ==
  ASSUME NEW a \in Nat, NEW b \in Nat, NEW g \in Nat, a <= b,
         ~(Width(a, b) > g /\ Middle(a, b) > a)
  PROVE  b - a <= g \/ b - a <= 1
<1>1. CASE ~(Width(a, b) > g)
  BY <1>1 DEF Width
<1>2. CASE ~(Middle(a, b) > a)
  <2>1. b - a \in Nat
    OBVIOUS
  <2>2. \A n \in Nat : n > 1 => n \div 2 > 0
    OBVIOUS
  <2>3. (b - a) \div 2 \in Int
    OBVIOUS
  <2> QED
    BY <1>2, <2>1, <2>2, <2>3 DEF Middle
<1> QED
  BY <1>1, <1>2

-----------------------------------------------------------------------------

\* The initial state satisfies the invariant.
LEMMA InitSearch == Init => SearchInv
<1> SUFFICES ASSUME Init PROVE SearchInv
  OBVIOUS
<1>1. opts.min \in Nat /\ opts.max \in Nat
  BY ContextsAssumption DEF Init, Options
<1> QED
  BY <1>1 DEF Init, SearchInv, TypeOK, BracketParts, ProbeIsInside

\* Every step keeps it.
LEMMA StepKeepsSearch == SearchInv /\ [Next]_vars => SearchInv'
<1> SUFFICES ASSUME SearchInv, [Next]_vars
             PROVE  SearchInv'
  OBVIOUS
<1>0. opts.min \in Nat /\ opts.max \in Nat /\ opts.granularity \in Nat /\ opts.fits \in Nat
  BY OptionsAreNat DEF SearchInv
<1>1. CASE Chooses
  <2>1. Middle(lo, hi) \in Nat /\ lo < Middle(lo, hi) /\ Middle(lo, hi) < hi
    BY <1>0, <1>1, MiddleIsInside DEF Chooses, ProbesBetween, SearchInv, TypeOK
  <2> QED
    BY <1>1, <2>1 DEF Chooses, SearchInv, TypeOK, BracketParts, ProbeIsInside
<1>2. CASE Ends
  BY <1>2 DEF Ends, SearchInv, TypeOK, BracketParts, ProbeIsInside, ProbesBetween, Width, Middle
<1>3. CASE Completes
  <2>1. TypeOK'
    <3>1. mid \in Nat /\ attempts \subseteq Attempt
      BY DEF SearchInv, TypeOK
    <3>2. [context |-> mid, completed |-> TRUE] \in Attempt
      BY <3>1 DEF Attempt
    <3>3. attempts' \subseteq Attempt
      BY <1>3, <3>1, <3>2 DEF Completes, Attempted
    <3> QED
      BY <1>3, <3>3 DEF Completes, SearchInv, TypeOK
  <2>2. BracketParts'
    <3>1. lo' = mid /\ hi' = hi /\ opts' = opts
      BY <1>3 DEF Completes
    <3>2. attempts' = attempts \cup {[context |-> mid, completed |-> TRUE]}
      BY <1>3 DEF Completes, Attempted
    <3>3. lo \in Nat /\ hi \in Nat /\ mid \in Nat /\ lo < mid /\ mid < hi
      BY <1>3 DEF Completes, SearchInv, TypeOK, ProbeIsInside
    <3>4. \A a \in attempts' : IF a.completed THEN a.context <= lo' ELSE a.context >= hi'
      <4> SUFFICES ASSUME NEW a \in attempts'
                   PROVE  IF a.completed THEN a.context <= lo' ELSE a.context >= hi'
        OBVIOUS
      <4>1. CASE a \in attempts
        <5>1. a.completed \in BOOLEAN /\ a.context \in Nat
          BY <4>1 DEF SearchInv, TypeOK, Attempt
        <5>2. IF a.completed THEN a.context <= lo ELSE a.context >= hi
          BY <4>1 DEF SearchInv, BracketParts
        <5> QED
          BY <5>1, <5>2, <3>1, <3>3
      <4>2. CASE a = [context |-> mid, completed |-> TRUE]
        BY <4>2, <3>1, <3>3
      <4> QED
        BY <4>1, <4>2, <3>2
    <3>5. lo' # opts.min' => [context |-> lo', completed |-> TRUE] \in attempts'
      BY <3>1, <3>2
    <3>6. hi' # opts.max' => [context |-> hi', completed |-> FALSE] \in attempts'
      BY <3>1, <3>2 DEF SearchInv, BracketParts
    <3> QED
      BY <3>4, <3>5, <3>6 DEF BracketParts
  <2>3. ProbeIsInside'
    BY <1>0, <1>3 DEF Completes, SearchInv, TypeOK, ProbeIsInside
  <2> QED
    BY <2>1, <2>2, <2>3 DEF SearchInv
<1>4. CASE FailsProbe
  <2>1. TypeOK'
    <3>1. mid \in Nat /\ attempts \subseteq Attempt
      BY DEF SearchInv, TypeOK
    <3>2. [context |-> mid, completed |-> FALSE] \in Attempt
      BY <3>1 DEF Attempt
    <3>3. attempts' \subseteq Attempt
      BY <1>4, <3>1, <3>2 DEF FailsProbe, Attempted
    <3> QED
      BY <1>4, <3>3 DEF FailsProbe, SearchInv, TypeOK
  <2>2. BracketParts'
    <3>1. hi' = mid /\ lo' = lo /\ opts' = opts
      BY <1>4 DEF FailsProbe
    <3>2. attempts' = attempts \cup {[context |-> mid, completed |-> FALSE]}
      BY <1>4 DEF FailsProbe, Attempted
    <3>3. lo \in Nat /\ hi \in Nat /\ mid \in Nat /\ lo < mid /\ mid < hi
      BY <1>4 DEF FailsProbe, SearchInv, TypeOK, ProbeIsInside
    <3>4. \A a \in attempts' : IF a.completed THEN a.context <= lo' ELSE a.context >= hi'
      <4> SUFFICES ASSUME NEW a \in attempts'
                   PROVE  IF a.completed THEN a.context <= lo' ELSE a.context >= hi'
        OBVIOUS
      <4>1. CASE a \in attempts
        <5>1. a.completed \in BOOLEAN /\ a.context \in Nat
          BY <4>1 DEF SearchInv, TypeOK, Attempt
        <5>2. IF a.completed THEN a.context <= lo ELSE a.context >= hi
          BY <4>1 DEF SearchInv, BracketParts
        <5> QED
          BY <5>1, <5>2, <3>1, <3>3
      <4>2. CASE a = [context |-> mid, completed |-> FALSE]
        BY <4>2, <3>1, <3>3
      <4> QED
        BY <4>1, <4>2, <3>2
    <3>5. hi' # opts.max' => [context |-> hi', completed |-> FALSE] \in attempts'
      BY <3>1, <3>2
    <3>6. lo' # opts.min' => [context |-> lo', completed |-> TRUE] \in attempts'
      BY <3>1, <3>2 DEF SearchInv, BracketParts
    <3> QED
      BY <3>4, <3>5, <3>6 DEF BracketParts
  <2>3. ProbeIsInside'
    BY <1>0, <1>4 DEF FailsProbe, SearchInv, TypeOK, ProbeIsInside
  <2> QED
    BY <2>1, <2>2, <2>3 DEF SearchInv
<1>5. CASE Breaks \/ UNCHANGED vars
  BY <1>5 DEF Breaks, vars, SearchInv, TypeOK, BracketParts, ProbeIsInside, ProbesBetween, Width,
     Middle
<1> QED
  BY <1>1, <1>2, <1>3, <1>4, <1>5 DEF Next

-----------------------------------------------------------------------------

\* The bracket of run_limit_search parts the contexts that completed from those that
\* failed, for every range and every outcome.
THEOREM BracketIsRight == Spec => []BracketParts
<1>1. SearchInv => BracketParts
  BY DEF SearchInv
<1> QED
  BY <1>1, InitSearch, StepKeepsSearch, PTL DEF Spec

\* The search ends with a bracket no wider than the granularity (or 1), as the test
\* binary_search_converges_within_granularity asserts for one range.
THEOREM AnswerIsRight == Spec => []AnswerIsClose
<1>1. SearchInv => AnswerIsClose
  <2> SUFFICES ASSUME SearchInv, search = "done", opts.min <= opts.max
               PROVE  lo <= hi /\ (hi - lo <= opts.granularity \/ hi - lo <= 1)
    BY DEF AnswerIsClose
  <2>1. lo \in Nat /\ hi \in Nat /\ opts.granularity \in Nat /\ lo <= hi
    BY OptionsAreNat DEF SearchInv, TypeOK, ProbeIsInside
  <2>2. ~(Width(lo, hi) > opts.granularity /\ Middle(lo, hi) > lo)
    BY DEF SearchInv, ProbeIsInside, ProbesBetween
  <2> QED
    BY <2>1, <2>2, NoProbeIsClose
<1> QED
  BY <1>1, InitSearch, StepKeepsSearch, PTL DEF Spec

\* Every probe narrows the bracket, so the search starts finitely many servers.
THEOREM ProbesNarrow == Spec => EveryProbeNarrows
<1>1. SearchInv /\ [Next]_vars =>
        [search = "probing" /\ search' = "choosing" => Width(lo', hi') < Width(lo, hi)]_vars
  <2> SUFFICES ASSUME SearchInv, Next, search = "probing", search' = "choosing"
               PROVE  Width(lo', hi') < Width(lo, hi)
    OBVIOUS
  <2>1. lo \in Nat /\ hi \in Nat /\ mid \in Nat /\ lo < mid /\ mid < hi
    BY DEF SearchInv, TypeOK, ProbeIsInside
  <2>2. CASE Completes
    BY <2>1, <2>2 DEF Completes, Width
  <2>3. CASE FailsProbe
    BY <2>1, <2>3 DEF FailsProbe, Width
  <2> QED
    BY <2>2, <2>3 DEF Next, Chooses, Ends, Breaks
<1> QED
  BY <1>1, InitSearch, StepKeepsSearch, PTL DEF Spec, EveryProbeNarrows

\* What the run checks of bracket and answer holds of every range, granularity and
\* machine.
THEOREM SearchRight == Spec => []SearchIsRight
<1>1. SearchInv => TypeOK
  BY DEF SearchInv
<1> QED
  BY <1>1, InitSearch, StepKeepsSearch, BracketIsRight, AnswerIsRight, PTL DEF Spec, SearchIsRight

-----------------------------------------------------------------------------
(* The plans of several runs *)

PlanTypes ==
  /\ plan \in [kind : Kind \cup {"none"}, items : Seq(Item), todo : Seq(Item),
               at : {"idle", "next", "run", "over"}]
  /\ planRows \in Seq([item : Item, status : Status \cup {"running"}])
  /\ summary \in Seq([item : Item, status : Status, speed : Speed])
  /\ low \in Nat
  /\ rest \in BOOLEAN
  /\ verdict \in [at : {"open", "summary", "error", "dropped"}, winner : SUBSET Item]

\* What a plan has left, where it is.
PlanGoesOn ==
  /\ Len(plan.items) <= MaxSteps
  /\ plan.kind = "battle" => Len(plan.items) = 2
  /\ plan.at = "idle" => plan.items = <<>>
  /\ plan.at = "run" => plan.todo # <<>>
  /\ verdict.at # "open" => plan.at = "over"
  /\ verdict.at = "summary" => plan.todo = <<>>
  /\ verdict.at # "summary" => verdict.winner = {}

\* Every item is measured, skipped, still to run, or left out for a failure.
StepsAreCounted ==
  /\ rest => plan.todo = <<>> /\ Len(summary) + low < Len(plan.items)
  /\ ~rest => Len(summary) + low + Len(plan.todo) = Len(plan.items)

\* The rows are those of the summary, and the one of the run under way, or left.
RowsFollow ==
  /\ Len(planRows) \in {Len(summary), Len(summary) + 1}
  /\ \A i \in DOMAIN summary : /\ planRows[i].item = summary[i].item
                               /\ planRows[i].status = summary[i].status
  /\ Len(planRows) = Len(summary) + 1 => /\ planRows[Len(summary) + 1].status = "running"
                                         /\ plan.todo # <<>> /\ plan.at \in {"run", "over"}
                                         /\ planRows[Len(summary) + 1].item = Head(plan.todo)
  /\ plan.at = "run" => Len(planRows) = Len(summary) + 1

\* A sweep has nothing left after a failure.
FailureIsLast ==
  plan.kind = "sweep" => \A i \in DOMAIN summary :
    summary[i].status \in {"failed", "aborted_watchdog"} => i = Len(summary) /\ plan.todo = <<>>

PromptIsCut ==
  /\ prompt \in [wanted : Nat, built : Nat]
  /\ PromptFits

PlanInv ==
  /\ PlanTypes
  /\ PlanGoesOn
  /\ StepsAreCounted
  /\ RowsFollow
  /\ FailureIsLast
  /\ WinnerIsFair
  /\ PromptIsCut

-----------------------------------------------------------------------------
(* The length of a prompt *)

\* The prompt ends at the last boundary: at most two bytes before what is wanted.
LEMMA FillFits ==
  ASSUME NEW w \in Nat
  PROVE  /\ Fill(w) \in 0 .. w /\ IsBoundary(Fill(w))
         /\ w - Fill(w) < 3
<1> DEFINE S == {e \in 0 .. w : IsBoundary(e)}
<1>1. PICK m \in S : w - m < 3 /\ \A e \in S : m >= e
  <2>1. CASE w % 8 \in {0, 3, 6, 7}
    <3>1. w \in S
      BY <2>1 DEF IsBoundary, FillerWidth
    <3> QED
      BY <3>1
  <2>2. CASE w % 8 \in {1, 4}
    <3>1. w - 1 \in Nat /\ (w - 1) % 8 \in {0, 3}
      BY <2>2
    <3>2. w - 1 \in S /\ w \notin S
      BY <2>2, <3>1 DEF IsBoundary, FillerWidth
    <3> QED
      BY <3>1, <3>2
  <2>3. CASE w % 8 \in {2, 5}
    <3>1. w - 2 \in Nat /\ (w - 2) % 8 \in {0, 3} /\ (w - 1) % 8 \in {1, 4}
      BY <2>3
    <3>2. w - 2 \in S /\ w - 1 \notin S /\ w \notin S
      BY <2>3, <3>1 DEF IsBoundary, FillerWidth
    <3>3. \A e \in S : e # w /\ e # w - 1
      BY <3>2
    <3>4. \A e \in S : w - 2 >= e
      BY <3>3
    <3> QED
      BY <3>1, <3>2, <3>4
  <2>4. w % 8 \in 0 .. 7
    OBVIOUS
  <2> QED
    BY <2>1, <2>2, <2>3, <2>4
<1> DEFINE f == CHOOSE x \in S : \A y \in S : x >= y
<1>2. Fill(w) = f
  BY DEF Fill, Max
<1>3. f \in S /\ \A y \in S : f >= y
  BY <1>1
<1>4. f >= m
  BY <1>1, <1>3
<1> HIDE DEF f
<1>5. f \in 0 .. w /\ IsBoundary(f)
  BY <1>3
<1>6. m \in 0 .. w
  BY <1>1
<1> QED
  BY <1>1, <1>2, <1>4, <1>5, <1>6

LEMMA NextPrompt == PlanInv /\ [PlanNext]_planVars => PromptIsCut'
<1> SUFFICES ASSUME PlanInv, [PlanNext]_planVars PROVE PromptIsCut'
  OBVIOUS
<1>1. PromptIsCut
  BY DEF PlanInv
<1>2. CASE prompt' = prompt
  BY <1>1, <1>2 DEF PromptIsCut, PromptFits
<1>3. CASE prompt' = NoPrompt
  BY <1>3 DEF NoPrompt, PromptIsCut, PromptFits, IsBoundary, FillerWidth
<1>4. ASSUME NEW w \in 0 .. 2 * FillerWidth, StartsRun(w) PROVE PromptIsCut'
  <2>1. prompt' = [wanted |-> w, built |-> Fill(w)]
    BY <1>4 DEF StartsRun
  <2>2. w \in Nat
    BY DEF FillerWidth
  <2>3. Fill(w) \in Nat /\ Fill(w) <= w /\ IsBoundary(Fill(w)) /\ w - Fill(w) < 3
    BY <2>2, FillFits
  <2> QED
    BY <2>1, <2>2, <2>3 DEF PromptIsCut, PromptFits
<1> QED
  BY <1>2, <1>3, <1>4
  DEF PlanNext, PlanStep, SkipsStep, StartFails, RunErrs, PlanEnds, RunEnds, PlanDropped, StartsPlan, planVars

-----------------------------------------------------------------------------
(* The winner *)

LEMMA UpToTwo == \A n \in 0 .. 2 : 1 .. n \subseteq {1, 2}
OBVIOUS

LEMMA ElementsAre ==
  ASSUME NEW S, NEW s \in Seq(S)
  PROVE  \A i \in DOMAIN s : s[i] \in S
OBVIOUS

\* Not more runs are measured, or skipped, than there are items.
LEMMA RunsAreItems ==
  ASSUME NEW n \in Nat, NEW l \in Nat, NEW t \in Nat, NEW items \in Nat,
         n + l < items \/ n + l + t = items
  PROVE  n \in 0 .. items /\ \A m \in Nat : items <= m => l \in 0 .. m
OBVIOUS

\* Of two runs that were both completed one is the winner, and not the slower one.
LEMMA FastestIs ==
  ASSUME PlanTypes, PlanGoesOn, StepsAreCounted, plan.kind = "battle", ~(Cardinality(Completed) < 2)
  PROVE  /\ Completed = {1, 2} /\ DOMAIN summary = {1, 2}
         /\ \/ PickWinner = {summary[1].item} /\ summary[1].speed >= summary[2].speed
            \/ PickWinner = {summary[2].item} /\ summary[2].speed >= summary[1].speed
         /\ PickWinner \subseteq Item
<1>1. /\ summary \in Seq([item : Item, status : Status, speed : Speed]) /\ plan.items \in Seq(Item) /\ plan.todo \in Seq(Item)
      /\ low \in Nat /\ Len(plan.items) = 2
  BY DEF PlanTypes, PlanGoesOn
<1>2. Len(summary) \in 0 .. 2
  <2>1. Len(summary) \in Nat /\ Len(plan.todo) \in Nat
    BY <1>1
  <2> QED
    <3>1. Len(summary) + low < 2 \/ Len(summary) + low + Len(plan.todo) = 2
      BY <1>1 DEF StepsAreCounted
    <3> QED
      BY <1>1, <2>1, <3>1, RunsAreItems
<1>3. Completed \subseteq 1 .. Len(summary)
  BY <1>1 DEF Completed
<1>4. Completed = {1, 2}
  <2>1. Completed \subseteq {1, 2}
    <3>1. 1 .. Len(summary) \subseteq {1, 2}
      BY <1>2, UpToTwo
    <3> QED
      BY <1>3, <3>1
  <2>2. Completed \in {{}, {1}, {2}, {1, 2}}
    BY <2>1
  <2>3. Cardinality({}) = 0 /\ Cardinality({1}) = 1 /\ Cardinality({2}) = 1
    BY FS_EmptySet, FS_Singleton
  <2> QED
    BY <2>2, <2>3
<1>5. DOMAIN summary = {1, 2}
  BY <1>1, <1>2, <1>3, <1>4
<1>6. /\ summary[1].speed \in Nat /\ summary[2].speed \in Nat
      /\ summary[1].item \in Item /\ summary[2].item \in Item
  <2>1. \A i \in DOMAIN summary : summary[i] \in [item : Item, status : Status, speed : Speed]
    BY <1>1, ElementsAre
  <2> QED
    BY <1>5, <2>1, PlanAssumption
<1>7. PickWinner = {summary[Max(Fastest({1, 2}))].item}
  BY <1>4 DEF PickWinner
<1>8. \A S : Max(S) = CHOOSE x \in S : \A y \in S : x >= y
  BY DEF Max
<1>9. CASE summary[1].speed <= summary[2].speed
  <2>1. 2 \in Fastest({1, 2}) /\ Fastest({1, 2}) \subseteq {1, 2}
    BY <1>6, <1>9 DEF Fastest
  <2>2. Max(Fastest({1, 2})) = 2
    <3>1. \A x \in Fastest({1, 2}) : (\A y \in Fastest({1, 2}) : x >= y) <=> x = 2
      BY <2>1
    <3> QED
      BY <2>1, <3>1 DEF Max
  <2> QED
    BY <1>4, <1>5, <1>6, <1>7, <1>9, <2>2
<1>10. CASE summary[2].speed < summary[1].speed
  <2>1. Fastest({1, 2}) = {1}
    BY <1>6, <1>10 DEF Fastest
  <2>2. Max({1}) = 1
    BY DEF Max
  <2> QED
    BY <1>4, <1>5, <1>6, <1>7, <1>10, <2>1, <2>2
<1> QED
  BY <1>6, <1>9, <1>10

-----------------------------------------------------------------------------
(* The steps of a plan *)

Row == [item : Item, status : Status \cup {"running"}]
Told == [item : Item, status : Status, speed : Speed]

LEMMA Taken ==
  ASSUME NEW S, NEW s \in Seq(S), s # <<>>
  PROVE  Head(s) \in S /\ Tail(s) \in Seq(S) /\ Len(Tail(s)) = Len(s) - 1 /\ Len(s) \in Nat \ {0}
OBVIOUS

LEMMA Added ==
  ASSUME NEW S, NEW s \in Seq(S), NEW e \in S
  PROVE  /\ Append(s, e) \in Seq(S) /\ Len(Append(s, e)) = Len(s) + 1 /\ Len(s) \in Nat
         /\ DOMAIN Append(s, e) = 1 .. Len(s) + 1 /\ DOMAIN s = 1 .. Len(s)
         /\ \A i \in 1 .. Len(s) : Append(s, e)[i] = s[i]
         /\ Append(s, e)[Len(s) + 1] = e
OBVIOUS

LEMMA ItemsAre ==
  ASSUME NEW items \in SeqOf(Item, MaxSteps)
  PROVE  items \in Seq(Item) /\ Len(items) \in 0 .. MaxSteps
<1>1. PICK m \in 0 .. MaxSteps : items \in [1 .. m -> Item]
  BY DEF SeqOf
<1>2. m \in Nat
  BY PlanAssumption
<1> QED
  BY <1>1, <1>2

\* RunEnds gives the last row its status.
LEMMA RowEnds ==
  ASSUME NEW rows \in Seq(Row), rows # <<>>, NEW status \in Status
  PROVE  LET t == [rows EXCEPT ![Len(rows)].status = status] IN
         /\ t \in Seq(Row) /\ Len(t) = Len(rows)
         /\ \A i \in 1 .. Len(rows) : /\ t[i].item = rows[i].item
                                      /\ i # Len(rows) => t[i] = rows[i]
         /\ t[Len(rows)].status = status
<1> DEFINE n == Len(rows)
           r == [rows[n] EXCEPT !.status = status]
           t == [rows EXCEPT ![n] = r]
<1>1. n \in Nat \ {0} /\ DOMAIN rows = 1 .. n /\ rows[n] \in Row
  OBVIOUS
<1>2. r \in Row /\ r.item = rows[n].item /\ r.status = status
  BY <1>1 DEF Row
<1> HIDE DEF n, r, Row
<1>3. t \in Seq(Row) /\ Len(t) = n /\ t[n] = r /\ \A i \in 1 .. n : i # n => t[i] = rows[i]
  <2>1. \A i \in 1 .. n : t[i] = IF i = n THEN r ELSE rows[i]
    BY <1>1
  <2>2. t \in [1 .. n -> Row]
    <3>1. rows \in [1 .. n -> Row]
      BY <1>1 DEF n
    <3> QED
      BY <1>2, <3>1
  <2>3. t \in Seq(Row) /\ Len(t) = n
    BY <1>1, <2>2
  <2> QED
    BY <1>1, <2>1, <2>3
<1>4. t = [rows EXCEPT ![Len(rows)].status = status]
  BY DEF r, n
<1> HIDE DEF t
<1> QED
  BY <1>1, <1>2, <1>3, <1>4 DEF n

PlanAt == {"idle", "next", "run", "over"}
PlanOf == [kind : Kind \cup {"none"}, items : Seq(Item), todo : Seq(Item), at : PlanAt]
VerdictOf == [at : {"open", "summary", "error", "dropped"}, winner : SUBSET Item]

LEMMA NextPlanTypes == PlanInv /\ [PlanNext]_planVars => PlanTypes'
<1> SUFFICES ASSUME PlanInv, [PlanNext]_planVars PROVE PlanTypes'
  OBVIOUS
<1>0. /\ plan \in PlanOf /\ planRows \in Seq(Row) /\ summary \in Seq(Told)
      /\ low \in Nat /\ rest \in BOOLEAN /\ verdict \in VerdictOf
  BY DEF PlanInv, PlanTypes, PlanOf, PlanAt, Row, Told, VerdictOf
<1>1. SUFFICES /\ plan' \in PlanOf /\ planRows' \in Seq(Row) /\ summary' \in Seq(Told)
               /\ low' \in Nat /\ rest' \in BOOLEAN /\ verdict' \in VerdictOf
  BY DEF PlanTypes, PlanOf, PlanAt, Row, Told, VerdictOf
<1>2. ASSUME NEW at \in PlanAt PROVE [plan EXCEPT !.at = at] \in PlanOf
  BY <1>0, <1>2 DEF PlanOf
<1>3. \A at \in {"error", "dropped"} : [verdict EXCEPT !.at = at] \in VerdictOf
  BY <1>0 DEF VerdictOf
<1>4. ASSUME plan.todo # <<>>
      PROVE  [plan EXCEPT !.todo = Tail(@)] \in PlanOf /\ Head(plan.todo) \in Item
  <2>1. plan.todo \in Seq(Item)
    BY <1>0 DEF PlanOf
  <2>2. Tail(plan.todo) \in Seq(Item) /\ Head(plan.todo) \in Item
    BY <1>4, <2>1, Taken
  <2> QED
    BY <1>0, <2>2 DEF PlanOf
<1>5. ASSUME NEW kind \in Kind, NEW items \in SeqOf(Item, MaxSteps), StartsPlan(kind, items)
      PROVE  plan' \in PlanOf /\ verdict' \in VerdictOf
  <2>1. items \in Seq(Item)
    BY ItemsAre
  <2>2. CASE kind = "quant" /\ items = <<>>
    <3>1. plan' = [plan EXCEPT !.at = "over"] /\ verdict' = [verdict EXCEPT !.at = "error"]
      BY <1>5, <2>2 DEF StartsPlan
    <3> QED
      BY <1>2, <1>3, <3>1 DEF PlanAt
  <2>3. CASE ~(kind = "quant" /\ items = <<>>)
    <3>1. plan' = [kind |-> kind, items |-> items, todo |-> items, at |-> "next"] /\ verdict' = verdict
      BY <1>5, <2>3 DEF StartsPlan
    <3> QED
      BY <1>0, <2>1, <3>1 DEF PlanOf, PlanAt
  <2> QED
    BY <2>2, <2>3
<1>6. CASE \E kind \in Kind, items \in SeqOf(Item, MaxSteps) : StartsPlan(kind, items)
  BY <1>0, <1>5, <1>6 DEF StartsPlan
<1>7. CASE SkipsStep
  BY <1>0, <1>4, <1>7 DEF SkipsStep
<1>8. CASE StartFails \/ RunErrs \/ PlanDropped
  <2>1. /\ plan' = [plan EXCEPT !.at = "over"]
        /\ \E at \in {"error", "dropped"} : verdict' = [verdict EXCEPT !.at = at]
        /\ UNCHANGED <<planRows, summary, low, rest>>
    BY <1>8 DEF StartFails, RunErrs, PlanDropped
  <2> QED
    BY <1>0, <1>2, <1>3, <2>1 DEF PlanAt
<1>9. CASE PlanEnds
  <2>1. /\ plan' = [plan EXCEPT !.at = "over"]
        /\ verdict' = [at |-> "summary", winner |-> PickWinner]
        /\ UNCHANGED <<planRows, summary, low, rest>>
    BY <1>9 DEF PlanEnds
  <2>2. PickWinner \subseteq Item
    <3>1. CASE plan.kind # "battle" \/ Cardinality(Completed) < 2
      BY <3>1 DEF PickWinner
    <3>2. CASE ~(plan.kind # "battle" \/ Cardinality(Completed) < 2)
      BY <1>0, <3>2, FastestIs DEF PickWinner, PlanInv, PlanTypes, PlanGoesOn
    <3> QED
      BY <3>1, <3>2
  <2> QED
    BY <1>0, <1>2, <2>1, <2>2 DEF PlanAt, VerdictOf
<1>10. ASSUME NEW w \in 0 .. 2 * FillerWidth, StartsRun(w)
       PROVE  plan' \in PlanOf /\ planRows' \in Seq(Row) /\ UNCHANGED <<summary, low, rest, verdict>>
  <2>1. /\ plan' = [plan EXCEPT !.at = "run"]
        /\ planRows' = Append(planRows, [item |-> Head(plan.todo), status |-> "running"])
        /\ plan.todo # <<>> /\ UNCHANGED <<summary, low, rest, verdict>>
    BY <1>10 DEF StartsRun
  <2>2. [item |-> Head(plan.todo), status |-> "running"] \in Row
    BY <1>4, <2>1 DEF Row
  <2> QED
    BY <1>0, <1>2, <2>1, <2>2, Added DEF PlanAt
<1>11. ASSUME NEW status \in Status, NEW speed \in Speed, RunEnds(status, speed)
       PROVE  /\ plan' \in PlanOf /\ planRows' \in Seq(Row) /\ summary' \in Seq(Told)
              /\ rest' \in BOOLEAN /\ UNCHANGED <<low, verdict>>
  <2>1. /\ planRows' = [planRows EXCEPT ![Len(planRows)].status = status]
        /\ summary' = Append(summary, [item |-> Head(plan.todo), status |-> status, speed |-> speed])
        /\ rest' = (Stops(status) /\ Len(plan.todo) > 1)
        /\ plan' = [plan EXCEPT !.at = "next", !.todo = IF Stops(status) THEN <<>> ELSE Tail(@)]
        /\ UNCHANGED <<low, verdict>>
    BY <1>11 DEF RunEnds
  <2>2. plan.todo # <<>> /\ planRows # <<>>
    <3>1. plan.todo # <<>> /\ Len(planRows) = Len(summary) + 1 /\ Len(summary) \in Nat
      BY <1>0, <1>11 DEF RunEnds, PlanInv, PlanGoesOn, RowsFollow
    <3> QED
      BY <3>1
  <2>3. [item |-> Head(plan.todo), status |-> status, speed |-> speed] \in Told
    BY <1>4, <2>2 DEF Told
  <2>4. plan' \in PlanOf
    <3>1. plan.todo \in Seq(Item) /\ <<>> \in Seq(Item)
      BY <1>0 DEF PlanOf
    <3>2. Tail(plan.todo) \in Seq(Item)
      BY <2>2, <3>1, Taken
    <3>3. (IF Stops(status) THEN <<>> ELSE Tail(plan.todo)) \in Seq(Item)
      BY <3>1, <3>2
    <3> QED
      BY <1>0, <2>1, <3>3 DEF PlanOf, PlanAt
  <2>5. rest' \in BOOLEAN
    BY <2>1
  <2>6. planRows' \in Seq(Row)
    BY <1>0, <2>1, <2>2, RowEnds
  <2> QED
    BY <1>0, <2>1, <2>3, <2>4, <2>5, <2>6, Added
<1>12. CASE UNCHANGED planVars
  BY <1>0, <1>12 DEF planVars
<1> QED
  BY <1>0, <1>6, <1>7, <1>8, <1>9, <1>10, <1>11, <1>12 DEF PlanNext, PlanStep

\* What the actions have in common.
LEMMA PlanFacts ==
  ASSUME PlanInv
  PROVE  /\ plan \in PlanOf /\ planRows \in Seq(Row) /\ summary \in Seq(Told)
         /\ low \in Nat /\ rest \in BOOLEAN /\ verdict \in VerdictOf
         /\ plan.todo \in Seq(Item) /\ plan.items \in Seq(Item)
         /\ Len(planRows) \in Nat /\ Len(summary) \in Nat /\ Len(plan.todo) \in Nat /\ Len(plan.items) \in Nat
<1>1. /\ plan \in PlanOf /\ planRows \in Seq(Row) /\ summary \in Seq(Told)
      /\ low \in Nat /\ rest \in BOOLEAN /\ verdict \in VerdictOf
  BY DEF PlanInv, PlanTypes, PlanOf, PlanAt, Row, Told, VerdictOf
<1>2. plan.todo \in Seq(Item) /\ plan.items \in Seq(Item)
  BY <1>1 DEF PlanOf
<1> QED
  BY <1>1, <1>2

\* A plan ends early: nothing but its state and the verdict changes.
EndsEarly ==
  /\ plan' = [plan EXCEPT !.at = "over"]
  /\ plan.at \in {"next", "run"}
  /\ \E at \in {"error", "dropped"} : verdict' = [verdict EXCEPT !.at = at]
  /\ UNCHANGED <<planRows, summary, low, rest>>

Goes(at) ==
  plan'.at = at /\ plan'.kind = plan.kind /\ plan'.items = plan.items /\ plan'.todo = plan.todo

LEMMA PlanGoes ==
  ASSUME PlanInv, NEW at \in PlanAt, plan' = [plan EXCEPT !.at = at]
  PROVE  Goes(at)
BY PlanFacts DEF Goes, PlanOf

LEMMA EarlyEnds ==
  ASSUME PlanInv, StartFails \/ RunErrs \/ PlanDropped
  PROVE  EndsEarly /\ Goes("over")
<1>1. EndsEarly
  BY DEF StartFails, RunErrs, PlanDropped, EndsEarly
<1> QED
  BY <1>1, PlanGoes DEF EndsEarly, PlanAt

LEMMA StartsRunIs ==
  ASSUME PlanInv, NEW w, StartsRun(w)
  PROVE  /\ plan.at = "next" /\ plan.todo # <<>> /\ Goes("run")
         /\ planRows' = Append(planRows, [item |-> Head(plan.todo), status |-> "running"])
         /\ UNCHANGED <<summary, low, rest, verdict>>
BY PlanGoes DEF StartsRun, PlanAt

LEMMA RunEndsIs ==
  ASSUME PlanInv, NEW status \in Status, NEW speed \in Speed, RunEnds(status, speed)
  PROVE  LET told == [item |-> Head(plan.todo), status |-> status, speed |-> speed] IN
         /\ plan.at = "run" /\ plan.todo # <<>> /\ planRows # <<>> /\ told \in Told
         /\ planRows' = [planRows EXCEPT ![Len(planRows)].status = status]
         /\ summary' = Append(summary, told)
         /\ rest' = (Stops(status) /\ Len(plan.todo) > 1)
         /\ plan'.at = "next" /\ plan'.kind = plan.kind /\ plan'.items = plan.items
         /\ plan'.todo = IF Stops(status) THEN <<>> ELSE Tail(plan.todo)
         /\ UNCHANGED <<low, verdict>>
<1>1. plan.at = "run" /\ plan.todo # <<>> /\ Len(planRows) = Len(summary) + 1
  BY DEF RunEnds, PlanInv, PlanGoesOn, RowsFollow
<1>2. planRows # <<>>
  BY <1>1, PlanFacts
<1>3. Head(plan.todo) \in Item
  BY <1>1, PlanFacts, Taken
<1>4. plan' = [plan EXCEPT !.at = "next", !.todo = IF Stops(status) THEN <<>> ELSE Tail(@)]
  BY DEF RunEnds
<1>5. /\ plan'.at = "next" /\ plan'.kind = plan.kind /\ plan'.items = plan.items
      /\ plan'.todo = IF Stops(status) THEN <<>> ELSE Tail(plan.todo)
  BY <1>4, PlanFacts DEF PlanOf
<1>6. [item |-> Head(plan.todo), status |-> status, speed |-> speed] \in Told
  BY <1>3 DEF Told
<1> QED
  BY <1>1, <1>2, <1>5, <1>6 DEF RunEnds

LEMMA SkipsIs ==
  ASSUME PlanInv, SkipsStep
  PROVE  /\ plan.at = "next" /\ plan.todo # <<>> /\ plan'.todo = Tail(plan.todo) /\ low' = low + 1
         /\ plan'.at = "next" /\ plan'.kind = plan.kind /\ plan'.items = plan.items
         /\ plan.kind = "sweep" /\ UNCHANGED <<planRows, summary, rest, verdict>>
BY PlanFacts DEF SkipsStep, PlanOf

LEMMA PlanEndsIs ==
  ASSUME PlanInv, PlanEnds
  PROVE  /\ plan.at = "next" /\ plan.todo = <<>> /\ Goes("over")
         /\ verdict' = [at |-> "summary", winner |-> PickWinner]
         /\ UNCHANGED <<planRows, summary, low, rest>>
BY PlanGoes DEF PlanEnds, PlanAt

\* A plan begins with nothing told.
LEMMA BeginsIs ==
  ASSUME PlanInv, NEW kind \in Kind, NEW items \in SeqOf(Item, MaxSteps), StartsPlan(kind, items)
  PROVE  /\ items \in Seq(Item) /\ Len(items) <= MaxSteps /\ plan.items = <<>> /\ plan.todo = <<>>
         /\ UNCHANGED <<planRows, summary, low, rest, prompt>>
         /\ summary = <<>> /\ planRows = <<>> /\ low = 0 /\ ~rest /\ verdict = NoWinner
         /\ \/ Goes("over") /\ verdict' = [verdict EXCEPT !.at = "error"]
            \/ /\ plan' = [kind |-> kind, items |-> items, todo |-> items, at |-> "next"]
               /\ kind = "battle" => Len(items) = 2
               /\ verdict' = verdict
<1>1. items \in Seq(Item) /\ Len(items) <= MaxSteps
  BY ItemsAre, PlanAssumption
<1>2. plan.at = "idle" /\ plan.items = <<>> /\ UNCHANGED <<planRows, summary, low, rest, prompt>>
  BY DEF StartsPlan, PlanInv, PlanGoesOn
<1>3. /\ ~rest /\ low = 0 /\ Len(summary) = 0 /\ Len(plan.todo) = 0
  <2>1. Len(plan.items) = 0
    BY <1>2
  <2> QED
    BY <2>1, PlanFacts DEF PlanInv, StepsAreCounted
<1>4. summary = <<>> /\ plan.todo = <<>>
  BY <1>3, PlanFacts
<1>5. planRows = <<>>
  <2>1. Len(planRows) = 0
    BY <1>2, <1>3, PlanFacts DEF PlanInv, RowsFollow
  <2> QED
    BY <2>1, PlanFacts
<1>6. verdict = NoWinner
  <2>1. verdict.at = "open" /\ verdict.winner = {}
    BY <1>2 DEF PlanInv, PlanGoesOn
  <2> QED
    BY <2>1, PlanFacts DEF VerdictOf, NoWinner
<1>7. CASE kind = "quant" /\ items = <<>>
  <2>1. plan' = [plan EXCEPT !.at = "over"] /\ verdict' = [verdict EXCEPT !.at = "error"]
    BY <1>7 DEF StartsPlan
  <2> QED
    BY <1>1, <1>2, <1>3, <1>4, <1>5, <1>6, <2>1, PlanGoes DEF PlanAt
<1>8. CASE ~(kind = "quant" /\ items = <<>>)
  <2>1. /\ plan' = [kind |-> kind, items |-> items, todo |-> items, at |-> "next"] /\ verdict' = verdict
        /\ kind = "battle" => Len(items) = 2
    BY <1>8 DEF StartsPlan
  <2> QED
    BY <1>1, <1>2, <1>3, <1>4, <1>5, <1>6, <2>1
<1> QED
  BY <1>7, <1>8

\* Every step of a plan is one of these, or leaves all but the prompt alone.
LEMMA PlanCases ==
  ASSUME PlanInv, [PlanNext]_planVars
  PROVE  \/ \E kind \in Kind, items \in SeqOf(Item, MaxSteps) : StartsPlan(kind, items)
         \/ SkipsStep
         \/ StartFails \/ RunErrs \/ PlanDropped
         \/ PlanEnds
         \/ \E w : StartsRun(w)
         \/ \E status \in Status, speed \in Speed : RunEnds(status, speed)
         \/ UNCHANGED <<plan, planRows, summary, low, rest, verdict>>
BY DEF PlanNext, PlanStep, planVars

LEMMA NextGoesOn == PlanInv /\ [PlanNext]_planVars => PlanGoesOn'
<1> SUFFICES ASSUME PlanInv, [PlanNext]_planVars PROVE PlanGoesOn'
  OBVIOUS
<1>0. PlanGoesOn
  BY DEF PlanInv
<1>1. ASSUME NEW kind \in Kind, NEW items \in SeqOf(Item, MaxSteps), StartsPlan(kind, items)
      PROVE  PlanGoesOn'
  <2>1. CASE Goes("over") /\ verdict' = [verdict EXCEPT !.at = "error"]
    <3>1. verdict'.at = "error" /\ verdict'.winner = {}
      BY <1>1, <2>1, BeginsIs DEF NoWinner
    <3> QED
      BY <1>0, <2>1, <3>1 DEF PlanGoesOn, Goes
  <2>2. CASE /\ plan' = [kind |-> kind, items |-> items, todo |-> items, at |-> "next"]
             /\ kind = "battle" => Len(items) = 2
             /\ verdict' = verdict
    <3>1. verdict'.at = "open" /\ verdict'.winner = {} /\ Len(items) <= MaxSteps
      BY <1>1, <2>2, BeginsIs DEF NoWinner
    <3> QED
      BY <2>2, <3>1 DEF PlanGoesOn
  <2> QED
    BY <1>1, <2>1, <2>2, BeginsIs
<1>2. CASE SkipsStep
  BY <1>0, <1>2, SkipsIs DEF PlanGoesOn
<1>3. CASE StartFails \/ RunErrs \/ PlanDropped
  <2>1. EndsEarly /\ Goes("over") /\ verdict.at = "open"
    BY <1>0, <1>3, EarlyEnds DEF EndsEarly, PlanGoesOn
  <2>2. verdict'.at # "summary" /\ verdict'.winner = verdict.winner
    BY <2>1, PlanFacts DEF EndsEarly, VerdictOf
  <2> QED
    BY <1>0, <2>1, <2>2 DEF PlanGoesOn, Goes
<1>4. CASE PlanEnds
  BY <1>0, <1>4, PlanEndsIs DEF PlanGoesOn, Goes
<1>5. ASSUME NEW w, StartsRun(w) PROVE PlanGoesOn'
  BY <1>0, <1>5, StartsRunIs DEF PlanGoesOn, Goes
<1>6. ASSUME NEW status \in Status, NEW speed \in Speed, RunEnds(status, speed) PROVE PlanGoesOn'
  BY <1>0, <1>6, RunEndsIs DEF PlanGoesOn
<1>7. CASE UNCHANGED <<plan, planRows, summary, low, rest, verdict>>
  BY <1>0, <1>7 DEF PlanGoesOn
<1> QED
  BY <1>1, <1>2, <1>3, <1>4, <1>5, <1>6, <1>7, PlanCases

LEMMA NextCounted == PlanInv /\ [PlanNext]_planVars => StepsAreCounted'
<1> SUFFICES ASSUME PlanInv, [PlanNext]_planVars PROVE StepsAreCounted'
  OBVIOUS
<1>0. /\ StepsAreCounted /\ rest \in BOOLEAN /\ low \in Nat
      /\ Len(summary) \in Nat /\ Len(plan.todo) \in Nat /\ Len(plan.items) \in Nat
  BY PlanFacts DEF PlanInv
<1>1. ASSUME NEW kind \in Kind, NEW items \in SeqOf(Item, MaxSteps), StartsPlan(kind, items)
      PROVE  StepsAreCounted'
  <2>1. CASE Goes("over")
    BY <1>0, <1>1, <2>1, BeginsIs DEF StepsAreCounted, Goes
  <2>2. CASE plan' = [kind |-> kind, items |-> items, todo |-> items, at |-> "next"]
    <3>1. summary' = <<>> /\ low' = 0 /\ ~rest' /\ plan'.todo = items /\ plan'.items = items /\ Len(items) \in Nat
      BY <1>1, <2>2, BeginsIs
    <3> QED
      BY <3>1 DEF StepsAreCounted
  <2> QED
    BY <1>1, <2>1, <2>2, BeginsIs
<1>2. CASE SkipsStep
  <2>1. /\ plan.todo # <<>> /\ plan'.todo = Tail(plan.todo) /\ low' = low + 1 /\ plan'.items = plan.items
        /\ summary' = summary /\ rest' = rest
    BY <1>2, SkipsIs
  <2>2. Len(Tail(plan.todo)) = Len(plan.todo) - 1
    BY <2>1, PlanFacts, Taken
  <2>3. ~rest /\ Len(summary) + low + Len(plan.todo) = Len(plan.items)
    BY <1>0, <2>1 DEF StepsAreCounted
  <2>4. Len(summary') + low' + Len(plan'.todo) = Len(plan'.items)
    BY <1>0, <2>1, <2>2, <2>3
  <2>5. ~rest'
    BY <2>1, <2>3
  <2> QED
    BY <2>4, <2>5 DEF StepsAreCounted
<1>3. CASE StartFails \/ RunErrs \/ PlanDropped
  BY <1>0, <1>3, EarlyEnds DEF EndsEarly, StepsAreCounted, Goes
<1>4. CASE PlanEnds
  <2>1. plan'.todo = plan.todo /\ plan'.items = plan.items /\ UNCHANGED <<summary, low, rest>>
    BY <1>4, PlanEndsIs DEF Goes
  <2> QED
    BY <1>0, <2>1 DEF StepsAreCounted
<1>5. ASSUME NEW w, StartsRun(w) PROVE StepsAreCounted'
  BY <1>0, <1>5, StartsRunIs DEF StepsAreCounted, Goes
<1>6. ASSUME NEW status \in Status, NEW speed \in Speed, RunEnds(status, speed) PROVE StepsAreCounted'
  <2>1. /\ plan.todo # <<>> /\ rest' = (Stops(status) /\ Len(plan.todo) > 1)
        /\ plan'.items = plan.items /\ low' = low
        /\ plan'.todo = IF Stops(status) THEN <<>> ELSE Tail(plan.todo)
    BY <1>6, RunEndsIs
  <2>2. Len(summary') = Len(summary) + 1
    <3> DEFINE told == [item |-> Head(plan.todo), status |-> status, speed |-> speed]
    <3>1. summary' = Append(summary, told) /\ told \in Told
      BY <1>6, RunEndsIs
    <3> HIDE DEF told
    <3> QED
      BY <3>1, PlanFacts, Added
  <2>3. Len(plan.todo) > 0 /\ Len(Tail(plan.todo)) = Len(plan.todo) - 1 /\ Len(<<>>) = 0
    BY <2>1, PlanFacts, Taken
  <2>4. ~rest
    BY <1>0, <2>1 DEF StepsAreCounted
  <2>5. Len(summary) + low + Len(plan.todo) = Len(plan.items)
    BY <1>0, <2>4 DEF StepsAreCounted
  <2> DEFINE s == Len(summary)
             t == Len(plan.todo)
             i == Len(plan.items)
             u == Len(plan'.todo)
             l == low
  <2>6. l \in Nat /\ s \in Nat /\ t \in Nat /\ i \in Nat /\ s + l + t = i /\ t > 0
    BY <1>0, <2>3, <2>5
  <2>7. low' = l /\ Len(plan'.items) = i /\ Len(summary') = s + 1
    BY <2>1, <2>2
  <2>8. rest' => plan'.todo = <<>> /\ t > 1
    BY <2>1
  <2>9. ~rest' => u = t - 1
    <3>1. CASE Stops(status)
      <4>1. ~rest' => ~(t > 1)
        BY <2>1, <3>1
      <4>2. u = 0
        BY <2>1, <2>3, <3>1
      <4> HIDE DEF t, u
      <4>3. ~(t > 1) => t - 1 = 0
        BY <2>6
      <4> QED
        BY <4>1, <4>2, <4>3
    <3>2. CASE ~Stops(status)
      BY <2>1, <2>3, <3>2
    <3> QED
      BY <3>1, <3>2
  <2> HIDE DEF s, t, i, l, u
  <2>10. (t > 1 => s + 1 + l < i) /\ (u = t - 1 => s + 1 + l + u = i)
    BY <2>6
  <2>11. rest' => Len(summary') + low' < Len(plan'.items)
    BY <2>7, <2>8, <2>10
  <2>12. ~rest' => Len(summary') + low' + Len(plan'.todo) = Len(plan'.items)
    BY <2>7, <2>9, <2>10 DEF u
  <2> QED
    BY <2>8, <2>11, <2>12 DEF StepsAreCounted
<1>7. CASE UNCHANGED <<plan, planRows, summary, low, rest, verdict>>
  BY <1>0, <1>7 DEF StepsAreCounted
<1> QED
  BY <1>1, <1>2, <1>3, <1>4, <1>5, <1>6, <1>7, PlanCases

LEMMA NextRows == PlanInv /\ [PlanNext]_planVars => RowsFollow'
<1> SUFFICES ASSUME PlanInv, [PlanNext]_planVars PROVE RowsFollow'
  OBVIOUS
<1>0. RowsFollow /\ Len(planRows) \in Nat /\ Len(summary) \in Nat
  BY PlanFacts DEF PlanInv
<1>1. ASSUME NEW kind \in Kind, NEW items \in SeqOf(Item, MaxSteps), StartsPlan(kind, items)
      PROVE  RowsFollow'
  <2>1. planRows' = <<>> /\ summary' = <<>> /\ plan'.at \in {"over", "next"}
    BY <1>1, BeginsIs DEF Goes
  <2> QED
    BY <2>1 DEF RowsFollow
<1>2. CASE SkipsStep
  <2>1. plan.at = "next" /\ plan'.at = "next" /\ UNCHANGED <<planRows, summary>>
    BY <1>2, SkipsIs
  <2> QED
    BY <1>0, <2>1 DEF RowsFollow
<1>3. CASE StartFails \/ RunErrs \/ PlanDropped
  <2>1. plan'.at = "over" /\ plan'.todo = plan.todo /\ UNCHANGED <<planRows, summary>>
    BY <1>3, EarlyEnds DEF EndsEarly, Goes
  <2> QED
    BY <1>0, <2>1 DEF RowsFollow
<1>4. CASE PlanEnds
  <2>1. plan'.at = "over" /\ plan'.todo = plan.todo /\ UNCHANGED <<planRows, summary>>
    BY <1>4, PlanEndsIs DEF Goes
  <2> QED
    BY <1>0, <2>1 DEF RowsFollow
<1>5. ASSUME NEW w, StartsRun(w) PROVE RowsFollow'
  <2> DEFINE row == [item |-> Head(plan.todo), status |-> "running"]
  <2>1. /\ plan.at = "next" /\ plan.todo # <<>> /\ plan'.at = "run" /\ plan'.todo = plan.todo
        /\ planRows' = Append(planRows, row) /\ summary' = summary
    BY <1>5, StartsRunIs DEF Goes
  <2>2. Len(planRows) = Len(summary)
    BY <1>0, <2>1 DEF RowsFollow
  <2>3. row \in Row /\ row.status = "running" /\ row.item = Head(plan.todo)
    <3>1. Head(plan.todo) \in Item
      BY <2>1, PlanFacts, Taken
    <3> QED
      BY <3>1 DEF Row
  <2> HIDE DEF row
  <2>4. /\ Len(planRows') = Len(planRows) + 1 /\ planRows'[Len(planRows) + 1] = row
        /\ \A i \in 1 .. Len(planRows) : planRows'[i] = planRows[i]
    BY <2>1, <2>3, PlanFacts, Added
  <2>5. DOMAIN summary = 1 .. Len(summary)
    BY PlanFacts
  <2>6. \A i \in DOMAIN summary : planRows'[i].item = summary[i].item /\ planRows'[i].status = summary[i].status
    BY <1>0, <2>2, <2>4, <2>5 DEF RowsFollow
  <2> QED
    BY <1>0, <2>1, <2>2, <2>3, <2>4, <2>6 DEF RowsFollow
<1>6. ASSUME NEW status \in Status, NEW speed \in Speed, RunEnds(status, speed) PROVE RowsFollow'
  <2> DEFINE told == [item |-> Head(plan.todo), status |-> status, speed |-> speed]
             n == Len(planRows)
  <2>1. /\ plan.at = "run" /\ planRows # <<>> /\ told \in Told
        /\ planRows' = [planRows EXCEPT ![Len(planRows)].status = status]
        /\ summary' = Append(summary, told) /\ plan'.at = "next"
    BY <1>6, RunEndsIs
  <2>2. n = Len(summary) + 1
    BY <1>0, <2>1 DEF RowsFollow
  <2>3. /\ Len(planRows') = n /\ planRows'[n].status = status /\ planRows'[n].item = planRows[n].item
        /\ \A i \in 1 .. n : i # n => planRows'[i] = planRows[i]
    BY <1>0, <2>1, <2>2, PlanFacts, RowEnds
  <2>4. told.status = status /\ told.item = Head(plan.todo)
    OBVIOUS
  <2> HIDE DEF told, n
  <2>5. /\ Len(summary') = n /\ DOMAIN summary' = 1 .. n /\ DOMAIN summary = 1 .. Len(summary)
        /\ \A i \in 1 .. Len(summary) : summary'[i] = summary[i]
        /\ summary'[n] = told
    BY <2>1, <2>2, PlanFacts, Added
  <2>6. planRows[n].item = told.item
    BY <1>0, <2>2, <2>4 DEF RowsFollow, n
  <2>7. \A i \in DOMAIN summary' : /\ planRows'[i].item = summary'[i].item
                                   /\ planRows'[i].status = summary'[i].status
    <3> SUFFICES ASSUME NEW i \in 1 .. n
                 PROVE  planRows'[i].item = summary'[i].item /\ planRows'[i].status = summary'[i].status
      BY <2>5
    <3>1. CASE i = n
      BY <2>3, <2>4, <2>5, <2>6, <3>1
    <3>2. CASE i # n
      <4>1. i \in 1 .. Len(summary)
        BY <1>0, <2>2, <3>2
      <4> QED
        BY <1>0, <2>3, <2>5, <3>2, <4>1 DEF RowsFollow
    <3> QED
      BY <3>1, <3>2
  <2>8. n \in Nat
    BY <1>0 DEF n
  <2> QED
    BY <2>1, <2>3, <2>5, <2>7, <2>8 DEF RowsFollow
<1>7. CASE UNCHANGED <<plan, planRows, summary, low, rest, verdict>>
  BY <1>0, <1>7 DEF RowsFollow
<1> QED
  BY <1>1, <1>2, <1>3, <1>4, <1>5, <1>6, <1>7, PlanCases

LEMMA NextFailure == PlanInv /\ [PlanNext]_planVars => FailureIsLast'
<1> SUFFICES ASSUME PlanInv, [PlanNext]_planVars PROVE FailureIsLast'
  OBVIOUS
<1>0. FailureIsLast
  BY DEF PlanInv
<1>1. ASSUME NEW kind \in Kind, NEW items \in SeqOf(Item, MaxSteps), StartsPlan(kind, items)
      PROVE  FailureIsLast'
  <2>1. summary' = <<>>
    BY <1>1, BeginsIs
  <2> QED
    BY <2>1 DEF FailureIsLast
<1>2. CASE SkipsStep
  <2>1. plan.todo # <<>> /\ plan'.kind = plan.kind /\ plan.kind = "sweep" /\ summary' = summary
    BY <1>2, SkipsIs
  <2>2. \A i \in DOMAIN summary : summary[i].status \notin {"failed", "aborted_watchdog"}
    BY <1>0, <2>1 DEF FailureIsLast
  <2> QED
    BY <2>1, <2>2 DEF FailureIsLast
<1>3. CASE StartFails \/ RunErrs \/ PlanDropped
  <2>1. plan'.kind = plan.kind /\ plan'.todo = plan.todo /\ summary' = summary
    BY <1>3, EarlyEnds DEF EndsEarly, Goes
  <2> QED
    BY <1>0, <2>1 DEF FailureIsLast
<1>4. CASE PlanEnds
  <2>1. plan'.kind = plan.kind /\ plan'.todo = plan.todo /\ summary' = summary
    BY <1>4, PlanEndsIs DEF Goes
  <2> QED
    BY <1>0, <2>1 DEF FailureIsLast
<1>5. ASSUME NEW w, StartsRun(w) PROVE FailureIsLast'
  <2>1. plan'.kind = plan.kind /\ plan'.todo = plan.todo /\ summary' = summary
    BY <1>5, StartsRunIs DEF Goes
  <2> QED
    BY <1>0, <2>1 DEF FailureIsLast
<1>6. ASSUME NEW status \in Status, NEW speed \in Speed, RunEnds(status, speed) PROVE FailureIsLast'
  <2> SUFFICES ASSUME plan'.kind = "sweep", NEW k \in DOMAIN summary',
                      summary'[k].status \in {"failed", "aborted_watchdog"}
               PROVE  k = Len(summary') /\ plan'.todo = <<>>
    BY DEF FailureIsLast
  <2> DEFINE told == [item |-> Head(plan.todo), status |-> status, speed |-> speed]
             n == Len(summary)
  <2>1. /\ plan.todo # <<>> /\ summary' = Append(summary, told) /\ told \in Told
        /\ plan.kind = "sweep" /\ plan'.todo = IF Stops(status) THEN <<>> ELSE Tail(plan.todo)
    BY <1>6, RunEndsIs
  <2>2. told.status = status
    OBVIOUS
  <2> HIDE DEF told
  <2>3. /\ Len(summary') = n + 1 /\ DOMAIN summary' = 1 .. n + 1 /\ DOMAIN summary = 1 .. n /\ n \in Nat
        /\ \A i \in 1 .. n : summary'[i] = summary[i]
        /\ summary'[n + 1] = told
    BY <2>1, PlanFacts, Added
  <2> HIDE DEF n
  <2>4. \A i \in 1 .. n : summary[i].status \notin {"failed", "aborted_watchdog"}
    BY <1>0, <2>1, <2>3 DEF FailureIsLast
  <2>5. k = n + 1
    <3>1. k \in 1 .. n + 1 /\ k \notin 1 .. n
      BY <2>3, <2>4
    <3> QED
      BY <2>3, <3>1
  <2>6. status \in {"failed", "aborted_watchdog"}
    BY <2>2, <2>3, <2>5
  <2>7. Stops(status)
    BY <2>1, <2>6 DEF Stops
  <2> QED
    BY <2>1, <2>3, <2>5, <2>7
<1>7. CASE UNCHANGED <<plan, planRows, summary, low, rest, verdict>>
  BY <1>0, <1>7 DEF FailureIsLast
<1> QED
  BY <1>1, <1>2, <1>3, <1>4, <1>5, <1>6, <1>7, PlanCases

LEMMA NextWinner == PlanInv /\ [PlanNext]_planVars => WinnerIsFair'
<1> SUFFICES ASSUME PlanInv, [PlanNext]_planVars PROVE WinnerIsFair'
  OBVIOUS
<1>0. WinnerIsFair /\ PlanGoesOn
  BY DEF PlanInv
<1>1. ASSUME verdict'.winner = {} PROVE WinnerIsFair'
  BY <1>1 DEF WinnerIsFair
<1>2. ASSUME NEW kind \in Kind, NEW items \in SeqOf(Item, MaxSteps), StartsPlan(kind, items)
      PROVE  WinnerIsFair'
  <2>1. verdict.winner = {} /\ verdict \in VerdictOf /\ (verdict' = verdict \/ verdict' = [verdict EXCEPT !.at = "error"])
    BY <1>2, BeginsIs, PlanFacts DEF NoWinner
  <2>2. verdict'.winner = {}
    BY <2>1 DEF VerdictOf
  <2> QED
    BY <1>1, <2>2
<1>3. ASSUME verdict' = verdict, plan.at # "over" PROVE WinnerIsFair'
  <2>1. verdict.winner = {}
    BY <1>0, <1>3 DEF PlanGoesOn
  <2> QED
    BY <1>1, <1>3, <2>1
<1>4. CASE SkipsStep
  BY <1>3, <1>4, SkipsIs
<1>5. ASSUME NEW w, StartsRun(w) PROVE WinnerIsFair'
  BY <1>3, <1>5, StartsRunIs
<1>6. ASSUME NEW status \in Status, NEW speed \in Speed, RunEnds(status, speed) PROVE WinnerIsFair'
  BY <1>3, <1>6, RunEndsIs
<1>7. CASE StartFails \/ RunErrs \/ PlanDropped
  <2>1. /\ plan.at \in {"next", "run"}
        /\ \E at \in {"error", "dropped"} : verdict' = [verdict EXCEPT !.at = at]
    BY <1>7, EarlyEnds DEF EndsEarly
  <2>2. verdict.winner = {}
    BY <1>0, <2>1 DEF PlanGoesOn
  <2>3. verdict'.winner = {}
    BY <2>1, <2>2, PlanFacts DEF VerdictOf
  <2> QED
    BY <1>1, <2>3
<1>8. CASE PlanEnds
  <2>1. verdict'.winner = PickWinner /\ summary' = summary
    BY <1>8, PlanEndsIs
  <2>2. Completed' = Completed
    BY <2>1 DEF Completed
  <2>3. CASE plan.kind # "battle" \/ Cardinality(Completed) < 2
    BY <1>1, <2>1, <2>3 DEF PickWinner
  <2>4. CASE ~(plan.kind # "battle" \/ Cardinality(Completed) < 2)
    <3>1. /\ Completed = {1, 2} /\ DOMAIN summary = {1, 2}
          /\ \/ PickWinner = {summary[1].item} /\ summary[1].speed >= summary[2].speed
             \/ PickWinner = {summary[2].item} /\ summary[2].speed >= summary[1].speed
      BY <2>4, FastestIs DEF PlanInv
    <3>2. CASE PickWinner = {summary[1].item} /\ summary[1].speed >= summary[2].speed
      BY <2>1, <2>2, <3>1, <3>2 DEF WinnerIsFair
    <3>3. CASE PickWinner = {summary[2].item} /\ summary[2].speed >= summary[1].speed
      BY <2>1, <2>2, <3>1, <3>3 DEF WinnerIsFair
    <3> QED
      BY <3>1, <3>2, <3>3
  <2> QED
    BY <2>3, <2>4
<1>9. CASE UNCHANGED <<plan, planRows, summary, low, rest, verdict>>
  BY <1>0, <1>9 DEF WinnerIsFair, Completed
<1> QED
  BY <1>2, <1>4, <1>5, <1>6, <1>7, <1>8, <1>9, PlanCases

\* The summary of a plan and the rows of its runs tell the same, of every step; a winner
\* was measured and is not slower; a prompt has the length asked for: for any items, any
\* speeds and any length of a plan (run_context_sweep, run_ab_battle, run_quant_compare).
THEOREM PlansAreTold == PlanSpec => []PlanIsTold
<1>1. PlanInit => PlanInv
  <2> SUFFICES ASSUME PlanInit PROVE PlanInv
    OBVIOUS
  <2>1. /\ plan = [kind |-> "none", items |-> <<>>, todo |-> <<>>, at |-> "idle"]
        /\ planRows = <<>> /\ summary = <<>> /\ low = 0 /\ rest = FALSE
        /\ verdict = NoWinner /\ prompt = NoPrompt
    BY DEF PlanInit
  <2>2. PlanTypes
    <3>1. plan \in PlanOf
      BY <2>1 DEF PlanOf, PlanAt
    <3>2. <<>> \in Seq(Row) /\ <<>> \in Seq(Told)
      OBVIOUS
    <3>3. verdict \in VerdictOf
      BY <2>1 DEF VerdictOf, NoWinner
    <3> QED
      BY <2>1, <3>1, <3>2, <3>3 DEF PlanTypes, PlanOf, PlanAt, Row, Told, VerdictOf
  <2>3. PlanGoesOn /\ RowsFollow /\ FailureIsLast
    BY <2>1, PlanAssumption DEF PlanGoesOn, NoWinner, RowsFollow, FailureIsLast
  <2>4. StepsAreCounted
    BY <2>1 DEF StepsAreCounted
  <2>5. WinnerIsFair /\ PromptIsCut
    BY <2>1 DEF WinnerIsFair, NoWinner, PromptIsCut, PromptFits, NoPrompt, IsBoundary, FillerWidth
  <2> QED
    BY <2>2, <2>3, <2>4, <2>5 DEF PlanInv
<1>2. PlanInv /\ [PlanNext]_planVars => PlanInv'
  BY NextPlanTypes, NextGoesOn, NextCounted, NextRows, NextFailure, NextWinner, NextPrompt DEF PlanInv
<1>3. PlanInv => PlanIsTold
  <2> SUFFICES ASSUME PlanInv PROVE PlanIsTold
    OBVIOUS
  <2> DEFINE n == Len(summary)
  <2>1. /\ DOMAIN planRows = 1 .. Len(planRows) /\ DOMAIN summary = 1 .. n
        /\ \A i \in DOMAIN planRows : planRows[i] \in Row
        /\ \A i \in DOMAIN summary : summary[i] \in Told
    BY PlanFacts, ElementsAre
  <2>2. Len(planRows) \in Nat /\ n \in Nat /\ low \in Nat
    BY PlanFacts
  <2>3. /\ Len(planRows) = n \/ Len(planRows) = n + 1
        /\ \A i \in 1 .. n : /\ planRows[i].item = summary[i].item
                             /\ planRows[i].status = summary[i].status
        /\ Len(planRows) = n + 1 => planRows[n + 1].status = "running" /\ plan.todo # <<>>
    BY <2>1 DEF PlanInv, RowsFollow
  <2>4. \A i \in 1 .. n : planRows[i].status \in Status
    BY <2>1, <2>3 DEF Told
  <2>11. 1 .. n \subseteq DOMAIN planRows
    <3> HIDE DEF n
    <3>1. 1 .. n \subseteq 1 .. Len(planRows)
      BY <2>2, <2>3
    <3> QED
      BY <2>1, <3>1
  <2>5. PlanTypeOK
    <3>1. low \in 0 .. MaxSteps
      <4>1. Len(plan.items) <= MaxSteps /\ Len(plan.items) \in Nat /\ MaxSteps \in Nat
        BY PlanFacts, PlanAssumption DEF PlanInv, PlanGoesOn
      <4>2. n + low < Len(plan.items) \/ n + low + Len(plan.todo) = Len(plan.items)
        BY DEF PlanInv, StepsAreCounted
      <4>3. Len(plan.todo) \in Nat
        BY PlanFacts
      <4> QED
        BY <2>2, <4>1, <4>2, <4>3, RunsAreItems
    <3>2. \A i \in DOMAIN planRows : planRows[i].status \in Status \cup {"running"}
      BY <2>1 DEF Row
    <3> QED
      BY <3>1, <3>2 DEF PlanInv, PlanTypes, PlanTypeOK
  <2>6. SummaryIsStored
    <3> DEFINE told == [i \in DOMAIN summary |-> [item |-> summary[i].item, status |-> summary[i].status]]
    <3>1. \A i \in 1 .. n : planRows[i] = told[i]
      <4> SUFFICES ASSUME NEW i \in 1 .. n PROVE planRows[i] = told[i]
        OBVIOUS
      <4>1. i \in DOMAIN planRows /\ told[i] = [item |-> summary[i].item, status |-> summary[i].status]
        BY <2>1, <2>11
      <4>2. planRows[i] = [item |-> planRows[i].item, status |-> planRows[i].status]
        BY <2>1, <4>1 DEF Row
      <4> QED
        BY <2>3, <4>1, <4>2
    <3>2. told \in Seq(Row) /\ Len(told) = n /\ DOMAIN told = 1 .. n
      <4>1. DOMAIN told = 1 .. n
        BY <2>1
      <4>2. \A i \in 1 .. n : told[i] \in Row
        BY <2>1, <2>11, <3>1
      <4>3. told \in [1 .. n -> Row]
        BY <2>1, <4>1, <4>2
      <4> HIDE DEF told, n
      <4> QED
        BY <2>2, <4>3
    <3> HIDE DEF told
    <3>3. CASE Len(planRows) = n
      <4>1. planRows = told
        BY <2>1, <2>2, <3>1, <3>2, <3>3, PlanFacts
      <4> QED
        BY <4>1 DEF SummaryIsStored, told
    <3>4. CASE Len(planRows) = n + 1
      <4> DEFINE x == planRows[n + 1].item
                 row == [item |-> x, status |-> "running"]
      <4>1. n + 1 \in DOMAIN planRows /\ planRows[n + 1].status = "running"
        BY <2>1, <2>2, <2>3, <3>4
      <4>2. x \in Item /\ planRows[n + 1] = row /\ row \in Row
        BY <2>1, <4>1 DEF Row
      <4> HIDE DEF x, row
      <4>3. planRows = Append(told, row)
        <5>1. /\ Append(told, row) \in Seq(Row) /\ Len(Append(told, row)) = n + 1
              /\ \A i \in 1 .. n : Append(told, row)[i] = told[i]
              /\ Append(told, row)[n + 1] = row
          BY <3>2, <4>2, Added
        <5>2. \A i \in 1 .. n + 1 : planRows[i] = Append(told, row)[i]
          BY <2>2, <3>1, <4>2, <5>1
        <5> QED
          BY <2>2, <3>4, <5>1, <5>2, PlanFacts
      <4> QED
        BY <4>2, <4>3 DEF SummaryIsStored, told, row
    <3> QED
      BY <2>3, <3>3, <3>4
  <2>7. OnlyLastIsLeft
    <3>1. \A i \in DOMAIN planRows : planRows[i].status = "running" => i = Len(planRows) /\ Len(planRows) = n + 1
      <4> SUFFICES ASSUME NEW i \in DOMAIN planRows, planRows[i].status = "running"
                   PROVE  i = Len(planRows) /\ Len(planRows) = n + 1
        OBVIOUS
      <4>1. i \notin 1 .. n
        BY <2>4 DEF Status
      <4>2. i \in 1 .. Len(planRows)
        BY <2>1
      <4> HIDE DEF n
      <4> QED
        BY <2>2, <2>3, <4>1, <4>2
    <3>2. verdict.at = "summary" => plan.todo = <<>>
      BY DEF PlanInv, PlanGoesOn
    <3> QED
      BY <2>3, <3>1, <3>2 DEF OnlyLastIsLeft
  <2>8. SweepStopsAtFailure
    <3> SUFFICES ASSUME plan.kind = "sweep", NEW i \in DOMAIN planRows,
                        planRows[i].status \in {"failed", "aborted_watchdog"}
                 PROVE  i = Len(planRows)
      BY DEF SweepStopsAtFailure
    <3>1. i # n + 1 \/ Len(planRows) = n
      BY <2>1, <2>3
    <3>2. i \in 1 .. n
      <4>1. i \in 1 .. Len(planRows)
        BY <2>1
      <4> HIDE DEF n
      <4> QED
        BY <2>2, <2>3, <3>1, <4>1
    <3>3. i = n /\ plan.todo = <<>>
      <4>1. summary[i].status \in {"failed", "aborted_watchdog"} /\ i \in DOMAIN summary
        BY <2>1, <2>3, <3>2
      <4> QED
        BY <4>1 DEF PlanInv, FailureIsLast
    <3> QED
      BY <2>3, <3>3
  <2>9. EveryStepIsTold
    <3>1. verdict.at = "summary" => plan.todo = <<>>
      BY DEF PlanInv, PlanGoesOn
    <3>2. Len(<<>>) = 0 /\ \A a, b, c \in Nat : a + b + 0 = c => ~(a + b < c)
      OBVIOUS
    <3>3. Len(plan.items) \in Nat
      BY PlanFacts
    <3>4. /\ rest => n + low < Len(plan.items)
          /\ ~rest => n + low + Len(plan.todo) = Len(plan.items)
      BY DEF PlanInv, StepsAreCounted
    <3> QED
      BY <2>2, <3>1, <3>2, <3>3, <3>4 DEF EveryStepIsTold
  <2>10. WinnerIsFair /\ PromptFits
    BY DEF PlanInv, PromptIsCut
  <2> QED
    BY <2>5, <2>6, <2>7, <2>8, <2>9, <2>10 DEF PlanIsTold
<1> QED
  BY <1>1, <1>2, <1>3, PTL DEF PlanSpec
=============================================================================
