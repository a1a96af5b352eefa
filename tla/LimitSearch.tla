---------------------------- MODULE LimitSearch ----------------------------
(***************************************************************************)
(* The search for the largest context a machine can serve (bench.rs,       *)
(* run_limit_search with next_probe and apply_probe_result): a bisection   *)
(* whose probes are whole benchmark runs.  A probe may fail for any reason *)
(* and nothing promises that a smaller context works where a larger one    *)
(* did; opts.fits is the largest one that the machine really serves.       *)
(***************************************************************************)
EXTENDS Integers

CONSTANTS
  Contexts,       \* the contexts a range may be given with
  Granularities   \* the widths at which a search may be told to stop

ASSUME ContextsAssumption == Contexts \subseteq Nat
ASSUME GranularitiesAssumption == Granularities \subseteq Nat

VARIABLES
  opts,       \* min, max, granularity: the options of the user, or the profile;
              \* fits: a context up to it may complete, none above it does
  lo, hi,     \* the bracket
  mid,        \* the context being probed
  search,     \* what the search does
  attempts    \* contexts probed so far, with their outcome

vars == <<opts, lo, hi, mid, search, attempts>>

Options == [min : Contexts, max : Contexts, granularity : Granularities, fits : Contexts]

Attempt == [context : Nat, completed : BOOLEAN]

TypeOK ==
  /\ opts \in Options
  /\ lo \in Nat /\ hi \in Nat /\ mid \in Nat
  /\ search \in {"choosing", "probing", "done", "error"}
  /\ attempts \subseteq Attempt

Init ==
  /\ opts \in Options
  /\ lo = opts.min /\ hi = opts.max
  /\ mid = 0
  /\ search = "choosing"
  /\ attempts = {}

\* saturating_sub of u64.
Width(a, b) == IF b > a THEN b - a ELSE 0

Middle(a, b) == a + (b - a) \div 2

\* next_probe has a context for the bracket.
ProbesBetween(a, b) == Width(a, b) > opts.granularity /\ Middle(a, b) > a

Chooses ==
  /\ search = "choosing"
  /\ ProbesBetween(lo, hi)
  /\ mid' = Middle(lo, hi)
  /\ search' = "probing"
  /\ UNCHANGED <<opts, lo, hi, attempts>>

\* The answer is lo.
Ends ==
  /\ search = "choosing"
  /\ ~ProbesBetween(lo, hi)
  /\ search' = "done"
  /\ UNCHANGED <<opts, lo, hi, mid, attempts>>

Attempted(outcome) == attempts' = attempts \cup {[context |-> mid, completed |-> outcome]}

\* The run completes: the context becomes the lower end.
Completes ==
  /\ search = "probing"
  /\ mid <= opts.fits
  /\ Attempted(TRUE)
  /\ lo' = mid
  /\ search' = "choosing"
  /\ UNCHANGED <<opts, hi, mid>>

\* A plausible fault: a margin is kept to the failed context.
FailsWithMargin ==
  /\ search = "probing"
  /\ Attempted(FALSE)
  /\ hi' = mid - opts.granularity
  /\ search' = "choosing"
  /\ UNCHANGED <<opts, lo, mid>>

\* Any other status than completed: the context becomes the upper end.
FailsProbe ==
  /\ search = "probing"
  /\ Attempted(FALSE)
  /\ hi' = mid
  /\ search' = "choosing"
  /\ UNCHANGED <<opts, lo, mid>>

\* An Err of the prompt or the database ends the search without an answer.
Breaks ==
  /\ search = "probing"
  /\ search' = "error"
  /\ UNCHANGED <<opts, lo, hi, mid, attempts>>

Next == Chooses \/ Ends \/ Completes \/ FailsProbe \/ Breaks

Spec == Init /\ [][Next]_vars

\* Fairness: the search goes on after a probe.  A probe need not end: its run may
\* wait for its port for ever (the port loop of BenchCycle).
FairSpec == Spec /\ WF_vars(Chooses \/ Ends)

-----------------------------------------------------------------------------
(* Properties *)

\* The bracket parts what was seen: a context that completed is not above lo, one
\* that failed not below hi, and an end that has moved was probed.  So no context
\* is probed twice, and the answer has worked unless it is the min of the user.
BracketParts ==
  /\ \A a \in attempts : IF a.completed THEN a.context <= lo ELSE a.context >= hi
  /\ lo # opts.min => [context |-> lo, completed |-> TRUE] \in attempts
  /\ hi # opts.max => [context |-> hi, completed |-> FALSE] \in attempts

\* The answer is off by the granularity at most: what is above it by more has
\* failed, or was never in the range.
AnswerIsClose ==
  search = "done" /\ opts.min <= opts.max =>
    /\ lo <= hi
    /\ hi - lo <= opts.granularity \/ hi - lo <= 1

\* Every probe narrows the bracket, so the number of server starts is bounded.
EveryProbeNarrows ==
  [][search = "probing" /\ search' = "choosing" => Width(lo', hi') < Width(lo, hi)]_vars

\* A search that has begun its first probe comes to its end, unless a probe does not.
SearchEnds ==
  []<>(search # "probing")
    => []<>((search = "choosing" /\ attempts = {}) \/ search \in {"done", "error"})

\* The bracket parts what worked from what did not, and the answer of the search is
\* as close as the granularity asks.
SearchIsRight ==
    /\ TypeOK
    /\ BracketParts
    /\ AnswerIsClose
=============================================================================
