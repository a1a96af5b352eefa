------------------------------ MODULE MCStore -------------------------------
(* Instances of the modules about measurements and evaluations, what is kept   *)
(* of them and what is shown, for one run of TLC: in every behaviour one of    *)
(* them moves, the others rest.  They share no state, and have safety          *)
(* properties only.                                                            *)
EXTENDS RunStore, EvalRun, EvalText, Ranking, TLC

VARIABLE part     \* the module that moves

Symmetries == Permutations(Profile) \cup Permutations(Session)
                \cup Permutations(Eval) \cup Permutations(EvalContext)

\* A run without a speed, a run of a diffusion model without one, and two runs with
\* both speeds, whose order depends on which is looked at.
MCResult == {[decode |-> -1, total |-> -1, ttft |-> -1], [decode |-> -1, total |-> 0, ttft |-> 3],
             [decode |-> 50, total |-> 5, ttft |-> 2], [decode |-> 7, total |-> 70, ttft |-> 9]}

Part == {"store", "eval", "text", "ranking"}
\* The other modules rest.
Turn(p) == part = p /\ part' = p

MeasuredInit ==
    /\ part \in Part
    /\ StoreInit /\ EvalInit /\ TextInit /\ RankInit

MeasuredNext ==
    \/ /\ Turn("store") /\ StoreNext
       /\ UNCHANGED <<evalVars, textVars, rankVars>>
    \/ /\ Turn("eval") /\ EvalNext
       /\ UNCHANGED <<storeVars, textVars, rankVars>>
    \/ /\ Turn("text") /\ TextNext
       /\ UNCHANGED <<storeVars, evalVars, rankVars>>
    \/ /\ Turn("ranking") /\ RankNext
       /\ UNCHANGED <<storeVars, evalVars, textVars>>

MeasuredVars == <<part, storeVars, evalVars, textVars, rankVars>>
MeasuredSpec == MeasuredInit /\ [][MeasuredNext]_MeasuredVars

\* A verdict is final, and a new measurement is what is shown from then on.
MeasuresTakeEffect ==
    /\ VerdictIsFinal
    /\ NewMeasureShows
=============================================================================
