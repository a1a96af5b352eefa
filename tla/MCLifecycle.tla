----------------------------- MODULE MCLifecycle -----------------------------
(* Instances of Lifecycle for TLC. *)
EXTENDS Lifecycle, TLC

\* Sessions are interchangeable: safety runs may permute them.
SessionSymmetry == Permutations(Session)
=============================================================================
