--------------------------- MODULE MCBenchSession ---------------------------
(* Instances of BenchSession for TLC. *)
EXTENDS BenchSession, TLC

\* Runs are interchangeable: safety runs may permute them.
RunSymmetry == Permutations(Run)
=============================================================================
