---------------------------- MODULE MCBenchCycle ----------------------------
(* Instances of BenchCycle for TLC. *)
EXTENDS BenchCycle
=============================================================================
