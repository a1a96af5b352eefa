----------------------------- MODULE MCDownload -----------------------------
(* Instances of Download for TLC. *)
EXTENDS Download, TLC

\* Calls are interchangeable: safety runs may permute them.
CallSymmetry == Permutations(Call)
=============================================================================
