------------------------------- MODULE MCSiod -------------------------------
(***************************************************************************)
(* Tags and files are only compared and stored, so they may be permuted.   *)
(***************************************************************************)
EXTENDS SiodErrors, TLC

Names == Permutations(Tags) \cup Permutations(Files)
=============================================================================
