------------------------------ MODULE MCServer ------------------------------
(* Instances of FestivalServer for TLC. *)
EXTENDS FestivalServer, TLC

CONSTANTS c1, c2, c3, p1, p2, p3, spooler

\* Nothing is configured: the default limit holds.
NoLval == <<>>

Symm == Permutations(Pids \ OtherKids)
=============================================================================
