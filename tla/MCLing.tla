------------------------------- MODULE MCLing -------------------------------
(***************************************************************************)
(* A free address is as good as any other: from two heaps that differ in   *)
(* the names of their items the calls lead to heaps that differ in the     *)
(* names of their items, although NewSlot chooses one of the free ones.    *)
(* So the items may be treated as symmetric.                               *)
(***************************************************************************)
EXTENDS LingTrees, TLC

Addresses == Permutations(Items)

MCMaxItems == [r \in Rels |-> IF r = "Word" THEN 1 ELSE 3]
=============================================================================
