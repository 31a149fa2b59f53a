------------------------------- MODULE Places -------------------------------
(***************************************************************************)
(* What a loop leaves that keeps some places of an array and closes the      *)
(* gaps between them, as gc_lits_db() does with the literals of clauses and  *)
(* unassign_global_units_due_to_deletion() with units.                      *)
(***************************************************************************)
EXTENDS Integers, Sequences, FiniteSets

(* The places of K up to p: where place p goes, if it is kept.               *)
UpTo(K, p) == Cardinality({q \in K : q <= p})

(* The elements of s at the places of K, in their order.                     *)
AtPlaces(s, K) ==
  [n \in 1..Cardinality(K) |-> s[CHOOSE p \in K : UpTo(K, p) = n]]
=============================================================================
