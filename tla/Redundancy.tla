----------------------------- MODULE Redundancy -----------------------------
(***************************************************************************)
(* What a clausal proof checker promises, whatever its data structures: the *)
(* clause database starts as the CNF formula, loses clauses only by         *)
(* deletion, gains a clause only if that cannot turn a satisfiable database *)
(* into an unsatisfiable one, and unsatisfiability is reported only of an    *)
(* unsatisfiable database.                                                  *)
(***************************************************************************)
EXTENDS Cnf

VARIABLES
  cnf,      (* The clauses of the formula being refuted.                   *)
  F,        (* The clauses that may be cited.                              *)
  verdict   (* "none" until the checker stops.                             *)

vars == <<cnf, F, verdict>>

Init ==
  /\ cnf \subseteq SUBSET Lit
  /\ Models(cnf) = Models(F)
  /\ F \subseteq cnf
  /\ verdict = "none"

(* A checker may break down in the middle of a deletion.                    *)
Delete ==
  /\ verdict = "none"
  /\ F' \subseteq F
  /\ verdict' \in {"none", "CRASH"}
  /\ UNCHANGED cnf

Add ==
  /\ verdict = "none"
  /\ \E C \in SUBSET Lit :
       /\ Satisfiable(F) => Satisfiable(F \cup {C})
       /\ F' = F \cup {C}
  /\ UNCHANGED <<cnf, verdict>>

Refute ==
  /\ verdict = "none"
  /\ ~Satisfiable(F)
  /\ verdict' = "UNSAT"
  /\ UNCHANGED <<cnf, F>>

Stop ==
  /\ verdict = "none"
  /\ verdict' \in {"VALID", "FATAL", "CRASH"}
  /\ UNCHANGED <<cnf, F>>

Next == Delete \/ Add \/ Refute \/ Stop

Spec == Init /\ [][Next]_vars
=============================================================================
