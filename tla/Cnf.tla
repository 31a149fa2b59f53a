-------------------------------- MODULE Cnf --------------------------------
(***************************************************************************)
(* Literals, clauses, substitutions and truth assignments.                  *)
(*                                                                         *)
(* A literal is a DIMACS literal: v or -v for a variable v.  The code       *)
(* stores it as 2v or 2v + 1 and negates with an exclusive or; only         *)
(* negation and the variable of a literal matter to the algorithms, so the  *)
(* DIMACS form is kept.  A clause is a set of literals: the code sorts and   *)
(* deduplicates every clause it stores, and only the first literal of a     *)
(* candidate (its pivot) is told apart from the others.                     *)
(*                                                                         *)
(* SUBST_TT and SUBST_FF, the two constants a substitution may map to, are  *)
(* each other's negation, as -1 and -2 are under the code's exclusive or.   *)
(***************************************************************************)
EXTENDS Integers

CONSTANTS
  Var,        (* The variables of the CNF formula.                         *)
  SUBST_TT    (* The literal that is true under every assignment.          *)

ASSUME VarAssumption ==
  /\ Var \subseteq Nat \ {0}
  /\ SUBST_TT \in Nat \ ({0} \cup Var)

SUBST_FF == -SUBST_TT

Lit == Var \cup {-v : v \in Var}

VarOf(l) == IF l > 0 THEN l ELSE -l

Tautology(C) == \E l \in C : -l \in C

(***************************************************************************)
(* A substitution maps every variable to a literal or to a constant; the    *)
(* image of a negative literal is the negation of the variable's image.     *)
(***************************************************************************)
Target == Lit \cup {SUBST_TT, SUBST_FF}

Substitution == [Var -> Target]

Identity == [v \in Var |-> v]

MapLit(s, l) == IF l > 0 THEN s[l] ELSE -s[-l]

Image(s, C) == {MapLit(s, l) : l \in C}

(***************************************************************************)
(* The semantics the checker's verdicts are about.  A total assignment is   *)
(* the set of its true variables.                                           *)
(***************************************************************************)
Assignment == SUBSET Var

Holds(tau, l) ==
  IF l > 0 THEN l \in tau \cup {SUBST_TT} ELSE -l \notin tau \cup {SUBST_TT}

Sat(tau, C) == \E l \in C : Holds(tau, l)

Models(F) == {tau \in Assignment : \A C \in F : Sat(tau, C)}

Satisfiable(F) == Models(F) # {}

(* The assignment that gives every variable the value of its image.         *)
Compose(tau, s) == {v \in Var : Holds(tau, s[v])}
=============================================================================
