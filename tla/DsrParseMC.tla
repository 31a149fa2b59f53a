----------------------------- MODULE DsrParseMC -----------------------------
(***************************************************************************)
(* Small CNF formulas and DSR proofs for DsrParse, over two variables.      *)
(***************************************************************************)
EXTENDS DsrParse

Formula == {{1}, {1, 2}}

LineOf(C, p, A) == [clause |-> C, pivot |-> p, atoms |-> A]

EmptyLine == LineOf({}, 0, << >>)

(* A copy of a formula clause, a new clause with and without a witness, and  *)
(* the empty clause.                                                        *)
Proof == {LineOf({1, 2}, 1, << >>), LineOf({1, 2}, 2, <<2, -1>>),
          LineOf({-2}, -2, <<-2, 1>>), EmptyLine}

(* A tautology as well.                                                     *)
ProofWithTautology == Proof \cup {LineOf({1, -1}, 1, << >>)}

Deleted == {{1}, {1, 2}, {-2}}

(* A tautology too, and a long clause, which delays the collection.         *)
FormulaWithTautology == {{1, 2}, 1..12, {1, -1}}

DeletedWithTautology == {{1, 2}, {-2}, {1, -1}}
=============================================================================
