----------------------------- MODULE LsrCheckMC -----------------------------
(***************************************************************************)
(* Small proof files for LsrCheck, over two variables.                      *)
(***************************************************************************)
EXTENDS LsrCheck, TLC

(* The last formula is unsatisfiable, the others are not.                   *)
Formulas == { <<{1, 2}, {-1, 2}>>, <<{1}, {-2, 1}>>, <<{1}, {-1}>> }

LineOf(C, p, ex, T, M, m, G) ==
  [clause |-> C, pivot |-> p, explicit |-> ex, tt |-> T, mapped |-> M,
   map |-> m, groups |-> G]

Clauses == {{1}, {-1}, {-2}, {1, -2}, {-1, -2}}

(* Hint groups: at most two, in any order, or in increasing order.          *)
GroupLists(n) == UNION {[1..k -> 1..n] : k \in 0..2}

IncreasingLists(n) == {G \in GroupLists(n) : Len(G) = 2 => G[1] < G[2]}

EmptyLine == LineOf({}, 0, FALSE, {}, {}, Identity, << >>)

(* Lines without a witness: RUP, or RAT on the pivot.                       *)
RATLines(groups) ==
  {EmptyLine, LineOf({1, -1}, 1, FALSE, {}, {}, Identity, << >>)} \cup
  UNION {{LineOf(C, p, FALSE, {}, {}, Identity, G) : p \in C, G \in groups}
         : C \in Clauses}

(* Witnesses for a pivot p: literals of the other variable, mappings of one *)
(* variable or of both, and one that sets a variable twice.                 *)
Witness(T, M, m) == [tt |-> T, mapped |-> M, map |-> m @@ Identity]

Witnesses(p) ==
  LET v == VarOf(p)
      w == 3 - v
  IN  {Witness({}, {}, << >>), Witness({w}, {}, << >>), Witness({-w}, {}, << >>),
       Witness({w}, {w}, w :> -w)}
      \cup {Witness({}, {w}, w :> m) : m \in {p, -p, -w}}
      \cup {Witness({}, {v}, v :> m) : m \in {w, -w, -v}}
      \cup {Witness({}, Var, (v :> m) @@ (w :> k)) : m \in {w, -w}, k \in {v, -v}}

SRLines(groups) ==
  UNION {{LineOf(C, p, TRUE, x.tt, x.mapped, x.map, G) :
            p \in C, x \in UNION {Witnesses(q) : q \in C}, G \in groups}
         : C \in Clauses}

WellShaped(L) == {ln \in L : LineShape(ln)}

RATProof == RATLines(GroupLists(4))

(* Formulas with a tautology.                                               *)
TautologicalFormulas == Formulas \cup {<<{1, -1}, {2}>>}

(* The added formula implies both variables.                                *)
SRFormulas == Formulas \cup {<<{1}, {-1, 2}>>}

SRProof == {EmptyLine} \cup WellShaped(SRLines(IncreasingLists(3)))
=============================================================================
