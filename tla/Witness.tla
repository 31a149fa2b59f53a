------------------------------ MODULE Witness ------------------------------
(***************************************************************************)
(* The witness of an addition line of dsr-trim: its substitution, its        *)
(* minimisation under the assignment that refutes the candidate, the search  *)
(* for a new pivot, and the witness printed for lsr-check.                   *)
(*                                                                         *)
(* The code keeps one array: the pivot, literals set to true, the pivot      *)
(* again, and pairs of a literal and its image; here they are fields of a    *)
(* record, and the pairs are records [from, to].  A substitution maps to     *)
(* SUBST_TT or SUBST_FF what the witness sets to true or false.              *)
(***************************************************************************)
EXTENDS Cnf, SequencesExt, Places

(* What the true literals A make of literal m.                              *)
Value(A, m) == IF m \in A THEN SUBST_TT ELSE IF -m \in A THEN SUBST_FF ELSE m

Constant(m) == m \in {SUBST_TT, SUBST_FF}

(***************************************************************************)
(* assume_subst(): the pivot and the literals after it are set to true, and  *)
(* the pairs come last.  Only the pivot may be set twice: the last setting   *)
(* of a variable is the one that counts.                                    *)
(***************************************************************************)
Settings(w) ==
  [k \in 1..Len(w.tt) + 1 |-> [from |-> IF k = 1 THEN w.pivot ELSE w.tt[k - 1],
                               to |-> SUBST_TT]] \o w.map

SetTo(e) == IF e.from > 0 THEN e.to ELSE -e.to

Subst(w) ==
  LET set == Settings(w)
      last == [v \in Var |-> SelectLastInSeq(set, LAMBDA e : VarOf(e.from) = v)]
  IN  [v \in Var |-> IF last[v] = 0 THEN v ELSE SetTo(set[last[v]])]

SetTwice(w) ==
  LET lits == w.tt \o [k \in 1..Len(w.map) |-> w.map[k].from]
  IN  \/ \E m, n \in 1..Len(lits) :
           /\ m < n /\ VarOf(lits[m]) = VarOf(lits[n])
           /\ VarOf(lits[m]) # VarOf(w.pivot)
      \/ \E n \in 1..Len(w.tt) : VarOf(w.tt[n]) = VarOf(w.pivot)

(* compute_min_max_clause_to_check(): a clause that none of them is in is    *)
(* not changed.                                                             *)
Touched(w) ==
  {-w.pivot} \cup {-w.tt[k] : k \in 1..Len(w.tt)}
  \cup UNION {{w.map[k].from, -w.map[k].from} : k \in 1..Len(w.map)}

(***************************************************************************)
(* reduce_clause_under_subst(), of a clause that is a sequence.             *)
(***************************************************************************)
ReductionOf(s, C) ==
  LET image == Image(s, ToSet(C))
  IN  CASE SUBST_TT \in image -> "SATISFIED"
        [] image \subseteq {SUBST_FF} -> "CONTRADICTION"
        [] \A l \in ToSet(C) : MapLit(s, l) = l -> "NOT_REDUCED"
        [] OTHER -> "REDUCED"

(* The literals that are left of the image, in the order of the clause.     *)
ReducedImage(s, C) ==
  LET image == [k \in 1..Len(C) |-> MapLit(s, C[k])]
  IN  AtPlaces(image, {k \in 1..Len(C) : image[k] # SUBST_FF})

-----------------------------------------------------------------------------
(* minimize_witness(), under the true literals A.                           *)

Evaluated(w, A) ==
  [k \in 1..Len(w.map) |-> [w.map[k] EXCEPT !.to = Value(A, @)]]

(* Variant: a literal that alpha gives the opposite value is dropped too.    *)
HasValue(A, e) == Constant(e.to) /\ Constant(Value(A, e.from))

(* The pair says what alpha says already.                                   *)
Redundant(A, e) == Constant(e.to) /\ Value(A, e.from) = e.to

Minimized(w, A) ==
  LET pairs == Evaluated(w, A)
  IN  [w EXCEPT !.tt = AtPlaces(@, {k \in 1..Len(w.tt) : w.tt[k] \notin A}),
                !.map = AtPlaces(pairs, {k \in 1..Len(w.map) : ~Redundant(A, pairs[k])})]

(* The sign of the pivot, not that of the literal in the pair, decides which
   value is taken to make the pivot false.                                  *)
MustFindNewPivot(w, A) ==
  LET false == IF w.pivot > 0 THEN SUBST_FF ELSE SUBST_TT
  IN  \E k \in 1..Len(w.map) :
        VarOf(w.map[k].from) = VarOf(w.pivot) /\ Value(A, w.map[k].to) = false

(***************************************************************************)
(* find_new_pivot_for_witness(), of the candidate C.  No new pivot is a      *)
(* fatal error; 0 stands for none.                                          *)
(***************************************************************************)
NewPivot(w, C) ==
  LET s == Subst(w)
      true == SelectInSeq(C, LAMBDA l : MapLit(s, l) = SUBST_TT)
      mapped == SelectLastInSeq(C, LAMBDA l : MapLit(s, l) # SUBST_FF)
  IN  IF true # 0 THEN C[true] ELSE IF mapped # 0 THEN C[mapped] ELSE 0

(* In the first part the new pivot changes places with the old one; in the
   second its pair makes room for the last one.                             *)
Repivoted(w, p) ==
  LET pair == SelectInSeq(w.map, LAMBDA e : e.from = p)
  IN  [pivot |-> p,
       tt |-> [k \in 1..Len(w.tt) |-> IF w.tt[k] = p THEN w.pivot ELSE w.tt[k]],
       map |-> IF p \in ToSet(w.tt) \/ pair = 0 THEN w.map
               ELSE Front([w.map EXCEPT ![pair] = Last(w.map)])]

WitnessToCheck(w, C, A) ==
  IF MustFindNewPivot(w, A)
  THEN Repivoted(Minimized(w, A), NewPivot(Minimized(w, A), C))
  ELSE Minimized(w, A)

(***************************************************************************)
(* print_witness(): pairs that became constant are printed in the first      *)
(* part, where the pivot is not repeated.                                   *)
(***************************************************************************)

(* Variant: the pivot is repeated where a pair maps it to true.              *)
PrintedAll(w) ==
  LET MadeTrue(e) == IF e.to = SUBST_TT THEN e.from ELSE -e.from
      fixed == SelectSeq(w.map, LAMBDA e : Constant(e.to))
  IN  [w EXCEPT !.tt = @ \o [k \in 1..Len(fixed) |-> MadeTrue(fixed[k])],
                !.map = SelectSeq(@, LAMBDA e : ~Constant(e.to))]

Printed(w) ==
  LET MadeTrue(e) == IF e.to = SUBST_TT THEN e.from ELSE -e.from
      fixed == SelectSeq(w.map, LAMBDA e : Constant(e.to) /\ MadeTrue(e) # w.pivot)
  IN  [w EXCEPT !.tt = @ \o [k \in 1..Len(fixed) |-> MadeTrue(fixed[k])],
                !.map = SelectSeq(@, LAMBDA e : ~Constant(e.to))]
=============================================================================
