----------------------------- MODULE DsrWitness -----------------------------
(***************************************************************************)
(* What becomes of a witness on its way through dsr-trim: it is read with    *)
(* its candidate clause, minimised under an assignment that makes the        *)
(* candidate false, perhaps given another pivot, assumed as a substitution,  *)
(* and printed.  Every witness of bounded size is an initial state.          *)
(***************************************************************************)
EXTENDS Witness, FiniteSets

CONSTANTS
  MaxTrue,   (* Bound on the literals set to true.                          *)
  MaxPairs   (* Bound on the pairs.                                         *)

VARIABLES
  C,         (* The candidate clause, its pivot first.                      *)
  A,         (* The literals that alpha makes true.                         *)
  read,      (* The witness as it was read.                                 *)
  w,         (* The witness now.                                            *)
  stage

vars == <<C, A, read, w, stage>>

(* Renaming the variables changes nothing.                                  *)
Pivots == {1, -1}

Clauses ==
  {D \in UNION {[1..n -> Lit] : n \in 1..2} :
     /\ \A m, n \in 1..Len(D) : m # n => VarOf(D[m]) # VarOf(D[n])
     /\ \E n \in 1..Len(D) : D[n] \in Pivots}

Consistent(L) == \A l \in L : -l \notin L

Pairs == [from : Lit, to : Lit]

(* What parse_sr_clause_and_witness() and assume_subst() accept.             *)
Accepted(x) ==
  /\ -x.pivot \notin ToSet(x.tt) /\ x.pivot \notin ToSet(x.tt)
  /\ \A e \in ToSet(x.map) : e.from = e.to => VarOf(e.from) = VarOf(x.pivot)
  /\ \A m, n \in 1..Len(x.map) :
       m < n => VarOf(x.map[m].from) # VarOf(x.map[n].from)
  /\ ~SetTwice(x)

Init ==
  /\ C \in Clauses
  /\ A \in {L \in SUBSET Lit : Consistent(L) /\ \A l \in ToSet(C) : -l \in L}
  /\ \E p \in ToSet(C) \cap Pivots, T \in BoundedSeq(Lit, MaxTrue),
        M \in BoundedSeq(Pairs, MaxPairs) :
       /\ read = [pivot |-> p, tt |-> T, map |-> M]
       /\ Accepted(read)
  /\ w = read
  /\ stage = "read"

Minimize ==
  /\ stage = "read"
  /\ w' = Minimized(w, A)
  /\ stage' = IF MustFindNewPivot(read, A) THEN "find pivot" ELSE "check"
  /\ UNCHANGED <<C, A, read>>

FindNewPivot ==
  /\ stage = "find pivot"
  /\ LET p == NewPivot(w, C)
     IN  IF p = 0 THEN stage' = "FATAL" /\ UNCHANGED w
         ELSE w' = Repivoted(w, p) /\ stage' = "check"
  /\ UNCHANGED <<C, A, read>>

PrintWitness ==
  /\ stage = "check"
  /\ w' = Printed(w)
  /\ stage' = "printed"
  /\ UNCHANGED <<C, A, read>>

Exited == stage \in {"printed", "FATAL"} /\ UNCHANGED vars

Next == Minimize \/ FindNewPivot \/ PrintWitness \/ Exited

Spec == Init /\ [][Next]_vars

-----------------------------------------------------------------------------
(* Properties.                                                              *)

Meaning(x, l) == Value(A, MapLit(Subst(x), l))

(* Minimisation changes nothing that the check can tell: each literal has an
   image that is the same, or the same once alpha is applied to it.  The
   exception is the pivot where the witness maps it to what is false, see
   the README.                                                              *)
MinimizationSound ==
  stage \in {"find pivot", "check"} =>
    \A l \in Lit :
      \/ VarOf(l) = VarOf(read.pivot) /\ Meaning(read, read.pivot) = SUBST_FF
      \/ Meaning(w, l) = Meaning(read, l)

(* The line printed for lsr-check has the substitution that was checked, and
   sets no literal twice, which lsr-check refuses: pairs have become
   constants, and constants are printed in another place than pairs.  A new
   pivot breaks this, see the README.                                       *)
PrintedAsChecked ==
  stage = "printed" /\ ~MustFindNewPivot(read, A) =>
    /\ ~SetTwice(w)
    /\ \A l \in Lit : MapLit(Subst(w), l) = MapLit(Subst(Minimized(read, A)), l)
=============================================================================
