---------------------------- MODULE LsrCheckProofs ----------------------------
(***************************************************************************)
(* Proofs about LsrCheck for every value of its constants: the types and    *)
(* sizes of its state, the intervals that it caches for each literal and     *)
(* refreshes only when a witness touches it, the two loops of check_line()   *)
(* over RAT clauses, which leave no clause out, and the generations that it  *)
(* sets aside for them, with the scan it falls back to when a line without a *)
(* witness has not enough hint groups; and, on top of these, soundness.      *)
(***************************************************************************)
EXTENDS LsrCheck, NatSets, FiniteSetTheorems, TLAPS

-----------------------------------------------------------------------------
(***************************************************************************)
(* What the operators of the model return.                                  *)
(***************************************************************************)

(* Negation stays inside the literals, and every literal has a variable.    *)
LEMMA Literals ==
  /\ Var \subseteq Lit /\ Lit \subseteq Int
  /\ \A l \in Lit : l # 0 /\ -l \in Lit /\ VarOf(l) \in Var /\ VarOf(-l) = VarOf(l)
  /\ \A l \in Lit : l = VarOf(l) \/ l = -VarOf(l)
  /\ SUBST_TT \in Int /\ SUBST_FF \in Int /\ SUBST_TT # SUBST_FF
  /\ SUBST_TT \notin Lit /\ SUBST_FF \notin Lit
<1> USE VarAssumption DEF Lit, SUBST_FF
<1>1. Var \subseteq Lit /\ Lit \subseteq Int
  <2>1. \A v \in Var : v \in Int /\ -v \in Int
    OBVIOUS
  <2> QED
    BY <2>1
<1>2. \A l \in Lit : (l > 0 /\ l \in Var) \/ (l < 0 /\ -l \in Var)
  OBVIOUS
<1>3. \A l \in Lit : l # 0 /\ -l \in Lit
  <2> SUFFICES ASSUME NEW l \in Lit
               PROVE  l # 0 /\ -l \in Lit
    OBVIOUS
  <2>1. CASE l \in Var
    BY <2>1
  <2>2. CASE l < 0 /\ -l \in Var
    BY <2>2, <1>1
  <2> QED
    BY <2>1, <2>2, <1>2
<1>4. \A l \in Lit : VarOf(l) \in Var /\ VarOf(-l) = VarOf(l)
  <2> SUFFICES ASSUME NEW l \in Lit
               PROVE  VarOf(l) \in Var /\ VarOf(-l) = VarOf(l)
    OBVIOUS
  <2>1. l \in Int
    BY <1>1
  <2> HIDE DEF Lit
  <2> QED
    BY <2>1, <1>2 DEF VarOf
<1>5. \A l \in Lit : l = VarOf(l) \/ l = -VarOf(l)
  BY <1>1 DEF VarOf
<1>6. SUBST_TT \in Int /\ SUBST_FF \in Int /\ SUBST_TT # SUBST_FF
  OBVIOUS
<1>7. SUBST_TT \notin Lit /\ SUBST_FF \notin Lit
  <2>1. SUBST_TT \notin Var /\ SUBST_TT > 0 /\ -SUBST_FF = SUBST_TT
    OBVIOUS
  <2> HIDE DEF Lit, SUBST_FF
  <2> QED
    BY <2>1, <1>2, <1>6
<1> QED
  BY <1>1, <1>3, <1>4, <1>5, <1>6, <1>7

(* No line is a line head.                                                  *)
LEMMA NoLineType == NoLine \in LineHead
<1>1. Identity \in [Var -> Lit]
  BY Literals DEF Identity
<1> QED
  BY <1>1 DEF NoLine, LineHead

(* Stamps are natural numbers.                                              *)
LEMMA SetLitsType ==
  ASSUME alpha \in [Var -> Nat], NEW L, NEW gen \in Nat
  PROVE  SetLits(L, gen) \in [Var -> Nat]
BY DEF SetLits, Stamp

(* A substitution takes literals to targets.                                *)
LEMMA MapLitType ==
  ASSUME NEW s \in Substitution, NEW l \in Lit
  PROVE  MapLit(s, l) \in Target
BY Literals DEF Substitution, Target, MapLit, VarOf, SUBST_FF, Lit

(* The witness of a line is a substitution.                                 *)
LEMMA WitnessSubstType ==
  ASSUME line \in LineHead
  PROVE  WitnessSubst \in Substitution
BY Literals DEF LineHead, WitnessSubst, Substitution, Target

(* A refreshed interval has its ends in the formula.                        *)
LEMMA RefreshedType ==
  ASSUME TypeOK, NEW l \in Lit
  PROVE  Refreshed(l) \in [min : 0..formula_size, max : 0..formula_size]
<1> DEFINE mm == first_last[l]
           lo == IF mm.min \in deleted THEN MoveMinForward(l, mm.min, mm.max)
                 ELSE mm.min
<1>1. mm.min \in 0..formula_size /\ mm.max \in 0..formula_size /\ formula_size \in Nat
  BY DEF TypeOK
<1>2. ASSUME NEW i \in 0..formula_size, NEW j \in 0..formula_size,
             Holding(l, i, j) # {}
      PROVE  /\ Min(Holding(l, i, j)) \in 0..formula_size
             /\ Max(Holding(l, i, j)) \in 0..formula_size
  <2>1. Holding(l, i, j) \in SUBSET Nat /\ \A x \in Holding(l, i, j) : x <= formula_size
    BY <1>1 DEF Holding
  <2>2. Min(Holding(l, i, j)) \in Holding(l, i, j)
    BY <1>2, <2>1, MinExists
  <2>3. Max(Holding(l, i, j)) \in Holding(l, i, j)
    BY <1>1, <1>2, <2>1, MaxExists
  <2> QED
    BY <2>1, <2>2, <2>3, <1>1
<1>3. lo \in 0..formula_size
  BY <1>1, <1>2 DEF MoveMinForward
<1>4. MoveMaxBackward(l, lo, mm.max) \in 0..formula_size
  <2> HIDE DEF lo
  <2> QED
    BY <1>1, <1>2, <1>3 DEF MoveMaxBackward
<1>5. mm \in [min : 0..formula_size, max : 0..formula_size]
  BY DEF TypeOK
<1> DEFINE hi == IF lo # mm.max /\ mm.max \in deleted
                 THEN MoveMaxBackward(l, lo, mm.max) ELSE mm.max
<1>6. hi \in 0..formula_size
  BY <1>1, <1>4
<1>7. Refreshed(l) = IF mm.min = 0 THEN mm
                     ELSE IF lo = 0 THEN NoClause ELSE [min |-> lo, max |-> hi]
  BY DEF Refreshed
<1> HIDE DEF lo, hi, mm
<1> QED
  BY <1>1, <1>3, <1>5, <1>6, <1>7 DEF NoClause

-----------------------------------------------------------------------------
(***************************************************************************)
(* The first invariant: types, the shape of the line being checked, and the *)
(* occurrence counters.  None is inductive without the others: a counter    *)
(* stays a natural number because it counts the clause about to be deleted, *)
(* and the count is right after a line is finished because the candidate    *)
(* was live and not yet counted.                                            *)
(***************************************************************************)
Bookkeeping == TypeOK /\ LineInProgress /\ OccurrencesExact

Occurrences(l) == {c \in Trusted : l \in formula[c]}

(* The counter of a literal counts finitely many clauses.                   *)
LEMMA OccurrencesFinite ==
  ASSUME TypeOK, NEW l
  PROVE  IsFiniteSet(Occurrences(l)) /\ Cardinality(Occurrences(l)) \in Nat
<1>1. formula_size \in Int
  BY LsrAssumption DEF TypeOK
<1>2. IsFiniteSet(1..formula_size)
  BY <1>1, FS_Interval
<1>3. Occurrences(l) \in SUBSET (1..formula_size)
  BY DEF Occurrences, Trusted, Live
<1>4. IsFiniteSet(Occurrences(l))
  BY <1>2, <1>3, FS_Subset
<1> QED
  BY <1>4, FS_CardinalityType

(* After parse_cnf() the counters, intervals and line are in order.         *)
LEMMA InitBookkeeping == Init => Bookkeeping
<1> SUFFICES ASSUME Init
             PROVE  Bookkeeping
  OBVIOUS
<1>1. PICK cnf \in CNFs : Init!(cnf)
  BY DEF Init
<1>2. cnf \in [CnfIds -> SUBSET Lit] /\ num_cnf_clauses \in Nat /\ MaxId \in Nat
      /\ num_cnf_clauses > 0 /\ num_cnf_clauses <= MaxId
  BY LsrAssumption
<1>3. \A l \in Lit : CnfInterval(cnf, l) \in [min : 0..formula_size, max : 0..formula_size]
  <2> SUFFICES ASSUME NEW l \in Lit
               PROVE  CnfInterval(cnf, l) \in [min : 0..formula_size, max : 0..formula_size]
    OBVIOUS
  <2> DEFINE S == {c \in CnfIds : l \in cnf[c] /\ ~Tautology(cnf[c])}
  <2>1. S \in SUBSET Nat /\ \A x \in S : x <= num_cnf_clauses
    BY <1>2 DEF CnfIds
  <2>2. S # {} => Min(S) \in S /\ Max(S) \in S
    <3> HIDE DEF S
    <3> QED
      BY <1>2, <2>1, MinExists, MaxExists
  <2>3. \A x \in S : x \in 0..formula_size
    BY <1>1, <1>2 DEF CnfIds
  <2>4. CnfInterval(cnf, l) = IF S = {} THEN NoClause ELSE [min |-> Min(S), max |-> Max(S)]
    BY DEF CnfInterval
  <2>5. 0 \in 0..formula_size
    BY <1>1, <1>2
  <2> HIDE DEF S
  <2> QED
    BY <2>2, <2>3, <2>4, <2>5 DEF NoClause
<1>4. TypeOK
  <2>1. formula \in [Slots -> SUBSET Lit]
    BY <1>1, <1>2
  <2>2. line \in LineHead /\ subst \in Substitution
    BY <1>1, NoLineType, Literals DEF Substitution, Identity, Target
  <2>3. first_last \in [Lit -> [min: 0..formula_size, max: 0..formula_size]]
    BY <1>1, <1>3
  <2>4. formula_size \in num_cnf_clauses..MaxId /\ deleted \subseteq 1..formula_size + 1
    BY <1>1, <1>2 DEF CnfIds
  <2> QED
    BY <1>1, <1>2, <2>1, <2>2, <2>3, <2>4 DEF TypeOK, Pcs
<1>5. LineInProgress
  BY <1>1 DEF LineInProgress, Checking
<1> QED
  BY <1>1, <1>4, <1>5 DEF Bookkeeping, OccurrencesExact

(* The literals whose intervals the witness looks at.                       *)
LEMMA TouchedType ==
  ASSUME line \in LineHead, LineShape(line), line.clause # {}
  PROVE  Touched \subseteq Lit
BY Literals DEF LineHead, LineShape, Touched

(* The substitution of a line without a witness.                            *)
LEMMA IdentityType == Identity \in Substitution
BY Literals DEF Substitution, Identity, Target

(* The witness's interval ends in the formula.                              *)
LEMMA LastOfType ==
  ASSUME TypeOK, Touched \subseteq Lit,
         NEW fl \in [Lit -> [min : 0..formula_size, max : 0..formula_size]]
  PROVE  /\ LastOf(fl) \in 1..formula_size
         /\ FirstOf(fl) \in 1..formula_size
<1> DEFINE K == {k \in Touched : fl[k].min # 0}
           A == {1} \cup {fl[l].max : l \in K}
           B == {candidate} \cup {fl[l].min : l \in K}
<1>1. formula_size \in Nat \ {0} /\ candidate = formula_size
  BY LsrAssumption DEF TypeOK, candidate
<1>2. \A l \in K : fl[l].max \in 0..formula_size /\ fl[l].min \in 1..formula_size
  <2>1. \A l \in K : l \in Lit /\ fl[l].min # 0
    OBVIOUS
  <2>2. \A l \in Lit : fl[l].max \in 0..formula_size /\ fl[l].min \in 0..formula_size
    OBVIOUS
  <2> HIDE DEF K
  <2> QED
    BY <2>1, <2>2, <1>1
<1>3. A \in SUBSET Nat /\ A # {} /\ \A x \in A : x <= formula_size
  BY <1>1, <1>2
<1>4. B \in SUBSET (1..formula_size) /\ B # {}
  BY <1>1, <1>2
<1>5. Max(A) \in A /\ Max(A) >= 1
  <2>1. 1 \in A
    OBVIOUS
  <2> HIDE DEF A
  <2> QED
    BY <1>1, <1>3, <2>1, MaxExists
<1>6. Min(B) \in B
  <2>1. B \in SUBSET Nat
    BY <1>4
  <2> HIDE DEF B
  <2> QED
    BY <1>4, <2>1, MinExists
<1>7. LastOf(fl) = Max(A) /\ FirstOf(fl) = Min(B)
  BY DEF LastOf, FirstOf
<1> HIDE DEF A, B
<1>8. Max(A) \in 1..formula_size
  <2> DEFINE m == Max(A)
  <2>1. m \in A /\ m >= 1
    BY <1>5
  <2> HIDE DEF m
  <2>2. m \in 1..formula_size
    BY <1>1, <1>3, <2>1
  <2> QED
    BY <2>2 DEF m
<1>9. Min(B) \in 1..formula_size
  BY <1>4, <1>6
<1> QED
  BY <1>7, <1>8, <1>9

(* Finishing a line keeps the types: the counters only grow.                *)
LEMMA FinishLineType ==
  ASSUME TypeOK, LineInProgress, pc \in Checking, NEW gen \in Nat,
         FinishLine(gen), alpha' \in [Var -> Nat]
  PROVE  TypeOK'
<1>1. candidate \in Nat /\ candidate \in 0..formula_size
  BY LsrAssumption DEF TypeOK, candidate
<1>2. CASE line.clause = {}
  <2>1. UNCHANGED caches /\ pc' = "UNSAT"
    BY <1>2 DEF FinishLine
  <2> QED
    BY <2>1, NoLineType, LsrAssumption, IdentityType
    DEF TypeOK, FinishLine, db, caches, Pcs, Final
<1>3. CASE line.clause # {}
  <2>1. pc' = "read"
    BY <1>3 DEF FinishLine
  <2>2. first_last' \in [Lit -> [min : 0..formula_size, max : 0..formula_size]]
    <3>1. \A l \in Lit : WithClause(first_last[l], candidate)
                           \in [min : 0..formula_size, max : 0..formula_size]
      BY <1>1 DEF TypeOK, WithClause
    <3> QED
      BY <1>3, <3>1 DEF TypeOK, FinishLine
  <2>3. lits_occurrences' \in [Lit -> Nat]
    BY <1>3 DEF TypeOK, FinishLine, OccurrencesAfter
  <2> QED
    BY <2>1, <2>2, <2>3, NoLineType, LsrAssumption, IdentityType
    DEF TypeOK, FinishLine, db, Pcs
<1> QED
  BY <1>2, <1>3

(* The loop over the clauses stays within the formula.                      *)
LEMMA NextCursorType ==
  ASSUME TypeOK, cursor <= candidate
  PROVE  NextCursor \in 0..formula_size + 1
BY LsrAssumption DEF TypeOK, NextCursor, candidate

(* A passed RAT clause moves the cursor or the group within bounds.         *)
LEMMA RATClausePassedType ==
  ASSUME TypeOK, NEW c \in Slots, RATClausePassed(c), alpha' \in [Var -> Nat],
         pc \in {"hints", "hintsUp"} \/ cursor <= candidate
  PROVE  TypeOK'
<1>1. alpha_generation' \in Nat /\ position' \in Nat /\ pc' \in Pcs
  BY DEF RATClausePassed, TypeOK, GEN_INC, Pcs, Checking
<1>2. cursor' \in 0..formula_size + 1
  BY NextCursorType DEF RATClausePassed, TypeOK
<1> QED
  BY <1>1, <1>2 DEF RATClausePassed, TypeOK, db, caches

(* Assuming a negated RAT clause keeps the types.                           *)
LEMMA AssumeNegatedRATClauseType ==
  ASSUME TypeOK, NEW c \in Slots, AssumeNegatedRATClause(c),
         pc = "hints" \/ cursor <= candidate
  PROVE  TypeOK'
<1>1. CASE RATClausePassed(c) /\ UNCHANGED alpha
  BY <1>1, RATClausePassedType DEF TypeOK
<1>2. CASE /\ alpha' = SetLits(NegatedImage(c), alpha_generation)
           /\ pc' = IF pc = "hints" THEN "hintsUp" ELSE "scanUp"
           /\ UNCHANGED <<db, caches, max_line_id, alpha_generation, locals>>
  <2>1. alpha' \in [Var -> Nat]
    BY <1>2, SetLitsType DEF TypeOK
  <2> QED
    BY <1>2, <2>1 DEF TypeOK, db, caches, locals, Pcs, Checking
<1> QED
  BY <1>1, <1>2 DEF AssumeNegatedRATClause

(* Every step keeps the types.                                              *)
LEMMA TypeStep ==
  ASSUME Bookkeeping, [Next]_vars
  PROVE  TypeOK'
<1> USE DEF Bookkeeping
<1> DEFINE Quiet == UNCHANGED <<db, caches, max_line_id, assignment, locals>>
<1>1. ASSUME Quiet, pc' \in Pcs
      PROVE  TypeOK'
  BY <1>1 DEF TypeOK, db, caches, assignment, locals
<1>2. CASE UNCHANGED vars
  BY <1>1, <1>2 DEF vars, TypeOK, db, caches, assignment, locals
<1>3. CASE Prepare
  <2>1. \A l \in Lit : Cardinality({c \in CnfIds : l \in formula[c]}) \in Nat
    <3>1. IsFiniteSet(CnfIds)
      BY LsrAssumption, FS_Interval DEF CnfIds
    <3>2. ASSUME NEW l \in Lit
          PROVE  Cardinality({c \in CnfIds : l \in formula[c]}) \in Nat
      <4>1. IsFiniteSet({c \in CnfIds : l \in formula[c]})
        BY <3>1, FS_Subset
      <4> QED
        BY <4>1, FS_CardinalityType
    <3> QED
      BY <3>2
  <2> QED
    BY <1>3, <2>1 DEF Prepare, TypeOK, db, assignment, locals, Pcs
<1>4. CASE PrepareReadsDeleted
  BY <1>1, <1>4 DEF PrepareReadsDeleted, Pcs, Final
<1>5. ASSUME NEW line_id \in Ids, NEW c \in Slots, DeleteClause(line_id, c)
      PROVE  TypeOK'
  <2>1. c \in Live /\ pc = "read" /\ line = NoLine
    BY <1>5 DEF DeleteClause, Deletable, LineInProgress
  <2>2. \A l \in formula[c] : c \in Occurrences(l)
    BY <2>1 DEF Occurrences, Trusted
  <2>3. \A l \in Lit : l \in formula[c] => lits_occurrences[l] > 0
    <3> SUFFICES ASSUME NEW l \in Lit, l \in formula[c]
                 PROVE  lits_occurrences[l] > 0
      OBVIOUS
    <3>1. lits_occurrences[l] = Cardinality(Occurrences(l))
      BY <2>1 DEF OccurrencesExact, Occurrences
    <3>2. Cardinality(Occurrences(l)) # 0
      BY <2>2, OccurrencesFinite, FS_EmptySet
    <3> QED
      BY <3>1, <3>2, OccurrencesFinite
  <2>4. lits_occurrences' \in [Lit -> Nat]
    BY <1>5, <2>3 DEF DeleteClause, OccurrencesAfter, TypeOK
  <2>5. deleted' \subseteq 1..formula_size + 1
    BY <1>5, <2>1, LsrAssumption DEF DeleteClause, Live, TypeOK
  <2>6. max_line_id' \in formula_size..MaxId
    BY <1>5, LsrAssumption DEF DeleteClause, Ids, TypeOK
  <2>7. pc' \in Pcs
    BY <1>5 DEF DeleteClause, Pcs, Final
  <2> QED
    BY <1>5, <2>4, <2>5, <2>6, <2>7 DEF DeleteClause, TypeOK, assignment, locals
<1>6. ASSUME NEW line_id \in Ids, DeletePending(line_id) \/ EmptyDeletion(line_id)
      PROVE  TypeOK'
  <2>1. max_line_id' \in formula_size..MaxId
    BY <1>6, LsrAssumption DEF DeletePending, EmptyDeletion, Ids, TypeOK
  <2>2. deleted' \subseteq 1..formula_size + 1
    <3>1. formula_size + 1 \in 1..formula_size + 1 /\ deleted \subseteq 1..formula_size + 1
      BY LsrAssumption DEF TypeOK
    <3> QED
      BY <1>6, <3>1 DEF DeletePending, EmptyDeletion, db
  <2>3. pc' \in Pcs
    BY <1>6 DEF DeletePending, EmptyDeletion, Pcs, Final
  <2> QED
    BY <1>6, <2>1, <2>2, <2>3
    DEF DeletePending, EmptyDeletion, TypeOK, db, caches, assignment, locals
<1>7. ASSUME NEW line_id \in Ids, NEW c \in Slots,
             RefuseDeletion(line_id, c) \/ DeleteTwice(line_id, c)
      PROVE  TypeOK'
  BY <1>1, <1>7 DEF RefuseDeletion, DeleteTwice, Fatal, Pcs, Final
<1>8. ASSUME NEW line_id \in Ids, NEW l \in Lit, NEW c \in Slots,
             GlobalUnit(line_id, l, c)
      PROVE  TypeOK'
  <2>1. max_line_id' \in formula_size..MaxId
    BY <1>8, LsrAssumption DEF GlobalUnit, Ids, TypeOK
  <2>2. alpha' \in [Var -> Nat] /\ alpha_generation' \in Nat
    <3>1. GLOBAL_GEN \in Nat
      BY LsrAssumption
    <3> QED
      BY <1>8, <3>1, SetLitsType DEF GlobalUnit, GlobalUnitGeneration, GEN_INC, TypeOK
  <2> QED
    BY <1>8, <2>1, <2>2 DEF GlobalUnit, TypeOK, db, caches, locals
<1>9. ASSUME NEW line_id \in Ids, NEW l \in Lit, NEW c \in Slots,
             RefuseGlobalUnit(line_id, l, c)
      PROVE  TypeOK'
  BY <1>1, <1>9 DEF RefuseGlobalUnit, Fatal, Pcs, Final
<1>10. ASSUME NEW id \in Ids, NEW ln \in ProofLines, AddLine(id, ln)
       PROVE  TypeOK'
  <2>1. id > formula_size /\ id \in Slots /\ id \in Nat /\ id <= MaxId
    BY <1>10, LsrAssumption DEF AddLine, LineAccepted, TypeOK, Ids, Slots
  <2>2. ln \in LineHead /\ ln.clause \in SUBSET Lit
    BY LsrAssumption DEF LineHead
  <2>3. formula' \in [Slots -> SUBSET Lit]
    BY <1>10, <2>1, <2>2 DEF AddLine, TypeOK
  <2>4. deleted' \subseteq 1..id + 1
    BY <1>10, <2>1, LsrAssumption DEF AddLine, Fillers, TypeOK
  <2>5. first_last' \in [Lit -> [min : 0..id, max : 0..id]]
    <3>1. 0..formula_size \subseteq 0..id
      BY <2>1, LsrAssumption DEF TypeOK
    <3> QED
      BY <1>10, <3>1 DEF AddLine, caches, TypeOK
  <2>6. max_clause \in 0..id /\ cursor \in 0..id + 1
    BY <2>1, LsrAssumption DEF TypeOK
  <2>7. formula_size' \in num_cnf_clauses..MaxId /\ max_line_id' \in id..MaxId
    BY <1>10, <2>1, LsrAssumption DEF AddLine, TypeOK
  <2> QED
    BY <1>10, <2>2, <2>3, <2>4, <2>5, <2>6, <2>7
    DEF AddLine, TypeOK, caches, assignment, Pcs, Checking
<1>11. ASSUME NEW id \in Ids, RefuseLine(id)
       PROVE  TypeOK'
  BY <1>1, <1>11 DEF RefuseLine, Fatal, Pcs, Final
<1>12. CandidateGeneration \in Nat /\ LineGeneration \in Nat /\ cc_gen \in Nat
  <2> DEFINE n == Len(line.groups)
  <2>1. n \in Nat
    BY DEF TypeOK, LineHead
  <2>2. CandidateGeneration = alpha_generation + 2 + 2 * n
    BY DEF CandidateGeneration, LineGeneration, GEN_INC
  <2> HIDE DEF n
  <2> QED
    BY <2>1, <2>2 DEF TypeOK, LineGeneration, GEN_INC
<1>13. CASE CandidateSatisfied
  BY <1>12, <1>13, FinishLineType DEF CandidateSatisfied, TypeOK, Checking
<1>14. CASE AssumeNegatedCandidate
  <2>1. alpha' \in [Var -> Nat]
    BY <1>12, <1>14, SetLitsType DEF AssumeNegatedCandidate, TypeOK
  <2> QED
    BY <1>12, <1>14, <2>1 DEF AssumeNegatedCandidate, TypeOK, db, caches, Pcs, Checking
<1>15. ASSUME NEW h \in Slots, NEW l \in Lit, UnitHint(h, l)
       PROVE  TypeOK'
  <2>1. alpha' \in [Var -> Nat]
    BY <1>15, SetLitsType DEF UnitHint, UpGeneration, TypeOK
  <2> QED
    BY <1>15, <2>1 DEF UnitHint, TypeOK, db, caches, locals
<1>16. ASSUME NEW h \in Slots, UselessHint(h)
       PROVE  TypeOK'
  BY <1>1, <1>16 DEF UselessHint, Fatal, Pcs, Final
<1>17. ASSUME NEW h \in Slots, RefutedByHint(h)
       PROVE  TypeOK'
  BY <1>12, <1>17, FinishLineType DEF RefutedByHint, TypeOK, Checking
<1>18. CASE AssumeSubst
  <2> DEFINE fl == [l \in Lit |-> IF l \in Touched THEN Refreshed(l) ELSE first_last[l]]
  <2>1. fl \in [Lit -> [min : 0..formula_size, max : 0..formula_size]]
    <3>1. \A l \in Lit : first_last[l] \in [min : 0..formula_size, max : 0..formula_size]
      BY DEF TypeOK
    <3> QED
      BY <3>1, RefreshedType
  <2>2. Touched \subseteq Lit
    <3>1. line \in ProofLines /\ line.clause # {}
      BY <1>18 DEF AssumeSubst, LineInProgress, Checking
    <3> QED
      BY <3>1, TouchedType, LsrAssumption
  <2> HIDE DEF fl
  <2>3. LastOf(fl) \in 1..formula_size /\ FirstOf(fl) \in 1..formula_size
    BY <2>1, <2>2, LastOfType
  <2>4. /\ first_last' = fl
        /\ max_clause' = LastOf(fl)
        /\ cursor' = IF FirstOf(fl) <= LastOf(fl) THEN FirstOf(fl) ELSE candidate
    BY <1>18 DEF AssumeSubst, fl
  <2>5. cursor' \in 0..formula_size + 1 /\ max_clause' \in 0..formula_size
    BY <2>3, <2>4, LsrAssumption DEF candidate, TypeOK
  <2>6. subst' \in Substitution
    BY <1>18, WitnessSubstType DEF AssumeSubst, TypeOK
  <2>7. pc' \in Pcs /\ position' \in Nat
    BY <1>18 DEF AssumeSubst, Pcs, Checking
  <2> QED
    BY <1>18, <2>1, <2>4, <2>5, <2>6, <2>7 DEF AssumeSubst, TypeOK, db, assignment
<1>19. CASE RefuseWitness \/ RefuseHintGroup \/ RefuseRATClause \/ RATClauseNotRefuted
  BY <1>1, <1>19 DEF RefuseWitness, RefuseHintGroup, RefuseRATClause,
                     RATClauseNotRefuted, Fatal, Pcs, Final
<1>20. ASSUME pc \in {"hints", "hintsUp"}, position \in DOMAIN line.groups
       PROVE  Group \in Slots
  <2>1. Group \in 1..(candidate + 1)
    BY <1>20 DEF LineInProgress, Checking, Group
  <2> QED
    BY <2>1, LsrAssumption DEF Slots, candidate, TypeOK
<1>21. CASE CheckHintGroup
  <2>1. position \in DOMAIN line.groups
    BY <1>21 DEF CheckHintGroup, LineInProgress, TypeOK, LineHead
  <2>2. Group \in Slots
    BY <1>20, <1>21, <2>1 DEF CheckHintGroup
  <2> QED
    BY <1>21, <2>2, AssumeNegatedRATClauseType DEF CheckHintGroup
<1>22. CASE HintGroupsSuffice
  BY <1>12, <1>22, FinishLineType DEF HintGroupsSuffice, TypeOK, Checking
<1>23. CASE HintGroupsMissing
  BY <1>23 DEF HintGroupsMissing, TypeOK, db, caches, assignment, Pcs, Checking
<1>24. CASE SkipClause
  BY <1>24, NextCursorType DEF SkipClause, TypeOK, db, caches, assignment
<1>25. CASE CheckRATClause
  <2>1. cursor \in Slots
    BY <1>25, LsrAssumption DEF CheckRATClause, LineInProgress, candidate, Slots, TypeOK
  <2> QED
    BY <1>25, <2>1, AssumeNegatedRATClauseType DEF CheckRATClause
<1>26. CASE ScanComplete
  BY <1>12, <1>26, FinishLineType DEF ScanComplete, TypeOK, Checking
<1>27. ASSUME NEW h \in Slots, RATClauseRefuted(h)
       PROVE  TypeOK'
  <2>1. CASE pc = "hintsUp"
    <3>1. RATClause \in Slots
      BY <1>20, <2>1 DEF RATClause, Group, LineInProgress
    <3> QED
      BY <1>27, <2>1, <3>1, RATClausePassedType DEF RATClauseRefuted, TypeOK
  <2>2. CASE pc = "scanUp"
    <3>1. RATClause \in Slots /\ cursor <= candidate
      BY <2>2, LsrAssumption DEF RATClause, LineInProgress, candidate, Slots, TypeOK
    <3> QED
      BY <1>27, <2>2, <3>1, RATClausePassedType DEF RATClauseRefuted, TypeOK
  <2> QED
    BY <1>27, <2>1, <2>2 DEF RATClauseRefuted
<1>28. CASE EndOfProof \/ Exited
  BY <1>1, <1>2, <1>28 DEF EndOfProof, Exited, Pcs, Final
<1> QED
  BY <1>2, <1>3, <1>4, <1>5, <1>6, <1>7, <1>8, <1>9, <1>10, <1>11, <1>13, <1>14,
     <1>15, <1>16, <1>17, <1>18, <1>19, <1>21, <1>22, <1>23, <1>24, <1>25, <1>26,
     <1>27, <1>28
  DEF Next, ReadLine, CheckLine

(***************************************************************************)
(* The line being checked.                                                  *)
(***************************************************************************)
LEMMA FinishLineEnds ==
  ASSUME NEW gen, FinishLine(gen)
  PROVE  pc' \in {"read", "UNSAT"} /\ line' = NoLine
BY DEF FinishLine

(* A passed RAT clause leaves the line and its candidate in place.          *)
LEMMA RATClausePassedLine ==
  ASSUME TypeOK, LineInProgress, NEW c, RATClausePassed(c),
         pc \in {"hints", "hintsUp", "scan", "scanUp"},
         pc \in {"hints", "hintsUp"} \/ cursor <= candidate
  PROVE  LineInProgress'
<1>1. pc' \in {"hints", "scan"} /\ UNCHANGED <<db, line, candidate>>
  BY DEF RATClausePassed, db, candidate
<1>2. position' >= 1 /\ cursor' \in 1..candidate + 1
  BY LsrAssumption DEF RATClausePassed, TypeOK, LineInProgress, NextCursor, candidate
<1> QED
  BY <1>1, <1>2 DEF LineInProgress, Checking, db, ParserAccepts

(* Assuming a negated RAT clause leaves the line in place.                  *)
LEMMA AssumeNegatedRATClauseLine ==
  ASSUME TypeOK, LineInProgress, NEW c, AssumeNegatedRATClause(c),
         \/ pc = "hints" /\ position \in DOMAIN line.groups
         \/ pc = "scan" /\ cursor <= candidate
  PROVE  LineInProgress'
<1>1. CASE RATClausePassed(c)
  BY <1>1, RATClausePassedLine
<1>2. CASE /\ alpha' = SetLits(NegatedImage(c), alpha_generation)
           /\ pc' = IF pc = "hints" THEN "hintsUp" ELSE "scanUp"
           /\ UNCHANGED <<db, caches, max_line_id, alpha_generation, locals>>
  BY <1>2 DEF LineInProgress, Checking, db, locals, candidate, ParserAccepts
<1> QED
  BY <1>1, <1>2 DEF AssumeNegatedRATClause

(* Between two lines of the proof there is no line being checked.           *)
LEMMA LineStep ==
  ASSUME Bookkeeping, [Next]_vars
  PROVE  LineInProgress'
<1> USE DEF Bookkeeping
<1>1. ASSUME pc' \in {"FATAL", "CRASH"}
      PROVE  LineInProgress'
  BY <1>1 DEF LineInProgress, Checking
<1>2. ASSUME pc' \in {"read", "UNSAT", "VALID"}, line' = NoLine
      PROVE  LineInProgress'
  BY <1>2 DEF LineInProgress, Checking
<1>3. CASE UNCHANGED vars
  BY <1>3 DEF vars, LineInProgress, Checking, db, locals, candidate, ParserAccepts
<1>4. CASE Prepare \/ EndOfProof
  BY <1>2, <1>4 DEF Prepare, EndOfProof, LineInProgress, locals
<1>5. CASE PrepareReadsDeleted
  BY <1>1, <1>5 DEF PrepareReadsDeleted
<1>6. ASSUME NEW line_id, NEW c,
             \/ DeleteClause(line_id, c) \/ DeletePending(line_id)
             \/ EmptyDeletion(line_id)
      PROVE  LineInProgress'
  BY <1>1, <1>2, <1>6
  DEF DeleteClause, DeletePending, EmptyDeletion, LineInProgress, locals
<1>7. ASSUME NEW line_id, NEW l, NEW c,
             \/ RefuseDeletion(line_id, c) \/ DeleteTwice(line_id, c)
             \/ RefuseGlobalUnit(line_id, l, c) \/ RefuseLine(line_id)
             \/ UselessHint(c)
      PROVE  LineInProgress'
  BY <1>1, <1>7
  DEF RefuseDeletion, DeleteTwice, RefuseGlobalUnit, RefuseLine, UselessHint, Fatal
<1>8. ASSUME NEW line_id \in Ids, NEW l \in Lit, NEW c \in Slots,
             GlobalUnit(line_id, l, c)
      PROVE  LineInProgress'
  BY <1>2, <1>8 DEF GlobalUnit, LineInProgress, locals
<1>9. ASSUME NEW id \in Ids, NEW ln \in ProofLines, AddLine(id, ln)
      PROVE  LineInProgress'
  <2>1. id > max_line_id /\ max_line_id >= formula_size /\ formula_size >= num_cnf_clauses
        /\ id \in Nat /\ formula_size \in Nat /\ num_cnf_clauses \in Nat /\ id \in Slots
    BY <1>9, LsrAssumption DEF AddLine, LineAccepted, TypeOK, Ids, Slots
  <2>2. id \notin deleted'
    <3>1. deleted \subseteq 1..formula_size + 1 /\ formula_size + 1 \notin deleted
      BY <1>9 DEF TypeOK, AddLine, LineAccepted
    <3>2. id \notin deleted
      <4>1. max_line_id \in Nat
        BY LsrAssumption DEF TypeOK
      <4> QED
        BY <2>1, <3>1, <4>1
    <3> QED
      BY <1>9, <2>1, <3>2 DEF AddLine, Fillers
  <2>3. formula'[id] = ln.clause /\ candidate' = id /\ line' = ln
    BY <1>9, <2>1 DEF AddLine, TypeOK, candidate
  <2>4. \A k \in DOMAIN ln.groups : ln.groups[k] \in 1..(id + 1) \ deleted'
    BY <1>9 DEF AddLine, LineAccepted, HintAccepted
  <2>5. ParserAccepts(ln) /\ pc' = "assume"
    BY <1>9 DEF AddLine, LineAccepted
  <2>6. candidate' > num_cnf_clauses
    <3>1. max_line_id \in Nat /\ id > num_cnf_clauses
      BY <2>1, LsrAssumption DEF TypeOK
    <3> QED
      BY <2>3, <3>1
  <2> QED
    BY <2>2, <2>3, <2>4, <2>5, <2>6 DEF LineInProgress, ParserAccepts
<1>10. ASSUME NEW h, CandidateSatisfied \/ RefutedByHint(h)
                               \/ HintGroupsSuffice \/ ScanComplete
       PROVE  LineInProgress'
  BY <1>2, <1>10, FinishLineEnds
  DEF CandidateSatisfied, RefutedByHint, HintGroupsSuffice, ScanComplete
<1>11. CASE AssumeNegatedCandidate
  BY <1>11 DEF AssumeNegatedCandidate, LineInProgress, Checking, db, candidate,
               ParserAccepts
<1>12. ASSUME NEW h \in Slots, NEW l \in Lit, UnitHint(h, l)
       PROVE  LineInProgress'
  BY <1>12 DEF UnitHint, UpPoint, LineInProgress, Checking, db, locals, candidate,
               ParserAccepts
<1>13. CASE AssumeSubst
  <2> DEFINE fl == [l \in Lit |-> IF l \in Touched THEN Refreshed(l) ELSE first_last[l]]
  <2>1. fl \in [Lit -> [min : 0..formula_size, max : 0..formula_size]]
    <3>1. \A l \in Lit : first_last[l] \in [min : 0..formula_size, max : 0..formula_size]
      BY DEF TypeOK
    <3> QED
      BY <3>1, RefreshedType
  <2>2. Touched \subseteq Lit
    <3>1. line \in ProofLines /\ line.clause # {}
      BY <1>13 DEF AssumeSubst, LineInProgress, Checking
    <3> QED
      BY <3>1, TouchedType, LsrAssumption
  <2> HIDE DEF fl
  <2>3. FirstOf(fl) \in 1..formula_size /\ LastOf(fl) \in 1..formula_size
    BY <2>1, <2>2, LastOfType
  <2>4. cursor' \in 1..candidate + 1 /\ position' = 1 /\ pc' \in {"scan", "hints"}
    <3>1. cursor' = IF FirstOf(fl) <= LastOf(fl) THEN FirstOf(fl) ELSE candidate
      BY <1>13 DEF AssumeSubst, fl
    <3> QED
      BY <1>13, <3>1, <2>3, LsrAssumption DEF AssumeSubst, candidate, TypeOK
  <2> QED
    BY <1>13, <2>4 DEF AssumeSubst, LineInProgress, Checking, db, candidate,
                       ParserAccepts
<1>14. CASE RefuseWitness \/ RefuseHintGroup \/ RefuseRATClause \/ RATClauseNotRefuted
  BY <1>1, <1>14 DEF RefuseWitness, RefuseHintGroup, RefuseRATClause,
                     RATClauseNotRefuted, Fatal
<1>15. CASE CheckHintGroup
  <2>1. position \in DOMAIN line.groups
    BY <1>15 DEF CheckHintGroup, LineInProgress, TypeOK, LineHead
  <2> QED
    BY <1>15, <2>1, AssumeNegatedRATClauseLine DEF CheckHintGroup
<1>16. CASE HintGroupsMissing
  BY <1>16 DEF HintGroupsMissing, LineInProgress, Checking, db, candidate,
               ParserAccepts
<1>17. CASE SkipClause
  <2>1. NextCursor \in 1..candidate + 1
    BY <1>17, LsrAssumption DEF SkipClause, NextCursor, candidate, LineInProgress, TypeOK
  <2> QED
    BY <1>17, <2>1 DEF SkipClause, LineInProgress, Checking, db, candidate,
                       ParserAccepts
<1>18. CASE CheckRATClause
  BY <1>18, AssumeNegatedRATClauseLine DEF CheckRATClause
<1>19. ASSUME NEW h \in Slots, RATClauseRefuted(h)
       PROVE  LineInProgress'
  BY <1>19, RATClausePassedLine DEF RATClauseRefuted, LineInProgress
<1> QED
  BY <1>3, <1>4, <1>5, <1>6, <1>7, <1>8, <1>9, <1>10, <1>11, <1>12, <1>13, <1>14,
     <1>15, <1>16, <1>17, <1>18, <1>19
  DEF Next, ReadLine, CheckLine, Exited

(***************************************************************************)
(* The occurrence counters.                                                 *)
(***************************************************************************)
LEMMA SameCount ==
  ASSUME OccurrencesExact, UNCHANGED lits_occurrences, Trusted' = Trusted,
         \A c \in Trusted : formula'[c] = formula[c],
         pc \notin {"prepare", "CRASH"} \/ pc' = "CRASH"
  PROVE  OccurrencesExact'
<1> SUFFICES ASSUME pc' # "CRASH", NEW l \in Lit
             PROVE  lits_occurrences'[l]
                      = Cardinality({c \in Trusted' : l \in formula'[c]})
  BY DEF OccurrencesExact
<1>1. {c \in Trusted' : l \in formula'[c]} = {c \in Trusted : l \in formula[c]}
  OBVIOUS
<1> QED
  BY <1>1 DEF OccurrencesExact

(* The clause of a finished line joins the formula, counted once.           *)
LEMMA FinishLineOccurrences ==
  ASSUME Bookkeeping, pc \in Checking, NEW gen, FinishLine(gen)
  PROVE  OccurrencesExact'
<1> USE DEF Bookkeeping
<1>1. /\ line.clause = formula[candidate] /\ candidate \notin deleted
      /\ candidate \in 1..formula_size
  BY LsrAssumption DEF LineInProgress, TypeOK, candidate
<1>2. UNCHANGED <<formula, formula_size, deleted, candidate>> /\ line' = NoLine
  BY DEF FinishLine, db, candidate
<1>3. CASE line.clause = {}
  <2>1. Trusted' = Trusted
    BY <1>1, <1>2, <1>3 DEF Trusted, Live
  <2>2. UNCHANGED lits_occurrences
    BY <1>3 DEF FinishLine, caches
  <2> QED
    BY <1>2, <2>1, <2>2, SameCount DEF Checking
<1>4. CASE line.clause # {}
  <2>1. candidate \notin Trusted
    BY <1>4 DEF Trusted, NoLine
  <2>2. Trusted' = Trusted \cup {candidate}
    BY <1>1, <1>2, <1>4 DEF Trusted, Live
  <2>3. ASSUME NEW l \in Lit
        PROVE  lits_occurrences'[l]
                 = Cardinality({c \in Trusted' : l \in formula'[c]})
    <3>1. lits_occurrences[l] = Cardinality(Occurrences(l))
      BY DEF OccurrencesExact, Checking, Occurrences
    <3>2. lits_occurrences'[l] = IF l \in line.clause THEN lits_occurrences[l] + 1
                                 ELSE lits_occurrences[l]
      BY <1>4 DEF FinishLine, OccurrencesAfter
    <3>3. candidate \notin Occurrences(l)
      BY <2>1 DEF Occurrences
    <3>4. CASE l \in line.clause
      <4>1. {c \in Trusted' : l \in formula'[c]} = Occurrences(l) \cup {candidate}
        BY <1>1, <1>2, <2>2, <3>4 DEF Occurrences
      <4>2. Cardinality(Occurrences(l) \cup {candidate}) = Cardinality(Occurrences(l)) + 1
        BY <3>3, OccurrencesFinite, FS_AddElement
      <4> QED
        BY <3>1, <3>2, <3>4, <4>1, <4>2
    <3>5. CASE l \notin line.clause
      <4>1. {c \in Trusted' : l \in formula'[c]} = Occurrences(l)
        BY <1>1, <1>2, <2>2, <3>5 DEF Occurrences
      <4> QED
        BY <3>1, <3>2, <3>5, <4>1
    <3> QED
      BY <3>4, <3>5
  <2> QED
    BY <2>3 DEF OccurrencesExact
<1> QED
  BY <1>3, <1>4

(* Every step that adds or deletes a clause updates the counters.           *)
LEMMA OccurrencesStep ==
  ASSUME Bookkeeping, [Next]_vars
  PROVE  OccurrencesExact'
<1> USE DEF Bookkeeping
<1>1. ASSUME UNCHANGED <<formula, formula_size, deleted, line, lits_occurrences>>,
             pc \notin {"prepare", "CRASH"} \/ pc' = "CRASH"
      PROVE  OccurrencesExact'
  <2>1. Trusted' = Trusted
    BY <1>1 DEF Trusted, Live, candidate
  <2> QED
    BY <1>1, <2>1, SameCount
<1>2. ASSUME pc' \in {"prepare", "CRASH"}
      PROVE  OccurrencesExact'
  BY <1>2 DEF OccurrencesExact
<1>3. CASE UNCHANGED vars
  BY <1>1, <1>2, <1>3 DEF vars, db, caches, locals
<1>4. CASE Prepare
  <2>1. line = NoLine /\ formula_size = num_cnf_clauses /\ deleted = {} /\ pc = "prepare"
    BY <1>4 DEF Prepare, LineInProgress
  <2>2. UNCHANGED <<formula, formula_size, deleted, line, candidate>>
    BY <1>4 DEF Prepare, db, locals, candidate
  <2>3. Trusted' = {c \in CnfIds : formula[c] # {}}
    BY <2>1, <2>2 DEF Trusted, Live, CnfIds
  <2>4. \A l : {c \in Trusted' : l \in formula'[c]} = {c \in CnfIds : l \in formula[c]}
    BY <2>2, <2>3
  <2> QED
    BY <1>4, <2>4 DEF Prepare, OccurrencesExact
<1>5. CASE PrepareReadsDeleted
  BY <1>2, <1>5 DEF PrepareReadsDeleted
<1>6. ASSUME NEW line_id, NEW d \in Slots, DeleteClause(line_id, d)
      PROVE  OccurrencesExact'
  <2>1. pc = "read" /\ d \in Live /\ line = NoLine
    BY <1>6 DEF DeleteClause, Deletable, LineInProgress
  <2>2. UNCHANGED <<formula, formula_size, line, candidate>> /\ deleted' = deleted \cup {d}
    BY <1>6 DEF DeleteClause, locals, candidate
  <2>3. Trusted' = Trusted \ {d}
    BY <2>1, <2>2 DEF Trusted, Live
  <2>4. ASSUME NEW l \in Lit
        PROVE  lits_occurrences'[l]
                 = Cardinality({c \in Trusted' : l \in formula'[c]})
    <3>1. lits_occurrences[l] = Cardinality(Occurrences(l))
      BY <2>1 DEF OccurrencesExact, Occurrences
    <3>2. lits_occurrences'[l] = IF l \in formula[d] THEN lits_occurrences[l] + (-1)
                                 ELSE lits_occurrences[l]
      BY <1>6 DEF DeleteClause, OccurrencesAfter
    <3>3. {c \in Trusted' : l \in formula'[c]} = Occurrences(l) \ {d}
      BY <2>2, <2>3 DEF Occurrences
    <3>4. d \in Occurrences(l) <=> l \in formula[d]
      BY <2>1 DEF Occurrences, Trusted
    <3>5. Cardinality(Occurrences(l) \ {d})
            = IF d \in Occurrences(l) THEN Cardinality(Occurrences(l)) - 1
              ELSE Cardinality(Occurrences(l))
      BY OccurrencesFinite, FS_RemoveElement
    <3>6. Cardinality(Occurrences(l)) \in Nat
      BY OccurrencesFinite
    <3> QED
      BY <3>1, <3>2, <3>3, <3>4, <3>5, <3>6
  <2> QED
    BY <2>4 DEF OccurrencesExact
<1>7. ASSUME NEW line_id, DeletePending(line_id)
      PROVE  OccurrencesExact'
  <2>1. pc = "read" /\ UNCHANGED <<formula, formula_size, line, lits_occurrences, candidate>>
        /\ deleted' = deleted \cup {formula_size + 1}
    BY <1>7 DEF DeletePending, caches, locals, candidate
  <2>2. formula_size + 1 \notin 1..formula_size
    BY LsrAssumption DEF TypeOK
  <2>3. Trusted' = Trusted
    BY <2>1, <2>2 DEF Trusted, Live
  <2> QED
    BY <2>1, <2>3, SameCount
<1>8. ASSUME NEW line_id, NEW l, NEW c,
             \/ EmptyDeletion(line_id) \/ RefuseDeletion(line_id, c)
             \/ DeleteTwice(line_id, c) \/ GlobalUnit(line_id, l, c)
             \/ RefuseGlobalUnit(line_id, l, c) \/ RefuseLine(line_id)
      PROVE  OccurrencesExact'
  BY <1>1, <1>2, <1>8
  DEF EmptyDeletion, RefuseDeletion, DeleteTwice, GlobalUnit, RefuseGlobalUnit,
      RefuseLine, Fatal, db, caches, locals
<1>9. ASSUME NEW id \in Ids, NEW ln \in ProofLines, AddLine(id, ln)
      PROVE  OccurrencesExact'
  <2>1. pc = "read" /\ line = NoLine /\ UNCHANGED lits_occurrences
    BY <1>9 DEF AddLine, LineInProgress, caches
  <2>2. /\ formula' = [formula EXCEPT ![id] = ln.clause] /\ formula_size' = id
        /\ candidate' = id /\ line' = ln
        /\ deleted' = deleted \cup ((formula_size + 1)..(id - 1))
    BY <1>9 DEF AddLine, Fillers, candidate
  <2>3. id > formula_size /\ id \in Nat /\ formula_size \in Nat /\ id \in Slots
    BY <1>9, LsrAssumption DEF AddLine, LineAccepted, TypeOK, Ids, Slots
  <2>4. formula'[id] = ln.clause /\ \A c \in 1..formula_size : formula'[c] = formula[c]
    BY <2>2, <2>3, LsrAssumption DEF TypeOK, Slots
  <2>5. Live' \subseteq Live \cup {id} /\ Live \subseteq Live'
    BY <2>2, <2>3 DEF Live
  <2>6. Trusted' = Trusted
    <3>1. id \notin Trusted'
      BY <2>2, <2>4 DEF Trusted, NoLine
    <3>2. id \notin Trusted
      BY <2>3 DEF Trusted, Live
    <3>3. ASSUME NEW c \in Live
          PROVE  c \in Trusted' <=> c \in Trusted
      <4>1. c \in 1..formula_size /\ c # id /\ c \in Live'
        BY <2>3, <2>5 DEF Live
      <4> QED
        BY <2>1, <2>2, <2>4, <4>1 DEF Trusted
    <3>4. Trusted \subseteq Live /\ Trusted' \subseteq Live'
      BY DEF Trusted
    <3> QED
      BY <2>5, <3>1, <3>2, <3>3, <3>4
  <2>7. Trusted \subseteq 1..formula_size
    BY DEF Trusted, Live
  <2> QED
    BY <2>1, <2>4, <2>6, <2>7, SameCount
<1>10. ASSUME NEW h, CandidateSatisfied \/ RefutedByHint(h)
                     \/ HintGroupsSuffice \/ ScanComplete
       PROVE  OccurrencesExact'
  BY <1>10, FinishLineOccurrences
  DEF CandidateSatisfied, RefutedByHint, HintGroupsSuffice, ScanComplete, Checking
<1>11. ASSUME NEW c, AssumeNegatedRATClause(c), pc \in Checking
       PROVE  OccurrencesExact'
  BY <1>1, <1>11
  DEF AssumeNegatedRATClause, RATClausePassed, Checking, db, caches, locals
<1>12. CASE CheckHintGroup \/ CheckRATClause
  BY <1>11, <1>12 DEF CheckHintGroup, CheckRATClause, Checking
<1>13. ASSUME NEW h, NEW l,
              UnitHint(h, l) \/ UselessHint(h) \/ RATClauseRefuted(h)
       PROVE  OccurrencesExact'
  BY <1>1, <1>13
  DEF UnitHint, UselessHint, RATClauseRefuted, UpPoint, RATClausePassed, Fatal, db,
      caches, locals
<1>14. CASE AssumeNegatedCandidate \/ AssumeSubst \/ HintGroupsMissing \/ SkipClause
  BY <1>1, <1>14
  DEF AssumeNegatedCandidate, AssumeSubst, HintGroupsMissing, SkipClause, db, caches
<1>15. CASE RefuseWitness \/ RefuseHintGroup \/ RefuseRATClause \/ RATClauseNotRefuted
            \/ EndOfProof
  BY <1>1, <1>15
  DEF RefuseWitness, RefuseHintGroup, RefuseRATClause, RATClauseNotRefuted,
      EndOfProof, Fatal, db, caches, locals
<1> QED
  BY <1>3, <1>4, <1>5, <1>6, <1>7, <1>8, <1>9, <1>10, <1>12, <1>13, <1>14, <1>15
  DEF Next, ReadLine, CheckLine, Exited

-----------------------------------------------------------------------------
(* The bookkeeping of the checker is right in every reachable state.        *)
THEOREM BookkeepingInvariant == Spec => []Bookkeeping
<1>1. Init => Bookkeeping
  BY InitBookkeeping
<1>2. Bookkeeping /\ [Next]_vars => Bookkeeping'
  BY TypeStep, LineStep, OccurrencesStep DEF Bookkeeping
<1> QED
  BY <1>1, <1>2, PTL DEF Spec

(* Every variable keeps its type; in particular no occurrence counter wraps *)
(* below zero, and neither loop of check_line() leaves the formula.         *)
THEOREM TypeCorrect == Spec => []TypeOK
<1>1. Bookkeeping => TypeOK
  BY DEF Bookkeeping
<1> QED
  BY <1>1, BookkeepingInvariant, PTL

(* lits_occurrences counts exactly the clauses that may be cited, however   *)
(* lines are added, refused and deleted.                                    *)
THEOREM OccurrencesCorrect == Spec => []OccurrencesExact
<1>1. Bookkeeping => OccurrencesExact
  BY DEF Bookkeeping
<1> QED
  BY <1>1, BookkeepingInvariant, PTL

-----------------------------------------------------------------------------
(***************************************************************************)
(* The intervals.                                                           *)
(***************************************************************************)

(* The ends of an interval cover clause c.                                  *)
Covers(mm, c) == mm.min # 0 /\ mm.min <= c /\ c <= mm.max

(* update_first_last_clause() loses no clause: the ends move over deleted    *)
(* clauses, and over those without the literal, only up to the next that has *)
(* it.                                                                      *)
LEMMA RefreshedCovers ==
  ASSUME TypeOK, NEW l \in Lit, NEW c \in Live, l \in formula[c],
         Covers(first_last[l], c)
  PROVE  Covers(Refreshed(l), c)
<1> DEFINE mm == first_last[l]
           lo == IF mm.min \in deleted THEN MoveMinForward(l, mm.min, mm.max)
                 ELSE mm.min
           hi == IF lo # mm.max /\ mm.max \in deleted
                 THEN MoveMaxBackward(l, lo, mm.max) ELSE mm.max
<1>1. /\ mm.min \in 1..formula_size /\ mm.max \in 0..formula_size /\ formula_size \in Nat
      /\ c \in Nat /\ c \notin deleted /\ mm.min <= c /\ c <= mm.max
  BY LsrAssumption DEF TypeOK, Covers, Live
<1>2. ASSUME NEW i \in Nat, i < c, c < mm.max
      PROVE  LET H == Holding(l, i, mm.max)
             IN  H # {} /\ Min(H) \in Nat /\ Min(H) > i /\ Min(H) <= c /\ c <= Max(H)
  <2> DEFINE H == Holding(l, i, mm.max)
  <2>1. c \in H /\ H \in SUBSET Nat /\ \A x \in H : x <= mm.max /\ x > i
    BY <1>1, <1>2 DEF Holding
  <2>2. mm.max \in Nat
    BY <1>1
  <2> HIDE DEF H, mm
  <2>3. Min(H) \in H /\ \A x \in H : Min(H) <= x
    BY <2>1, MinExists
  <2>4. \A x \in H : x <= Max(H)
    BY <2>1, <2>2, MaxExists
  <2>5. H # {} /\ Min(H) \in Nat /\ Min(H) > i /\ Min(H) <= c /\ c <= Max(H)
    BY <2>1, <2>3, <2>4
  <2> QED
    BY <2>5 DEF H, mm
<1>3. lo \in Nat /\ lo # 0 /\ lo <= c
  <2>1. CASE mm.min \notin deleted
    BY <1>1, <2>1
  <2>2. CASE mm.min \in deleted /\ c < mm.max
    <3>1. mm.min \in Nat /\ mm.min < c
      BY <1>1, <2>2
    <3>2. lo = Min(Holding(l, mm.min, mm.max)) /\ lo \in Nat /\ lo > mm.min /\ lo <= c
      BY <1>2, <2>2, <3>1 DEF MoveMinForward
    <3> HIDE DEF lo
    <3> QED
      BY <3>1, <3>2
  <2>3. CASE mm.min \in deleted /\ c = mm.max
    <3>1. CASE Holding(l, mm.min, mm.max) = {}
      BY <1>1, <2>3, <3>1 DEF MoveMinForward
    <3>2. CASE Holding(l, mm.min, mm.max) # {}
      <4> DEFINE H == Holding(l, mm.min, mm.max)
      <4>1. H \in SUBSET Nat /\ \A x \in H : x # 0 /\ x <= c
        BY <1>1, <2>3 DEF Holding
      <4>2. H # {} /\ lo = Min(H)
        BY <2>3, <3>2 DEF MoveMinForward
      <4> HIDE DEF H, lo
      <4>3. Min(H) \in H
        BY <4>1, <4>2, MinExists
      <4> QED
        BY <4>1, <4>2, <4>3
    <3> QED
      BY <3>1, <3>2
  <2> QED
    BY <1>1, <2>1, <2>2, <2>3
<1>4. c <= hi
  <2>1. CASE ~(lo # mm.max /\ mm.max \in deleted)
    BY <1>1, <2>1
  <2>2. CASE lo # mm.max /\ mm.max \in deleted
    <3>1. hi = MoveMaxBackward(l, lo, mm.max) /\ c < mm.max
      BY <1>1, <2>2
    <3> HIDE DEF lo, hi
    <3>2. CASE lo < c
      BY <1>2, <1>3, <3>1, <3>2 DEF MoveMaxBackward
    <3>3. CASE lo = c
      <4> DEFINE H == Holding(l, lo, mm.max)
      <4>1. H \in SUBSET Nat /\ \A x \in H : c <= x /\ x <= mm.max
        BY <1>1, <1>3, <3>3 DEF Holding
      <4>2. mm.max \in Nat
        BY <1>1
      <4>3. H # {} => Max(H) \in H
        <5> HIDE DEF H, mm
        <5> QED
          BY <4>1, <4>2, MaxExists
      <4>4. hi = IF H # {} THEN Max(H) ELSE lo
        BY <3>1 DEF MoveMaxBackward
      <4> HIDE DEF H, mm
      <4> QED
        BY <1>3, <3>3, <4>1, <4>3, <4>4
    <3> QED
      BY <1>1, <1>3, <3>2, <3>3
  <2> QED
    BY <2>1, <2>2
<1>5. Refreshed(l) = IF mm.min = 0 THEN mm
                     ELSE IF lo = 0 THEN NoClause ELSE [min |-> lo, max |-> hi]
  BY DEF Refreshed
<1> HIDE DEF lo, hi
<1> QED
  BY <1>1, <1>3, <1>4, <1>5 DEF Covers

-----------------------------------------------------------------------------
(***************************************************************************)
(* The steps.                                                               *)
(***************************************************************************)

(* Clauses may be deleted, and slots added, without a look at the intervals. *)
LEMMA SameIntervals ==
  ASSUME IntervalsCover, UNCHANGED first_last, Trusted' \subseteq Trusted,
         \A c \in Trusted : formula'[c] = formula[c]
  PROVE  IntervalsCover'
BY DEF IntervalsCover

(* parse_cnf() enters every clause that is not a tautology.                  *)
LEMMA InitIntervals == Init => IntervalsCover
<1> SUFFICES ASSUME Init, NEW c \in Trusted, NEW l \in formula[c]
             PROVE  Covers(first_last[l], c)
  BY DEF IntervalsCover, Covers
<1>1. PICK cnf \in CNFs : Init!(cnf)
  BY DEF Init
<1> DEFINE S == {d \in CnfIds : l \in cnf[d] /\ ~Tautology(cnf[d])}
<1>2. cnf \in [CnfIds -> SUBSET Lit] /\ num_cnf_clauses \in Nat
  BY LsrAssumption
<1>3. c \in CnfIds /\ formula[c] = cnf[c] /\ ~Tautology(cnf[c])
  <2>1. c \in 1..formula_size /\ c \notin deleted
    BY DEF Trusted, Live
  <2>2. c \in CnfIds /\ c \in Slots
    BY <1>1, <2>1, LsrAssumption DEF CnfIds, Slots
  <2> QED
    BY <1>1, <2>1, <2>2
<1>4. l \in Lit /\ c \in S
  BY <1>2, <1>3
<1>5. first_last[l] = [min |-> Min(S), max |-> Max(S)]
  BY <1>1, <1>4 DEF CnfInterval
<1>6. S \in SUBSET Nat /\ \A x \in S : x <= num_cnf_clauses /\ x # 0
  BY <1>2 DEF CnfIds
<1> HIDE DEF S
<1>7. Min(S) \in S /\ Min(S) <= c
  BY <1>4, <1>6, MinExists
<1>8. c <= Max(S)
  BY <1>2, <1>4, <1>6, MaxExists
<1> QED
  BY <1>5, <1>6, <1>7, <1>8 DEF Covers

(* The clause of a finished line is the last one: its literals' intervals    *)
(* are extended to it.                                                      *)
LEMMA FinishLineIntervals ==
  ASSUME Bookkeeping, IntervalsCover, pc \in Checking, NEW gen, FinishLine(gen)
  PROVE  IntervalsCover'
<1> USE DEF Bookkeeping
<1>1. /\ line.clause = formula[candidate] /\ candidate = formula_size
      /\ formula_size \in Nat \ {0}
  BY LsrAssumption DEF LineInProgress, TypeOK, candidate
<1>2. UNCHANGED <<formula, formula_size, deleted, candidate>>
  BY DEF FinishLine, db, candidate
<1>3. Trusted' \subseteq Trusted \cup {candidate}
  BY <1>2 DEF Trusted, Live
<1>4. CASE line.clause = {}
  <2>1. Trusted' \subseteq Trusted
    BY <1>1, <1>2, <1>3, <1>4 DEF Trusted
  <2> QED
    BY <1>2, <1>4, <2>1, SameIntervals DEF FinishLine, caches
<1>5. CASE line.clause # {}
  <2> SUFFICES ASSUME NEW c \in Trusted', NEW l \in formula[c]
               PROVE  Covers(first_last'[l], c)
    BY <1>2 DEF IntervalsCover, Covers
  <2>1. c \in 1..formula_size /\ c \in Slots
    BY <1>2, LsrAssumption DEF Trusted, Live, TypeOK, Slots
  <2>2. l \in Lit
    BY <2>1 DEF TypeOK
  <2>3. first_last[l].min \in 0..formula_size /\ first_last[l].max \in 0..formula_size
    BY <2>2 DEF TypeOK
  <2>4. first_last'[l] = IF l \in line.clause
                         THEN [min |-> IF first_last[l].min = 0 THEN candidate
                                       ELSE first_last[l].min,
                               max |-> candidate]
                         ELSE first_last[l]
    BY <1>5, <2>2 DEF FinishLine, WithClause
  <2>5. CASE c = candidate
    BY <1>1, <2>3, <2>4, <2>5 DEF Covers
  <2>6. CASE c # candidate
    <3>1. Covers(first_last[l], c)
      BY <1>3, <2>6 DEF IntervalsCover, Covers
    <3> QED
      BY <1>1, <2>1, <2>3, <2>4, <3>1 DEF Covers
  <2> QED
    BY <2>5, <2>6
<1> QED
  BY <1>4, <1>5

(* Looking at the clauses a witness touches refreshes their intervals.       *)
LEMMA AssumeSubstIntervals ==
  ASSUME Bookkeeping, IntervalsCover, AssumeSubst
  PROVE  IntervalsCover'
<1> USE DEF Bookkeeping
<1>1. UNCHANGED <<formula, formula_size, deleted, line>>
      /\ first_last' = [l \in Lit |-> IF l \in Touched THEN Refreshed(l) ELSE first_last[l]]
  BY DEF AssumeSubst, db
<1>2. Trusted' = Trusted
  BY <1>1 DEF Trusted, Live, candidate
<1> SUFFICES ASSUME NEW c \in Trusted, NEW l \in formula[c]
             PROVE  Covers(first_last'[l], c)
  BY <1>1, <1>2 DEF IntervalsCover, Covers
<1>3. c \in Live /\ c \in Slots
  BY LsrAssumption DEF Trusted, Live, TypeOK, Slots
<1>4. l \in Lit
  BY <1>3 DEF TypeOK
<1>5. Covers(first_last[l], c)
  BY DEF IntervalsCover, Covers
<1>6. Covers(Refreshed(l), c)
  BY <1>3, <1>4, <1>5, RefreshedCovers
<1> QED
  BY <1>1, <1>4, <1>5, <1>6

(* Every other step leaves the intervals, and adds no trusted clause.        *)
LEMMA IntervalsStep ==
  ASSUME Bookkeeping, IntervalsCover, [Next]_vars
  PROVE  IntervalsCover'
<1> USE DEF Bookkeeping
<1>1. ASSUME UNCHANGED <<formula, formula_size, deleted, line, first_last>>
      PROVE  IntervalsCover'
  <2>1. Trusted' = Trusted
    BY <1>1 DEF Trusted, Live, candidate
  <2> QED
    BY <1>1, <2>1, SameIntervals
<1>2. CASE UNCHANGED vars
  BY <1>1, <1>2 DEF vars, db, caches, locals
<1>3. CASE Prepare \/ PrepareReadsDeleted \/ EndOfProof
  BY <1>1, <1>3 DEF Prepare, PrepareReadsDeleted, EndOfProof, db, caches, locals
<1>4. ASSUME NEW line_id, NEW d, DeleteClause(line_id, d) \/ DeletePending(line_id)
      PROVE  IntervalsCover'
  <2>1. UNCHANGED <<formula, formula_size, line, first_last, candidate>>
        /\ deleted \subseteq deleted'
    BY <1>4 DEF DeleteClause, DeletePending, caches, locals, candidate
  <2>2. Trusted' \subseteq Trusted
    BY <2>1 DEF Trusted, Live
  <2> QED
    BY <2>1, <2>2, SameIntervals
<1>5. ASSUME NEW line_id, NEW l, NEW c,
             \/ EmptyDeletion(line_id) \/ RefuseDeletion(line_id, c)
             \/ DeleteTwice(line_id, c) \/ GlobalUnit(line_id, l, c)
             \/ RefuseGlobalUnit(line_id, l, c) \/ RefuseLine(line_id)
      PROVE  IntervalsCover'
  BY <1>1, <1>5
  DEF EmptyDeletion, RefuseDeletion, DeleteTwice, GlobalUnit, RefuseGlobalUnit,
      RefuseLine, Fatal, db, caches, locals
<1>6. ASSUME NEW id \in Ids, NEW ln \in ProofLines, AddLine(id, ln)
      PROVE  IntervalsCover'
  <2>1. line = NoLine /\ UNCHANGED first_last
    BY <1>6 DEF AddLine, LineInProgress, caches
  <2>2. /\ formula' = [formula EXCEPT ![id] = ln.clause] /\ formula_size' = id
        /\ candidate' = id /\ line' = ln
        /\ deleted' = deleted \cup ((formula_size + 1)..(id - 1))
    BY <1>6 DEF AddLine, Fillers, candidate
  <2>3. id > formula_size /\ id \in Nat /\ formula_size \in Nat /\ id \in Slots
    BY <1>6, LsrAssumption DEF AddLine, LineAccepted, TypeOK, Ids, Slots
  <2>4. formula'[id] = ln.clause /\ \A c \in 1..formula_size : formula'[c] = formula[c]
    BY <2>2, <2>3, LsrAssumption DEF TypeOK, Slots
  <2>5. Live' \subseteq Live \cup {id}
    BY <2>2, <2>3 DEF Live
  <2>6. id \notin Trusted'
    BY <2>2, <2>4 DEF Trusted, NoLine
  <2>7. ASSUME NEW c \in Trusted'
        PROVE  c \in Trusted
    <3>1. c \in Live
      BY <2>5, <2>6 DEF Trusted
    <3> QED
      BY <2>1, <2>4, <3>1 DEF Trusted, Live
  <2>8. Trusted \subseteq 1..formula_size
    BY DEF Trusted, Live
  <2> QED
    BY <2>1, <2>4, <2>7, <2>8, SameIntervals
<1>7. ASSUME NEW h, CandidateSatisfied \/ RefutedByHint(h)
                     \/ HintGroupsSuffice \/ ScanComplete
      PROVE  IntervalsCover'
  BY <1>7, FinishLineIntervals
  DEF CandidateSatisfied, RefutedByHint, HintGroupsSuffice, ScanComplete, Checking
<1>8. ASSUME NEW c, AssumeNegatedRATClause(c)
      PROVE  IntervalsCover'
  BY <1>1, <1>8
  DEF AssumeNegatedRATClause, RATClausePassed, db, caches, locals
<1>9. CASE CheckHintGroup \/ CheckRATClause
  BY <1>8, <1>9 DEF CheckHintGroup, CheckRATClause
<1>10. ASSUME NEW h, NEW l,
              UnitHint(h, l) \/ UselessHint(h) \/ RATClauseRefuted(h)
       PROVE  IntervalsCover'
  BY <1>1, <1>10
  DEF UnitHint, UselessHint, RATClauseRefuted, UpPoint, RATClausePassed, Fatal, db,
      caches, locals
<1>11. CASE AssumeNegatedCandidate \/ HintGroupsMissing \/ SkipClause
  BY <1>1, <1>11
  DEF AssumeNegatedCandidate, HintGroupsMissing, SkipClause, db, caches
<1>12. CASE AssumeSubst
  BY <1>12, AssumeSubstIntervals
<1>13. CASE RefuseWitness \/ RefuseHintGroup \/ RefuseRATClause \/ RATClauseNotRefuted
  BY <1>1, <1>13
  DEF RefuseWitness, RefuseHintGroup, RefuseRATClause, RATClauseNotRefuted, Fatal,
      db, caches, locals
<1> QED
  BY <1>2, <1>3, <1>4, <1>5, <1>6, <1>7, <1>9, <1>10, <1>11, <1>12, <1>13
  DEF Next, ReadLine, CheckLine, Exited

-----------------------------------------------------------------------------
(* The cached interval of a literal holds every clause that contains it, so  *)
(* the scan of a redundancy check, which is bounded by these intervals, has  *)
(* no clause to miss, whatever was added and deleted since they were         *)
(* refreshed.                                                               *)
THEOREM IntervalsCorrect == Spec => []IntervalsCover
<1>1. Init => Bookkeeping /\ IntervalsCover
  BY InitBookkeeping, InitIntervals
<1>2. Bookkeeping /\ IntervalsCover /\ [Next]_vars => Bookkeeping' /\ IntervalsCover'
  BY TypeStep, LineStep, OccurrencesStep, IntervalsStep DEF Bookkeeping
<1> QED
  BY <1>1, <1>2, PTL DEF Spec

-----------------------------------------------------------------------------

(***************************************************************************)
(* The invariant of the loops, on top of the bookkeeping and the intervals: *)
(* a clause is dealt with or lies ahead of the cursor, and the clauses that *)
(* check_only_hints() counts are clauses with the negated pivot.            *)
(***************************************************************************)
Looping == {"hints", "hintsUp", "scan", "scanUp"}

NothingChecked ==
  /\ \A c \in Slots : c > formula_size => formula[c] = {}
  /\ pc \in {"prepare", "read", "assume", "up"} => checked = {}

Untouched(c) == SatisfiedBySubst(c) \/ NotReduced(c)

Ahead(c) ==
  cursor <= candidate /\ (c = candidate \/ (cursor <= c /\ c <= max_clause))

Scanned ==
  pc \in Looping =>
    /\ line.clause # {} /\ subst = WitnessSubst
    /\ \A c \in Trusted \cup {candidate} :
         Untouched(c) \/ Ahead(c) \/ (pc \in {"scan", "scanUp"} /\ c \in checked)

Counted ==
  /\ pc \in {"hints", "hintsUp"} =>
       ~line.explicit /\ checked \subseteq Occurrences(-line.pivot)
  /\ pc = "hintsUp" => Group \in Occurrences(-line.pivot)

ScanInv == NothingChecked /\ Scanned /\ Counted

-----------------------------------------------------------------------------
(***************************************************************************)
(* The witness.                                                             *)
(***************************************************************************)

(* A literal whose negation and whose variable the witness leaves alone is   *)
(* made true or mapped to itself.                                           *)
LEMMA UntouchedLiteral ==
  ASSUME line \in LineHead, LineShape(line), line.clause # {},
         NEW l \in Lit \ Touched
  PROVE  MapLit(WitnessSubst, l) =
           IF l \in line.tt \cup {line.pivot} THEN SUBST_TT ELSE l
<1> DEFINE tt == line.tt \cup {line.pivot}
<1>1. tt \subseteq Lit
  BY DEF LineHead, LineShape
<1>2. VarOf(l) \notin line.mapped
  BY DEF Touched
<1>3. -l \notin tt
  <2>1. \A k \in tt : -k # l
    BY DEF Touched
  <2>2. l \in Int /\ -(-l) = l
    BY Literals
  <2> QED
    BY <2>1, <2>2
<1>4. VarOf(l) \in Var
  BY Literals
<1>5. CASE l > 0
  BY <1>2, <1>3, <1>4, <1>5 DEF VarOf, MapLit, WitnessSubst
<1>6. CASE ~(l > 0)
  <2>1. l \in Int /\ -(-l) = l /\ SUBST_TT \in Int /\ -SUBST_FF = SUBST_TT
    BY Literals DEF SUBST_FF
  <2>2. -l \in Var /\ -l \notin line.mapped /\ -l \notin tt
    BY <1>2, <1>3, <1>4, <1>6 DEF VarOf
  <2>3. WitnessSubst[-l] = IF l \in tt THEN SUBST_FF ELSE -l
    BY <2>1, <2>2 DEF WitnessSubst
  <2> QED
    BY <1>6, <2>1, <2>3 DEF MapLit
<1> QED
  BY <1>5, <1>6

(* The interval that the scan is given holds every clause with a touched     *)
(* literal.                                                                 *)
LEMMA TouchedInInterval ==
  ASSUME TypeOK, Touched \subseteq Lit,
         NEW fl \in [Lit -> [min : 0..formula_size, max : 0..formula_size]],
         NEW l \in Touched, NEW c \in Nat, Covers(fl[l], c)
  PROVE  FirstOf(fl) <= c /\ c <= LastOf(fl)
<1> DEFINE K == {k \in Touched : fl[k].min # 0}
           A == {1} \cup {fl[k].max : k \in K}
           B == {candidate} \cup {fl[k].min : k \in K}
<1>1. formula_size \in Nat \ {0} /\ candidate = formula_size
  BY LsrAssumption DEF TypeOK, candidate
<1>2. \A k \in K : fl[k].max \in 0..formula_size /\ fl[k].min \in 1..formula_size
  <2>1. \A k \in K : k \in Lit /\ fl[k].min # 0
    OBVIOUS
  <2>2. \A k \in Lit : fl[k].max \in 0..formula_size /\ fl[k].min \in 0..formula_size
    OBVIOUS
  <2> HIDE DEF K
  <2> QED
    BY <1>1, <2>1, <2>2
<1>3. A \in SUBSET Nat /\ A # {} /\ \A x \in A : x <= formula_size
  BY <1>1, <1>2
<1>4. B \in SUBSET Nat /\ B # {}
  BY <1>1, <1>2
<1>5. l \in K
  BY DEF Covers
<1>6. fl[l].max \in A /\ fl[l].min \in B
  BY <1>5
<1>7. /\ FirstOf(fl) = Min(B) /\ LastOf(fl) = Max(A)
      /\ fl[l].min \in Nat /\ fl[l].max \in Nat
      /\ fl[l].min <= c /\ c <= fl[l].max
  BY <1>2, <1>5 DEF FirstOf, LastOf, Covers
<1> HIDE DEF A, B, K
<1>8. Min(B) \in Nat /\ Min(B) <= fl[l].min
  BY <1>4, <1>6, MinExists
<1>9. Max(A) \in Nat /\ fl[l].max <= Max(A)
  BY <1>1, <1>3, <1>6, MaxExists
<1> QED
  BY <1>7, <1>8, <1>9

(* The substitution is in place: the scan starts at a clause that no clause  *)
(* with a touched literal precedes, and ends no sooner.                     *)
LEMMA AssumeSubstScanned ==
  ASSUME Bookkeeping, IntervalsCover, AssumeSubst
  PROVE  Scanned'
<1> USE DEF Bookkeeping
<1> DEFINE fl == [l \in Lit |-> IF l \in Touched THEN Refreshed(l) ELSE first_last[l]]
<1>1. /\ UNCHANGED <<formula, formula_size, deleted, line, candidate>>
      /\ line.clause # {} /\ subst' = WitnessSubst /\ first_last' = fl
      /\ max_clause' = LastOf(fl)
      /\ cursor' = IF FirstOf(fl) <= LastOf(fl) THEN FirstOf(fl) ELSE candidate
  BY DEF AssumeSubst, db, candidate
<1>2. Trusted' = Trusted /\ WitnessSubst' = WitnessSubst
  BY <1>1 DEF Trusted, Live, candidate, WitnessSubst
<1>3. line \in LineHead /\ LineShape(line)
  BY LsrAssumption DEF AssumeSubst, LineInProgress, Checking
<1>4. Touched \subseteq Lit
  BY <1>1, <1>3, TouchedType
<1>5. fl \in [Lit -> [min : 0..formula_size, max : 0..formula_size]]
  <2>1. \A l \in Lit : first_last[l] \in [min : 0..formula_size, max : 0..formula_size]
    BY DEF TypeOK
  <2> QED
    BY <2>1, RefreshedType
<1>6. IntervalsCover'
  BY AssumeSubstIntervals
<1> HIDE DEF fl
<1>7. FirstOf(fl) \in 1..formula_size /\ LastOf(fl) \in 1..formula_size
  BY <1>4, <1>5, LastOfType
<1>8. candidate = formula_size /\ formula_size \in Nat
  BY LsrAssumption DEF candidate, TypeOK
<1>9. cursor' \in 1..formula_size
  BY <1>1, <1>7, <1>8
<1>10. Ahead(candidate)'
  BY <1>1, <1>8, <1>9 DEF Ahead
<1>11. ASSUME NEW c \in Trusted
       PROVE  Untouched(c)' \/ Ahead(c)'
  <2>1. c \in Nat /\ formula[c] \subseteq Lit
    BY LsrAssumption DEF Trusted, Live, TypeOK, Slots
  <2>2. CASE formula[c] \cap Touched = {}
    <3>1. \A l \in formula[c] : MapLit(WitnessSubst, l) \in {l, SUBST_TT}
      BY <1>1, <1>3, <2>1, <2>2, UntouchedLiteral
    <3> QED
      BY <1>1, <3>1 DEF Untouched, SatisfiedBySubst, NotReduced, ImageOf, Image
  <2>3. CASE formula[c] \cap Touched # {}
    <3>1. PICK l \in Touched : l \in formula[c]
      BY <2>3
    <3>2. Covers(fl[l], c)
      BY <1>1, <1>2, <1>6, <3>1 DEF IntervalsCover, Covers
    <3>3. FirstOf(fl) <= c /\ c <= LastOf(fl)
      BY <1>4, <1>5, <2>1, <3>2, TouchedInInterval
    <3> QED
      BY <1>1, <1>7, <1>8, <2>1, <3>3 DEF Ahead
  <2> QED
    BY <2>2, <2>3
<1> QED
  BY <1>1, <1>2, <1>10, <1>11 DEF Scanned

-----------------------------------------------------------------------------
(***************************************************************************)
(* The loops.                                                               *)
(***************************************************************************)

(* A step of a loop may take from the clauses ahead only those it deals with. *)
LEMMA SameScan ==
  ASSUME Scanned, pc \in Looping,
         UNCHANGED <<formula, formula_size, deleted, line, subst>>,
         pc \in {"scan", "scanUp"} =>
           pc' \in {"scan", "scanUp"} /\ checked \subseteq checked',
         \A c \in Trusted \cup {candidate} : Ahead(c) =>
           \/ Ahead(c)' \/ Untouched(c)
           \/ (pc' \in {"scan", "scanUp"} /\ c \in checked')
  PROVE  Scanned'
<1>1. Trusted' = Trusted /\ WitnessSubst' = WitnessSubst /\ candidate' = candidate
  BY DEF Trusted, Live, candidate, WitnessSubst
<1>2. \A c : Untouched(c)' = Untouched(c)
  BY DEF Untouched, SatisfiedBySubst, NotReduced, ImageOf
<1> HIDE DEF Ahead, Untouched
<1>3. ASSUME NEW c \in Trusted \cup {candidate}
      PROVE  \/ Untouched(c)' \/ Ahead(c)'
             \/ (pc' \in {"scan", "scanUp"} /\ c \in checked')
  BY <1>2, <1>3 DEF Scanned
<1> QED
  BY <1>1, <1>3 DEF Scanned

(* The cursor moves past one clause only.                                    *)
LEMMA NextCursorAhead ==
  ASSUME TypeOK, LineInProgress, pc \in Looping, cursor' = NextCursor,
         UNCHANGED <<formula_size, max_clause>>,
         NEW c \in Trusted \cup {candidate}, Ahead(c), c # cursor
  PROVE  Ahead(c)'
<1>1. /\ candidate = formula_size /\ candidate' = candidate /\ formula_size \in Nat
      /\ cursor \in Nat /\ max_clause \in 0..formula_size
      /\ c \in Nat
  BY LsrAssumption DEF candidate, TypeOK, Trusted, Live
<1> QED
  BY <1>1 DEF Ahead, NextCursor

(* A passed clause was the one at the cursor, or one of those counted.        *)
LEMMA RATClausePassedScan ==
  ASSUME Bookkeeping, ScanInv, pc \in Looping, NEW d, RATClausePassed(d),
         pc \in {"hints", "hintsUp"} => d \in Occurrences(-line.pivot),
         pc \in {"scan", "scanUp"} => d = cursor
  PROVE  ScanInv'
<1> USE DEF Bookkeeping, ScanInv
<1>1. /\ UNCHANGED <<formula, formula_size, deleted, line, subst, max_clause, candidate>>
      /\ checked' = checked \cup {d}
  BY DEF RATClausePassed, db, candidate
<1>2. Trusted' = Trusted
  BY <1>1 DEF Trusted, Live, candidate
<1>3. CASE pc \in {"hints", "hintsUp"}
  <2>1. pc' = "hints" /\ UNCHANGED cursor
    BY <1>3 DEF RATClausePassed
  <2>2. Scanned'
    BY <1>1, <1>3, <2>1, SameScan DEF Ahead
  <2>3. Counted'
    BY <1>1, <1>2, <1>3, <2>1 DEF Counted, Occurrences
  <2> QED
    BY <1>1, <2>1, <2>2, <2>3 DEF NothingChecked
<1>4. CASE pc \in {"scan", "scanUp"}
  <2>1. pc' = "scan" /\ cursor' = NextCursor
    BY <1>4 DEF RATClausePassed
  <2>2. \A c \in Trusted \cup {candidate} : Ahead(c) => Ahead(c)' \/ c \in checked'
    BY <1>1, <1>4, <2>1, NextCursorAhead
  <2>3. Scanned'
    BY <1>1, <1>4, <2>1, <2>2, SameScan
  <2> QED
    BY <1>1, <2>1, <2>3 DEF NothingChecked, Counted
<1> QED
  BY <1>3, <1>4 DEF Looping

(* Assuming a negated RAT clause opens its group, or passes it at once.      *)
LEMMA AssumeNegatedRATClauseScan ==
  ASSUME Bookkeeping, ScanInv, NEW d, AssumeNegatedRATClause(d),
         \/ pc = "hints" /\ d = Group /\ d \in Occurrences(-line.pivot)
         \/ pc = "scan" /\ d = cursor
  PROVE  ScanInv'
<1>1. CASE RATClausePassed(d)
  BY <1>1, RATClausePassedScan DEF Looping
<1>2. CASE /\ pc' = IF pc = "hints" THEN "hintsUp" ELSE "scanUp"
           /\ UNCHANGED <<db, caches, max_line_id, alpha_generation, locals>>
  <2>1. UNCHANGED <<formula, formula_size, deleted, line, subst, max_clause,
                    cursor, position, checked, candidate>>
    BY <1>2 DEF db, locals, candidate
  <2>2. Trusted' = Trusted
    BY <2>1 DEF Trusted, Live, candidate
  <2>3. \A c : Ahead(c)' = Ahead(c)
    BY <2>1 DEF Ahead
  <2>4. Scanned'
    BY <1>2, <2>1, <2>3, SameScan DEF ScanInv, Looping
  <2>5. Counted'
    BY <1>2, <2>1, <2>2 DEF ScanInv, Counted, Occurrences, Group
  <2> QED
    BY <1>2, <2>1, <2>4, <2>5 DEF ScanInv, NothingChecked
<1> QED
  BY <1>1, <1>2 DEF AssumeNegatedRATClause

(* The clause that opens a hint group is one of those counted: a slot that   *)
(* is not filled has no literals, and the candidate has the pivot.          *)
LEMMA GroupCounted ==
  ASSUME Bookkeeping, ScanInv, CheckHintGroup
  PROVE  Group \in Occurrences(-line.pivot)
<1> USE DEF Bookkeeping, ScanInv
<1>1. /\ pc = "hints" /\ position \in DOMAIN line.groups
      /\ line.pivot \notin formula[Group] /\ -line.pivot \in formula[Group]
  BY DEF CheckHintGroup, ReducedByRATWitness, LineInProgress, TypeOK, LineHead
<1>2. /\ Group \in 1..(candidate + 1) \ deleted
      /\ line.clause = formula[candidate] /\ LineShape(line) /\ line.clause # {}
  BY <1>1, LsrAssumption DEF Group, LineInProgress, Checking, Scanned, Looping
<1>3. candidate = formula_size /\ formula_size \in Nat /\ formula_size <= MaxId
      /\ MaxId \in Nat
  BY LsrAssumption DEF candidate, TypeOK
<1>4. Group # candidate
  BY <1>1, <1>2 DEF LineShape
<1>5. Group # formula_size + 1
  <2>1. formula_size + 1 \in Slots
    BY <1>3 DEF Slots
  <2> QED
    BY <1>1, <1>3, <2>1 DEF NothingChecked
<1> HIDE DEF Group
<1>6. Group \in 1..formula_size \ deleted
  BY <1>2, <1>3, <1>5
<1> QED
  BY <1>1, <1>4, <1>6 DEF Occurrences, Trusted, Live

(* Nothing is checked, and no slot is filled, when the formula is parsed.     *)
LEMMA InitScan == Init => ScanInv
<1> SUFFICES ASSUME Init
             PROVE  ScanInv
  OBVIOUS
<1>1. /\ pc = "prepare" /\ checked = {} /\ formula_size = num_cnf_clauses
      /\ \A c \in Slots : c \notin CnfIds => formula[c] = {}
  BY DEF Init
<1>2. \A c \in Slots : c > formula_size => formula[c] = {}
  BY <1>1, LsrAssumption DEF CnfIds
<1> QED
  BY <1>1, <1>2 DEF ScanInv, NothingChecked, Scanned, Counted, Looping

(* Every step of the checker keeps the invariant of the loops.                *)
LEMMA ScanStep ==
  ASSUME Bookkeeping, IntervalsCover, ScanInv, [Next]_vars
  PROVE  ScanInv'
<1> USE DEF Bookkeeping, ScanInv
<1>1. ASSUME UNCHANGED <<formula, formula_size>>, pc' \notin Looping,
             pc' \in {"FATAL", "CRASH", "UNSAT", "VALID"} \/ checked' = {}
      PROVE  ScanInv'
  BY <1>1 DEF NothingChecked, Scanned, Counted, Looping
<1>2. CASE UNCHANGED vars
  <2>1. UNCHANGED <<pc, formula, formula_size, deleted, line, subst, max_clause,
                    cursor, position, checked, candidate>>
    BY <1>2 DEF vars, db, locals, candidate
  <2>2. Trusted' = Trusted
    BY <2>1 DEF Trusted, Live, candidate
  <2>3. \A c : Ahead(c)' = Ahead(c)
    BY <2>1 DEF Ahead
  <2>4. Scanned'
    <3>1. CASE pc \in Looping
      BY <2>1, <2>3, <3>1, SameScan
    <3>2. CASE pc \notin Looping
      BY <2>1, <3>2 DEF Scanned
    <3> QED
      BY <3>1, <3>2
  <2>5. Counted'
    BY <2>1, <2>2 DEF Counted, Occurrences, Group
  <2> QED
    BY <2>1, <2>4, <2>5 DEF NothingChecked
<1>3. CASE Prepare \/ PrepareReadsDeleted \/ EndOfProof
  BY <1>1, <1>3
  DEF Prepare, PrepareReadsDeleted, EndOfProof, db, locals, Looping, NothingChecked
<1>4. ASSUME NEW line_id, NEW l, NEW c,
             \/ DeleteClause(line_id, c) \/ DeletePending(line_id)
             \/ EmptyDeletion(line_id) \/ GlobalUnit(line_id, l, c)
      PROVE  ScanInv'
  <2>1. UNCHANGED <<formula, formula_size, checked>> /\ pc' \in {"read", "CRASH"}
        /\ pc = "read"
    BY <1>4 DEF DeleteClause, DeletePending, EmptyDeletion, GlobalUnit, db, locals
  <2> QED
    BY <1>1, <2>1 DEF Looping, NothingChecked
<1>5. ASSUME NEW line_id, NEW l, NEW c,
             \/ RefuseDeletion(line_id, c) \/ DeleteTwice(line_id, c)
             \/ RefuseGlobalUnit(line_id, l, c) \/ RefuseLine(line_id)
             \/ UselessHint(c)
             \/ RefuseWitness \/ RefuseHintGroup \/ RefuseRATClause
             \/ RATClauseNotRefuted
      PROVE  ScanInv'
  <2>1. UNCHANGED <<formula, formula_size>> /\ pc' \in {"FATAL", "CRASH"}
    BY <1>5
    DEF RefuseDeletion, DeleteTwice, RefuseGlobalUnit, RefuseLine, UselessHint,
        RefuseWitness, RefuseHintGroup, RefuseRATClause, RATClauseNotRefuted, Fatal, db
  <2> QED
    BY <1>1, <2>1 DEF Looping
<1>6. ASSUME NEW id \in Ids, NEW ln \in ProofLines, AddLine(id, ln)
      PROVE  ScanInv'
  <2>1. /\ pc = "read" /\ pc' = "assume" /\ UNCHANGED checked
        /\ formula' = [formula EXCEPT ![id] = ln.clause] /\ formula_size' = id
    BY <1>6 DEF AddLine
  <2>2. id > formula_size /\ id \in Nat /\ formula_size \in Nat
    BY <1>6, LsrAssumption DEF AddLine, LineAccepted, TypeOK, Ids
  <2>3. \A c \in Slots : c > id => formula'[c] = {}
    BY <2>1, <2>2, LsrAssumption DEF NothingChecked, TypeOK, Slots
  <2> QED
    BY <2>1, <2>3 DEF NothingChecked, Scanned, Counted, Looping
<1>7. ASSUME NEW h, CandidateSatisfied \/ RefutedByHint(h)
                     \/ HintGroupsSuffice \/ ScanComplete
      PROVE  ScanInv'
  <2>1. PICK gen : FinishLine(gen)
    BY <1>7 DEF CandidateSatisfied, RefutedByHint, HintGroupsSuffice, ScanComplete
  <2> QED
    BY <1>1, <2>1 DEF FinishLine, db, Looping
<1>8. CASE AssumeNegatedCandidate
  BY <1>1, <1>8 DEF AssumeNegatedCandidate, db, Looping, NothingChecked
<1>9. ASSUME NEW h, NEW l, UnitHint(h, l)
      PROVE  ScanInv'
  <2>1. UNCHANGED <<pc, formula, formula_size, deleted, line, subst, max_clause,
                    cursor, position, checked, candidate>>
    BY <1>9 DEF UnitHint, db, locals, candidate
  <2>2. Trusted' = Trusted
    BY <2>1 DEF Trusted, Live, candidate
  <2>3. \A c : Ahead(c)' = Ahead(c)
    BY <2>1 DEF Ahead
  <2>4. Scanned'
    <3>1. CASE pc \in Looping
      BY <2>1, <2>3, <3>1, SameScan
    <3>2. CASE pc \notin Looping
      BY <2>1, <3>2 DEF Scanned
    <3> QED
      BY <3>1, <3>2
  <2>5. Counted'
    BY <2>1, <2>2 DEF Counted, Occurrences, Group
  <2> QED
    BY <2>1, <2>4, <2>5 DEF NothingChecked
<1>10. CASE AssumeSubst
  <2>1. /\ UNCHANGED <<formula, formula_size, line, checked>> /\ checked = {}
        /\ pc' \in Looping \ {"hintsUp"} /\ (pc' = "hints" => ~line.explicit)
    BY <1>10 DEF AssumeSubst, db, NothingChecked, Looping
  <2>2. Scanned'
    BY <1>10, AssumeSubstScanned
  <2> QED
    BY <2>1, <2>2 DEF NothingChecked, Counted, Looping
<1>11. CASE CheckHintGroup
  <2>1. pc = "hints" /\ AssumeNegatedRATClause(Group)
    BY <1>11 DEF CheckHintGroup
  <2> QED
    BY <1>11, <2>1, GroupCounted, AssumeNegatedRATClauseScan
<1>12. CASE HintGroupsMissing
  <2>1. /\ UNCHANGED <<formula, formula_size, deleted, line, subst, max_clause,
                       cursor, candidate>>
        /\ pc = "hints" /\ pc' = "scan"
    BY <1>12 DEF HintGroupsMissing, db, candidate
  <2>2. Scanned'
    BY <2>1, SameScan DEF Looping, Ahead
  <2> QED
    BY <2>1, <2>2 DEF NothingChecked, Counted
<1>13. CASE SkipClause
  <2>1. /\ UNCHANGED <<formula, formula_size, deleted, line, subst, max_clause,
                       checked, candidate>>
        /\ pc = "scan" /\ pc' = "scan" /\ cursor' = NextCursor
    BY <1>13 DEF SkipClause, db, candidate
  <2>2. cursor \in Trusted \cup {candidate} => Untouched(cursor)
    <3>1. candidate \notin deleted /\ Trusted \cap deleted = {}
      BY <2>1 DEF LineInProgress, Checking, Trusted, Live
    <3> QED
      BY <1>13, <3>1 DEF SkipClause, Untouched
  <2>3. \A c \in Trusted \cup {candidate} : Ahead(c) => Ahead(c)' \/ Untouched(c)
    BY <2>1, <2>2, NextCursorAhead DEF Looping
  <2>4. Scanned'
    BY <2>1, <2>3, SameScan DEF Looping
  <2> QED
    BY <2>1, <2>4 DEF NothingChecked, Counted
<1>14. CASE CheckRATClause
  BY <1>14, AssumeNegatedRATClauseScan DEF CheckRATClause
<1>15. ASSUME NEW h, RATClauseRefuted(h)
       PROVE  ScanInv'
  <2>1. pc \in {"hintsUp", "scanUp"} /\ RATClausePassed(RATClause)
    BY <1>15 DEF RATClauseRefuted
  <2>2. RATClause = IF pc = "hintsUp" THEN Group ELSE cursor
    BY DEF RATClause, Group
  <2>3. pc = "hintsUp" => Group \in Occurrences(-line.pivot)
    BY DEF Counted
  <2> QED
    BY <2>1, <2>2, <2>3, RATClausePassedScan DEF Looping
<1> QED
  BY <1>2, <1>3, <1>4, <1>5, <1>6, <1>7, <1>8, <1>9, <1>10, <1>11, <1>12, <1>13,
     <1>14, <1>15
  DEF Next, ReadLine, CheckLine, Exited

-----------------------------------------------------------------------------
(***************************************************************************)
(* What the loops are for.                                                  *)
(***************************************************************************)

(* When as many groups were checked as the negated pivot has occurrences,    *)
(* they are all the clauses that a line without a witness can break.        *)
LEMMA GroupsCoverFormula ==
  ASSUME Bookkeeping, ScanInv, pc = "hints", AllGroupsChecked,
         NEW c \in Trusted \cup {candidate}
  PROVE  Untouched(c) \/ c \in checked
<1> USE DEF Bookkeeping, ScanInv
<1>1. /\ line.clause # {} /\ subst = WitnessSubst /\ ~line.explicit
      /\ checked \subseteq Occurrences(-line.pivot)
      /\ line.clause = formula[candidate] /\ line \in LineHead /\ LineShape(line)
  BY LsrAssumption DEF Scanned, Looping, Counted, LineInProgress, Checking
<1>2. line.pivot \in Lit /\ line.pivot \in line.clause /\ -line.pivot \in Lit
  BY <1>1, Literals DEF LineHead, LineShape
<1>3. checked = Occurrences(-line.pivot)
  <2>1. IsFiniteSet(Occurrences(-line.pivot))
    BY <1>2, OccurrencesFinite
  <2>2. Cardinality(checked) = Cardinality(Occurrences(-line.pivot))
    BY <1>2 DEF AllGroupsChecked, OccurrencesExact, Occurrences
  <2> QED
    BY <1>1, <2>1, <2>2, FS_Subset
<1>4. formula[c] \subseteq Lit
  <2>1. c \in Slots
    BY LsrAssumption DEF TypeOK, Trusted, Live, candidate, Slots
  <2> QED
    BY <2>1 DEF TypeOK
<1>5. CASE line.pivot \in formula[c]
  <2>1. MapLit(subst, line.pivot) = SUBST_TT
    <3>1. line.tt = {} /\ line.mapped = {}
      BY <1>1 DEF LineShape
    <3>2. line.pivot \in Int /\ -SUBST_FF = SUBST_TT
      <4>1. SUBST_TT \in Int
        BY VarAssumption
      <4>2. -SUBST_FF = SUBST_TT
        BY <4>1 DEF SUBST_FF
      <4> QED
        BY <1>2, <4>2, Literals
    <3>3. (line.pivot > 0 /\ line.pivot \in Var) \/ (~(line.pivot > 0) /\ -line.pivot \in Var)
      BY <1>2, Literals DEF VarOf
    <3>4. -line.pivot # line.pivot
      BY <1>2, <3>2, Literals
    <3> QED
      BY <1>1, <3>1, <3>2, <3>3, <3>4 DEF WitnessSubst, MapLit
  <2> QED
    BY <1>5, <2>1 DEF Untouched, SatisfiedBySubst, ImageOf, Image
<1>6. CASE -line.pivot \in formula[c] /\ c \in Trusted
  BY <1>3, <1>6 DEF Occurrences
<1>7. CASE line.pivot \notin formula[c] /\ -line.pivot \notin formula[c]
  <2>1. ASSUME NEW l \in formula[c]
        PROVE  MapLit(subst, l) = l
    <3>1. l \in Lit
      BY <1>4
    <3>2. l \notin Touched
      <4>1. line.tt = {} /\ line.mapped = {}
        BY <1>1 DEF LineShape
      <4> QED
        BY <1>7, <4>1 DEF Touched
    <3>3. MapLit(subst, l) = IF l \in line.tt \cup {line.pivot} THEN SUBST_TT ELSE l
      BY <1>1, <3>1, <3>2, UntouchedLiteral
    <3>4. l \notin line.tt \cup {line.pivot}
      BY <1>1, <1>7 DEF LineShape
    <3> QED
      BY <3>3, <3>4
  <2> QED
    BY <2>1 DEF Untouched, NotReduced
<1>8. c = candidate => line.pivot \in formula[c]
  BY <1>1, <1>2
<1> QED
  BY <1>5, <1>6, <1>7, <1>8

(* Where a line may be accepted for its witness, no clause is left out.      *)
LEMMA AcceptedLineCovers ==
  ASSUME Bookkeeping, ScanInv, NEW c \in Trusted \cup {candidate},
         \/ pc = "scan" /\ cursor > candidate
         \/ pc = "hints" /\ AllGroupsChecked
  PROVE  Untouched(c) \/ c \in checked
<1>1. CASE pc = "scan" /\ cursor > candidate
  <2>1. ~Ahead(c)
    BY <1>1, LsrAssumption DEF Ahead, Bookkeeping, TypeOK, candidate
  <2> QED
    BY <1>1, <2>1 DEF ScanInv, Scanned, Looping
<1>2. CASE pc = "hints" /\ AllGroupsChecked
  BY <1>2, GroupsCoverFormula
<1> QED
  BY <1>1, <1>2

(* A line is accepted for its witness only when every clause that may be     *)
(* cited, and the candidate, is satisfied or left alone by it, or had its   *)
(* hint group checked: by the scan, or by the count of the groups.          *)
THEOREM WitnessScanCorrect == Spec => []WitnessCoversFormula
<1> DEFINE IInv == Bookkeeping /\ IntervalsCover /\ ScanInv
<1>1. Init => IInv
  BY InitBookkeeping, InitIntervals, InitScan
<1>2. IInv /\ [Next]_vars => IInv'
  BY TypeStep, LineStep, OccurrencesStep, IntervalsStep, ScanStep DEF Bookkeeping
<1>3. IInv => WitnessCoversFormula
  BY AcceptedLineCovers DEF WitnessCoversFormula, Untouched
<1> QED
  BY <1>1, <1>2, <1>3, PTL DEF Spec

-----------------------------------------------------------------------------
(***************************************************************************)
(* The steps of the checker, told apart by what they do to the clauses, the *)
(* assignment and the locals of check_line().                               *)
(***************************************************************************)
Scanning == pc \in {"scan", "scanUp"}

(* The RAT clause of the current turn of either loop.                       *)
Current == IF pc \in {"hints", "hintsUp"} THEN Group ELSE cursor

(* The clause is one the loop may look at.                                  *)
AtClause ==
  \/ pc = "hints" /\ position <= Len(line.groups) /\ ReducedByRATWitness(Group)
  \/ pc = "scan" /\ cursor <= candidate /\ HasGroup(cursor)

Quiet == UNCHANGED <<pc, db, assignment, locals>>

Stops ==
  /\ pc \notin Final /\ pc' \in Final \ {"UNSAT"}
  /\ UNCHANGED <<db, assignment, locals>>

Deletes ==
  /\ pc = "read" /\ pc' \in {"read", "CRASH"}
  /\ \E c : /\ \/ c \in Live /\ (LateDeletions \/ NoGlobalUnits)
               \/ c = formula_size + 1
            /\ deleted' = deleted \cup {c}
  /\ UNCHANGED <<formula, formula_size, assignment, locals>>

Finishes ==
  \/ CandidateSatisfied
  \/ \E h \in Slots : RefutedByHint(h)
  \/ HintGroupsSuffice
  \/ ScanComplete

Opens ==
  /\ AtClause /\ ~TriviallyRefuted(Current)
  /\ alpha' = SetLits(NegatedImage(Current), alpha_generation)
  /\ pc' = IF pc = "hints" THEN "hintsUp" ELSE "scanUp"
  /\ UNCHANGED <<db, alpha_generation, locals>>

Passes ==
  /\ \/ AtClause /\ TriviallyRefuted(Current)
     \/ /\ pc \in {"hintsUp", "scanUp"}
        /\ \E h \in Slots : Hint(h) /\ Contradiction(formula[h])
  /\ RATClausePassed(Current)
  /\ UNCHANGED alpha

(* The turns of check_line() that assume nothing and deal with no clause.    *)
Turns == HintGroupsMissing \/ SkipClause \/ AssumeSubst

(* Every step is one of these.                                              *)
LEMMA StepKinds ==
  ASSUME [Next]_vars
  PROVE  \/ Quiet \/ Stops \/ Prepare \/ Deletes
         \/ \E line_id \in Ids, l \in Lit, c \in Slots : GlobalUnit(line_id, l, c)
         \/ \E id \in Ids, ln \in ProofLines : AddLine(id, ln)
         \/ \E h \in Slots, l \in Lit : UnitHint(h, l)
         \/ AssumeNegatedCandidate \/ Finishes \/ Opens \/ Passes \/ Turns
<1>1. ASSUME Fatal, pc \notin Final
      PROVE  Stops
  BY <1>1 DEF Fatal, Stops, Final
<1>2. CASE UNCHANGED vars
  BY <1>2 DEF vars, Quiet
<1>3. CASE PrepareReadsDeleted \/ EndOfProof
  BY <1>3 DEF PrepareReadsDeleted, EndOfProof, Stops, Final
<1>4. \A line_id, c :
        /\ DeleteClause(line_id, c) \/ DeletePending(line_id) => Deletes
        /\ EmptyDeletion(line_id) => Quiet
        /\ DeleteTwice(line_id, c) => Stops
  <2> TAKE line_id, c
  <2>1. DeleteClause(line_id, c) => Deletes
    BY DEF DeleteClause, Deletable, Deletes
  <2>2. DeletePending(line_id) => Deletes
    BY DEF DeletePending, Deletes
  <2>3. EmptyDeletion(line_id) => Quiet
    BY DEF EmptyDeletion, Quiet
  <2>4. DeleteTwice(line_id, c) => Stops
    BY DEF DeleteTwice, Stops, Final
  <2> QED
    BY <2>1, <2>2, <2>3, <2>4
<1>5. \A line_id, l, c :
        /\ RefuseDeletion(line_id, c) => Stops
        /\ RefuseGlobalUnit(line_id, l, c) => Stops
        /\ RefuseLine(line_id) => Stops
        /\ UselessHint(c) => Stops
        /\ RefuseWitness \/ RefuseHintGroup \/ RefuseRATClause \/ RATClauseNotRefuted
             => Stops
  BY <1>1
  DEF RefuseDeletion, RefuseGlobalUnit, RefuseLine, UselessHint, RefuseWitness,
      RefuseHintGroup, RefuseRATClause, RATClauseNotRefuted, UpPoint, Final
<1>6. CASE CheckHintGroup \/ CheckRATClause
  <2>1. AtClause /\ AssumeNegatedRATClause(Current)
    BY <1>6 DEF CheckHintGroup, CheckRATClause, AtClause, Current
  <2> QED
    BY <2>1 DEF AssumeNegatedRATClause, Opens, Passes
<1>7. ASSUME NEW h \in Slots, RATClauseRefuted(h)
      PROVE  Passes
  <2>1. RATClause = Current
    BY <1>7 DEF RATClauseRefuted, RATClause, Current, Group
  <2> QED
    BY <1>7, <2>1 DEF RATClauseRefuted, Passes
<1>8. CASE CheckLine
  <2>1. CandidateSatisfied \/ HintGroupsSuffice \/ ScanComplete => Finishes
    BY DEF Finishes
  <2>2. \A h \in Slots : RefutedByHint(h) => Finishes
    BY DEF Finishes
  <2> QED
    BY <1>5, <1>6, <1>7, <1>8, <2>1, <2>2 DEF CheckLine, Turns
<1>9. CASE ReadLine
  BY <1>4, <1>5, <1>9 DEF ReadLine
<1> QED
  BY <1>2, <1>3, <1>8, <1>9 DEF Next, Exited

-----------------------------------------------------------------------------
(***************************************************************************)
(* The invariant.  The clauses that may be cited are no tautologies and, but *)
(* for the candidate, not empty; the loops deal with each clause once, and   *)
(* every clause they deal with opens a hint group; so the generations set    *)
(* aside for the groups are never used up.                                  *)
(***************************************************************************)
PlainClauses ==
  /\ \A c \in Live : ~Tautology(formula[c])
  /\ pc \notin Final =>
       \A c \in Live : formula[c] = {} => c = candidate /\ pc \in Checking

GroupsVisited ==
  /\ pc \in {"hints", "hintsUp"} =>
       /\ position <= Len(line.groups) + 1
       /\ \A k \in DOMAIN line.groups : k < position => line.groups[k] \in checked
  /\ Scanning =>
       /\ \A c \in checked : HasGroup(c) /\ c < cursor
       /\ ~line.explicit => \E c \in Occurrences(-line.pivot) : ~HasGroup(c)
  /\ pc = "scanUp" => HasGroup(cursor)

Budgeted == pc \in {"up", "hints", "hintsUp"} \/ (Scanning /\ line.explicit)

GroupsLeft ==
  IF Scanning THEN Len(line.groups) - Cardinality(checked)
  ELSE IF pc = "up" THEN Len(line.groups) ELSE Len(line.groups) + 1 - position

Even(n) == n % 2 = 0

StampsBelow(gen) == \A v \in Var : alpha[v] < gen \/ alpha[v] >= GLOBAL_GEN

Generations ==
  /\ Even(alpha_generation) /\ Even(cc_gen)
  /\ pc \in {"prepare", "read", "assume"} =>
       alpha_generation < GLOBAL_GEN /\ StampsBelow(LineGeneration)
  /\ pc = "assume" => CandidateGeneration < GLOBAL_GEN
  /\ Budgeted =>
       /\ cc_gen < GLOBAL_GEN /\ StampsBelow(cc_gen + GEN_INC)
       /\ GroupsLeft >= 0 /\ alpha_generation + GEN_INC * GroupsLeft = cc_gen

GenerationInv == PlainClauses /\ GroupsVisited /\ Generations

CheckerInv == Bookkeeping /\ IntervalsCover /\ ScanInv

-----------------------------------------------------------------------------
(***************************************************************************)
(* The clauses.                                                             *)
(***************************************************************************)

(* parse_cnf() deletes the tautologies, and no clause of the file is empty.  *)
LEMMA InitPlain == Init => PlainClauses
<1> SUFFICES ASSUME Init
             PROVE  PlainClauses
  OBVIOUS
<1>1. PICK cnf \in CNFs : Init!(cnf)
  BY DEF Init
<1>2. cnf \in [CnfIds -> (SUBSET Lit) \ {{}}]
  BY LsrAssumption
<1>3. ASSUME NEW c \in Live
      PROVE  ~Tautology(formula[c]) /\ formula[c] # {}
  <2>1. c \in CnfIds /\ c \in Slots /\ c \notin deleted
    BY <1>1, LsrAssumption DEF Live, CnfIds, Slots
  <2>2. formula[c] = cnf[c]
    BY <1>1, <2>1
  <2> QED
    BY <1>1, <1>2, <2>1, <2>2
<1> QED
  BY <1>3 DEF PlainClauses

(* A clause is added without a tautology; an empty one ends the run.         *)
LEMMA PlainStep ==
  ASSUME Bookkeeping, PlainClauses, [Next]_vars
  PROVE  PlainClauses'
<1> USE DEF Bookkeeping
<1>1. ASSUME UNCHANGED <<formula, formula_size>>, Live' \subseteq Live,
             pc' \in Final \/ pc' = pc \/ {pc, pc'} \subseteq Checking
               \/ (pc \in Checking /\ formula[candidate] # {})
      PROVE  PlainClauses'
  <2>1. candidate' = candidate
    BY <1>1 DEF candidate
  <2> QED
    BY <1>1, <2>1 DEF PlainClauses, Checking, Final
<1>2. UNCHANGED db => UNCHANGED <<formula, formula_size>> /\ Live' = Live
  BY DEF db, Live
<1>3. CASE Quiet \/ Stops
  BY <1>1, <1>2, <1>3 DEF Quiet, Stops
<1>4. CASE Prepare
  <2>1. pc = "prepare" /\ pc' = "read" /\ UNCHANGED db
    BY <1>4 DEF Prepare
  <2> QED
    BY <1>2, <2>1 DEF PlainClauses, Final, Checking
<1>5. CASE Deletes
  <2>1. Live' \subseteq Live
    BY <1>5 DEF Deletes, Live
  <2> QED
    BY <1>1, <1>5, <2>1 DEF Deletes, Final
<1>6. ASSUME NEW line_id, NEW l, NEW c, GlobalUnit(line_id, l, c)
      PROVE  PlainClauses'
  BY <1>1, <1>2, <1>6 DEF GlobalUnit
<1>7. ASSUME NEW id \in Ids, NEW ln \in ProofLines, AddLine(id, ln)
      PROVE  PlainClauses'
  <2>1. /\ formula' = [formula EXCEPT ![id] = ln.clause] /\ formula_size' = id
        /\ deleted' = deleted \cup ((formula_size + 1)..(id - 1))
        /\ candidate' = id /\ pc' = "assume" /\ pc = "read"
    BY <1>7 DEF AddLine, Fillers, candidate
  <2>2. id > formula_size /\ id \in Nat /\ formula_size \in Nat /\ id \in Slots
    BY <1>7, LsrAssumption DEF AddLine, LineAccepted, TypeOK, Ids, Slots
  <2>3. formula'[id] = ln.clause /\ ~Tautology(ln.clause)
    BY <1>7, <2>1, <2>2 DEF TypeOK, AddLine, LineAccepted, ParserAccepts
  <2>4. ASSUME NEW c \in Live', c # id
        PROVE  c \in Live /\ formula'[c] = formula[c]
    BY <2>1, <2>2, <2>4, LsrAssumption DEF Live, TypeOK, Slots
  <2> QED
    BY <2>1, <2>3, <2>4 DEF PlainClauses, Checking, Final
<1>8. ASSUME NEW h, NEW l, UnitHint(h, l)
      PROVE  PlainClauses'
  BY <1>1, <1>2, <1>8 DEF UnitHint
<1>9. CASE AssumeNegatedCandidate \/ Opens \/ Passes \/ Turns
  <2>1. {pc, pc'} \subseteq Checking /\ UNCHANGED db
    BY <1>9 DEF AssumeNegatedCandidate, Opens, Passes, Turns, AtClause,
                RATClausePassed, HintGroupsMissing, SkipClause, AssumeSubst, Checking
  <2> QED
    BY <1>1, <1>2, <2>1
<1>10. CASE Finishes
  <2>1. PICK gen : FinishLine(gen) /\ pc \in Checking
    BY <1>10 DEF Finishes, CandidateSatisfied, RefutedByHint, HintGroupsSuffice,
                 ScanComplete, Checking
  <2>2. formula[candidate] = line.clause
    BY <2>1 DEF LineInProgress
  <2> QED
    BY <1>1, <1>2, <2>1, <2>2 DEF FinishLine, Final
<1> QED
  BY <1>3, <1>4, <1>5, <1>6, <1>7, <1>8, <1>9, <1>10, StepKinds

-----------------------------------------------------------------------------
(***************************************************************************)
(* The hint groups.                                                         *)
(***************************************************************************)

(* The scan moves forward.                                                  *)
LEMMA NextCursorGrows ==
  ASSUME TypeOK, cursor <= candidate
  PROVE  NextCursor > cursor
BY LsrAssumption DEF TypeOK, NextCursor, candidate

(* When check_only_hints() counts fewer clauses than the negated pivot has   *)
(* occurrences, one of the occurrences opens no hint group of the line.     *)
LEMMA OccurrenceWithoutGroup ==
  ASSUME CheckerInv, GroupsVisited, HintGroupsMissing
  PROVE  \E c \in Occurrences(-line.pivot) : ~HasGroup(c)
<1> USE DEF CheckerInv, Bookkeeping, ScanInv
<1>1. /\ pc = "hints" /\ ~AllGroupsChecked /\ position > Len(line.groups)
      /\ checked \subseteq Occurrences(-line.pivot)
  BY DEF HintGroupsMissing, Counted
<1>2. line.pivot \in Lit
  <2>1. line.clause # {} /\ line \in LineHead /\ LineShape(line)
    BY <1>1, LsrAssumption DEF Scanned, Looping, LineInProgress, Checking
  <2> QED
    BY <2>1 DEF LineHead, LineShape
<1>3. lits_occurrences[-line.pivot] = Cardinality(Occurrences(-line.pivot))
  BY <1>1, <1>2, Literals DEF OccurrencesExact, Occurrences
<1>4. checked # Occurrences(-line.pivot)
  BY <1>1, <1>3 DEF AllGroupsChecked
<1>5. PICK c \in Occurrences(-line.pivot) : c \notin checked
  BY <1>1, <1>4
<1>6. ASSUME NEW k \in DOMAIN line.groups
      PROVE  line.groups[k] \in checked
  <2>1. line.groups \in Seq(Nat) /\ position \in Nat
    BY DEF TypeOK, LineHead
  <2>2. k < position
    BY <1>1, <2>1
  <2> QED
    BY <1>1, <2>2 DEF GroupsVisited
<1> QED
  BY <1>5, <1>6 DEF HasGroup, Range

(* Every step of the loops keeps the account of the groups.                  *)
LEMMA GroupsStep ==
  ASSUME CheckerInv, GroupsVisited, [Next]_vars
  PROVE  GroupsVisited'
<1> USE DEF CheckerInv, Bookkeeping, ScanInv
<1>1. ASSUME pc' \notin Looping
      PROVE  GroupsVisited'
  BY <1>1 DEF GroupsVisited, Looping, Scanning
<1>2. ASSUME UNCHANGED <<formula, formula_size, deleted, line>>
      PROVE  /\ \A l : Occurrences(l)' = Occurrences(l)
             /\ \A c : HasGroup(c)' = HasGroup(c)
             /\ candidate' = candidate
  <2>1. candidate' = candidate
    BY <1>2 DEF candidate
  <2>2. Trusted' = Trusted
    BY <1>2, <2>1 DEF Trusted, Live
  <2> QED
    BY <1>2, <2>1, <2>2 DEF Occurrences, HasGroup
<1>3. ASSUME UNCHANGED <<pc, db, locals>>
      PROVE  GroupsVisited'
  <2>1. UNCHANGED <<formula, formula_size, deleted, line, position, checked, cursor>>
    BY <1>3 DEF db, locals
  <2> QED
    BY <1>2, <1>3, <2>1 DEF GroupsVisited, Scanning
<1>4. ASSUME NEW h, NEW l, Quiet \/ UnitHint(h, l)
      PROVE  GroupsVisited'
  BY <1>3, <1>4 DEF Quiet, UnitHint
<1>5. CASE Stops \/ Prepare \/ Deletes \/ Finishes \/ AssumeNegatedCandidate
  BY <1>1, <1>5
  DEF Stops, Prepare, Deletes, Finishes, AssumeNegatedCandidate, CandidateSatisfied,
      RefutedByHint, HintGroupsSuffice, ScanComplete, FinishLine, Looping, Final
<1>6. ASSUME NEW line_id, NEW l, NEW c, NEW ln,
             GlobalUnit(line_id, l, c) \/ AddLine(line_id, ln)
      PROVE  GroupsVisited'
  BY <1>1, <1>6 DEF GlobalUnit, AddLine, Looping
<1>7. CASE AssumeSubst
  <2>1. /\ position' = 1 /\ checked' = {} /\ pc' = IF line.explicit THEN "scan" ELSE "hints"
        /\ UNCHANGED line
    BY <1>7 DEF AssumeSubst, NothingChecked
  <2>2. line.groups \in Seq(Nat)
    BY DEF TypeOK, LineHead
  <2>3. 1 <= Len(line.groups) + 1 /\ \A k \in DOMAIN line.groups : ~(k < 1)
    BY <2>2
  <2> QED
    BY <2>1, <2>3 DEF GroupsVisited, Scanning
<1>8. CASE HintGroupsMissing
  <2>1. /\ checked' = {} /\ pc' = "scan"
        /\ UNCHANGED <<formula, formula_size, deleted, line>>
    BY <1>8 DEF HintGroupsMissing, db
  <2> QED
    BY <1>2, <1>8, <2>1, OccurrenceWithoutGroup DEF GroupsVisited, Scanning
<1>9. CASE SkipClause
  <2>1. /\ pc = "scan" /\ pc' = "scan" /\ UNCHANGED checked /\ cursor' = NextCursor
        /\ UNCHANGED <<formula, formula_size, deleted, line>> /\ cursor <= candidate
    BY <1>9 DEF SkipClause, db
  <2>2. \A c \in checked : c < cursor'
    <3>1. cursor \in Nat /\ NextCursor \in Nat /\ checked \subseteq Nat
          /\ NextCursor > cursor
      BY <2>1, NextCursorGrows, NextCursorType, LsrAssumption DEF TypeOK, Slots
    <3> QED
      BY <2>1, <3>1 DEF GroupsVisited, Scanning
  <2> QED
    BY <1>2, <2>1, <2>2 DEF GroupsVisited, Scanning
<1>10. CASE Opens
  <2>1. /\ UNCHANGED <<formula, formula_size, deleted, line, position, checked, cursor>>
        /\ \/ pc = "hints" /\ pc' = "hintsUp"
           \/ pc = "scan" /\ pc' = "scanUp" /\ HasGroup(cursor)
    BY <1>10 DEF Opens, AtClause, db, locals
  <2> QED
    BY <1>2, <2>1 DEF GroupsVisited, Scanning
<1>11. CASE Passes
  <2>1. /\ UNCHANGED <<formula, formula_size, deleted, line>>
        /\ checked' = checked \cup {Current}
    BY <1>11 DEF Passes, RATClausePassed, db
  <2>2. CASE pc \in {"hints", "hintsUp"}
    <3>1. pc' = "hints" /\ position' = position + 1 /\ Group \in checked'
      BY <1>11, <2>1, <2>2 DEF Passes, RATClausePassed, Current
    <3>2. position \in Nat /\ position <= Len(line.groups) /\ line.groups \in Seq(Nat)
      BY <1>11, <2>2 DEF Passes, AtClause, LineInProgress, TypeOK, LineHead
    <3>3. ASSUME NEW k \in DOMAIN line.groups, k < position'
          PROVE  line.groups[k] \in checked'
      <4>1. k < position \/ k = position
        BY <3>1, <3>2, <3>3
      <4> QED
        BY <2>1, <2>2, <3>1, <4>1 DEF GroupsVisited, Group
    <3> QED
      BY <2>1, <3>1, <3>2, <3>3 DEF GroupsVisited, Scanning
  <2>3. CASE Scanning
    <3>1. pc' = "scan" /\ cursor' = NextCursor /\ checked' = checked \cup {cursor}
      BY <1>11, <2>1, <2>3 DEF Passes, RATClausePassed, Current, Scanning
    <3>2. HasGroup(cursor) /\ cursor <= candidate
      BY <1>11, <2>3 DEF Passes, AtClause, Scanning, GroupsVisited, LineInProgress
    <3>3. \A c \in checked' : c < cursor'
      <4>1. cursor \in Nat /\ NextCursor \in Nat /\ checked \subseteq Nat
            /\ NextCursor > cursor
        BY <3>2, NextCursorGrows, NextCursorType, LsrAssumption DEF TypeOK, Slots
      <4>2. \A c \in checked : c < cursor
        BY <2>3 DEF GroupsVisited
      <4> QED
        BY <3>1, <4>1, <4>2
    <3> QED
      BY <1>2, <2>1, <2>3, <3>1, <3>2, <3>3 DEF GroupsVisited, Scanning
  <2>4. pc \in Looping
    BY <1>11 DEF Passes, AtClause, Looping
  <2> QED
    BY <2>2, <2>3, <2>4 DEF Looping, Scanning
<1> QED
  BY <1>4, <1>5, <1>6, <1>7, <1>8, <1>9, <1>10, <1>11, StepKinds DEF Turns

-----------------------------------------------------------------------------
(***************************************************************************)
(* The scan of a line without a witness.                                    *)
(***************************************************************************)

(* The targets of a substitution are integers.                              *)
LEMMA Targets ==
  /\ Target \subseteq Int
  /\ -SUBST_TT = SUBST_FF /\ -SUBST_FF = SUBST_TT
  /\ \A m \in Target : -m \in Target
<1>1. SUBST_TT \in Int
  BY Literals
<1>2. -SUBST_TT = SUBST_FF /\ -SUBST_FF = SUBST_TT
  BY <1>1 DEF SUBST_FF
<1>3. Target \subseteq Int
  BY Literals DEF Target
<1>4. \A m \in Target : -m \in Target
  BY <1>2, Literals DEF Target
<1> QED
  BY <1>2, <1>3, <1>4

(* A substitution maps opposite literals to opposite targets.               *)
LEMMA MapLitOpposite ==
  ASSUME NEW s \in Substitution, NEW l \in Lit
  PROVE  MapLit(s, -l) = -MapLit(s, l)
<1>1. l \in Int /\ l # 0 /\ (l > 0 => l \in Var) /\ (~(l > 0) => -l \in Var)
  BY Literals DEF VarOf
<1>2. \A v \in Var : s[v] \in Int /\ -(-s[v]) = s[v]
  <2>1. \A v \in Var : s[v] \in Int
    BY Targets DEF Substitution
  <2>2. \A x \in Int : -(-x) = x
    OBVIOUS
  <2> QED
    BY <2>1, <2>2
<1>3. CASE l > 0
  <2>1. ~(-l > 0) /\ -(-l) = l
    BY <1>1, <1>3
  <2> QED
    BY <1>3, <2>1 DEF MapLit
<1>4. CASE ~(l > 0)
  <2>1. -l > 0
    BY <1>1, <1>4
  <2> QED
    BY <1>1, <1>2, <1>4, <2>1 DEF MapLit
<1> QED
  BY <1>3, <1>4

(* The witness satisfies the pivot, unless it maps its variable.             *)
LEMMA PivotImage ==
  ASSUME line \in LineHead, LineShape(line), line.clause # {},
         -line.pivot \notin line.tt, VarOf(line.pivot) \notin line.mapped
  PROVE  /\ MapLit(WitnessSubst, line.pivot) = SUBST_TT
         /\ MapLit(WitnessSubst, -line.pivot) = SUBST_FF
<1>1. line.pivot \in Lit /\ line.tt \subseteq Lit
  BY DEF LineHead, LineShape
<1>2. line.pivot \notin Touched
  <2>1. ASSUME NEW l \in line.tt \cup {line.pivot}, line.pivot = -l
        PROVE  FALSE
    <3>1. l \in Int /\ line.pivot # 0 /\ line.pivot \in Int
      BY <1>1, Literals
    <3>2. l # 0 /\ l = -line.pivot
      BY <2>1, <3>1
    <3> QED
      BY <2>1, <3>1, <3>2
  <2> QED
    BY <2>1 DEF Touched
<1>3. MapLit(WitnessSubst, line.pivot) = SUBST_TT
  BY <1>1, <1>2, UntouchedLiteral
<1> QED
  BY <1>1, <1>3, MapLitOpposite, WitnessSubstType, Targets

(* A clause with the negated pivot and no hint group stops the scan of a     *)
(* line without a witness, so such a scan never gets past the candidate.    *)
LEMMA FallThroughIncomplete ==
  ASSUME CheckerInv, PlainClauses, GroupsVisited, pc = "scan", cursor > candidate
  PROVE  line.explicit
<1> USE DEF CheckerInv, Bookkeeping, ScanInv
<1> SUFFICES ASSUME ~line.explicit
             PROVE  FALSE
  OBVIOUS
<1>1. PICK c \in Occurrences(-line.pivot) : c \notin checked
  BY DEF GroupsVisited, Scanning
<1>2. c \in Trusted /\ -line.pivot \in formula[c] /\ ~Tautology(formula[c])
  BY DEF Occurrences, Trusted, PlainClauses
<1>3. /\ line \in LineHead /\ LineShape(line) /\ ParserAccepts(line)
      /\ line.clause # {} /\ subst = WitnessSubst /\ line.tt = {} /\ line.mapped = {}
  BY LsrAssumption DEF LineInProgress, Checking, Scanned, Looping, LineShape
<1>4. line.pivot \in Lit /\ formula[c] \subseteq Lit
  BY <1>2, <1>3, LsrAssumption DEF LineHead, LineShape, Trusted, Live, TypeOK, Slots
<1>5. Untouched(c)
  <2>1. ~Ahead(c)
    BY LsrAssumption DEF Ahead, TypeOK, candidate
  <2> QED
    BY <1>1, <1>2, <2>1 DEF Scanned, Looping
<1>6. MapLit(subst, -line.pivot) = SUBST_FF
  BY <1>3, PivotImage
<1>7. ASSUME NEW l \in formula[c]
      PROVE  MapLit(subst, l) # SUBST_TT
  <2>1. CASE l = -line.pivot
    BY <1>6, <2>1, Literals
  <2>2. CASE l # -line.pivot
    <3>1. l # line.pivot
      BY <1>2, <1>4 DEF Tautology
    <3>2. l \in Lit \ Touched
      BY <1>3, <1>4, <2>2 DEF Touched
    <3>3. MapLit(subst, l) = l
      BY <1>3, <3>1, <3>2, UntouchedLiteral
    <3> QED
      BY <1>4, <3>3, Literals
  <2> QED
    BY <2>1, <2>2
<1>8. ~SatisfiedBySubst(c)
  BY <1>7 DEF SatisfiedBySubst, ImageOf, Image
<1>9. ~NotReduced(c)
  BY <1>2, <1>4, <1>6, Literals DEF NotReduced
<1> QED
  BY <1>5, <1>8, <1>9 DEF Untouched

(* Once check_only_hints() has given up, the line can only be refused.       *)
LEMMA FallThroughStep ==
  ASSUME CheckerInv, PlainClauses, GroupsVisited, [Next]_vars,
         Scanning, ~line.explicit
  PROVE  pc' \in {"scan", "scanUp", "FATAL"}
<1> USE DEF Scanning
<1>1. CASE UNCHANGED vars
  BY <1>1 DEF vars
<1>2. CASE ScanComplete
  BY <1>2, FallThroughIncomplete DEF ScanComplete
<1>3. CASE SkipClause \/ RefuseRATClause \/ RATClauseNotRefuted
  BY <1>3 DEF SkipClause, RefuseRATClause, RATClauseNotRefuted, Fatal
<1>4. CASE CheckRATClause
  BY <1>4 DEF CheckRATClause, AssumeNegatedRATClause, RATClausePassed
<1>5. ASSUME NEW h, NEW l, UnitHint(h, l) \/ UselessHint(h) \/ RATClauseRefuted(h)
      PROVE  pc' \in {"scan", "scanUp", "FATAL"}
  BY <1>5 DEF UnitHint, UselessHint, Fatal, RATClauseRefuted, RATClausePassed
<1> QED
  BY <1>1, <1>2, <1>3, <1>4, <1>5
  DEF Next, ReadLine, CheckLine, Exited, Final, Prepare, PrepareReadsDeleted,
      EndOfProof, DeleteClause, DeletePending, EmptyDeletion, RefuseDeletion,
      DeleteTwice, GlobalUnit, RefuseGlobalUnit, AddLine, RefuseLine,
      CandidateSatisfied, AssumeNegatedCandidate, RefutedByHint, AssumeSubst,
      RefuseWitness, CheckHintGroup, RefuseHintGroup, HintGroupsSuffice,
      HintGroupsMissing

-----------------------------------------------------------------------------
(***************************************************************************)
(* The generations.                                                         *)
(***************************************************************************)

(* Generations stay even.                                                   *)
LEMMA EvenSum ==
  ASSUME NEW m \in Nat, NEW n \in Nat, Even(m)
  PROVE  Even(m + 2 * n)
BY DEF Even

(* A loop passes no more clauses than the line has hint groups.              *)
LEMMA CheckedWithinGroups ==
  ASSUME TypeOK, NEW S, \A c \in S : HasGroup(c)
  PROVE  /\ IsFiniteSet(S) /\ Cardinality(S) \in Nat
         /\ Cardinality(S) <= Len(line.groups)
<1> DEFINE G == line.groups
<1>1. G \in Seq(Nat)
  BY DEF TypeOK, LineHead
<1>2. Len(G) \in Nat /\ DOMAIN G = 1..Len(G)
  BY <1>1
<1>3. G \in Surjection(1..Len(G), Range(G))
  BY <1>1, <1>2 DEF Surjection, Range
<1>4. IsFiniteSet(1..Len(G)) /\ Cardinality(1..Len(G)) = Len(G)
  BY <1>2, FS_Interval
<1>5. IsFiniteSet(Range(G)) /\ Cardinality(Range(G)) <= Len(G)
  <2> HIDE DEF G
  <2> QED
    BY <1>3, <1>4, FS_Surjection
<1>6. S \in SUBSET Range(G)
  BY DEF HasGroup
<1>7. IsFiniteSet(S) /\ Cardinality(S) <= Cardinality(Range(G))
  BY <1>5, <1>6, FS_Subset
<1>8. Cardinality(S) \in Nat /\ Cardinality(Range(G)) \in Nat
  BY <1>5, <1>7, FS_CardinalityType
<1> HIDE DEF G
<1>9. Cardinality(S) <= Len(G)
  BY <1>2, <1>5, <1>7, <1>8
<1> QED
  BY <1>7, <1>8, <1>9 DEF G

(* A stamp is of the generation it was made in, or of the next odd number.   *)
LEMMA StampsStep ==
  ASSUME alpha \in [Var -> Nat], NEW L, NEW gen \in Nat, alpha' = SetLits(L, gen),
         NEW bound \in Nat, StampsBelow(bound),
         gen + GEN_INC <= bound \/ gen >= GLOBAL_GEN
  PROVE  \A v \in Var : alpha'[v] < bound \/ alpha'[v] >= GLOBAL_GEN
<1> TAKE v \in Var
<1>1. alpha'[v] \in {alpha[v], gen, gen + 1}
  BY DEF SetLits, Stamp
<1>2. alpha[v] \in Nat /\ (alpha[v] < bound \/ alpha[v] >= GLOBAL_GEN)
  BY DEF StampsBelow
<1> QED
  BY <1>1, <1>2, LsrAssumption DEF GEN_INC

(* Generations older than a bound are older than a later one.                *)
LEMMA StampsMonotone ==
  ASSUME alpha \in [Var -> Nat], NEW a \in Nat, NEW b \in Nat, a <= b, StampsBelow(a)
  PROVE  StampsBelow(b)
<1> SUFFICES ASSUME NEW v \in Var
             PROVE  alpha[v] < b \/ alpha[v] >= GLOBAL_GEN
  BY DEF StampsBelow
<1>1. alpha[v] \in Nat /\ (alpha[v] < a \/ alpha[v] >= GLOBAL_GEN)
  BY DEF StampsBelow
<1> QED
  BY <1>1, LsrAssumption

(* Finishing a line takes the generation past everything it assumed.         *)
LEMMA FinishGenerations ==
  ASSUME CheckerInv, GenerationInv, Finishes
  PROVE  Generations'
<1> USE DEF CheckerInv, Bookkeeping, GenerationInv
<1>1. PICK gen \in {CandidateGeneration, cc_gen} :
        /\ FinishLine(gen) /\ UNCHANGED alpha
        /\ IF pc = "assume" THEN gen = CandidateGeneration
           ELSE gen = cc_gen /\ Budgeted
  BY FallThroughIncomplete
  DEF Finishes, CandidateSatisfied, RefutedByHint, HintGroupsSuffice, ScanComplete,
      Budgeted, Scanning
<1>2. alpha \in [Var -> Nat] /\ alpha_generation \in Nat /\ cc_gen \in Nat
      /\ Len(line.groups) \in Nat /\ GLOBAL_GEN \in Nat
  BY LsrAssumption DEF TypeOK, LineHead
<1>3. gen \in Nat /\ Even(gen) /\ gen < GLOBAL_GEN /\ StampsBelow(gen + GEN_INC)
  <2>1. CASE pc = "assume"
    <3>1. gen = alpha_generation + 2 + 2 * Len(line.groups) /\ Even(alpha_generation)
          /\ gen < GLOBAL_GEN /\ StampsBelow(alpha_generation + 2)
      BY <1>1, <2>1
      DEF Generations, CandidateGeneration, LineGeneration, GEN_INC
    <3>2. /\ gen \in Nat /\ gen = alpha_generation + 2 * (1 + Len(line.groups))
          /\ alpha_generation + 2 \in Nat /\ alpha_generation + 2 <= gen + GEN_INC
          /\ gen + GEN_INC \in Nat /\ 1 + Len(line.groups) \in Nat
      <4> DEFINE n == Len(line.groups)
      <4>1. n \in Nat /\ gen = alpha_generation + 2 + 2 * n
        BY <1>2, <3>1
      <4> HIDE DEF n
      <4>2. /\ gen \in Nat /\ gen = alpha_generation + 2 * (1 + n)
            /\ alpha_generation + 2 \in Nat /\ alpha_generation + 2 <= gen + 2
            /\ gen + 2 \in Nat /\ 1 + n \in Nat
        BY <1>2, <4>1
      <4> QED
        BY <4>2 DEF n, GEN_INC
    <3>3. Even(gen)
      BY <1>2, <3>1, <3>2, EvenSum
    <3> QED
      BY <1>2, <3>1, <3>2, <3>3, StampsMonotone
  <2>2. CASE pc # "assume"
    BY <1>1, <1>2, <2>2 DEF Generations
  <2> QED
    BY <2>1, <2>2
<1>4. /\ alpha_generation' = gen /\ cc_gen' = 0 /\ pc' \in {"read", "UNSAT"}
      /\ LineGeneration' = gen + GEN_INC /\ Even(0)
  BY <1>1 DEF FinishLine, LineGeneration, Even
<1>5. StampsBelow(LineGeneration)'
  BY <1>1, <1>3, <1>4 DEF StampsBelow
<1> QED
  BY <1>3, <1>4, <1>5 DEF Generations, Budgeted, Scanning, Even

(* Nothing is assigned when the formula is parsed.                          *)
LEMMA InitGenerations == Init => GroupsVisited /\ Generations
<1> SUFFICES ASSUME Init
             PROVE  GroupsVisited /\ Generations
  OBVIOUS
<1>1. /\ pc = "prepare" /\ alpha_generation = 0 /\ cc_gen = 0
      /\ \A v \in Var : alpha[v] = 0
  BY DEF Init
<1>2. StampsBelow(LineGeneration)
  <2>1. LineGeneration = 2
    BY <1>1 DEF LineGeneration, GEN_INC
  <2>2. ASSUME NEW v \in Var
        PROVE  alpha[v] < 2
    <3>1. alpha[v] = 0
      BY <1>1
    <3> QED
      BY <3>1
  <2> QED
    BY <2>1, <2>2 DEF StampsBelow
<1>3. 0 < GLOBAL_GEN /\ Even(0)
  BY LsrAssumption DEF Even
<1> QED
  BY <1>1, <1>2, <1>3 DEF GroupsVisited, Generations, Scanning, Budgeted

(* The groups left are counted by a natural number.                         *)
LEMMA GroupsLeftType ==
  ASSUME Bookkeeping, GroupsVisited, Generations, Budgeted
  PROVE  GroupsLeft \in Nat
<1>1. position \in Nat /\ Len(line.groups) \in Nat
  BY DEF Bookkeeping, TypeOK, LineHead
<1>2. Scanning => Cardinality(checked) \in Nat
  BY CheckedWithinGroups DEF Bookkeeping, GroupsVisited
<1> QED
  BY <1>1, <1>2 DEF Generations, GroupsLeft

(* An assignment of the line's own generations stays within its budget.      *)
LEMMA AssumeGenerations ==
  ASSUME Bookkeeping, GroupsVisited, Generations, NEW L,
         NEW gen \in {cc_gen, alpha_generation},
         alpha' = SetLits(L, gen), Budgeted, cc_gen' = cc_gen
  PROVE  StampsBelow(cc_gen + GEN_INC)'
<1>1. /\ alpha \in [Var -> Nat] /\ alpha_generation \in Nat /\ cc_gen \in Nat
      /\ StampsBelow(cc_gen + GEN_INC)
  BY DEF Bookkeeping, TypeOK, Generations
<1>2. GroupsLeft \in Nat
  BY GroupsLeftType
<1>3. gen + GEN_INC <= cc_gen + GEN_INC /\ cc_gen + GEN_INC \in Nat /\ gen \in Nat
  <2> DEFINE n == GroupsLeft
  <2>1. alpha_generation + 2 * n = cc_gen /\ n \in Nat
    BY <1>2 DEF Generations, GEN_INC
  <2> HIDE DEF n
  <2> QED
    BY <1>1, <2>1 DEF GEN_INC
<1>4. \A v \in Var : alpha'[v] < cc_gen + GEN_INC \/ alpha'[v] >= GLOBAL_GEN
  BY <1>1, <1>3, StampsStep
<1> QED
  BY <1>4 DEF StampsBelow

(* A clause of the loop takes one generation, and one of the groups left.    *)
LEMMA PassGenerations ==
  ASSUME CheckerInv, GenerationInv, Passes
  PROVE  Generations'
<1> USE DEF CheckerInv, Bookkeeping, GenerationInv
<1>1. /\ alpha_generation' = alpha_generation + 2 /\ UNCHANGED <<cc_gen, alpha, line>>
      /\ checked' = checked \cup {Current}
      /\ IF Scanning THEN pc' = "scan"
         ELSE pc' = "hints" /\ position' = position + 1
      /\ pc \in Looping
  BY DEF Passes, RATClausePassed, AtClause, GEN_INC, Looping, Scanning
<1>2. /\ alpha_generation \in Nat /\ cc_gen \in Nat /\ position \in Nat
      /\ line.groups \in Seq(Nat) /\ Len(line.groups) \in Nat
  BY DEF TypeOK, LineHead
<1>3. Even(alpha_generation')
  BY <1>1, <1>2, EvenSum DEF Generations
<1>4. ASSUME Budgeted'
      PROVE  /\ cc_gen' < GLOBAL_GEN /\ StampsBelow(cc_gen + GEN_INC)'
             /\ (GroupsLeft >= 0)'
             /\ (alpha_generation + GEN_INC * GroupsLeft = cc_gen)'
  <2>1. Budgeted
    BY <1>1, <1>4 DEF Budgeted, Scanning, Looping
  <2>2. GroupsLeft' = GroupsLeft - 1 /\ GroupsLeft' \in Nat /\ GroupsLeft \in Int
    <3>1. CASE Scanning
      <4>1. Current = cursor /\ HasGroup(cursor) /\ cursor \in Nat
        BY <3>1, LsrAssumption
        DEF Scanning, Current, Passes, AtClause, GroupsVisited, TypeOK
      <4>2. checked' = checked \cup {cursor} /\ cursor \notin checked
        BY <1>1, <3>1, <4>1 DEF GroupsVisited
      <4>3. \A c \in checked \cup {cursor} : HasGroup(c)
        BY <3>1, <4>1 DEF GroupsVisited
      <4>4. /\ IsFiniteSet(checked) /\ Cardinality(checked) \in Nat
            /\ Cardinality(checked') <= Len(line.groups) /\ Cardinality(checked') \in Nat
        BY <4>2, <4>3, CheckedWithinGroups
      <4>5. Cardinality(checked') = Cardinality(checked) + 1
        BY <4>2, <4>4, FS_AddElement
      <4>6. /\ GroupsLeft = Len(line.groups) - Cardinality(checked)
            /\ GroupsLeft' = Len(line.groups) - Cardinality(checked')
        BY <1>1, <3>1 DEF GroupsLeft, Scanning
      <4> QED
        BY <1>2, <4>4, <4>5, <4>6
    <3>2. CASE ~Scanning
      <4>1. position <= Len(line.groups)
        BY <1>1, <1>2, <3>2
        DEF Passes, AtClause, LineInProgress, Looping, Scanning
      <4>2. /\ GroupsLeft = Len(line.groups) + 1 - position
            /\ GroupsLeft' = Len(line.groups) + 1 - (position + 1)
        BY <1>1, <3>2 DEF GroupsLeft, Scanning, Looping
      <4> DEFINE n == Len(line.groups)
      <4>3. /\ n \in Nat /\ position <= n
            /\ GroupsLeft = n + 1 - position /\ GroupsLeft' = n + 1 - (position + 1)
        BY <1>2, <4>1, <4>2
      <4> HIDE DEF n
      <4> QED
        BY <1>2, <4>3
    <3> QED
      BY <3>1, <3>2
  <2>3. alpha_generation + 2 * GroupsLeft = cc_gen
    BY <2>1 DEF Generations, GEN_INC
  <2>4. alpha_generation' + 2 * GroupsLeft' = cc_gen /\ GroupsLeft' >= 0
    <3> DEFINE n == GroupsLeft
               m == GroupsLeft'
    <3>1. m = n - 1 /\ m \in Nat /\ n \in Int /\ alpha_generation + 2 * n = cc_gen
      BY <2>2, <2>3
    <3> HIDE DEF n, m
    <3>2. alpha_generation' + 2 * m = cc_gen /\ m >= 0
      BY <1>1, <1>2, <3>1
    <3> QED
      BY <3>2 DEF m
  <2>5. cc_gen < GLOBAL_GEN /\ StampsBelow(cc_gen + GEN_INC)
    BY <2>1 DEF Generations
  <2>6. StampsBelow(cc_gen + GEN_INC)'
    BY <1>1, <2>5 DEF StampsBelow
  <2> QED
    BY <1>1, <2>4, <2>5, <2>6 DEF GEN_INC
<1>5. pc' \in {"hints", "scan"}
  BY <1>1
<1> QED
  BY <1>1, <1>3, <1>4, <1>5 DEF Generations

(* Every step keeps the generations apart.                                  *)
LEMMA GenerationsStep ==
  ASSUME CheckerInv, GenerationInv, [Next]_vars
  PROVE  Generations'
<1> USE DEF CheckerInv, Bookkeeping, GenerationInv
<1>1. /\ alpha \in [Var -> Nat] /\ alpha_generation \in Nat /\ cc_gen \in Nat
      /\ line.groups \in Seq(Nat) /\ Len(line.groups) \in Nat
      /\ GLOBAL_GEN \in Nat /\ Even(GLOBAL_GEN)
  BY LsrAssumption DEF TypeOK, LineHead, Even
<1>2. ASSUME UNCHANGED <<alpha, alpha_generation, cc_gen, line, position, checked>>,
             \/ pc' = pc \/ pc' \in Final
             \/ pc \in {"prepare", "read"} /\ pc' = "read"
             \/ pc = "hints" /\ ~line.explicit /\ pc' = "scan"
      PROVE  Generations'
  <2>1. LineGeneration' = LineGeneration /\ CandidateGeneration' = CandidateGeneration
    BY <1>2 DEF LineGeneration, CandidateGeneration
  <2>2. StampsBelow(LineGeneration)' = StampsBelow(LineGeneration)
        /\ StampsBelow(cc_gen + GEN_INC)' = StampsBelow(cc_gen + GEN_INC)
    BY <1>2, <2>1 DEF StampsBelow
  <2>3. Budgeted' => Budgeted /\ GroupsLeft' = GroupsLeft
    BY <1>2 DEF Budgeted, GroupsLeft, Scanning, Final
  <2>4. Even(alpha_generation)' = Even(alpha_generation) /\ Even(cc_gen)' = Even(cc_gen)
    BY <1>2
  <2> QED
    BY <1>2, <2>1, <2>2, <2>3, <2>4 DEF Generations, Final, Budgeted, Scanning
<1>3. CASE Quiet \/ Stops \/ Prepare \/ Deletes
  <2>1. UNCHANGED <<alpha, alpha_generation, cc_gen, line, position, checked>>
    BY <1>3 DEF Quiet, Stops, Prepare, Deletes, assignment, locals
  <2> QED
    BY <1>2, <1>3, <2>1 DEF Quiet, Stops, Prepare, Deletes, Final
<1>4. ASSUME NEW line_id, NEW l, NEW c, GlobalUnit(line_id, l, c)
      PROVE  Generations'
  <2>1. /\ pc = "read" /\ pc' = "read" /\ UNCHANGED <<cc_gen, line>>
        /\ alpha_generation' = alpha_generation + 2 /\ alpha_generation' < GLOBAL_GEN
        /\ alpha' = SetLits({l}, GLOBAL_GEN)
    BY <1>4 DEF GlobalUnit, GlobalUnitGeneration, GEN_INC, locals
  <2>2. Even(alpha_generation')
    <3>1. alpha_generation' = alpha_generation + 2 * 1
      BY <1>1, <2>1
    <3> QED
      BY <1>1, <3>1, EvenSum DEF Generations
  <2>3. LineGeneration = alpha_generation + 2 /\ LineGeneration' = alpha_generation' + 2
    BY DEF LineGeneration, GEN_INC
  <2>4. LineGeneration' \in Nat /\ LineGeneration \in Nat /\ LineGeneration <= LineGeneration'
    BY <1>1, <2>1, <2>3
  <2>5. StampsBelow(LineGeneration)
    BY <2>1 DEF Generations
  <2>6. StampsBelow(LineGeneration')
    BY <1>1, <2>4, <2>5, StampsMonotone
  <2>7. \A v \in Var : alpha'[v] < LineGeneration' \/ alpha'[v] >= GLOBAL_GEN
    <3>1. GLOBAL_GEN >= GLOBAL_GEN
      BY <1>1
    <3> QED
      BY <1>1, <2>1, <2>4, <2>6, <3>1, StampsStep
  <2> QED
    BY <2>1, <2>2, <2>7 DEF Generations, StampsBelow, Budgeted, Scanning, Even
<1>5. ASSUME NEW id \in Ids, NEW ln \in ProofLines, AddLine(id, ln)
      PROVE  Generations'
  <2>1. /\ pc = "read" /\ pc' = "assume" /\ UNCHANGED <<cc_gen, alpha, alpha_generation>>
        /\ line' = ln
        /\ alpha_generation + 2 * (Len(ln.groups) + 1) < GLOBAL_GEN
    BY <1>5 DEF AddLine, assignment, GEN_INC
  <2>2. Len(ln.groups) \in Nat
    BY LsrAssumption DEF LineHead
  <2>3. CandidateGeneration' < GLOBAL_GEN
    <3> DEFINE n == Len(ln.groups)
    <3>1. CandidateGeneration' = alpha_generation + 2 + 2 * n
      BY <2>1 DEF CandidateGeneration, LineGeneration, GEN_INC
    <3>2. n \in Nat /\ alpha_generation + 2 * (n + 1) < GLOBAL_GEN
      BY <2>1, <2>2
    <3> HIDE DEF n
    <3> QED
      BY <1>1, <3>1, <3>2
  <2>4. StampsBelow(LineGeneration)'
    BY <2>1 DEF Generations, StampsBelow, LineGeneration
  <2> QED
    BY <2>1, <2>3, <2>4 DEF Generations, Budgeted, Scanning, Even
<1>6. CASE AssumeNegatedCandidate
  <2>1. /\ pc = "assume" /\ pc' = "up" /\ UNCHANGED line
        /\ alpha' = SetLits({-l : l \in line.clause}, CandidateGeneration)
        /\ alpha_generation' = LineGeneration /\ cc_gen' = CandidateGeneration
    BY <1>6 DEF AssumeNegatedCandidate
  <2> DEFINE n == Len(line.groups)
             g == CandidateGeneration
  <2>2. n \in Nat /\ LineGeneration = alpha_generation + 2 /\ g = LineGeneration + 2 * n
    BY <1>1 DEF CandidateGeneration, LineGeneration, GEN_INC
  <2>3. StampsBelow(LineGeneration) /\ g < GLOBAL_GEN /\ Even(alpha_generation)
    BY <2>1 DEF Generations
  <2>4. GroupsLeft' = n
    BY <2>1 DEF GroupsLeft, Scanning
  <2> HIDE DEF n, g
  <2>5. LineGeneration \in Nat /\ g \in Nat /\ LineGeneration <= g + 2 /\ g + 2 \in Nat
        /\ n >= 0
    BY <1>1, <2>2
  <2>6. Even(LineGeneration) /\ Even(g)
    <3>1. LineGeneration = alpha_generation + 2 * 1
      BY <1>1, <2>2
    <3> QED
      BY <1>1, <2>2, <2>3, <2>5, <3>1, EvenSum
  <2>7. StampsBelow(g + 2)
    BY <1>1, <2>3, <2>5, StampsMonotone
  <2>8. \A v \in Var : alpha'[v] < g + 2 \/ alpha'[v] >= GLOBAL_GEN
    BY <1>1, <2>1, <2>5, <2>7, StampsStep DEF g, GEN_INC
  <2>9. cc_gen' = g
    BY <2>1 DEF g
  <2> QED
    BY <2>1, <2>2, <2>3, <2>4, <2>5, <2>6, <2>8, <2>9
    DEF Generations, StampsBelow, GEN_INC, Even
<1>7. ASSUME NEW h, NEW l, UnitHint(h, l)
      PROVE  Generations'
  <2>1. /\ UNCHANGED <<pc, alpha_generation, cc_gen, line, position, checked>>
        /\ alpha' = SetLits({l}, UpGeneration) /\ UpGeneration \in {cc_gen, alpha_generation}
        /\ pc \in {"up", "hintsUp", "scanUp"}
    BY <1>7 DEF UnitHint, UpPoint, UpGeneration, locals
  <2>2. Budgeted' = Budgeted /\ GroupsLeft' = GroupsLeft
    BY <2>1 DEF Budgeted, GroupsLeft, Scanning
  <2>3. Budgeted => StampsBelow(cc_gen + GEN_INC)'
    BY <2>1, AssumeGenerations
  <2> QED
    BY <2>1, <2>2, <2>3 DEF Generations, Even
<1>8. CASE Opens
  <2>1. /\ UNCHANGED <<alpha_generation, cc_gen, line, position, checked>>
        /\ alpha' = SetLits(NegatedImage(Current), alpha_generation)
        /\ \/ pc = "hints" /\ pc' = "hintsUp"
           \/ pc = "scan" /\ pc' = "scanUp"
    BY <1>8 DEF Opens, AtClause, locals
  <2>2. Budgeted' = Budgeted /\ GroupsLeft' = GroupsLeft
    BY <2>1 DEF Budgeted, GroupsLeft, Scanning
  <2>3. Budgeted => StampsBelow(cc_gen + GEN_INC)'
    BY <2>1, AssumeGenerations
  <2> QED
    BY <2>1, <2>2, <2>3 DEF Generations, Even
<1>9. CASE HintGroupsMissing
  <2>1. ~line.explicit /\ pc = "hints" /\ pc' = "scan"
        /\ UNCHANGED <<alpha, alpha_generation, cc_gen, line>>
    BY <1>9 DEF HintGroupsMissing, assignment, ScanInv, Counted
  <2> QED
    BY <2>1 DEF Generations, Budgeted, Scanning, Even
<1>10. CASE SkipClause
  <2>1. UNCHANGED <<alpha, alpha_generation, cc_gen, line, position, checked, pc>>
    BY <1>10 DEF SkipClause, assignment
  <2> QED
    BY <1>2, <2>1
<1>11. CASE AssumeSubst
  <2>1. /\ pc = "up" /\ pc' = IF line.explicit THEN "scan" ELSE "hints"
        /\ UNCHANGED <<alpha, alpha_generation, cc_gen, line>>
        /\ checked' = {} /\ position' = 1
    BY <1>11 DEF AssumeSubst, ScanInv, NothingChecked, assignment
  <2>2. Budgeted /\ GroupsLeft = Len(line.groups)
    BY <2>1 DEF Budgeted, GroupsLeft, Scanning
  <2>3. GroupsLeft' = GroupsLeft
    BY <1>1, <2>1, <2>2, FS_EmptySet DEF GroupsLeft, Scanning
  <2>4. StampsBelow(cc_gen + GEN_INC)'
    BY <2>1, <2>2 DEF Generations, StampsBelow
  <2> QED
    BY <2>1, <2>2, <2>3, <2>4 DEF Generations, Even
<1> QED
  BY <1>3, <1>4, <1>5, <1>6, <1>7, <1>8, <1>9, <1>10, <1>11, StepKinds,
     FinishGenerations, PassGenerations DEF Turns

-----------------------------------------------------------------------------
(***************************************************************************)
(* What the generations and the count of the groups are for.                *)
(***************************************************************************)

(* The invariant of the checker, whatever hints and deletions it is given.   *)
LEMMA CheckerInvariant == Spec => [](CheckerInv /\ GenerationInv)
<1>1. Init => CheckerInv /\ GenerationInv
  BY InitBookkeeping, InitIntervals, InitScan, InitPlain, InitGenerations
  DEF CheckerInv, GenerationInv
<1>2. CheckerInv /\ GenerationInv /\ [Next]_vars => (CheckerInv /\ GenerationInv)'
  <2>1. CheckerInv /\ [Next]_vars => CheckerInv'
    BY TypeStep, LineStep, OccurrencesStep, IntervalsStep, ScanStep
    DEF CheckerInv, Bookkeeping
  <2>2. CheckerInv /\ GenerationInv /\ [Next]_vars => GenerationInv'
    BY PlainStep, GroupsStep, GenerationsStep DEF CheckerInv, GenerationInv
  <2> QED
    BY <2>1, <2>2
<1> QED
  BY <1>1, <1>2, PTL DEF Spec

(* The generations that check_line() sets aside for the hint groups of a     *)
(* line outnumber the groups its loops pass, so that no assignment made for  *)
(* one line, or for one of its groups, is visible to the next line.         *)
THEOREM GenerationsCorrect == Spec => []GenerationsSuffice
<1>1. CheckerInv /\ GenerationInv => GenerationsSuffice
  <2> SUFFICES ASSUME CheckerInv, GenerationInv
               PROVE  GenerationsSuffice
    OBVIOUS
  <2>1. pc = "read" =>
          \A v \in Var : alpha[v] < LineGeneration \/ alpha[v] >= GLOBAL_GEN
    BY DEF GenerationInv, Generations, StampsBelow
  <2>2. ASSUME Budgeted
        PROVE  alpha_generation <= cc_gen
    <3>1. GroupsLeft \in Nat
      BY <2>2, GroupsLeftType DEF CheckerInv, GenerationInv
    <3>2. alpha_generation + 2 * GroupsLeft = cc_gen
      BY <2>2 DEF GenerationInv, Generations, GEN_INC
    <3>3. alpha_generation \in Nat /\ cc_gen \in Nat
      BY DEF CheckerInv, Bookkeeping, TypeOK
    <3> QED
      BY <3>1, <3>2, <3>3
  <2> QED
    BY <2>1, <2>2 DEF GenerationsSuffice, Budgeted, Scanning
<1> QED
  BY <1>1, CheckerInvariant, PTL

(* A line whose hint groups do not account for every occurrence of the       *)
(* negated pivot is never accepted: the old-fashioned scan that follows meets *)
(* an occurrence that no group opens, and refuses the line.                 *)
THEOREM FallThroughRefused == Spec => FallThroughFails
<1>1. CheckerInv /\ GenerationInv /\ [Next]_vars
        => [(pc \in {"scan", "scanUp"} /\ ~line.explicit)
              => pc' \in {"scan", "scanUp", "FATAL"}]_vars
  BY FallThroughStep DEF GenerationInv, Scanning
<1> QED
  BY <1>1, CheckerInvariant, PTL DEF Spec, FallThroughFails

-----------------------------------------------------------------------------
(***************************************************************************)
(* Soundness: what the partial assignment says is entailed, the clauses that *)
(* are added are redundant, and the verdict that is printed is right, for    *)
(* every value of the constants that keeps to three conditions, each of      *)
(* which the code leaves to the proof file (see README.md, section 6).       *)
(***************************************************************************)

(* The pivot is not mapped to itself: parse_sr_clause_and_witness() refuses   *)
(* such a pair for every other variable.                                    *)
PivotsMoved ==
  \A ln \in ProofLines :
    LET v == VarOf(ln.pivot) IN v \in ln.mapped => ln.map[v] # v

-----------------------------------------------------------------------------
(***************************************************************************)
(* Truth under an assignment.                                               *)
(***************************************************************************)

(* Exactly one of two opposite targets is true.                             *)
LEMMA HoldsOpposite ==
  ASSUME NEW tau \in Assignment, NEW m \in Target
  PROVE  Holds(tau, -m) <=> ~Holds(tau, m)
<1>1. CASE m \in {SUBST_TT, SUBST_FF}
  <2>1. SUBST_TT > 0 /\ ~(SUBST_FF > 0) /\ SUBST_FF \in Int
    BY VarAssumption DEF SUBST_FF
  <2> QED
    BY <1>1, <2>1, Targets DEF Holds
<1>2. CASE m \in Lit
  <2>1. m \in Int /\ m # 0 /\ (m > 0 => m \in Var) /\ (~(m > 0) => -m \in Var)
    BY <1>2, Literals DEF VarOf
  <2>2. (-m > 0 <=> ~(m > 0)) /\ -(-m) = m
    BY <2>1
  <2> QED
    BY <2>1, <2>2 DEF Holds
<1> QED
  BY <1>1, <1>2 DEF Target

(* The constants are what they are called.                                  *)
LEMMA HoldsConstant ==
  ASSUME NEW tau \in Assignment
  PROVE  Holds(tau, SUBST_TT) /\ ~Holds(tau, SUBST_FF)
<1>1. SUBST_TT > 0
  BY VarAssumption
<1>2. SUBST_TT \in Target
  BY DEF Target
<1> QED
  BY <1>1, <1>2, HoldsOpposite, Targets DEF Holds

(* An assignment composed with a substitution gives a literal the value of   *)
(* its image.                                                               *)
LEMMA HoldsCompose ==
  ASSUME NEW tau \in Assignment, NEW s \in Substitution, NEW l \in Lit
  PROVE  Holds(Compose(tau, s), l) <=> Holds(tau, MapLit(s, l))
<1>1. /\ l \in Int /\ (l > 0 => l \in Var) /\ (~(l > 0) => -l \in Var)
      /\ SUBST_TT \notin Var
  BY Literals, VarAssumption DEF VarOf
<1>2. CASE l > 0
  BY <1>1, <1>2 DEF Holds, Compose, MapLit
<1>3. CASE ~(l > 0)
  <2>1. Holds(Compose(tau, s), l) <=> ~Holds(tau, s[-l])
    BY <1>1, <1>3 DEF Holds, Compose
  <2>2. s[-l] \in Target
    BY <1>1, <1>3 DEF Substitution
  <2> QED
    BY <1>3, <2>1, <2>2, HoldsOpposite DEF MapLit
<1> QED
  BY <1>2, <1>3

(* So it satisfies a clause when the assignment satisfies the image.         *)
LEMMA SatCompose ==
  ASSUME NEW tau \in Assignment, NEW s \in Substitution, NEW C \in SUBSET Lit
  PROVE  /\ Compose(tau, s) \in Assignment
         /\ Sat(Compose(tau, s), C) <=> \E m \in Image(s, C) : Holds(tau, m)
<1>1. Compose(tau, s) \in Assignment
  BY DEF Compose, Assignment
<1>2. \A l \in C : Holds(Compose(tau, s), l) <=> Holds(tau, MapLit(s, l))
  BY HoldsCompose
<1> QED
  BY <1>1, <1>2 DEF Sat, Image

-----------------------------------------------------------------------------
(***************************************************************************)
(* What an assignment a shows at a generation, as a constant operator.       *)
(***************************************************************************)
Shows(a, gen, l) == a[VarOf(l)] >= gen /\ Means(a[VarOf(l)], l)

Fits(a, tau, gen) == \A l \in Lit : Shows(a, gen, l) => Holds(tau, l)

Entails(a, T, gen) == \A tau \in T : Fits(a, tau, gen)

(* A later generation shows less.                                           *)
LEMMA FitsLater ==
  ASSUME NEW a \in [Var -> Nat], NEW tau, NEW g \in Nat, NEW h \in Nat, g <= h,
         Fits(a, tau, g)
  PROVE  Fits(a, tau, h)
<1> SUFFICES ASSUME NEW l \in Lit, Shows(a, h, l)
             PROVE  Shows(a, g, l)
  BY DEF Fits
<1>1. a[VarOf(l)] \in Nat
  BY Literals
<1> QED
  BY <1>1 DEF Shows

(* set_lit_for_alpha() makes the literals it is given true, and no others.   *)
LEMMA ShowsStep ==
  ASSUME alpha \in [Var -> Nat], NEW L \in SUBSET Lit, NEW gen \in Nat, Even(gen),
         NEW b, b = SetLits(L, gen), NEW g \in Nat, NEW l \in Lit, Shows(b, g, l)
  PROVE  Shows(alpha, g, l) \/ (l \in L /\ g <= gen + 1)
<1> DEFINE v == VarOf(l)
<1>1. /\ v \in Var /\ v \in Int /\ v > 0 /\ alpha[v] \in Nat
      /\ l = v \/ l = -v
      /\ l \in Int /\ -v < 0
  <2>1. v \in Var /\ (l = v \/ l = -v) /\ l \in Int
    BY Literals
  <2>2. v \in Nat \ {0}
    BY <2>1, VarAssumption
  <2> QED
    BY <2>1, <2>2
<1>2. b[v] = IF alpha[v] > gen THEN alpha[v]
             ELSE IF v \in L THEN Stamp(v, gen)
             ELSE IF -v \in L THEN Stamp(-v, gen)
             ELSE alpha[v]
  BY <1>1 DEF SetLits
<1>3. Stamp(v, gen) = gen /\ Stamp(-v, gen) = gen + 1
  BY <1>1 DEF Stamp
<1>4. b[v] >= g /\ (b[v] % 2 = IF l < 0 THEN 1 ELSE 0)
  BY DEF Shows, Means
<1>5. gen % 2 = 0 /\ (gen + 1) % 2 = 1
  BY DEF Even
<1>6. CASE b[v] = alpha[v]
  BY <1>6 DEF Shows
<1>7. CASE b[v] = gen /\ v \in L
  BY <1>1, <1>4, <1>5, <1>7
<1>8. CASE b[v] = gen + 1 /\ -v \in L
  BY <1>1, <1>4, <1>5, <1>8
<1> QED
  BY <1>2, <1>3, <1>6, <1>7, <1>8

(* So it keeps to an assignment that satisfies those literals.               *)
LEMMA FitsStep ==
  ASSUME alpha \in [Var -> Nat], NEW L \in SUBSET Lit, NEW gen \in Nat, Even(gen),
         NEW b, b = SetLits(L, gen), NEW g \in Nat, NEW tau, Fits(alpha, tau, g),
         g <= gen + 1 => \A l \in L : Holds(tau, l)
  PROVE  Fits(b, tau, g)
BY ShowsStep DEF Fits

(* Assignments older than a bound leave those made forever.                  *)
LEMMA FitsGlobals ==
  ASSUME alpha \in [Var -> Nat], NEW tau, NEW bound \in Nat, StampsBelow(bound),
         Fits(alpha, tau, GLOBAL_GEN)
  PROVE  Fits(alpha, tau, bound)
<1> SUFFICES ASSUME NEW l \in Lit, Shows(alpha, bound, l)
             PROVE  Shows(alpha, GLOBAL_GEN, l)
  BY DEF Fits
<1>1. VarOf(l) \in Var /\ alpha[VarOf(l)] \in Nat
  BY Literals
<1>2. ~(alpha[VarOf(l)] < bound)
  BY <1>1 DEF Shows
<1> QED
  BY <1>1, <1>2 DEF Shows, StampsBelow

(* A unit or falsified clause, under an assignment that is entailed.         *)
LEMMA HintEntails ==
  ASSUME NEW tau \in Assignment, NEW C \in SUBSET Lit, Sat(tau, C),
         Fits(alpha, tau, alpha_generation)
  PROVE  /\ ~Contradiction(C)
         /\ \A l \in C : UnitUnder(C, l) => Holds(tau, l)
<1>1. PICK k \in C : Holds(tau, k)
  BY DEF Sat
<1>2. k \in Target /\ -k \in Lit
  BY Literals DEF Target
<1>3. ~Holds(tau, -k)
  BY <1>1, <1>2, HoldsOpposite
<1>4. ~FalseAt(alpha_generation, k)
  BY <1>2, <1>3 DEF FalseAt, TrueAt, Fits, Shows
<1> QED
  BY <1>1, <1>4 DEF Contradiction, UnitUnder

-----------------------------------------------------------------------------
(***************************************************************************)
(* The invariant.  Assignments made forever follow from the formula; those   *)
(* of a line from the formula and the candidate's negation; those of a hint *)
(* group also from the negation of its RAT clause under the witness, and    *)
(* they are the only ones of the current generation.  So every RAT clause   *)
(* that passed is satisfied by each counterexample, once the witness has     *)
(* changed it.                                                              *)
(***************************************************************************)
Witnessed(tau, c) == Sat(Compose(tau, subst), formula[c])

RATCounterexamples == {tau \in Counterexamples : ~Witnessed(tau, Current)}

GlobalsEntailed ==
  pc \notin Final /\ ~(Scanning /\ ~line.explicit) =>
    Entails(alpha, Models(TrustedClauses), GLOBAL_GEN)

LineEntailed ==
  pc \in {"up", "hints", "scan"} => Entails(alpha, Counterexamples, alpha_generation)

GroupEntailed ==
  pc \in {"hintsUp", "scanUp"} =>
    /\ Entails(alpha, Counterexamples, alpha_generation + GEN_INC)
    /\ Entails(alpha, RATCounterexamples, alpha_generation)

CheckedWitnessed ==
  pc \in Looping => \A c \in checked : \A tau \in Counterexamples : Witnessed(tau, c)

Entailment == GlobalsEntailed /\ LineEntailed /\ GroupEntailed /\ CheckedWitnessed

ReachableInv == CheckerInv /\ GenerationInv

-----------------------------------------------------------------------------
(***************************************************************************)
(* The clauses that may be cited.                                           *)
(***************************************************************************)

(* The clauses are clauses, and their models are assignments.               *)
LEMMA TrustedType ==
  ASSUME Bookkeeping
  PROVE  /\ \A c \in Trusted \cup {candidate} : c \in Slots /\ formula[c] \subseteq Lit
         /\ Counterexamples \subseteq Models(TrustedClauses)
         /\ Models(TrustedClauses) \subseteq Assignment
         /\ \A tau \in Models(TrustedClauses) : \A c \in Trusted : Sat(tau, formula[c])
<1>1. \A c \in Trusted \cup {candidate} : c \in Slots
  BY LsrAssumption DEF Bookkeeping, TypeOK, Trusted, Live, candidate, Slots
<1>2. \A c \in Slots : formula[c] \subseteq Lit
  BY DEF Bookkeeping, TypeOK
<1> QED
  BY <1>1, <1>2 DEF Counterexamples, Models, TrustedClauses

(* Steps that leave the clauses and the line alone leave what is trusted.    *)
LEMMA SameClauses ==
  ASSUME UNCHANGED <<formula, formula_size, deleted, line>>
  PROVE  /\ TrustedClauses' = TrustedClauses
         /\ Counterexamples' = Counterexamples
         /\ Trusted' = Trusted
<1>1. Trusted' = Trusted
  BY DEF Trusted, Live, candidate
<1>2. TrustedClauses' = TrustedClauses
  BY <1>1 DEF TrustedClauses
<1> QED
  BY <1>1, <1>2 DEF Counterexamples

(* A deletion takes away clauses only.                                      *)
LEMMA DeletedClauses ==
  ASSUME Bookkeeping, Deletes
  PROVE  /\ TrustedClauses' \subseteq TrustedClauses
         /\ LateDeletions \/ NoGlobalUnits \/ TrustedClauses' = TrustedClauses
<1>1. PICK c : /\ \/ c \in Live /\ (LateDeletions \/ NoGlobalUnits)
                  \/ c = formula_size + 1
               /\ deleted' = deleted \cup {c}
  BY DEF Deletes
<1>2. UNCHANGED <<formula, formula_size, line, candidate>>
  BY DEF Deletes, locals, candidate
<1>3. Trusted' = Trusted \ {c}
  BY <1>1, <1>2 DEF Trusted, Live
<1>4. c = formula_size + 1 => c \notin Trusted
  BY LsrAssumption DEF Bookkeeping, TypeOK, Trusted, Live
<1> QED
  BY <1>1, <1>2, <1>3, <1>4 DEF TrustedClauses

(* The candidate is not trusted before its line is checked.                  *)
LEMMA AddedClauses ==
  ASSUME Bookkeeping, NEW id \in Ids, NEW ln \in ProofLines, AddLine(id, ln)
  PROVE  TrustedClauses' = TrustedClauses /\ CnfClauses' = CnfClauses
<1> USE DEF Bookkeeping
<1>1. /\ pc = "read" /\ line = NoLine /\ line' = ln
      /\ formula' = [formula EXCEPT ![id] = ln.clause] /\ candidate' = id
      /\ formula_size' = id /\ deleted' = deleted \cup ((formula_size + 1)..(id - 1))
  BY DEF AddLine, LineInProgress, Fillers, candidate
<1>2. /\ id > formula_size /\ id \in Nat /\ formula_size \in Nat /\ id \in Slots
      /\ num_cnf_clauses \in Nat /\ num_cnf_clauses <= formula_size
  BY LsrAssumption DEF AddLine, LineAccepted, TypeOK, Ids, Slots
<1>3. formula'[id] = ln.clause /\ \A c \in 1..formula_size : formula'[c] = formula[c]
  BY <1>1, <1>2, LsrAssumption DEF TypeOK, Slots
<1>4. Trusted' = Trusted /\ Trusted \subseteq 1..formula_size
  <2>1. Live' \subseteq Live \cup {id} /\ Live \subseteq Live'
    BY <1>1, <1>2 DEF Live
  <2>2. id \notin Trusted' /\ id \notin Trusted
    BY <1>1, <1>2, <1>3 DEF Trusted, Live, NoLine
  <2>3. ASSUME NEW c \in Live
        PROVE  c \in Trusted' <=> c \in Trusted
    <3>1. c \in 1..formula_size /\ c # id /\ c \in Live'
      BY <1>2, <2>1 DEF Live
    <3> QED
      BY <1>1, <1>3, <3>1 DEF Trusted
  <2>4. Trusted \subseteq Live /\ Trusted' \subseteq Live' /\ Live \subseteq 1..formula_size
    BY DEF Trusted, Live
  <2> QED
    BY <2>1, <2>2, <2>3, <2>4
<1>5. CnfIds \subseteq 1..formula_size
  BY <1>2 DEF CnfIds
<1> QED
  BY <1>3, <1>4, <1>5 DEF TrustedClauses, CnfClauses

(* The clause of a finished line is trusted, unless it is empty.             *)
LEMMA FinishedClauses ==
  ASSUME Bookkeeping, pc \in Checking, NEW gen, FinishLine(gen)
  PROVE  /\ CnfClauses' = CnfClauses
         /\ pc' = IF line.clause = {} THEN "UNSAT" ELSE "read"
         /\ TrustedClauses' = IF line.clause = {} THEN TrustedClauses
                              ELSE TrustedClauses \cup {line.clause}
<1> USE DEF Bookkeeping
<1>1. /\ line.clause = formula[candidate] /\ candidate \notin deleted
      /\ candidate \in 1..formula_size
  BY LsrAssumption DEF LineInProgress, TypeOK, candidate
<1>2. UNCHANGED <<formula, formula_size, deleted, candidate>> /\ line' = NoLine
  BY DEF FinishLine, db, candidate
<1>3. CnfClauses' = CnfClauses
  BY <1>2 DEF CnfClauses
<1>4. CASE line.clause = {}
  <2>1. Trusted' = Trusted
    BY <1>1, <1>2, <1>4 DEF Trusted, Live
  <2>2. TrustedClauses' = TrustedClauses
    BY <1>2, <2>1 DEF TrustedClauses
  <2> QED
    BY <1>3, <1>4, <2>2 DEF FinishLine
<1>5. CASE line.clause # {}
  <2>1. Trusted' = Trusted \cup {candidate}
    BY <1>1, <1>2, <1>5 DEF Trusted, Live
  <2>2. TrustedClauses' = TrustedClauses \cup {line.clause}
    BY <1>1, <1>2, <2>1 DEF TrustedClauses
  <2> QED
    BY <1>3, <1>5, <2>2 DEF FinishLine
<1> QED
  BY <1>4, <1>5

-----------------------------------------------------------------------------
(***************************************************************************)
(* What hints and hint groups show.                                         *)
(***************************************************************************)

(* A hint that is no forward hint cites a clause that is trusted.            *)
LEMMA HintTrusted ==
  ASSUME ReachableInv, pc \in UpPoint, ~ForwardHints, NEW h, Hint(h)
  PROVE  h \in Trusted
<1> USE DEF ReachableInv, CheckerInv, Bookkeeping, GenerationInv
<1>1. candidate = formula_size /\ formula_size \in Nat
  BY LsrAssumption DEF candidate, TypeOK
<1>2. h \in 1..(candidate + 1) /\ h \notin deleted /\ h < candidate
  BY DEF Hint
<1>3. h \in Live /\ h # candidate
  BY <1>1, <1>2 DEF Live
<1>4. pc \notin Final
  BY DEF UpPoint, Final
<1> QED
  BY <1>3, <1>4 DEF Trusted, PlainClauses

(* The clause at hand in a loop is a slot of the formula.                    *)
LEMMA CurrentType ==
  ASSUME CheckerInv, AtClause \/ pc \in {"hintsUp", "scanUp"}
  PROVE  /\ pc \in Looping /\ subst \in Substitution
         /\ formula[Current] \in SUBSET Lit
<1> USE DEF CheckerInv, Bookkeeping
<1>1. pc \in Looping /\ subst \in Substitution
  BY DEF AtClause, Looping, TypeOK
<1>2. /\ candidate = formula_size /\ formula_size \in Nat /\ MaxId \in Nat
      /\ formula_size <= MaxId /\ position \in Nat /\ line.groups \in Seq(Nat)
  BY LsrAssumption DEF candidate, TypeOK, LineHead
<1>3. CASE pc \in {"hints", "hintsUp"}
  <2>1. position \in DOMAIN line.groups
    BY <1>2, <1>3 DEF AtClause, LineInProgress
  <2>2. Group \in 1..(candidate + 1)
    BY <1>3, <2>1 DEF LineInProgress, Checking, Group
  <2>3. Group \in Slots
    BY <1>2, <2>2 DEF Slots
  <2> QED
    BY <1>1, <1>3, <2>3 DEF Current, TypeOK
<1>4. CASE pc \in {"scan", "scanUp"}
  <2>1. cursor \in 1..(candidate + 1)
    BY <1>4 DEF LineInProgress
  <2>2. cursor \in Slots
    BY <1>2, <2>1 DEF Slots
  <2> QED
    BY <1>1, <1>4, <2>2 DEF Current, TypeOK
<1> QED
  BY <1>1, <1>3, <1>4 DEF Looping

(* Between lines, and until the candidate is negated, what shows is made     *)
(* forever.                                                                 *)
LEMMA LineStart ==
  ASSUME ReachableInv, Entailment, pc \in {"read", "assume"}
  PROVE  Entails(alpha, Models(TrustedClauses), LineGeneration)
<1> USE DEF ReachableInv, CheckerInv, Bookkeeping, GenerationInv, Entailment
<1>1. alpha \in [Var -> Nat] /\ LineGeneration \in Nat
  BY DEF TypeOK, LineGeneration, GEN_INC
<1>2. StampsBelow(LineGeneration)
  BY DEF Generations
<1>3. Entails(alpha, Models(TrustedClauses), GLOBAL_GEN)
  BY DEF GlobalsEntailed, Scanning, Final
<1> QED
  BY <1>1, <1>2, <1>3, FitsGlobals DEF Entails

(* A RAT clause passes only when its image is implied.                       *)
LEMMA PassWitnessed ==
  ASSUME ReachableInv, Entailment, Passes, ~ForwardHints,
         NEW tau \in Counterexamples
  PROVE  Witnessed(tau, Current)
<1> USE DEF ReachableInv, CheckerInv, Entailment
<1>1. /\ tau \in Assignment /\ tau \in Models(TrustedClauses)
      /\ subst \in Substitution /\ formula[Current] \in SUBSET Lit
      /\ pc \in Looping
  BY TrustedType, CurrentType DEF Passes
<1>2. Witnessed(tau, Current) <=> \E m \in ImageOf(Current) : Holds(tau, m)
  BY <1>1, SatCompose DEF Witnessed, ImageOf
<1>3. ImageOf(Current) \subseteq Target
  BY <1>1, MapLitType DEF ImageOf, Image
<1>4. CASE AtClause /\ TriviallyRefuted(Current)
  <2>1. Fits(alpha, tau, alpha_generation)
    BY <1>4 DEF AtClause, LineEntailed, Entails
  <2>2. CASE SUBST_TT \in ImageOf(Current)
    BY <1>1, <1>2, <2>2, HoldsConstant
  <2>3. ASSUME NEW m \in ImageOf(Current) \cap Lit,
               TrueAt(alpha_generation, m) \/ -m \in ImageOf(Current)
        PROVE  Witnessed(tau, Current)
    <3>1. TrueAt(alpha_generation, m) => Holds(tau, m)
      BY <2>1 DEF TrueAt, Fits, Shows
    <3>2. Holds(tau, m) \/ Holds(tau, -m)
      BY <1>1, <1>3, HoldsOpposite
    <3> QED
      BY <1>2, <2>3, <3>1, <3>2
  <2> QED
    BY <1>4, <2>2, <2>3 DEF TriviallyRefuted
<1>5. ASSUME pc \in {"hintsUp", "scanUp"}, NEW h, Hint(h), Contradiction(formula[h])
      PROVE  Witnessed(tau, Current)
  <2>1. h \in Trusted
    BY <1>5, HintTrusted DEF UpPoint
  <2>2. Sat(tau, formula[h]) /\ formula[h] \in SUBSET Lit
    BY <1>1, <2>1, TrustedType
  <2>3. ~Fits(alpha, tau, alpha_generation)
    BY <1>1, <1>5, <2>2, HintEntails
  <2> QED
    BY <1>5, <2>3 DEF GroupEntailed, Entails, RATCounterexamples
<1> QED
  BY <1>4, <1>5 DEF Passes

-----------------------------------------------------------------------------
(***************************************************************************)
(* The steps.                                                               *)
(***************************************************************************)

(* There is room for a sign between two generations.                        *)
LEMMA EvenBelow ==
  ASSUME NEW m \in Nat, NEW n \in Nat, Even(m), Even(n), m < n
  PROVE  m + 1 < n
BY DEF Even

(* The generations of a line are older than the ones made forever.           *)
LEMMA BelowGlobals ==
  ASSUME ReachableInv, NEW gen \in {cc_gen, alpha_generation}, Budgeted
  PROVE  gen \in Nat /\ Even(gen) /\ gen + 1 < GLOBAL_GEN /\ alpha_generation <= cc_gen
<1> USE DEF ReachableInv, CheckerInv, Bookkeeping, GenerationInv
<1>1. /\ alpha_generation \in Nat /\ cc_gen \in Nat /\ GLOBAL_GEN \in Nat
      /\ Even(GLOBAL_GEN) /\ Even(cc_gen) /\ Even(alpha_generation)
      /\ cc_gen < GLOBAL_GEN
  BY LsrAssumption DEF TypeOK, Generations, Even
<1>2. alpha_generation <= cc_gen
  <2> DEFINE n == GroupsLeft
  <2>1. n \in Nat /\ alpha_generation + 2 * n = cc_gen
    BY GroupsLeftType DEF Generations, GEN_INC
  <2> HIDE DEF n
  <2> QED
    BY <1>1, <2>1
<1>3. gen \in Nat /\ Even(gen) /\ gen < GLOBAL_GEN
  BY <1>1, <1>2
<1> QED
  BY <1>1, <1>2, <1>3, EvenBelow

(* A global unit is implied by its clause and the earlier ones.              *)
LEMMA GlobalUnitEntails ==
  ASSUME ReachableInv, Entailment, NEW line_id, NEW l \in Lit, NEW c \in Slots,
         GlobalUnit(line_id, l, c)
  PROVE  Entailment'
<1> USE DEF ReachableInv, CheckerInv, Bookkeeping, GenerationInv
<1>1. /\ pc = "read" /\ pc' = "read" /\ UNCHANGED <<formula, formula_size, deleted, line>>
      /\ alpha' = SetLits({l}, GLOBAL_GEN) /\ c \in Live /\ l \in formula[c]
      /\ \A k \in formula[c] \ {l} : FalseAt(LineGeneration, k)
  BY DEF GlobalUnit, IsGlobalUnit, GlobalUnitGeneration, LineGeneration, db, locals
<1>2. TrustedClauses' = TrustedClauses
  BY <1>1, SameClauses
<1>3. c \in Trusted
  BY <1>1 DEF PlainClauses, Final, Checking, Trusted, LineInProgress
<1>4. ASSUME NEW tau \in Models(TrustedClauses)
      PROVE  Holds(tau, l)
  <2>1. tau \in Assignment /\ Sat(tau, formula[c]) /\ formula[c] \subseteq Lit
    BY <1>3, TrustedType
  <2>2. PICK k \in formula[c] : Holds(tau, k)
    BY <2>1 DEF Sat
  <2>3. Fits(alpha, tau, LineGeneration)
    BY <1>1, LineStart DEF Entails
  <2>4. k \in Target /\ -k \in Lit /\ ~Holds(tau, -k)
    BY <2>1, <2>2, Literals, HoldsOpposite DEF Target
  <2>5. ~FalseAt(LineGeneration, k)
    BY <2>3, <2>4 DEF FalseAt, TrueAt, Fits, Shows
  <2> QED
    BY <1>1, <2>2, <2>5
<1>5. Entails(alpha', Models(TrustedClauses), GLOBAL_GEN)
  <2> SUFFICES ASSUME NEW tau \in Models(TrustedClauses)
               PROVE  Fits(alpha', tau, GLOBAL_GEN)
    BY DEF Entails
  <2>1. Fits(alpha, tau, GLOBAL_GEN)
    BY <1>1 DEF Entailment, GlobalsEntailed, Entails, Scanning, Final
  <2>2. alpha \in [Var -> Nat] /\ GLOBAL_GEN \in Nat /\ Even(GLOBAL_GEN)
    BY LsrAssumption DEF TypeOK, Even
  <2> QED
    BY <1>1, <1>4, <2>1, <2>2, FitsStep
<1> QED
  BY <1>1, <1>2, <1>5
  DEF Entailment, GlobalsEntailed, LineEntailed, GroupEntailed, CheckedWitnessed, Looping

(* The candidate's negation holds of every counterexample.                  *)
LEMMA NegatedCandidateEntails ==
  ASSUME ReachableInv, Entailment, AssumeNegatedCandidate
  PROVE  Entailment'
<1> USE DEF ReachableInv, CheckerInv, Bookkeeping, GenerationInv
<1> DEFINE L == {-l : l \in line.clause}
<1>1. /\ pc = "assume" /\ pc' = "up" /\ UNCHANGED <<formula, formula_size, deleted, line>>
      /\ alpha' = SetLits(L, CandidateGeneration) /\ alpha_generation' = LineGeneration
  BY DEF AssumeNegatedCandidate, db
<1>2. TrustedClauses' = TrustedClauses /\ Counterexamples' = Counterexamples
  BY <1>1, SameClauses
<1>3. line.clause \subseteq Lit /\ Len(line.groups) \in Nat /\ alpha \in [Var -> Nat]
      /\ alpha_generation \in Nat /\ GLOBAL_GEN \in Nat
  BY LsrAssumption DEF TypeOK, LineHead
<1>4. L \in SUBSET Lit
  BY <1>3, Literals
<1>5. ASSUME NEW tau \in Counterexamples
      PROVE  \A l \in L : Holds(tau, l)
  <2> SUFFICES ASSUME NEW k \in line.clause
               PROVE  Holds(tau, -k)
    OBVIOUS
  <2>1. ~Holds(tau, k) /\ k \in Target /\ tau \in Assignment
    BY <1>3, <1>5, TrustedType DEF Counterexamples, Sat, Target
  <2> QED
    BY <2>1, HoldsOpposite
<1> DEFINE g == CandidateGeneration
           h == LineGeneration
           n == Len(line.groups)
<1>6. /\ h = alpha_generation + 2 /\ g = h + 2 * n /\ Even(alpha_generation)
      /\ g < GLOBAL_GEN
  BY <1>1 DEF Generations, LineGeneration, CandidateGeneration, GEN_INC
<1>7. Entails(alpha, Models(TrustedClauses), h)
      /\ Entails(alpha, Models(TrustedClauses), GLOBAL_GEN)
  BY <1>1, LineStart DEF Entailment, GlobalsEntailed, Scanning, Final
<1> HIDE DEF g, h, n, L
<1>8. g \in Nat /\ h \in Nat /\ Even(g) /\ g + 1 < GLOBAL_GEN
  <2>1. n \in Nat
    BY <1>3 DEF n
  <2>2. g = alpha_generation + 2 * (1 + n) /\ g \in Nat /\ h \in Nat /\ 1 + n \in Nat
    BY <1>3, <1>6, <2>1
  <2>3. Even(g)
    BY <1>3, <1>6, <2>2, EvenSum
  <2>4. Even(GLOBAL_GEN)
    BY LsrAssumption DEF Even
  <2> QED
    BY <1>3, <1>6, <2>2, <2>3, <2>4, EvenBelow
<1>9. alpha' = SetLits(L, g)
  BY <1>1 DEF g
<1>10. Entails(alpha', Models(TrustedClauses), GLOBAL_GEN)
  <2>1. ~(GLOBAL_GEN <= g + 1)
    BY <1>3, <1>8
  <2> QED
    BY <1>3, <1>4, <1>7, <1>8, <1>9, <2>1, FitsStep DEF Entails
<1>11. Entails(alpha', Counterexamples, h)
  BY <1>3, <1>4, <1>5, <1>7, <1>8, <1>9, FitsStep, TrustedType DEF Entails
<1> QED
  BY <1>1, <1>2, <1>10, <1>11
  DEF Entailment, GlobalsEntailed, LineEntailed, GroupEntailed, CheckedWitnessed,
      Looping, h

(* A unit hint is implied by its clause and what is assumed.                 *)
LEMMA UnitHintEntails ==
  ASSUME ReachableInv, Entailment, ~ForwardHints, NEW h, NEW l, UnitHint(h, l)
  PROVE  Entailment'
<1> USE DEF ReachableInv, CheckerInv, Bookkeeping, GenerationInv, Entailment
<1> DEFINE gen == UpGeneration
           late == alpha_generation + GEN_INC
<1>1. /\ UNCHANGED <<pc, formula, formula_size, deleted, line, subst, position, cursor,
                     checked, alpha_generation>>
      /\ alpha' = SetLits({l}, gen) /\ pc \in UpPoint /\ Hint(h)
      /\ UnitUnder(formula[h], l)
  BY DEF UnitHint, db, locals
<1>2. TrustedClauses' = TrustedClauses /\ Counterexamples' = Counterexamples
  BY <1>1, SameClauses
<1>3. RATCounterexamples' = RATCounterexamples /\ CheckedWitnessed'
  <2>1. \A tau, c : Witnessed(tau, c)' = Witnessed(tau, c)
    BY <1>1 DEF Witnessed
  <2>2. Current' = Current
    BY <1>1 DEF Current, Group
  <2> HIDE DEF Witnessed
  <2> QED
    BY <1>1, <1>2, <2>1, <2>2 DEF RATCounterexamples, CheckedWitnessed
<1>4. h \in Trusted
  BY <1>1, HintTrusted
<1>5. formula[h] \in SUBSET Lit /\ l \in formula[h]
  BY <1>1, <1>4, TrustedType DEF UnitUnder
<1>6. ASSUME NEW tau \in Models(TrustedClauses), Fits(alpha, tau, alpha_generation)
      PROVE  Holds(tau, l)
  <2>1. tau \in Assignment /\ Sat(tau, formula[h])
    BY <1>4, TrustedType
  <2> QED
    BY <1>1, <1>5, <1>6, <2>1, HintEntails
<1>7. /\ alpha \in [Var -> Nat] /\ alpha_generation \in Nat /\ GLOBAL_GEN \in Nat
      /\ gen \in Nat /\ Even(gen) /\ {l} \in SUBSET Lit
      /\ late = alpha_generation + 2
  BY <1>5, LsrAssumption DEF TypeOK, UpGeneration, Generations, GEN_INC
<1>8. gen = IF pc = "up" THEN cc_gen ELSE alpha_generation
  BY DEF UpGeneration
<1> HIDE DEF gen, late
<1>9. GlobalsEntailed'
  <2> SUFFICES ASSUME ~(Scanning /\ ~line.explicit)
               PROVE  Entails(alpha', Models(TrustedClauses), GLOBAL_GEN)
    BY <1>1, <1>2 DEF GlobalsEntailed, Scanning
  <2>1. Budgeted
    BY <1>1 DEF UpPoint, Budgeted, Scanning
  <2>2. gen + 1 < GLOBAL_GEN
    BY <1>8, <2>1, BelowGlobals
  <2>3. Entails(alpha, Models(TrustedClauses), GLOBAL_GEN)
    BY <1>1 DEF GlobalsEntailed, UpPoint, Final
  <2>4. ~(GLOBAL_GEN <= gen + 1)
    BY <1>7, <2>2
  <2> QED
    BY <1>1, <1>7, <2>3, <2>4, FitsStep DEF Entails
<1>10. CASE pc = "up"
  <2>1. Entails(alpha, Counterexamples, alpha_generation)
    BY <1>10 DEF LineEntailed
  <2>2. Entails(alpha', Counterexamples, alpha_generation)
    BY <1>1, <1>6, <1>7, <2>1, FitsStep, TrustedType DEF Entails
  <2> QED
    BY <1>1, <1>2, <1>3, <1>9, <1>10, <2>2 DEF LineEntailed, GroupEntailed
<1>11. CASE pc # "up"
  <2>1. /\ Entails(alpha, Counterexamples, late)
        /\ Entails(alpha, RATCounterexamples, alpha_generation)
    BY <1>1, <1>11 DEF GroupEntailed, UpPoint, late
  <2>2. ~(late <= gen + 1) /\ late \in Nat
    BY <1>7, <1>8, <1>11
  <2>3. Entails(alpha', Counterexamples, late)
    BY <1>1, <1>7, <2>1, <2>2, FitsStep DEF Entails
  <2>4. Entails(alpha', RATCounterexamples, alpha_generation)
    <3>1. RATCounterexamples \subseteq Models(TrustedClauses)
      BY TrustedType DEF RATCounterexamples
    <3> QED
      BY <1>1, <1>6, <1>7, <2>1, <3>1, FitsStep DEF Entails
  <2> QED
    BY <1>1, <1>2, <1>3, <1>9, <1>11, <2>3, <2>4
    DEF LineEntailed, GroupEntailed, UpPoint, late
<1> QED
  BY <1>10, <1>11

(* The negated image of a RAT clause holds of every counterexample that the  *)
(* witness turns into one of the clause.                                    *)
LEMMA OpenEntails ==
  ASSUME ReachableInv, Entailment, Opens
  PROVE  Entailment'
<1> USE DEF ReachableInv, CheckerInv, Bookkeeping, GenerationInv, Entailment
<1> DEFINE L == NegatedImage(Current)
           late == alpha_generation + GEN_INC
<1>1. /\ UNCHANGED <<formula, formula_size, deleted, line, subst, position, cursor,
                     checked, alpha_generation>>
      /\ alpha' = SetLits(L, alpha_generation)
      /\ \/ pc = "hints" /\ pc' = "hintsUp"
         \/ pc = "scan" /\ pc' = "scanUp"
  BY DEF Opens, AtClause, db, locals
<1>2. TrustedClauses' = TrustedClauses /\ Counterexamples' = Counterexamples
  BY <1>1, SameClauses
<1>3. RATCounterexamples' = RATCounterexamples /\ CheckedWitnessed'
  <2>1. \A tau, c : Witnessed(tau, c)' = Witnessed(tau, c)
    BY <1>1 DEF Witnessed
  <2>2. Current' = Current
    BY <1>1 DEF Current, Group
  <2> HIDE DEF Witnessed
  <2> QED
    BY <1>1, <1>2, <2>1, <2>2 DEF RATCounterexamples, CheckedWitnessed, Looping
<1>4. /\ alpha \in [Var -> Nat] /\ alpha_generation \in Nat /\ GLOBAL_GEN \in Nat
      /\ Even(alpha_generation) /\ late = alpha_generation + 2
  BY LsrAssumption DEF TypeOK, Generations, GEN_INC
<1>5. L \in SUBSET Lit
  BY Literals DEF NegatedImage
<1>6. ASSUME NEW tau \in RATCounterexamples
      PROVE  \A l \in L : Holds(tau, l)
  <2> SUFFICES ASSUME NEW m \in ImageOf(Current) \cap Lit
               PROVE  Holds(tau, -m)
    BY DEF NegatedImage
  <2>1. tau \in Assignment /\ ~Witnessed(tau, Current)
    BY TrustedType DEF RATCounterexamples
  <2>2. formula[Current] \in SUBSET Lit /\ subst \in Substitution
    BY CurrentType DEF Opens
  <2>3. ~Holds(tau, m)
    BY <2>1, <2>2, SatCompose DEF Witnessed, ImageOf
  <2>4. m \in Target
    BY DEF Target
  <2> QED
    BY <2>1, <2>3, <2>4, HoldsOpposite
<1>7. Entails(alpha, Counterexamples, alpha_generation)
  BY <1>1 DEF LineEntailed
<1> HIDE DEF L, late
<1>8. Entails(alpha', Counterexamples, late)
  <2>1. late \in Nat /\ alpha_generation <= late /\ ~(late <= alpha_generation + 1)
    BY <1>4
  <2>2. Entails(alpha, Counterexamples, late)
    BY <1>4, <1>7, <2>1, FitsLater DEF Entails
  <2> QED
    BY <1>1, <1>4, <1>5, <2>1, <2>2, FitsStep DEF Entails
<1>9. Entails(alpha', RATCounterexamples, alpha_generation)
  <2>1. RATCounterexamples \subseteq Counterexamples
    BY DEF RATCounterexamples
  <2> QED
    BY <1>1, <1>4, <1>5, <1>6, <1>7, <2>1, FitsStep DEF Entails
<1>10. GlobalsEntailed'
  <2> SUFFICES ASSUME ~(Scanning /\ ~line.explicit)
               PROVE  Entails(alpha', Models(TrustedClauses), GLOBAL_GEN)
    BY <1>1, <1>2 DEF GlobalsEntailed, Scanning
  <2>1. Budgeted
    BY <1>1 DEF Budgeted, Scanning
  <2>2. ~(GLOBAL_GEN <= alpha_generation + 1)
    BY <1>4, <2>1, BelowGlobals
  <2>3. Entails(alpha, Models(TrustedClauses), GLOBAL_GEN)
    BY <1>1 DEF GlobalsEntailed, Final
  <2> QED
    BY <1>1, <1>4, <1>5, <2>2, <2>3, FitsStep DEF Entails
<1> QED
  BY <1>1, <1>2, <1>3, <1>8, <1>9, <1>10 DEF LineEntailed, GroupEntailed, late

(* A passed RAT clause is satisfied once the witness is applied, and what    *)
(* its group assumed no longer shows.                                       *)
LEMMA PassEntails ==
  ASSUME ReachableInv, Entailment, ~ForwardHints, Passes
  PROVE  Entailment'
<1> USE DEF ReachableInv, CheckerInv, Bookkeeping, GenerationInv, Entailment
<1>1. /\ UNCHANGED <<formula, formula_size, deleted, line, subst, alpha>>
      /\ alpha_generation' = alpha_generation + GEN_INC
      /\ checked' = checked \cup {Current}
      /\ pc \in Looping /\ pc' = IF Scanning THEN "scan" ELSE "hints"
  BY DEF Passes, RATClausePassed, AtClause, Looping, Scanning, db
<1>2. TrustedClauses' = TrustedClauses /\ Counterexamples' = Counterexamples
  BY <1>1, SameClauses
<1>3. CheckedWitnessed'
  <2>1. \A tau, c : Witnessed(tau, c)' = Witnessed(tau, c)
    BY <1>1 DEF Witnessed
  <2>2. \A tau \in Counterexamples : Witnessed(tau, Current)
    BY PassWitnessed
  <2> HIDE DEF Witnessed
  <2> QED
    BY <1>1, <1>2, <2>1, <2>2 DEF CheckedWitnessed
<1>4. /\ alpha \in [Var -> Nat] /\ alpha_generation \in Nat
      /\ alpha_generation + GEN_INC \in Nat
      /\ alpha_generation <= alpha_generation + GEN_INC
  BY DEF TypeOK, GEN_INC
<1>5. Entails(alpha, Counterexamples, alpha_generation + GEN_INC)
  <2>1. CASE pc \in {"hints", "scan"}
    BY <1>4, <2>1, FitsLater DEF LineEntailed, Entails
  <2>2. CASE pc \in {"hintsUp", "scanUp"}
    BY <2>2 DEF GroupEntailed
  <2> QED
    BY <1>1, <2>1, <2>2 DEF Looping
<1>6. GlobalsEntailed'
  BY <1>1, <1>2 DEF GlobalsEntailed, Scanning, Looping, Final
<1> QED
  BY <1>1, <1>2, <1>3, <1>5, <1>6 DEF LineEntailed, GroupEntailed

(* A finished line leaves what is made forever: its clause only takes away   *)
(* models.                                                                  *)
LEMMA FinishEntails ==
  ASSUME ReachableInv, Entailment, Finishes
  PROVE  Entailment'
<1> USE DEF ReachableInv, CheckerInv, Bookkeeping, GenerationInv, Entailment
<1>1. PICK gen : FinishLine(gen)
  BY DEF Finishes, CandidateSatisfied, RefutedByHint, HintGroupsSuffice, ScanComplete
<1>2. pc \in Checking /\ UNCHANGED alpha /\ (Scanning => line.explicit)
  BY FallThroughIncomplete
  DEF Finishes, CandidateSatisfied, RefutedByHint, HintGroupsSuffice, ScanComplete,
      Checking, Scanning
<1>3. pc' \in {"UNSAT", "read"} /\ TrustedClauses \subseteq TrustedClauses'
  BY <1>1, <1>2, FinishedClauses
<1>4. Models(TrustedClauses') \subseteq Models(TrustedClauses)
  BY <1>3 DEF Models
<1>5. Entails(alpha, Models(TrustedClauses), GLOBAL_GEN)
  BY <1>2 DEF GlobalsEntailed, Checking, Final
<1>6. GlobalsEntailed'
  BY <1>2, <1>4, <1>5 DEF GlobalsEntailed, Entails
<1> QED
  BY <1>3, <1>6 DEF LineEntailed, GroupEntailed, CheckedWitnessed, Looping

(* A deletion may come only before the first assignment made forever.        *)
LEMMA DeletionEntails ==
  ASSUME ReachableInv, Entailment, ~LateDeletions, Deletes
  PROVE  Entailment'
<1> USE DEF ReachableInv, CheckerInv, Bookkeeping, Entailment
<1>1. pc = "read" /\ pc' \in {"read", "CRASH"} /\ UNCHANGED alpha
  BY DEF Deletes, assignment
<1>2. CASE TrustedClauses' = TrustedClauses
  BY <1>1, <1>2
  DEF GlobalsEntailed, LineEntailed, GroupEntailed, CheckedWitnessed, Looping,
      Scanning, Final
<1>3. CASE NoGlobalUnits
  <2>1. \A l \in Lit : ~Shows(alpha, GLOBAL_GEN, l)
    <3> SUFFICES ASSUME NEW l \in Lit
                 PROVE  ~Shows(alpha, GLOBAL_GEN, l)
      OBVIOUS
    <3>1. VarOf(l) \in Var /\ GLOBAL_GEN \in Nat /\ alpha[VarOf(l)] \in Nat
      BY Literals, LsrAssumption DEF TypeOK
    <3> QED
      BY <1>3, <3>1 DEF NoGlobalUnits, Shows
  <2>2. \A tau : Fits(alpha', tau, GLOBAL_GEN)
    BY <1>1, <2>1 DEF Fits
  <2> QED
    BY <1>1, <2>2
    DEF GlobalsEntailed, LineEntailed, GroupEntailed, CheckedWitnessed, Looping,
        Entails
<1> QED
  BY <1>2, <1>3, DeletedClauses

(* Nothing is assigned when the formula is parsed.                          *)
LEMMA InitEntails == Init => Entailment
<1> SUFFICES ASSUME Init
             PROVE  Entailment
  OBVIOUS
<1>1. pc = "prepare" /\ alpha = [v \in Var |-> 0]
  BY DEF Init
<1>2. \A tau : Fits(alpha, tau, GLOBAL_GEN)
  <2> SUFFICES ASSUME NEW l \in Lit
               PROVE  ~Shows(alpha, GLOBAL_GEN, l)
    BY DEF Fits
  <2>1. alpha[VarOf(l)] = 0
    BY <1>1, Literals
  <2>2. GLOBAL_GEN \in Nat /\ GLOBAL_GEN > 0
    BY LsrAssumption
  <2> QED
    BY <2>1, <2>2 DEF Shows
<1> QED
  BY <1>1, <1>2
  DEF Entailment, GlobalsEntailed, LineEntailed, GroupEntailed, CheckedWitnessed,
      Looping, Entails

(* Every step leaves what the assignment says entailed.                      *)
LEMMA EntailmentStep ==
  ASSUME ReachableInv, Entailment, ~ForwardHints, ~LateDeletions, [Next]_vars
  PROVE  Entailment'
<1> USE DEF ReachableInv, CheckerInv, Bookkeeping, GenerationInv, Entailment
<1>1. ASSUME pc' \in Final
      PROVE  Entailment'
  BY <1>1 DEF GlobalsEntailed, LineEntailed, GroupEntailed, CheckedWitnessed,
              Looping, Final
<1>2. ASSUME UNCHANGED <<pc, formula, formula_size, deleted, line, subst, alpha,
                         alpha_generation, checked>>,
             pc \in {"hintsUp", "scanUp"} => UNCHANGED <<cursor, position>>
      PROVE  Entailment'
  <2>1. TrustedClauses' = TrustedClauses /\ Counterexamples' = Counterexamples
    BY <1>2, SameClauses
  <2>2. \A tau, c : Witnessed(tau, c)' = Witnessed(tau, c)
    BY <1>2 DEF Witnessed
  <2>3. pc \in {"hintsUp", "scanUp"} => Current' = Current
    BY <1>2 DEF Current, Group
  <2> HIDE DEF Witnessed
  <2>4. pc \in {"hintsUp", "scanUp"} => RATCounterexamples' = RATCounterexamples
    BY <2>1, <2>2, <2>3 DEF RATCounterexamples
  <2> QED
    BY <1>2, <2>1, <2>2, <2>4
    DEF GlobalsEntailed, LineEntailed, GroupEntailed, CheckedWitnessed, Scanning
<1>3. CASE Quiet \/ SkipClause
  BY <1>2, <1>3 DEF Quiet, SkipClause, db, assignment, locals
<1>4. CASE Stops
  BY <1>1, <1>4 DEF Stops
<1>5. CASE Prepare
  <2>1. /\ pc = "prepare" /\ pc' = "read"
        /\ UNCHANGED <<formula, formula_size, deleted, line, alpha>>
    BY <1>5 DEF Prepare, db, assignment, locals
  <2>2. TrustedClauses' = TrustedClauses
    BY <2>1, SameClauses
  <2> QED
    BY <2>1, <2>2 DEF GlobalsEntailed, LineEntailed, GroupEntailed,
                      CheckedWitnessed, Looping, Scanning, Final
<1>6. ASSUME NEW id \in Ids, NEW ln \in ProofLines, AddLine(id, ln)
      PROVE  Entailment'
  <2>1. pc = "read" /\ pc' = "assume" /\ UNCHANGED alpha
    BY <1>6 DEF AddLine, assignment
  <2>2. TrustedClauses' = TrustedClauses
    BY <1>6, AddedClauses
  <2> QED
    BY <2>1, <2>2 DEF GlobalsEntailed, LineEntailed, GroupEntailed,
                      CheckedWitnessed, Looping, Scanning, Final
<1>7. CASE AssumeSubst \/ HintGroupsMissing
  <2>1. /\ UNCHANGED <<formula, formula_size, deleted, line, alpha, alpha_generation>>
        /\ checked' = {} /\ pc \in {"up", "hints"} /\ pc' \in {"hints", "scan"}
    BY <1>7 DEF AssumeSubst, HintGroupsMissing, db, assignment, ScanInv, NothingChecked
  <2>2. TrustedClauses' = TrustedClauses /\ Counterexamples' = Counterexamples
    BY <2>1, SameClauses
  <2> QED
    BY <2>1, <2>2 DEF GlobalsEntailed, LineEntailed, GroupEntailed,
                      CheckedWitnessed, Scanning, Final
<1> QED
  BY <1>3, <1>4, <1>5, <1>6, <1>7, StepKinds, GlobalUnitEntails, UnitHintEntails,
     NegatedCandidateEntails, OpenEntails, PassEntails, FinishEntails,
     DeletionEntails DEF Turns

-----------------------------------------------------------------------------
(***************************************************************************)
(* The clause that is added.                                                *)
(***************************************************************************)

(* The witness does not leave the candidate alone: it changes the pivot.     *)
LEMMA PivotReduced ==
  ASSUME CheckerInv, PivotsMoved, pc \in Looping
  PROVE  ~NotReduced(candidate)
<1> USE DEF CheckerInv, Bookkeeping
<1> DEFINE v == VarOf(line.pivot)
<1>1. /\ line \in ProofLines /\ line \in LineHead /\ LineShape(line)
      /\ ParserAccepts(line) /\ line.clause # {} /\ subst = WitnessSubst
      /\ line.clause = formula[candidate]
  BY LsrAssumption DEF ScanInv, Scanned, LineInProgress, Checking, Looping
<1>2. line.pivot \in Lit /\ line.pivot \in formula[candidate]
  BY <1>1 DEF LineHead, LineShape
<1>3. CASE v \in line.mapped
  <2>1. v \in Var /\ WitnessSubst[v] = line.map[v] /\ line.map[v] \in Lit
    BY <1>1, <1>2, <1>3, Literals DEF WitnessSubst, LineHead
  <2>2. line.map[v] # v
    BY <1>1, <1>3 DEF PivotsMoved
  <2>3. /\ line.pivot \in Int /\ line.map[v] \in Int
        /\ v = IF line.pivot > 0 THEN line.pivot ELSE -line.pivot
    BY <1>2, <2>1, Literals DEF VarOf
  <2>4. MapLit(subst, line.pivot) = IF line.pivot > 0 THEN line.map[v] ELSE -line.map[v]
    BY <1>1, <2>1, <2>3 DEF MapLit
  <2> HIDE DEF v
  <2>5. MapLit(subst, line.pivot) # line.pivot
    BY <2>2, <2>3, <2>4
  <2> QED
    BY <1>2, <2>5 DEF NotReduced
<1>4. CASE v \notin line.mapped
  <2>1. MapLit(subst, line.pivot) = SUBST_TT
    BY <1>1, <1>4, PivotImage DEF ParserAccepts
  <2> QED
    BY <1>2, <2>1, Literals DEF NotReduced
<1> QED
  BY <1>3, <1>4

(* A counterexample that the witness has changed satisfies the formula and   *)
(* the candidate.                                                           *)
LEMMA WitnessRepairs ==
  ASSUME ReachableInv, Entailment, PivotsMoved, pc \in Looping,
         \A c \in Trusted \cup {candidate} : Untouched(c) \/ c \in checked,
         NEW tau \in Counterexamples
  PROVE  Compose(tau, subst) \in Models(TrustedClauses \cup {line.clause})
<1> USE DEF ReachableInv, CheckerInv, Bookkeeping, Entailment
<1>1. /\ tau \in Assignment /\ tau \in Models(TrustedClauses)
      /\ subst \in Substitution /\ line.clause = formula[candidate]
  BY TrustedType DEF TypeOK, LineInProgress, Checking, Looping
<1>2. ASSUME NEW c \in Trusted \cup {candidate}
      PROVE  Witnessed(tau, c)
  <2>1. formula[c] \in SUBSET Lit
    BY TrustedType
  <2>2. Witnessed(tau, c) <=> \E m \in ImageOf(c) : Holds(tau, m)
    BY <1>1, <2>1, SatCompose DEF Witnessed, ImageOf
  <2>3. CASE SatisfiedBySubst(c)
    BY <1>1, <2>2, <2>3, HoldsConstant DEF SatisfiedBySubst
  <2>4. CASE NotReduced(c)
    <3>1. c \in Trusted
      BY <2>4, PivotReduced
    <3>2. Sat(tau, formula[c])
      BY <1>1, <3>1, TrustedType
    <3>3. ImageOf(c) = formula[c]
      BY <2>4 DEF NotReduced, ImageOf, Image
    <3> QED
      BY <2>2, <3>2, <3>3 DEF Sat
  <2>5. CASE c \in checked
    BY <2>5 DEF CheckedWitnessed
  <2> QED
    BY <2>3, <2>4, <2>5 DEF Untouched
<1>3. Compose(tau, subst) \in Assignment
  BY DEF Compose, Assignment
<1> QED
  BY <1>1, <1>2, <1>3 DEF Models, TrustedClauses, Witnessed

(* A line is finished only when its clause keeps a satisfiable formula       *)
(* satisfiable, whichever way it is finished.                               *)
LEMMA FinishSound ==
  ASSUME ReachableInv, Entailment, ~ForwardHints, PivotsMoved, Finishes,
         NEW tau \in Models(TrustedClauses)
  PROVE  Satisfiable(TrustedClauses \cup {line.clause})
<1> USE DEF ReachableInv, CheckerInv, Bookkeeping, GenerationInv
<1>1. tau \in Assignment /\ line.clause \in SUBSET Lit
  BY TrustedType DEF TypeOK, LineHead
<1> SUFFICES ASSUME tau \in Counterexamples
             PROVE  Satisfiable(TrustedClauses \cup {line.clause})
  BY <1>1 DEF Counterexamples, Satisfiable, Models
<1>2. CASE CandidateSatisfied
  <2>1. PICK l \in line.clause : TrueAt(LineGeneration, l)
    BY <1>2 DEF CandidateSatisfied
  <2>2. Fits(alpha, tau, LineGeneration)
    BY <1>2, LineStart DEF CandidateSatisfied, Entails
  <2>3. Holds(tau, l)
    BY <1>1, <2>1, <2>2 DEF Fits, Shows, TrueAt
  <2> QED
    BY <2>1, <2>3 DEF Counterexamples, Sat
<1>3. ASSUME NEW h, RefutedByHint(h)
      PROVE  FALSE
  <2>1. pc = "up" /\ Hint(h) /\ Contradiction(formula[h])
    BY <1>3 DEF RefutedByHint
  <2>2. h \in Trusted
    BY <2>1, HintTrusted DEF UpPoint
  <2>3. Sat(tau, formula[h]) /\ formula[h] \in SUBSET Lit
    BY <2>2, TrustedType
  <2>4. Fits(alpha, tau, alpha_generation)
    BY <2>1 DEF Entailment, LineEntailed, Entails
  <2> QED
    BY <1>1, <2>1, <2>3, <2>4, HintEntails
<1>4. CASE HintGroupsSuffice \/ ScanComplete
  <2>1. pc \in Looping
    BY <1>4 DEF HintGroupsSuffice, ScanComplete, Looping
  <2>2. \A c \in Trusted \cup {candidate} : Untouched(c) \/ c \in checked
    BY <1>4, AcceptedLineCovers DEF HintGroupsSuffice, ScanComplete
  <2> QED
    BY <2>1, <2>2, WitnessRepairs DEF Satisfiable
<1> QED
  BY <1>2, <1>3, <1>4 DEF Finishes

-----------------------------------------------------------------------------
(***************************************************************************)
(* The refinement: every step of the checker is one of the abstract proof    *)
(* system, or none.                                                         *)
(***************************************************************************)

(* The two modules speak of the same clauses.                               *)
LEMMA SameLogic ==
  /\ Abstract!Lit = Lit
  /\ \A T : Abstract!Models(T) = Models(T) /\ (Abstract!Satisfiable(T) <=> Satisfiable(T))
BY DEF Abstract!Lit, Lit, Abstract!Models, Models, Abstract!Satisfiable, Satisfiable,
       Abstract!Assignment, Assignment, Abstract!Sat, Sat, Abstract!Holds, Holds

(* A finished line adds its clause or refutes the formula.                  *)
LEMMA FinishMaps ==
  ASSUME ReachableInv, Entailment, ~ForwardHints, PivotsMoved, Finishes
  PROVE  Abstract!Add \/ Abstract!Refute
<1> USE DEF ReachableInv, CheckerInv
<1>1. PICK gen : FinishLine(gen) /\ pc \in Checking
  BY DEF Finishes, CandidateSatisfied, RefutedByHint, HintGroupsSuffice,
         ScanComplete, Checking
<1>2. Satisfiable(TrustedClauses) => Satisfiable(TrustedClauses \cup {line.clause})
  BY FinishSound DEF Satisfiable
<1>3. CnfClauses' = CnfClauses /\ line.clause \in SUBSET Lit /\ verdict = "none"
  BY <1>1, FinishedClauses DEF Bookkeeping, TypeOK, LineHead, verdict, Final, Checking
<1>4. CASE line.clause = {}
  <2>1. TrustedClauses' = TrustedClauses /\ verdict' = "UNSAT"
    BY <1>1, <1>4, FinishedClauses DEF verdict, Final
  <2>2. ~Satisfiable(TrustedClauses \cup {line.clause})
    BY <1>4 DEF Satisfiable, Models, Sat
  <2> QED
    BY <1>2, <1>3, <2>1, <2>2, SameLogic DEF Abstract!Refute
<1>5. CASE line.clause # {}
  <2>1. TrustedClauses' = TrustedClauses \cup {line.clause} /\ verdict' = "none"
    BY <1>1, <1>5, FinishedClauses DEF verdict, Final
  <2> QED
    BY <1>2, <1>3, <2>1, SameLogic DEF Abstract!Add
<1> QED
  BY <1>4, <1>5

(* The tautologies that parse_cnf() deletes have every model.               *)
LEMMA InitMaps == Init => Abstract!Init
<1> SUFFICES ASSUME Init
             PROVE  Abstract!Init
  OBVIOUS
<1>1. PICK cnf \in CNFs : Init!(cnf)
  BY DEF Init
<1>2. /\ cnf \in [CnfIds -> (SUBSET Lit) \ {{}}]
      /\ CnfIds \subseteq Slots /\ CnfIds = 1..formula_size
      /\ deleted = {c \in CnfIds : Tautology(cnf[c])}
  BY <1>1, LsrAssumption DEF CnfIds, Slots
<1>3. \A c \in CnfIds : formula[c] = cnf[c] /\ cnf[c] \subseteq Lit /\ cnf[c] # {}
  BY <1>1, <1>2
<1>4. Trusted = CnfIds \ deleted
  BY <1>1, <1>2, <1>3 DEF Trusted, Live
<1>5. TrustedClauses \subseteq CnfClauses /\ CnfClauses \subseteq SUBSET Lit
  BY <1>3, <1>4 DEF TrustedClauses, CnfClauses
<1>6. ASSUME NEW tau \in Assignment, NEW c \in deleted
      PROVE  Sat(tau, formula[c])
  <2>1. PICK l \in formula[c] : -l \in formula[c]
    BY <1>2, <1>3 DEF Tautology
  <2>2. l \in Target
    BY <1>2, <1>3 DEF Target
  <2>3. Holds(tau, l) \/ Holds(tau, -l)
    BY <2>2, HoldsOpposite
  <2> QED
    BY <2>1, <2>3 DEF Sat
<1>7. Models(CnfClauses) = Models(TrustedClauses)
  BY <1>4, <1>6 DEF Models, TrustedClauses, CnfClauses
<1>8. verdict = "none"
  BY <1>1 DEF verdict, Final
<1> QED
  BY <1>5, <1>7, <1>8, SameLogic DEF Abstract!Init

(* Every step maps to a step of the proof system or to a stutter.            *)
LEMMA StepMaps ==
  ASSUME ReachableInv, Entailment, ~ForwardHints, PivotsMoved, [Next]_vars
  PROVE  [Abstract!Next]_(Abstract!vars)
<1> USE DEF ReachableInv, CheckerInv
<1>1. ASSUME UNCHANGED <<formula, formula_size, deleted, line>>
      PROVE  TrustedClauses' = TrustedClauses /\ CnfClauses' = CnfClauses
  <2>1. CnfClauses' = CnfClauses
    BY <1>1 DEF CnfClauses
  <2> QED
    BY <1>1, <2>1, SameClauses
<1>2. ASSUME UNCHANGED <<formula, formula_size, deleted, line>>,
             pc' = pc \/ {pc, pc'} \cap Final = {}
      PROVE  UNCHANGED Abstract!vars
  BY <1>1, <1>2 DEF Abstract!vars, verdict
<1>3. CASE Quiet
  BY <1>2, <1>3 DEF Quiet, db, locals
<1>4. CASE Stops
  <2>1. TrustedClauses' = TrustedClauses /\ CnfClauses' = CnfClauses
    BY <1>1, <1>4 DEF Stops, db, locals
  <2>2. verdict = "none" /\ verdict' \in {"VALID", "FATAL", "CRASH"}
    BY <1>4 DEF Stops, verdict, Final
  <2> QED
    BY <2>1, <2>2 DEF Abstract!Next, Abstract!Stop
<1>5. CASE Deletes
  <2>1. TrustedClauses' \subseteq TrustedClauses
    BY <1>5, DeletedClauses
  <2>2. CnfClauses' = CnfClauses
    BY <1>5 DEF Deletes, CnfClauses
  <2>3. verdict = "none" /\ verdict' \in {"none", "CRASH"}
    BY <1>5 DEF Deletes, verdict, Final
  <2> QED
    BY <2>1, <2>2, <2>3 DEF Abstract!Next, Abstract!Delete
<1>6. ASSUME NEW id \in Ids, NEW ln \in ProofLines, AddLine(id, ln)
      PROVE  UNCHANGED Abstract!vars
  <2>1. verdict' = verdict
    BY <1>6 DEF AddLine, verdict, Final
  <2> QED
    BY <1>6, <2>1, AddedClauses DEF Abstract!vars
<1>7. CASE Finishes
  BY <1>7, FinishMaps DEF Abstract!Next
<1>8. ASSUME NEW line_id, NEW l, NEW c, GlobalUnit(line_id, l, c) \/ UnitHint(c, l)
      PROVE  UNCHANGED Abstract!vars
  BY <1>2, <1>8 DEF GlobalUnit, UnitHint, db, locals
<1>9. CASE Prepare \/ AssumeNegatedCandidate \/ Turns
  <2>1. UNCHANGED <<formula, formula_size, deleted, line>>
    BY <1>9 DEF Prepare, AssumeNegatedCandidate, Turns, HintGroupsMissing,
                SkipClause, AssumeSubst, db, locals
  <2>2. {pc, pc'} \cap Final = {}
    BY <1>9 DEF Prepare, AssumeNegatedCandidate, Turns, HintGroupsMissing,
                SkipClause, AssumeSubst, Final
  <2> QED
    BY <1>2, <2>1, <2>2
<1>10. CASE Opens \/ Passes
  <2>1. UNCHANGED <<formula, formula_size, deleted, line>>
    BY <1>10 DEF Opens, Passes, RATClausePassed, db, locals
  <2>2. {pc, pc'} \cap Final = {}
    BY <1>10 DEF Opens, Passes, AtClause, RATClausePassed, Final
  <2> QED
    BY <1>2, <2>1, <2>2
<1> QED
  BY <1>3, <1>4, <1>5, <1>6, <1>7, <1>8, <1>9, <1>10, StepKinds

-----------------------------------------------------------------------------
(***************************************************************************)
(* The theorems.                                                            *)
(***************************************************************************)

(* The invariant, of proofs without forward hints and late deletions.        *)
LEMMA EntailmentInvariant ==
  ASSUME ~ForwardHints, ~LateDeletions
  PROVE  Spec => [](ReachableInv /\ Entailment)
<1>1. Spec => []ReachableInv
  BY CheckerInvariant DEF ReachableInv
<1>2. Init => Entailment
  BY InitEntails
<1>3. ReachableInv /\ Entailment /\ [Next]_vars => Entailment'
  BY EntailmentStep
<1> QED
  BY <1>1, <1>2, <1>3, PTL DEF Spec

(* What the stamps of lsr-check's partial assignment say follows from what   *)
(* the checker may cite: between lines from the formula, during a line from *)
(* the formula and the negated candidate, in a hint group from those and the *)
(* negated RAT clause.  No stamp of an earlier line or group shows, however  *)
(* the generations are set aside and taken back.                            *)
THEOREM AssignmentSound ==
  ASSUME ~ForwardHints, ~LateDeletions
  PROVE  Spec => []AssignmentEntailed
<1>1. ReachableInv /\ Entailment => AssignmentEntailed
  <2> SUFFICES ASSUME ReachableInv, Entailment
               PROVE  AssignmentEntailed
    OBVIOUS
  <2>1. \A tau, gen : Agrees(tau, gen) <=> Fits(alpha, tau, gen)
    BY DEF Agrees, Fits, TrueAt, Shows
  <2>2. pc \in {"read", "assume"} =>
          \A tau \in Models(TrustedClauses) : Agrees(tau, LineGeneration)
    BY <2>1, LineStart DEF Entails
  <2>3. pc \in {"up", "hints", "scan"} =>
          \A tau \in Counterexamples : Agrees(tau, alpha_generation)
    BY <2>1 DEF Entailment, LineEntailed, Entails
  <2>4. pc \in {"hintsUp", "scanUp"} =>
          \A tau \in Counterexamples :
            ~Sat(Compose(tau, subst), formula[RATClause]) =>
              Agrees(tau, alpha_generation)
    <3>1. pc \in {"hintsUp", "scanUp"} => RATClause = Current
      BY DEF RATClause, Current, Group
    <3> QED
      BY <2>1, <3>1
      DEF Entailment, GroupEntailed, Entails, RATCounterexamples, Witnessed
  <2> QED
    BY <2>2, <2>3, <2>4 DEF AssignmentEntailed
<1> QED
  BY <1>1, EntailmentInvariant, PTL

(* lsr-check, its deletions, hint groups, substitution witnesses and global  *)
(* units included, is a clausal proof checker: it only ever adds clauses that *)
(* keep a satisfiable database satisfiable, and it refutes only an           *)
(* unsatisfiable one.                                                       *)
THEOREM ImplementsRedundancy ==
  ASSUME ~ForwardHints, ~LateDeletions, PivotsMoved
  PROVE  Spec => Refinement
<1>1. ReachableInv /\ Entailment /\ [Next]_vars => [Abstract!Next]_(Abstract!vars)
  BY StepMaps
<1> QED
  BY <1>1, InitMaps, EntailmentInvariant, PTL DEF Spec, Refinement, Abstract!Spec

(* "VERIFIED UNSAT" is printed of unsatisfiable formulas only: the abstract   *)
(* steps never take a satisfiable formula to an unsatisfiable database.      *)
THEOREM VerdictCorrect ==
  ASSUME ~ForwardHints, ~LateDeletions, PivotsMoved
  PROVE  Spec => []VerdictSound
<1> DEFINE Sound == /\ Satisfiable(CnfClauses) => Satisfiable(TrustedClauses)
                    /\ verdict = "UNSAT" => ~Satisfiable(CnfClauses)
<1>1. Abstract!Init => Sound
  BY SameLogic DEF Abstract!Init, Satisfiable
<1>2. Sound /\ [Abstract!Next]_(Abstract!vars) => Sound'
  <2> SUFFICES ASSUME Sound, [Abstract!Next]_(Abstract!vars)
               PROVE  Sound'
    OBVIOUS
  <2>1. CASE UNCHANGED Abstract!vars
    BY <2>1 DEF Abstract!vars
  <2>2. CASE Abstract!Delete
    <3>1. Models(TrustedClauses) \subseteq Models(TrustedClauses')
      BY <2>2 DEF Abstract!Delete, Models
    <3> QED
      BY <2>2, <3>1 DEF Abstract!Delete, Satisfiable
  <2>3. CASE Abstract!Add
    BY <2>3, SameLogic DEF Abstract!Add
  <2>4. CASE Abstract!Refute \/ Abstract!Stop
    BY <2>4, SameLogic DEF Abstract!Refute, Abstract!Stop
  <2> QED
    BY <2>1, <2>2, <2>3, <2>4 DEF Abstract!Next
<1>3. Sound => VerdictSound
  BY DEF VerdictSound, verdict, Final
<1> HIDE DEF Sound
<1> QED
  BY <1>1, <1>2, <1>3, ImplementsRedundancy, PTL DEF Refinement, Abstract!Spec
=============================================================================
