-------------------------------- MODULE Lsr --------------------------------
(***************************************************************************)
(* The LSR proofs that dsr-trim prints, and what lsr-check does with a whole *)
(* proof, as a function of it: the reference for what dsr-trim emits.  How   *)
(* lsr-check keeps its state while it does so is in LsrCheck.                *)
(*                                                                         *)
(* A database maps the identifiers of its clauses to sets of literals.       *)
(***************************************************************************)
EXTENDS Witness, FiniteSets

(* A line of the proof.                                                     *)
DeletionLine(ids) == [delete |-> ids, id |-> 0]

AdditionLine(id, C, w, hints, groups) ==
  [delete |-> {}, id |-> id, clause |-> C, witness |-> w, hints |-> hints,
   groups |-> groups]

Group(c, hints) == [clause |-> c, hints |-> hints]

Negated(C) == {-l : l \in C}

Refused == {0}

(* Clause c is unit under the literals B, and makes its last literal true.    *)
PropagateHint(db, B, c) ==
  LET open == {l \in db[c] : -l \notin B}
  IN  IF B = Refused \/ c \notin DOMAIN db THEN Refused
      ELSE IF open \cap B # {} \/ Cardinality(open) # 1 THEN Refused
      ELSE B \cup open

(* The literals true after the hints hs have been propagated in turn.        *)
Propagate(db, A, hs) ==
  LET after[n \in 0..Len(hs)] ==
        IF n = 0 THEN A ELSE PropagateHint(db, after[n - 1], hs[n])
  IN  after[Len(hs)]

(* The last hint is false once the others have been propagated.              *)
Refutes(db, A, hs) ==
  /\ hs # << >> /\ Last(hs) \in DOMAIN db
  /\ LET B == Propagate(db, A, Front(hs))
     IN  B # Refused /\ \A l \in db[Last(hs)] : -l \in B

ImageRefuted(db, A, D, hs) ==
  D \cap A # {} \/ Tautology(D) \/ Refutes(db, A \cup Negated(D), hs)

(* Clause c, of the formula or the candidate, under the witness: left alone,
   or refuted by the group of hints it has.                                 *)
WitnessHolds(db, ln, A, c, C) ==
  LET s == Subst(ln.witness)
      left == Image(s, C) \ {SUBST_FF}
  IN  \/ SUBST_TT \in left
      \/ \A l \in C : MapLit(s, l) = l
      \/ /\ left # {}
         /\ \E g \in ToSet(ln.groups) :
              g.clause = c /\ ImageRefuted(db, A, left, g.hints)

LineHolds(db, ln) ==
  LET A == Negated(ln.clause)
      B == Propagate(db, A, ln.hints)
  IN  \/ Refutes(db, A, ln.hints)
      \/ /\ B # Refused /\ ln.clause # {}
         /\ ~SetTwice(ln.witness)
         /\ \A c \in DOMAIN db : WitnessHolds(db, ln, B, c, db[c])
         /\ WitnessHolds(db, ln, B, ln.id, ln.clause)

Without(db, ids) == [c \in DOMAIN db \ ids |-> db[c]]

With(db, c, C) == [n \in DOMAIN db \cup {c} |-> IF n = c THEN C ELSE db[n]]

(* The identifiers of the lines that lsr-check refuses, if each is added
   anyway; 0 if a clause is deleted that is not there.                      *)
RefusedLines(db, proof) ==
  LET Check(st, ln) ==
        IF ln.id = 0
        THEN [db |-> Without(st.db, ln.delete),
              refused |-> st.refused
                \cup (IF ln.delete \subseteq DOMAIN st.db THEN {} ELSE {0})]
        ELSE [db |-> With(st.db, ln.id, ln.clause),
              refused |-> st.refused
                \cup (IF LineHolds(st.db, ln) THEN {} ELSE {ln.id})]
  IN  FoldLeft(Check, [db |-> db, refused |-> {}], proof).refused
=============================================================================
