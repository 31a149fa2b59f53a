--------------------------- MODULE DsrForwardProofs ---------------------------
(***************************************************************************)
(* The trail, the reasons, the levels, the watches, the completeness of       *)
(* propagation and the hints that are emitted in the forward check, for       *)
(* every formula and every proof.                                            *)
(***************************************************************************)
EXTENDS DsrForward, DsrTrailProofs

(***************************************************************************)
(* The inductive invariant: the trail of DsrTrailProofs, and what the data   *)
(* of this mode and each pc add to it.                                      *)
(***************************************************************************)
States == {"load", "add", "up", "re-up", "falsified", "rat", "refuted", "reduced", "read",
           "UNSAT", "VALID", "FATAL"}

ForwardTypes ==
  /\ global_up \in Nat \ {0}
  /\ i \in Nat /\ j \in Nat
  /\ derived_empty_clause \in BOOLEAN
  /\ loaded \in 0..Len(clauses)
  /\ deleted \subseteq 1..loaded
  /\ pc \in States

(* Only the last clause may be empty, until it ends the proof.               *)
EmptyLast ==
  \A c \in 1..Len(clauses) :
    clauses[c] = << >> => c = Len(clauses) /\ (c = loaded => derived_empty_clause)

(* The clause whose addition refuted the formula may have no watches.        *)
Bare == IF derived_empty_clause THEN {loaded} ELSE {}

(* Where the loop over the lines of the proof is.                           *)
Control ==
  /\ pc \in {"load", "add", "read", "re-up", "VALID"} => up_state = "GLOBAL_UP"
  /\ pc \in {"rat", "refuted", "reduced"} => up_state = "CANDIDATE_UP"
  /\ up_state # "GLOBAL_UP" => loaded + 1 = Len(clauses)
  /\ pc \in {"load", "add"} => loaded < Len(clauses)
  /\ pc = "add" => loaded + 1 = Len(clauses)
  /\ pc \in {"read", "re-up"} => loaded = Len(clauses)
  /\ derived_empty_clause => up_state = "GLOBAL_UP" /\ pc \in {"up", "falsified", "UNSAT"}
  /\ pc \in {"up", "re-up"} => i >= 1 /\ j >= 1

ForwardInv == ForwardTypes /\ EmptyLast /\ Control /\ TrailInv(Live, Bare, Candidate)

LEMMA Facts ==
  ASSUME ForwardInv
  PROVE  /\ TrailTypes /\ ClausesProper /\ TrailExact /\ Levels(Candidate) /\ Control
         /\ Len(units) \in Nat /\ Len(clauses) \in Nat
         /\ clauses \in Seq(Seq(Lit)) /\ units \in Seq(Unit)
         /\ loaded \in Nat /\ loaded <= Len(clauses)
         /\ global_up \in Nat \ {0}
         /\ Live \subseteq 1..Len(clauses) /\ Live \subseteq Nat
         /\ \A c \in Live : c >= 1 /\ c <= loaded
         /\ \A n \in 1..Len(units) : units[n].lit \in Lit /\ units[n].clause \in Nat
         /\ \A c \in 1..Len(clauses) : Proper(clauses[c]) /\ clauses[c] \in Seq(Lit)
<1>1. /\ TrailTypes /\ ClausesProper /\ TrailExact /\ Levels(Candidate)
      /\ Live \subseteq 1..Len(clauses) /\ ForwardTypes /\ Control
  BY DEF ForwardInv, TrailInv
<1>2. /\ Len(clauses) \in Nat /\ clauses \in Seq(Seq(Lit)) /\ units \in Seq(Unit)
      /\ Len(units) \in Nat
  BY <1>1, UnitTypes DEF TrailTypes
<1>3. loaded \in Nat /\ loaded <= Len(clauses) /\ global_up \in Nat \ {0}
  BY <1>1, <1>2 DEF ForwardTypes
<1>4. \A c \in Live : c \in Nat /\ c >= 1 /\ c <= loaded
  BY <1>3 DEF Live
<1>5. \A n \in 1..Len(units) : units[n].lit \in Lit /\ units[n].clause \in Nat
  BY <1>1, UnitTypes
<1>6. \A c \in 1..Len(clauses) : Proper(clauses[c]) /\ clauses[c] \in Seq(Lit)
  BY <1>1 DEF ClausesProper, Proper
<1> QED
  BY <1>1, <1>2, <1>3, <1>4, <1>5, <1>6

(* The trail of the next state, of the clauses it was shown for.             *)
LEMMA Ends ==
  ASSUME NEW live, NEW bare, NEW C, TrailInv(live, bare, C)', live = Live', bare = Bare',
         up_state' = "GLOBAL_UP" \/ C = Candidate',
         ForwardTypes', EmptyLast', Control'
  PROVE  ForwardInv'
<1>1. Levels(C)' => Levels(Candidate)'
  BY DEF Levels
<1>2. TrailInv(Live, Bare, Candidate)'
  BY <1>1 DEF TrailInv
<1> QED
  BY <1>2 DEF ForwardInv

-----------------------------------------------------------------------------
(***************************************************************************)
(* Unit propagation.                                                        *)
(***************************************************************************)
LEMMA Visited ==
  ASSUME ForwardInv, Visiting
  PROVE  /\ Visits /\ TrailInv(Live, Bare, Candidate)
         /\ pc \in {"up", "re-up"} /\ i \in Nat \ {0} /\ j \in Nat \ {0}
<1>1. /\ i >= 1 /\ j >= 1 /\ i \in Nat /\ j \in Nat /\ i <= Len(units)
      /\ j <= Len(wps[FalsifiedLit]) /\ pc \in {"up", "re-up"}
  BY DEF ForwardInv, ForwardTypes, Control, Visiting, Propagating
<1>2. Len(units) \in Nat /\ units \in Seq(Unit)
  BY Facts
<1>3. i \in 1..Len(units)
  BY <1>1, <1>2
<1>4. FalsifiedLit \in Lit
  <2>1. units[i].lit \in Lit
    BY <1>3, Facts, UnitTypes
  <2> QED
    BY <2>1, LitFacts DEF FalsifiedLit
<1>5. wps[FalsifiedLit] \in Seq(Nat)
  BY <1>4, Facts DEF TrailTypes
<1>6. j \in 1..Len(wps[FalsifiedLit])
  BY <1>1, <1>5
<1> QED
  BY <1>1, <1>3, <1>6 DEF Visits, ForwardInv

(* What the lemmas of the trail say of the clause that is visited.           *)
LEMMA Watching ==
  ASSUME ForwardInv, Visiting
  PROVE  /\ FalsifiedLit \in Lit /\ IsFalse(FalsifiedLit) /\ ~IsTrue(FalsifiedLit)
         /\ j \in 1..Len(wps[FalsifiedLit]) /\ Watcher = wps[FalsifiedLit][j]
         /\ Watcher \in Live /\ Watcher \in 1..Len(clauses) /\ Len(clauses[Watcher]) >= 2
         /\ Proper(OtherFirst) /\ Len(OtherFirst) = Len(clauses[Watcher])
         /\ OtherFirst[2] = FalsifiedLit
         /\ \/ OtherFirst = clauses[Watcher]
            \/ /\ clauses[Watcher][1] = FalsifiedLit
               /\ OtherFirst[1] = clauses[Watcher][2]
               /\ \A k \in 3..Len(OtherFirst) : OtherFirst[k] = clauses[Watcher][k]
<1> PICK live, bare, C : live = Live /\ bare = Bare /\ C = Candidate
  OBVIOUS
<1>1. TrailInv(live, bare, C) /\ Visits
  BY Visited
<1>2. j \in 1..Len(wps[FalsifiedLit])
  BY <1>1 DEF Visits
<1> QED
  BY <1>1, <1>2, Visit

(* A step of the loop that turns a clause around.                            *)
LEMMA Edited ==
  ASSUME ForwardInv, NEW live, NEW bare, NEW C, live = Live, bare = Bare, C = Candidate,
         TrailInv(live, bare, C)', NEW w \in live, NEW D,
         Len(D) = Len(clauses[w]), clauses[w] # << >>, clauses' = [clauses EXCEPT ![w] = D],
         UNCHANGED <<loaded, deleted, derived_empty_clause, upVars>>,
         i' \in Nat \ {0}, j' \in Nat \ {0}, pc \in {"up", "re-up"},
         \/ pc' = pc \/ pc' = IF pc = "re-up" THEN "read" ELSE "falsified"
  PROVE  ForwardInv'
<1>1. /\ ForwardTypes /\ EmptyLast /\ Control /\ w \in 1..Len(clauses) /\ w <= loaded
      /\ loaded \in Nat /\ Len(clauses) \in Nat /\ w \in Nat /\ clauses \in Seq(Seq(Lit))
  BY Facts DEF ForwardInv
<1>2. Len(clauses') = Len(clauses) /\ \A c \in 1..Len(clauses) : c # w => clauses'[c] = clauses[c]
  BY <1>1
<1>3. clauses'[w] # << >>
  <2>1. clauses'[w] = D /\ clauses[w] \in Seq(Lit)
    BY <1>1
  <2>2. Len(clauses[w]) # 0
    BY <2>1, EmptySeq
  <2>3. Len(<< >>) = 0
    OBVIOUS
  <2> QED
    BY ONLY <2>1, <2>2, <2>3, Len(D) = Len(clauses[w])
<1>4. EmptyLast'
  BY <1>1, <1>2, <1>3 DEF EmptyLast
<1>5. ForwardTypes'
  BY <1>1, <1>2 DEF ForwardTypes, States, upVars
<1>6. Control'
  <2>1. /\ loaded' = loaded /\ up_state' = up_state /\ Len(clauses') = Len(clauses)
        /\ i' >= 1 /\ j' >= 1 /\ (derived_empty_clause' <=> derived_empty_clause)
    BY <1>2 DEF upVars, levelVars
  <2>2. CASE pc' = pc
    BY <1>1, <2>1, <2>2 DEF Control
  <2>3. CASE pc = "re-up" /\ pc' = "read"
    BY <1>1, <2>1, <2>3 DEF Control
  <2>4. CASE pc = "up" /\ pc' = "falsified"
    BY <1>1, <2>1, <2>4 DEF Control
  <2> QED
    BY <2>2, <2>3, <2>4
<1>7. live = Live' /\ bare = Bare'
  BY DEF Live, Bare
<1>8. up_state' = "GLOBAL_UP" \/ C = Candidate'
  <2>1. CASE up_state = "GLOBAL_UP"
    BY <2>1 DEF upVars, levelVars
  <2>2. CASE up_state # "GLOBAL_UP"
    <3>1. Len(clauses) # w /\ Len(clauses) \in 1..Len(clauses)
      BY <1>1, <2>2 DEF Control
    <3> QED
      BY <1>2, <3>1 DEF Candidate
  <2> QED
    BY <2>1, <2>2
<1> QED
  BY <1>4, <1>5, <1>6, <1>7, <1>8, Ends

LEMMA SkipKeeps ==
  ASSUME ForwardInv, SkipSatisfied
  PROVE  ForwardInv'
<1> PICK live, bare, C : live = Live /\ bare = Bare /\ C = Candidate
  OBVIOUS
<1>1. /\ PutOtherFirst /\ j' = j + 1 /\ i' = i /\ pc' = pc /\ wps' = wps
      /\ UNCHANGED <<loaded, alphaVars, upVars, markVars, deleted, derived_empty_clause>>
      /\ Visiting
  BY DEF SkipSatisfied, hintVars, lineVars
<1>2. TrailInv(live, bare, C) /\ Visits /\ pc \in {"up", "re-up"} /\ i \in Nat \ {0} /\ j \in Nat \ {0}
  BY <1>1, Visited
<1>3. Permuted
  BY <1>1, <1>2, UnchangedPermuted
<1>4. UNCHANGED <<alphaVars, levelVars, markVars>>
  BY <1>1 DEF upVars
<1>5. TrailInv(live, bare, C)'
  BY <1>1, <1>2, <1>3, <1>4, PutKeeps
<1>6. /\ Watcher \in live /\ Len(OtherFirst) = Len(clauses[Watcher]) /\ clauses[Watcher] # << >>
      /\ clauses' = [clauses EXCEPT ![Watcher] = OtherFirst]
  BY <1>1, <1>2, Visit DEF PutOtherFirst
<1>7. j' \in Nat \ {0} /\ i' \in Nat \ {0}
  BY <1>1, <1>2
<1>8. UNCHANGED <<loaded, deleted, derived_empty_clause, upVars>>
  BY <1>1
<1> QED
  BY <1>1, <1>2, <1>5, <1>6, <1>7, <1>8, Edited

LEMMA ConflictKeeps ==
  ASSUME ForwardInv, FindConflict
  PROVE  ForwardInv'
<1> PICK live, bare, C : live = Live /\ bare = Bare /\ C = Candidate
  OBVIOUS
<1>1. /\ PutOtherFirst /\ j' = j /\ i' = i /\ wps' = wps
      /\ pc' = IF pc = "re-up" THEN "read" ELSE "falsified"
      /\ UNCHANGED <<loaded, alphaVars, upVars, markVars, deleted, derived_empty_clause>>
      /\ Visiting
  BY DEF FindConflict, hintVars, lineVars
<1>2. TrailInv(live, bare, C) /\ Visits /\ pc \in {"up", "re-up"} /\ i \in Nat \ {0} /\ j \in Nat \ {0}
  BY <1>1, Visited
<1>3. Permuted
  BY <1>1, <1>2, UnchangedPermuted
<1>4. UNCHANGED <<alphaVars, levelVars, markVars>>
  BY <1>1 DEF upVars
<1>5. TrailInv(live, bare, C)'
  BY <1>1, <1>2, <1>3, <1>4, PutKeeps
<1>6. /\ Watcher \in live /\ Len(OtherFirst) = Len(clauses[Watcher]) /\ clauses[Watcher] # << >>
      /\ clauses' = [clauses EXCEPT ![Watcher] = OtherFirst]
  BY <1>1, <1>2, Visit DEF PutOtherFirst
<1>7. UNCHANGED <<loaded, deleted, derived_empty_clause, upVars>>
  BY <1>1
<1> QED
  BY <1>1, <1>2, <1>5, <1>6, <1>7, Edited

LEMMA FindUnitKeeps ==
  ASSUME ForwardInv, FindUnit
  PROVE  ForwardInv'
<1> PICK live, bare, C : live = Live /\ bare = Bare /\ C = Candidate
  OBVIOUS
<1>1. /\ PutOtherFirst /\ j' = j + 1 /\ i' = i /\ pc' = pc /\ wps' = wps
      /\ Unassigned(OtherFirst[1]) /\ Replacements = {} /\ SetUnit(OtherFirst[1], Watcher)
      /\ UNCHANGED <<loaded, upVars, markVars, deleted, derived_empty_clause>>
      /\ Visiting
  BY DEF FindUnit, hintVars, lineVars
<1>2. TrailInv(live, bare, C) /\ Visits /\ pc \in {"up", "re-up"} /\ i \in Nat \ {0} /\ j \in Nat \ {0}
  BY <1>1, Visited
<1>3. Permuted
  BY <1>1, <1>2, UnchangedPermuted
<1>4. UNCHANGED <<levelVars, markVars>>
  BY <1>1 DEF upVars
<1>5. TrailInv(live, bare, C)'
  BY <1>1, <1>2, <1>3, <1>4, UnitKeeps
<1>6. /\ Watcher \in live /\ Len(OtherFirst) = Len(clauses[Watcher]) /\ clauses[Watcher] # << >>
      /\ clauses' = [clauses EXCEPT ![Watcher] = OtherFirst]
  BY <1>1, <1>2, Visit DEF PutOtherFirst
<1>7. j' \in Nat \ {0} /\ i' \in Nat \ {0}
  BY <1>1, <1>2
<1>8. UNCHANGED <<loaded, deleted, derived_empty_clause, upVars>>
  BY <1>1
<1> QED
  BY <1>1, <1>2, <1>5, <1>6, <1>7, <1>8, Edited

LEMMA ReplaceKeeps ==
  ASSUME ForwardInv, ReplaceWatch
  PROVE  ForwardInv'
<1> PICK live, bare, C : live = Live /\ bare = Bare /\ C = Candidate
  OBVIOUS
<1>1. /\ MoveWatch /\ j' = j /\ i' = i /\ pc' = pc
      /\ ~IsTrue(OtherFirst[1]) /\ Replacements # {}
      /\ UNCHANGED <<loaded, alphaVars, upVars, markVars, deleted, derived_empty_clause>>
      /\ Visiting
  BY DEF ReplaceWatch, hintVars, lineVars
<1>2. TrailInv(live, bare, C) /\ Visits /\ pc \in {"up", "re-up"} /\ i \in Nat \ {0} /\ j \in Nat \ {0}
  BY <1>1, Visited
<1>3. UNCHANGED <<alphaVars, levelVars, markVars>>
  BY <1>1 DEF upVars
<1>4. TrailInv(live, bare, C)'
  BY <1>1, <1>2, <1>3, MoveKeeps
<1>5. PICK k \in 3..Len(OtherFirst) : clauses' = [clauses EXCEPT ![Watcher] = Swap(OtherFirst, 2, k)]
  BY <1>1, <1>2, MoveFacts
<1>6. /\ Watcher \in live /\ Len(OtherFirst) = Len(clauses[Watcher]) /\ clauses[Watcher] # << >>
      /\ Proper(OtherFirst) /\ Len(OtherFirst) \in Nat
  BY <1>2, Visit, ProperFacts
<1>7. Len(Swap(OtherFirst, 2, k)) = Len(clauses[Watcher])
  <2>1. 2 \in 1..Len(OtherFirst) /\ k \in 1..Len(OtherFirst)
    BY <1>6
  <2> QED
    BY <1>6, <2>1, Swapped
<1>8. UNCHANGED <<loaded, deleted, derived_empty_clause, upVars>> /\ i' \in Nat \ {0} /\ j' \in Nat \ {0}
  BY <1>1, <1>2
<1> QED
  BY <1>1, <1>2, <1>4, <1>5, <1>6, <1>7, <1>8, Edited

-----------------------------------------------------------------------------
(***************************************************************************)
(* Steps that leave the clauses, the trail and the watches as they are.      *)
(***************************************************************************)
Stays == UNCHANGED <<clauses, loaded, deleted, wps, alphaVars, levelVars, markVars>>

LEMMA StaysKeep ==
  ASSUME ForwardInv, Stays,
         global_up' \in Nat \ {0}, i' \in Nat, j' \in Nat, pc' \in States,
         \/ derived_empty_clause' = derived_empty_clause
         \/ derived_empty_clause' = TRUE /\ up_state = "GLOBAL_UP",
         Control'
  PROVE  ForwardInv'
<1> PICK live, bare, C : live = Live /\ bare = Bare /\ C = Candidate
  BY Zenon
<1>1. /\ ForwardTypes /\ EmptyLast /\ Control /\ TrailInv(live, bare, C)
      /\ clauses' = clauses /\ loaded' = loaded /\ deleted' = deleted
      /\ UNCHANGED <<wps, alphaVars, levelVars, markVars>>
  BY DEF ForwardInv, Stays
<1>2. derived_empty_clause => derived_empty_clause'
  OBVIOUS
<1>3. live = Live' /\ C = Candidate'
  BY <1>1 DEF Live, Candidate
<1>4. bare \subseteq Bare'
  BY <1>1, <1>2 DEF Bare
<1>5. /\ clauses' \in Seq(Seq(Lit)) /\ ClausesProper' /\ live \subseteq 1..Len(clauses')
      /\ \A c \in live : clauses'[c] = clauses[c]
  BY <1>1 DEF TrailInv, TrailTypes, ClausesProper
<1>6. PICK bare2 : bare2 = Bare'
  OBVIOUS
<1>7. TrailInv(live, bare2, C)'
  BY <1>1, <1>4, <1>5, <1>6, StillKeeps
<1>8. EmptyLast'
  BY <1>1, <1>2 DEF EmptyLast
<1>9. derived_empty_clause' \in BOOLEAN
  <2>1. derived_empty_clause \in BOOLEAN
    BY <1>1 DEF ForwardTypes
  <2> QED
    BY <2>1, Zenon
<1>10. ForwardTypes'
  BY <1>1, <1>9 DEF ForwardTypes
<1> QED
  BY <1>3, <1>6, <1>7, <1>8, <1>10, Ends

LEMMA NextKeeps ==
  ASSUME ForwardInv, NextUnit
  PROVE  ForwardInv'
<1>1. /\ i' = i + 1 /\ j' = 1 /\ pc' = pc /\ global_up' = global_up /\ Stays
      /\ derived_empty_clause' = derived_empty_clause /\ loaded' = loaded
      /\ up_state' = up_state /\ clauses' = clauses
  BY DEF NextUnit, Stays, hintVars, lineVars, upVars, levelVars
<1>2. ForwardTypes /\ Control
  BY DEF ForwardInv
<1>3. i' \in Nat /\ i' >= 1 /\ j' \in Nat /\ j' >= 1 /\ global_up' \in Nat \ {0} /\ pc' \in States
  BY <1>1, <1>2 DEF ForwardTypes
<1>4. Control'
  <2>1. derived_empty_clause' <=> derived_empty_clause
    BY <1>1
  <2> QED
    BY <1>1, <1>2, <1>3, <2>1 DEF Control
<1> QED
  BY <1>1, <1>3, <1>4, StaysKeep

LEMMA FinishKeeps ==
  ASSUME ForwardInv, FinishUp
  PROVE  ForwardInv'
<1>1. /\ pc \in {"up", "re-up"} /\ i' = i /\ j' = j /\ Stays
      /\ global_up' = IF up_state = "GLOBAL_UP" THEN i ELSE global_up
      /\ derived_empty_clause' = derived_empty_clause /\ loaded' = loaded
      /\ up_state' = up_state /\ clauses' = clauses
  BY DEF FinishUp, Stays, hintVars, lineVars, levelVars
<1>2. /\ ForwardTypes /\ Control /\ loaded \in Nat /\ Len(clauses) \in Nat /\ loaded <= Len(clauses)
      /\ up_state \in {"GLOBAL_UP", "CANDIDATE_UP", "RAT_UP"}
  BY Facts DEF ForwardInv, TrailTypes
<1>3. i' \in Nat /\ j' \in Nat /\ global_up' \in Nat \ {0}
  BY <1>1, <1>2 DEF ForwardTypes, Control
<1>4. pc' \in States /\ Control'
  <2>1. derived_empty_clause' <=> derived_empty_clause
    BY <1>1
  <2>2. CASE up_state = "GLOBAL_UP"
    <3>1. pc' = IF derived_empty_clause THEN "UNSAT"
                ELSE IF loaded < Len(clauses) THEN "load" ELSE "read"
      BY <2>2 DEF FinishUp
    <3>2. /\ derived_empty_clause => pc' = "UNSAT"
          /\ ~derived_empty_clause /\ loaded < Len(clauses) => pc' = "load"
          /\ ~derived_empty_clause /\ ~(loaded < Len(clauses)) => pc' = "read" /\ loaded = Len(clauses)
      BY <1>2, <3>1
    <3> QED
      BY <1>1, <1>2, <2>1, <2>2, <3>2 DEF Control, States
  <2>3. CASE up_state = "CANDIDATE_UP"
    <3>1. pc' \in {"FATAL", "rat"}
      BY <2>3 DEF FinishUp
    <3> QED
      BY <1>1, <1>2, <2>1, <2>3, <3>1 DEF Control, States
  <2>4. CASE up_state = "RAT_UP"
    <3>1. pc' = "FATAL"
      BY <2>4 DEF FinishUp
    <3> QED
      BY <1>1, <1>2, <2>1, <2>4, <3>1 DEF Control, States
  <2> QED
    BY <1>2, <2>2, <2>3, <2>4
<1> QED
  BY <1>1, <1>3, <1>4, StaysKeep

LEMMA RefuteFormulaKeeps ==
  ASSUME ForwardInv, RefuteFormula
  PROVE  ForwardInv'
<1>1. /\ up_state = "GLOBAL_UP" /\ pc' = "UNSAT" /\ Stays
      /\ UNCHANGED <<i, j, global_up, up_state, loaded, clauses>>
      /\ derived_empty_clause' = TRUE
  BY DEF RefuteFormula, Stays, lineVars, upVars, levelVars
<1>2. ForwardTypes /\ Control
  BY DEF ForwardInv
<1>3. i' \in Nat /\ j' \in Nat /\ global_up' \in Nat \ {0} /\ pc' \in States
  BY <1>1, <1>2 DEF ForwardTypes, States
<1>4. Control'
  BY <1>1, <1>2 DEF Control
<1> QED
  BY <1>1, <1>3, <1>4, StaysKeep

LEMMA LineKeeps ==
  ASSUME ForwardInv,
         \/ RefuteCandidate \/ ImageHolds \/ PrintLine \/ IgnoreDeletion \/ EndOfProof
         \/ UNCHANGED vars
  PROVE  ForwardInv'
<1>1. /\ Stays /\ UNCHANGED <<i, j, global_up, up_state, loaded, clauses>>
      /\ derived_empty_clause' = derived_empty_clause
      /\ \/ pc' = pc
         \/ up_state = "CANDIDATE_UP" /\ pc = "falsified" /\ pc' = "refuted"
         \/ pc = "rat" /\ pc' = "reduced"
         \/ pc = "read" /\ pc' = "VALID"
  <2>1. CASE RefuteCandidate
    BY <2>1 DEF RefuteCandidate, Stays, lineVars, upVars, levelVars
  <2>2. CASE ImageHolds
    BY <2>2 DEF ImageHolds, Stays, lineVars, upVars, levelVars
  <2>3. CASE PrintLine
    BY <2>3 DEF PrintLine, Stays, lineVars, upVars, levelVars
  <2>4. CASE IgnoreDeletion
    BY <2>4 DEF IgnoreDeletion, Stays, hintVars, lineVars, upVars, levelVars
  <2>5. CASE EndOfProof
    BY <2>5 DEF EndOfProof, Stays, hintVars, lineVars, upVars, levelVars
  <2>6. CASE UNCHANGED vars
    BY <2>6 DEF vars, Stays, hintVars, lineVars, upVars, levelVars
  <2> QED
    BY <2>1, <2>2, <2>3, <2>4, <2>5, <2>6
<1>2. ForwardTypes /\ Control
  BY DEF ForwardInv
<1>3. i' \in Nat /\ j' \in Nat /\ global_up' \in Nat \ {0} /\ pc' \in States
  BY <1>1, <1>2 DEF ForwardTypes, States
<1>4. Control'
  <2>1. derived_empty_clause' <=> derived_empty_clause
    BY <1>1
  <2> QED
    BY <1>1, <1>2, <2>1 DEF Control
<1> QED
  BY <1>1, <1>3, <1>4, StaysKeep

-----------------------------------------------------------------------------
(***************************************************************************)
(* A clause of the formula, or the clause of a line, is watched.             *)
(***************************************************************************)
LEMMA Loading ==
  ASSUME ForwardInv, Adding, NEW a, a = Added, loaded' = a, deleted' = deleted
  PROVE  /\ a \in 1..Len(clauses) /\ a = loaded + 1 /\ a \notin Live /\ a \in Nat /\ a >= 1
         /\ Live' = Live \cup {a} /\ up_state = "GLOBAL_UP" /\ ~derived_empty_clause
         /\ Bare = {} /\ ForwardTypes /\ EmptyLast /\ Control
         /\ TrailInv(Live, Bare, Candidate)
<1>1. /\ ForwardTypes /\ EmptyLast /\ Control /\ TrailInv(Live, Bare, Candidate)
      /\ pc \in {"load", "add"}
  BY DEF ForwardInv, Adding
<1>2. /\ up_state = "GLOBAL_UP" /\ loaded < Len(clauses) /\ ~derived_empty_clause
      /\ loaded \in Nat /\ Len(clauses) \in Nat
  BY <1>1, Facts DEF Control
<1>3. a \in 1..Len(clauses) /\ a = loaded + 1 /\ a \in Nat /\ a >= 1
  BY <1>2 DEF Added
<1>4. 1..a = (1..loaded) \cup {a} /\ a \notin 1..loaded
  BY <1>2, <1>3
<1>5. deleted \subseteq 1..loaded
  BY <1>1 DEF ForwardTypes
<1>6. a \notin Live /\ Live' = Live \cup {a}
  BY <1>4, <1>5 DEF Live
<1> QED
  BY <1>1, <1>2, <1>3, <1>6 DEF Bare

(* What is left to show of the clause once the trail is.                     *)
LEMMA LoadKeeps ==
  ASSUME ForwardInv, Adding, NEW a, a = Added, loaded' = a, deleted' = deleted,
         NEW live, NEW bare, NEW C, live = Live, bare = Bare', TrailInv(live \cup {a}, bare, C)',
         Len(clauses') = Len(clauses), global_up' = global_up, up_state' = up_state,
         \A c \in 1..Len(clauses) : c # a => clauses'[c] = clauses[c],
         derived_empty_clause' \in BOOLEAN,
         clauses'[a] = << >> => a = Len(clauses) /\ derived_empty_clause',
         \/ pc' = "UNSAT" /\ UNCHANGED <<i, j>>
         \/ StartUp(global_up, "up")
  PROVE  ForwardInv'
<1>1. /\ a \in 1..Len(clauses) /\ a = loaded + 1 /\ a \in Nat
      /\ Live' = live \cup {a} /\ up_state = "GLOBAL_UP" /\ ~derived_empty_clause
      /\ ForwardTypes /\ EmptyLast /\ Control
  BY Loading
<1>2. loaded \in Nat /\ Len(clauses) \in Nat
  BY Facts
<1>3. EmptyLast'
  BY <1>1, <1>2 DEF EmptyLast
<1>4. /\ i' \in Nat /\ j' \in Nat /\ pc' \in {"up", "UNSAT"}
      /\ pc' = "up" => i' >= 1 /\ j' >= 1
  BY <1>1 DEF ForwardTypes, StartUp
<1>5. 1..loaded \subseteq 1..a
  BY <1>1, <1>2
<1>6. ForwardTypes'
  BY <1>1, <1>2, <1>4, <1>5 DEF ForwardTypes, States
<1>7. Control'
  BY <1>1, <1>4 DEF Control
<1>8. up_state' = "GLOBAL_UP"
  BY <1>1
<1>9. PICK live2 : live2 = live \cup {a}
  OBVIOUS
<1>10. TrailInv(live2, bare, C)' /\ live2 = Live'
  BY <1>1, <1>9
<1> QED
  BY <1>3, <1>6, <1>7, <1>8, <1>10, Ends

LEMMA AddUnitKeeps ==
  ASSUME ForwardInv, AddUnit
  PROVE  ForwardInv'
<1> PICK live, bare, C, a : live = Live /\ bare = Bare /\ C = Candidate /\ a = Added
  OBVIOUS
<1>1. /\ Adding /\ AttachUnit(a) /\ loaded' = a /\ StartUp(global_up, "up")
      /\ UNCHANGED <<clauses, wps, levelVars, markVars>>
      /\ deleted' = deleted /\ global_up' = global_up /\ up_state' = up_state
      /\ derived_empty_clause' = derived_empty_clause
  BY DEF AddUnit, hintVars, lineVars, upVars, levelVars
<1>2. /\ a \in 1..Len(clauses) /\ a \notin live /\ up_state = "GLOBAL_UP" /\ ~derived_empty_clause
      /\ bare = {} /\ TrailInv(live, bare, C) /\ ForwardTypes
  BY <1>1, Loading
<1>3. TrailInv(live \cup {a}, bare, C)'
  BY <1>1, <1>2, AttachUnitKeeps
<1>4. bare = Bare' /\ derived_empty_clause' \in BOOLEAN
  BY <1>1, <1>2 DEF Bare, ForwardTypes
<1>5. clauses'[a] # << >>
  <2>1. Len(clauses[a]) = 1 /\ Len(<< >>) = 0
    BY <1>1 DEF AttachUnit
  <2> QED
    BY <1>1, <2>1
<1>6. Len(clauses') = Len(clauses) /\ \A c \in 1..Len(clauses) : c # a => clauses'[c] = clauses[c]
  BY <1>1
<1> QED
  BY <1>1, <1>3, <1>4, <1>5, <1>6, LoadKeeps

LEMMA AddFalsifiedKeeps ==
  ASSUME ForwardInv, AddFalsified
  PROVE  ForwardInv'
<1> PICK live, bare, C, a : live = Live /\ bare = Bare /\ C = Candidate /\ a = Added
  OBVIOUS
<1>1. /\ Adding /\ loaded' = a /\ derived_empty_clause' = TRUE
      /\ (pc' = "UNSAT" /\ UNCHANGED <<i, j>>) \/ StartUp(global_up, "up")
      /\ UNCHANGED <<clauses, wps, alphaVars, levelVars, markVars>>
      /\ deleted' = deleted /\ global_up' = global_up /\ up_state' = up_state
  BY DEF AddFalsified, lineVars, upVars, levelVars
<1>2. /\ a \in 1..Len(clauses) /\ a \notin live /\ bare = {} /\ TrailInv(live, bare, C)
      /\ EmptyLast
  BY <1>1, Loading
<1>3. TrailInv(live \cup {a}, bare \cup {a}, C)'
  BY <1>1, <1>2, FalsifiedKeeps
<1>4. PICK bare2 : bare2 = bare \cup {a}
  OBVIOUS
<1>5. bare2 = Bare' /\ derived_empty_clause' \in BOOLEAN /\ TrailInv(live \cup {a}, bare2, C)'
  BY <1>1, <1>2, <1>3, <1>4 DEF Bare
<1>6. clauses'[a] = << >> => a = Len(clauses) /\ derived_empty_clause'
  BY <1>1, <1>2 DEF EmptyLast
<1>7. Len(clauses') = Len(clauses) /\ \A c \in 1..Len(clauses) : c # a => clauses'[c] = clauses[c]
  BY <1>1
<1> QED
  BY <1>1, <1>5, <1>6, <1>7, LoadKeeps

LEMMA AddWatchedKeeps ==
  ASSUME ForwardInv, AddWatched
  PROVE  ForwardInv'
<1> PICK live, bare, C, a : live = Live /\ bare = Bare /\ C = Candidate /\ a = Added
  OBVIOUS
<1>1. /\ Adding /\ AttachWatched(a) /\ loaded' = a /\ StartUp(global_up, "up")
      /\ UNCHANGED <<levelVars, markVars>>
      /\ deleted' = deleted /\ global_up' = global_up /\ up_state' = up_state
      /\ derived_empty_clause' = derived_empty_clause
  BY DEF AddWatched, hintVars, lineVars, upVars, levelVars
<1>2. /\ a \in 1..Len(clauses) /\ a \notin live /\ up_state = "GLOBAL_UP" /\ ~derived_empty_clause
      /\ bare = {} /\ TrailInv(live, bare, C) /\ ForwardTypes
  BY <1>1, Loading
<1>3. /\ TrailInv(live \cup {a}, bare, C)' /\ Len(clauses') = Len(clauses)
      /\ \A c \in 1..Len(clauses) : c # a => clauses'[c] = clauses[c]
      /\ Len(clauses'[a]) = Len(clauses[a])
  BY <1>1, <1>2, AttachWatchedKeeps
<1>4. bare = Bare' /\ derived_empty_clause' \in BOOLEAN
  BY <1>1, <1>2 DEF Bare, ForwardTypes
<1>5. clauses'[a] # << >>
  <2>1. Len(clauses[a]) > 1 /\ Len(<< >>) = 0
    BY <1>1 DEF AttachWatched
  <2> QED
    BY <1>3, <2>1
<1> QED
  BY <1>1, <1>3, <1>4, <1>5, LoadKeeps

-----------------------------------------------------------------------------
(***************************************************************************)
(* The assumptions of a line, and their end.                                *)
(***************************************************************************)
LEMMA ReadKeeps ==
  ASSUME ForwardInv, ReadAddition
  PROVE  ForwardInv'
<1> PICK live, bare, C0 : live = Live /\ bare = Bare /\ C0 = Candidate
  OBVIOUS
<1>1. PICK C \in Candidates :
        /\ clauses' = Append(clauses, C) /\ AssumeCandidate(C)
        /\ IF RefutingClause(C) = 0
           THEN StartUp(candidate_assumed', "up") /\ UNCHANGED falsified
           ELSE pc' = "falsified" /\ falsified' = RefutingClause(C) /\ UNCHANGED <<i, j>>
  BY DEF ReadAddition
<1>2. /\ pc = "read"
      /\ UNCHANGED <<loaded, wps, RAT_marked, global_up, RAT_assumed, RAT_unit,
                     derived_empty_clause, deleted>>
  BY DEF ReadAddition
<1>3. /\ ForwardTypes /\ EmptyLast /\ Control /\ TrailInv(live, bare, C0)
      /\ up_state = "GLOBAL_UP" /\ loaded = Len(clauses) /\ ~derived_empty_clause
  BY <1>2 DEF ForwardInv, Control
<1>4. /\ Len(units) \in Nat /\ Len(clauses) \in Nat /\ clauses \in Seq(Seq(Lit)) /\ ClausesProper
      /\ live \subseteq 1..Len(clauses) /\ loaded \in Nat
  BY Facts
<1>5. C \in Seq(Lit) /\ Proper(C)
  BY DsrForwardAssumption DEF Proper
<1>6. /\ clauses' \in Seq(Seq(Lit)) /\ Len(clauses') = Len(clauses) + 1
      /\ clauses'[Len(clauses')] = C
      /\ \A c \in 1..Len(clauses) : clauses'[c] = clauses[c]
  BY <1>1, <1>4, <1>5
<1>7. ClausesProper' /\ live \subseteq 1..Len(clauses')
  <2>1. \A c \in 1..Len(clauses') : c \in 1..Len(clauses) \/ c = Len(clauses')
    BY <1>4, <1>6
  <2> QED
    BY <1>4, <1>5, <1>6, <2>1 DEF ClausesProper
<1>8. \A c \in live : clauses'[c] = clauses[c]
  BY <1>4, <1>6
<1>9. UNCHANGED <<wps, RAT_marked, RAT_assumed, RAT_unit>>
  BY <1>2
<1>10. TrailInv(live, bare, C)'
  BY <1>1, <1>3, <1>5, <1>6, <1>7, <1>8, <1>9, AssumeCandidateKeeps
<1>11. live = Live' /\ bare = Bare' /\ C = Candidate'
  BY <1>2, <1>6 DEF Live, Bare, Candidate
<1>12. /\ up_state' = "CANDIDATE_UP" /\ candidate_assumed' = Len(units) + 1
       /\ pc' \in {"up", "falsified"}
       /\ i' \in Nat /\ j' \in Nat /\ (pc' = "up" => i' >= 1 /\ j' >= 1)
  BY <1>1, <1>3, <1>4 DEF AssumeCandidate, StartUp, ForwardTypes
<1>13. EmptyLast'
  <2>1. ASSUME NEW c \in 1..Len(clauses'), clauses'[c] = << >> PROVE c = Len(clauses')
    <3>1. CASE c \in 1..Len(clauses)
      BY <1>3, <1>6, <2>1, <3>1 DEF EmptyLast
    <3>2. CASE c \notin 1..Len(clauses)
      BY <1>4, <1>6, <3>2
    <3> QED
      BY <3>1, <3>2
  <2>2. Len(clauses') # loaded'
    BY <1>2, <1>3, <1>4, <1>6
  <2> QED
    BY <2>1, <2>2 DEF EmptyLast
<1>14. ForwardTypes'
  BY <1>2, <1>3, <1>4, <1>6, <1>12 DEF ForwardTypes, States
<1>15. Control'
  BY <1>2, <1>3, <1>4, <1>6, <1>12 DEF Control
<1> QED
  BY <1>10, <1>11, <1>13, <1>14, <1>15, Ends

(* A step between the levels of a candidate, which loads nothing.            *)
LEMMA LevelKeeps ==
  ASSUME ForwardInv, up_state # "GLOBAL_UP",
         NEW live, NEW bare, NEW C, live = Live, bare = Bare, C = Candidate,
         TrailInv(live, bare, C)',
         UNCHANGED <<clauses, loaded, deleted, global_up, derived_empty_clause>>,
         \/ pc' = "up" /\ i' \in Nat \ {0} /\ j' = 1
         \/ pc' = "rat" /\ up_state' = "CANDIDATE_UP" /\ UNCHANGED <<i, j>>
         \/ pc' = "add" /\ up_state' = "GLOBAL_UP" /\ UNCHANGED <<i, j>>
  PROVE  ForwardInv'
<1>1. ForwardTypes /\ EmptyLast /\ Control /\ ~derived_empty_clause
  BY DEF ForwardInv, Control
<1>2. live = Live' /\ bare = Bare' /\ C = Candidate' /\ EmptyLast'
  BY <1>1 DEF Live, Bare, Candidate, EmptyLast
<1>3. ForwardTypes'
  BY <1>1 DEF ForwardTypes, States
<1>4. Control'
  <2>1. loaded + 1 = Len(clauses) /\ loaded \in Nat
    BY <1>1, Facts DEF Control
  <2>2. loaded' + 1 = Len(clauses') /\ loaded' < Len(clauses') /\ ~derived_empty_clause'
    BY <1>1, <2>1
  <2> QED
    BY <2>2 DEF Control
<1> QED
  BY <1>2, <1>3, <1>4, Ends

LEMMA CheckKeeps ==
  ASSUME ForwardInv, CheckImage
  PROVE  ForwardInv'
<1> PICK live, bare, C : live = Live /\ bare = Bare /\ C = Candidate
  OBVIOUS
<1>1. PICK D \in Images : AssumeImage(D)
  BY DEF CheckImage
<1>2. /\ pc = "rat" /\ pc' = "up" /\ i' = RAT_assumed' /\ j' = 1
      /\ UNCHANGED <<clauses, loaded, wps, global_up, candidate_assumed, candidate_unit,
                     derived_empty_clause, deleted>>
  BY DEF CheckImage, Reducing, StartUp, lineVars
<1>3. TrailInv(live, bare, C) /\ up_state = "CANDIDATE_UP"
  BY <1>2 DEF ForwardInv, Control
<1>4. D \in Seq(Lit) /\ UNCHANGED <<clauses, wps, candidate_assumed, candidate_unit>>
  BY <1>2, DsrForwardAssumption
<1>5. TrailInv(live, bare, C)'
  BY <1>1, <1>3, <1>4, AssumeImageKeeps
<1>6. i' \in Nat \ {0}
  <2>1. Len(units) \in Nat /\ RAT_assumed' = Len(units) + 1
    BY <1>1, Facts DEF AssumeImage
  <2> QED
    BY <1>2, <2>1
<1>7. UNCHANGED <<clauses, loaded, deleted, global_up, derived_empty_clause>>
  BY <1>2
<1> QED
  BY <1>2, <1>3, <1>5, <1>6, <1>7, LevelKeeps

LEMMA RefuteImageKeeps ==
  ASSUME ForwardInv, RefuteImage
  PROVE  ForwardInv'
<1> PICK live, bare, C : live = Live /\ bare = Bare /\ C = Candidate
  OBVIOUS
<1>1. /\ up_state = "RAT_UP" /\ pc' = "rat" /\ UndoImage /\ up_state' = "CANDIDATE_UP"
      /\ UNCHANGED <<clauses, wps, candidate_assumed, candidate_unit, RAT_assumed, RAT_unit>>
      /\ UNCHANGED <<clauses, loaded, deleted, global_up, derived_empty_clause>>
      /\ UNCHANGED <<i, j>>
  BY DEF RefuteImage, UndoImage, lineVars
<1>2. TrailInv(live, bare, C)
  BY DEF ForwardInv
<1>3. TrailInv(live, bare, C)'
  BY <1>1, <1>2, UndoImageKeeps
<1> QED
  BY <1>1, <1>3, LevelKeeps

LEMMA UnassumeKeeps ==
  ASSUME ForwardInv, UnassumeCandidate
  PROVE  ForwardInv'
<1> PICK live, bare, C : live = Live /\ bare = Bare /\ C = Candidate
  OBVIOUS
<1>1. /\ pc \in {"refuted", "reduced"} /\ pc' = "add"
      /\ UndoCandidate(C) /\ up_state' = "GLOBAL_UP"
      /\ UNCHANGED <<clauses, wps, RAT_marked, candidate_assumed, candidate_unit,
                     RAT_assumed, RAT_unit>>
      /\ UNCHANGED <<clauses, loaded, deleted, global_up, derived_empty_clause>>
      /\ UNCHANGED <<i, j>>
  BY DEF UnassumeCandidate, UndoCandidate, hintVars, lineVars
<1>2. TrailInv(live, bare, C) /\ up_state = "CANDIDATE_UP" /\ loaded + 1 = Len(clauses)
  BY <1>1 DEF ForwardInv, Control
<1>3. C \in Seq(Lit)
  BY <1>2, Facts DEF Candidate
<1>4. TrailInv(live, bare, C)'
  BY <1>1, <1>2, <1>3, UndoCandidateKeeps
<1> QED
  BY <1>1, <1>2, <1>4, LevelKeeps

-----------------------------------------------------------------------------
(***************************************************************************)
(* Deletions.  A live clause has its watches between lines, so that one      *)
(* without is no case of theirs.                                            *)
(***************************************************************************)
LEMMA DeletedWatched ==
  ASSUME ForwardInv, pc = "read", NEW c \in Live
  PROVE  /\ IsWatched(c) /\ c \in 1..Len(clauses) /\ clauses[c] # << >>
         /\ FirstVar(c) \in Var /\ clauses[c][1] \in Lit
         /\ up_state = "GLOBAL_UP" /\ ~derived_empty_clause /\ loaded = Len(clauses)
<1>1. /\ EmptyLast /\ Control /\ TrailInv(Live, Bare, Candidate)
      /\ up_state = "GLOBAL_UP" /\ ~derived_empty_clause /\ loaded = Len(clauses)
  BY DEF ForwardInv, Control
<1>2. c \in 1..Len(clauses) /\ clauses[c] # << >> /\ c \notin Bare
  BY <1>1, Facts DEF EmptyLast, Bare
<1>3. IsWatched(c)
  <2> PICK live, bare, C : live = Live /\ bare = Bare /\ C = Candidate
    OBVIOUS
  <2> QED
    BY <1>1, <1>2, LiveWatched
<1>4. clauses[c][1] \in Lit
  <2>1. Proper(clauses[c])
    BY <1>2, Facts DEF ClausesProper
  <2>2. clauses[c] \in Seq(Lit)
    BY <2>1, ProperFacts
  <2> QED
    BY <1>2, <2>2, EmptySeq
<1> QED
  BY <1>1, <1>2, <1>3, <1>4, LitFacts DEF FirstVar

(* What is left to show of the deletion once the trail is.                   *)
LEMMA DeletionKeeps ==
  ASSUME ForwardInv, pc = "read", NEW c \in Live,
         NEW live, NEW bare, NEW C, live = Live \ {c}, bare = Bare, TrailInv(live, bare, C)',
         deleted' = deleted \cup {c}, pc' \in {"read", "re-up"},
         UNCHANGED <<clauses, loaded, derived_empty_clause, up_state>>,
         global_up' \in Nat \ {0}, i' \in Nat, j' \in Nat,
         pc' = "re-up" => i' >= 1 /\ j' >= 1
  PROVE  ForwardInv'
<1>1. /\ ForwardTypes /\ EmptyLast /\ Control /\ ~derived_empty_clause
      /\ up_state = "GLOBAL_UP" /\ loaded = Len(clauses)
  BY DEF ForwardInv, Control
<1>2. live = Live' /\ bare = Bare' /\ EmptyLast' /\ c \in 1..loaded
  BY <1>1 DEF Live, Bare, EmptyLast
<1>3. ForwardTypes'
  BY <1>1, <1>2 DEF ForwardTypes, States
<1>4. Control'
  BY <1>1 DEF Control
<1> QED
  BY <1>1, <1>2, <1>3, <1>4, Ends

LEMMA DeleteKeeps ==
  ASSUME ForwardInv, DeleteOther
  PROVE  ForwardInv'
<1> PICK live, bare, C : live = Live /\ bare = Bare /\ C = Candidate
  OBVIOUS
<1>1. PICK c \in Live : ~IsVarSetDueToUp(FirstVar(c)) /\ Delete(c, "read")
  BY DEF DeleteOther
<1>2. /\ pc = "read"
      /\ UNCHANGED <<clauses, loaded, derived_empty_clause, up_state>>
      /\ UNCHANGED <<clauses, alphaVars, levelVars, markVars>>
      /\ UNCHANGED <<i, j, global_up>>
  BY DEF DeleteOther, hintVars, upVars, levelVars
<1>3. /\ IsWatched(c) /\ c \in 1..Len(clauses) /\ clauses[c] # << >> /\ up_state = "GLOBAL_UP"
      /\ TrailInv(live, bare, C) /\ ForwardTypes
  BY <1>2, DeletedWatched DEF ForwardInv
<1>4. Detach(c) /\ pc' = "read" /\ deleted' = deleted \cup {c}
  BY <1>1, <1>3 DEF Delete
<1>5. \A n \in 1..Len(units) : units[n].clause # c
  BY <1>1, <1>3, Unneeded DEF FirstVar
<1>6. TrailInv(live \ {c}, bare, C)'
  BY <1>2, <1>3, <1>4, <1>5, DetachKeeps
<1>7. PICK live2 : live2 = live \ {c}
  OBVIOUS
<1>8. TrailInv(live2, bare, C)'
  BY <1>6, <1>7
<1>9. global_up' \in Nat \ {0} /\ i' \in Nat /\ j' \in Nat
  BY <1>2, <1>3 DEF ForwardTypes
<1> QED
  BY <1>2, <1>4, <1>7, <1>8, <1>9, DeletionKeeps

LEMMA DeleteAndUnassignKeeps ==
  ASSUME ForwardInv, DeleteAndUnassign
  PROVE  ForwardInv'
<1> PICK live, bare, C : live = Live /\ bare = Bare /\ C = Candidate
  OBVIOUS
<1>1. PICK c \in Live :
        /\ IsVarSetDueToUp(FirstVar(c)) /\ ReasonOf(FirstVar(c)) # c
        /\ UnassignFrom(vars_unit_indexes[FirstVar(c)])
        /\ Delete(c, "re-up")
  BY DEF DeleteAndUnassign
<1>2. /\ pc = "read" /\ i' = global_up' /\ j' = 1
      /\ UNCHANGED <<clauses, loaded, derived_empty_clause, up_state>>
      /\ UNCHANGED <<clauses, levelVars, markVars>>
  BY DEF DeleteAndUnassign, hintVars, levelVars
<1>3. /\ IsWatched(c) /\ c \in 1..Len(clauses) /\ clauses[c] # << >> /\ up_state = "GLOBAL_UP"
      /\ TrailInv(live, bare, C) /\ FirstVar(c) \in Var
      /\ TrailTypes /\ ClausesProper /\ TrailExact /\ WatchesHold(live, bare)
      /\ live \subseteq 1..Len(clauses)
  BY <1>2, DeletedWatched DEF ForwardInv, TrailInv
<1>4. Detach(c) /\ pc' = "re-up" /\ deleted' = deleted \cup {c} /\ UNCHANGED clauses
  BY <1>1, <1>2, <1>3 DEF Delete
<1>5. \A n \in 1..Len(units) : units[n].clause # 0 /\ units[n].clause # c
  BY <1>1, <1>3, Unneeded DEF FirstVar
<1> PICK f : f = vars_unit_indexes[FirstVar(c)]
  OBVIOUS
<1>6. f \in 1..Len(units) /\ UnassignFrom(f)
  <2>1. f > 0
    BY <1>1 DEF IsVarSetDueToUp
  <2>2. f # 0
    BY ONLY <2>1
  <2> QED
    BY <1>1, <1>3, <2>2 DEF TrailExact
<1> PICK live2 : live2 = live \ {c}
  OBVIOUS
<1>7. \A n \in 1..Len(units) : n # f => units[n].clause \in live2
  BY <1>3, <1>5 DEF TrailInv, ReasonsHold, Reason
<1>8. /\ units' \in Seq(Unit) /\ alpha' \subseteq Lit /\ vars_unit_indexes' \in [Var -> Nat]
      /\ TrailExact' /\ ReasonsHold(live2)' /\ Levels(C)'
      /\ global_up \in Nat \ {0} => global_up' \in Nat \ {0}
  <2>1. TrailInv(live, bare, C) /\ up_state = "GLOBAL_UP"
    BY <1>3
  <2>2. UNCHANGED <<clauses, levelVars, markVars>>
    BY <1>2
  <2> QED
    BY <1>6, <1>7, <2>1, <2>2, UnassignKeeps
<1>9. wps' \in [Lit -> Seq(Nat)] /\ WatchesHold(live \ {c}, bare)'
  BY <1>3, <1>4, Detached
<1>10. WatchesHold(live2, bare)'
  BY <1>9
<1>11. TrailTypes' /\ ClausesProper' /\ live2 \subseteq 1..Len(clauses')
  BY <1>2, <1>3, <1>8, <1>9 DEF TrailTypes, ClausesProper, levelVars, markVars
<1>12. TrailInv(live2, bare, C)'
  BY <1>8, <1>10, <1>11 DEF TrailInv
<1>13. /\ global_up' \in Nat \ {0} /\ i' \in Nat /\ j' \in Nat /\ i' >= 1 /\ j' >= 1
  <2>1. global_up' \in Nat \ {0}
    BY <1>8, Facts
  <2> QED
    BY <1>2, <2>1
<1> QED
  BY <1>2, <1>4, <1>12, <1>13, DeletionKeeps

-----------------------------------------------------------------------------
(***************************************************************************)
(* The invariant holds of every state.                                      *)
(***************************************************************************)
LEMMA InitInv ==
  ASSUME Init
  PROVE  ForwardInv
<1>1. /\ clauses \in Formulas /\ wps = [l \in Lit |-> << >>]
      /\ alpha = {} /\ units = << >> /\ vars_unit_indexes = [v \in Var |-> 0]
      /\ assumed = {} /\ RAT_marked = {} /\ up_state = "GLOBAL_UP" /\ global_up = 1
      /\ candidate_assumed = 0 /\ candidate_unit = 0 /\ RAT_assumed = 0 /\ RAT_unit = 0
      /\ i = 0 /\ j = 0 /\ derived_empty_clause = FALSE
      /\ deleted = {} /\ loaded = 0 /\ pc = "load"
  BY DEF Init, InitTrail
<1>2. /\ clauses \in Seq(Seq(Lit)) /\ clauses # << >>
      /\ \A c \in 1..Len(clauses) : Proper(clauses[c]) /\ clauses[c] # << >>
  BY <1>1, DsrForwardAssumption
<1>3. Len(clauses) \in Nat /\ 0 < Len(clauses) /\ Len(units) = 0 /\ 1..0 = {}
  BY <1>1, <1>2
<1>4. Live = {} /\ Bare = {}
  BY <1>1 DEF Live, Bare
<1>5. \A l \in Lit : wps[l] = << >> /\ ~(\E c : Has(wps[l], c)) /\ OnceEach(wps[l])
  BY <1>1 DEF Has, OnceEach
<1>6. TrailTypes
  <2>1. wps \in [Lit -> Seq(Nat)] /\ units \in Seq(Unit) /\ vars_unit_indexes \in [Var -> Nat]
    BY <1>1
  <2> QED
    BY <1>1, <1>2, <2>1 DEF TrailTypes
<1>7. ClausesProper /\ Live \subseteq 1..Len(clauses)
  BY <1>2, <1>4 DEF ClausesProper
<1>8. TrailExact /\ ReasonsHold(Live)
  BY <1>1, <1>3 DEF TrailExact, ReasonsHold
<1>9. WatchesHold(Live, Bare)
  BY <1>4, <1>5 DEF WatchesHold
<1>10. Levels(Candidate)
  BY <1>1, <1>3 DEF Levels
<1>11. TrailInv(Live, Bare, Candidate)
  BY <1>6, <1>7, <1>8, <1>9, <1>10 DEF TrailInv
<1>12. ForwardTypes
  <2>1. derived_empty_clause \in BOOLEAN
    BY <1>1, Zenon
  <2>2. /\ global_up \in Nat \ {0} /\ i \in Nat /\ j \in Nat /\ loaded \in 0..Len(clauses)
        /\ deleted \subseteq 1..loaded /\ pc \in States
    BY <1>1, <1>3 DEF States
  <2> QED
    BY <2>1, <2>2 DEF ForwardTypes
<1>13. EmptyLast /\ Control
  BY <1>1, <1>2, <1>3 DEF EmptyLast, Control
<1> QED
  BY <1>11, <1>12, <1>13 DEF ForwardInv

LEMMA StepInv ==
  ASSUME ForwardInv, [Next]_vars
  PROVE  ForwardInv'
<1>1. CASE SkipSatisfied
  BY <1>1, SkipKeeps
<1>2. CASE ReplaceWatch
  BY <1>2, ReplaceKeeps
<1>3. CASE FindConflict
  BY <1>3, ConflictKeeps
<1>4. CASE FindUnit
  BY <1>4, FindUnitKeeps
<1>5. CASE NextUnit
  BY <1>5, NextKeeps
<1>6. CASE FinishUp
  BY <1>6, FinishKeeps
<1>7. CASE AddUnit
  BY <1>7, AddUnitKeeps
<1>8. CASE AddFalsified
  BY <1>8, AddFalsifiedKeeps
<1>9. CASE AddWatched
  BY <1>9, AddWatchedKeeps
<1>10. CASE RefuteFormula
  BY <1>10, RefuteFormulaKeeps
<1>11. CASE ReadAddition
  BY <1>11, ReadKeeps
<1>12. CASE CheckImage
  BY <1>12, CheckKeeps
<1>13. CASE RefuteImage
  BY <1>13, RefuteImageKeeps
<1>14. CASE UnassumeCandidate
  BY <1>14, UnassumeKeeps
<1>15. CASE DeleteOther
  BY <1>15, DeleteKeeps
<1>16. CASE DeleteAndUnassign
  BY <1>16, DeleteAndUnassignKeeps
<1>17. CASE \/ RefuteCandidate \/ ImageHolds \/ PrintLine \/ IgnoreDeletion \/ EndOfProof
            \/ UNCHANGED vars
  BY <1>17, LineKeeps
<1> QED
  BY <1>1, <1>2, <1>3, <1>4, <1>5, <1>6, <1>7, <1>8, <1>9, <1>10, <1>11, <1>12, <1>13,
     <1>14, <1>15, <1>16, <1>17 DEF Next, Exited

(* The type of every variable, the trail, its reasons, the watches and the   *)
(* levels, in every state of every run.                                     *)
THEOREM Invariant == Spec => []ForwardInv
<1>1. Init => ForwardInv
  BY InitInv
<1>2. ForwardInv /\ [Next]_vars => ForwardInv'
  BY StepInv
<1> QED
  BY <1>1, <1>2, PTL DEF Spec

LEMMA Undone ==
  ASSUME ForwardInv
  PROVE  AssumptionsUndone
<1>1. TrailTypes /\ TrailExact /\ Levels(Candidate) /\ Control /\ units \in Seq(Unit)
  BY Facts
<1>2. ToSet(units) = {units[n] : n \in 1..Len(units)}
  BY <1>1 DEF ToSet
<1>3. alpha = {u.lit : u \in ToSet(units)}
  <2>1. \A l \in alpha : \E n \in 1..Len(units) : units[n].lit = l
    BY <1>1 DEF TrailExact
  <2>2. \A n \in 1..Len(units) : units[n].lit \in alpha
    BY <1>1 DEF TrailExact
  <2> QED
    BY <1>2, <2>1, <2>2
<1>4. pc \in {"load", "add", "read"} =>
        assumed = {} /\ \A u \in ToSet(units) : u.clause # 0
  BY <1>1, <1>2 DEF Control, Levels
<1>5. pc = "rat" => assumed = {v \in Vars(ToSet(Candidate)) : vars_unit_indexes[v] > 0}
  BY <1>1 DEF Control, Levels, CandidateLevel
<1> QED
  BY <1>3, <1>4, <1>5 DEF AssumptionsUndone

(* Every unit that is not assumed has a live reason before it: the hints     *)
(* read off the trail propagate in their order.                             *)
THEOREM Reasons == Spec => []ReasonsOrdered
<1>1. ASSUME ForwardInv PROVE ReasonsOrdered
  <2> PICK live, bare, C : live = Live /\ bare = Bare /\ C = Candidate
    OBVIOUS
  <2>1. TrailInv(live, bare, C)
    BY <1>1 DEF ForwardInv
  <2>2. ReasonsIn(live)
    BY <2>1, ReasonsAre
  <2> QED
    BY <2>2 DEF ReasonsOrdered
<1> QED
  BY <1>1, Invariant, PTL

(* No assumption outlives its line, nor an image's its check.               *)
THEOREM Assumptions == Spec => []AssumptionsUndone
<1>1. ForwardInv => AssumptionsUndone
  BY Undone
<1> QED
  BY <1>1, Invariant, PTL

(* The watch lists and the first two literals of the clauses agree.          *)
THEOREM Watched == Spec => []WatchesAttached
<1>1. ASSUME ForwardInv PROVE WatchesAttached
  <2> PICK live, bare, C : live = Live /\ bare = Bare /\ C = Candidate
    OBVIOUS
  <2>1. TrailInv(live, bare, C)
    BY <1>1 DEF ForwardInv
  <2>2. ASSUME NEW c \in 1..Len(clauses), clauses[c] # << >>,
               ~(derived_empty_clause /\ c = loaded)
        PROVE  WatchedOnce(c, Live)
    <3>1. c \notin bare
      BY <2>2 DEF Bare
    <3>2. WatchedOnce(c, live)
      BY <2>1, <2>2, <3>1, WatchedExactly
    <3> QED
      BY <3>2
  <2> QED
    BY <2>2 DEF WatchesAttached
<1> QED
  BY <1>1, Invariant, PTL

-----------------------------------------------------------------------------
(***************************************************************************)
(* Unit propagation misses nothing.                                         *)
(***************************************************************************)

(* Place m is taken back no earlier than place n is.                        *)
Below(m, n) ==
  /\ up_state # "GLOBAL_UP" /\ n < candidate_assumed => m < candidate_assumed
  /\ up_state = "RAT_UP" /\ n < RAT_assumed => m < RAT_assumed

(* When unit n makes a watch of clause c false, the other is true, and is    *)
(* so as long as the first is false.                                        *)
Settled(c, n) ==
  -units[n].lit \in Watches(c) =>
    \E m \in 1..Len(units) : units[m].lit \in Watches(c) /\ Below(m, n)

(* Where the units begin that the present propagation is about.             *)
Floor == CASE up_state = "RAT_UP"       -> RAT_assumed
           [] up_state = "CANDIDATE_UP" -> candidate_assumed
           [] OTHER                     -> global_up

(* The first unit whose watch list has not been walked to its end.          *)
Reached == CASE pc = "up"  -> i
           [] pc = "rat" -> Len(units) + 1
           [] OTHER      -> Floor

Passed(c, n) ==
  \/ n < Reached
  \/ pc = "up" /\ n = i /\ \E q \in 1..Len(wps[FalsifiedLit]) :
                             q < j /\ wps[FalsifiedLit][q] = c

UnitClausesTrue ==
  \A c \in Live : Len(clauses[c]) = 1 =>
    \E m \in 1..Len(units) : units[m].lit = clauses[c][1] /\ Below(m, 0)

PassedSettled ==
  \A c \in Live : \A n \in 1..Len(units) : Passed(c, n) => Settled(c, n)

Fronts ==
  /\ pc # "re-up"
  /\ pc \in {"load", "add", "read"} => global_up = Len(units) + 1
  /\ up_state # "GLOBAL_UP" => candidate_assumed = global_up
  /\ pc = "up" => Floor <= i /\ i <= Len(units) + 1

(* No deletion has unassigned units, and the formula is not refuted.         *)
Undisturbed == ~unassigned /\ ~derived_empty_clause

QueueInv == Undisturbed => Fronts /\ UnitClausesTrue /\ PassedSettled


LEMMA Above ==
  ASSUME ForwardInv, NEW m \in Nat, NEW n \in Nat, Floor <= n
  PROVE  Below(m, n)
<1>1. /\ up_state \in {"GLOBAL_UP", "CANDIDATE_UP", "RAT_UP"}
      /\ up_state # "GLOBAL_UP" =>
           candidate_assumed \in Nat /\ candidate_unit \in Nat
           /\ candidate_assumed <= candidate_unit
      /\ up_state = "RAT_UP" => RAT_assumed \in Nat /\ candidate_unit <= RAT_assumed
  BY DEF ForwardInv, TrailInv, TrailTypes, ForwardTypes, Levels, CandidateLevel
<1>2. CASE up_state = "GLOBAL_UP"
  BY <1>2 DEF Below
<1>3. CASE up_state = "CANDIDATE_UP"
  <2>1. candidate_assumed <= n
    BY <1>3 DEF Floor
  <2> QED
    BY <1>1, <1>3, <2>1 DEF Below
<1>4. CASE up_state = "RAT_UP"
  <2>1. RAT_assumed <= n
    BY <1>4 DEF Floor
  <2> QED
    BY <1>1, <1>4, <2>1 DEF Below
<1> QED
  BY <1>1, <1>2, <1>3, <1>4

LEMMA SettledKept ==
  ASSUME NEW c, NEW n, units'[n].lit = units[n].lit, Watches(c)' = Watches(c), Settled(c, n),
         \A m \in 1..Len(units) : Below(m, n) =>
           m \in 1..Len(units') /\ units'[m].lit = units[m].lit /\ Below(m, n)'
  PROVE  Settled(c, n)'
<1> SUFFICES ASSUME -units'[n].lit \in Watches(c)'
             PROVE  \E m \in 1..Len(units') : units'[m].lit \in Watches(c)' /\ Below(m, n)'
  BY DEF Settled
<1>1. PICK m \in 1..Len(units) : units[m].lit \in Watches(c) /\ Below(m, n)
  BY DEF Settled
<1>2. m \in 1..Len(units') /\ units'[m].lit = units[m].lit /\ Below(m, n)'
  BY <1>1
<1> QED
  BY <1>1, <1>2

(* What a step must show: of the clauses it makes live or whose watches it   *)
(* changes, and of the units it passes.                                     *)
LEMMA QueueKept ==
  ASSUME QueueInv, Undisturbed, Fronts',
         \A n \in 0..Len(units') : \A m \in 1..Len(units) :
           n <= Len(units) /\ Below(m, n) =>
             m \in 1..Len(units') /\ units'[m].lit = units[m].lit /\ Below(m, n)',
         \A n \in 1..Len(units') : n <= Len(units) => units'[n].lit = units[n].lit,
         \A c \in Live' : Len(clauses'[c]) = 1 =>
           \/ c \in Live /\ clauses'[c] = clauses[c]
           \/ \E m \in 1..Len(units') : units'[m].lit = clauses'[c][1] /\ Below(m, 0)',
         \A c \in Live' : \A n \in 1..Len(units') : Passed(c, n)' =>
           \/ /\ c \in Live /\ n \in 1..Len(units)
              /\ Watches(c)' = Watches(c) /\ Passed(c, n)
           \/ Settled(c, n)',
         Len(units) \in Nat, Len(units') \in Nat
  PROVE  QueueInv'
<1>1. UnitClausesTrue /\ PassedSettled
  BY DEF QueueInv, Undisturbed
<1>2. UnitClausesTrue'
  <2> SUFFICES ASSUME NEW c \in Live', Len(clauses'[c]) = 1
               PROVE  \E m \in 1..Len(units') : units'[m].lit = clauses'[c][1] /\ Below(m, 0)'
    BY DEF UnitClausesTrue
  <2>1. CASE c \in Live /\ clauses'[c] = clauses[c]
    <3>1. PICK m \in 1..Len(units) : units[m].lit = clauses[c][1] /\ Below(m, 0)
      BY <1>1, <2>1 DEF UnitClausesTrue
    <3>2. 0 \in 0..Len(units') /\ 0 <= Len(units)
      OBVIOUS
    <3>3. m \in 1..Len(units') /\ units'[m].lit = units[m].lit /\ Below(m, 0)'
      BY <3>1, <3>2
    <3> QED
      BY <2>1, <3>1, <3>3
  <2> QED
    BY <2>1
<1>3. PassedSettled'
  <2> SUFFICES ASSUME NEW c \in Live', NEW n \in 1..Len(units'), Passed(c, n)'
               PROVE  Settled(c, n)'
    BY DEF PassedSettled
  <2>1. CASE /\ c \in Live /\ n \in 1..Len(units)
             /\ Watches(c)' = Watches(c) /\ Passed(c, n)
    <3>1. Settled(c, n)
      BY <1>1, <2>1 DEF PassedSettled
    <3>2. n \in 0..Len(units') /\ n <= Len(units)
      BY <2>1
    <3>3. /\ units'[n].lit = units[n].lit
          /\ \A m \in 1..Len(units) : Below(m, n) =>
               m \in 1..Len(units') /\ units'[m].lit = units[m].lit /\ Below(m, n)'
      BY <3>2
    <3> QED
      BY <2>1, <3>1, <3>3, SettledKept
  <2> QED
    BY <2>1
<1> QED
  BY <1>2, <1>3 DEF QueueInv

LEMMA SameLevel ==
  ASSUME UNCHANGED <<up_state, candidate_assumed, RAT_assumed>>
  PROVE  \A m, n : Below(m, n) => Below(m, n)'
BY DEF Below

LEMMA LiveWatches ==
  ASSUME ForwardInv, ~derived_empty_clause, NEW c \in Live
  PROVE  /\ clauses[c] \in Seq(Lit) /\ clauses[c] # << >> /\ c \in 1..Len(clauses)
         /\ Len(clauses[c]) \in Nat /\ Len(clauses[c]) >= 1
         /\ Len(clauses[c]) = 1 => Watches(c) = {}
         /\ Len(clauses[c]) # 1 => /\ Len(clauses[c]) >= 2
                                   /\ Watches(c) = {clauses[c][1], clauses[c][2]}
                                   /\ clauses[c][1] \in Lit /\ clauses[c][2] \in Lit
                                   /\ clauses[c][1] # clauses[c][2]
                                   /\ \A l \in Watches(c) : Has(wps[l], c)
<1>1. /\ ClausesProper /\ Proper(clauses[c]) /\ clauses[c] \in Seq(Lit)
      /\ c \in 1..Len(clauses) /\ c <= loaded /\ loaded <= Len(clauses)
      /\ loaded \in Nat /\ Len(clauses) \in Nat
  BY Facts DEF ForwardInv
<1>2. clauses[c] # << >>
  <2> SUFFICES ASSUME clauses[c] = << >> PROVE FALSE
    OBVIOUS
  <2>1. c = Len(clauses) /\ (c = loaded => derived_empty_clause)
    BY <1>1 DEF ForwardInv, EmptyLast
  <2> QED
    BY <1>1, <2>1
<1>3. Len(clauses[c]) \in Nat /\ Len(clauses[c]) >= 1
  <2> PICK s \in Seq(Lit) : s = clauses[c]
    BY <1>1
  <2>1. s # << >>
    BY <1>2
  <2>2. Len(s) \in Nat /\ Len(s) >= 1
    BY ONLY s \in Seq(Lit), <2>1
  <2> QED
    BY <2>2
<1>4. /\ Len(clauses[c]) = 1 => Watches(c) = {}
      /\ Len(clauses[c]) # 1 => /\ Len(clauses[c]) >= 2
                                /\ Watches(c) = {clauses[c][1], clauses[c][2]}
                                /\ clauses[c][1] \in Lit /\ clauses[c][2] \in Lit
  BY <1>1, <1>2, WatchesAre
<1>5. ASSUME Len(clauses[c]) # 1
      PROVE  /\ clauses[c][1] # clauses[c][2]
             /\ \A l \in Watches(c) : Has(wps[l], c)
  <2>1. 1 \in 1..Len(clauses[c]) /\ 2 \in 1..Len(clauses[c])
    BY <1>3, <1>4, <1>5
  <2>2. clauses[c][1] # clauses[c][2]
    BY <1>1, <2>1, ProperFacts
  <2>3. Has(wps[clauses[c][1]], c) /\ Has(wps[clauses[c][2]], c)
    BY <1>4, <1>5 DEF ForwardInv, TrailInv, WatchesHold, Bare
  <2> QED
    BY <1>4, <1>5, <2>2, <2>3
<1> QED
  BY <1>1, <1>2, <1>3, <1>4, <1>5

(* A visit that puts the falsified watch second.                             *)
LEMMA SameWatches ==
  ASSUME ForwardInv, Visiting, PutOtherFirst, ~derived_empty_clause,
         UNCHANGED <<wps, loaded, deleted, derived_empty_clause>>
  PROVE  /\ Live' = Live
         /\ \A c \in Live : /\ Watches(c)' = Watches(c)
                            /\ Len(clauses'[c]) = 1 => clauses'[c] = clauses[c]
<1> PICK w : w = Watcher
  OBVIOUS
<1> PICK D : D = OtherFirst
  OBVIOUS
<1>1. /\ w \in Live /\ w \in 1..Len(clauses) /\ Len(clauses[w]) >= 2
      /\ Proper(D) /\ Len(D) = Len(clauses[w])
      /\ \/ D[1] = clauses[w][1] /\ D[2] = clauses[w][2]
         \/ D[1] = clauses[w][2] /\ D[2] = clauses[w][1]
  BY Watching
<1>2. clauses' = [clauses EXCEPT ![w] = D]
  BY DEF PutOtherFirst
<1>3. clauses'[w] = D /\ \A c \in 1..Len(clauses) : c # w => clauses'[c] = clauses[c]
  BY <1>1, <1>2, ClauseEdited DEF ForwardInv
<1>4. Live' = Live
  BY DEF Live
<1>5. ASSUME NEW c \in Live
      PROVE  /\ Watches(c)' = Watches(c)
             /\ Len(clauses'[c]) = 1 => clauses'[c] = clauses[c]
  <2>1. CASE c = w
    <3> PICK n \in Nat : n = Len(D)
      BY <1>1, ProperFacts
    <3>1. n >= 2 /\ n # 1 /\ Len(clauses[w]) = n /\ Len(clauses'[w]) = n
      BY <1>1, <1>3
    <3>2. 1..2 = {1, 2}
      OBVIOUS
    <3>3. Watches(w) = {clauses[w][1], clauses[w][2]}
      BY <3>1, <3>2 DEF Watches
    <3>4. Watches(w)' = {D[1], D[2]}
      BY <1>3, <3>1, <3>2 DEF Watches
    <3> QED
      BY <1>1, <2>1, <3>1, <3>3, <3>4
  <2>2. CASE c # w
    <3>1. clauses'[c] = clauses[c]
      BY <1>3, <2>2, LiveWatches
    <3> QED
      BY <3>1 DEF Watches
  <2> QED
    BY <2>1, <2>2
<1> QED
  BY <1>4, <1>5

(* What a clause is visited for, and what is known when it is.               *)
LEMMA VisitQueue ==
  ASSUME ForwardInv, QueueInv, Undisturbed, Propagating
  PROVE  /\ pc = "up" /\ Floor <= i /\ Reached = i /\ i \in 1..Len(units) /\ i \in Nat
         /\ \A m \in Nat : Below(m, i)
         /\ Len(units) \in Nat /\ Fronts
<1>1. Fronts
  BY DEF QueueInv, Undisturbed
<1>2. pc = "up" /\ Floor <= i /\ Reached = i
  BY <1>1 DEF Fronts, Propagating, Reached
<1>3. i \in 1..Len(units) /\ i \in Nat /\ Len(units) \in Nat
  BY <1>2, Facts DEF ForwardInv, TrailInv, TrailTypes, ForwardTypes, Control, Propagating
<1> QED
  BY <1>1, <1>2, <1>3, Above

LEMMA SkipQueue ==
  ASSUME ForwardInv, ForwardInv', QueueInv, Undisturbed, SkipSatisfied
  PROVE  QueueInv'
<1>1. /\ Visiting /\ PutOtherFirst /\ j' = j + 1 /\ IsTrue(OtherFirst[1])
      /\ UNCHANGED <<loaded, wps, i, pc, alphaVars, upVars, deleted,
                     derived_empty_clause, unassigned>>
  BY DEF SkipSatisfied, hintVars, lineVars
<1>2. /\ Live' = Live
      /\ \A c \in Live : /\ Watches(c)' = Watches(c)
                         /\ Len(clauses'[c]) = 1 => clauses'[c] = clauses[c]
  BY <1>1, SameWatches DEF Undisturbed
<1>3. /\ pc = "up" /\ Reached = i /\ i \in 1..Len(units)
      /\ \A m \in Nat : Below(m, i)
      /\ Len(units) \in Nat /\ Fronts
  BY <1>1, VisitQueue DEF Visiting
<1>4. UNCHANGED <<units, up_state, candidate_assumed, RAT_assumed, global_up>>
  BY <1>1 DEF alphaVars, upVars, levelVars
<1>5. Fronts'
  BY <1>1, <1>3, <1>4 DEF Fronts, Floor
<1>6. FalsifiedLit' = FalsifiedLit /\ Reached' = i
  BY <1>1, <1>3, <1>4 DEF FalsifiedLit, Reached
<1>7. ASSUME NEW c \in Live, NEW n \in 1..Len(units), Passed(c, n)', ~Passed(c, n)
      PROVE  Settled(c, n)'
  <2>1. PICK q \in 1..Len(wps[FalsifiedLit]) :
          n = i /\ q < j + 1 /\ wps[FalsifiedLit][q] = c
    BY <1>1, <1>3, <1>6, <1>7 DEF Passed
  <2>2. j \in 1..Len(wps[FalsifiedLit]) /\ Watcher = wps[FalsifiedLit][j]
    BY <1>1, Watching
  <2>3. ~(q < j)
    BY <1>3, <1>7, <2>1 DEF Passed
  <2>4. q = j
    BY <2>1, <2>2, <2>3
  <2>5. c = Watcher
    BY <2>1, <2>2, <2>4
  <2>6. OtherFirst[1] \in Watches(c)
    <3>1. /\ Len(clauses[c]) >= 2
          /\ OtherFirst[1] = clauses[c][1] \/ OtherFirst[1] = clauses[c][2]
      BY <1>1, <2>5, Watching
    <3> DEFINE L == Len(clauses[c])
    <3>2. L \in Nat /\ L >= 2
      BY <3>1, LiveWatches DEF Undisturbed
    <3> HIDE DEF L
    <3>3. L # 1
      BY ONLY <3>2
    <3>4. Watches(c) = {clauses[c][1], clauses[c][2]}
      BY <3>3, LiveWatches DEF Undisturbed, L
    <3> QED
      BY <3>1, <3>4
  <2>7. PICK m \in 1..Len(units) : units[m].lit = OtherFirst[1]
    BY <1>1 DEF ForwardInv, TrailInv, TrailExact, IsTrue
  <2>8. Below(m, n)'
    BY <1>3, <1>4, <2>1, SameLevel
  <2>9. m \in 1..Len(units') /\ units'[m].lit \in Watches(c)'
    BY <1>2, <1>4, <2>6, <2>7
  <2> QED
    BY <2>8, <2>9 DEF Settled
<1>8. \A n \in 0..Len(units') : \A m \in 1..Len(units) :
        n <= Len(units) /\ Below(m, n) =>
          m \in 1..Len(units') /\ units'[m].lit = units[m].lit /\ Below(m, n)'
  BY <1>4, SameLevel
<1> QED
  BY <1>2, <1>3, <1>4, <1>5, <1>7, <1>8, QueueKept

LEMMA ConflictQueue ==
  ASSUME ForwardInv, ForwardInv', QueueInv, Undisturbed, FindConflict
  PROVE  QueueInv'
<1>1. /\ Visiting /\ PutOtherFirst
      /\ UNCHANGED <<loaded, wps, i, alphaVars, upVars, deleted,
                     derived_empty_clause, unassigned>>
  BY DEF FindConflict, hintVars, lineVars
<1>2. /\ Live' = Live
      /\ \A c \in Live : /\ Watches(c)' = Watches(c)
                         /\ Len(clauses'[c]) = 1 => clauses'[c] = clauses[c]
  BY <1>1, SameWatches DEF Undisturbed
<1>3. /\ pc = "up" /\ Floor <= i /\ Reached = i /\ i \in 1..Len(units)
      /\ Len(units) \in Nat /\ Fronts
  BY <1>1, VisitQueue DEF Visiting
<1>4. /\ pc' = "falsified"
      /\ UNCHANGED <<units, up_state, candidate_assumed, RAT_assumed, global_up>>
  BY <1>1, <1>3 DEF alphaVars, upVars, levelVars, FindConflict
<1>5. Fronts'
  BY <1>1, <1>3, <1>4 DEF Fronts
<1>6. Reached' = Floor
  BY <1>3, <1>4 DEF Reached, Floor
<1>7. Floor \in Nat
  BY DEF Floor, ForwardInv, TrailInv, TrailTypes, ForwardTypes
<1>8. \A c \in Live : \A n \in 1..Len(units) : Passed(c, n)' => Passed(c, n)
  BY <1>3, <1>4, <1>6, <1>7 DEF Passed
<1>9. \A n \in 0..Len(units') : \A m \in 1..Len(units) :
        n <= Len(units) /\ Below(m, n) =>
          m \in 1..Len(units') /\ units'[m].lit = units[m].lit /\ Below(m, n)'
  BY <1>4, SameLevel
<1> QED
  BY <1>2, <1>3, <1>4, <1>5, <1>8, <1>9, QueueKept

LEMMA NextUnitQueue ==
  ASSUME ForwardInv, ForwardInv', QueueInv, Undisturbed, NextUnit
  PROVE  QueueInv'
<1>1. /\ Propagating /\ j > Len(wps[FalsifiedLit]) /\ i' = i + 1 /\ j' = 1
      /\ UNCHANGED <<clauses, loaded, wps, pc, alphaVars, upVars, deleted,
                     derived_empty_clause, unassigned>>
  BY DEF NextUnit, hintVars, lineVars
<1>2. Live' = Live /\ \A c : Watches(c)' = Watches(c)
  BY <1>1 DEF Live, Watches
<1>3. /\ pc = "up" /\ Floor <= i /\ Reached = i /\ i \in 1..Len(units) /\ i \in Nat
      /\ \A m \in Nat : Below(m, i)
      /\ Len(units) \in Nat /\ Fronts
  BY <1>1, VisitQueue
<1>4. UNCHANGED <<units, up_state, candidate_assumed, RAT_assumed, global_up>>
  BY <1>1 DEF alphaVars, upVars, levelVars
<1>5. Fronts'
  <2>1. Floor \in Nat /\ Floor' = Floor
    BY <1>4 DEF Floor, ForwardInv, TrailInv, TrailTypes, ForwardTypes
  <2>2. Floor' <= i' /\ i' <= Len(units') + 1
    BY <1>1, <1>3, <1>4, <2>1
  <2> QED
    BY <1>1, <1>3, <1>4, <2>2 DEF Fronts
<1>6. Reached' = i + 1
  BY <1>1, <1>3 DEF Reached
<1>7. ASSUME NEW c \in Live, NEW n \in 1..Len(units), Passed(c, n)', ~Passed(c, n)
      PROVE  Settled(c, n)'
  <2>1. n < i + 1 \/ \E q \in 1..Len(wps'[FalsifiedLit']) : q < 1
    BY <1>1, <1>6, <1>7 DEF Passed
  <2>2. n = i
    BY <1>3, <1>7, <2>1 DEF Passed
  <2>3. ASSUME -units[n].lit \in Watches(c) PROVE FALSE
    <3>1. Has(wps[FalsifiedLit], c)
      BY <2>2, <2>3, LiveWatches DEF FalsifiedLit, Undisturbed
    <3>2. PICK q \in 1..Len(wps[FalsifiedLit]) : wps[FalsifiedLit][q] = c
      BY <3>1 DEF Has
    <3>3. Len(wps[FalsifiedLit]) \in Nat /\ j \in Nat
      <4>1. FalsifiedLit \in Lit
        BY <1>3, Facts, LitFacts DEF ForwardInv, FalsifiedLit
      <4> QED
        BY <4>1 DEF ForwardInv, TrailInv, TrailTypes, ForwardTypes
    <3>4. q < j
      BY <1>1, <3>3
    <3> QED
      BY <1>3, <1>7, <2>2, <3>2, <3>4 DEF Passed
  <2> QED
    BY <1>2, <1>4, <2>3 DEF Settled
<1>8. \A n \in 0..Len(units') : \A m \in 1..Len(units) :
        n <= Len(units) /\ Below(m, n) =>
          m \in 1..Len(units') /\ units'[m].lit = units[m].lit /\ Below(m, n)'
  BY <1>4, SameLevel
<1> QED
  BY <1>1, <1>2, <1>3, <1>4, <1>5, <1>7, <1>8, QueueKept

LEMMA FinishQueue ==
  ASSUME ForwardInv, ForwardInv', QueueInv, Undisturbed, FinishUp
  PROVE  QueueInv'
<1>1. /\ pc \in {"up", "re-up"} /\ i > Len(units)
      /\ global_up' = IF up_state = "GLOBAL_UP" THEN i ELSE global_up
      /\ pc' = CASE up_state = "RAT_UP"       -> "FATAL"
                 [] up_state = "CANDIDATE_UP" -> IF Candidate = << >>
                                                 THEN "FATAL" ELSE "rat"
                 [] OTHER -> IF derived_empty_clause THEN "UNSAT"
                             ELSE IF loaded < Len(clauses) THEN "load" ELSE "read"
      /\ UNCHANGED <<clauses, loaded, wps, i, j, alphaVars, levelVars, deleted,
                     derived_empty_clause, unassigned>>
  BY DEF FinishUp, hintVars, lineVars
<1>2. Live' = Live /\ \A c : Watches(c)' = Watches(c)
  BY <1>1 DEF Live, Watches
<1>3. UNCHANGED <<units, up_state, candidate_assumed, RAT_assumed>>
  BY <1>1 DEF alphaVars, levelVars
<1>4. Fronts /\ pc = "up" /\ Floor <= i /\ i <= Len(units) + 1 /\ Reached = i
  BY <1>1 DEF QueueInv, Undisturbed, Fronts, Reached
<1>5. i \in Nat /\ Len(units) \in Nat /\ Floor \in Nat
      /\ up_state \in {"GLOBAL_UP", "CANDIDATE_UP", "RAT_UP"}
  BY Facts DEF ForwardInv, TrailInv, TrailTypes, ForwardTypes, Floor
<1>6. i = Len(units) + 1
  BY <1>1, <1>4, <1>5
<1>7. Fronts' /\ Reached' <= i /\ Reached' \in Nat /\ pc' # "up"
  <2>1. CASE up_state = "GLOBAL_UP"
    <3>1. pc' \in {"load", "read"} /\ global_up' = i
      BY <1>1, <2>1 DEF Undisturbed
    <3>2. Reached' = i
      BY <1>3, <2>1, <3>1 DEF Reached, Floor
    <3> QED
      BY <1>3, <1>5, <1>6, <2>1, <3>1, <3>2 DEF Fronts
  <2>2. CASE up_state = "CANDIDATE_UP"
    <3>1. pc' \in {"FATAL", "rat"} /\ global_up' = global_up
      BY <1>1, <2>2 DEF Undisturbed
    <3>2. Reached' = IF pc' = "rat" THEN Len(units) + 1 ELSE Floor
      BY <1>3, <2>2, <3>1 DEF Reached, Floor
    <3> QED
      BY <1>3, <1>4, <1>5, <1>6, <2>2, <3>1, <3>2 DEF Fronts
  <2>3. CASE up_state = "RAT_UP"
    <3>1. pc' = "FATAL" /\ global_up' = global_up
      BY <1>1, <2>3 DEF Undisturbed
    <3>2. Reached' = Floor
      BY <1>3, <2>3, <3>1 DEF Reached, Floor
    <3> QED
      BY <1>3, <1>4, <1>5, <2>3, <3>1, <3>2 DEF Fronts
  <2> QED
    BY <1>5, <2>1, <2>2, <2>3
<1>8. \A c \in Live : \A n \in 1..Len(units) : Passed(c, n)' => Passed(c, n)
  BY <1>4, <1>5, <1>7 DEF Passed
<1>9. \A n \in 0..Len(units') : \A m \in 1..Len(units) :
        n <= Len(units) /\ Below(m, n) =>
          m \in 1..Len(units') /\ units'[m].lit = units[m].lit /\ Below(m, n)'
  BY <1>3, SameLevel
<1> QED
  BY <1>1, <1>2, <1>3, <1>5, <1>7, <1>8, <1>9, QueueKept

LEMMA UnitAppended ==
  ASSUME TrailTypes, NEW l \in Lit, NEW c \in Nat, SetUnit(l, c)
  PROVE  /\ Len(units') = Len(units) + 1 /\ Len(units) \in Nat
         /\ units'[Len(units) + 1].lit = l
         /\ \A n \in 1..Len(units) : units'[n] = units[n]
<1> DEFINE u == [lit |-> l, clause |-> c]
<1>1. u \in Unit /\ u.lit = l
  BY DEF Unit
<1>2. units \in Seq(Unit) /\ units' = Append(units, u)
  BY DEF TrailTypes, SetUnit
<1> HIDE DEF u
<1>3. /\ Len(units') = Len(units) + 1 /\ Len(units) \in Nat
      /\ units'[Len(units) + 1] = u
      /\ \A n \in 1..Len(units) : units'[n] = units[n]
  BY <1>1, <1>2
<1> QED
  BY <1>1, <1>3

LEMMA FindUnitQueue ==
  ASSUME ForwardInv, ForwardInv', QueueInv, Undisturbed, FindUnit
  PROVE  QueueInv'
<1>1. /\ Visiting /\ PutOtherFirst /\ j' = j + 1 /\ SetUnit(OtherFirst[1], Watcher)
      /\ UNCHANGED <<loaded, wps, i, pc, upVars, deleted,
                     derived_empty_clause, unassigned>>
  BY DEF FindUnit, hintVars, lineVars
<1>2. /\ Live' = Live
      /\ \A c \in Live : /\ Watches(c)' = Watches(c)
                         /\ Len(clauses'[c]) = 1 => clauses'[c] = clauses[c]
  BY <1>1, SameWatches DEF Undisturbed
<1>3. /\ pc = "up" /\ Floor <= i /\ Reached = i /\ i \in 1..Len(units) /\ i \in Nat
      /\ \A m \in Nat : Below(m, i)
      /\ Len(units) \in Nat /\ Fronts
  BY <1>1, VisitQueue DEF Visiting
<1>4. UNCHANGED <<up_state, candidate_assumed, RAT_assumed, global_up>>
  BY <1>1 DEF upVars, levelVars
<1>5. /\ j \in 1..Len(wps[FalsifiedLit]) /\ Watcher = wps[FalsifiedLit][j]
      /\ Watcher \in Live /\ Watcher \in Nat /\ Len(clauses[Watcher]) >= 2
      /\ OtherFirst[1] = clauses[Watcher][1] \/ OtherFirst[1] = clauses[Watcher][2]
  BY <1>1, Watching, Facts
<1>6. OtherFirst[1] \in Watches(Watcher) /\ OtherFirst[1] \in Lit
  <2> PICK c \in Live : c = Watcher
    BY <1>5
  <2> DEFINE L == Len(clauses[c])
  <2>1. L \in Nat /\ L >= 2
    BY <1>5, LiveWatches DEF Undisturbed
  <2> HIDE DEF L
  <2>2. L # 1
    BY ONLY <2>1
  <2>3. /\ Watches(c) = {clauses[c][1], clauses[c][2]}
        /\ clauses[c][1] \in Lit /\ clauses[c][2] \in Lit
    BY <2>2, LiveWatches DEF Undisturbed, L
  <2> QED
    BY <1>5, <2>3
<1>7. /\ Len(units') = Len(units) + 1
      /\ units'[Len(units) + 1].lit = OtherFirst[1]
      /\ \A n \in 1..Len(units) : units'[n] = units[n]
  <2> PICK l \in Lit : l = OtherFirst[1]
    BY <1>6
  <2> PICK c \in Nat : c = Watcher
    BY <1>5
  <2>1. SetUnit(l, c)
    BY <1>1
  <2> QED
    BY <2>1, Facts, UnitAppended
<1>8. Fronts'
  BY <1>1, <1>3, <1>4, <1>7 DEF Fronts, Floor
<1>9. FalsifiedLit' = FalsifiedLit /\ Reached' = i
  BY <1>1, <1>3, <1>7 DEF FalsifiedLit, Reached
<1>10. ASSUME NEW c \in Live, NEW n \in 1..Len(units'), Passed(c, n)',
              ~(n \in 1..Len(units) /\ Passed(c, n))
       PROVE  Settled(c, n)'
  <2>1. n <= i /\ n \in 1..Len(units)
    BY <1>1, <1>3, <1>7, <1>9, <1>10 DEF Passed
  <2>2. PICK q \in 1..Len(wps[FalsifiedLit]) :
          n = i /\ q < j + 1 /\ wps[FalsifiedLit][q] = c
    BY <1>1, <1>3, <1>9, <1>10, <2>1 DEF Passed
  <2>3. ~(q < j)
    BY <1>3, <1>10, <2>1, <2>2 DEF Passed
  <2>4. q = j
    BY <1>5, <2>2, <2>3
  <2>5. c = Watcher
    BY <1>5, <2>2, <2>4
  <2> PICK m \in Nat : m = Len(units) + 1
    BY <1>3
  <2>6. Below(m, n)'
    BY <1>3, <1>4, <2>2, SameLevel
  <2>7. m \in 1..Len(units') /\ units'[m].lit \in Watches(c)'
    BY <1>2, <1>3, <1>6, <1>7, <2>5
  <2> QED
    BY <2>6, <2>7 DEF Settled
<1>11. \A n \in 0..Len(units') : \A m \in 1..Len(units) :
         n <= Len(units) /\ Below(m, n) =>
           m \in 1..Len(units') /\ units'[m].lit = units[m].lit /\ Below(m, n)'
  BY <1>3, <1>4, <1>7, SameLevel
<1>12. /\ Len(units') \in Nat
       /\ \A n \in 1..Len(units') : n <= Len(units) => units'[n].lit = units[n].lit
  BY <1>3, <1>7
<1> QED
  BY <1>2, <1>3, <1>8, <1>10, <1>11, <1>12, QueueKept

(* A watch is moved to a literal that is not false, in a clause whose other  *)
(* watch is not true: no unit passed has made a watch of it false.           *)
LEMMA ReplaceQueue ==
  ASSUME ForwardInv, ForwardInv', QueueInv, Undisturbed, ReplaceWatch
  PROVE  QueueInv'
<1> DEFINE K == CHOOSE m \in Replacements : \A n \in Replacements : m <= n
<1> PICK C : C = OtherFirst
  OBVIOUS
<1> PICK w : w = Watcher
  OBVIOUS
<1> PICK f : f = FalsifiedLit
  OBVIOUS
<1> PICK k : k = K
  OBVIOUS
<1> DEFINE D == Swap(C, 2, k)
           x == C[k]
<1>1. /\ Visiting /\ ~IsTrue(C[1]) /\ Replacements # {}
      /\ clauses' = [clauses EXCEPT ![w] = D]
      /\ wps' = [wps EXCEPT ![x] = Append(@, w), ![f] = RemoveWatch(@, j)]
      /\ UNCHANGED <<loaded, i, j, pc, alphaVars, upVars, deleted,
                     derived_empty_clause, unassigned>>
  BY DEF ReplaceWatch, MoveWatch, hintVars, lineVars
<1>2. /\ w \in Live /\ w \in 1..Len(clauses) /\ Len(clauses[w]) >= 2
      /\ Proper(C) /\ Len(C) = Len(clauses[w]) /\ C[2] = f /\ f \in Lit /\ IsFalse(f)
      /\ j \in 1..Len(wps[f]) /\ w = wps[f][j] /\ ~IsTrue(f)
      /\ \/ C = clauses[w]
         \/ clauses[w][1] = f /\ C[1] = clauses[w][2]
  BY <1>1, Watching
<1>3. Len(C) \in Nat /\ \A m \in 1..Len(C) : C[m] \in Lit
  BY <1>2, ProperFacts
<1>4. k \in 3..Len(C) /\ ~IsFalse(x)
  <2>1. Replacements \subseteq 3..Len(C) /\ 3..Len(C) \subseteq Nat
        /\ \A m \in Replacements : ~IsFalse(C[m])
    BY <1>3 DEF Replacements
  <2>2. K \in Replacements
    BY <1>1, <2>1, FirstPlace
  <2> HIDE DEF K
  <2> QED
    BY <2>1, <2>2
<1> HIDE DEF K
<1>5. 1 \in 1..Len(C) /\ 2 \in 1..Len(C) /\ k \in 1..Len(C) /\ k # 1 /\ k # 2
  <2> PICK L \in Nat : L = Len(C)
    BY <1>3
  <2>1. k \in 3..L
    BY <1>4
  <2>2. 1 \in 1..L /\ 2 \in 1..L /\ k \in 1..L /\ k # 1 /\ k # 2
    BY ONLY <2>1, L \in Nat
  <2> QED
    BY <2>2
<1>6. /\ Proper(D) /\ Len(D) = Len(C) /\ D[1] = C[1] /\ D[2] = x /\ x \in Lit
      /\ x # f /\ x # C[1] /\ C[1] # f /\ x # -C[1]
  <2>1. /\ Proper(D) /\ Len(D) = Len(C) /\ D[2] = C[k]
        /\ \A m \in 1..Len(C) : m # 2 /\ m # k => D[m] = C[m]
    <3>1. Proper(C) /\ 2 \in 1..Len(C) /\ k \in 1..Len(C)
      BY <1>2, <1>5
    <3> QED
      BY ONLY <3>1, Swapped
  <2>2. C[k] # C[2] /\ C[k] # C[1] /\ C[1] # C[2] /\ C[k] # -C[1]
    BY <1>2, <1>5, ProperFacts
  <2> QED
    BY <1>2, <1>3, <1>5, <2>1, <2>2
<1> HIDE DEF D, x
<1>7. clauses'[w] = D /\ \A c \in 1..Len(clauses) : c # w => clauses'[c] = clauses[c]
  BY <1>1, <1>2, <1>6, ClauseEdited DEF ForwardInv
<1>8. /\ pc = "up" /\ Reached = i /\ i \in 1..Len(units)
      /\ Len(units) \in Nat /\ Fronts
  BY <1>1, VisitQueue DEF Visiting
<1>9. UNCHANGED <<units, alpha, up_state, candidate_assumed, RAT_assumed, global_up>>
  BY <1>1 DEF alphaVars, upVars, levelVars
<1>10. Live' = Live
  BY <1>1 DEF Live
<1>11. Fronts'
  BY <1>1, <1>8, <1>9 DEF Fronts, Floor
<1>12. Reached' = i /\ FalsifiedLit' = f
  BY <1>1, <1>8, <1>9 DEF Reached, FalsifiedLit
<1>13. /\ Watches(w) = {C[1], f} /\ Watches(w)' = {C[1], x}
       /\ Len(clauses'[w]) # 1
  <2> PICK L \in Nat : L = Len(C)
    BY <1>3
  <2>1. L >= 2 /\ Len(clauses[w]) = L /\ Len(clauses'[w]) = L
    BY <1>2, <1>6, <1>7
  <2>2. L # 1
    BY ONLY <2>1, L \in Nat
  <2>3. 1..2 = {1, 2}
    OBVIOUS
  <2>4. Watches(w) = {clauses[w][1], clauses[w][2]}
    BY <2>1, <2>2, <2>3 DEF Watches
  <2>5. Watches(w)' = {D[1], D[2]}
    BY <1>7, <2>1, <2>2, <2>3 DEF Watches
  <2>6. {clauses[w][1], clauses[w][2]} = {C[1], f}
    BY <1>2
  <2> QED
    BY <1>6, <2>1, <2>2, <2>4, <2>5, <2>6
<1>14. ASSUME NEW c \in Live, c # w
       PROVE  Watches(c)' = Watches(c) /\ clauses'[c] = clauses[c]
  <2>1. clauses'[c] = clauses[c]
    BY <1>7, <1>14, LiveWatches DEF Undisturbed
  <2> QED
    BY <2>1 DEF Watches
<1>15. \A q \in 1..Len(wps'[f]) : q < j => wps'[f][q] = wps[f][q] /\ q \in 1..Len(wps[f])
  <2> PICK s \in Seq(Nat) : s = wps[f]
    BY <1>2 DEF ForwardInv, TrailInv, TrailTypes, ForwardTypes
  <2>1. wps'[f] = RemoveWatch(s, j)
    BY <1>1, <1>2, <1>6 DEF ForwardInv, TrailInv, TrailTypes, ForwardTypes
  <2>2. j \in 1..Len(s) /\ Len(s) \in Nat
    BY <1>2
  <2> DEFINE e == [s EXCEPT ![j] = s[Len(s)]]
  <2>3. /\ e \in Seq(Nat) /\ Len(e) = Len(s)
        /\ \A q \in 1..Len(s) : q # j => e[q] = s[q]
    BY <2>2
  <2>4. RemoveWatch(s, j) = SubSeq(e, 1, Len(s) - 1)
    BY DEF RemoveWatch
  <2> HIDE DEF e
  <2>5. /\ Len(RemoveWatch(s, j)) = Len(s) - 1
        /\ \A q \in 1..Len(s) - 1 : RemoveWatch(s, j)[q] = e[q]
    <3> DEFINE n == Len(s) - 1
    <3>1. n \in Nat /\ n <= Len(e)
      BY <2>2, <2>3
    <3>2. RemoveWatch(s, j) = SubSeq(e, 1, n)
      BY <2>4
    <3> HIDE DEF n
    <3>3. /\ Len(RemoveWatch(s, j)) = n
          /\ \A q \in 1..n : RemoveWatch(s, j)[q] = e[q]
      BY <2>3, <3>1, <3>2
    <3> QED
      BY <3>3 DEF n
  <2> QED
    BY <2>1, <2>2, <2>3, <2>5
<1>16. ASSUME NEW c \in Live, NEW n \in 1..Len(units), Passed(c, n)', c # w
       PROVE  Passed(c, n)
  BY <1>1, <1>8, <1>12, <1>15, <1>16 DEF Passed
<1>17. ASSUME NEW n \in 1..Len(units), Passed(w, n)'
       PROVE  Settled(w, n)'
  <2>1. units[n].lit \in alpha /\ units[n].lit \in Lit
    BY Facts DEF ForwardInv, TrailInv, TrailExact
  <2>2. ASSUME -units[n].lit \in Watches(w)' PROVE FALSE
    <3>1. -units[n].lit # x
      BY <1>4, <1>6, <2>1, LitFacts DEF IsFalse
    <3>2. -units[n].lit = C[1]
      BY <1>13, <2>2, <3>1
    <3>3. n # i
      BY <1>6, <3>2 DEF FalsifiedLit
    <3>4. n < i
      BY <1>1, <1>8, <1>12, <1>17, <3>3 DEF Passed
    <3>5. Settled(w, n)
      BY <1>2, <1>8, <3>4 DEF QueueInv, Undisturbed, PassedSettled, Passed
    <3>6. PICK m \in 1..Len(units) : units[m].lit \in {C[1], f}
      BY <1>13, <3>2, <3>5 DEF Settled
    <3>7. units[m].lit \in alpha
      BY DEF ForwardInv, TrailInv, TrailExact
    <3> QED
      BY <1>1, <1>2, <3>6, <3>7 DEF IsTrue
  <2> QED
    BY <1>9, <2>2 DEF Settled
<1>18. \A n \in 0..Len(units') : \A m \in 1..Len(units) :
         n <= Len(units) /\ Below(m, n) =>
           m \in 1..Len(units') /\ units'[m].lit = units[m].lit /\ Below(m, n)'
  BY <1>9, SameLevel
<1>19. \A c \in Live : c = w \/ c # w
  OBVIOUS
<1> QED
  BY <1>8, <1>9, <1>10, <1>11, <1>13, <1>14, <1>16, <1>17, <1>18, <1>19, QueueKept

(* When a clause is loaded every unit has been passed, for the others.       *)
LEMMA LoadQueue ==
  ASSUME ForwardInv, ForwardInv', QueueInv, Undisturbed, Adding,
         NEW a, a = Added, loaded' = Added,
         i' = global_up, j' = 1, pc' = "up",
         UNCHANGED <<upVars, deleted, derived_empty_clause, unassigned>>,
         Len(units) <= Len(units'),
         \A n \in 1..Len(units) : units'[n].lit = units[n].lit,
         \A c \in Live : clauses'[c] = clauses[c],
         Len(clauses'[a]) = 1 =>
           \E m \in 1..Len(units') : units'[m].lit = clauses'[a][1],
         \A n \in 1..Len(units) : Settled(a, n)'
  PROVE  QueueInv'
<1>1. up_state = "GLOBAL_UP" /\ Live' = Live \cup {a}
  BY Loading
<1>2. /\ UNCHANGED <<up_state, candidate_assumed, RAT_assumed, global_up>>
      /\ up_state' = "GLOBAL_UP"
  BY <1>1 DEF upVars, levelVars
<1>3. Len(units) \in Nat /\ Len(units') \in Nat /\ global_up \in Nat
  <2>1. TrailTypes /\ TrailTypes'
    BY DEF ForwardInv, TrailInv
  <2>2. Len(units) \in Nat /\ global_up \in Nat
    BY <2>1, Facts DEF TrailTypes
  <2>3. units' \in Seq(Unit)
    BY <2>1 DEF TrailTypes
  <2> QED
    BY <2>2, <2>3
<1>4. Fronts /\ global_up = Len(units) + 1
  BY DEF QueueInv, Undisturbed, Fronts, Adding
<1>5. Fronts'
  BY <1>2, <1>3, <1>4 DEF Fronts, Floor
<1>6. Reached = global_up /\ Reached' = global_up
  BY <1>1, <1>2 DEF Reached, Floor, Adding
<1>7. \A m, n : Below(m, n)'
  BY <1>2 DEF Below
<1>8. \A c \in Live : Watches(c)' = Watches(c)
  BY DEF Watches
<1>9. ASSUME NEW c \in Live', NEW n \in 1..Len(units'), Passed(c, n)'
      PROVE  \/ /\ c \in Live /\ n \in 1..Len(units)
                /\ Watches(c)' = Watches(c) /\ Passed(c, n)
             \/ Settled(c, n)'
  <2>1. n < global_up
    <3>1. n < global_up \/ \E q \in Nat : q < 1 /\ q >= 1
      BY <1>6, <1>9 DEF Passed
    <3> QED
      BY <3>1
  <2>2. n \in 1..Len(units) /\ Passed(c, n)
    BY <1>3, <1>4, <1>6, <2>1 DEF Passed
  <2>3. CASE c = a
    BY <2>2, <2>3
  <2>4. CASE c \in Live
    BY <1>8, <2>2, <2>4
  <2> QED
    BY <1>1, <2>3, <2>4
<1>10. \A c \in Live' : Len(clauses'[c]) = 1 =>
         \/ c \in Live /\ clauses'[c] = clauses[c]
         \/ \E m \in 1..Len(units') : units'[m].lit = clauses'[c][1] /\ Below(m, 0)'
  <2> SUFFICES ASSUME NEW c \in Live', Len(clauses'[c]) = 1, c \notin Live
               PROVE  \E m \in 1..Len(units') :
                        units'[m].lit = clauses'[c][1] /\ Below(m, 0)'
    OBVIOUS
  <2>1. c = a
    BY <1>1
  <2> QED
    BY <1>7, <2>1
<1>11. \A n \in 0..Len(units') : \A m \in 1..Len(units) :
         n <= Len(units) /\ Below(m, n) =>
           m \in 1..Len(units') /\ units'[m].lit = units[m].lit /\ Below(m, n)'
  BY <1>3, <1>7
<1>12. \A n \in 1..Len(units') : n <= Len(units) => units'[n].lit = units[n].lit
  BY <1>3
<1> QED
  BY <1>3, <1>5, <1>9, <1>10, <1>11, <1>12, QueueKept

LEMMA AddUnitQueue ==
  ASSUME ForwardInv, ForwardInv', QueueInv, Undisturbed, AddUnit
  PROVE  QueueInv'
<1>1. /\ Adding /\ AttachUnit(Added) /\ loaded' = Added
      /\ i' = global_up /\ j' = 1 /\ pc' = "up"
      /\ UNCHANGED <<clauses, wps, upVars, deleted, derived_empty_clause, unassigned>>
  BY DEF AddUnit, StartUp, hintVars, lineVars
<1> PICK a : a = Added
  OBVIOUS
<1>2. /\ a \in 1..Len(clauses) /\ a \in Nat
      /\ \A n \in 1..Len(units) : units[n].clause # 0
  <2>1. a \in 1..Len(clauses) /\ a \in Nat /\ up_state = "GLOBAL_UP"
    BY <1>1, Loading
  <2> QED
    BY <2>1, Facts DEF Levels
<1>3. Len(clauses[a]) = 1 /\ clauses[a] \in Seq(Lit)
  BY <1>1, <1>2, Facts DEF AttachUnit, ForwardInv
<1> PICK l : l = clauses[a][1]
  OBVIOUS
<1>4. l \in Lit
  BY <1>3
<1>5. /\ Len(units) <= Len(units')
      /\ \A n \in 1..Len(units) : units'[n].lit = units[n].lit
      /\ \E m \in 1..Len(units') : units'[m].lit = l
  <2>1. CASE /\ IsTrue(l)
             /\ units' = [units EXCEPT ![vars_unit_indexes[VarOf(l)]].clause = a]
             /\ UNCHANGED <<alpha, vars_unit_indexes>>
    <3>1. TrailTypes /\ Len(units) \in Nat /\ TrailExact
      BY Facts DEF ForwardInv
    <3>2. PICK N \in 1..Len(units) : N = vars_unit_indexes[VarOf(l)] /\ units[N].lit = l
      BY <1>2, <2>1 DEF ForwardInv, TrailInv, TrailExact, IsTrue
    <3> PICK v : v = [units[N] EXCEPT !.clause = a]
      OBVIOUS
    <3>3. units' = [units EXCEPT ![N] = v]
      BY <2>1, <3>2
    <3>4. v.lit = units[N].lit
      <4>1. units[N] \in Unit
        BY <3>1 DEF TrailTypes
      <4> QED
        BY <4>1 DEF Unit
    <3>5. /\ Len(units') = Len(units) /\ units'[N] = v
          /\ \A n \in 1..Len(units) : n # N => units'[n] = units[n]
      <4> PICK s \in Seq(Unit) : s = units
        BY <3>1 DEF TrailTypes
      <4>1. /\ Len([s EXCEPT ![N] = v]) = Len(s) /\ [s EXCEPT ![N] = v][N] = v
            /\ \A n \in 1..Len(s) : n # N => [s EXCEPT ![N] = v][n] = s[n]
        OBVIOUS
      <4> QED
        BY <3>3, <4>1
    <3>6. \A n \in 1..Len(units) : units'[n].lit = units[n].lit
      BY <3>4, <3>5
    <3>7. N \in 1..Len(units') /\ units'[N].lit = l
      BY <3>2, <3>5, <3>6
    <3> QED
      BY <3>1, <3>5, <3>6, <3>7
  <2>2. CASE SetUnit(l, a)
    <3>1. /\ Len(units') = Len(units) + 1 /\ Len(units) \in Nat
          /\ units'[Len(units) + 1].lit = l
          /\ \A n \in 1..Len(units) : units'[n] = units[n]
      BY <1>2, <1>4, <2>2, Facts, UnitAppended
    <3> PICK m \in Nat : m = Len(units) + 1
      BY <3>1
    <3>2. m \in 1..Len(units') /\ units'[m].lit = l
      BY <3>1
    <3> QED
      BY <3>1, <3>2
  <2> QED
    BY <1>1, <2>1, <2>2 DEF AttachUnit
<1>6. ASSUME NEW n \in 1..Len(units) PROVE Settled(a, n)'
  <2>1. Watches(a)' = {}
    <3>1. 1..0 = {} /\ clauses'[a] = clauses[a]
      BY <1>1
    <3> QED
      BY <1>3, <3>1 DEF Watches
  <2> QED
    BY <2>1 DEF Settled
<1> QED
  BY <1>1, <1>5, <1>6, LoadQueue

LEMMA AddWatchedQueue ==
  ASSUME ForwardInv, ForwardInv', QueueInv, Undisturbed, AddWatched
  PROVE  QueueInv'
<1> PICK a : a = Added
  OBVIOUS
<1> PICK C : C = NonFalseFirst(clauses[a])
  OBVIOUS
<1>1. /\ Adding /\ loaded' = a /\ deleted' = deleted
      /\ Len(clauses[a]) > 1 /\ NonFalse(a) # {}
      /\ clauses' = [clauses EXCEPT ![a] = C]
      /\ \/ IsFalse(C[2]) /\ Unassigned(C[1]) /\ SetUnit(C[1], a)
         \/ ~(IsFalse(C[2]) /\ Unassigned(C[1])) /\ UNCHANGED alphaVars
      /\ i' = global_up /\ j' = 1 /\ pc' = "up"
      /\ UNCHANGED <<upVars, deleted, derived_empty_clause, unassigned>>
  BY DEF AddWatched, AttachWatched, StartUp, hintVars, lineVars
<1>2. /\ a \in 1..Len(clauses) /\ a \in Nat /\ a \notin Live /\ up_state = "GLOBAL_UP"
      /\ Live \subseteq 1..Len(clauses)
  BY <1>1, Loading, Facts
<1>3. Proper(clauses[a]) /\ Len(clauses[a]) \in Nat
  BY <1>2, Facts, ProperFacts DEF ForwardInv
<1>4. /\ Proper(C) /\ Len(C) = Len(clauses[a]) /\ ~IsFalse(C[1])
  <2>1. PICK k \in 1..Len(clauses[a]) : ~IsFalse(clauses[a][k])
    BY <1>1 DEF NonFalse
  <2>2. Len(clauses[a]) >= 2
    BY <1>1, <1>3
  <2> QED
    BY <1>3, <2>1, <2>2, FirstNonFalse
<1> PICK L \in Nat : L = Len(C)
  BY <1>3, <1>4
<1>5. L >= 2 /\ L # 1
  BY <1>1, <1>3, <1>4
<1>6. C[1] \in Lit /\ C[2] \in Lit
  <2>1. 1 \in 1..Len(C) /\ 2 \in 1..Len(C)
    BY <1>5
  <2> QED
    BY <1>4, <2>1, ProperFacts
<1>7. clauses'[a] = C /\ \A c \in 1..Len(clauses) : c # a => clauses'[c] = clauses[c]
  BY <1>1, <1>2, <1>4, ClauseEdited DEF ForwardInv
<1>8. \A c \in Live : clauses'[c] = clauses[c]
  BY <1>2, <1>7
<1>9. Watches(a)' = {C[1], C[2]} /\ Len(clauses'[a]) # 1
  <2>1. 1..2 = {1, 2} /\ Len(clauses'[a]) = L
    BY <1>7
  <2> QED
    BY <1>5, <1>7, <2>1 DEF Watches
<1>10. /\ Len(units) <= Len(units') /\ Len(units) \in Nat
       /\ \A n \in 1..Len(units) : units'[n] = units[n]
       /\ IsFalse(C[2]) => \E m \in 1..Len(units') : units'[m].lit = C[1]
  <2>1. TrailTypes /\ Len(units) \in Nat /\ TrailExact
    BY Facts DEF ForwardInv
  <2>2. CASE SetUnit(C[1], a)
    <3>1. /\ Len(units') = Len(units) + 1
          /\ units'[Len(units) + 1].lit = C[1]
          /\ \A n \in 1..Len(units) : units'[n] = units[n]
      BY <1>2, <1>6, <2>1, <2>2, UnitAppended
    <3> PICK m \in Nat : m = Len(units) + 1
      BY <2>1
    <3>2. m \in 1..Len(units') /\ units'[m].lit = C[1]
      BY <3>1
    <3> QED
      BY <2>1, <3>1, <3>2
  <2>3. CASE ~(IsFalse(C[2]) /\ Unassigned(C[1])) /\ UNCHANGED alphaVars
    <3>1. units' = units
      BY <2>3 DEF alphaVars
    <3>2. ASSUME IsFalse(C[2]) PROVE \E m \in 1..Len(units) : units[m].lit = C[1]
      BY <1>4, <2>1, <2>3, <3>2 DEF Unassigned, IsTrue, TrailExact
    <3> QED
      BY <2>1, <3>1, <3>2
  <2> QED
    BY <1>1, <2>2, <2>3
<1>11. ASSUME NEW n \in 1..Len(units) PROVE Settled(a, n)'
  <2> SUFFICES ASSUME -units'[n].lit \in {C[1], C[2]}
               PROVE  \E m \in 1..Len(units') :
                        units'[m].lit \in {C[1], C[2]} /\ Below(m, n)'
    BY <1>9 DEF Settled
  <2>1. units[n].lit \in alpha /\ units[n].lit \in Lit
    BY Facts DEF ForwardInv, TrailInv, TrailExact
  <2> PICK l \in Lit : l = units[n].lit
    BY <2>1
  <2>2. -l = C[1] \/ -l = C[2]
    BY <1>10
  <2>3. l = -C[1] \/ l = -C[2]
    BY <1>6, <2>2, LitFacts
  <2>4. IsFalse(C[2])
    BY <1>4, <2>1, <2>3 DEF IsFalse
  <2>5. \A m : Below(m, n)'
    BY <1>1, <1>2 DEF Below, upVars, levelVars
  <2> QED
    BY <1>10, <2>4, <2>5
<1> QED
  BY <1>1, <1>8, <1>9, <1>10, <1>11, LoadQueue

LEMMA ReadQueue ==
  ASSUME ForwardInv, ForwardInv', QueueInv, Undisturbed, ReadAddition
  PROVE  QueueInv'
<1>1. PICK C \in Candidates :
        /\ clauses' = Append(clauses, C) /\ AssumeCandidate(C)
        /\ \/ i' = candidate_assumed' /\ j' = 1 /\ pc' = "up"
           \/ pc' = "falsified" /\ UNCHANGED <<i, j>>
  BY DEF ReadAddition, StartUp
<1>2. /\ pc = "read"
      /\ UNCHANGED <<loaded, global_up, RAT_assumed,
                     derived_empty_clause, deleted, unassigned>>
  BY DEF ReadAddition
<1>3. /\ up_state = "GLOBAL_UP" /\ loaded = Len(clauses)
      /\ Len(units) \in Nat /\ Live \subseteq 1..Len(clauses) /\ Len(clauses) \in Nat
      /\ clauses \in Seq(Seq(Lit)) /\ global_up \in Nat
  BY <1>2, Facts DEF ForwardInv, TrailInv, TrailTypes, ForwardTypes, Control
<1>4. /\ C \in Seq(Lit) /\ Len(C) \in Nat
      /\ \A k, m \in 1..Len(C) : VarOf(C[k]) = VarOf(C[m]) => k = m
  BY DsrForwardAssumption, ProperFacts DEF Proper
<1> DEFINE open == {k \in DOMAIN C : Unassigned(C[k])}
<1>5. /\ AssumeUnits(C, open)
      /\ up_state' = "CANDIDATE_UP" /\ candidate_assumed' = Len(units) + 1
  BY <1>1 DEF AssumeCandidate
<1>6. /\ Len(units') \in Nat /\ Len(units) <= Len(units')
      /\ \A n \in 1..Len(units) : units'[n] = units[n]
  <2>1. open = {k \in 1..Len(C) : Unassigned(C[k])}
    BY <1>4
  <2> HIDE DEF open
  <2>2. /\ open \in SUBSET (1..Len(C)) /\ \A k \in open : Unassigned(C[k])
        /\ \A k, m \in open : VarOf(C[k]) = VarOf(C[m]) => k = m
    BY <1>4, <2>1
  <2> QED
    BY <1>4, <1>5, <2>2, Facts, UnitsAssumed
<1> HIDE DEF open
<1>7. Fronts /\ global_up = Len(units) + 1
  BY <1>2 DEF QueueInv, Undisturbed, Fronts
<1>8. /\ Reached = global_up /\ Reached' = Len(units) + 1
      /\ Floor' = Len(units) + 1
  BY <1>1, <1>2, <1>3, <1>5 DEF Reached, Floor
<1>9. Fronts'
  BY <1>1, <1>2, <1>3, <1>5, <1>6, <1>7, <1>8 DEF Fronts
<1>10. Live' = Live /\ \A c \in Live : clauses'[c] = clauses[c]
  <2>1. Live' = Live
    BY <1>2 DEF Live
  <2> DEFINE S == Seq(Lit)
  <2>2. clauses \in Seq(S) /\ C \in S
    BY <1>3, <1>4
  <2> HIDE DEF S
  <2>3. \A c \in 1..Len(clauses) : clauses'[c] = clauses[c]
    BY <1>1, <2>2
  <2> QED
    BY <1>3, <2>1, <2>3
<1>11. \A c \in Live : Watches(c)' = Watches(c)
  BY <1>10 DEF Watches
<1>12. ASSUME NEW c \in Live', NEW n \in 1..Len(units'), Passed(c, n)'
       PROVE  /\ c \in Live /\ n \in 1..Len(units)
              /\ Watches(c)' = Watches(c) /\ Passed(c, n)
  <2>1. n < Len(units) + 1
    <3>1. CASE pc' = "up"
      <4>1. n < Len(units) + 1 \/ \E q \in Nat : q >= 1 /\ q < 1
        BY <1>1, <1>8, <1>12, <3>1 DEF Passed
      <4> QED
        BY <4>1
    <3>2. CASE pc' # "up"
      BY <1>8, <1>12, <3>2 DEF Passed
    <3> QED
      BY <3>1, <3>2
  <2>2. n \in 1..Len(units) /\ n < Reached
    BY <1>3, <1>6, <1>7, <1>8, <2>1
  <2> QED
    BY <1>10, <1>11, <2>2 DEF Passed
<1>13. \A n \in 0..Len(units') : \A m \in 1..Len(units) :
         n <= Len(units) /\ Below(m, n) =>
           m \in 1..Len(units') /\ units'[m].lit = units[m].lit /\ Below(m, n)'
  BY <1>3, <1>5, <1>6 DEF Below
<1>14. \A n \in 1..Len(units') : n <= Len(units) => units'[n].lit = units[n].lit
  BY <1>3, <1>6
<1> QED
  BY <1>3, <1>6, <1>9, <1>10, <1>12, <1>13, <1>14, QueueKept

LEMMA CheckQueue ==
  ASSUME ForwardInv, ForwardInv', QueueInv, Undisturbed, CheckImage
  PROVE  QueueInv'
<1>1. PICK D \in Images : AssumeImage(D)
  BY DEF CheckImage
<1>2. /\ pc = "rat" /\ i' = RAT_assumed' /\ j' = 1 /\ pc' = "up"
      /\ UNCHANGED <<clauses, loaded, global_up, candidate_assumed,
                     derived_empty_clause, deleted, unassigned>>
  BY DEF CheckImage, StartUp, Reducing, lineVars
<1>3. D \in Seq(Lit)
  BY DsrForwardAssumption
<1>4. up_state' = "RAT_UP" /\ RAT_assumed' = Len(units) + 1
  BY <1>1 DEF AssumeImage
<1>5. /\ up_state = "CANDIDATE_UP" /\ Len(units) \in Nat
      /\ candidate_assumed \in Nat /\ global_up \in Nat
  BY <1>2, Facts DEF ForwardInv, TrailInv, TrailTypes, ForwardTypes, Control
<1>6. /\ Len(units') \in Nat /\ Len(units) <= Len(units')
      /\ \A n \in 1..Len(units) : units'[n] = units[n]
  <2>1. PICK open \in SUBSET (1..Len(D)) :
          /\ \A k \in open : Unassigned(D[k])
          /\ \A k, m \in open : VarOf(D[k]) = VarOf(D[m]) => k = m
          /\ AssumeUnits(D, open)
    BY <1>1, <1>3, ImageOpen
  <2> QED
    BY <1>3, <2>1, Facts, UnitsAssumed
<1>7. Fronts
  BY DEF QueueInv, Undisturbed
<1>8. /\ Reached = Len(units) + 1 /\ Reached' = Len(units) + 1
      /\ Floor' = Len(units) + 1
  BY <1>2, <1>4 DEF Reached, Floor
<1>9. Fronts'
  BY <1>2, <1>4, <1>5, <1>6, <1>7, <1>8 DEF Fronts
<1>10. Live' = Live /\ \A c : Watches(c)' = Watches(c)
  BY <1>2 DEF Live, Watches
<1>11. ASSUME NEW c \in Live', NEW n \in 1..Len(units'), Passed(c, n)'
       PROVE  /\ c \in Live /\ n \in 1..Len(units)
              /\ Watches(c)' = Watches(c) /\ Passed(c, n)
  <2>1. n < Len(units) + 1
    <3>1. n < Len(units) + 1 \/ \E q \in Nat : q >= 1 /\ q < 1
      BY <1>2, <1>8, <1>11 DEF Passed
    <3> QED
      BY <3>1
  <2>2. n \in 1..Len(units) /\ n < Reached
    BY <1>5, <1>6, <1>8, <2>1
  <2> QED
    BY <1>10, <2>2 DEF Passed
<1>12. \A n \in 0..Len(units') : \A m \in 1..Len(units) :
         n <= Len(units) /\ Below(m, n) =>
           m \in 1..Len(units') /\ units'[m].lit = units[m].lit /\ Below(m, n)'
  BY <1>2, <1>4, <1>5, <1>6 DEF Below
<1>13. \A n \in 1..Len(units') : n <= Len(units) => units'[n].lit = units[n].lit
  BY <1>5, <1>6
<1> QED
  BY <1>2, <1>5, <1>6, <1>9, <1>10, <1>11, <1>12, <1>13, QueueKept

LEMMA RefuteImageQueue ==
  ASSUME ForwardInv, ForwardInv', QueueInv, Undisturbed, RefuteImage
  PROVE  QueueInv'
<1>1. /\ pc = "falsified" /\ up_state = "RAT_UP" /\ pc' = "rat"
      /\ units' = SubSeq(units, 1, RAT_assumed - 1) /\ up_state' = "CANDIDATE_UP"
      /\ UNCHANGED <<clauses, loaded, global_up, candidate_assumed, RAT_assumed,
                     derived_empty_clause, deleted, unassigned>>
  BY DEF RefuteImage, UndoImage, lineVars
<1>2. /\ Len(units) \in Nat /\ candidate_unit \in Nat /\ candidate_assumed \in Nat
      /\ RAT_assumed \in Nat /\ candidate_assumed <= RAT_assumed /\ RAT_assumed >= 1
      /\ RAT_assumed <= Len(units) + 1 /\ units \in Seq(Unit)
  <2>1. /\ candidate_unit \in Nat /\ candidate_assumed \in Nat /\ RAT_assumed \in Nat
        /\ units \in Seq(Unit)
    BY DEF ForwardInv, TrailInv, TrailTypes, ForwardTypes
  <2>2. Len(units) \in Nat
    BY Facts DEF ForwardInv
  <2>3. /\ candidate_assumed >= 1 /\ candidate_assumed <= candidate_unit
        /\ candidate_unit <= RAT_assumed /\ RAT_assumed <= Len(units) + 1
    BY <1>1 DEF ForwardInv, TrailInv, Levels, CandidateLevel
  <2> QED
    BY <2>1, <2>2, <2>3
<1> PICK P \in Nat : P = RAT_assumed - 1
  BY <1>2
<1>3. /\ Len(units') = P /\ P <= Len(units)
      /\ \A n \in 1..P : units'[n] = units[n]
  <2>1. P <= Len(units) /\ units' = SubSeq(units, 1, P)
    BY <1>1, <1>2
  <2> QED
    BY <1>2, <2>1
<1>4. Fronts
  BY DEF QueueInv, Undisturbed
<1>5. Reached = RAT_assumed /\ Reached' = RAT_assumed
  BY <1>1, <1>2, <1>3 DEF Reached, Floor
<1>6. Fronts'
  BY <1>1, <1>4 DEF Fronts
<1>7. Live' = Live /\ \A c : Watches(c)' = Watches(c)
  BY <1>1 DEF Live, Watches
<1>8. ASSUME NEW c \in Live', NEW n \in 1..Len(units'), Passed(c, n)'
      PROVE  /\ c \in Live /\ n \in 1..Len(units)
             /\ Watches(c)' = Watches(c) /\ Passed(c, n)
  <2>1. n \in 1..Len(units) /\ n < RAT_assumed
    BY <1>2, <1>3
  <2> QED
    BY <1>5, <1>7, <2>1 DEF Passed
<1>9. ASSUME NEW n \in 0..Len(units'), NEW m \in 1..Len(units), Below(m, n)
      PROVE  m \in 1..Len(units') /\ units'[m].lit = units[m].lit /\ Below(m, n)'
  <2>1. n < RAT_assumed
    BY <1>2, <1>3
  <2>2. m < RAT_assumed
    BY <1>1, <1>9, <2>1 DEF Below
  <2>3. m \in 1..P
    BY <1>2, <2>2
  <2>4. Below(m, n)'
    BY <1>1, <1>9 DEF Below
  <2> QED
    BY <1>3, <2>3, <2>4
<1>10. \A n \in 1..Len(units') : n <= Len(units) => units'[n].lit = units[n].lit
  BY <1>3
<1> QED
  BY <1>1, <1>2, <1>3, <1>6, <1>7, <1>8, <1>9, <1>10, QueueKept

LEMMA UnassumeQueue ==
  ASSUME ForwardInv, ForwardInv', QueueInv, Undisturbed, UnassumeCandidate
  PROVE  QueueInv'
<1>1. /\ pc \in {"refuted", "reduced"} /\ pc' = "add"
      /\ units' = SubSeq(units, 1, candidate_assumed - 1) /\ up_state' = "GLOBAL_UP"
      /\ UNCHANGED <<clauses, loaded, global_up, candidate_assumed, RAT_assumed,
                     derived_empty_clause, deleted, unassigned>>
  BY DEF UnassumeCandidate, UndoCandidate, hintVars, lineVars
<1>2. /\ up_state = "CANDIDATE_UP" /\ Len(units) \in Nat /\ units \in Seq(Unit)
      /\ candidate_assumed \in Nat /\ candidate_assumed >= 1
      /\ candidate_assumed <= Len(units) + 1
  <2>1. TrailTypes /\ Levels(Candidate) /\ Control
    BY Facts
  <2>2. up_state = "CANDIDATE_UP"
    BY <1>1, <2>1 DEF Control
  <2>3. Len(units) \in Nat /\ units \in Seq(Unit) /\ candidate_assumed \in Nat
    BY <2>1, Facts DEF TrailTypes
  <2>4. candidate_unit \in Nat /\ CandidateLevel(Candidate)
    BY <2>1, <2>2 DEF TrailTypes, Levels
  <2>5. /\ candidate_assumed >= 1 /\ candidate_assumed <= candidate_unit
        /\ candidate_unit <= Len(units) + 1
    BY <2>4 DEF CandidateLevel
  <2> QED
    BY ONLY <2>2, <2>3, <2>4, <2>5
<1> PICK P \in Nat : P = candidate_assumed - 1
  BY <1>2
<1>3. /\ Len(units') = P /\ P <= Len(units)
      /\ \A n \in 1..P : units'[n] = units[n]
  <2>1. P <= Len(units) /\ units' = SubSeq(units, 1, P)
    BY <1>1, <1>2
  <2> QED
    BY <1>2, <2>1
<1>4. Fronts /\ global_up = candidate_assumed
  BY <1>2 DEF QueueInv, Undisturbed, Fronts
<1>5. Reached = candidate_assumed /\ Reached' = candidate_assumed
  BY <1>1, <1>2, <1>4 DEF Reached, Floor
<1>6. Fronts'
  BY <1>1, <1>2, <1>3, <1>4 DEF Fronts
<1>7. Live' = Live /\ \A c : Watches(c)' = Watches(c)
  BY <1>1 DEF Live, Watches
<1>8. ASSUME NEW c \in Live', NEW n \in 1..Len(units'), Passed(c, n)'
      PROVE  /\ c \in Live /\ n \in 1..Len(units)
             /\ Watches(c)' = Watches(c) /\ Passed(c, n)
  <2>1. n \in 1..Len(units) /\ n < candidate_assumed
    BY <1>2, <1>3
  <2> QED
    BY <1>5, <1>7, <2>1 DEF Passed
<1>9. ASSUME NEW n \in 0..Len(units'), NEW m \in 1..Len(units), Below(m, n)
      PROVE  m \in 1..Len(units') /\ units'[m].lit = units[m].lit /\ Below(m, n)'
  <2>1. n < candidate_assumed
    BY <1>2, <1>3
  <2>2. m < candidate_assumed
    BY <1>2, <1>9, <2>1 DEF Below
  <2>3. m \in 1..P
    BY <1>2, <2>2
  <2>4. Below(m, n)'
    BY <1>1 DEF Below
  <2> QED
    BY <1>3, <2>3, <2>4
<1>10. \A n \in 1..Len(units') : n <= Len(units) => units'[n].lit = units[n].lit
  BY <1>3
<1> QED
  BY <1>1, <1>2, <1>3, <1>6, <1>7, <1>8, <1>9, <1>10, QueueKept

(* A step that changes neither the trail nor the clauses.                    *)
LEMMA StillQueue ==
  ASSUME ForwardInv, QueueInv, Undisturbed,
         UNCHANGED <<clauses, units, up_state, candidate_assumed, RAT_assumed, global_up>>,
         Live' \subseteq Live, pc # "up", pc' # "up", Reached' <= Reached,
         pc' # "re-up", pc' \in {"load", "add", "read"} => pc \in {"load", "add", "read"}
  PROVE  QueueInv'
<1>1. Fronts /\ Len(units) \in Nat
  BY Facts DEF ForwardInv, QueueInv, Undisturbed
<1>2. Fronts'
  BY <1>1 DEF Fronts
<1>3. Reached \in Nat /\ Reached' \in Nat
  BY <1>1 DEF Reached, Floor, ForwardInv, TrailInv, TrailTypes, ForwardTypes
<1>4. \A c : Watches(c)' = Watches(c)
  BY DEF Watches
<1>5. \A c \in Live' : \A n \in 1..Len(units') : Passed(c, n)' =>
        c \in Live /\ n \in 1..Len(units) /\ Watches(c)' = Watches(c) /\ Passed(c, n)
  BY <1>3, <1>4 DEF Passed
<1>6. \A n \in 0..Len(units') : \A m \in 1..Len(units) :
         n <= Len(units) /\ Below(m, n) =>
           m \in 1..Len(units') /\ units'[m].lit = units[m].lit /\ Below(m, n)'
  BY SameLevel
<1> QED
  BY <1>1, <1>2, <1>5, <1>6, QueueKept

LEMMA LineQueue ==
  ASSUME ForwardInv, ForwardInv', QueueInv, Undisturbed,
         \/ RefuteCandidate \/ ImageHolds \/ PrintLine \/ IgnoreDeletion \/ DeleteOther
         \/ EndOfProof
  PROVE  QueueInv'
<1>1. /\ UNCHANGED <<clauses, loaded, units, upVars>>
      /\ deleted \subseteq deleted'
      /\ \/ pc = "falsified" /\ up_state = "CANDIDATE_UP" /\ pc' = "refuted"
         \/ pc = "rat" /\ pc' \in {"rat", "reduced"}
         \/ pc = "read" /\ pc' \in {"read", "FATAL", "VALID"}
  <2>1. CASE RefuteCandidate
    BY <2>1 DEF RefuteCandidate, alphaVars, lineVars
  <2>2. CASE ImageHolds
    BY <2>2 DEF ImageHolds, Reducing, alphaVars, lineVars
  <2>3. CASE PrintLine
    BY <2>3 DEF PrintLine, alphaVars, lineVars
  <2>4. CASE IgnoreDeletion
    BY <2>4 DEF IgnoreDeletion, alphaVars
  <2>5. CASE DeleteOther
    BY <2>5 DEF DeleteOther, Delete, alphaVars
  <2>6. CASE EndOfProof
    BY <2>6 DEF EndOfProof, alphaVars, lineVars
  <2> QED
    BY <2>1, <2>2, <2>3, <2>4, <2>5, <2>6
<1>2. UNCHANGED <<up_state, candidate_assumed, RAT_assumed, global_up>>
  BY <1>1 DEF upVars, levelVars
<1>3. Live' \subseteq Live
  BY <1>1 DEF Live
<1>4. /\ pc = "rat" => up_state = "CANDIDATE_UP"
      /\ candidate_assumed \in Nat /\ global_up \in Nat /\ RAT_assumed \in Nat
      /\ Len(units) \in Nat
      /\ up_state = "CANDIDATE_UP" => candidate_assumed <= Len(units) + 1
  <2>1. pc = "rat" => up_state = "CANDIDATE_UP"
    BY DEF ForwardInv, Control
  <2>2. /\ candidate_assumed \in Nat /\ global_up \in Nat /\ RAT_assumed \in Nat
        /\ candidate_unit \in Nat
    BY DEF ForwardInv, TrailInv, TrailTypes, ForwardTypes
  <2>3. Len(units) \in Nat
    BY Facts DEF ForwardInv
  <2>4. up_state = "CANDIDATE_UP" =>
          candidate_assumed <= candidate_unit /\ candidate_unit <= Len(units) + 1
    BY DEF ForwardInv, TrailInv, Levels, CandidateLevel
  <2> QED
    BY <2>1, <2>2, <2>3, <2>4
<1>5. Reached' <= Reached
  BY <1>1, <1>2, <1>4 DEF Reached, Floor
<1> QED
  BY <1>1, <1>2, <1>3, <1>5, StillQueue

LEMMA Disturbing ==
  ASSUME AddFalsified \/ RefuteFormula \/ DeleteAndUnassign
  PROVE  ~Undisturbed'
BY DEF AddFalsified, RefuteFormula, DeleteAndUnassign, Undisturbed

LEMMA StaysDisturbed ==
  ASSUME ~Undisturbed, [Next]_vars
  PROVE  ~Undisturbed'
<1>1. CASE \/ SkipSatisfied \/ ReplaceWatch \/ FindConflict \/ FindUnit
           \/ NextUnit \/ FinishUp
  BY <1>1 DEF SkipSatisfied, ReplaceWatch, FindConflict, FindUnit, NextUnit, FinishUp,
              hintVars, lineVars, Undisturbed
<1>2. CASE AddUnit \/ AddWatched \/ ReadAddition \/ RefuteCandidate \/ ImageHolds
  BY <1>2 DEF AddUnit, AddWatched, ReadAddition, RefuteCandidate, ImageHolds,
              hintVars, lineVars, Undisturbed
<1>3. CASE CheckImage \/ RefuteImage \/ PrintLine \/ UnassumeCandidate
  BY <1>3 DEF CheckImage, RefuteImage, PrintLine, UnassumeCandidate,
              hintVars, lineVars, Undisturbed
<1>4. CASE IgnoreDeletion \/ DeleteOther \/ EndOfProof \/ UNCHANGED vars
  BY <1>4 DEF IgnoreDeletion, DeleteOther, EndOfProof, vars, hintVars, lineVars, Undisturbed
<1> QED
  BY <1>1, <1>2, <1>3, <1>4, Disturbing DEF Next, Exited

LEMMA QueueStep ==
  ASSUME ForwardInv, ForwardInv', QueueInv, [Next]_vars
  PROVE  QueueInv'
<1>1. CASE ~Undisturbed
  <2>1. ~Undisturbed'
    BY <1>1, StaysDisturbed
  <2> QED
    BY <2>1 DEF QueueInv, Undisturbed
<1>2. CASE Undisturbed
  <2>1. CASE SkipSatisfied
    BY <1>2, <2>1, SkipQueue
  <2>2. CASE ReplaceWatch
    BY <1>2, <2>2, ReplaceQueue
  <2>3. CASE FindConflict
    BY <1>2, <2>3, ConflictQueue
  <2>4. CASE FindUnit
    BY <1>2, <2>4, FindUnitQueue
  <2>5. CASE NextUnit
    BY <1>2, <2>5, NextUnitQueue
  <2>6. CASE FinishUp
    BY <1>2, <2>6, FinishQueue
  <2>7. CASE AddUnit
    BY <1>2, <2>7, AddUnitQueue
  <2>8. CASE AddWatched
    BY <1>2, <2>8, AddWatchedQueue
  <2>9. CASE ReadAddition
    BY <1>2, <2>9, ReadQueue
  <2>10. CASE CheckImage
    BY <1>2, <2>10, CheckQueue
  <2>11. CASE RefuteImage
    BY <1>2, <2>11, RefuteImageQueue
  <2>12. CASE UnassumeCandidate
    BY <1>2, <2>12, UnassumeQueue
  <2>13. CASE \/ RefuteCandidate \/ ImageHolds \/ PrintLine \/ IgnoreDeletion \/ DeleteOther
              \/ EndOfProof
    BY <1>2, <2>13, LineQueue
  <2>14. CASE AddFalsified \/ RefuteFormula \/ DeleteAndUnassign
    <3>1. ~Undisturbed'
      BY <2>14, Disturbing
    <3> QED
      BY <3>1 DEF QueueInv, Undisturbed
  <2>15. CASE UNCHANGED vars
    BY <2>15 DEF vars, upVars, levelVars, alphaVars, lineVars, hintVars, QueueInv, Undisturbed,
                 Fronts, Floor, UnitClausesTrue, PassedSettled, Passed, Settled, Reached, Below, Live,
                 Watches, FalsifiedLit
  <2> QED
    BY <2>1, <2>2, <2>3, <2>4, <2>5, <2>6, <2>7, <2>8, <2>9, <2>10, <2>11, <2>12, <2>13,
       <2>14, <2>15 DEF Next, Exited
<1> QED
  BY <1>1, <1>2

LEMMA InitQueue ==
  ASSUME Init
  PROVE  QueueInv
<1>1. /\ units = << >> /\ up_state = "GLOBAL_UP" /\ global_up = 1
      /\ loaded = 0 /\ pc = "load"
  BY DEF Init, InitTrail
<1>2. Len(units) = 0 /\ Live = {}
  BY <1>1 DEF Live
<1>3. Fronts
  BY <1>1, <1>2 DEF Fronts
<1> QED
  BY <1>2, <1>3 DEF QueueInv, UnitClausesTrue, PassedSettled

LEMMA Pair ==
  ASSUME NEW a, NEW b, a # b
  PROVE  Cardinality({a, b}) = 2
<1> PICK S : S = {b}
  OBVIOUS
<1>1. IsFiniteSet(S) /\ Cardinality(S) = 1
  BY FS_Singleton
<1>2. a \notin S /\ S \cup {a} = {a, b}
  OBVIOUS
<1>3. Cardinality(S \cup {a}) = Cardinality(S) + 1
  BY ONLY <1>1, <1>2, FS_AddElement
<1> QED
  BY <1>1, <1>2, <1>3

(* A clause that the propagation has passed has a true literal or two watches *)
(* that are not assigned.                                                   *)
LEMMA QueueComplete ==
  ASSUME ForwardInv, QueueInv
  PROVE  PropagationComplete
<1> SUFFICES ASSUME pc \in {"read", "rat"}, ~unassigned, NEW c \in Live,
                    \A l \in ToSet(clauses[c]) : ~IsTrue(l)
             PROVE  Cardinality({l \in ToSet(clauses[c]) : Unassigned(l)}) >= 2
  BY DEF PropagationComplete, Quiet
<1>1. Undisturbed
  BY DEF ForwardInv, Control, Undisturbed
<1>2. Fronts /\ UnitClausesTrue /\ PassedSettled
  BY <1>1 DEF QueueInv, Undisturbed
<1>3. TrailExact /\ Len(units) \in Nat /\ \A n \in 1..Len(units) : units[n].lit \in Lit
  BY Facts DEF ForwardInv
<1> PICK L \in Nat : L = Len(clauses[c])
  BY <1>1, LiveWatches DEF Undisturbed
<1> PICK s \in Seq(Lit) : s = clauses[c]
  BY <1>1, LiveWatches DEF Undisturbed
<1>4. L >= 1 /\ ToSet(s) = {s[k] : k \in 1..L}
  BY <1>1, LiveWatches DEF Undisturbed, ToSet
<1>5. L # 1
  <2> SUFFICES ASSUME L = 1 PROVE FALSE
    OBVIOUS
  <2>1. PICK m \in 1..Len(units) : units[m].lit = s[1]
    BY <1>2 DEF UnitClausesTrue
  <2>2. s[1] \in ToSet(s) /\ IsTrue(s[1])
    BY <1>3, <1>4, <2>1 DEF TrailExact, IsTrue
  <2> QED
    BY <2>2
<1> PICK a : a = s[1]
  OBVIOUS
<1> PICK b : b = s[2]
  OBVIOUS
<1>6. /\ Watches(c) = {a, b} /\ a \in Lit /\ b \in Lit /\ a # b
      /\ a \in ToSet(s) /\ b \in ToSet(s)
  <2>1. L >= 2 /\ 1 \in 1..L /\ 2 \in 1..L
    BY ONLY <1>4, <1>5, L \in Nat
  <2>2. /\ Watches(c) = {clauses[c][1], clauses[c][2]} /\ clauses[c][1] # clauses[c][2]
        /\ clauses[c][1] \in Lit /\ clauses[c][2] \in Lit
    BY <1>1, <1>5, LiveWatches DEF Undisturbed
  <2> QED
    BY <1>4, <2>1, <2>2
<1>7. \A n \in 1..Len(units) : Passed(c, n)
  <2>1. CASE pc = "rat"
    BY <1>3, <2>1 DEF Passed, Reached
  <2>2. CASE pc = "read"
    <3>1. up_state = "GLOBAL_UP"
      BY <2>2 DEF ForwardInv, Control
    <3>2. Reached = Len(units) + 1
      BY <1>2, <2>2, <3>1 DEF Fronts, Reached, Floor
    <3> QED
      BY <1>3, <3>2 DEF Passed
  <2> QED
    BY <2>1, <2>2
<1>8. ASSUME NEW l \in {a, b} PROVE Unassigned(l)
  <2>1. ~IsTrue(a) /\ ~IsTrue(b)
    BY <1>6
  <2>2. ASSUME IsFalse(l) PROVE FALSE
    <3>1. PICK n \in 1..Len(units) : units[n].lit = -l
      BY <1>3, <2>2 DEF TrailExact, IsFalse
    <3>2. -units[n].lit \in Watches(c)
      BY <1>6, <3>1, LitFacts
    <3>3. PICK m \in 1..Len(units) : units[m].lit \in Watches(c)
      BY <1>2, <1>7, <3>2 DEF PassedSettled, Settled
    <3> QED
      BY <1>3, <1>6, <2>1, <3>3 DEF TrailExact, IsTrue
  <2> QED
    BY <2>1, <2>2 DEF Unassigned
<1> DEFINE open == {l \in ToSet(s) : Unassigned(l)}
<1>9. {a, b} \subseteq open
  BY <1>6, <1>8
<1>10. IsFiniteSet(open)
  <2>1. IsFiniteSet(1..L)
    BY FS_Interval
  <2> DEFINE image == {s[k] : k \in 1..L}
  <2>2. IsFiniteSet(image)
    <3> DEFINE g == [k \in 1..L |-> s[k]]
    <3>1. g \in Surjection(1..L, image)
      BY DEF Surjection
    <3> HIDE DEF g, image
    <3> QED
      BY <2>1, <3>1, FS_Surjection
  <2>3. open \subseteq image
    BY <1>4
  <2> QED
    BY <2>2, <2>3, FS_Subset
<1>11. Cardinality({a, b}) = 2
  BY <1>6, Pair
<1> HIDE DEF open
<1>12. Cardinality(open) \in Nat /\ Cardinality(open) >= 2
  BY <1>9, <1>10, <1>11, FS_Subset, FS_CardinalityType
<1> QED
  BY <1>12 DEF open

(* Unit propagation misses nothing, at the level of the formula and at that  *)
(* of the candidate, until a deletion has unassigned units.                  *)
THEOREM Complete ==
  Spec => []PropagationComplete
<1>1. Init => QueueInv
  BY InitQueue
<1>2. ForwardInv /\ ForwardInv' /\ QueueInv /\ [Next]_vars => QueueInv'
  BY QueueStep
<1>3. ForwardInv /\ QueueInv => PropagationComplete
  BY QueueComplete
<1> QED
  BY <1>1, <1>2, <1>3, Invariant, PTL DEF Spec

-----------------------------------------------------------------------------
(***************************************************************************)
(* The reference checker: propagating a list of hints and one more.          *)
(***************************************************************************)
IsRun(f, db, A, hs, L) ==
  f = [n \in 0..L |-> IF n = 0 THEN A ELSE PropagateHint(db, f[n - 1], hs[n])]

LEMMA RunExists ==
  ASSUME NEW db, NEW A, NEW hs, NEW L \in Nat
  PROVE  \E f : IsRun(f, db, A, hs, L)
<1> DEFINE Bad == {k \in Nat : ~\E f : IsRun(f, db, A, hs, k)}
<1> SUFFICES ASSUME Bad # {} PROVE FALSE
  <2>1. L \notin Bad
    OBVIOUS
  <2> HIDE DEF Bad
  <2> QED
    BY <2>1 DEF Bad
<1> PICK k \in Bad : \A m \in Bad : k <= m
  <2>1. Bad \in SUBSET Nat
    OBVIOUS
  <2> HIDE DEF Bad
  <2> QED
    BY <2>1, MinExists
<1>1. k # 0
  <2> SUFFICES ASSUME k = 0 PROVE FALSE
    OBVIOUS
  <2>1. IsRun([n \in 0..0 |-> A], db, A, hs, 0)
    <3>1. \A n \in 0..0 : n = 0
      OBVIOUS
    <3> QED
      BY <3>1 DEF IsRun
  <2> QED
    BY <2>1
<1>2. k \in Nat /\ k - 1 \in Nat /\ k - 1 \notin Bad
  <2>1. k \in Nat
    OBVIOUS
  <2>2. k - 1 \in Nat /\ ~(k <= k - 1)
    BY ONLY <1>1, <2>1
  <2> HIDE DEF Bad
  <2> QED
    BY <2>1, <2>2
<1> PICK h : IsRun(h, db, A, hs, k - 1)
  BY <1>2
<1> DEFINE g == [n \in 0..k |-> IF n = k THEN PropagateHint(db, h[n - 1], hs[n]) ELSE h[n]]
<1>3. IsRun(g, db, A, hs, k)
  <2>1. ASSUME NEW n \in 0..k
        PROVE  g[n] = IF n = 0 THEN A ELSE PropagateHint(db, g[n - 1], hs[n])
    <3>1. CASE n = k
      <4>1. n # 0 /\ n - 1 \in 0..k /\ n - 1 # k
        BY <1>1, <1>2, <3>1
      <4>2. g[n - 1] = h[n - 1]
        BY <4>1
      <4> QED
        BY <3>1, <4>1, <4>2
    <3>2. CASE n # k
      <4>1. n \in 0..k - 1 /\ (n # 0 => n - 1 \in 0..k /\ n - 1 # k)
        BY <1>2, <3>2
      <4>2. h[n] = IF n = 0 THEN A ELSE PropagateHint(db, h[n - 1], hs[n])
        BY <4>1 DEF IsRun
      <4>3. g[n] = h[n]
        BY <3>2
      <4>4. n # 0 => g[n - 1] = h[n - 1]
        BY <4>1
      <4> HIDE DEF g
      <4> QED
        BY <4>2, <4>3, <4>4
    <3> QED
      BY <3>1, <3>2
  <2> QED
    BY <2>1 DEF IsRun
<1> HIDE DEF g
<1> QED
  BY <1>2, <1>3

Run(db, A, hs) == CHOOSE f : IsRun(f, db, A, hs, Len(hs))

LEMMA Runs ==
  ASSUME NEW db, NEW A, NEW hs, Len(hs) \in Nat
  PROVE  /\ Run(db, A, hs)[0] = A
         /\ \A n \in 1..Len(hs) :
              Run(db, A, hs)[n] = PropagateHint(db, Run(db, A, hs)[n - 1], hs[n])
         /\ Propagate(db, A, hs) = Run(db, A, hs)[Len(hs)]
<1> DEFINE f == Run(db, A, hs)
<1>1. IsRun(f, db, A, hs, Len(hs))
  BY RunExists DEF Run
<1>2. Propagate(db, A, hs) = f[Len(hs)]
  BY DEF Propagate, IsRun, Run
<1> HIDE DEF f
<1> PICK L \in Nat : L = Len(hs)
  OBVIOUS
<1>3. \A n \in 0..L : f[n] = IF n = 0 THEN A ELSE PropagateHint(db, f[n - 1], hs[n])
  BY <1>1 DEF IsRun
<1>4. 0 \in 0..L /\ \A n \in 1..L : n \in 0..L /\ n # 0
  OBVIOUS
<1>5. f[0] = A
  BY <1>3, <1>4
<1>6. \A n \in 1..L : f[n] = PropagateHint(db, f[n - 1], hs[n])
  BY <1>3, <1>4
<1> QED
  BY <1>2, <1>5, <1>6 DEF f

LEMMA PropagateNone ==
  ASSUME NEW db, NEW A
  PROVE  Propagate(db, A, << >>) = A
<1>1. Len(<< >>) = 0 /\ Len(<< >>) \in Nat
  OBVIOUS
<1> QED
  BY <1>1, Runs

LEMMA PropagateOneMore ==
  ASSUME NEW db, NEW A, NEW S, NEW hs \in Seq(S), NEW c \in S
  PROVE  Propagate(db, A, Append(hs, c)) = PropagateHint(db, Propagate(db, A, hs), c)
<1> PICK L \in Nat : L = Len(hs)
  OBVIOUS
<1> PICK t : t = Append(hs, c)
  OBVIOUS
<1>1. Len(t) = L + 1 /\ Len(t) \in Nat /\ t[L + 1] = c /\ \A n \in 1..L : t[n] = hs[n]
  OBVIOUS
<1> PICK f : f = Run(db, A, hs)
  OBVIOUS
<1>6. PICK g : g = Run(db, A, t)
  OBVIOUS
<1>4. /\ f[0] = A /\ \A n \in 1..L : f[n] = PropagateHint(db, f[n - 1], hs[n])
      /\ Propagate(db, A, hs) = f[L]
  BY Runs
<1>5. /\ g[0] = A /\ \A n \in 1..L + 1 : g[n] = PropagateHint(db, g[n - 1], t[n])
      /\ Propagate(db, A, t) = g[L + 1]
  <2>1. /\ g[0] = A /\ \A n \in 1..Len(t) : g[n] = PropagateHint(db, g[n - 1], t[n])
        /\ Propagate(db, A, t) = g[Len(t)]
    <3>1. Len(t) \in Nat
      BY <1>1
    <3> QED
      BY ONLY <1>6, <3>1, Runs
  <2> QED
    BY <1>1, <2>1
<1>2. f[L] = g[L]
  <2> DEFINE Bad == {k \in 0..L : f[k] # g[k]}
  <2> SUFFICES ASSUME Bad # {} PROVE FALSE
    OBVIOUS
  <2> PICK k \in Bad : \A m \in Bad : k <= m
    <3>1. Bad \in SUBSET Nat
      OBVIOUS
    <3> HIDE DEF Bad
    <3> QED
      BY <3>1, MinExists
  <2>1. k \in 0..L /\ f[k] # g[k]
    OBVIOUS
  <2>2. k # 0
    BY <1>4, <1>5, <2>1
  <2>3. k \in 1..L /\ k \in 1..L + 1 /\ k - 1 \in 0..L /\ ~(k <= k - 1)
    BY ONLY <2>1, <2>2, L \in Nat
  <2>4. f[k - 1] = g[k - 1]
    BY <2>3
  <2> HIDE DEF Bad
  <2> QED
    BY <1>1, <1>4, <1>5, <2>1, <2>3, <2>4
<1>3. g[L + 1] = PropagateHint(db, g[L], c)
  <2>1. L + 1 \in 1..L + 1 /\ L + 1 - 1 = L
    OBVIOUS
  <2> QED
    BY <1>1, <1>5, <2>1
<1> QED
  BY <1>2, <1>3, <1>4, <1>5

LEMMA RefutesLast ==
  ASSUME NEW db, NEW A, NEW S, NEW hs \in Seq(S), NEW c \in S
  PROVE  Refutes(db, A, Append(hs, c)) <=>
           /\ c \in DOMAIN db /\ Propagate(db, A, hs) # Refused
           /\ \A l \in db[c] : -l \in Propagate(db, A, hs)
<1> PICK t : t = Append(hs, c)
  OBVIOUS
<1>1. t # << >> /\ Last(t) = c /\ Front(t) = hs
  <2>1. Len(t) = Len(hs) + 1 /\ t[Len(t)] = c /\ Len(hs) \in Nat /\ t \in Seq(S)
    OBVIOUS
  <2>2. t # << >>
    OBVIOUS
  <2>3. SubSeq(t, 1, Len(t) - 1) = hs
    OBVIOUS
  <2> QED
    BY <2>1, <2>2, <2>3 DEF Last, Front
<1> QED
  BY <1>1 DEF Refutes

(***************************************************************************)
(* The reasons of marked units, propagated in turn, make those units true.    *)
(***************************************************************************)
DbOf(live) == [c \in live |-> ToSet(clauses[c])]

Hinted(M, a, b) == {units[n].lit : n \in {m \in a..b : VarOf(units[m].lit) \in M}}

Known(A, M, a, b) == A \cup Hinted(M, a, b)

(* The literals A and the marked units before it falsify the rest of the      *)
(* clause of a marked unit, and A does not assign it.                        *)
Replayable(M, a, A) ==
  \A n \in a..Len(units) : VarOf(units[n].lit) \in M =>
    /\ units[n].clause # 0 /\ units[n].lit \notin A /\ -units[n].lit \notin A
    /\ \A k \in 2..Len(clauses[units[n].clause]) :
         -clauses[units[n].clause][k] \in Known(A, M, a, n - 1)

LEMMA HintPropagates ==
  ASSUME NEW live, NEW bare, NEW C, TrailInv(live, bare, C), NEW M,
         NEW a \in Nat \ {0}, NEW A \in SUBSET Lit, Replayable(M, a, A)
  PROVE  \A n \in a..Len(units) : VarOf(units[n].lit) \in M =>
           /\ units[n].clause \in live
           /\ PropagateHint(DbOf(live), Known(A, M, a, n - 1), units[n].clause) =
                Known(A, M, a, n)
<1> SUFFICES ASSUME NEW n \in a..Len(units), VarOf(units[n].lit) \in M
             PROVE  /\ units[n].clause \in live
                    /\ PropagateHint(DbOf(live), Known(A, M, a, n - 1), units[n].clause) =
                         Known(A, M, a, n)
  OBVIOUS
<1> PICK N \in Nat : N = Len(units)
  BY UnitTypes DEF TrailInv
<1>1. /\ n \in 1..N /\ n \in Nat /\ a..n - 1 \subseteq 1..N /\ \A m \in a..n - 1 : m # n
      /\ \A m \in a..n : m = n \/ m \in a..n - 1
      /\ n \in a..n /\ a..n - 1 \subseteq a..n
  OBVIOUS
<1>2. \A m \in 1..N : units[m].lit \in Lit
  BY UnitTypes DEF TrailInv
<1>3. \A m \in 1..N : VarOf(units[m].lit) = VarOf(units[n].lit) => m = n
  BY <1>1 DEF TrailInv, TrailExact
<1> PICK x : x = units[n].lit
  OBVIOUS
<1> PICK B : B = Known(A, M, a, n - 1)
  OBVIOUS
<1>4. x \in Lit /\ -x \in Lit /\ -(-x) = x /\ B \subseteq Lit
  BY <1>1, <1>2, LitFacts DEF Known, Hinted
<1>5. x \notin B /\ -x \notin B
  <2>1. x \notin A /\ -x \notin A
    BY DEF Replayable
  <2>2. ASSUME NEW l \in Hinted(M, a, n - 1), l = x \/ l = -x PROVE FALSE
    <3>1. PICK m \in a..n - 1 : units[m].lit = l
      BY DEF Known, Hinted
    <3>2. m \in 1..N /\ m # n
      BY <1>1
    <3>3. VarOf(units[m].lit) = VarOf(x)
      BY <1>4, <2>2, <3>1, LitFacts
    <3> QED
      BY <1>3, <3>2, <3>3
  <2> QED
    BY <2>1, <2>2 DEF Known
<1>6. Reason(n, live)
  <2>1. units[n].clause # 0
    BY DEF Replayable
  <2> QED
    BY <1>1, <2>1 DEF TrailInv, ReasonsHold
<1> PICK c : c = units[n].clause
  OBVIOUS
<1> PICK s : s = clauses[c]
  OBVIOUS
<1>7. c \in live /\ s[1] = x /\ Len(s) >= 1 /\ s \in Seq(Lit)
  BY <1>6, ReasonLits DEF Reason, Proper
<1>8. \A k \in 2..Len(s) : -s[k] \in B
  BY DEF Replayable
<1>9. {l \in ToSet(s) : -l \notin B} = {x}
  <2>1. \A k \in 1..Len(s) : k = 1 \/ k \in 2..Len(s)
    BY <1>7
  <2>2. \A l \in ToSet(s) : \E k \in 1..Len(s) : l = s[k]
    BY <1>7 DEF ToSet
  <2>3. x \in ToSet(s)
    <3>1. 1 \in DOMAIN s
      BY <1>7
    <3> QED
      BY <1>7, <3>1 DEF ToSet
  <2> QED
    BY <1>5, <1>7, <1>8, <2>1, <2>2, <2>3, SMTT(30)
<1>10. B # Refused
  <2>1. 0 \notin Lit
    BY VarAssumption DEF Lit
  <2> QED
    BY <1>4, <2>1 DEF Refused
<1>11. Cardinality({x}) = 1 /\ {x} \cap B = {}
  BY <1>5, FS_Singleton, ZenonT(40)
<1>12. c \in DOMAIN DbOf(live) /\ DbOf(live)[c] = ToSet(s)
  BY <1>7 DEF DbOf
<1>13. PropagateHint(DbOf(live), B, c) = B \cup {x}
  BY <1>9, <1>10, <1>11, <1>12 DEF PropagateHint
<1>14. Hinted(M, a, n) = Hinted(M, a, n - 1) \cup {x}
  BY <1>1 DEF Known, Hinted
<1> QED
  BY <1>7, <1>13, <1>14 DEF Known

LEMMA Replay ==
  ASSUME NEW live, NEW bare, NEW C, TrailInv(live, bare, C), NEW M,
         NEW a \in Nat \ {0}, a <= Len(units) + 1,
         NEW A \in SUBSET Lit, Replayable(M, a, A)
  PROVE  /\ MarkedReasons(M, a) \in Seq(live)
         /\ Propagate(DbOf(live), A, MarkedReasons(M, a)) = Known(A, M, a, Len(units))
<1> PICK N \in Nat : N = Len(units)
  BY UnitTypes DEF TrailInv
<1>8. /\ TrailInv(live, bare, C) /\ A \in SUBSET Lit /\ Replayable(M, a, A)
  OBVIOUS
<1>9. PICK g : g = List(M, a)
  OBVIOUS
<1>1. /\ g[a - 1] = << >>
      /\ \A n \in a..N : g[n] = IF VarOf(units[n].lit) \in M
                              THEN Append(g[n - 1], units[n].clause) ELSE g[n - 1]
      /\ MarkedReasons(M, a) = g[N]
  <2>1. Len(units) \in Nat
    OBVIOUS
  <2> QED
    BY <1>9, <2>1, Lists
<1> DEFINE Claim(n) == /\ g[n] \in Seq(live)
                       /\ Propagate(DbOf(live), A, g[n]) = Known(A, M, a, n)
           Bad == {n \in a - 1..N : ~Claim(n)}
<1> SUFFICES ASSUME Bad # {} PROVE FALSE
  <2>1. N \notin Bad
    OBVIOUS
  <2>2. N \in a - 1..N
    OBVIOUS
  <2>3. Claim(N)
    BY <2>1, <2>2
  <2> QED
    BY <1>1, <2>3
<1> PICK n \in Bad : \A m \in Bad : n <= m
  <2>1. Bad \in SUBSET Nat
    OBVIOUS
  <2> HIDE DEF Bad
  <2> QED
    BY <2>1, MinExists
<1>2. n \in a - 1..N /\ ~Claim(n)
  OBVIOUS
<1>3. n # a - 1
  <2> SUFFICES ASSUME n = a - 1 PROVE FALSE
    OBVIOUS
  <2>1. Hinted(M, a, a - 1) = {}
    <3>1. a..a - 1 = {}
      OBVIOUS
    <3> QED
      BY <3>1 DEF Known, Hinted
  <2>2. << >> \in Seq(live) /\ Propagate(DbOf(live), A, << >>) = A
    BY PropagateNone
  <2> QED
    BY <1>1, <1>2, <2>1, <2>2 DEF Known
<1>4. n \in a..N /\ n - 1 \in a - 1..N /\ ~(n <= n - 1) /\ n \in Nat
  BY ONLY <1>2, <1>3, N \in Nat, a \in Nat \ {0}
<1>5. Claim(n - 1)
  <2> HIDE DEF Claim
  <2> QED
    BY <1>4
<1> HIDE DEF Bad
<1>6. CASE VarOf(units[n].lit) \notin M
  <2>1. Hinted(M, a, n) = Hinted(M, a, n - 1)
    <3>1. \A m \in a..n : m = n \/ m \in a..n - 1
      BY <1>4
    <3>2. a..n - 1 \subseteq a..n
      BY <1>4
    <3> QED
      BY <1>6, <3>1, <3>2 DEF Known, Hinted
  <2>2. g[n] = g[n - 1]
    BY <1>1, <1>4, <1>6
  <2> QED
    BY <1>2, <1>5, <2>1, <2>2 DEF Known
<1>7. CASE VarOf(units[n].lit) \in M
  <2>1. /\ units[n].clause \in live
        /\ PropagateHint(DbOf(live), Known(A, M, a, n - 1), units[n].clause) =
              Known(A, M, a, n)
    <3> HIDE DEF Claim
    <3>1. n \in a..Len(units)
      BY <1>4
    <3>2. \A m \in a..Len(units) : VarOf(units[m].lit) \in M =>
            /\ units[m].clause \in live
            /\ PropagateHint(DbOf(live), Known(A, M, a, m - 1), units[m].clause) =
                 Known(A, M, a, m)
      BY ONLY <1>8, a \in Nat \ {0}, HintPropagates
    <3> QED
      BY <1>7, <3>1, <3>2
  <2>2. g[n] = Append(g[n - 1], units[n].clause)
    BY <1>1, <1>4, <1>7
  <2>3. g[n] \in Seq(live)
    BY <1>5, <2>1, <2>2
  <2>4. Propagate(DbOf(live), A, g[n]) =
          PropagateHint(DbOf(live), Propagate(DbOf(live), A, g[n - 1]), units[n].clause)
    <3>1. g[n - 1] \in Seq(live)
      BY <1>5
    <3> QED
      BY ONLY <2>1, <2>2, <3>1, PropagateOneMore
  <2> QED
    BY <1>2, <1>5, <2>1, <2>3, <2>4
<1> QED
  BY <1>6, <1>7

(* And a clause that they falsify refutes.                                   *)
LEMMA ReplayRefutes ==
  ASSUME NEW live, NEW bare, NEW C, TrailInv(live, bare, C), NEW M,
         NEW a \in Nat \ {0}, a <= Len(units) + 1,
         NEW A \in SUBSET Lit, Replayable(M, a, A),
         NEW c \in live, \A l \in ToSet(clauses[c]) : -l \in Known(A, M, a, Len(units))
  PROVE  Refutes(DbOf(live), A, Append(MarkedReasons(M, a), c))
<1>1. /\ MarkedReasons(M, a) \in Seq(live)
      /\ Propagate(DbOf(live), A, MarkedReasons(M, a)) = Known(A, M, a, Len(units))
  BY Replay
<1> PICK B : B = Known(A, M, a, Len(units))
  OBVIOUS
<1>2. B # Refused
  <2>1. 0 \notin Lit
    BY VarAssumption DEF Lit
  <2>2. a..Len(units) \subseteq 1..Len(units)
    BY UnitTypes DEF TrailInv
  <2>3. B \subseteq Lit
    BY <2>2, UnitTypes DEF TrailInv, Known, Hinted
  <2> QED
    BY <2>1, <2>3 DEF Refused
<1>3. c \in DOMAIN DbOf(live) /\ \A l \in DbOf(live)[c] : -l \in B
  BY DEF DbOf
<1> QED
  BY <1>1, <1>2, <1>3, RefutesLast

(* A unit whose variable is among the others of a reason was set before it.    *)
LEMMA Earlier ==
  ASSUME NEW live, NEW bare, NEW C, TrailInv(live, bare, C), NEW k \in 1..Len(units),
         units[k].clause # 0, NEW n \in 1..Len(units),
         VarOf(units[n].lit) \in SetByUnits(units[k].clause, 2, assumed)
  PROVE  n < k
<1>1. TrailTypes /\ TrailExact /\ Reason(k, live)
  BY DEF TrailInv, ReasonsHold
<1>2. PICK p \in 2..Len(clauses[units[k].clause]) :
        VarOf(units[n].lit) = VarOf(clauses[units[k].clause][p])
  BY DEF SetByUnits, Vars
<1>3. PICK m \in 1..k - 1 : units[m].lit = -clauses[units[k].clause][p]
  BY <1>1 DEF Reason
<1>4. m \in 1..Len(units) /\ m < k /\ units[m].lit \in Lit
  BY <1>1, <1>3, UnitTypes
<1>5. clauses[units[k].clause][p] \in Lit
  BY <1>1, ReasonLits
<1>6. VarOf(units[m].lit) = VarOf(units[n].lit)
  BY <1>2, <1>3, <1>5, LitFacts
<1>7. m = n
  BY <1>1, <1>4, <1>6 DEF TrailExact
<1> QED
  BY <1>4, <1>7

(* A mark that the scan adds is in the clause of a unit that is marked.        *)
LEMMA MarkedFrom ==
  ASSUME NEW M, Len(units) \in Nat, NEW a \in Nat, a <= Len(units) + 1,
         NEW v \in MarkDependencies(M, a), v \notin M
  PROVE  \E k \in a..Len(units) : /\ VarOf(units[k].lit) \in MarkDependencies(M, a)
                                 /\ v \in SetByUnits(units[k].clause, 2, assumed)
<1> PICK N \in Nat : N = Len(units)
  OBVIOUS
<1> PICK g : g = Scan(M, a)
  OBVIOUS
<1>1. /\ g[N + 1] = M
      /\ \A n \in a..N : g[n] = MarkUnit(g[n + 1], n)
      /\ MarkDependencies(M, a) = g[a]
  BY Scans
<1>2. /\ \A m, n \in a..N + 1 : m <= n => g[n] \subseteq g[m]
      /\ \A w \in g[a] : w \in M \/ MarkedAt(w, g, a, N)
  <2>1. a \in Nat /\ a <= N + 1 /\ N \in Nat
    OBVIOUS
  <2> QED
    BY ONLY <1>1, <2>1, ScanGrows, ZenonT(40)
<1>3. PICK k \in a..N : /\ VarOf(units[k].lit) \in g[k + 1]
                       /\ v \in SetByUnits(units[k].clause, 2, assumed)
  BY <1>1, <1>2 DEF MarkedAt
<1>4. k + 1 \in a..N + 1 /\ a \in a..N + 1 /\ a <= k + 1
  OBVIOUS
<1> QED
  BY <1>1, <1>2, <1>3, <1>4

(* A mark is at or before the unit of one that the scan began with.           *)
LEMMA MarkedBelow ==
  ASSUME NEW live, NEW bare, NEW C, TrailInv(live, bare, C), NEW M,
         NEW a \in Nat \ {0}, a <= Len(units) + 1,
         \A n \in a..Len(units) : VarOf(units[n].lit) \in M => units[n].clause # 0,
         NEW p \in Nat, \A n \in a..Len(units) : VarOf(units[n].lit) \in M => n < p
  PROVE  \A n \in a..Len(units) : VarOf(units[n].lit) \in MarkDependencies(M, a) => n < p
<1> PICK N \in Nat : N = Len(units)
  BY UnitTypes DEF TrailInv
<1> PICK D : D = MarkDependencies(M, a)
  OBVIOUS
<1>1. \A n \in a..N : VarOf(units[n].lit) \in D => units[n].clause # 0
  BY Closed
<1> DEFINE Bad == {n \in a..N : VarOf(units[n].lit) \in D /\ ~(n < p)}
<1> SUFFICES ASSUME NEW b \in Bad PROVE FALSE
  OBVIOUS
<1>2. Bad \in SUBSET Nat /\ b \in Bad /\ \A n \in Bad : n <= N
  OBVIOUS
<1> HIDE DEF Bad
<1>3. Max(Bad) \in Bad /\ \A n \in Bad : n <= Max(Bad)
  BY <1>2, MaxExists
<1> PICK n \in Bad : \A m \in Bad : m <= n
  BY <1>3
<1>4. n \in a..N /\ VarOf(units[n].lit) \in D /\ ~(n < p) /\ n \in 1..N
  BY DEF Bad
<1>5. VarOf(units[n].lit) \notin M
  BY <1>4
<1>6. PICK k \in a..N : /\ VarOf(units[k].lit) \in D
                       /\ VarOf(units[n].lit) \in SetByUnits(units[k].clause, 2, assumed)
  BY <1>4, <1>5, MarkedFrom
<1>7. k \in 1..N /\ units[k].clause # 0
  BY <1>1, <1>6
<1>8. n < k
  BY <1>4, <1>6, <1>7, Earlier
<1>9. k \in Bad
  BY <1>4, <1>6, <1>8 DEF Bad
<1> QED
  BY <1>4, <1>8, <1>9

(***************************************************************************)
(* What a refutation of A by clause f needs of the marks M it begins with,   *)
(* of the first unit p that it does without, and of the marks D it ends with.*)
(***************************************************************************)
(* What is assumed, and not derived, before the unit p is in A, and so is     *)
(* what is marked before the unit a; A has none of the derived units from a  *)
(* on, among which are the marks.                                           *)
Given(A, M, D, a, p) ==
  /\ \A m \in 1..Len(units) :
       m < p /\ (units[m].clause = 0 \/ VarOf(units[m].lit) \in assumed) => units[m].lit \in A
  /\ \A m \in 1..Len(units) : m < a /\ VarOf(units[m].lit) \in D => units[m].lit \in A
  /\ \A n \in a..Len(units) : units[n].clause # 0 /\ VarOf(units[n].lit) \notin assumed =>
       units[n].lit \notin A /\ -units[n].lit \notin A
  /\ \A n \in a..Len(units) : VarOf(units[n].lit) \in M =>
       n < p /\ units[n].clause # 0 /\ VarOf(units[n].lit) \notin assumed

LEMMA MarksReplay ==
  ASSUME NEW live, NEW bare, NEW C, TrailInv(live, bare, C), NEW M,
         NEW a \in Nat \ {0}, a <= Len(units) + 1, NEW p \in Nat, NEW A,
         Given(A, M, MarkDependencies(M, a), a, p)
  PROVE  Replayable(MarkDependencies(M, a), a, A)
<1> PICK N \in Nat : N = Len(units)
  BY UnitTypes DEF TrailInv
<1> PICK D : D = MarkDependencies(M, a)
  OBVIOUS
<1>1. /\ \A m \in 1..N :
           m < p /\ (units[m].clause = 0 \/ VarOf(units[m].lit) \in assumed) => units[m].lit \in A
      /\ \A m \in 1..N : m < a /\ VarOf(units[m].lit) \in D => units[m].lit \in A
      /\ \A n \in a..N : units[n].clause # 0 /\ VarOf(units[n].lit) \notin assumed =>
           units[n].lit \notin A /\ -units[n].lit \notin A
      /\ \A n \in a..N : VarOf(units[n].lit) \in M =>
           n < p /\ units[n].clause # 0 /\ VarOf(units[n].lit) \notin assumed
  BY DEF Given
<1>2. /\ M \subseteq D
      /\ \A v \in D : v \in M \/ (v \in Var /\ vars_unit_indexes[v] > 0 /\ v \notin assumed)
      /\ \A n \in a..N : VarOf(units[n].lit) \in D =>
           units[n].clause # 0 /\ SetByUnits(units[n].clause, 2, assumed) \subseteq D
  BY <1>1, Closed
<1>3. \A n \in a..N : VarOf(units[n].lit) \in D => n < p
  BY <1>1, MarkedBelow
<1> SUFFICES ASSUME NEW n \in a..N, VarOf(units[n].lit) \in D
             PROVE  /\ units[n].clause # 0 /\ units[n].lit \notin A /\ -units[n].lit \notin A
                    /\ \A k \in 2..Len(clauses[units[n].clause]) :
                         -clauses[units[n].clause][k] \in Known(A, D, a, n - 1)
  BY DEF Replayable
<1>4. units[n].clause # 0 /\ VarOf(units[n].lit) \notin assumed /\ n < p
  BY <1>1, <1>2, <1>3
<1>5. units[n].lit \notin A /\ -units[n].lit \notin A
  BY <1>1, <1>4
<1>6. n \in 1..N /\ n \in Nat
  OBVIOUS
<1>7. Reason(n, live) /\ TrailTypes /\ TrailExact
  BY <1>4, <1>6 DEF TrailInv, ReasonsHold
<1>8. ASSUME NEW k \in 2..Len(clauses[units[n].clause])
      PROVE  -clauses[units[n].clause][k] \in Known(A, D, a, n - 1)
  <2>1. PICK m \in 1..n - 1 : units[m].lit = -clauses[units[n].clause][k]
    BY <1>7 DEF Reason
  <2>2. m \in 1..N /\ m < n /\ m < p /\ m \in Nat
    BY <1>4, <1>6
  <2>3. CASE units[m].clause = 0 \/ VarOf(units[m].lit) \in assumed
    BY <1>1, <2>1, <2>2, <2>3 DEF Known
  <2>4. CASE units[m].clause # 0 /\ VarOf(units[m].lit) \notin assumed
    <3>1. clauses[units[n].clause][k] \in Lit
      BY <1>7, ReasonLits
    <3>2. VarOf(units[m].lit) = VarOf(clauses[units[n].clause][k])
      BY <2>1, <3>1, LitFacts
    <3>3. vars_unit_indexes[VarOf(units[m].lit)] > 0
      BY <1>7, <2>2, <2>4 DEF TrailExact
    <3>4. VarOf(units[m].lit) \in SetByUnits(units[n].clause, 2, assumed)
      BY <2>4, <3>2, <3>3 DEF SetByUnits, Vars
    <3>5. VarOf(units[m].lit) \in D
      BY <1>2, <3>4
    <3>6. CASE m < a
      BY <1>1, <2>1, <2>2, <3>5, <3>6 DEF Known
    <3>7. CASE ~(m < a)
      <4>1. m \in a..n - 1
        BY <2>2, <3>7
      <4> QED
        BY <2>1, <3>5, <4>1 DEF Known, Hinted
    <3> QED
      BY <3>6, <3>7
  <2> QED
    BY <2>3, <2>4
<1> QED
  BY <1>4, <1>5, <1>8

(* Every literal of c is false in A or by a unit before p, and its marks are   *)
(* among those the scan began with.                                         *)
FalseBefore(f, A, M, p) ==
  /\ \A l \in ToSet(clauses[f]) :
       -l \in A \/ \E m \in 1..Len(units) : m < p /\ units[m].lit = -l
  /\ SetByUnits(f, 1, assumed) \subseteq M

LEMMA MarksRefute ==
  ASSUME NEW live, NEW bare, NEW C, TrailInv(live, bare, C), NEW M,
         NEW a \in Nat \ {0}, a <= Len(units) + 1, NEW p \in Nat, NEW A \in SUBSET Lit,
         Given(A, M, MarkDependencies(M, a), a, p),
         NEW f \in live, FalseBefore(f, A, M, p)
  PROVE  Refutes(DbOf(live), A, Append(MarkedReasons(MarkDependencies(M, a), a), f))
<1> PICK N \in Nat : N = Len(units)
  BY UnitTypes DEF TrailInv
<1> PICK D : D = MarkDependencies(M, a)
  OBVIOUS
<1>1. /\ \A m \in 1..N :
           m < p /\ (units[m].clause = 0 \/ VarOf(units[m].lit) \in assumed) => units[m].lit \in A
      /\ \A m \in 1..N : m < a /\ VarOf(units[m].lit) \in D => units[m].lit \in A
      /\ \A n \in a..N : VarOf(units[n].lit) \in M => units[n].clause # 0
  BY DEF Given
<1>2. M \subseteq D
  BY <1>1, Closed
<1>3. Replayable(D, a, A)
  BY MarksReplay
<1>4. ASSUME NEW l \in ToSet(clauses[f]) PROVE -l \in Known(A, D, a, N)
  <2>1. CASE -l \in A
    BY <2>1 DEF Known
  <2>2. ASSUME NEW m \in 1..N, m < p, units[m].lit = -l PROVE -l \in Known(A, D, a, N)
    <3>1. CASE units[m].clause = 0 \/ VarOf(units[m].lit) \in assumed
      BY <1>1, <2>2, <3>1 DEF Known
    <3>2. CASE units[m].clause # 0 /\ VarOf(units[m].lit) \notin assumed
      <4>1. Proper(clauses[f]) /\ TrailExact
        BY ClauseTypes DEF TrailInv
      <4>2. PICK k \in 1..Len(clauses[f]) : clauses[f][k] = l
        BY DEF ToSet
      <4>3. l \in Lit
        BY <4>1, <4>2, ProperFacts
      <4>4. VarOf(units[m].lit) = VarOf(l)
        BY <2>2, <4>3, LitFacts
      <4>5. vars_unit_indexes[VarOf(l)] > 0
        BY <2>2, <3>2, <4>1, <4>4 DEF TrailExact
      <4>6. VarOf(l) \in SetByUnits(f, 1, assumed)
        BY <3>2, <4>2, <4>4, <4>5 DEF SetByUnits, Vars
      <4>7. VarOf(units[m].lit) \in D
        BY <1>2, <4>4, <4>6 DEF FalseBefore
      <4>8. CASE m < a
        BY <1>1, <2>2, <4>7, <4>8 DEF Known
      <4>9. CASE ~(m < a)
        <5>1. m \in a..N
          BY <4>9
        <5> QED
          BY <2>2, <4>7, <5>1 DEF Known, Hinted
      <4> QED
        BY <4>8, <4>9
    <3> QED
      BY <3>1, <3>2
  <2> QED
    BY <2>1, <2>2 DEF FalseBefore
<1> QED
  BY <1>3, <1>4, ReplayRefutes

(***************************************************************************)
(* The invariant of the hints.                                              *)
(***************************************************************************)
GroupType == [clause: Seq(Lit), hints: Seq(Nat)]

HintTypes == rat_hints \in Seq(GroupType)

Opposed(C) == ToSet(C) \cap alpha = {}

AllFalse(c) == \A l \in ToSet(clauses[c]) : IsFalse(l)

(* The first unit that makes a literal of C true has clause falsified.        *)
FirstImplied(C) ==
  \E n \in 1..Len(units) :
    /\ units[n].clause = falsified /\ units[n].lit \in ToSet(C)
    /\ \A m \in 1..n - 1 : units[m].lit \notin ToSet(C)

ConflictHolds ==
  pc = "falsified" =>
    /\ falsified \in Live
    /\ \/ AllFalse(falsified) /\ (up_state # "GLOBAL_UP" => Opposed(Candidate))
       \/ up_state = "CANDIDATE_UP" /\ FirstImplied(Candidate)

CandidateHolds ==
  up_state # "GLOBAL_UP" /\ pc \in {"up", "rat"} => Opposed(Candidate)

(* What is not assumed is derived.                                          *)
Derives ==
  /\ up_state = "CANDIDATE_UP" =>
       \A n \in 1..Len(units) : candidate_unit <= n => units[n].clause # 0
  /\ up_state = "RAT_UP" =>
       \A n \in 1..Len(units) :
         (candidate_unit <= n /\ n < RAT_assumed) \/ RAT_unit <= n => units[n].clause # 0

MarksNone ==
  up_state = "CANDIDATE_UP" /\ pc \in {"up", "falsified"} => marks = {} /\ rat_hints = << >>

(* The image D is false, its open literals by the units it has assumed.       *)
ImageFalse(D) ==
  /\ \A l \in ToSet(D) : -l \in alpha
  /\ RAT_assumed <= RAT_unit /\ RAT_unit <= Len(units) + 1
  /\ RAT_marked \subseteq Vars(ToSet(D))
  /\ \A n \in 1..Len(units) :
       /\ RAT_assumed <= n /\ n < RAT_unit => units[n].lit \in Negated(ToSet(D))
       /\ RAT_unit <= n => VarOf(units[n].lit) \notin Vars(ToSet(D))

ImageHeld ==
  up_state = "RAT_UP" => rat_hints # << >> /\ ImageFalse(rat_hints[Len(rat_hints)].clause)

(* The last unit of the candidate, and the last group that is complete.       *)
End == IF up_state = "RAT_UP" THEN RAT_assumed - 1 ELSE Len(units)

Done == IF up_state = "RAT_UP" THEN Len(rat_hints) - 1 ELSE Len(rat_hints)

MarksHold(M, E) ==
  \A n \in 1..E : VarOf(units[n].lit) \in M =>
    units[n].clause # 0 /\ VarOf(units[n].lit) \notin Vars(ToSet(Candidate))

(* Literals that the candidate's hints may have made true when M is marked.   *)
Base(B, M, E) ==
  /\ B \subseteq {units[n].lit : n \in 1..E}
  /\ \A l \in ToSet(Candidate) : -l \in B
  /\ \A n \in 1..E : VarOf(units[n].lit) \in M => units[n].lit \in B

GroupHolds(g, M, E) ==
  \A B : Base(B, M, E) => ImageRefuted(DbOf(Live), B, ToSet(g.clause), g.hints)

ReducedHolds ==
  pc = "rat" \/ up_state = "RAT_UP" =>
    MarksHold(marks, End) /\ \A k \in 1..Done : GroupHolds(rat_hints[k], marks, End)

HintInv ==
  /\ HintTypes /\ ConflictHolds /\ CandidateHolds /\ Derives /\ MarksNone
  /\ ImageHeld /\ ReducedHolds /\ HintsRefute

LEMMA Groups ==
  ASSUME HintTypes
  PROVE  /\ Len(rat_hints) \in Nat
         /\ rat_hints # << >> => Len(rat_hints) \in 1..Len(rat_hints)
         /\ \A k \in 1..Len(rat_hints) :
              rat_hints[k] \in GroupType /\ rat_hints[k].clause \in Seq(Lit)
<1>1. rat_hints \in Seq(GroupType)
  BY DEF HintTypes
<1>2. Len(rat_hints) \in Nat /\ \A k \in 1..Len(rat_hints) : rat_hints[k] \in GroupType
  BY <1>1
<1>3. rat_hints # << >> => Len(rat_hints) \in 1..Len(rat_hints)
  BY <1>1
<1> QED
  BY <1>2, <1>3 DEF GroupType

(***************************************************************************)
(* Steps between lines and on the way in.                                   *)
(***************************************************************************)
LEMMA GlobalHints ==
  ASSUME up_state' = "GLOBAL_UP", pc' \notin {"falsified", "rat", "refuted", "reduced"},
         HintTypes', derived_empty_clause' => Refutes(DbOf(Live)', {}, hints')
  PROVE  HintInv'
<1>1. ConflictHolds' /\ CandidateHolds' /\ MarksNone'
  BY DEF ConflictHolds, CandidateHolds, MarksNone
<1>2. Derives' /\ ImageHeld' /\ ReducedHolds'
  BY DEF Derives, ImageHeld, ReducedHolds
<1>3. HintsRefute'
  BY DEF HintsRefute, DbOf
<1> QED
  BY <1>1, <1>2, <1>3 DEF HintInv

LEMMA SwapSet ==
  ASSUME NEW s, Proper(s), NEW a \in 1..Len(s), NEW b \in 1..Len(s)
  PROVE  ToSet(Swap(s, a, b)) = ToSet(s)
<1> PICK t : t = Swap(s, a, b)
  OBVIOUS
<1>1. /\ Proper(t) /\ Len(t) = Len(s) /\ t[a] = s[b] /\ t[b] = s[a]
      /\ \A k \in 1..Len(s) : k # a /\ k # b => t[k] = s[k]
  BY Swapped
<1>2. DOMAIN t = 1..Len(s) /\ DOMAIN s = 1..Len(s)
  BY <1>1 DEF Proper
<1>3. \A k \in 1..Len(s) : \E m \in 1..Len(s) : t[k] = s[m]
  BY <1>1
<1>4. \A k \in 1..Len(s) : \E m \in 1..Len(s) : s[k] = t[m]
  BY <1>1
<1>5. ToSet(t) = {t[k] : k \in 1..Len(s)} /\ ToSet(s) = {s[k] : k \in 1..Len(s)}
  BY <1>2 DEF ToSet
<1>6. ASSUME NEW k \in 1..Len(s) PROVE t[k] \in ToSet(s)
  <2>1. PICK m \in 1..Len(s) : t[k] = s[m]
    BY <1>3
  <2> QED
    BY <1>5, <2>1
<1>7. ASSUME NEW k \in 1..Len(s) PROVE s[k] \in ToSet(t)
  <2>1. PICK m \in 1..Len(s) : s[k] = t[m]
    BY <1>4
  <2> QED
    BY <1>5, <2>1
<1>8. ToSet(t) \subseteq ToSet(s)
  BY <1>5, <1>6
<1>9. ToSet(s) \subseteq ToSet(t)
  BY <1>5, <1>7
<1> QED
  BY <1>8, <1>9

(* A visit changes the order of the literals of one live clause only.         *)
LEMMA Turned ==
  ASSUME ForwardInv, Visiting, NEW D, ToSet(D) = ToSet(clauses[Watcher]),
         clauses' = [clauses EXCEPT ![Watcher] = D], UNCHANGED <<loaded, deleted>>
  PROVE  /\ DbOf(Live)' = DbOf(Live) /\ Live' = Live
         /\ \A c \in 1..Len(clauses) : ToSet(clauses'[c]) = ToSet(clauses[c])
         /\ up_state = "GLOBAL_UP" \/ Candidate' = Candidate
<1>1. Watcher \in 1..Len(clauses) /\ Watcher \in Live
  BY Watching
<1>2. /\ Len(clauses) \in Nat /\ clauses \in Seq(Seq(Lit)) /\ Live \subseteq 1..Len(clauses)
      /\ \A c \in Live : c >= 1 /\ c <= loaded
      /\ up_state # "GLOBAL_UP" => loaded + 1 = Len(clauses)
      /\ loaded \in Nat
  BY Facts DEF Control
<1>3. Live' = Live
  BY DEF Live
<1>4. Len(clauses') = Len(clauses)
  BY <1>1, <1>2
<1>5. \A c \in 1..Len(clauses) : clauses'[c] = IF c = Watcher THEN D ELSE clauses[c]
  BY <1>1, <1>2
<1>6. \A c \in 1..Len(clauses) : ToSet(clauses'[c]) = ToSet(clauses[c])
  BY <1>5
<1>7. DbOf(Live)' = DbOf(Live)
  BY <1>2, <1>3, <1>6 DEF DbOf
<1>8. up_state = "GLOBAL_UP" \/ Candidate' = Candidate
  <2> SUFFICES ASSUME up_state # "GLOBAL_UP" PROVE Candidate' = Candidate
    OBVIOUS
  <2>1. Len(clauses) \in 1..Len(clauses) /\ Watcher # Len(clauses)
    BY <1>1, <1>2
  <2> QED
    BY <1>4, <1>5, <2>1 DEF Candidate
<1> QED
  BY <1>3, <1>6, <1>7, <1>8

LEMMA OtherFirstSet ==
  ASSUME ForwardInv, Visiting
  PROVE  ToSet(OtherFirst) = ToSet(clauses[Watcher])
<1>1. Watcher \in 1..Len(clauses) /\ Len(clauses[Watcher]) >= 2
  BY Watching
<1>2. Proper(clauses[Watcher]) /\ Len(clauses[Watcher]) \in Nat
  BY <1>1, Facts, ProperFacts
<1>3. 1 \in 1..Len(clauses[Watcher]) /\ 2 \in 1..Len(clauses[Watcher])
  BY <1>1, <1>2
<1>4. ToSet(Swap(clauses[Watcher], 1, 2)) = ToSet(clauses[Watcher])
  BY <1>2, <1>3, SwapSet
<1> QED
  BY <1>4 DEF OtherFirst

LEMMA GroupKept ==
  ASSUME NEW g, NEW M, NEW M2, M \subseteq M2, NEW E, NEW E2, E2 = E,
         \A n \in 1..E : units'[n] = units[n], Candidate' = Candidate,
         DbOf(Live)' = DbOf(Live), GroupHolds(g, M, E)
  PROVE  GroupHolds(g, M2, E2)'
<1> SUFFICES ASSUME NEW B, Base(B, M2, E2)'
             PROVE  ImageRefuted(DbOf(Live)', B, ToSet(g.clause), g.hints)
  BY DEF GroupHolds
<1>1. Base(B, M, E)
  BY DEF Base
<1>2. ImageRefuted(DbOf(Live), B, ToSet(g.clause), g.hints)
  BY <1>1 DEF GroupHolds
<1> QED
  BY <1>2

(* A step of the loop that sets no unit.                                     *)
LEMMA SameHints ==
  ASSUME ForwardInv, HintInv, UNCHANGED <<alphaVars, levelVars, markVars, hintVars>>,
         DbOf(Live)' = DbOf(Live), up_state = "GLOBAL_UP" \/ Candidate' = Candidate,
         pc \in {"up", "re-up"}, pc' \notin {"refuted", "reduced"},
         pc' = "rat" => up_state = "CANDIDATE_UP", ConflictHolds'
  PROVE  HintInv'
<1>1. /\ UNCHANGED <<alpha, units, vars_unit_indexes, up_state, candidate_assumed>>
      /\ UNCHANGED <<candidate_unit, RAT_assumed, RAT_unit, assumed, RAT_marked>>
      /\ UNCHANGED <<marks, hints, rat_hints, derived_empty_clause>>
  BY DEF alphaVars, levelVars, markVars, hintVars
<1>2. up_state # "GLOBAL_UP" => pc = "up" /\ Candidate' = Candidate
  BY DEF ForwardInv, Control
<1>3. HintTypes'
  BY <1>1 DEF HintInv, HintTypes
<1>4. CandidateHolds'
  BY <1>1, <1>2 DEF HintInv, CandidateHolds, Opposed
<1>5. Derives'
  BY <1>1 DEF HintInv, Derives
<1>6. MarksNone'
  BY <1>1, <1>2 DEF HintInv, MarksNone
<1>7. ImageHeld'
  BY <1>1 DEF HintInv, ImageHeld, ImageFalse
<1>8. HintsRefute'
  <2>1. derived_empty_clause => Refutes(DbOf(Live), {}, hints)
    BY DEF HintInv, HintsRefute, DbOf
  <2>2. derived_empty_clause' => Refutes(DbOf(Live)', {}, hints')
    BY <1>1, <2>1
  <2> QED
    BY <2>2 DEF HintsRefute, DbOf
<1>9. ReducedHolds'
  <2> SUFFICES ASSUME (pc = "rat" \/ up_state = "RAT_UP")'
               PROVE  (MarksHold(marks, End) /\ \A k \in 1..Done : GroupHolds(rat_hints[k], marks, End))'
    BY DEF ReducedHolds
  <2>1. up_state # "GLOBAL_UP" /\ pc = "up" /\ Candidate' = Candidate
    BY <1>1, <1>2
  <2>2. End' = End /\ Done' = Done
    BY <1>1 DEF End, Done
  <2>3. CASE up_state = "RAT_UP"
    <3>1. MarksHold(marks, End) /\ \A k \in 1..Done : GroupHolds(rat_hints[k], marks, End)
      BY <2>3 DEF HintInv, ReducedHolds
    <3>2. MarksHold(marks, End)'
      BY <1>1, <2>1, <2>2, <3>1 DEF MarksHold
    <3> PICK M, E, H : M = marks /\ E = End /\ H = rat_hints
      OBVIOUS
    <3>3. \A k \in 1..Done : GroupHolds(H[k], M, E)'
      BY <1>1, <2>1, <3>1, GroupKept
    <3> QED
      BY <1>1, <2>2, <3>2, <3>3 DEF GroupHolds, Base
  <2>4. CASE up_state = "CANDIDATE_UP"
    <3>1. marks = {} /\ rat_hints = << >>
      BY <2>1, <2>4 DEF HintInv, MarksNone
    <3>2. Done' = 0
      BY <1>1, <2>2, <2>4, <3>1 DEF Done
    <3> QED
      BY <1>1, <3>1, <3>2 DEF MarksHold
  <2>5. up_state \in {"GLOBAL_UP", "CANDIDATE_UP", "RAT_UP"}
    BY Facts DEF TrailTypes
  <2> QED
    BY <2>1, <2>3, <2>4, <2>5
<1> QED
  BY <1>3, <1>4, <1>5, <1>6, <1>7, <1>8, <1>9 DEF HintInv

LEMMA GroupMade ==
  ASSUME NEW D \in Seq(Lit), NEW h \in Seq(Nat)
  PROVE  Group(D, h) \in GroupType /\ Group(D, h).clause = D /\ Group(D, h).hints = h
<1> PICK S, T : S = Seq(Lit) /\ T = Seq(Nat)
  OBVIOUS
<1>1. [clause |-> D, hints |-> h] \in [clause: S, hints: T]
  OBVIOUS
<1>2. Group(D, h) = [clause |-> D, hints |-> h]
  BY DEF Group
<1> QED
  BY <1>1, <1>2 DEF GroupType

(* A group is added to a list of groups.                                     *)
LEMMA GroupAdded ==
  ASSUME NEW G, NEW H \in Seq(G), NEW g \in G, NEW H2, H2 = Append(H, g)
  PROVE  /\ H2 \in Seq(G) /\ Len(H) \in Nat /\ Len(H2) = Len(H) + 1
         /\ H2[Len(H) + 1] = g /\ H2[Len(H2)] = g /\ H2 # << >>
         /\ \A k \in 1..Len(H) : H2[k] = H[k]
         /\ \A k \in 1..Len(H) + 1 : k \in 1..Len(H) \/ k = Len(H) + 1
<1> PICK n \in Nat : n = Len(H)
  OBVIOUS
<1>1. H2 \in Seq(G) /\ Len(H2) = n + 1 /\ H2[n + 1] = g /\ \A k \in 1..n : H2[k] = H[k]
  OBVIOUS
<1>2. \A k \in 1..n + 1 : k \in 1..n \/ k = n + 1
  OBVIOUS
<1>3. H2 # << >>
  BY <1>1
<1> QED
  BY <1>1, <1>2, <1>3

LEMMA SkipHints ==
  ASSUME ForwardInv, HintInv, SkipSatisfied
  PROVE  HintInv'
<1>1. /\ Visiting /\ PutOtherFirst /\ pc' = pc /\ UNCHANGED <<loaded, deleted>>
      /\ UNCHANGED <<alphaVars, levelVars, markVars, hintVars>>
  BY DEF SkipSatisfied, upVars, lineVars
<1>2. ToSet(OtherFirst) = ToSet(clauses[Watcher])
  BY <1>1, OtherFirstSet
<1>3. DbOf(Live)' = DbOf(Live) /\ (up_state = "GLOBAL_UP" \/ Candidate' = Candidate)
  BY <1>1, <1>2, Turned DEF PutOtherFirst
<1>4. pc \in {"up", "re-up"}
  BY <1>1 DEF Visiting, Propagating
<1>5. ConflictHolds'
  BY <1>1, <1>4 DEF ConflictHolds
<1> QED
  BY <1>1, <1>3, <1>4, <1>5, SameHints

LEMMA ReplaceHints ==
  ASSUME ForwardInv, HintInv, ReplaceWatch
  PROVE  HintInv'
<1>1. /\ Visiting /\ Replacements # {} /\ MoveWatch /\ pc' = pc /\ UNCHANGED <<loaded, deleted>>
      /\ UNCHANGED <<alphaVars, levelVars, markVars, hintVars>>
  BY DEF ReplaceWatch, upVars, lineVars
<1>2. ToSet(OtherFirst) = ToSet(clauses[Watcher])
  BY <1>1, OtherFirstSet
<1>3. PICK k \in 3..Len(OtherFirst) : clauses' = [clauses EXCEPT ![Watcher] = Swap(OtherFirst, 2, k)]
  <2> PICK live, bare, C : live = Live /\ bare = Bare /\ C = Candidate
    OBVIOUS
  <2>1. TrailInv(live, bare, C) /\ Visits
    BY <1>1, Visited
  <2> QED
    BY <1>1, <2>1, MoveFacts
<1>4. /\ Proper(OtherFirst) /\ Len(OtherFirst) \in Nat /\ Len(OtherFirst) >= 2
      /\ 2 \in 1..Len(OtherFirst) /\ k \in 1..Len(OtherFirst)
  <2>1. Proper(OtherFirst) /\ Len(OtherFirst) = Len(clauses[Watcher]) /\ Len(clauses[Watcher]) >= 2
    BY <1>1, Watching
  <2>2. Len(OtherFirst) \in Nat
    BY <2>1, ProperFacts
  <2> QED
    BY <2>1, <2>2
<1> PICK D : D = Swap(OtherFirst, 2, k)
  OBVIOUS
<1>5. ToSet(D) = ToSet(clauses[Watcher])
  BY <1>2, <1>4, SwapSet
<1>6. DbOf(Live)' = DbOf(Live) /\ (up_state = "GLOBAL_UP" \/ Candidate' = Candidate)
  BY <1>1, <1>3, <1>5, Turned
<1>7. pc \in {"up", "re-up"}
  BY <1>1 DEF Visiting, Propagating
<1>8. ConflictHolds'
  BY <1>1, <1>7 DEF ConflictHolds
<1> QED
  BY <1>1, <1>6, <1>7, <1>8, SameHints

LEMMA ConflictHints ==
  ASSUME ForwardInv, HintInv, FindConflict
  PROVE  HintInv'
<1>1. /\ Visiting /\ PutOtherFirst /\ UNCHANGED <<loaded, deleted>>
      /\ UNCHANGED <<alphaVars, levelVars, markVars, hintVars>>
      /\ IsFalse(OtherFirst[1]) /\ Replacements = {} /\ falsified' = Watcher
      /\ pc' = IF pc = "re-up" THEN "read" ELSE "falsified"
  BY DEF FindConflict, upVars, lineVars
<1>2. ToSet(OtherFirst) = ToSet(clauses[Watcher])
  BY <1>1, OtherFirstSet
<1>3. /\ DbOf(Live)' = DbOf(Live) /\ (up_state = "GLOBAL_UP" \/ Candidate' = Candidate)
      /\ Live' = Live /\ \A c \in 1..Len(clauses) : ToSet(clauses'[c]) = ToSet(clauses[c])
  BY <1>1, <1>2, Turned DEF PutOtherFirst
<1>4. pc \in {"up", "re-up"} /\ (up_state # "GLOBAL_UP" => pc = "up")
  BY <1>1 DEF Visiting, Propagating, ForwardInv, Control
<1>5. /\ Watcher \in Live /\ Watcher \in 1..Len(clauses)
      /\ Proper(OtherFirst) /\ OtherFirst[2] = FalsifiedLit /\ IsFalse(FalsifiedLit)
  BY <1>1, Watching
<1>6. \A l \in ToSet(OtherFirst) : IsFalse(l)
  <2>1. DOMAIN OtherFirst = 1..Len(OtherFirst) /\ Len(OtherFirst) \in Nat
    BY <1>5, ProperFacts
  <2>2. ASSUME NEW k \in 1..Len(OtherFirst) PROVE IsFalse(OtherFirst[k])
    <3>1. k = 1 \/ k = 2 \/ k \in 3..Len(OtherFirst)
      BY <2>1
    <3> QED
      BY <1>1, <1>5, <3>1 DEF Replacements
  <2> QED
    BY <2>1, <2>2 DEF ToSet
<1>7. ConflictHolds'
  <2>1. alpha' = alpha /\ up_state' = up_state
    BY <1>1 DEF alphaVars, levelVars
  <2>2. falsified' \in Live'
    BY <1>1, <1>3, <1>5
  <2>3. AllFalse(falsified)'
    BY <1>1, <1>2, <1>3, <1>5, <1>6, <2>1 DEF AllFalse, IsFalse
  <2>4. up_state' # "GLOBAL_UP" => Opposed(Candidate)'
    BY <1>3, <1>4, <2>1 DEF HintInv, CandidateHolds, Opposed
  <2> QED
    BY <2>2, <2>3, <2>4 DEF ConflictHolds
<1> QED
  BY <1>1, <1>3, <1>4, <1>7, SameHints

LEMMA NextHints ==
  ASSUME ForwardInv, HintInv, NextUnit
  PROVE  HintInv'
<1>1. /\ pc' = pc /\ UNCHANGED <<clauses, loaded, deleted>> /\ pc \in {"up", "re-up"}
      /\ UNCHANGED <<alphaVars, levelVars, markVars, hintVars>>
  BY DEF NextUnit, Propagating, upVars, lineVars
<1>2. DbOf(Live)' = DbOf(Live) /\ Candidate' = Candidate
  BY <1>1 DEF DbOf, Live, Candidate
<1>3. ConflictHolds'
  BY <1>1 DEF ConflictHolds
<1> QED
  BY <1>1, <1>2, <1>3, SameHints

LEMMA FinishHints ==
  ASSUME ForwardInv, HintInv, FinishUp
  PROVE  HintInv'
<1>1. /\ UNCHANGED <<clauses, loaded, deleted>> /\ pc \in {"up", "re-up"}
      /\ UNCHANGED <<alphaVars, levelVars, markVars, hintVars>>
      /\ pc' = CASE up_state = "RAT_UP"       -> "FATAL"
             [] up_state = "CANDIDATE_UP" -> IF Candidate = << >>
                                             THEN "FATAL" ELSE "rat"
             [] OTHER -> IF derived_empty_clause THEN "UNSAT"
                         ELSE IF loaded < Len(clauses) THEN "load" ELSE "read"
  BY DEF FinishUp, lineVars
<1>2. DbOf(Live)' = DbOf(Live) /\ Candidate' = Candidate
  BY <1>1 DEF DbOf, Live, Candidate
<1>3. /\ pc' \notin {"refuted", "reduced", "falsified"}
      /\ pc' = "rat" => up_state = "CANDIDATE_UP"
  BY <1>1
<1>4. ConflictHolds'
  BY <1>3 DEF ConflictHolds
<1> QED
  BY <1>1, <1>2, <1>3, <1>4, SameHints

(* A unit that is set has a clause, and is not of the candidate or the image. *)
LEMMA FindUnitHints ==
  ASSUME ForwardInv, HintInv, FindUnit
  PROVE  HintInv'
<1> PICK l : l = OtherFirst[1]
  OBVIOUS
<1>1. /\ Visiting /\ PutOtherFirst /\ pc' = pc /\ UNCHANGED <<loaded, deleted>>
      /\ Unassigned(l) /\ SetUnit(l, Watcher)
      /\ UNCHANGED <<levelVars, markVars, hintVars>>
  BY DEF FindUnit, upVars, lineVars
<1>2. ToSet(OtherFirst) = ToSet(clauses[Watcher])
  BY <1>1, OtherFirstSet
<1>3. /\ DbOf(Live)' = DbOf(Live) /\ (up_state = "GLOBAL_UP" \/ Candidate' = Candidate)
      /\ Live' = Live /\ \A c \in 1..Len(clauses) : ToSet(clauses'[c]) = ToSet(clauses[c])
  BY <1>1, <1>2, Turned DEF PutOtherFirst
<1>4. /\ pc \in {"up", "re-up"}
      /\ up_state # "GLOBAL_UP" => pc = "up" /\ ~derived_empty_clause /\ Candidate' = Candidate
  BY <1>1, <1>3 DEF Visiting, Propagating, ForwardInv, Control
<1>5. /\ UNCHANGED <<up_state, candidate_assumed, candidate_unit, RAT_assumed, RAT_unit>>
      /\ UNCHANGED <<assumed, RAT_marked, marks, hints, rat_hints, derived_empty_clause>>
  BY <1>1 DEF levelVars, markVars, hintVars
<1>6. HintTypes'
  BY <1>5 DEF HintInv, HintTypes
<1>7. derived_empty_clause' => Refutes(DbOf(Live)', {}, hints')
  BY <1>3, <1>5 DEF HintInv, HintsRefute, DbOf
<1>8. CASE up_state = "GLOBAL_UP"
  BY <1>1, <1>4, <1>5, <1>6, <1>7, <1>8, GlobalHints
<1>9. CASE up_state # "GLOBAL_UP"
  <2> PICK N \in Nat : N = Len(units)
    BY Facts
  <2>1. /\ TrailTypes /\ TrailExact /\ Levels(Candidate) /\ Proper(Candidate)
        /\ Watcher \in Nat \ {0} /\ l \in Lit
    <3>1. Watcher \in 1..Len(clauses) /\ Proper(OtherFirst) /\ Len(OtherFirst) >= 1
      BY <1>1, Watching
    <3>2. Len(OtherFirst) \in Nat
      BY <3>1, ProperFacts
    <3>3. l \in Lit
      BY <3>1, <3>2, ProperFacts
    <3>4. Len(clauses) \in 1..Len(clauses)
      BY <3>1
    <3> QED
      BY <3>1, <3>3, <3>4, Facts DEF Candidate
  <2>2. /\ Len(units') = N + 1
        /\ units'[N + 1].lit = l /\ units'[N + 1].clause = Watcher
        /\ \A n \in 1..N : units'[n] = units[n]
        /\ \A n \in 1..N : VarOf(units[n].lit) # VarOf(l)
    BY <1>1, <2>1, TrailExtended
  <2>3. alpha' = alpha \cup {l}
    BY <1>1 DEF SetUnit
  <2>4. CandidateLevel(Candidate)
    BY <1>9, <2>1 DEF Levels
  <2>5. \A v \in Vars(ToSet(Candidate)) : v # VarOf(l)
    BY <2>2, <2>4 DEF CandidateLevel
  <2>6. l \notin ToSet(Candidate)
    BY <2>5 DEF Vars
  <2>7. CandidateHolds'
    BY <1>4, <1>9, <2>3, <2>6 DEF HintInv, CandidateHolds, Opposed
  <2>8. \A n \in 1..Len(units') : n = N + 1 \/ n \in 1..N
    BY <2>2
  <2>9. Derives'
    BY <1>5, <2>1, <2>2, <2>8 DEF HintInv, Derives
  <2>10. MarksNone'
    BY <1>1, <1>4, <1>5, <1>9 DEF HintInv, MarksNone
  <2>11. ImageHeld'
    <3> SUFFICES ASSUME up_state = "RAT_UP"
                 PROVE  rat_hints # << >> /\ ImageFalse(rat_hints[Len(rat_hints)].clause)'
      BY <1>5 DEF ImageHeld
    <3> PICK D : D = rat_hints[Len(rat_hints)].clause
      OBVIOUS
    <3>1. rat_hints # << >> /\ ImageFalse(D)
      BY DEF HintInv, ImageHeld
    <3>2. /\ \A m \in ToSet(D) : -m \in alpha
          /\ RAT_assumed <= RAT_unit /\ RAT_unit <= N + 1 /\ RAT_unit \in Nat
          /\ RAT_marked \subseteq Vars(ToSet(D))
          /\ \A n \in 1..N :
               /\ RAT_assumed <= n /\ n < RAT_unit => units[n].lit \in Negated(ToSet(D))
               /\ RAT_unit <= n => VarOf(units[n].lit) \notin Vars(ToSet(D))
      BY <2>1, <3>1 DEF ImageFalse, TrailTypes
    <3>3. D \in Seq(Lit)
      BY <3>1, Groups DEF HintInv
    <3>4. ASSUME NEW m \in ToSet(D) PROVE VarOf(m) # VarOf(l)
      <4>1. m \in Lit /\ -m \in alpha
        BY <3>2, <3>3, VarsOf
      <4>2. PICK n \in 1..N : units[n].lit = -m
        BY <2>1, <4>1 DEF TrailExact
      <4>3. VarOf(units[n].lit) = VarOf(m)
        BY <4>1, <4>2, LitFacts
      <4> QED
        BY <2>2, <4>3
    <3>5. VarOf(l) \notin Vars(ToSet(D))
      BY <3>4 DEF Vars
    <3>6. \A n \in 1..Len(units') :
               /\ RAT_assumed <= n /\ n < RAT_unit => units'[n].lit \in Negated(ToSet(D))
               /\ RAT_unit <= n => VarOf(units'[n].lit) \notin Vars(ToSet(D))
      <4> TAKE n \in 1..Len(units')
      <4>1. CASE n = N + 1
        BY <2>2, <3>2, <3>5, <4>1
      <4>2. CASE n \in 1..N
        BY <2>2, <3>2, <4>2
      <4> QED
        BY <2>8, <4>1, <4>2
    <3>7. RAT_unit <= Len(units') + 1
      BY <2>2, <3>2
    <3>8. \A m \in ToSet(D) : -m \in alpha'
      BY <2>3, <3>2
    <3>9. ImageFalse(D)'
      BY <1>5, <3>2, <3>6, <3>7, <3>8 DEF ImageFalse
    <3> QED
      BY <1>5, <3>1, <3>9
  <2>12. ReducedHolds'
    <3> SUFFICES ASSUME up_state = "RAT_UP"
                 PROVE  (MarksHold(marks, End) /\ \A k \in 1..Done : GroupHolds(rat_hints[k], marks, End))'
      BY <1>1, <1>4, <1>5, <1>9 DEF ReducedHolds
    <3>1. MarksHold(marks, End) /\ \A k \in 1..Done : GroupHolds(rat_hints[k], marks, End)
      BY DEF HintInv, ReducedHolds
    <3>2. End' = End /\ Done' = Done /\ End <= N
      BY <1>5, <2>1 DEF End, Done, Levels, TrailTypes
    <3>3. \A n \in 1..End : units'[n] = units[n] /\ n \in 1..N
      <4>1. End \in Int
        BY <2>1 DEF End, TrailTypes
      <4> QED
        BY <2>2, <3>2, <4>1
    <3>4. MarksHold(marks, End)'
      BY <1>4, <1>5, <1>9, <3>1, <3>2, <3>3 DEF MarksHold
    <3> PICK M, E, H : M = marks /\ E = End /\ H = rat_hints
      OBVIOUS
    <3>5. \A k \in 1..Done : GroupHolds(H[k], M, E)'
      BY <1>3, <1>4, <1>9, <3>1, <3>3, GroupKept
    <3> QED
      BY <1>5, <3>2, <3>4, <3>5 DEF GroupHolds, Base
  <2>13. ConflictHolds' /\ HintsRefute'
    BY <1>1, <1>4, <1>5, <1>9 DEF ConflictHolds, HintsRefute
  <2> QED
    BY <1>6, <2>7, <2>9, <2>10, <2>11, <2>12, <2>13 DEF HintInv
<1> QED
  BY <1>8, <1>9

(***************************************************************************)
(* The formula refuted.                                                     *)
(***************************************************************************)
(* What is set by units has clauses, and is not assumed.                     *)
LEMMA SetUnits ==
  ASSUME TrailTypes, TrailExact, NEW c, NEW from, NEW n \in 1..Len(units), NEW T, assumed \subseteq T,
         VarOf(units[n].lit) \in SetByUnits(c, from, T)
  PROVE  units[n].clause # 0 /\ VarOf(units[n].lit) \notin assumed
<1>1. /\ vars_unit_indexes[VarOf(units[n].lit)] > 0
      /\ VarOf(units[n].lit) \notin T
  BY DEF SetByUnits
<1> QED
  BY <1>1 DEF TrailExact

LEMMA FalseUnit ==
  ASSUME NEW live, NEW bare, NEW C, TrailInv(live, bare, C), NEW f, AllFalse(f)
  PROVE  \A l \in ToSet(clauses[f]) :
           \E m \in 1..Len(units) : m < Len(units) + 1 /\ units[m].lit = -l
<1>1. TrailExact /\ Len(units) \in Nat
  BY UnitTypes DEF TrailInv
<1> SUFFICES ASSUME NEW l \in ToSet(clauses[f])
             PROVE  \E m \in 1..Len(units) : m < Len(units) + 1 /\ units[m].lit = -l
  OBVIOUS
<1>2. -l \in alpha
  BY DEF AllFalse, IsFalse
<1>3. PICK m \in 1..Len(units) : units[m].lit = -l
  BY <1>1, <1>2 DEF TrailExact
<1> QED
  BY <1>1, <1>3

LEMMA GlobalRefutes ==
  ASSUME NEW live, NEW bare, NEW C, TrailInv(live, bare, C), up_state = "GLOBAL_UP",
         NEW f \in live, AllFalse(f)
  PROVE  Refutes(DbOf(live), {}, RefutationHints(f))
<1> PICK N \in Nat : N = Len(units)
  BY UnitTypes DEF TrailInv
<1> PICK M : M = marks \cup SetByUnits(f, 1, assumed)
  OBVIOUS
<1> PICK p \in Nat : p = N + 1
  OBVIOUS
<1>1. assumed = {} /\ \A n \in 1..N : units[n].clause # 0
  BY DEF TrailInv, Levels
<1>2. Given({}, M, MarkDependencies(M, 1), 1, p)
  BY <1>1 DEF Given
<1>3. FalseBefore(f, {}, M, p)
  BY FalseUnit DEF FalseBefore
<1>4. 1 \in Nat \ {0} /\ 1 <= N + 1 /\ {} \in SUBSET Lit
  OBVIOUS
<1>5. Refutes(DbOf(live), {}, Append(MarkedReasons(MarkDependencies(M, 1), 1), f))
  BY <1>2, <1>3, <1>4, MarksRefute
<1> QED
  BY <1>5 DEF RefutationHints, RefutationMarks

LEMMA RefuteFormulaHints ==
  ASSUME ForwardInv, HintInv, RefuteFormula
  PROVE  HintInv'
<1>1. /\ pc = "falsified" /\ up_state = "GLOBAL_UP" /\ pc' = "UNSAT"
      /\ hints' = RefutationHints(falsified) /\ rat_hints' = << >>
      /\ UNCHANGED <<clauses, loaded, deleted, up_state>>
  BY DEF RefuteFormula, StoreRefutation, upVars, levelVars, lineVars
<1>2. falsified \in Live /\ AllFalse(falsified)
  BY <1>1 DEF HintInv, ConflictHolds
<1> PICK live, bare, C : live = Live /\ bare = Bare /\ C = Candidate
  OBVIOUS
<1>3. TrailInv(live, bare, C)
  BY DEF ForwardInv
<1>4. Refutes(DbOf(live), {}, RefutationHints(falsified))
  BY <1>1, <1>2, <1>3, GlobalRefutes
<1>5. DbOf(Live)' = DbOf(live)
  BY <1>1 DEF DbOf, Live
<1>6. HintTypes'
  BY <1>1 DEF HintTypes
<1> QED
  BY <1>1, <1>4, <1>5, <1>6, GlobalHints

(* A clause that is added without watches.                                   *)
LEMMA BareAdded ==
  ASSUME NEW live, NEW bare, NEW C, TrailInv(live, bare, C), NEW a \in 1..Len(clauses)
  PROVE  TrailInv(live \cup {a}, bare \cup {a}, C)
<1>1. ReasonsHold(live \cup {a})
  BY DEF TrailInv, ReasonsHold, Reason
<1>2. WatchesHold(live \cup {a}, bare \cup {a})
  BY DEF TrailInv, WatchesHold
<1> QED
  BY <1>1, <1>2 DEF TrailInv

LEMMA AddFalsifiedHints ==
  ASSUME ForwardInv, HintInv, AddFalsified
  PROVE  HintInv'
<1> PICK a : a = Added
  OBVIOUS
<1>1. /\ Adding /\ NonFalse(a) = {} /\ loaded' = a /\ deleted' = deleted
      /\ pc' = "UNSAT" \/ pc' = "up"
      /\ hints' = RefutationHints(a) /\ rat_hints' = << >>
      /\ UNCHANGED <<clauses, up_state>>
  BY DEF AddFalsified, StoreRefutation, StartUp, upVars, levelVars, lineVars
<1> PICK live, bare, C : live = Live /\ bare = Bare /\ C = Candidate
  OBVIOUS
<1>2. /\ a \in 1..Len(clauses) /\ Live' = live \cup {a} /\ up_state = "GLOBAL_UP"
      /\ TrailInv(live, bare, C)
  BY <1>1, Loading
<1>3. TrailInv(live \cup {a}, bare \cup {a}, C)
  BY <1>2, BareAdded
<1>4. AllFalse(a)
  <2>1. Proper(clauses[a])
    BY <1>2, Facts
  <2>2. DOMAIN clauses[a] = 1..Len(clauses[a])
    BY <2>1 DEF Proper
  <2> QED
    BY <1>1, <2>2 DEF AllFalse, NonFalse, ToSet
<1> PICK live2, bare2 : live2 = live \cup {a} /\ bare2 = bare \cup {a}
  OBVIOUS
<1>5. TrailInv(live2, bare2, C) /\ a \in live2
  BY <1>3
<1>6. Refutes(DbOf(live2), {}, RefutationHints(a))
  BY <1>2, <1>4, <1>5, GlobalRefutes
<1>7. DbOf(Live)' = DbOf(live2)
  BY <1>1, <1>2 DEF DbOf
<1>8. HintTypes'
  BY <1>1 DEF HintTypes
<1> QED
  BY <1>1, <1>2, <1>6, <1>7, <1>8, GlobalHints

LEMMA AddHints ==
  ASSUME ForwardInv, HintInv, AddUnit \/ AddWatched
  PROVE  HintInv'
<1>1. /\ Adding /\ loaded' = Added /\ deleted' = deleted /\ pc' = "up"
      /\ UNCHANGED <<up_state, rat_hints, derived_empty_clause>>
  BY DEF AddUnit, AddWatched, StartUp, upVars, levelVars, hintVars, lineVars
<1>2. up_state = "GLOBAL_UP" /\ ~derived_empty_clause
  BY <1>1, Loading
<1>3. HintTypes'
  BY <1>1 DEF HintInv, HintTypes
<1> QED
  BY <1>1, <1>2, <1>3, GlobalHints

(***************************************************************************)
(* Between the lines.                                                       *)
(***************************************************************************)
LEMMA LineHints ==
  ASSUME ForwardInv, HintInv,
         \/ UnassumeCandidate \/ IgnoreDeletion \/ DeleteOther \/ DeleteAndUnassign \/ EndOfProof
  PROVE  HintInv'
<1>1. /\ pc \in {"refuted", "reduced", "read"} /\ pc' \in {"add", "read", "re-up", "VALID", "FATAL"}
      /\ UNCHANGED <<rat_hints, derived_empty_clause>>
      /\ up_state' = "GLOBAL_UP" \/ (pc = "read" /\ up_state' = up_state)
  <2>1. CASE UnassumeCandidate
    BY <2>1 DEF UnassumeCandidate, UndoCandidate, hintVars
  <2>2. CASE IgnoreDeletion
    BY <2>2 DEF IgnoreDeletion, hintVars, upVars, levelVars
  <2>3. CASE DeleteOther
    BY <2>3 DEF DeleteOther, Delete, hintVars, upVars, levelVars
  <2>4. CASE DeleteAndUnassign
    BY <2>4 DEF DeleteAndUnassign, Delete, hintVars, levelVars
  <2>5. CASE EndOfProof
    BY <2>5 DEF EndOfProof, hintVars, upVars, levelVars
  <2> QED
    BY <2>1, <2>2, <2>3, <2>4, <2>5
<1>2. up_state' = "GLOBAL_UP" /\ ~derived_empty_clause
  BY <1>1 DEF ForwardInv, Control
<1>3. HintTypes'
  BY <1>1 DEF HintInv, HintTypes
<1> QED
  BY <1>1, <1>2, <1>3, GlobalHints

(***************************************************************************)
(* The candidate refuted.                                                   *)
(***************************************************************************)
(* What the candidate's level assumes has a variable of the candidate, and    *)
(* what is derived has none.                                                *)
LEMMA CandidateUnits ==
  ASSUME NEW live, NEW bare, NEW C, TrailInv(live, bare, C), up_state # "GLOBAL_UP"
  PROVE  /\ \A m \in 1..Len(units) : m < candidate_unit /\ units[m].clause = 0 =>
              VarOf(units[m].lit) \in Vars(ToSet(C))
         /\ \A v \in assumed : v \in Vars(ToSet(C)) \/ v \in RAT_marked
         /\ \A n \in 1..Len(units) :
              units[n].clause # 0 /\ VarOf(units[n].lit) \notin assumed =>
                VarOf(units[n].lit) \notin Vars(ToSet(C))
<1>1. TrailTypes /\ TrailExact /\ CandidateLevel(C)
  BY DEF TrailInv, Levels
<1>2. ASSUME NEW m \in 1..Len(units), m < candidate_unit, units[m].clause = 0
      PROVE  VarOf(units[m].lit) \in Vars(ToSet(C))
  <2>1. candidate_assumed <= m
    <3>1. ~(m < candidate_assumed)
      BY <1>1, <1>2 DEF CandidateLevel
    <3> QED
      BY <1>1, <3>1 DEF TrailTypes
  <2> QED
    BY <1>1, <1>2, <2>1 DEF CandidateLevel
<1>3. assumed = {v \in Vars(ToSet(C)) : vars_unit_indexes[v] > 0} \cup RAT_marked
  BY <1>1 DEF CandidateLevel
<1>4. ASSUME NEW n \in 1..Len(units), units[n].clause # 0, VarOf(units[n].lit) \notin assumed
      PROVE  VarOf(units[n].lit) \notin Vars(ToSet(C))
  <2>1. vars_unit_indexes[VarOf(units[n].lit)] = n /\ n > 0
    BY <1>1, <1>4 DEF TrailExact
  <2> QED
    BY <1>3, <1>4, <2>1
<1> QED
  BY <1>2, <1>3, <1>4

(* A unit of a variable of C makes a literal of C false, if none is true.      *)
LEMMA OpposedUnit ==
  ASSUME TrailTypes, TrailExact, NEW C \in Seq(Lit), NEW m \in 1..Len(units),
         units[m].lit \notin ToSet(C), VarOf(units[m].lit) \in Vars(ToSet(C))
  PROVE  units[m].lit \in Negated(ToSet(C))
<1>1. PICK l \in ToSet(C) : VarOf(units[m].lit) = VarOf(l)
  BY DEF Vars
<1>2. l \in Lit /\ units[m].lit \in Lit
  BY VarsOf, UnitTypes
<1>3. units[m].lit = -l
  BY <1>1, <1>2, LitFacts
<1> QED
  BY <1>3 DEF Negated

LEMMA NegatedLits ==
  ASSUME NEW C \in Seq(Lit)
  PROVE  /\ Negated(ToSet(C)) \in SUBSET Lit
         /\ \A l \in Lit : l \in Negated(ToSet(C)) \/ -l \in Negated(ToSet(C)) =>
              VarOf(l) \in Vars(ToSet(C))
         /\ \A l \in ToSet(C) : -l \in Negated(ToSet(C))
<1>1. \A l \in ToSet(C) : l \in Lit
  BY VarsOf
<1>2. \A l \in ToSet(C) : -l \in Lit /\ -(-l) = l /\ VarOf(-l) = VarOf(l)
  BY <1>1, LitFacts
<1>3. ASSUME NEW l \in Lit, l \in Negated(ToSet(C)) \/ -l \in Negated(ToSet(C))
      PROVE  VarOf(l) \in Vars(ToSet(C))
  <2>1. PICK m \in ToSet(C) : l = -m \/ -l = -m
    BY <1>3 DEF Negated
  <2>2. VarOf(l) = VarOf(m)
    BY <1>1, <1>2, <2>1, LitFacts
  <2> QED
    BY <2>2 DEF Vars
<1> QED
  BY <1>2, <1>3 DEF Negated

(* The marks of the candidate's own level.                                   *)
LEMMA CandidateGiven ==
  ASSUME NEW live, NEW bare, NEW C \in Seq(Lit), TrailInv(live, bare, C),
         up_state = "CANDIDATE_UP", Derives, NEW M, NEW D, NEW p \in Nat,
         \A m \in 1..Len(units) : m < p => units[m].lit \notin ToSet(C),
         \A n \in 1..Len(units) : VarOf(units[n].lit) \in M =>
           n < p /\ units[n].clause # 0 /\ VarOf(units[n].lit) \notin assumed
  PROVE  Given(Negated(ToSet(C)), M, D, 1, p)
<1> PICK N \in Nat : N = Len(units)
  BY UnitTypes DEF TrailInv
<1>1. TrailTypes /\ TrailExact /\ RAT_marked = {} /\ candidate_unit \in Nat
  BY DEF TrailInv, Levels, TrailTypes
<1>2. \A m \in 1..N : units[m].lit \in Lit
  BY <1>1, UnitTypes
<1>3. ASSUME NEW m \in 1..N, m < p, units[m].clause = 0 \/ VarOf(units[m].lit) \in assumed
      PROVE  units[m].lit \in Negated(ToSet(C))
  <2>1. VarOf(units[m].lit) \in Vars(ToSet(C))
    <3>1. CASE units[m].clause = 0
      <4>1. ~(candidate_unit <= m)
        BY <3>1 DEF Derives
      <4>2. m < candidate_unit
        BY <1>1, <4>1
      <4> QED
        BY <3>1, <4>2, CandidateUnits
    <3>2. CASE VarOf(units[m].lit) \in assumed
      BY <1>1, <3>2, CandidateUnits
    <3> QED
      BY <1>3, <3>1, <3>2
  <2> QED
    BY <1>1, <1>3, <2>1, OpposedUnit
<1>4. ASSUME NEW n \in 1..N, units[n].clause # 0, VarOf(units[n].lit) \notin assumed
      PROVE  units[n].lit \notin Negated(ToSet(C)) /\ -units[n].lit \notin Negated(ToSet(C))
  <2>1. VarOf(units[n].lit) \notin Vars(ToSet(C))
    BY <1>4, CandidateUnits
  <2> QED
    BY <1>2, <2>1, NegatedLits
<1>5. \A m \in 1..N : ~(m < 1)
  OBVIOUS
<1> QED
  BY <1>3, <1>4, <1>5 DEF Given

LEMMA CandidateIs ==
  ASSUME ForwardInv, up_state # "GLOBAL_UP"
  PROVE  Candidate \in Seq(Lit) /\ Proper(Candidate)
<1>1. loaded + 1 = Len(clauses) /\ loaded \in Nat
  BY Facts DEF Control
<1>2. Len(clauses) \in 1..Len(clauses)
  BY <1>1
<1> QED
  BY <1>2, Facts DEF Candidate

LEMMA OpposedUnits ==
  ASSUME TrailExact, NEW C, Opposed(C), NEW m \in 1..Len(units)
  PROVE  units[m].lit \notin ToSet(C)
<1>1. units[m].lit \in alpha
  BY DEF TrailExact
<1> QED
  BY <1>1 DEF Opposed

LEMMA RefuteCandidateHints ==
  ASSUME ForwardInv, HintInv, RefuteCandidate
  PROVE  HintInv'
<1>1. /\ pc = "falsified" /\ up_state = "CANDIDATE_UP" /\ pc' = "refuted"
      /\ hints' = RefutationHints(falsified) /\ rat_hints' = << >>
      /\ UNCHANGED <<clauses, loaded, deleted, alphaVars, levelVars, derived_empty_clause>>
  BY DEF RefuteCandidate, StoreRefutation, upVars, lineVars
<1> PICK live, bare, C, f : live = Live /\ bare = Bare /\ C = Candidate /\ f = falsified
  OBVIOUS
<1> PICK A : A = Negated(ToSet(C))
  OBVIOUS
<1> PICK N \in Nat : N = Len(units)
  BY Facts
<1>2. /\ f \in live /\ marks = {} /\ Derives
      /\ (AllFalse(f) /\ Opposed(C)) \/ FirstImplied(C)
  BY <1>1 DEF HintInv, ConflictHolds, MarksNone
<1>3. TrailInv(live, bare, C) /\ C \in Seq(Lit) /\ Proper(clauses[f])
  <2>1. TrailInv(live, bare, C)
    BY DEF ForwardInv
  <2> QED
    BY <1>1, <1>2, <2>1, CandidateIs, ClauseTypes
<1>4. TrailTypes /\ TrailExact /\ RAT_marked = {} /\ A \in SUBSET Lit
  BY <1>1, <1>3, NegatedLits DEF TrailInv, Levels
<1> PICK M : M = SetByUnits(f, 1, assumed)
  OBVIOUS
<1>5. \A n \in 1..N : VarOf(units[n].lit) \in M =>
        units[n].clause # 0 /\ VarOf(units[n].lit) \notin assumed
  BY <1>4, SetUnits
<1>6. \E p \in Nat : /\ Given(A, M, MarkDependencies(M, 1), 1, p)
                     /\ FalseBefore(f, A, M, p)
  <2>1. CASE AllFalse(f) /\ Opposed(C)
    <3> PICK p \in Nat : p = N + 1
      OBVIOUS
    <3>1. \A n \in 1..N : n < p /\ units[n].lit \notin ToSet(C)
      BY <1>4, <2>1, OpposedUnits
    <3>2. Given(A, M, MarkDependencies(M, 1), 1, p)
      BY <1>1, <1>2, <1>3, <1>5, <3>1, CandidateGiven
    <3>3. FalseBefore(f, A, M, p)
      BY <1>3, <2>1, FalseUnit DEF FalseBefore
    <3> QED
      BY <3>2, <3>3
  <2>2. CASE FirstImplied(C)
    <3>1. PICK p \in 1..N : /\ units[p].clause = f /\ units[p].lit \in ToSet(C)
                           /\ \A m \in 1..p - 1 : units[m].lit \notin ToSet(C)
      BY <2>2 DEF FirstImplied
    <3>2. p \in Nat /\ \A m \in 1..N : m < p => m \in 1..p - 1
      OBVIOUS
    <3>3. f # 0
      BY <1>2, <1>3, ClauseTypes
    <3>4. Reason(p, live)
      BY <1>3, <3>1, <3>3 DEF TrailInv, ReasonsHold
    <3>5. /\ clauses[f][1] = units[p].lit /\ Len(clauses[f]) \in Nat
          /\ \A k \in 2..Len(clauses[f]) :
               clauses[f][k] \in Lit /\ \E m \in 1..p - 1 : units[m].lit = -clauses[f][k]
      BY <1>3, <3>1, <3>4, ReasonLits, ProperFacts DEF Reason
    <3>6. \A k \in 1..Len(clauses[f]) : k = 1 \/ k \in 2..Len(clauses[f])
      BY <3>5
    <3>7. VarOf(units[p].lit) \in assumed
      <4>1. VarOf(units[p].lit) \in Vars(ToSet(C))
        BY <3>1 DEF Vars
      <4> QED
        BY <1>1, <1>3, <3>1, <3>3, <4>1, CandidateUnits
    <3>8. ASSUME NEW n \in 1..N, VarOf(units[n].lit) \in M PROVE n < p
      <4>1. PICK k \in 1..Len(clauses[f]) : VarOf(units[n].lit) = VarOf(clauses[f][k])
        BY <3>8 DEF SetByUnits, Vars
      <4>2. k # 1
        BY <1>5, <3>5, <3>7, <3>8, <4>1
      <4>3. k \in 2..Len(clauses[f])
        BY <3>6, <4>2
      <4>4. PICK m \in 1..p - 1 : units[m].lit = -clauses[f][k]
        BY <3>5, <4>3
      <4>5. VarOf(units[m].lit) = VarOf(units[n].lit) /\ m \in 1..N
        BY <3>5, <4>1, <4>3, <4>4, LitFacts
      <4>6. m = n
        BY <1>4, <4>5 DEF TrailExact
      <4> QED
        BY <4>4, <4>6
    <3>9. Given(A, M, MarkDependencies(M, 1), 1, p)
      BY <1>1, <1>2, <1>3, <1>5, <3>1, <3>2, <3>8, CandidateGiven
    <3>10. ASSUME NEW l \in ToSet(clauses[f])
           PROVE  -l \in A \/ \E m \in 1..N : m < p /\ units[m].lit = -l
      <4>1. PICK k \in 1..Len(clauses[f]) : l = clauses[f][k]
        BY <1>3 DEF ToSet, Proper
      <4>2. CASE k = 1
        BY <1>3, <3>1, <3>5, <4>1, <4>2, NegatedLits
      <4>3. CASE k \in 2..Len(clauses[f])
        <5>1. PICK m \in 1..p - 1 : units[m].lit = -l
          BY <3>5, <4>1, <4>3
        <5>2. m \in 1..N /\ m < p
          OBVIOUS
        <5> QED
          BY <5>1, <5>2
      <4> QED
        BY <3>6, <4>2, <4>3
    <3>11. FalseBefore(f, A, M, p)
      BY <3>10 DEF FalseBefore
    <3> QED
      BY <3>2, <3>9, <3>11
  <2> QED
    BY <1>2, <2>1, <2>2
<1>7. Refutes(DbOf(live), A, RefutationHints(f))
  <2>1. PICK p \in Nat : Given(A, M, MarkDependencies(M, 1), 1, p) /\ FalseBefore(f, A, M, p)
    BY <1>6
  <2>2. 1 \in Nat \ {0} /\ 1 <= N + 1
    OBVIOUS
  <2>3. Refutes(DbOf(live), A, Append(MarkedReasons(MarkDependencies(M, 1), 1), f))
    BY <1>2, <1>3, <1>4, <2>1, <2>2, MarksRefute
  <2>4. marks \cup SetByUnits(f, 1, assumed) = M
    BY <1>2
  <2> QED
    BY <2>3, <2>4 DEF RefutationHints, RefutationMarks
<1>8. ~derived_empty_clause /\ up_state' = "CANDIDATE_UP"
  BY <1>1 DEF ForwardInv, Control, levelVars
<1>9. DbOf(Live)' = DbOf(live) /\ Candidate' = C
  BY <1>1 DEF DbOf, Live, Candidate
<1>10. HintsRefute'
  <2>1. [c \in Live |-> ToSet(clauses[c])]' = DbOf(live)
    BY <1>9 DEF DbOf
  <2> QED
    BY <1>1, <1>7, <1>8, <1>9, <2>1 DEF HintsRefute
<1>11. HintTypes' /\ Derives'
  BY <1>1, <1>2 DEF HintTypes, Derives, levelVars, alphaVars
<1>12. ConflictHolds' /\ CandidateHolds' /\ MarksNone' /\ ImageHeld' /\ ReducedHolds'
  BY <1>1, <1>8 DEF ConflictHolds, CandidateHolds, MarksNone, ImageHeld, ReducedHolds
<1> QED
  BY <1>10, <1>11, <1>12 DEF HintInv

(***************************************************************************)
(* The negation of the candidate assumed.                                   *)
(***************************************************************************)
LEMMA ReadHints ==
  ASSUME ForwardInv, HintInv, ReadAddition
  PROVE  HintInv'
<1> PICK live, bare, C0 : live = Live /\ bare = Bare /\ C0 = Candidate
  OBVIOUS
<1>1. PICK C \in Candidates :
        /\ clauses' = Append(clauses, C) /\ AssumeCandidate(C)
        /\ IF RefutingClause(C) = 0
           THEN StartUp(candidate_assumed', "up") /\ UNCHANGED falsified
           ELSE pc' = "falsified" /\ falsified' = RefutingClause(C) /\ UNCHANGED <<i, j>>
  BY DEF ReadAddition
<1>2. /\ pc = "read" /\ marks' = {} /\ rat_hints' = << >>
      /\ UNCHANGED <<loaded, derived_empty_clause, deleted>>
  BY DEF ReadAddition
<1>3. /\ TrailInv(live, bare, C0) /\ up_state = "GLOBAL_UP" /\ ~derived_empty_clause
  BY <1>2 DEF ForwardInv, Control
<1> PICK N \in Nat : N = Len(units)
  BY Facts
<1>4. /\ TrailTypes /\ TrailExact /\ ReasonsHold(live)
      /\ \A n \in 1..N : units[n].clause # 0
  BY <1>3 DEF TrailInv, Levels
<1>5. /\ C \in Seq(Lit) /\ Proper(C) /\ Len(C) \in Nat
      /\ \A k \in 1..Len(C) : C[k] \in Lit
      /\ \A k, m \in 1..Len(C) : VarOf(C[k]) = VarOf(C[m]) => k = m
      /\ \A k, m \in 1..Len(C) : C[k] = C[m] \/ C[k] = -C[m] => k = m
  BY DsrForwardAssumption, ProperFacts DEF Proper
<1>6. Candidate' = C /\ Live' = live
  <2>1. clauses \in Seq(Seq(Lit))
    BY Facts
  <2>2. clauses'[Len(clauses')] = C
    BY <1>1, <1>5, <2>1
  <2> QED
    BY <1>2, <2>2 DEF Candidate, Live
<1> PICK open : open = {k \in 1..Len(C) : Unassigned(C[k])}
  OBVIOUS
<1>7. /\ AssumeUnits(C, open) /\ up_state' = "CANDIDATE_UP"
      /\ candidate_unit' = Len(units') + 1
  <2>1. open = {k \in DOMAIN C : Unassigned(C[k])}
    BY <1>5
  <2> QED
    BY <1>1, <2>1 DEF AssumeCandidate
<1>8. /\ Len(units') \in Nat /\ N <= Len(units')
      /\ \A n \in 1..N : units'[n] = units[n]
  BY <1>4, <1>5, <1>7, UnitsAssumed
<1>9. HintTypes' /\ MarksNone' /\ ImageHeld'
  BY <1>2, <1>7 DEF HintTypes, MarksNone, ImageHeld
<1>10. pc' \in {"up", "falsified"}
  BY <1>1 DEF StartUp
<1>11. ReducedHolds' /\ HintsRefute'
  BY <1>2, <1>3, <1>7, <1>10 DEF ReducedHolds, HintsRefute
<1>12. Derives'
  <2>1. \A n \in 1..Len(units') : ~(candidate_unit' <= n)
    BY <1>7, <1>8
  <2> QED
    BY <1>7, <2>1 DEF Derives
<1> PICK implied : implied = {vars_unit_indexes[VarOf(l)] : l \in ToSet(C) \cap alpha}
  OBVIOUS
<1>13. RefutingClause(C) = IF implied = {} THEN 0
                           ELSE units[CHOOSE k \in implied : \A m \in implied : k <= m].clause
  BY DEF RefutingClause
<1>14. \A n \in 1..N : units[n].lit \in ToSet(C) => n \in implied
  <2> SUFFICES ASSUME NEW n \in 1..N, units[n].lit \in ToSet(C) PROVE n \in implied
    OBVIOUS
  <2>1. units[n].lit \in alpha /\ vars_unit_indexes[VarOf(units[n].lit)] = n
    BY <1>4 DEF TrailExact
  <2> QED
    BY <2>1
<1>15. \A k \in implied : k \in 1..N /\ units[k].lit \in ToSet(C)
  <2> SUFFICES ASSUME NEW l \in ToSet(C) \cap alpha
               PROVE  /\ vars_unit_indexes[VarOf(l)] \in 1..N
                      /\ units[vars_unit_indexes[VarOf(l)]].lit \in ToSet(C)
    OBVIOUS
  <2>1. PICK n \in 1..N : units[n].lit = l
    BY <1>4 DEF TrailExact
  <2>2. vars_unit_indexes[VarOf(l)] = n
    BY <1>4, <2>1 DEF TrailExact
  <2> QED
    BY <2>1, <2>2
<1>16. CASE implied = {}
  <2>1. pc' = "up"
    BY <1>1, <1>13, <1>16 DEF StartUp
  <2>2. ToSet(C) \cap alpha = {}
    BY <1>16
  <2>3. alpha' = alpha \cup {-C[k] : k \in open}
    BY <1>7 DEF AssumeUnits
  <2>4. ASSUME NEW k \in open PROVE -C[k] \notin ToSet(C)
    <3>1. k \in 1..Len(C)
      OBVIOUS
    <3>2. ASSUME NEW m \in 1..Len(C), C[m] = -C[k] PROVE FALSE
      <4>1. m = k
        BY <1>5, <3>1, <3>2
      <4> QED
        BY <1>5, <3>1, <3>2, <4>1, LitFacts
    <3> QED
      BY <1>5, <3>2 DEF ToSet
  <2>5. Opposed(C)'
    BY <2>2, <2>3, <2>4 DEF Opposed
  <2>6. CandidateHolds' /\ ConflictHolds'
    BY <1>6, <2>1, <2>5 DEF CandidateHolds, ConflictHolds, Opposed
  <2> QED
    BY <1>9, <1>11, <1>12, <2>6 DEF HintInv
<1>17. CASE implied # {}
  <2> PICK p : p = CHOOSE k \in implied : \A m \in implied : k <= m
    OBVIOUS
  <2>1. implied \subseteq Nat
    BY <1>15
  <2>2. p \in implied /\ \A m \in implied : p <= m
    BY <1>17, <2>1, FirstPlace
  <2>3. p \in 1..N /\ units[p].lit \in ToSet(C) /\ RefutingClause(C) = units[p].clause
    BY <1>13, <1>15, <1>17, <2>2
  <2>4. units[p].clause \in live /\ units[p].clause # 0
    BY <1>4, <2>3 DEF ReasonsHold, Reason
  <2>5. pc' = "falsified" /\ falsified' = units[p].clause
    BY <1>1, <2>3, <2>4
  <2>6. ASSUME NEW m \in 1..p - 1 PROVE units'[m].lit \notin ToSet(C)
    <3>1. m \in 1..N /\ ~(p <= m)
      BY <2>3
    <3>2. m \notin implied
      BY <2>2, <3>1
    <3> QED
      BY <1>8, <1>14, <3>1, <3>2
  <2>7. p \in 1..Len(units') /\ units'[p] = units[p]
    BY <1>8, <2>3
  <2>8. FirstImplied(C)'
    BY <2>3, <2>5, <2>6, <2>7 DEF FirstImplied
  <2>9. ConflictHolds' /\ CandidateHolds'
    BY <1>6, <1>7, <2>4, <2>5, <2>8 DEF ConflictHolds, CandidateHolds, FirstImplied
  <2> QED
    BY <1>9, <1>11, <1>12, <2>9 DEF HintInv
<1> QED
  BY <1>16, <1>17

(***************************************************************************)
(* The images.                                                              *)
(***************************************************************************)
(* What an image is when its negation is assumed.                            *)
LEMMA ImageMade ==
  ASSUME TrailTypes, TrailExact, NEW D \in Seq(Lit), AssumeImage(D)
  PROVE  /\ ImageFalse(D)'
         /\ Len(units') \in Nat /\ Len(units) <= Len(units')
         /\ \A n \in 1..Len(units) : units'[n] = units[n]
         /\ alpha \subseteq alpha'
         /\ \A l \in alpha' : l \in alpha \/ \E m \in Lit : Unassigned(m) /\ l = -m
<1> PICK N \in Nat : N = Len(units)
  BY UnitTypes
<1>1. PICK open \in SUBSET (1..Len(D)) :
         /\ \A k \in open : Unassigned(D[k])
         /\ \A n \in 1..Len(D) : Unassigned(D[n]) => \E k \in open : D[k] = D[n]
         /\ \A k, m \in open : VarOf(D[k]) = VarOf(D[m]) => k = m
         /\ AssumeUnits(D, open)
  BY ImageOpen
<1>2. /\ ToSet(D) \cap alpha = {} /\ RAT_marked' = FalseByUnits(D)
      /\ RAT_assumed' = N + 1 /\ RAT_unit' = Len(units') + 1
  BY DEF AssumeImage
<1>3. /\ Len(units') \in Nat /\ N <= Len(units')
      /\ \A n \in 1..N : units'[n] = units[n]
      /\ \A n \in 1..Len(units') : n > N => \E k \in open : units'[n].lit = -D[k]
  BY <1>1, UnitsAssumed
<1>4. alpha' = alpha \cup {-D[k] : k \in open}
  BY <1>1 DEF AssumeUnits
<1>5. \A k \in 1..Len(D) : D[k] \in ToSet(D) /\ D[k] \in Lit
  BY VarsOf
<1>6. ASSUME NEW l \in ToSet(D) PROVE -l \in alpha'
  <2>1. PICK n \in 1..Len(D) : D[n] = l
    BY DEF ToSet
  <2>2. CASE IsFalse(l)
    BY <1>4, <2>2 DEF IsFalse
  <2>3. CASE ~IsFalse(l)
    <3>1. Unassigned(l)
      BY <1>2, <2>3 DEF Unassigned, IsTrue
    <3>2. PICK k \in open : D[k] = D[n]
      BY <1>1, <2>1, <3>1
    <3> QED
      BY <1>4, <2>1, <3>2
  <2> QED
    BY <2>2, <2>3
<1>7. RAT_marked' \subseteq Vars(ToSet(D))
  BY <1>2 DEF FalseByUnits, Vars
<1>8. ASSUME NEW n \in 1..Len(units')
      PROVE  /\ RAT_assumed' <= n => units'[n].lit \in Negated(ToSet(D))
             /\ ~(RAT_unit' <= n)
  <2>1. ~(RAT_unit' <= n)
    BY <1>2, <1>3
  <2>2. ASSUME RAT_assumed' <= n PROVE units'[n].lit \in Negated(ToSet(D))
    <3>1. n > N
      BY <1>2, <2>2
    <3>2. PICK k \in open : units'[n].lit = -D[k]
      BY <1>3, <3>1
    <3> QED
      BY <1>5, <3>2 DEF Negated
  <2> QED
    BY <2>1, <2>2
<1>9. ImageFalse(D)'
  BY <1>2, <1>3, <1>6, <1>7, <1>8 DEF ImageFalse
<1>10. \A l \in alpha' : l \in alpha \/ \E m \in Lit : Unassigned(m) /\ l = -m
  BY <1>1, <1>4, <1>5
<1> QED
  BY <1>3, <1>4, <1>9, <1>10

(* The variables of the candidate are all assigned.                          *)
LEMMA CandidateAssigned ==
  ASSUME NEW live, NEW bare, NEW C, TrailInv(live, bare, C), up_state # "GLOBAL_UP",
         NEW m \in Lit, Unassigned(m)
  PROVE  m \notin ToSet(C) /\ -m \notin ToSet(C)
<1>1. TrailTypes /\ TrailExact /\ CandidateLevel(C)
  BY DEF TrailInv, Levels
<1>2. \A n \in 1..Len(units) : VarOf(units[n].lit) # VarOf(m)
  BY <1>1, NoIndex
<1>3. VarOf(m) \notin Vars(ToSet(C))
  BY <1>1, <1>2 DEF CandidateLevel
<1>4. VarOf(-m) = VarOf(m)
  BY LitFacts
<1> QED
  BY <1>3, <1>4 DEF Vars

LEMMA CheckHints ==
  ASSUME ForwardInv, HintInv, CheckImage
  PROVE  HintInv'
<1> PICK live, bare, C : live = Live /\ bare = Bare /\ C = Candidate
  OBVIOUS
<1>1. PICK D \in Images : AssumeImage(D) /\ rat_hints' = Append(rat_hints, Group(D, << >>))
  BY DEF CheckImage
<1>2. /\ pc = "rat" /\ pc' = "up"
      /\ UNCHANGED <<clauses, loaded, deleted, candidate_unit, marks, derived_empty_clause>>
  BY DEF CheckImage, Reducing, StartUp, lineVars
<1> PICK N \in Nat : N = Len(units)
  BY Facts
<1>3. /\ TrailInv(live, bare, C) /\ TrailTypes /\ TrailExact /\ up_state = "CANDIDATE_UP"
      /\ ~derived_empty_clause /\ candidate_unit \in Nat
  BY <1>2 DEF ForwardInv, Control, TrailInv, TrailTypes
<1>4. D \in Seq(Lit)
  BY DsrForwardAssumption
<1>5. /\ ImageFalse(D)' /\ Len(units') \in Nat /\ N <= Len(units')
      /\ \A n \in 1..N : units'[n] = units[n]
      /\ \A l \in alpha' : l \in alpha \/ \E m \in Lit : Unassigned(m) /\ l = -m
  BY <1>1, <1>3, <1>4, ImageMade
<1>6. up_state' = "RAT_UP" /\ RAT_assumed' = N + 1 /\ RAT_unit' = Len(units') + 1
  BY <1>1 DEF AssumeImage
<1>7. Candidate' = C /\ Live' = live /\ DbOf(Live)' = DbOf(Live)
  BY <1>2 DEF Candidate, Live, DbOf
<1>8. /\ rat_hints \in Seq(GroupType) /\ Group(D, << >>) \in GroupType
      /\ Group(D, << >>).clause = D /\ Len(rat_hints) \in Nat
  <2>1. << >> \in Seq(Nat)
    OBVIOUS
  <2>2. Group(D, << >>) \in GroupType /\ Group(D, << >>).clause = D
    BY ONLY <1>4, <2>1, GroupMade
  <2> QED
    BY <2>2, Groups DEF HintInv, HintTypes
<1>9. /\ rat_hints' \in Seq(GroupType) /\ Len(rat_hints') = Len(rat_hints) + 1
      /\ rat_hints'[Len(rat_hints')] = Group(D, << >>) /\ rat_hints' # << >>
      /\ \A k \in 1..Len(rat_hints) : rat_hints'[k] = rat_hints[k]
  BY ONLY <1>1, <1>8, GroupAdded
<1>10. HintTypes' /\ ConflictHolds' /\ MarksNone'
  BY <1>2, <1>6, <1>9 DEF HintTypes, ConflictHolds, MarksNone
<1>11. CandidateHolds'
  <2>1. \A l \in alpha : l \notin ToSet(C)
    BY <1>2, <1>3 DEF HintInv, CandidateHolds, Opposed
  <2>2. \A m \in Lit : Unassigned(m) => -m \notin ToSet(C)
    BY <1>3, CandidateAssigned
  <2>3. Opposed(C)'
    BY <1>5, <2>1, <2>2 DEF Opposed
  <2> QED
    BY <1>7, <2>3 DEF CandidateHolds, Opposed
<1>12. Derives'
  <2>1. \A n \in 1..N : candidate_unit <= n => units[n].clause # 0
    BY <1>3 DEF HintInv, Derives
  <2>2. ASSUME NEW n \in 1..Len(units'),
               (candidate_unit' <= n /\ n < RAT_assumed') \/ RAT_unit' <= n
        PROVE  units'[n].clause # 0
    <3>1. n \in 1..N /\ candidate_unit <= n
      BY <1>2, <1>5, <1>6, <2>2
    <3> QED
      BY <1>5, <2>1, <3>1
  <2> QED
    BY <1>6, <2>2 DEF Derives
<1>13. ImageHeld'
  <2>1. rat_hints'[Len(rat_hints')].clause = D
    BY <1>8, <1>9
  <2> QED
    BY <1>5, <1>9, <2>1 DEF ImageHeld, ImageFalse
<1>14. ReducedHolds'
  <2> PICK M, E, H : M = marks /\ E = N /\ H = rat_hints
    OBVIOUS
  <2>1. /\ End' = E /\ End = E /\ Done = Len(H) /\ Done' = Len(H) /\ marks' = M
    BY <1>2, <1>3, <1>6, <1>8, <1>9 DEF End, Done
  <2>2. MarksHold(M, E) /\ \A k \in 1..Len(H) : GroupHolds(H[k], M, E)
    BY <1>2, <2>1 DEF HintInv, ReducedHolds
  <2>3. \A k \in 1..Len(H) : GroupHolds(H[k], M, E)'
    BY <1>5, <1>7, <2>2, GroupKept
  <2>4. MarksHold(M, E)'
    BY <1>5, <1>7, <2>2 DEF MarksHold
  <2> QED
    BY <1>9, <2>1, <2>3, <2>4 DEF ReducedHolds, MarksHold, GroupHolds, Base
<1>15. HintsRefute'
  BY <1>2, <1>3 DEF HintsRefute
<1> QED
  BY <1>10, <1>11, <1>12, <1>13, <1>14, <1>15 DEF HintInv

LEMMA CandidateFalse ==
  ASSUME NEW live, NEW bare, NEW C \in Seq(Lit), TrailInv(live, bare, C),
         up_state # "GLOBAL_UP", Opposed(C)
  PROVE  \A l \in ToSet(C) :
           \E n \in 1..Len(units) : n < candidate_unit /\ units[n].lit = -l
<1>1. TrailTypes /\ TrailExact /\ CandidateLevel(C)
  BY DEF TrailInv, Levels
<1> SUFFICES ASSUME NEW l \in ToSet(C)
             PROVE  \E n \in 1..Len(units) : n < candidate_unit /\ units[n].lit = -l
  OBVIOUS
<1>2. VarOf(l) \in Vars(ToSet(C)) /\ l \in Lit
  BY VarsOf DEF Vars
<1>3. PICK n \in 1..Len(units) : n < candidate_unit /\ VarOf(units[n].lit) = VarOf(l)
  BY <1>1, <1>2 DEF CandidateLevel
<1>4. units[n].lit # l
  BY <1>1, OpposedUnits
<1>5. units[n].lit = -l
  BY <1>1, <1>2, <1>3, <1>4, UnitTypes, LitFacts
<1> QED
  BY <1>3, <1>5

(* The marks of a clause hold, at the candidate's level or at the image's.     *)
LEMMA MarkedFree ==
  ASSUME NEW live, NEW bare, NEW C, TrailInv(live, bare, C), up_state # "GLOBAL_UP",
         NEW n \in 1..Len(units), vars_unit_indexes[VarOf(units[n].lit)] > 0,
         VarOf(units[n].lit) \notin assumed
  PROVE  units[n].clause # 0 /\ VarOf(units[n].lit) \notin Vars(ToSet(C))
<1>1. units[n].clause # 0
  BY DEF TrailInv, TrailExact
<1> QED
  BY <1>1, CandidateUnits

(* An image that holds has a literal that the candidate makes true, or one     *)
(* whose clause is cited and so is marked itself.                            *)
LEMMA ImageTrue ==
  ASSUME NEW live, NEW bare, NEW C \in Seq(Lit), TrailInv(live, bare, C),
         up_state = "CANDIDATE_UP", Derives, Opposed(C), NEW D \in Seq(Lit),
         NEW M, SatisfiedByAssumption(D) \/ (SatisfiedByUnit(D) /\ MarksOfSatisfied(D) \subseteq M),
         NEW B, \A l \in ToSet(C) : -l \in B,
         \A n \in 1..Len(units) : VarOf(units[n].lit) \in M => units[n].lit \in B
  PROVE  ToSet(D) \cap B # {} \/ Tautology(ToSet(D))
<1> PICK N \in Nat : N = Len(units)
  BY UnitTypes DEF TrailInv
<1>1. /\ TrailTypes /\ TrailExact /\ RAT_marked = {} /\ candidate_unit \in Nat
      /\ ReasonsHold(live)
  BY DEF TrailInv, Levels, TrailTypes
<1>2. Len(D) \in Nat /\ DOMAIN D = 1..Len(D) /\ \A k \in 1..Len(D) : D[k] \in ToSet(D) /\ D[k] \in Lit
  BY VarsOf
<1>3. CASE SatisfiedByAssumption(D)
  <2>1. PICK k \in 1..Len(D) :
          \/ -D[k] \in ToSet(SubSeq(D, 1, k - 1))
          \/ IsTrue(D[k]) /\ IsVarAssumedForUp(VarOf(D[k]))
    BY <1>3, Zenon DEF SatisfiedByAssumption
  <2>2. CASE -D[k] \in ToSet(SubSeq(D, 1, k - 1))
    <3>1. k - 1 \in Nat /\ k - 1 <= Len(D)
      BY <1>2
    <3>2. /\ SubSeq(D, 1, k - 1) \in Seq(Lit) /\ Len(SubSeq(D, 1, k - 1)) = k - 1
          /\ \A m \in 1..k - 1 : SubSeq(D, 1, k - 1)[m] = D[m]
      BY <3>1, Prefix
    <3>3. DOMAIN SubSeq(D, 1, k - 1) = 1..k - 1
      BY <3>2
    <3>4. PICK m \in 1..k - 1 : -D[k] = D[m]
      BY <2>2, <3>2, <3>3 DEF ToSet
    <3>5. m \in 1..Len(D)
      BY <1>2
    <3>6. -D[k] \in ToSet(D)
      BY <1>2, <3>4, <3>5
    <3> QED
      BY <1>2, <3>6 DEF Tautology
  <2>3. CASE IsTrue(D[k]) /\ IsVarAssumedForUp(VarOf(D[k]))
    <3>1. PICK m \in 1..N : units[m].lit = D[k]
      BY <1>1, <2>3 DEF TrailExact, IsTrue
    <3>2. units[m].clause = 0 \/ VarOf(units[m].lit) \in assumed
      <4>1. vars_unit_indexes[VarOf(units[m].lit)] = IF units[m].clause = 0 THEN 0 ELSE m
        BY <1>1 DEF TrailExact
      <4> QED
        BY <2>3, <3>1, <4>1 DEF IsVarAssumedForUp
    <3>3. VarOf(units[m].lit) \in Vars(ToSet(C))
      <4>1. CASE units[m].clause = 0
        <5>1. ~(candidate_unit <= m)
          BY <4>1 DEF Derives
        <5>2. m < candidate_unit
          BY <1>1, <5>1
        <5> QED
          BY <4>1, <5>2, CandidateUnits
      <4>2. CASE VarOf(units[m].lit) \in assumed
        BY <1>1, <4>2, CandidateUnits
      <4> QED
        BY <3>2, <4>1, <4>2
    <3>4. units[m].lit \in Negated(ToSet(C))
      BY <1>1, <3>3, OpposedUnit, OpposedUnits
    <3>5. D[k] \in B
      BY <3>1, <3>4 DEF Negated
    <3> QED
      BY <1>2, <3>5
  <2> QED
    BY <2>1, <2>2, <2>3
<1>4. CASE SatisfiedByUnit(D) /\ MarksOfSatisfied(D) \subseteq M
  <2> PICK k : k = SelectInSeq(D, IsTrue)
    OBVIOUS
  <2>1. k \in 1..Len(D) /\ IsTrue(D[k])
    <3> DEFINE I == {n \in 1..Len(D) : IsTrue(D[n])}
    <3>1. k = IF I # {} THEN Min(I) ELSE 0
      BY DEF SelectInSeq
    <3>2. PICK l \in ToSet(D) : IsTrue(l)
      BY <1>4 DEF SatisfiedByUnit
    <3>3. PICK n \in 1..Len(D) : D[n] = l
      BY DEF ToSet
    <3>4. I # {} /\ I \in SUBSET Nat
      BY <3>2, <3>3
    <3> HIDE DEF I
    <3>5. Min(I) \in I
      BY <3>4, MinExists
    <3> QED
      BY <3>1, <3>4, <3>5 DEF I
  <2> PICK v : v = VarOf(D[k])
    OBVIOUS
  <2>2. PICK m \in 1..N : units[m].lit = D[k]
    BY <1>1, <2>1 DEF TrailExact, IsTrue
  <2>3. ~IsVarAssumedForUp(v)
    BY <1>2, <1>4, <2>1 DEF SatisfiedByUnit, SatisfiedByAssumption
  <2>4. vars_unit_indexes[v] = m /\ units[m].clause # 0 /\ v \notin assumed /\ m > 0
    <3>1. vars_unit_indexes[v] = IF units[m].clause = 0 THEN 0 ELSE m
      BY <1>1, <2>2 DEF TrailExact
    <3> QED
      BY <2>3, <3>1 DEF IsVarAssumedForUp
  <2>5. CASE v \in FalseByUnits(D)
    <3>1. PICK l \in ToSet(D) : IsFalse(l) /\ VarOf(l) = v
      BY <2>5 DEF FalseByUnits, Vars
    <3>2. l \in Lit /\ D[k] \in Lit /\ -D[k] \notin alpha
      BY <1>1, <1>2, <2>1, VarsOf, Consistent DEF IsTrue
    <3>3. l = D[k] \/ l = -D[k]
      BY <3>1, <3>2, LitFacts
    <3>4. l = -D[k]
      BY <3>1, <3>2, <3>3 DEF IsFalse
    <3> QED
      BY <1>2, <2>1, <3>4 DEF Tautology
  <2>6. CASE v \notin FalseByUnits(D)
    <3> PICK c : c = units[m].clause
      OBVIOUS
    <3>1. Reason(m, live)
      BY <1>1, <2>4 DEF ReasonsHold
    <3>2. clauses[c][1] = D[k] /\ 1 \in 1..Len(clauses[c])
      <4>1. Proper(clauses[c]) /\ Len(clauses[c]) >= 1
        BY <3>1, ReasonLits DEF Reason
      <4>2. Len(clauses[c]) \in Nat
        BY <4>1, ProperFacts
      <4> QED
        BY <2>2, <3>1, <4>1, <4>2 DEF Reason
    <3>3. v \in SetByUnits(c, 1, assumed \cup FalseByUnits(D))
      BY <2>4, <2>6, <3>2 DEF SetByUnits, Vars
    <3>4. ReasonOf(v) = c
      BY <2>4 DEF ReasonOf
    <3>5. v \in M
      BY <1>4, <3>3, <3>4 DEF MarksOfSatisfied
    <3>6. D[k] \in B
      BY <2>2, <3>5
    <3> QED
      BY <1>2, <2>1, <3>6
  <2> QED
    BY <2>5, <2>6
<1> QED
  BY <1>3, <1>4

LEMMA ImageHoldsHints ==
  ASSUME ForwardInv, HintInv, ImageHolds
  PROVE  HintInv'
<1> PICK live, bare, C : live = Live /\ bare = Bare /\ C = Candidate
  OBVIOUS
<1> PICK M, M2 : M = marks /\ M2 = marks'
  OBVIOUS
<1>1. PICK D \in Images :
        /\ \/ SatisfiedByAssumption(D) /\ M2 = M
           \/ SatisfiedByUnit(D) /\ M2 = M \cup MarksOfSatisfied(D)
        /\ rat_hints' = Append(rat_hints, Group(D, << >>))
  BY DEF ImageHolds
<1>2. /\ pc = "rat" /\ pc' = "rat"
      /\ UNCHANGED <<clauses, loaded, deleted, alphaVars, levelVars, markVars, derived_empty_clause>>
  BY DEF ImageHolds, Reducing, upVars, lineVars
<1>3. /\ UNCHANGED <<alpha, units, vars_unit_indexes, up_state, candidate_unit>>
      /\ UNCHANGED <<RAT_assumed, RAT_unit, assumed>>
  BY <1>2 DEF alphaVars, levelVars, markVars
<1> PICK N \in Nat : N = Len(units)
  BY Facts
<1>4. /\ TrailInv(live, bare, C) /\ TrailTypes /\ TrailExact /\ up_state = "CANDIDATE_UP"
      /\ ~derived_empty_clause /\ C \in Seq(Lit)
  BY <1>2, CandidateIs DEF ForwardInv, Control, TrailInv
<1>5. D \in Seq(Lit)
  BY DsrForwardAssumption
<1>6. Candidate' = C /\ Live' = live /\ DbOf(Live)' = DbOf(Live)
  BY <1>2 DEF Candidate, Live, DbOf
<1>7. Opposed(C) /\ Derives
  BY <1>2, <1>4 DEF HintInv, CandidateHolds
<1>8. /\ rat_hints \in Seq(GroupType) /\ Len(rat_hints) \in Nat
      /\ \E g \in GroupType : g.clause = D /\ rat_hints' = Append(rat_hints, g)
  <2>1. << >> \in Seq(Nat)
    OBVIOUS
  <2>2. Group(D, << >>) \in GroupType /\ Group(D, << >>).clause = D
    BY ONLY <1>5, <2>1, GroupMade
  <2> QED
    BY <1>1, <2>2, Groups DEF HintInv, HintTypes
<1> PICK g \in GroupType : g.clause = D /\ rat_hints' = Append(rat_hints, g)
  BY <1>8
<1> PICK G, H : G = GroupType /\ H = rat_hints
  OBVIOUS
<1>9. /\ rat_hints' \in Seq(GroupType) /\ Len(rat_hints') = Len(H) + 1 /\ Len(H) \in Nat
      /\ rat_hints'[Len(H) + 1] = g /\ \A k \in 1..Len(H) : rat_hints'[k] = H[k]
      /\ \A k \in 1..Len(H) + 1 : k \in 1..Len(H) \/ k = Len(H) + 1
  <2>1. H \in Seq(G) /\ g \in G /\ rat_hints' = Append(H, g)
    BY <1>8
  <2> QED
    BY <2>1, GroupAdded
<1>10. HintTypes' /\ ConflictHolds' /\ MarksNone'
  BY <1>2, <1>9 DEF HintTypes, ConflictHolds, MarksNone
<1>11. CandidateHolds' /\ Derives' /\ ImageHeld' /\ HintsRefute'
  BY <1>2, <1>3, <1>4, <1>6, <1>7
     DEF CandidateHolds, Opposed, Derives, ImageHeld, HintsRefute
<1>12. ReducedHolds'
  <2> PICK E : E = N
    OBVIOUS
  <2>1. /\ End' = E /\ End = E /\ Done = Len(H) /\ Done' = Len(H) + 1 /\ marks' = M2
    BY <1>3, <1>4, <1>9 DEF End, Done
  <2>2. MarksHold(M, E) /\ \A k \in 1..Len(H) : GroupHolds(H[k], M, E)
    BY <1>2, <2>1 DEF HintInv, ReducedHolds
  <2>3. M \subseteq M2
    BY <1>1
  <2>4. \A k \in 1..Len(H) : GroupHolds(H[k], M2, E)'
    BY <1>3, <1>6, <2>2, <2>3, GroupKept
  <2>5. MarksHold(M2, E)'
    <3> SUFFICES ASSUME NEW n \in 1..E, VarOf(units[n].lit) \in M2
                 PROVE  units[n].clause # 0 /\ VarOf(units[n].lit) \notin Vars(ToSet(C))
      BY <1>3, <1>6 DEF MarksHold
    <3>1. CASE VarOf(units[n].lit) \in M
      BY <2>2, <3>1 DEF MarksHold
    <3>2. CASE VarOf(units[n].lit) \notin M
      <4>1. VarOf(units[n].lit) \in MarksOfSatisfied(D)
        BY <1>1, <3>2
      <4>2. vars_unit_indexes[VarOf(units[n].lit)] > 0 /\ VarOf(units[n].lit) \notin assumed
        BY <4>1 DEF MarksOfSatisfied, SetByUnits
      <4> QED
        BY <1>4, <4>2, MarkedFree
    <3> QED
      BY <3>1, <3>2
  <2>6. GroupHolds(g, M2, E)'
    <3> SUFFICES ASSUME NEW B, Base(B, M2, E)'
                 PROVE  ImageRefuted(DbOf(Live)', B, ToSet(g.clause), g.hints)
      BY DEF GroupHolds
    <3>1. /\ \A l \in ToSet(C) : -l \in B
          /\ \A n \in 1..N : VarOf(units[n].lit) \in M2 => units[n].lit \in B
      BY <1>3, <1>6 DEF Base
    <3>2. SatisfiedByAssumption(D) \/ (SatisfiedByUnit(D) /\ MarksOfSatisfied(D) \subseteq M2)
      BY <1>1
    <3>3. ToSet(D) \cap B # {} \/ Tautology(ToSet(D))
      BY <1>4, <1>5, <1>7, <3>1, <3>2, ImageTrue
    <3> QED
      BY <3>3 DEF ImageRefuted
  <2> PICK H2 : H2 = rat_hints'
    OBVIOUS
  <2>7. ASSUME NEW k \in 1..Len(H) + 1 PROVE GroupHolds(H2[k], M2, E)'
    <3>1. CASE k \in 1..Len(H)
      <4>1. H2[k] = H[k] /\ GroupHolds(H[k], M2, E)'
        BY <1>9, <2>4, <3>1
      <4> QED
        BY <4>1 DEF GroupHolds, Base
    <3>2. CASE k = Len(H) + 1
      <4>1. H2[k] = g
        BY <1>9, <3>2
      <4> QED
        BY <2>6, <4>1 DEF GroupHolds, Base
    <3> QED
      BY <1>9, <3>1, <3>2
  <2> QED
    BY <2>1, <2>5, <2>7 DEF ReducedHolds, MarksHold, GroupHolds, Base
<1> QED
  BY <1>10, <1>11, <1>12 DEF HintInv

(***************************************************************************)
(* An image refuted.                                                        *)
(***************************************************************************)
LEMMA RoundGiven ==
  ASSUME NEW live, NEW bare, NEW C \in Seq(Lit), TrailInv(live, bare, C), C = Candidate,
         up_state = "RAT_UP", Derives, Opposed(C), NEW D \in Seq(Lit), ImageFalse(D),
         NEW p \in Nat, p = Len(units) + 1, NEW B, Base(B, RoundMarks, RAT_assumed - 1)
  PROVE  Given(B \cup Negated(ToSet(D)), SetByUnits(falsified, 1, assumed), RoundMarks,
               RAT_unit, p)
<1> PICK N \in Nat : N = Len(units)
  BY UnitTypes DEF TrailInv
<1> PICK R, S : R = RoundMarks /\ S = SetByUnits(falsified, 1, assumed)
  OBVIOUS
<1>1. /\ TrailTypes /\ TrailExact /\ candidate_unit \in Nat /\ RAT_assumed \in Nat
      /\ RAT_unit \in Nat
  BY DEF TrailInv, TrailTypes
<1>2. /\ \A l \in ToSet(D) : -l \in alpha
      /\ RAT_assumed <= RAT_unit /\ RAT_marked \subseteq Vars(ToSet(D))
      /\ \A n \in 1..N : /\ RAT_assumed <= n /\ n < RAT_unit => units[n].lit \in Negated(ToSet(D))
                         /\ RAT_unit <= n => VarOf(units[n].lit) \notin Vars(ToSet(D))
  BY DEF ImageFalse
<1>3. /\ \A b \in B : \E n \in 1..RAT_assumed - 1 : b = units[n].lit
      /\ \A l \in ToSet(C) : -l \in B
      /\ \A n \in 1..RAT_assumed - 1 : VarOf(units[n].lit) \in R => units[n].lit \in B
  BY DEF Base
<1>4. \A m \in 1..N : units[m].lit \in Lit /\ units[m].lit \in alpha
  BY <1>1, UnitTypes DEF TrailExact
<1>5. ASSUME NEW m \in 1..N, VarOf(units[m].lit) \in Vars(ToSet(C))
      PROVE  units[m].lit \in B
  <2>1. units[m].lit \in Negated(ToSet(C))
    BY <1>1, <1>5, OpposedUnit, OpposedUnits
  <2> QED
    BY <1>3, <2>1 DEF Negated
<1>6. ASSUME NEW m \in 1..N, VarOf(units[m].lit) \in Vars(ToSet(D))
      PROVE  units[m].lit \in Negated(ToSet(D))
  <2>1. units[m].lit \notin ToSet(D)
    <3>1. -units[m].lit \notin alpha
      BY <1>1, <1>4, Consistent
    <3> QED
      BY <1>2, <3>1
  <2> QED
    BY <1>1, <1>6, <2>1, OpposedUnit
<1>7. ASSUME NEW m \in 1..N, units[m].clause = 0 \/ VarOf(units[m].lit) \in assumed
      PROVE  units[m].lit \in B \cup Negated(ToSet(D))
  <2>1. CASE VarOf(units[m].lit) \in assumed
    <3>1. VarOf(units[m].lit) \in Vars(ToSet(C)) \/ VarOf(units[m].lit) \in Vars(ToSet(D))
      BY <1>2, <2>1, CandidateUnits
    <3> QED
      BY <1>5, <1>6, <3>1
  <2>2. CASE units[m].clause = 0
    <3>1. ~((candidate_unit <= m /\ m < RAT_assumed) \/ RAT_unit <= m)
      BY <2>2 DEF Derives
    <3>2. m < candidate_unit \/ (RAT_assumed <= m /\ m < RAT_unit)
      BY <1>1, <3>1
    <3>3. CASE m < candidate_unit
      <4>1. VarOf(units[m].lit) \in Vars(ToSet(C))
        BY <2>2, <3>3, CandidateUnits
      <4> QED
        BY <1>5, <4>1
    <3> QED
      BY <1>2, <3>2, <3>3
  <2> QED
    BY <1>7, <2>1, <2>2
<1>8. ASSUME NEW m \in 1..N, m < RAT_unit, VarOf(units[m].lit) \in R
      PROVE  units[m].lit \in B \cup Negated(ToSet(D))
  <2>1. m \in 1..RAT_assumed - 1 \/ RAT_assumed <= m
    BY <1>1
  <2> QED
    BY <1>2, <1>3, <1>8, <2>1
<1>9. ASSUME NEW n \in 1..N, RAT_unit <= n
      PROVE  /\ units[n].lit \notin B \cup Negated(ToSet(D))
             /\ -units[n].lit \notin B \cup Negated(ToSet(D))
  <2>1. units[n].lit \notin Negated(ToSet(D)) /\ -units[n].lit \notin Negated(ToSet(D))
    BY <1>2, <1>4, <1>9, NegatedLits
  <2>2. ASSUME NEW b \in B, b = units[n].lit \/ b = -units[n].lit PROVE FALSE
    <3>1. PICK k \in 1..RAT_assumed - 1 : b = units[k].lit
      BY <1>3
    <3>2. k \in 1..N /\ k < n
      BY <1>1, <1>2, <1>9
    <3>3. VarOf(units[k].lit) = VarOf(units[n].lit)
      BY <1>4, <2>2, <3>1, LitFacts
    <3> QED
      BY <1>1, <3>2, <3>3 DEF TrailExact
  <2> QED
    BY <2>1, <2>2
<1>10. \A n \in 1..N : VarOf(units[n].lit) \in S =>
         units[n].clause # 0 /\ VarOf(units[n].lit) \notin assumed
  BY <1>1, SetUnits
<1>11. \A n \in RAT_unit..N : n \in 1..N /\ RAT_unit <= n /\ n < p
  <2>1. RAT_unit >= 1
    BY DEF TrailInv, TrailTypes, Levels, CandidateLevel, ImageFalse
  <2> QED
    BY <1>1, <2>1
<1> QED
  BY ONLY <1>7, <1>8, <1>9, <1>10, <1>11, N = Len(units), R = RoundMarks,
          S = SetByUnits(falsified, 1, assumed) DEF Given

(* With the base of the marks there are, the hints of the round refute.       *)
LEMMA RoundRefutes ==
  ASSUME NEW live, NEW bare, NEW C \in Seq(Lit), TrailInv(live, bare, C), C = Candidate,
         up_state = "RAT_UP", Derives, Opposed(C), NEW D \in Seq(Lit), ImageFalse(D),
         falsified \in live, AllFalse(falsified),
         NEW B \in SUBSET Lit, Base(B, RoundMarks, RAT_assumed - 1)
  PROVE  /\ MarkedReasons(RoundMarks, RAT_unit) \in Seq(live)
         /\ Refutes(DbOf(live), B \cup Negated(ToSet(D)), RoundHints)
<1> PICK N \in Nat : N = Len(units)
  BY UnitTypes DEF TrailInv
<1> PICK f, a, S, A : /\ f = falsified /\ a = RAT_unit /\ S = SetByUnits(f, 1, assumed)
                      /\ A = B \cup Negated(ToSet(D))
  OBVIOUS
<1> PICK p \in Nat : p = N + 1
  OBVIOUS
<1>1. a \in Nat \ {0} /\ a <= N + 1
  BY DEF TrailInv, TrailTypes, Levels, CandidateLevel, ImageFalse
<1>2. A \in SUBSET Lit
  BY NegatedLits
<1>3. RoundMarks = MarkDependencies(S, a)
  BY DEF RoundMarks
<1>4. Given(A, S, MarkDependencies(S, a), a, p)
  BY <1>3, RoundGiven
<1>5. FalseBefore(f, A, S, p)
  BY FalseUnit DEF FalseBefore
<1>6. Refutes(DbOf(live), A, Append(MarkedReasons(MarkDependencies(S, a), a), f))
  BY <1>1, <1>2, <1>4, <1>5, MarksRefute
<1>7. Replayable(MarkDependencies(S, a), a, A)
  BY <1>1, <1>4, MarksReplay
<1>8. MarkedReasons(MarkDependencies(S, a), a) \in Seq(live)
  BY <1>1, <1>2, <1>7, Replay
<1> QED
  BY <1>3, <1>6, <1>8 DEF RoundHints

LEMMA SeqWithin ==
  ASSUME NEW S, NEW T, S \subseteq T, NEW s \in Seq(S)
  PROVE  s \in Seq(T)
OBVIOUS

(* What a round marks is derived, and cut at what is assumed.                 *)
LEMMA RoundSet ==
  ASSUME NEW live, NEW bare, NEW C, TrailInv(live, bare, C), up_state = "RAT_UP",
         NEW D, ImageFalse(D), NEW v \in RoundMarks
  PROVE  vars_unit_indexes[v] > 0 /\ v \notin assumed
<1> PICK N \in Nat : N = Len(units)
  BY UnitTypes DEF TrailInv
<1> PICK a, S : a = RAT_unit /\ S = SetByUnits(falsified, 1, assumed)
  OBVIOUS
<1>1. a \in Nat \ {0} /\ a <= N + 1
  BY DEF TrailInv, TrailTypes, Levels, CandidateLevel, ImageFalse
<1>2. \A w \in S : vars_unit_indexes[w] > 0 /\ w \notin assumed
  BY DEF SetByUnits
<1>3. \A n \in a..N : n \in 1..N
  BY <1>1
<1>4. \A n \in a..N : VarOf(units[n].lit) \in S => units[n].clause # 0
  BY <1>3, SetUnits DEF TrailInv
<1>5. v \in MarkDependencies(S, a)
  BY DEF RoundMarks
<1>6. v \in S \/ (v \in Var /\ vars_unit_indexes[v] > 0 /\ v \notin assumed)
  BY <1>1, <1>4, <1>5, Closed
<1> QED
  BY <1>2, <1>6

LEMMA RefuteImageHints ==
  ASSUME ForwardInv, HintInv, RefuteImage
  PROVE  HintInv'
<1> PICK live, bare, C, f : live = Live /\ bare = Bare /\ C = Candidate /\ f = falsified
  OBVIOUS
<1> PICK M, R, hs, H : M = marks /\ R = RoundMarks /\ hs = RoundHints /\ H = rat_hints
  OBVIOUS
<1>1. /\ pc = "falsified" /\ up_state = "RAT_UP" /\ pc' = "rat" /\ UndoImage
      /\ marks' = M \cup R /\ rat_hints' = [H EXCEPT ![Len(H)].hints = hs]
      /\ UNCHANGED <<clauses, loaded, deleted, candidate_unit, derived_empty_clause>>
  BY DEF RefuteImage, lineVars
<1> PICK N \in Nat : N = Len(units)
  BY Facts
<1>2. TrailInv(live, bare, C) /\ C \in Seq(Lit) /\ ~derived_empty_clause
  <2>1. TrailInv(live, bare, C)
    BY DEF ForwardInv
  <2> QED
    BY <1>1, <2>1, CandidateIs DEF ForwardInv, Control
<1>3. /\ TrailTypes /\ TrailExact /\ candidate_unit \in Nat
      /\ RAT_assumed \in Nat /\ candidate_unit <= RAT_assumed
      /\ 1 <= RAT_assumed /\ RAT_assumed <= N + 1
  <2>1. TrailTypes /\ TrailExact /\ CandidateLevel(C) /\ candidate_unit <= RAT_assumed
    BY <1>1, <1>2 DEF TrailInv, Levels
  <2>2. RAT_assumed <= N + 1
    BY <1>1, <1>2 DEF TrailInv, Levels
  <2> QED
    BY <2>1, <2>2 DEF TrailTypes, CandidateLevel
<1> PICK P \in Nat : P = RAT_assumed - 1
  BY <1>3
<1>4. /\ Len(units') = P /\ \A n \in 1..P : units'[n] = units[n] /\ n \in 1..N
      /\ alpha' \subseteq alpha /\ up_state' = "CANDIDATE_UP"
  <2>1. units' = SubSeq(units, 1, P)
    BY <1>1 DEF UndoImage
  <2> PICK T : units \in Seq(T)
    BY <1>3 DEF TrailTypes
  <2>2. P <= N
    BY <1>3
  <2>3. Len(units') = P /\ \A n \in 1..P : units'[n] = units[n]
    BY <2>1, <2>2, Prefix
  <2> QED
    BY <1>1, <2>2, <2>3 DEF UndoImage
<1>5. /\ f \in live /\ AllFalse(f) /\ Opposed(C) /\ Derives
      /\ H # << >> /\ ImageFalse(H[Len(H)].clause)
  BY <1>1 DEF HintInv, ConflictHolds, ImageHeld
<1>6. H \in Seq(GroupType) /\ Len(H) \in 1..Len(H) /\ H[Len(H)].clause \in Seq(Lit)
  BY <1>5, Groups DEF HintInv, HintTypes
<1> PICK D \in Seq(Lit) : D = H[Len(H)].clause
  BY <1>6
<1>7. ASSUME NEW B \in SUBSET Lit, Base(B, R, P)
      PROVE  /\ MarkedReasons(R, RAT_unit) \in Seq(live)
             /\ Refutes(DbOf(live), B \cup Negated(ToSet(D)), hs)
  BY <1>1, <1>2, <1>5, <1>7, RoundRefutes
<1>8. \A n \in 1..N : units[n].lit \in Lit
  BY <1>3, UnitTypes
<1>9. hs \in Seq(Nat)
  <2> PICK B : B = {units[n].lit : n \in 1..P}
    OBVIOUS
  <2>1. B \in SUBSET Lit
    BY <1>4, <1>8
  <2>2. ASSUME NEW l \in ToSet(C) PROVE -l \in B
    <3>1. PICK n \in 1..N : n < candidate_unit /\ units[n].lit = -l
      BY <1>1, <1>2, <1>5, CandidateFalse
    <3>2. n \in 1..P
      BY <1>3, <3>1
    <3> QED
      BY <3>1, <3>2
  <2>3. Base(B, R, P)
    BY <2>2 DEF Base
  <2>4. MarkedReasons(R, RAT_unit) \in Seq(live) /\ live \subseteq Nat
    BY <1>2, <1>7, <2>1, <2>3, ClauseTypes
  <2>5. MarkedReasons(R, RAT_unit) \in Seq(Nat) /\ f \in Nat
    BY <1>5, <2>4, SeqWithin
  <2>6. hs = Append(MarkedReasons(R, RAT_unit), f)
    BY DEF RoundHints
  <2> QED
    BY <2>5, <2>6
<1> PICK H2 : H2 = rat_hints'
  OBVIOUS
<1> PICK L \in Nat : L = Len(H)
  BY <1>6
<1>10. /\ H2 \in Seq(GroupType) /\ Len(H2) = L /\ \A k \in 1..L - 1 : H2[k] = H[k]
       /\ H2[L].clause = D /\ H2[L].hints = hs
  <2>1. H2 = [H EXCEPT ![Len(H)].hints = hs]
    BY <1>1
  <2> PICK G, S, T : G = GroupType /\ S = Seq(Lit) /\ T = Seq(Nat)
    OBVIOUS
  <2>2. G = [clause: S, hints: T] /\ H \in Seq(G) /\ hs \in T
    BY <1>6, <1>9 DEF GroupType
  <2>3. L \in 1..L /\ DOMAIN H = 1..L /\ H[L] \in G
    <3>1. L \in 1..L
      BY <1>6
    <3>2. DOMAIN H = 1..L /\ \A k \in 1..L : H[k] \in G
      <4>1. H \in Seq(G)
        BY <2>2
      <4>2. DOMAIN H = 1..Len(H) /\ \A k \in 1..Len(H) : H[k] \in G
        BY ONLY <4>1
      <4> QED
        BY ONLY <4>2, L = Len(H)
    <3> QED
      BY ONLY <3>1, <3>2
  <2> PICK g : g = [H[L] EXCEPT !.hints = hs]
    OBVIOUS
  <2>4. g \in G /\ g.clause = H[L].clause /\ g.hints = hs
    BY ONLY <2>2, <2>3, g = [H[L] EXCEPT !.hints = hs]
  <2>5. H2 = [H EXCEPT ![L] = g]
    BY <2>1
  <2>6. H2 \in Seq(G) /\ Len(H2) = L
    BY ONLY <2>2, <2>3, <2>4, <2>5, L = Len(H)
  <2>7. H2[L] = g /\ \A k \in 1..L - 1 : H2[k] = H[k]
    <3>1. \A k \in 1..L - 1 : k \in 1..L /\ k # L
      BY ONLY L \in Nat
    <3> QED
      BY ONLY <2>3, <2>5, <3>1
  <2> QED
    BY <2>4, <2>6, <2>7
<1>11. Candidate' = C /\ DbOf(Live)' = DbOf(live)
  BY <1>1 DEF Candidate, Live, DbOf
<1>12. HintTypes' /\ ConflictHolds' /\ MarksNone' /\ ImageHeld' /\ HintsRefute'
  BY <1>1, <1>2, <1>4, <1>10
     DEF HintTypes, ConflictHolds, MarksNone, ImageHeld, HintsRefute
<1>13. CandidateHolds'
  <2>1. Opposed(C)'
    BY <1>4, <1>5 DEF Opposed
  <2> QED
    BY <1>11, <2>1 DEF CandidateHolds, Opposed
<1>14. Derives'
  <2>1. \A n \in 1..N : candidate_unit <= n /\ n < RAT_assumed => units[n].clause # 0
    BY <1>1, <1>5 DEF Derives
  <2>2. \A n \in 1..P : n < RAT_assumed
    BY <1>3
  <2> QED
    BY <1>1, <1>4, <2>1, <2>2 DEF Derives
<1>15. ReducedHolds'
  <2> PICK M2, E : M2 = marks' /\ E = P
    OBVIOUS
  <2>1. End' = E /\ End = E /\ Done = L - 1 /\ Done' = L /\ M2 = M \cup R
    BY <1>1, <1>4, <1>10 DEF End, Done
  <2>2. MarksHold(M, E) /\ \A k \in 1..L - 1 : GroupHolds(H[k], M, E)
    BY <1>1, <2>1 DEF HintInv, ReducedHolds
  <2>3. M \subseteq M2 /\ R \subseteq M2
    BY <2>1
  <2>4. \A k \in 1..L - 1 : GroupHolds(H[k], M2, E)'
    BY <1>4, <1>11, <2>2, <2>3, GroupKept
  <2>5. ASSUME NEW n \in 1..E, VarOf(units[n].lit) \in M2
        PROVE  units[n].clause # 0 /\ VarOf(units[n].lit) \notin Vars(ToSet(C))
    <3>1. CASE VarOf(units[n].lit) \in M
      BY <2>2, <3>1 DEF MarksHold
    <3>2. CASE VarOf(units[n].lit) \in R
      <4>1. n \in 1..N
        BY <1>4
      <4>2. vars_unit_indexes[VarOf(units[n].lit)] > 0 /\ VarOf(units[n].lit) \notin assumed
        BY <1>1, <1>2, <1>5, <3>2, RoundSet
      <4> QED
        BY <1>1, <1>2, <4>1, <4>2, MarkedFree
    <3> QED
      BY <2>1, <2>5, <3>1, <3>2
  <2>6. MarksHold(M2, E)'
    BY <1>4, <1>11, <2>5 DEF MarksHold
  <2>7. ASSUME NEW g, g.clause = D, g.hints = hs PROVE GroupHolds(g, M2, E)'
    <3> SUFFICES ASSUME NEW B, Base(B, M2, E)'
                 PROVE  ImageRefuted(DbOf(Live)', B, ToSet(D), hs)
      BY <2>7 DEF GroupHolds
    <3>1. /\ B \subseteq {units[n].lit : n \in 1..E} /\ \A l \in ToSet(C) : -l \in B
          /\ \A n \in 1..E : VarOf(units[n].lit) \in M2 => units[n].lit \in B
      BY <1>4, <1>11 DEF Base
    <3>2. B \in SUBSET Lit
      BY <1>4, <1>8, <3>1
    <3>3. Base(B, R, P)
      BY <2>3, <3>1 DEF Base
    <3> QED
      BY <1>7, <1>11, <3>2, <3>3 DEF ImageRefuted
  <2>8. ASSUME NEW k \in 1..L PROVE GroupHolds(H2[k], M2, E)'
    <3>1. CASE k \in 1..L - 1
      <4>1. H2[k] = H[k] /\ GroupHolds(H[k], M2, E)'
        BY <1>10, <2>4, <3>1
      <4> QED
        BY <4>1 DEF GroupHolds, Base
    <3>2. CASE k = L
      BY <1>10, <2>7, <3>2
    <3> QED
      BY <3>1, <3>2
  <2> QED
    BY <2>1, <2>6, <2>8 DEF ReducedHolds, MarksHold, GroupHolds, Base
<1> QED
  BY <1>12, <1>13, <1>14, <1>15 DEF HintInv

(***************************************************************************)
(* The line printed, with the marks of its images completed.                 *)
(***************************************************************************)
LEMMA PrintHints ==
  ASSUME ForwardInv, HintInv, PrintLine
  PROVE  HintInv'
<1> PICK live, bare, C : live = Live /\ bare = Bare /\ C = Candidate
  OBVIOUS
<1> PICK M, D, A, hs, H : /\ M = marks /\ D = MarkDependencies(M, 1) /\ A = Negated(ToSet(C))
                          /\ hs = MarkedReasons(D, 1) /\ H = rat_hints
  OBVIOUS
<1>1. /\ pc = "rat" /\ pc' = "reduced" /\ hints' = hs
      /\ UNCHANGED <<clauses, loaded, deleted, rat_hints, derived_empty_clause>>
      /\ UNCHANGED <<units, up_state, candidate_unit>>
  BY DEF PrintLine, lineVars, alphaVars, upVars, levelVars
<1> PICK N \in Nat : N = Len(units)
  BY Facts
<1>2. TrailInv(live, bare, C) /\ up_state = "CANDIDATE_UP" /\ ~derived_empty_clause
  BY <1>1 DEF ForwardInv, Control
<1>3. /\ C \in Seq(Lit) /\ TrailTypes /\ TrailExact /\ RAT_marked = {}
      /\ \A n \in 1..N : units[n].lit \in Lit
  BY <1>2, CandidateIs, UnitTypes DEF TrailInv, Levels
<1>4. /\ Opposed(C) /\ Derives /\ MarksHold(M, N)
      /\ \A k \in 1..Len(H) : GroupHolds(H[k], M, N)
  BY <1>1, <1>2 DEF HintInv, CandidateHolds, ReducedHolds, End, Done
<1> PICK p \in Nat : p = N + 1
  OBVIOUS
<1>5. \A n \in 1..N : n < p /\ units[n].lit \notin ToSet(C)
  BY <1>3, <1>4, OpposedUnits
<1>6. ASSUME NEW n \in 1..N, VarOf(units[n].lit) \in M
      PROVE  units[n].clause # 0 /\ VarOf(units[n].lit) \notin assumed
  <2>1. units[n].clause # 0 /\ VarOf(units[n].lit) \notin Vars(ToSet(C))
    BY <1>4, <1>6 DEF MarksHold
  <2> QED
    BY <1>2, <1>3, <2>1, CandidateUnits
<1>7. Given(A, M, D, 1, p)
  BY <1>2, <1>3, <1>4, <1>5, <1>6, CandidateGiven
<1>8. 1 \in Nat \ {0} /\ 1 <= N + 1 /\ A \in SUBSET Lit
  BY <1>3, NegatedLits
<1>9. Replayable(D, 1, A)
  BY <1>2, <1>7, <1>8, MarksReplay
<1> PICK B : B = Known(A, D, 1, N)
  OBVIOUS
<1>10. Propagate(DbOf(live), A, hs) = B
  BY <1>2, <1>8, <1>9, Replay
<1>11. M \subseteq D
  BY <1>2, <1>6, <1>8, Closed
<1>12. /\ A \subseteq B /\ \A l \in B : l \in A \/ \E n \in 1..N : l = units[n].lit
       /\ \A n \in 1..N : VarOf(units[n].lit) \in D => units[n].lit \in B
  BY DEF Known, Hinted
<1>13. \A l \in ToSet(C) : -l \in A
  BY <1>3, NegatedLits
<1>14. Base(B, M, N)
  <2>1. ASSUME NEW l \in A PROVE \E n \in 1..N : l = units[n].lit
    <3>1. PICK m \in ToSet(C) : l = -m
      BY <2>1 DEF Negated
    <3>2. PICK n \in 1..N : units[n].lit = -m
      BY <1>2, <1>3, <1>4, CandidateFalse
    <3> QED
      BY <3>1, <3>2
  <2> QED
    BY <1>11, <1>12, <1>13, <2>1 DEF Base
<1>15. B # Refused
  <2>1. 0 \notin B
    <3>1. 0 \notin Lit
      BY LitFacts
    <3> QED
      BY <1>3, <1>8, <1>12, <3>1
  <2> QED
    BY <2>1 DEF Refused
<1>16. \A k \in 1..Len(H) : ImageRefuted(DbOf(live), B, ToSet(H[k].clause), H[k].hints)
  BY <1>4, <1>14 DEF GroupHolds
<1>17. \A g \in ToSet(H) : ImageRefuted(DbOf(live), B, ToSet(g.clause), g.hints)
  <2>1. H \in Seq(GroupType)
    BY DEF HintInv, HintTypes
  <2>2. \A g \in ToSet(H) : \E k \in 1..Len(H) : g = H[k]
    BY <2>1 DEF ToSet
  <2> QED
    BY <1>16, <2>2
<1>18. DbOf(Live)' = DbOf(live) /\ Candidate' = C
  BY <1>1 DEF DbOf, Live, Candidate
<1>19. HintsRefute'
  <2>1. [c \in Live |-> ToSet(clauses[c])]' = DbOf(live)
    BY <1>18 DEF DbOf
  <2> QED
    BY <1>1, <1>2, <1>10, <1>15, <1>17, <1>18, <2>1 DEF HintsRefute
<1>20. HintTypes' /\ Derives'
  BY <1>1, <1>2 DEF HintInv, HintTypes, Derives
<1>21. ConflictHolds' /\ CandidateHolds' /\ MarksNone' /\ ImageHeld' /\ ReducedHolds'
  BY <1>1, <1>2 DEF ConflictHolds, CandidateHolds, MarksNone, ImageHeld, ReducedHolds
<1> QED
  BY <1>19, <1>20, <1>21 DEF HintInv

LEMMA InitHints ==
  ASSUME Init
  PROVE  HintInv
<1>1. /\ up_state = "GLOBAL_UP" /\ pc = "load" /\ rat_hints = << >> /\ ~derived_empty_clause
  BY DEF Init, InitTrail
<1>2. HintTypes /\ ConflictHolds /\ CandidateHolds /\ Derives
  BY <1>1 DEF HintTypes, ConflictHolds, CandidateHolds, Derives
<1>3. MarksNone /\ ImageHeld /\ ReducedHolds /\ HintsRefute
  BY <1>1 DEF MarksNone, ImageHeld, ReducedHolds, HintsRefute
<1> QED
  BY <1>2, <1>3 DEF HintInv

LEMMA StillHints ==
  ASSUME HintInv, UNCHANGED vars
  PROVE  HintInv'
<1>1. /\ UNCHANGED <<clauses, loaded, falsified, pc, upVars, alphaVars, markVars>>
      /\ UNCHANGED <<hintVars, lineVars>>
  BY DEF vars
<1>2. /\ UNCHANGED <<clauses, loaded, falsified, pc, deleted>>
      /\ UNCHANGED <<alpha, units, vars_unit_indexes, up_state>>
      /\ UNCHANGED <<candidate_unit, RAT_assumed, RAT_unit, assumed, RAT_marked>>
      /\ UNCHANGED <<marks, hints, rat_hints, derived_empty_clause>>
  BY <1>1 DEF upVars, levelVars, alphaVars, markVars, hintVars, lineVars
<1>3. UNCHANGED <<Live, Candidate>> /\ DbOf(Live)' = DbOf(Live)
  BY <1>2 DEF Live, Candidate, DbOf
<1>4. HintTypes' /\ ConflictHolds' /\ CandidateHolds' /\ Derives' /\ MarksNone' /\ ImageHeld'
  BY <1>2, <1>3 DEF HintInv, HintTypes, ConflictHolds, AllFalse, IsFalse, Opposed, FirstImplied,
                    CandidateHolds, Derives, MarksNone, ImageHeld, ImageFalse
<1>5. ReducedHolds'
  <2> SUFFICES ASSUME pc = "rat" \/ up_state = "RAT_UP"
               PROVE  (MarksHold(marks, End) /\ \A k \in 1..Done : GroupHolds(rat_hints[k], marks, End))'
    BY <1>2 DEF ReducedHolds
  <2>1. End' = End /\ Done' = Done
    BY <1>2 DEF End, Done
  <2> PICK M, E, H : M = marks /\ E = End /\ H = rat_hints
    OBVIOUS
  <2>2. MarksHold(M, E) /\ \A k \in 1..Done : GroupHolds(H[k], M, E)
    BY DEF HintInv, ReducedHolds
  <2>3. MarksHold(M, E)'
    BY <1>2, <1>3, <2>2 DEF MarksHold
  <2>4. \A k \in 1..Done : GroupHolds(H[k], M, E)'
    BY <1>2, <1>3, <2>2, GroupKept
  <2> QED
    BY <1>2, <2>1, <2>3, <2>4 DEF GroupHolds, Base
<1>6. HintsRefute'
  BY <1>2, <1>3 DEF HintInv, HintsRefute
<1> QED
  BY <1>4, <1>5, <1>6 DEF HintInv

LEMMA HintStep ==
  ASSUME ForwardInv, HintInv, [Next]_vars
  PROVE  HintInv'
<1>1. CASE SkipSatisfied \/ ReplaceWatch \/ FindConflict \/ FindUnit \/ NextUnit \/ FinishUp
  BY <1>1, SkipHints, ReplaceHints, ConflictHints, FindUnitHints, NextHints, FinishHints
<1>2. CASE AddUnit \/ AddFalsified \/ AddWatched \/ RefuteFormula
  BY <1>2, AddHints, AddFalsifiedHints, RefuteFormulaHints
<1>3. CASE ReadAddition \/ RefuteCandidate
  BY <1>3, ReadHints, RefuteCandidateHints
<1>4. CASE ImageHolds \/ CheckImage \/ RefuteImage \/ PrintLine
  BY <1>4, ImageHoldsHints, CheckHints, RefuteImageHints, PrintHints
<1>5. CASE UnassumeCandidate \/ IgnoreDeletion \/ DeleteOther \/ DeleteAndUnassign \/ EndOfProof
  BY <1>5, LineHints
<1>6. CASE Exited \/ UNCHANGED vars
  BY <1>6, StillHints DEF Exited
<1> QED
  BY <1>1, <1>2, <1>3, <1>4, <1>5, <1>6 DEF Next

(* The hints of every line refute what they are for: the conflict of the     *)
(* formula or of the candidate, or, once the hints of the line have been      *)
(* propagated, every image that does not hold.  What the marks drop is not   *)
(* needed, and what they cut at is assumed by the checker too.               *)
THEOREM Hints ==
  Spec => []HintsRefute
<1>1. Init => HintInv
  BY InitHints
<1>2. ForwardInv /\ HintInv /\ [Next]_vars => HintInv'
  BY HintStep
<1>3. HintInv => HintsRefute
  BY DEF HintInv
<1> QED
  BY <1>1, <1>2, <1>3, Invariant, PTL DEF Spec
=============================================================================
