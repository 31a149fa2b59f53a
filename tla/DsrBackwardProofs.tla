-------------------------- MODULE DsrBackwardProofs --------------------------
(***************************************************************************)
(* The reasons of units and the watches in the backward check, whatever has  *)
(* been deleted, restored and taken back, for every formula and every proof. *)
(***************************************************************************)
EXTENDS DsrBackward, DsrTrailProofs

(***************************************************************************)
(* The inductive invariant.                                                 *)
(***************************************************************************)
Forward == {"load", "line", "delete", "derived"}

Backward == {"prepare", "uncommit", "restart", "re-up", "check", "witness", "rat", "undo"}

Propagation == {"up", "falsified"}

Stopped == {"print", "UNSAT", "FATAL"}

(* The pass that is under way: propagation at the global level is of the     *)
(* forward pass, but for the one that a line is restarted with.              *)
Adds == pc \in Forward \/ (pc \in Propagation /\ up_state = "GLOBAL_UP")

(* The clauses of the pass; the line that is taken back still has its own.   *)
Base ==
  1..(IF Adds THEN loaded ELSE IF pc = "uncommit" THEN Candidate ELSE Candidate - 1) \ deleted

(* The clause that was false when it was added has no watches.               *)
Bare == IF derived_empty_clause THEN {loaded} ELSE {}

(* Where the clauses are, and which of them have literals.                   *)
Sizes ==
  /\ proof \in Proofs
  /\ loaded \in 0..EndOfFormula /\ loaded <= Len(clauses)
  /\ derived_empty_clause \in BOOLEAN
  /\ current_line \in Nat /\ deletion \in Nat \ {0} /\ cursor \in Nat
  /\ global_up \in Nat \ {0}
  /\ \A c \in 1..Len(clauses) :
       c <= EndOfFormula /\ (Adds \/ c <= loaded) => clauses[c] # << >>

(* The witness of a line is as parsed until the line has been assumed.       *)
Unread(k) ==
  \/ Adds \/ k <= current_line
  \/ k = current_line + 1 /\ pc \notin {"prepare", "rat", "undo"} /\ up_state # "RAT_UP"

Witnesses ==
  /\ DOMAIN witnesses = 1..Len(proof.lines)
  /\ \A k \in 1..Len(proof.lines) : Unread(k) => witnesses[k] = proof.lines[k].witness
  /\ lines_range \in Seq([min: Nat \ {0}, max: Nat])
  /\ loaded - NumCnf <= Len(lines_range)
  /\ pc = "delete" => loaded + 1 - NumCnf <= Len(lines_range)
  /\ subst \in Substitution

ForwardControl ==
  /\ pc \in Forward => up_state = "GLOBAL_UP"
  /\ Adds => /\ Len(clauses) >= EndOfFormula /\ deleted \subseteq 1..loaded
             /\ global_up <= Len(units) + 1
  /\ pc \in {"load", "line", "delete"} => ~derived_empty_clause
  /\ pc = "load" => loaded < NumCnf
  /\ pc \in {"line", "delete"} => loaded \in NumCnf..EndOfFormula - 1
  /\ pc = "delete" => current_line = loaded - NumCnf
  /\ pc = "derived" => derived_empty_clause

BackwardControl ==
  /\ pc \in {"prepare", "uncommit", "restart", "re-up", "check"} => up_state = "GLOBAL_UP"
  /\ pc \in {"witness", "rat", "undo"} => up_state = "CANDIDATE_UP"
  /\ ~Adds =>
       /\ derived_empty_clause /\ Len(clauses) = loaded + 1
       /\ IF pc = "prepare" THEN current_line >= 1 /\ Candidate <= loaded + 1
          ELSE Candidate <= loaded
  /\ pc = "re-up" => global_up <= Len(units) + 1
  /\ pc = "rat" \/ up_state = "RAT_UP" => cursor >= 1
  /\ up_state = "RAT_UP" => cursor <= Candidate

Data == Sizes /\ Witnesses /\ ForwardControl /\ BackwardControl

(* The first unit of the level that is propagated.                          *)
Floor == CASE up_state = "RAT_UP"       -> RAT_assumed
           [] up_state = "CANDIDATE_UP" -> candidate_assumed
           [] OTHER                     -> global_up

(* The loops over the units and over a watch list.                           *)
Loops ==
  /\ i \in Nat \ {0} /\ i >= Floor /\ i <= Len(units) + 1
  /\ j \in Nat \ {0} /\ ignored_j \in Nat \ {0} /\ ignored_j <= j
  /\ bookmarked_i \in Nat
  /\ bookmarked_i # 0 => bookmarked_i >= Floor /\ bookmarked_i <= Len(units)
  /\ progressed_i \in 1..Len(units) + 1
  /\ accepting \in BOOLEAN /\ (accepting => progressed_i >= Floor)

(* Place q of the watch list of unit n is done with.                         *)
Done(n, q) ==
  \/ n < i \/ n < progressed_i
  \/ n = i /\ q < j
  \/ n > i /\ q < wp_up[n]

(* The other watch of c is true, or it has no replacement for l.             *)
Exhausted(c, l) ==
  \/ \E k \in 1..2 : clauses[c][k] # l /\ IsTrue(clauses[c][k])
  \/ \A k \in 3..Len(clauses[c]) : IsFalse(clauses[c][k])

Searched ==
  \A n \in 1..Len(units) : n >= Floor =>
    \A q \in 1..Len(wps[-units[n].lit]) :
      Done(n, q) => Exhausted(wps[-units[n].lit][q], -units[n].lit)

Propagated == pc \in {"up", "re-up"} => Loops /\ Searched

WpUp == wp_up \in [1..Cardinality(Var) -> Nat \ {0}]

BackwardInv ==
  /\ pc \in Forward \cup Backward \cup Propagation \cup Stopped
  /\ pc \notin Stopped =>
       Data /\ TrailInv(Base, Bare, clauses[Candidate]) /\ WpUp /\ Propagated

-----------------------------------------------------------------------------
(***************************************************************************)
(* The proof, and the two clauses sets.                                     *)
(***************************************************************************)
LEMMA ProofFacts ==
  ASSUME proof \in Proofs
  PROVE  /\ NumCnf \in Nat \ {0} /\ Len(proof.lines) \in Nat
         /\ EndOfFormula \in Nat /\ EndOfFormula = NumCnf + Len(proof.lines)
         /\ NumCnf = Len(proof.cnf) /\ proof.cnf \in Seq(Seq(Lit))
         /\ \A c \in 1..NumCnf : Proper(proof.cnf[c]) /\ proof.cnf[c] # << >>
         /\ \A k \in 1..Len(proof.lines) :
              /\ proof.lines[k].clause \in Seq(Lit) /\ proof.lines[k].witness \in WitnessOfPairs
              /\ Proper(proof.lines[k].clause) /\ proof.lines[k].clause # << >>
<1>1. /\ proof.cnf \in Seq(Seq(Lit)) /\ proof.cnf # << >>
      /\ \A c \in 1..Len(proof.cnf) : Proper(proof.cnf[c]) /\ proof.cnf[c] # << >>
      /\ proof.lines \in Seq([clause: Seq(Lit), witness: WitnessOfPairs, dels: Seq(Nat)])
      /\ \A k \in 1..Len(proof.lines) :
           Proper(proof.lines[k].clause) /\ proof.lines[k].clause # << >>
  BY ProofsAssumption
<1>2. Len(proof.cnf) \in Nat /\ Len(proof.cnf) # 0
  BY <1>1, EmptySeq
<1>3. \A k \in 1..Len(proof.lines) :
        proof.lines[k] \in [clause: Seq(Lit), witness: WitnessOfPairs, dels: Seq(Nat)]
  BY <1>1, ElementOfSeq
<1>4. \A k \in 1..Len(proof.lines) :
        proof.lines[k].clause \in Seq(Lit) /\ proof.lines[k].witness \in WitnessOfPairs
  BY <1>3
<1>5. Len(proof.lines) \in Nat
  BY <1>1, LenProperties
<1>6. NumCnf = Len(proof.cnf) /\ NumCnf \in Nat \ {0}
  BY <1>2 DEF NumCnf
<1>7. EndOfFormula \in Nat /\ EndOfFormula = NumCnf + Len(proof.lines)
  <2>1. NumCnf \in Nat /\ EndOfFormula = NumCnf + Len(proof.lines)
    BY <1>6 DEF EndOfFormula
  <2> QED
    BY ONLY <1>5, <2>1
<1> QED
  BY <1>1, <1>4, <1>5, <1>6, <1>7

(* What a line deletes is in the formula or in an earlier line.              *)
LEMMA Deletable ==
  ASSUME proof \in Proofs, NEW L \in Nat
  PROVE  /\ Deletions(L) \in Seq(Nat) /\ OnceEach(Deletions(L))
         /\ \A k \in 1..Len(Deletions(L)) : Deletions(L)[k] \in 1..NumCnf + L
<1>1. /\ proof.lines \in Seq([clause: Seq(Lit), witness: WitnessOfPairs, dels: Seq(Nat)])
      /\ \A k \in 1..Len(proof.lines) :
            /\ \A n \in 1..Len(proof.lines[k].dels) :
                 proof.lines[k].dels[n] \in 1..Len(proof.cnf) + k - 1
            /\ \A m, n \in 1..Len(proof.lines[k].dels) :
                 proof.lines[k].dels[m] = proof.lines[k].dels[n] => m = n
  BY ProofsAssumption
<1>2. CASE L \in 0..Len(proof.lines) - 1
  <2>1. L + 1 \in 1..Len(proof.lines) /\ L + 1 - 1 = L /\ Deletions(L) = proof.lines[L + 1].dels
    BY <1>1, <1>2 DEF Deletions
  <2>2. proof.lines[L + 1].dels \in Seq(Nat)
    <3>1. proof.lines[L + 1] \in [clause: Seq(Lit), witness: WitnessOfPairs, dels: Seq(Nat)]
      BY <1>1, <2>1, ElementOfSeq
    <3> QED
      BY <3>1
  <2>3. NumCnf \in Nat
    BY ProofFacts
  <2>4. \A n \in 1..Len(proof.lines[L + 1].dels) :
          proof.lines[L + 1].dels[n] \in 1..Len(proof.cnf) + (L + 1) - 1
    BY <1>1, <2>1
  <2>5. Len(proof.cnf) + (L + 1) - 1 = NumCnf + L
    BY <2>3 DEF NumCnf
  <2>6. OnceEach(proof.lines[L + 1].dels)
    BY <1>1, <2>1 DEF OnceEach
  <2> QED
    BY <2>1, <2>2, <2>4, <2>5, <2>6
<1>3. CASE L \notin 0..Len(proof.lines) - 1
  <2>1. Deletions(L) = << >>
    BY <1>3 DEF Deletions
  <2>2. Len(<< >>) = 0 /\ << >> \in Seq(Nat)
    OBVIOUS
  <2> QED
    BY <2>1, <2>2 DEF OnceEach
<1> QED
  BY <1>2, <1>3

(* There are no more units than variables.                                  *)
LEMMA UnitsBounded ==
  ASSUME NEW u \in Seq(Unit),
         \A m, n \in 1..Len(u) : VarOf(u[m].lit) = VarOf(u[n].lit) => m = n
  PROVE  Len(u) <= Cardinality(Var) /\ Cardinality(Var) \in Nat
<1> DEFINE f == [n \in 1..Len(u) |-> VarOf(u[n].lit)]
<1>1. IsFiniteSet(Var)
  BY ProofsAssumption
<1>2. Len(u) \in Nat /\ \A n \in 1..Len(u) : u[n].lit \in Lit
  <2>1. Len(u) \in Nat /\ \A n \in 1..Len(u) : u[n] \in Unit
    BY LenProperties, ElementOfSeq
  <2> QED
    BY <2>1 DEF Unit
<1>3. \A n \in 1..Len(u) : VarOf(u[n].lit) \in Var
  BY <1>2, LitFacts
<1>4. f \in [1..Len(u) -> Var]
  BY <1>3
<1>5. \A m, n \in 1..Len(u) : f[m] = f[n] => m = n
  OBVIOUS
<1> HIDE DEF f
<1>6. f \in Injection(1..Len(u), Var)
  BY <1>4, <1>5 DEF Injection, IsInjective
<1>7. Cardinality(1..Len(u)) <= Cardinality(Var)
  BY <1>1, <1>6, FS_Injection
<1>8. Cardinality(1..Len(u)) = Len(u)
  <2>1. 1 \in Int /\ Len(u) \in Int /\ (1 > Len(u) => Len(u) = 0) /\ Len(u) - 1 + 1 = Len(u)
    BY <1>2
  <2>2. Cardinality(1..Len(u)) = IF 1 > Len(u) THEN 0 ELSE Len(u) - 1 + 1
    BY <2>1, FS_Interval
  <2> QED
    BY <2>1, <2>2
<1> QED
  BY <1>1, <1>7, <1>8, FS_CardinalityType

LEMMA Rebased ==
  ASSUME NEW live, NEW bare, NEW C, live = Base, bare = Bare,
         up_state = "GLOBAL_UP" \/ C = clauses[Candidate]
  PROVE  TrailInv(live, bare, C) <=> TrailInv(Base, Bare, clauses[Candidate])
<1>1. Levels(C) <=> Levels(clauses[Candidate])
  BY DEF Levels
<1> QED
  BY <1>1 DEF TrailInv

LEMMA RebasedLater ==
  ASSUME NEW live, NEW bare, NEW C, live = Base', bare = Bare',
         up_state' = "GLOBAL_UP" \/ C = (clauses[Candidate])'
  PROVE  TrailInv(live, bare, C)' => TrailInv(Base, Bare, clauses[Candidate])'
<1>1. Levels(C)' => Levels(clauses[Candidate])'
  BY DEF Levels
<1> QED
  BY <1>1 DEF TrailInv

-----------------------------------------------------------------------------
(***************************************************************************)
(* The loops of unit propagation.                                           *)
(***************************************************************************)
Settles == <<proof, loaded, deleted, derived_empty_clause, lines_range, current_line,
             deletion, cursor, subst, witnesses, up_state>>

(* Where propagation ends, if it does not go on.                            *)
Leaves ==
  \/ pc' = pc
  \/ pc = "up" /\ pc' = "falsified"
  \/ pc = "re-up" /\ pc' = "check"
  \/ pc = "up" /\ up_state = "CANDIDATE_UP" /\ pc' = "witness"
  \/ /\ pc = "up" /\ up_state = "GLOBAL_UP"
     /\ \/ derived_empty_clause /\ pc' = "derived"
        \/ ~derived_empty_clause /\ loaded < NumCnf /\ pc' = "load"
        \/ ~derived_empty_clause /\ loaded \in NumCnf..EndOfFormula - 1 /\ pc' = "line"

(* A step of the loops leaves where the pass is, and the clauses that are
   outside of it.                                                           *)
LoopStep ==
  /\ UNCHANGED Settles /\ Leaves
  /\ global_up' = global_up \/ global_up' \in 1..Len(units') + 1
  /\ clauses' \in Seq(Seq(Lit)) /\ Len(clauses') = Len(clauses)
  /\ \A c \in 1..Len(clauses) : Len(clauses'[c]) = Len(clauses[c])
  /\ \A c \in 1..Len(clauses) : c \notin Base => clauses'[c] = clauses[c]
  /\ Len(units) \in Nat /\ Len(units') \in Nat /\ Len(units) <= Len(units')

LEMMA LoopFrame ==
  ASSUME BackwardInv, pc \in {"up", "re-up"}, LoopStep
  PROVE  /\ Data' /\ Base' = Base /\ Bare' = Bare
         /\ (up_state = "GLOBAL_UP" \/ (clauses[Candidate])' = clauses[Candidate])
<1>1. Data /\ TrailInv(Base, Bare, clauses[Candidate]) /\ clauses \in Seq(Seq(Lit))
  BY DEF BackwardInv, Stopped, TrailInv, TrailTypes
<1>2. UNCHANGED <<NumCnf, EndOfFormula, Candidate>> /\ Adds' = Adds
  BY DEF LoopStep, Settles, NumCnf, EndOfFormula, Candidate, ClauseOf, Adds, Leaves,
       Forward, Propagation
<1>3. Base' = Base /\ Bare' = Bare
  BY <1>2 DEF LoopStep, Settles, Base, Bare, Leaves
<1>4. \A c \in 1..Len(clauses) : clauses[c] # << >> => clauses'[c] # << >>
  <2> SUFFICES ASSUME NEW c \in 1..Len(clauses), clauses[c] # << >>
               PROVE  clauses'[c] # << >>
    OBVIOUS
  <2>1. clauses[c] \in Seq(Lit) /\ clauses'[c] \in Seq(Lit) /\ Len(clauses'[c]) = Len(clauses[c])
    BY <1>1, ElementOfSeq DEF LoopStep
  <2> QED
    BY <2>1, EmptySeq
<1>5. Sizes'
  <2>1. Sizes
    BY <1>1 DEF Data
  <2> QED
    BY <1>2, <1>4, <2>1 DEF Sizes, LoopStep, Settles
<1>6. Witnesses'
  <2>1. Witnesses
    BY <1>1 DEF Data
  <2>2. \A k : Unread(k)' <=> Unread(k)
    BY <1>2 DEF Unread, LoopStep, Settles, Leaves
  <2> QED
    BY <1>2, <2>1, <2>2 DEF Witnesses, LoopStep, Settles, Leaves
<1>7. ForwardControl'
  <2>1. ForwardControl /\ global_up \in Nat
    BY <1>1 DEF Data, Sizes
  <2> QED
    BY <1>2, <2>1 DEF ForwardControl, LoopStep, Settles, Forward, Leaves
<1>8. BackwardControl'
  <2>1. BackwardControl /\ global_up \in Nat
    BY <1>1 DEF Data, Sizes
  <2> QED
    BY <1>2, <2>1 DEF BackwardControl, LoopStep, Settles, Leaves
<1>9. up_state # "GLOBAL_UP" => (clauses[Candidate])' = clauses[Candidate]
  <2> SUFFICES ASSUME up_state # "GLOBAL_UP" PROVE clauses'[Candidate] = clauses[Candidate]
    BY <1>2
  <2>1. ~Adds
    BY DEF Adds, Forward
  <2>2. Candidate <= loaded /\ loaded \in Nat /\ Len(clauses) = loaded + 1
    BY <1>1, <2>1, ProofFacts DEF Data, BackwardControl, Sizes
  <2>3. Candidate \in Nat \ {0}
    BY <1>1, ProofFacts DEF Data, Sizes, Candidate, ClauseOf
  <2>4. Candidate \notin Base /\ Candidate \in 1..Len(clauses)
    BY <2>1, <2>2, <2>3 DEF Base
  <2> QED
    BY <2>4 DEF LoopStep
<1> QED
  BY <1>3, <1>5, <1>6, <1>7, <1>8, <1>9 DEF Data

LEMMA LoopFacts ==
  ASSUME BackwardInv, pc \in {"up", "re-up"}
  PROVE  /\ TrailInv(Base, Bare, clauses[Candidate]) /\ Loops /\ Searched /\ WpUp
         /\ Floor \in Nat \ {0} /\ Len(units) \in Nat
         /\ Len(units) <= Cardinality(Var) /\ Cardinality(Var) \in Nat
         /\ global_up \in Nat \ {0}
<1>1. /\ TrailInv(Base, Bare, clauses[Candidate]) /\ Loops /\ Searched /\ WpUp
      /\ global_up \in Nat \ {0}
  BY DEF BackwardInv, Stopped, Propagated, Data, Sizes
<1>2. units \in Seq(Unit)
  BY <1>1 DEF TrailInv, TrailTypes
<1>3. \A m, n \in 1..Len(units) : VarOf(units[m].lit) = VarOf(units[n].lit) => m = n
  BY <1>1 DEF TrailInv, TrailExact
<1>4. Floor \in Nat \ {0}
  <2>1. /\ candidate_assumed \in Nat /\ candidate_unit \in Nat /\ RAT_assumed \in Nat
        /\ up_state # "GLOBAL_UP" => candidate_assumed >= 1 /\ candidate_assumed <= candidate_unit
        /\ up_state = "RAT_UP" => candidate_unit <= RAT_assumed
    BY <1>1 DEF TrailInv, TrailTypes, Levels, CandidateLevel
  <2> QED
    BY <1>1, <2>1 DEF Floor
<1> QED
  BY <1>1, <1>2, <1>3, <1>4, UnitsBounded, LenProperties

(* What a step of the loops must keep.                                      *)
LEMMA LoopEnds ==
  ASSUME BackwardInv, pc \in {"up", "re-up"}, LoopStep,
         NEW live, NEW bare, NEW C, live = Base, bare = Bare, C = clauses[Candidate],
         TrailInv(live, bare, C)', WpUp', Propagated'
  PROVE  BackwardInv'
<1>1. /\ Data' /\ Base' = Base /\ Bare' = Bare
      /\ (up_state = "GLOBAL_UP" \/ (clauses[Candidate])' = clauses[Candidate])
  BY LoopFrame
<1>2. up_state' = up_state
  BY DEF LoopStep, Settles
<1>3. TrailInv(Base, Bare, clauses[Candidate])'
  BY <1>1, <1>2, RebasedLater
<1>4. pc' \in Forward \cup Backward \cup Propagation \cup Stopped
  BY DEF LoopStep, Leaves, Forward, Backward, Propagation
<1> QED
  BY <1>1, <1>3, <1>4 DEF BackwardInv

(* The other watch of a visited clause that is exhausted is true, or there is
   no replacement.                                                          *)
LEMMA NoneLeft ==
  ASSUME BackwardInv, Visiting, NoReplacement, ~IsTrue(OtherFirst[1])
  PROVE  Replacements = {}
<1>1. CASE i < progressed_i
  <2>1. /\ TrailInv(Base, Bare, clauses[Candidate]) /\ Loops /\ Searched
        /\ i \in 1..Len(units) /\ i >= Floor
    BY LoopFacts DEF Visiting, Propagating, Loops
  <2>2. j \in 1..Len(wps[FalsifiedLit]) /\ Visits
    BY <2>1 DEF Visiting, Loops, Visits
  <2>3. Exhausted(Watcher, FalsifiedLit)
    BY <1>1, <2>1, <2>2 DEF Searched, Done, Watcher, FalsifiedLit
  <2>4. /\ Proper(OtherFirst) /\ Len(OtherFirst) = Len(clauses[Watcher])
        /\ OtherFirst[2] = FalsifiedLit /\ Len(clauses[Watcher]) >= 2
        /\ \/ OtherFirst = clauses[Watcher]
           \/ /\ clauses[Watcher][1] = FalsifiedLit
              /\ OtherFirst[1] = clauses[Watcher][2]
              /\ \A k \in 3..Len(OtherFirst) : OtherFirst[k] = clauses[Watcher][k]
    BY <2>1, <2>2, Visit
  <2>5. \A k \in 3..Len(OtherFirst) : OtherFirst[k] = clauses[Watcher][k]
    BY <2>4
  <2>6. ~ \E k \in 1..2 : clauses[Watcher][k] # FalsifiedLit /\ IsTrue(clauses[Watcher][k])
    BY <2>4
  <2>7. \A k \in 3..Len(OtherFirst) : IsFalse(OtherFirst[k])
    BY <2>3, <2>4, <2>5, <2>6 DEF Exhausted
  <2> QED
    BY <2>7 DEF Replacements
<1> QED
  BY <1>1 DEF NoReplacement

(* A visited clause is exhausted if its other watch is true, or if there is no
   replacement.                                                             *)
LEMMA VisitedExhausted ==
  ASSUME NEW live, NEW bare, NEW C, TrailInv(live, bare, C), Visits, PutOtherFirst,
         IsTrue(OtherFirst[1]) \/ Replacements = {}, alpha \subseteq alpha'
  PROVE  \A c \in live, l \in Lit :
           Exhausted(c, l) \/ (c = Watcher /\ l = FalsifiedLit) => Exhausted(c, l)'
<1>1. /\ Proper(OtherFirst) /\ Len(OtherFirst) = Len(clauses[Watcher])
      /\ OtherFirst[2] = FalsifiedLit /\ Len(clauses[Watcher]) >= 2
      /\ Watcher \in live /\ Watcher \in 1..Len(clauses)
      /\ \/ OtherFirst = clauses[Watcher]
         \/ /\ clauses[Watcher][1] = FalsifiedLit
            /\ OtherFirst[1] = clauses[Watcher][2]
            /\ \A k \in 3..Len(OtherFirst) : OtherFirst[k] = clauses[Watcher][k]
  BY Visit
<1>2. \A l \in Lit : (IsTrue(l) => l \in alpha') /\ (IsFalse(l) => -l \in alpha')
  BY DEF IsTrue, IsFalse
<1>3. TrailTypes /\ ClausesProper
  BY DEF TrailInv
<1>4. clauses' = [clauses EXCEPT ![Watcher] = OtherFirst]
  BY DEF PutOtherFirst
<1>5. /\ clauses'[Watcher] = OtherFirst
      /\ \A c \in 1..Len(clauses) : c # Watcher => clauses'[c] = clauses[c]
  BY <1>1, <1>3, <1>4, ClauseEdited
<1> SUFFICES ASSUME NEW c \in live, NEW l \in Lit,
                    Exhausted(c, l) \/ (c = Watcher /\ l = FalsifiedLit)
             PROVE  Exhausted(c, l)'
  OBVIOUS
<1>6. c \in 1..Len(clauses) /\ Proper(clauses[c])
  BY ClauseTypes
<1>7. \A k \in 1..Len(clauses[c]) : clauses[c][k] \in Lit
  BY <1>6, ProperFacts
<1>8. CASE c # Watcher
  <2>1. clauses'[c] = clauses[c] /\ Exhausted(c, l)
    BY <1>5, <1>6, <1>8
  <2>2. CASE \E k \in 1..2 : clauses[c][k] # l /\ IsTrue(clauses[c][k])
    BY <1>2, <2>1, <2>2 DEF Exhausted, IsTrue
  <2>3. CASE \A k \in 3..Len(clauses[c]) : IsFalse(clauses[c][k])
    <3>1. \A k \in 3..Len(clauses[c]) : k \in 1..Len(clauses[c])
      BY <1>6, ProperFacts
    <3> QED
      BY <1>2, <1>7, <2>1, <2>3, <3>1 DEF Exhausted, IsFalse
  <2> QED
    BY <2>1, <2>2, <2>3 DEF Exhausted
<1>9. CASE c = Watcher
  <2>1. \A k \in 1..Len(OtherFirst) : OtherFirst[k] \in Lit
    BY <1>1, ProperFacts
  <2>2. /\ OtherFirst[1] # FalsifiedLit /\ 1 \in 1..Len(OtherFirst)
        /\ \A k \in 3..Len(OtherFirst) : k \in 1..Len(OtherFirst)
    <3>1. Len(OtherFirst) \in Nat /\ \A k, m \in 1..Len(OtherFirst) : OtherFirst[k] = OtherFirst[m] => k = m
      BY <1>1, ProperFacts
    <3> QED
      BY <1>1, <3>1
  <2>3. CASE Replacements = {}
    <3>1. \A k \in 3..Len(OtherFirst) : IsFalse(OtherFirst[k])
      BY <2>3 DEF Replacements
    <3> QED
      BY <1>2, <1>5, <1>9, <2>1, <2>2, <3>1 DEF Exhausted, IsFalse
  <2>4. CASE IsTrue(OtherFirst[1]) /\ l # OtherFirst[1]
    BY <1>2, <1>5, <1>9, <2>4 DEF Exhausted, IsTrue
  <2>5. CASE l = OtherFirst[1] /\ Exhausted(c, l)
    <3>1. \A k \in 3..Len(OtherFirst) : OtherFirst[k] = clauses[Watcher][k]
      BY <1>1
    <3>2. ~IsTrue(FalsifiedLit)
      BY Visit
    <3>3. \A k \in 1..2 : clauses[Watcher][k] = l \/ clauses[Watcher][k] = FalsifiedLit
      BY <1>1, <2>5
    <3>4. \A k \in 3..Len(clauses[c]) : IsFalse(clauses[c][k])
      BY <1>9, <2>5, <3>2, <3>3 DEF Exhausted
    <3>5. \A k \in 3..Len(OtherFirst) : IsFalse(OtherFirst[k])
      BY <1>1, <1>9, <3>1, <3>4
    <3> QED
      BY <1>2, <1>5, <1>9, <2>1, <2>2, <3>5 DEF Exhausted, IsFalse
  <2> QED
    BY <1>9, <2>2, <2>3, <2>4, <2>5
<1> QED
  BY <1>8, <1>9

(* Visiting one more place of the list of unit i.                            *)
LEMMA Walked ==
  ASSUME BackwardInv, Visiting, PutOtherFirst,
         IsTrue(OtherFirst[1]) \/ Replacements = {}, alpha \subseteq alpha',
         Floor' = Floor,
         Len(wps'[FalsifiedLit]) = Len(wps[FalsifiedLit]),
         \A l \in Lit : l # FalsifiedLit => wps'[l] = wps[l],
         \A q \in 1..Len(wps[FalsifiedLit]) : \E r \in 1..Len(wps[FalsifiedLit]) :
           wps'[FalsifiedLit][q] = wps[FalsifiedLit][r] /\ (q <= j => r <= j),
         Len(units') \in Nat, \A n \in 1..Len(units) : units'[n] = units[n],
         \A n \in 1..Len(units'), q \in Nat \ {0} : n >= Floor /\ Done(n, q)' =>
           n <= Len(units) /\ (Done(n, q) \/ (n = i /\ q <= j))
  PROVE  Searched'
<1>1. /\ TrailInv(Base, Bare, clauses[Candidate]) /\ Loops /\ Searched
      /\ Floor \in Nat \ {0} /\ Len(units) \in Nat /\ i \in 1..Len(units)
      /\ i \in Nat /\ j \in Nat \ {0} /\ progressed_i \in Nat /\ i >= Floor
  BY LoopFacts DEF Visiting, Propagating, Loops
<1>2. Visits
  BY <1>1 DEF Visiting, Visits
<1>3. PICK live : live = Base
  OBVIOUS
<1>4. PICK bare, C : bare = Bare /\ C = clauses[Candidate]
  OBVIOUS
<1>5. TrailInv(live, bare, C)
  BY <1>1, <1>3, <1>4
<1>6. \A c \in live, l \in Lit :
        Exhausted(c, l) \/ (c = Watcher /\ l = FalsifiedLit) => Exhausted(c, l)'
  BY <1>2, <1>5, VisitedExhausted
<1>7. /\ \A n \in 1..Len(units) : -units[n].lit \in Lit
      /\ \A n \in 1..Len(units) : n # i => -units[n].lit # FalsifiedLit
  <2>1. \A n \in 1..Len(units) : units[n].lit \in Lit
    BY <1>5, UnitTypes DEF TrailInv
  <2>2. \A m, n \in 1..Len(units) : VarOf(units[m].lit) = VarOf(units[n].lit) => m = n
    BY <1>5 DEF TrailInv, TrailExact
  <2>3. \A n \in 1..Len(units) :
          -units[n].lit \in Lit /\ VarOf(-units[n].lit) = VarOf(units[n].lit)
    BY <2>1, LitFacts
  <2> QED
    BY <1>1, <2>2, <2>3 DEF FalsifiedLit
<1>8. \A l \in Lit : wps[l] \in Seq(Nat)
  BY <1>5 DEF TrailInv, TrailTypes
<1>9. \A l \in Lit : \A q \in 1..Len(wps[l]) : wps[l][q] \in live
  <2>1. \A l \in Lit : \A q \in 1..Len(wps[l]) : wps[l][q] \in Nat /\ Has(wps[l], wps[l][q])
    BY <1>8, ElementOfSeq DEF Has
  <2> QED
    BY <1>5, <2>1 DEF TrailInv, WatchesHold
<1> SUFFICES ASSUME NEW n \in 1..Len(units'), n >= Floor,
                    NEW q \in 1..Len(wps'[-units'[n].lit]), Done(n, q)'
             PROVE  Exhausted(wps[-units[n].lit][q], -units[n].lit)'
  BY DEF Searched
<1>10. n \in 1..Len(units) /\ (Done(n, q) \/ (n = i /\ q <= j)) /\ units'[n] = units[n]
  <2>1. q \in Nat \ {0}
    OBVIOUS
  <2> QED
    BY <1>1, <2>1
<1>11. CASE n = i
  <2>1. -units[n].lit = FalsifiedLit /\ q \in 1..Len(wps[FalsifiedLit]) /\ FalsifiedLit \in Lit
    BY <1>7, <1>10, <1>11 DEF FalsifiedLit
  <2>2. PICK r \in 1..Len(wps[FalsifiedLit]) :
          wps'[FalsifiedLit][q] = wps[FalsifiedLit][r] /\ (q <= j => r <= j)
    BY <2>1
  <2>3. CASE r = j
    <3>1. wps[FalsifiedLit][r] = Watcher
      BY <2>3 DEF Watcher
    <3>2. Watcher \in live
      BY <1>2, <1>5, Visit
    <3>3. PICK c \in live : c = Watcher
      BY <3>2
    <3>4. PICK l \in Lit : l = FalsifiedLit
      BY <2>1
    <3>5. Exhausted(c, l)'
      BY <1>6, <3>3, <3>4
    <3>6. wps'[-units'[n].lit][q] = c /\ -units'[n].lit = l
      BY <1>10, <2>1, <2>2, <3>1, <3>3, <3>4
    <3> QED
      BY <3>5, <3>6
  <2>4. CASE r # j
    <3>1. Done(n, r)
      BY <1>1, <1>10, <1>11, <2>2, <2>4 DEF Done
    <3>2. Exhausted(wps[FalsifiedLit][r], FalsifiedLit)
      BY <1>1, <1>10, <2>1, <2>2, <3>1 DEF Searched
    <3> QED
      BY <1>6, <1>9, <1>10, <2>1, <2>2, <3>2
  <2> QED
    BY <2>3, <2>4
<1>12. CASE n # i
  <2>1. -units[n].lit \in Lit /\ -units[n].lit # FalsifiedLit
    BY <1>7, <1>10, <1>12
  <2>2. wps'[-units[n].lit] = wps[-units[n].lit] /\ q \in 1..Len(wps[-units[n].lit])
    BY <1>10, <2>1
  <2>3. Exhausted(wps[-units[n].lit][q], -units[n].lit)
    BY <1>1, <1>10, <1>12, <2>2 DEF Searched
  <2> QED
    BY <1>6, <1>9, <1>10, <2>1, <2>2, <2>3
<1> QED
  BY <1>11, <1>12

(* The place of the visited clause is exchanged with that of an ignored one. *)
LEMMA Exchanged ==
  ASSUME BackwardInv, Visiting,
         wps' = [wps EXCEPT ![FalsifiedLit] = Swap(@, j, ignored_j)]
  PROVE  /\ Len(wps'[FalsifiedLit]) = Len(wps[FalsifiedLit])
         /\ \A l \in Lit : l # FalsifiedLit => wps'[l] = wps[l]
         /\ \A q \in 1..Len(wps[FalsifiedLit]) : \E r \in 1..Len(wps[FalsifiedLit]) :
              wps'[FalsifiedLit][q] = wps[FalsifiedLit][r] /\ (q <= j => r <= j)
         /\ Permuted
<1>1. /\ TrailInv(Base, Bare, clauses[Candidate]) /\ Loops
      /\ i \in 1..Len(units) /\ j \in Nat /\ ignored_j \in Nat \ {0} /\ ignored_j <= j
  BY LoopFacts DEF Visiting, Propagating, Loops
<1>2. Visits
  BY <1>1 DEF Visiting, Visits, Loops
<1>3. PICK live, bare, C : TrailInv(live, bare, C)
  BY <1>1
<1>4. FalsifiedLit \in Lit
  BY <1>2, <1>3, Visit
<1>5. j \in 1..Len(wps[FalsifiedLit]) /\ ignored_j \in 1..Len(wps[FalsifiedLit])
  <2>1. wps[FalsifiedLit] \in Seq(Nat)
    BY <1>3, <1>4 DEF TrailInv, TrailTypes
  <2>2. Len(wps[FalsifiedLit]) \in Nat
    BY <2>1, LenProperties
  <2> QED
    BY <1>1, <1>2, <2>2 DEF Visits
<1>6. PICK f \in Lit : f = FalsifiedLit
  BY <1>4
<1>7. PICK a \in 1..Len(wps[f]) : a = j
  BY <1>5, <1>6
<1>8. PICK b \in 1..Len(wps[f]) : b = ignored_j
  BY <1>5, <1>6
<1>9. Exchanges(f, a, b)
  BY <1>6, <1>7, <1>8 DEF Exchanges
<1>10. /\ Permuted /\ Len(wps'[f]) = Len(wps[f])
       /\ \A k \in 1..Len(wps[f]) : wps'[f][k] = IF k = b THEN wps[f][a]
                                                 ELSE IF k = a THEN wps[f][b] ELSE wps[f][k]
       /\ \A l \in Lit : l # f => wps'[l] = wps[l]
  BY <1>3, <1>6, <1>7, <1>8, <1>9, SwapPermutes
<1>11. \A q \in 1..Len(wps[f]) : \E r \in 1..Len(wps[f]) :
         wps'[f][q] = wps[f][r] /\ (q <= j => r <= j)
  <2>1. a <= j /\ b <= j
    BY <1>1, <1>7, <1>8
  <2> QED
    BY <1>7, <1>10, <2>1
<1> QED
  BY <1>6, <1>10, <1>11

(* A visited clause changes its order only.                                 *)
LEMMA Put ==
  ASSUME BackwardInv, Visiting, PutOtherFirst, Permuted
  PROVE  /\ clauses' \in Seq(Seq(Lit)) /\ Len(clauses') = Len(clauses)
         /\ \A c \in 1..Len(clauses) : Len(clauses'[c]) = Len(clauses[c])
         /\ \A c \in 1..Len(clauses) : c \notin Base => clauses'[c] = clauses[c]
         /\ Watcher \in Base /\ Watcher \in Nat \ {0} /\ OtherFirst[1] \in Lit /\ Visits
<1>1. /\ TrailInv(Base, Bare, clauses[Candidate]) /\ Loops
      /\ i \in 1..Len(units) /\ j \in Nat \ {0}
  BY LoopFacts DEF Visiting, Propagating, Loops
<1>2. Visits
  BY <1>1 DEF Visiting, Visits, Loops
<1>3. PICK live, bare, C : live = Base /\ TrailInv(live, bare, C)
  BY <1>1
<1>4. /\ clauses' \in Seq(Seq(Lit)) /\ Len(clauses') = Len(clauses)
      /\ clauses'[Watcher] = OtherFirst
      /\ \A c \in 1..Len(clauses) : c # Watcher => clauses'[c] = clauses[c]
  BY <1>2, <1>3, PutFirst
<1>5. /\ Watcher \in live /\ Proper(OtherFirst) /\ Len(OtherFirst) = Len(clauses[Watcher])
      /\ Len(clauses[Watcher]) >= 2
  BY <1>2, <1>3, Visit
<1>6. OtherFirst[1] \in Lit
  BY <1>5, ProperFacts
<1>7. Watcher \in Nat \ {0}
  BY <1>3, <1>5, ClauseTypes
<1> QED
  BY <1>2, <1>3, <1>4, <1>5, <1>6, <1>7

LEMMA SkipSatisfiedKeeps == ASSUME BackwardInv, SkipSatisfied PROVE BackwardInv'
<1>1. /\ TrailInv(Base, Bare, clauses[Candidate]) /\ Loops /\ Searched /\ WpUp
      /\ Floor \in Nat \ {0} /\ Len(units) \in Nat
  BY LoopFacts DEF SkipSatisfied, Visiting, Propagating
<1>2. /\ UNCHANGED <<i, progressed_i, bookmarked_i, accepting, wp_up, pc, alphaVars,
                     markVars, upVars, lineVars, passVars>>
      /\ Visiting /\ IsTrue(OtherFirst[1]) /\ PutOtherFirst
      /\ wps' = [wps EXCEPT ![FalsifiedLit] = Swap(@, j, ignored_j)]
      /\ j' = j + 1 /\ ignored_j' = ignored_j + 1 /\ pc \in {"up", "re-up"}
  BY DEF SkipSatisfied, Advance, Visiting, Propagating
<1>3. /\ Len(wps'[FalsifiedLit]) = Len(wps[FalsifiedLit])
      /\ \A l \in Lit : l # FalsifiedLit => wps'[l] = wps[l]
      /\ \A q \in 1..Len(wps[FalsifiedLit]) : \E r \in 1..Len(wps[FalsifiedLit]) :
           wps'[FalsifiedLit][q] = wps[FalsifiedLit][r] /\ (q <= j => r <= j)
      /\ Permuted
  BY <1>2, Exchanged
<1>4. /\ clauses' \in Seq(Seq(Lit)) /\ Len(clauses') = Len(clauses)
      /\ \A c \in 1..Len(clauses) : Len(clauses'[c]) = Len(clauses[c])
      /\ \A c \in 1..Len(clauses) : c \notin Base => clauses'[c] = clauses[c]
      /\ Visits
  BY <1>2, <1>3, Put
<1>5. LoopStep
  BY <1>1, <1>2, <1>4 DEF LoopStep, Settles, Leaves, alphaVars, upVars, levelVars, lineVars,
     passVars
<1>6. PICK live, bare, C : live = Base /\ bare = Bare /\ C = clauses[Candidate]
  OBVIOUS
<1>7. TrailInv(live, bare, C)'
  <2>1. TrailInv(live, bare, C) /\ UNCHANGED <<alphaVars, levelVars, markVars>>
    BY <1>1, <1>2, <1>6 DEF upVars
  <2> QED
    BY <1>2, <1>3, <1>4, <2>1, PutKeeps
<1>8. WpUp'
  BY <1>1, <1>2 DEF WpUp
<1>9. Floor' = Floor
  BY <1>2 DEF Floor, upVars, levelVars
<1>10. Loops'
  BY <1>1, <1>2, <1>9 DEF Loops, alphaVars
<1>11. Searched'
  <2>1. alpha \subseteq alpha' /\ Len(units') \in Nat
        /\ \A n \in 1..Len(units) : units'[n] = units[n]
    BY <1>1, <1>2 DEF alphaVars
  <2>2. \A n \in 1..Len(units'), q \in Nat \ {0} : n >= Floor /\ Done(n, q)' =>
          n <= Len(units) /\ (Done(n, q) \/ (n = i /\ q <= j))
    BY <1>1, <1>2 DEF Done, Loops, alphaVars
  <2> QED
    BY <1>2, <1>3, <1>9, <2>1, <2>2, Walked
<1>12. Propagated'
  BY <1>10, <1>11 DEF Propagated
<1> QED
  BY <1>2, <1>5, <1>6, <1>7, <1>8, <1>12, LoopEnds

LEMMA IgnoreUnusedKeeps == ASSUME BackwardInv, IgnoreUnused PROVE BackwardInv'
<1>1. /\ TrailInv(Base, Bare, clauses[Candidate]) /\ Loops /\ Searched /\ WpUp
      /\ Floor \in Nat \ {0} /\ Len(units) \in Nat
  BY LoopFacts DEF IgnoreUnused, Visiting, Propagating
<1>2. /\ UNCHANGED <<wps, i, ignored_j, progressed_i, accepting, wp_up, pc, alphaVars,
                     markVars, upVars, lineVars, passVars>>
      /\ Visiting /\ Unassigned(OtherFirst[1]) /\ NoReplacement /\ PutOtherFirst
      /\ bookmarked_i' = IF bookmarked_i = 0 THEN i ELSE bookmarked_i
      /\ j' = j + 1 /\ pc \in {"up", "re-up"} /\ i <= Len(units)
  BY DEF IgnoreUnused, Visiting, Propagating
<1>3. Replacements = {}
  BY <1>2, NoneLeft DEF Unassigned
<1>4. Permuted
  BY <1>1, <1>2, UnchangedPermuted
<1>5. /\ clauses' \in Seq(Seq(Lit)) /\ Len(clauses') = Len(clauses)
      /\ \A c \in 1..Len(clauses) : Len(clauses'[c]) = Len(clauses[c])
      /\ \A c \in 1..Len(clauses) : c \notin Base => clauses'[c] = clauses[c]
      /\ Visits
  BY <1>2, <1>4, Put
<1>6. LoopStep
  BY <1>1, <1>2, <1>5 DEF LoopStep, Settles, Leaves, alphaVars, upVars, levelVars, lineVars,
     passVars
<1>7. PICK live, bare, C : live = Base /\ bare = Bare /\ C = clauses[Candidate]
  OBVIOUS
<1>8. TrailInv(live, bare, C)'
  <2>1. TrailInv(live, bare, C) /\ UNCHANGED <<alphaVars, levelVars, markVars>>
    BY <1>1, <1>2, <1>7 DEF upVars
  <2> QED
    BY <1>2, <1>4, <1>5, <2>1, PutKeeps
<1>9. WpUp'
  BY <1>1, <1>2 DEF WpUp
<1>10. Floor' = Floor
  BY <1>2 DEF Floor, upVars, levelVars
<1>11. Loops'
  BY <1>1, <1>2, <1>10 DEF Loops, alphaVars
<1>12. Searched'
  <2>1. alpha \subseteq alpha' /\ Len(units') \in Nat
        /\ \A n \in 1..Len(units) : units'[n] = units[n]
    BY <1>1, <1>2 DEF alphaVars
  <2>2. \A n \in 1..Len(units'), q \in Nat \ {0} : n >= Floor /\ Done(n, q)' =>
          n <= Len(units) /\ (Done(n, q) \/ (n = i /\ q <= j))
    BY <1>1, <1>2 DEF Done, Loops, alphaVars
  <2>3. /\ Len(wps'[FalsifiedLit]) = Len(wps[FalsifiedLit])
        /\ \A l \in Lit : l # FalsifiedLit => wps'[l] = wps[l]
        /\ \A q \in 1..Len(wps[FalsifiedLit]) : \E r \in 1..Len(wps[FalsifiedLit]) :
             wps'[FalsifiedLit][q] = wps[FalsifiedLit][r] /\ (q <= j => r <= j)
    BY <1>2
  <2> QED
    BY <1>2, <1>3, <1>10, <2>1, <2>2, <2>3, Walked
<1>13. Propagated'
  BY <1>11, <1>12 DEF Propagated
<1> QED
  BY <1>2, <1>6, <1>7, <1>8, <1>9, <1>13, LoopEnds

(* The index of a new unit is among those that have a place to start at.     *)
LEMMA NewUnit ==
  ASSUME BackwardInv, pc \in {"up", "re-up"}, Unassigned(OtherFirst[1]), OtherFirst[1] \in Lit,
         Watcher \in Nat \ {0}, SetUnit(OtherFirst[1], Watcher)
  PROVE  /\ Len(units') = Len(units) + 1 /\ Len(units') \in 1..Cardinality(Var)
         /\ \A n \in 1..Len(units) : units'[n] = units[n]
         /\ alpha \subseteq alpha'
<1>1. TrailTypes /\ TrailExact /\ Len(units) \in Nat
  BY LoopFacts DEF TrailInv
<1>2. PICK l \in Lit : l = OtherFirst[1]
  OBVIOUS
<1>3. PICK c \in Nat \ {0} : c = Watcher
  OBVIOUS
<1>4. SetUnit(l, c) /\ Unassigned(l)
  BY <1>2, <1>3
<1>5. /\ units' \in Seq(Unit) /\ Len(units') = Len(units) + 1
      /\ \A n \in 1..Len(units) : units'[n] = units[n]
      /\ TrailExact'
  BY <1>1, <1>4, TrailExtended
<1>6. PICK u : u = units'
  OBVIOUS
<1>7. \A m, n \in 1..Len(u) : VarOf(u[m].lit) = VarOf(u[n].lit) => m = n
  BY <1>5, <1>6 DEF TrailExact
<1>8. Len(u) <= Cardinality(Var) /\ Cardinality(Var) \in Nat
  BY <1>5, <1>6, <1>7, UnitsBounded
<1>9. alpha \subseteq alpha'
  BY DEF SetUnit
<1> QED
  BY <1>1, <1>5, <1>6, <1>8, <1>9

LEMMA FindCoreUnitKeeps == ASSUME BackwardInv, FindCoreUnit PROVE BackwardInv'
<1>1. /\ TrailInv(Base, Bare, clauses[Candidate]) /\ Loops /\ Searched /\ WpUp
      /\ Floor \in Nat \ {0} /\ Len(units) \in Nat
  BY LoopFacts DEF FindCoreUnit, Visiting, Propagating
<1>2. /\ UNCHANGED <<i, progressed_i, bookmarked_i, accepting, pc, markVars, upVars, lineVars,
                     passVars>>
      /\ Visiting /\ Unassigned(OtherFirst[1]) /\ NoReplacement /\ PutOtherFirst
      /\ SetUnit(OtherFirst[1], Watcher) /\ wp_up' = [wp_up EXCEPT ![Len(units')] = 1]
      /\ wps' = [wps EXCEPT ![FalsifiedLit] = Swap(@, j, ignored_j)]
      /\ j' = j + 1 /\ ignored_j' = ignored_j + 1 /\ pc \in {"up", "re-up"} /\ i <= Len(units)
  BY DEF FindCoreUnit, Advance, Visiting, Propagating
<1>3. Replacements = {}
  BY <1>2, NoneLeft DEF Unassigned
<1>4. /\ Len(wps'[FalsifiedLit]) = Len(wps[FalsifiedLit])
      /\ \A l \in Lit : l # FalsifiedLit => wps'[l] = wps[l]
      /\ \A q \in 1..Len(wps[FalsifiedLit]) : \E r \in 1..Len(wps[FalsifiedLit]) :
           wps'[FalsifiedLit][q] = wps[FalsifiedLit][r] /\ (q <= j => r <= j)
      /\ Permuted
  BY <1>2, Exchanged
<1>5. /\ clauses' \in Seq(Seq(Lit)) /\ Len(clauses') = Len(clauses)
      /\ \A c \in 1..Len(clauses) : Len(clauses'[c]) = Len(clauses[c])
      /\ \A c \in 1..Len(clauses) : c \notin Base => clauses'[c] = clauses[c]
      /\ Watcher \in Base /\ Watcher \in Nat \ {0} /\ OtherFirst[1] \in Lit /\ Visits
  BY <1>2, <1>4, Put
<1>6. /\ Len(units') = Len(units) + 1 /\ Len(units') \in 1..Cardinality(Var)
      /\ \A n \in 1..Len(units) : units'[n] = units[n]
      /\ alpha \subseteq alpha'
  BY <1>2, <1>5, NewUnit
<1>7. LoopStep
  BY <1>1, <1>2, <1>5, <1>6 DEF LoopStep, Settles, Leaves, upVars, levelVars, lineVars, passVars
<1>8. PICK live, bare, C : live = Base /\ bare = Bare /\ C = clauses[Candidate]
  OBVIOUS
<1>9. TrailInv(live, bare, C)'
  <2>1. TrailInv(live, bare, C) /\ UNCHANGED <<levelVars, markVars>>
    BY <1>1, <1>2, <1>8 DEF upVars
  <2> QED
    BY <1>2, <1>3, <1>4, <1>5, <2>1, UnitKeeps
<1>10. WpUp' /\ wp_up'[Len(units) + 1] = 1 /\ \A n \in 1..Len(units) : wp_up'[n] = wp_up[n]
  BY <1>1, <1>2, <1>6 DEF WpUp
<1>11. Floor' = Floor
  BY <1>2 DEF Floor, upVars, levelVars
<1>12. Loops'
  BY <1>1, <1>2, <1>6, <1>11 DEF Loops
<1>13. Searched'
  <2>1. \A n \in 1..Len(units'), q \in Nat \ {0} : n >= Floor /\ Done(n, q)' =>
          n <= Len(units) /\ (Done(n, q) \/ (n = i /\ q <= j))
    BY <1>1, <1>2, <1>6, <1>10 DEF Done, Loops
  <2> QED
    BY <1>1, <1>2, <1>3, <1>4, <1>6, <1>11, <2>1, Walked
<1>14. Propagated'
  BY <1>12, <1>13 DEF Propagated
<1> QED
  BY <1>2, <1>7, <1>8, <1>9, <1>10, <1>14, LoopEnds

LEMMA AcceptUnusedKeeps == ASSUME BackwardInv, AcceptUnused PROVE BackwardInv'
<1>1. /\ TrailInv(Base, Bare, clauses[Candidate]) /\ Loops /\ Searched /\ WpUp
      /\ Floor \in Nat \ {0} /\ Len(units) \in Nat
      /\ Len(units) <= Cardinality(Var) /\ Cardinality(Var) \in Nat
  BY LoopFacts DEF AcceptUnused, Visiting, Propagating
<1>2. /\ UNCHANGED <<progressed_i, pc, markVars, upVars, lineVars, passVars>>
      /\ Visiting /\ Unassigned(OtherFirst[1]) /\ NoReplacement /\ PutOtherFirst
      /\ SetUnit(OtherFirst[1], Watcher)
      /\ wp_up' = [wp_up EXCEPT ![Len(units')] = 1, ![i] = ignored_j + 1]
      /\ wps' = [wps EXCEPT ![FalsifiedLit] = Swap(@, j, ignored_j)]
      /\ i' = progressed_i /\ j' = wp_up'[i'] /\ ignored_j' = j' /\ accepting
      /\ accepting' = AcceptAfterOne /\ bookmarked_i' = i
      /\ pc \in {"up", "re-up"} /\ i <= Len(units)
  BY DEF AcceptUnused, Visiting, Propagating
<1>3. Replacements = {}
  BY <1>2, NoneLeft DEF Unassigned
<1>4. /\ Len(wps'[FalsifiedLit]) = Len(wps[FalsifiedLit])
      /\ \A l \in Lit : l # FalsifiedLit => wps'[l] = wps[l]
      /\ \A q \in 1..Len(wps[FalsifiedLit]) : \E r \in 1..Len(wps[FalsifiedLit]) :
           wps'[FalsifiedLit][q] = wps[FalsifiedLit][r] /\ (q <= j => r <= j)
      /\ Permuted
  BY <1>2, Exchanged
<1>5. /\ clauses' \in Seq(Seq(Lit)) /\ Len(clauses') = Len(clauses)
      /\ \A c \in 1..Len(clauses) : Len(clauses'[c]) = Len(clauses[c])
      /\ \A c \in 1..Len(clauses) : c \notin Base => clauses'[c] = clauses[c]
      /\ Watcher \in Base /\ Watcher \in Nat \ {0} /\ OtherFirst[1] \in Lit /\ Visits
  BY <1>2, <1>4, Put
<1>6. /\ Len(units') = Len(units) + 1 /\ Len(units') \in 1..Cardinality(Var)
      /\ \A n \in 1..Len(units) : units'[n] = units[n]
      /\ alpha \subseteq alpha'
  BY <1>2, <1>5, NewUnit
<1>7. LoopStep
  BY <1>1, <1>2, <1>5, <1>6 DEF LoopStep, Settles, Leaves, upVars, levelVars, lineVars, passVars
<1>8. PICK live, bare, C : live = Base /\ bare = Bare /\ C = clauses[Candidate]
  OBVIOUS
<1>9. TrailInv(live, bare, C)'
  <2>1. TrailInv(live, bare, C) /\ UNCHANGED <<levelVars, markVars>>
    BY <1>1, <1>2, <1>8 DEF upVars
  <2> QED
    BY <1>2, <1>3, <1>4, <1>5, <2>1, UnitKeeps
<1>10. /\ i \in 1..Len(units) /\ i >= Floor /\ ignored_j \in Nat \ {0} /\ ignored_j <= j
       /\ progressed_i \in 1..Len(units) + 1 /\ progressed_i >= Floor /\ j \in Nat \ {0}
  BY <1>1, <1>2 DEF Loops
<1>11. /\ WpUp' /\ wp_up'[Len(units) + 1] = 1 /\ wp_up'[i] = ignored_j + 1
       /\ \A n \in 1..Len(units) : n # i => wp_up'[n] = wp_up[n]
  <2>1. PICK p : p = Len(units')
    OBVIOUS
  <2>2. p = Len(units) + 1 /\ p \in 1..Cardinality(Var) /\ i \in 1..Cardinality(Var) /\ i # p
    BY <1>1, <1>6, <1>10, <2>1
  <2>3. wp_up' = [wp_up EXCEPT ![p] = 1, ![i] = ignored_j + 1]
    BY <1>2, <2>1
  <2>4. ignored_j + 1 \in Nat \ {0} /\ wp_up \in [1..Cardinality(Var) -> Nat \ {0}]
    BY <1>1, <1>10 DEF WpUp
  <2>5. /\ wp_up' \in [1..Cardinality(Var) -> Nat \ {0}]
        /\ wp_up'[p] = 1 /\ wp_up'[i] = ignored_j + 1
        /\ \A n \in 1..Cardinality(Var) : n # i /\ n # p => wp_up'[n] = wp_up[n]
    BY <2>2, <2>3, <2>4
  <2> QED
    BY <1>1, <2>2, <2>5 DEF WpUp
<1>12. j' \in Nat \ {0} /\ j' = wp_up'[progressed_i]
  BY <1>1, <1>2, <1>6, <1>10, <1>11 DEF WpUp
<1>13. Floor' = Floor
  BY <1>2 DEF Floor, upVars, levelVars
<1>14. Loops'
  <2>1. /\ i' = progressed_i /\ ignored_j' = j' /\ accepting' = FALSE /\ bookmarked_i' = i
        /\ progressed_i' = progressed_i
    BY <1>2 DEF AcceptAfterOne
  <2>2. i' \in Nat \ {0} /\ i' >= Floor' /\ i' <= Len(units') + 1
    BY <1>1, <1>6, <1>10, <1>13, <2>1
  <2>3. j' \in Nat \ {0} /\ ignored_j' \in Nat \ {0} /\ ignored_j' <= j'
    BY <1>12, <2>1
  <2>4. bookmarked_i' \in Nat /\ bookmarked_i' >= Floor' /\ bookmarked_i' <= Len(units')
    BY <1>1, <1>6, <1>10, <1>13, <2>1
  <2>5. progressed_i' \in 1..Len(units') + 1
    BY <1>1, <1>6, <1>10, <2>1
  <2> QED
    BY <2>1, <2>2, <2>3, <2>4, <2>5 DEF Loops
<1>15. Searched'
  <2>1. \A n \in 1..Len(units'), q \in Nat \ {0} : n >= Floor /\ Done(n, q)' =>
          n <= Len(units) /\ (Done(n, q) \/ (n = i /\ q <= j))
    <3> SUFFICES ASSUME NEW n \in 1..Len(units'), NEW q \in Nat \ {0}, Done(n, q)'
                 PROVE  n <= Len(units) /\ (Done(n, q) \/ (n = i /\ q <= j))
      OBVIOUS
    <3>1. i' = progressed_i /\ progressed_i' = progressed_i
      BY <1>2
    <3>2. n <= Len(units)
      BY <1>1, <1>6, <1>10, <1>11, <1>12, <3>1 DEF Done
    <3>3. n < progressed_i \/ q < wp_up'[n]
      BY <1>12, <3>1 DEF Done
    <3>4. CASE n < progressed_i
      BY <3>2, <3>4 DEF Done
    <3>5. CASE n = i /\ q < wp_up'[n]
      BY <1>10, <1>11, <3>2, <3>5
    <3>6. CASE n # i /\ q < wp_up'[n]
      <4>1. q < wp_up[n]
        BY <1>1, <1>11, <3>2, <3>6
      <4> QED
        BY <1>1, <1>10, <3>2, <3>6, <4>1 DEF Done
    <3> QED
      BY <3>3, <3>4, <3>5, <3>6
  <2> QED
    BY <1>1, <1>2, <1>3, <1>4, <1>6, <1>13, <2>1, Walked
<1>16. Propagated'
  BY <1>14, <1>15 DEF Propagated
<1> QED
  BY <1>2, <1>7, <1>8, <1>9, <1>11, <1>16, LoopEnds

(* The list of the visited clause loses it, that of the literal that replaces
   the watch gets it; the places that are done with are not disturbed.       *)
LEMMA ReplaceWatchKeeps == ASSUME BackwardInv, ReplaceWatch PROVE BackwardInv'
<1>1. /\ TrailInv(Base, Bare, clauses[Candidate]) /\ Loops /\ Searched /\ WpUp
      /\ Floor \in Nat \ {0} /\ Len(units) \in Nat
  BY LoopFacts DEF ReplaceWatch, Visiting, Propagating
<1>2. /\ UNCHANGED <<i, j, ignored_j, progressed_i, bookmarked_i, accepting, wp_up, pc,
                     alphaVars, markVars, upVars, lineVars, passVars>>
      /\ Visiting /\ ~IsTrue(OtherFirst[1]) /\ ~NoReplacement /\ MoveWatch
      /\ pc \in {"up", "re-up"} /\ i <= Len(units)
  BY DEF ReplaceWatch, Visiting, Propagating, loopVars
<1>3. Replacements # {} /\ ~(i < progressed_i)
  BY <1>2 DEF NoReplacement
<1>4. Visits /\ i \in 1..Len(units) /\ i \in Nat /\ j \in Nat \ {0}
  BY <1>1, <1>2 DEF Visiting, Visits, Loops
<1>5. PICK live, bare, C : live = Base /\ bare = Bare /\ C = clauses[Candidate]
  OBVIOUS
<1>6. TrailInv(live, bare, C) /\ UNCHANGED <<alphaVars, levelVars, markVars>>
  BY <1>1, <1>2, <1>5 DEF upVars
<1>7. TrailInv(live, bare, C)'
  BY <1>2, <1>3, <1>4, <1>6, MoveKeeps
<1>8. /\ FalsifiedLit \in Lit /\ ~IsTrue(FalsifiedLit) /\ Watcher = wps[FalsifiedLit][j]
      /\ Watcher \in live /\ Watcher \in 1..Len(clauses) /\ Len(clauses[Watcher]) >= 2
      /\ Proper(OtherFirst) /\ Len(OtherFirst) = Len(clauses[Watcher])
      /\ OtherFirst[2] = FalsifiedLit
      /\ \/ OtherFirst = clauses[Watcher]
         \/ /\ clauses[Watcher][1] = FalsifiedLit
            /\ OtherFirst[1] = clauses[Watcher][2]
            /\ \A k \in 3..Len(OtherFirst) : OtherFirst[k] = clauses[Watcher][k]
  BY <1>4, <1>6, Visit
<1>9. PICK k \in 3..Len(OtherFirst) :
        /\ ~IsFalse(OtherFirst[k]) /\ OtherFirst[k] \in Lit /\ OtherFirst[k] # FalsifiedLit
        /\ clauses' = [clauses EXCEPT ![Watcher] = Swap(OtherFirst, 2, k)]
        /\ wps'[OtherFirst[k]] = Append(wps[OtherFirst[k]], Watcher)
        /\ wps'[FalsifiedLit] = RemoveWatch(wps[FalsifiedLit], j)
        /\ \A l \in Lit : l # OtherFirst[k] /\ l # FalsifiedLit => wps'[l] = wps[l]
  BY <1>2, <1>3, <1>4, <1>6, MoveFacts
<1>10. /\ clauses' \in Seq(Seq(Lit)) /\ Len(clauses') = Len(clauses)
       /\ \A c \in 1..Len(clauses) : c # Watcher => clauses'[c] = clauses[c]
       /\ \A c \in 1..Len(clauses) : Len(clauses'[c]) = Len(clauses[c])
  <2>1. 2 \in 1..Len(OtherFirst) /\ k \in 1..Len(OtherFirst)
    BY <1>8, <1>9, ProperFacts
  <2>2. Proper(Swap(OtherFirst, 2, k)) /\ Len(Swap(OtherFirst, 2, k)) = Len(clauses[Watcher])
    BY <1>8, <2>1, Swapped
  <2>3. TrailTypes /\ ClausesProper
    BY <1>6 DEF TrailInv
  <2> QED
    BY <1>8, <1>9, <2>2, <2>3, ClauseEdited
<1>11. LoopStep
  BY <1>1, <1>2, <1>5, <1>8, <1>10 DEF LoopStep, Settles, Leaves, alphaVars, upVars,
     levelVars, lineVars, passVars
<1>12. WpUp'
  BY <1>1, <1>2 DEF WpUp
<1>13. Floor' = Floor
  BY <1>2 DEF Floor, upVars, levelVars
<1>14. Loops'
  BY <1>1, <1>2, <1>13 DEF Loops, alphaVars
<1>15. Searched'
  <2> SUFFICES ASSUME NEW n \in 1..Len(units'), n >= Floor,
                      NEW q \in 1..Len(wps'[-units'[n].lit]), Done(n, q)'
               PROVE  Exhausted(wps[-units[n].lit][q], -units[n].lit)'
    BY <1>13 DEF Searched
  <2>1. /\ n \in 1..Len(units) /\ units' = units /\ alpha' = alpha /\ Done(n, q)
        /\ q \in Nat \ {0}
    BY <1>1, <1>2 DEF alphaVars, Done
  <2>2. /\ units[n].lit \in Lit /\ -units[n].lit \in Lit /\ IsFalse(-units[n].lit)
        /\ n # i => -units[n].lit # FalsifiedLit
    <3>1. \A m \in 1..Len(units) : units[m].lit \in Lit
      BY <1>6, UnitTypes DEF TrailInv
    <3>2. /\ \A m1, m2 \in 1..Len(units) : VarOf(units[m1].lit) = VarOf(units[m2].lit) => m1 = m2
          /\ units[n].lit \in alpha
      BY <1>6, <2>1 DEF TrailInv, TrailExact
    <3>3. \A m \in 1..Len(units) :
            /\ -units[m].lit \in Lit /\ VarOf(-units[m].lit) = VarOf(units[m].lit)
            /\ -(-units[m].lit) = units[m].lit
      BY <3>1, LitFacts
    <3> QED
      BY <1>4, <2>1, <3>1, <3>2, <3>3 DEF FalsifiedLit, IsFalse
  <2>3. PICK l \in Lit : l = -units[n].lit
    BY <2>2
  <2>4. l # OtherFirst[k] /\ IsFalse(l)
    BY <1>9, <2>2, <2>3
  <2>5. wps[l] \in Seq(Nat) /\ OnceEach(wps[l]) /\ Len(wps[l]) \in Nat
        /\ \A c \in Nat : Has(wps[l], c) =>
             c \in live /\ Len(clauses[c]) >= 2 /\ (l = clauses[c][1] \/ l = clauses[c][2])
    BY <1>6, LenProperties DEF TrailInv, TrailTypes, WatchesHold
  <2>6. /\ q \in 1..Len(wps[l]) /\ wps'[l][q] = wps[l][q] /\ (n = i => q # j)
    <3>1. CASE n = i
      <4>1. l = FalsifiedLit /\ q < j
        BY <1>2, <1>3, <1>4, <2>1, <2>3, <3>1 DEF FalsifiedLit, Done
      <4>2. j \in 1..Len(wps[l])
        BY <1>4, <4>1 DEF Visits
      <4>3. PICK t : t = [wps[l] EXCEPT ![j] = wps[l][Len(wps[l])]]
        OBVIOUS
      <4>4. t \in Seq(Nat) /\ Len(t) = Len(wps[l]) /\ t[q] = wps[l][q]
        <5>1. PICK list : list = wps[l]
          OBVIOUS
        <5>2. list \in Seq(Nat) /\ Len(list) \in Nat /\ j \in 1..Len(list) /\ q \in Nat \ {0} /\ q < j
          BY <2>1, <2>5, <4>1, <4>2, <5>1
        <5>3. q \in 1..Len(list) /\ Len(list) \in 1..Len(list) /\ list[Len(list)] \in Nat
          BY ONLY <5>2, ElementOfSeq
        <5>4. t = [list EXCEPT ![j] = list[Len(list)]]
          BY <4>3, <5>1
        <5>5. t \in Seq(Nat) /\ Len(t) = Len(list) /\ t[q] = list[q]
          BY ONLY <5>2, <5>3, <5>4, ExceptSeq
        <5> QED
          BY <5>1, <5>5
      <4>5. PICK m : m = Len(wps[l]) - 1
        OBVIOUS
      <4>6. m \in Nat /\ m <= Len(t) /\ q \in 1..m /\ q \in 1..Len(wps[l])
        <5>1. PICK len : len = Len(wps[l])
          OBVIOUS
        <5>2. len \in Nat /\ Len(t) = len /\ m = len - 1 /\ j \in 1..len
          BY <2>5, <4>2, <4>4, <4>5, <5>1
        <5>3. q \in Nat \ {0} /\ q < j
          BY <2>1, <4>1
        <5> QED
          BY ONLY <5>1, <5>2, <5>3
      <4>7. RemoveWatch(wps[l], j) = SubSeq(t, 1, m)
        BY <4>3, <4>5 DEF RemoveWatch
      <4>8. RemoveWatch(wps[l], j)[q] = wps[l][q]
        BY ONLY <4>4, <4>6, <4>7, Prefix
      <4>9. wps'[l] = RemoveWatch(wps[l], j)
        BY <1>9, <4>1
      <4> QED
        BY <2>1, <4>1, <4>6, <4>8, <4>9
    <3>2. CASE n # i
      <4>1. wps'[l] = wps[l]
        BY <1>9, <2>2, <2>3, <2>4, <3>2
      <4> QED
        BY <2>1, <2>3, <3>2, <4>1
    <3> QED
      BY <3>1, <3>2
  <2>7. PICK c \in Nat : c = wps[l][q]
    BY <2>5, <2>6, ElementOfSeq
  <2>8. Exhausted(c, l)
    BY <1>1, <2>1, <2>3, <2>6, <2>7 DEF Searched
  <2>9. c \in live /\ (l = clauses[c][1] \/ l = clauses[c][2])
    BY <2>5, <2>6, <2>7 DEF Has
  <2>10. c # Watcher
    <3> SUFFICES ASSUME c = Watcher PROVE FALSE
      OBVIOUS
    <3>1. CASE l = FalsifiedLit
      <4>1. n = i
        BY <2>2, <2>3, <3>1
      <4>2. j \in 1..Len(wps[l]) /\ wps[l][j] = wps[l][q]
        BY <1>4, <1>8, <2>7, <3>1 DEF Visits
      <4> QED
        BY <2>5, <2>6, <4>1, <4>2 DEF OnceEach
    <3>2. CASE l # FalsifiedLit
      <4>1. l = OtherFirst[1]
        BY <1>8, <2>9, <3>2
      <4>2. \A m \in 1..2 : clauses[c][m] # l => clauses[c][m] = FalsifiedLit
        BY <1>8, <4>1
      <4>3. \A m \in 3..Len(clauses[c]) : IsFalse(clauses[c][m])
        BY <1>8, <2>8, <4>2 DEF Exhausted
      <4>4. OtherFirst[k] = clauses[c][k] /\ k \in 3..Len(clauses[c])
        BY <1>8, <1>9
      <4> QED
        BY <1>9, <4>3, <4>4
    <3> QED
      BY <3>1, <3>2
  <2>11. clauses'[c] = clauses[c]
    BY <1>6, <1>10, <2>9, <2>10, ClauseTypes
  <2>12. Exhausted(c, l)'
    BY <2>1, <2>8, <2>11 DEF Exhausted, IsTrue, IsFalse
  <2>13. wps'[-units'[n].lit][q] = c /\ -units'[n].lit = l
    BY <2>1, <2>3, <2>6, <2>7
  <2> QED
    BY <2>12, <2>13
<1>16. Propagated'
  BY <1>14, <1>15 DEF Propagated
<1> QED
  BY <1>2, <1>5, <1>7, <1>11, <1>12, <1>16, LoopEnds

LEMMA FindConflictKeeps == ASSUME BackwardInv, FindConflict PROVE BackwardInv'
<1>1. /\ TrailInv(Base, Bare, clauses[Candidate]) /\ WpUp /\ Len(units) \in Nat
  BY LoopFacts DEF FindConflict, Visiting, Propagating
<1>2. /\ UNCHANGED <<wps, wp_up, alphaVars, markVars, upVars, lineVars, passVars>>
      /\ Visiting /\ PutOtherFirst /\ pc \in {"up", "re-up"}
      /\ pc' = IF pc = "re-up" THEN "check" ELSE "falsified"
  BY DEF FindConflict, Visiting, Propagating
<1>3. Permuted
  BY <1>1, <1>2, UnchangedPermuted
<1>4. /\ clauses' \in Seq(Seq(Lit)) /\ Len(clauses') = Len(clauses)
      /\ \A c \in 1..Len(clauses) : Len(clauses'[c]) = Len(clauses[c])
      /\ \A c \in 1..Len(clauses) : c \notin Base => clauses'[c] = clauses[c]
      /\ Visits
  BY <1>2, <1>3, Put
<1>5. LoopStep
  BY <1>1, <1>2, <1>4 DEF LoopStep, Settles, Leaves, alphaVars, upVars, levelVars, lineVars,
     passVars
<1>6. PICK live, bare, C : live = Base /\ bare = Bare /\ C = clauses[Candidate]
  OBVIOUS
<1>7. TrailInv(live, bare, C)'
  <2>1. TrailInv(live, bare, C) /\ UNCHANGED <<alphaVars, levelVars, markVars>>
    BY <1>1, <1>2, <1>6 DEF upVars
  <2> QED
    BY <1>2, <1>3, <1>4, <2>1, PutKeeps
<1>8. WpUp' /\ Propagated'
  BY <1>1, <1>2 DEF WpUp, Propagated
<1> QED
  BY <1>2, <1>5, <1>6, <1>7, <1>8, LoopEnds

(* The trail and the clauses stay as they are.                              *)
LEMMA Steady ==
  ASSUME NEW live, NEW bare, NEW C, TrailInv(live, bare, C),
         UNCHANGED <<clauses, wps, alphaVars, levelVars, markVars>>
  PROVE  TrailInv(live, bare, C)'
<1>1. /\ clauses \in Seq(Seq(Lit)) /\ ClausesProper /\ live \subseteq 1..Len(clauses)
      /\ clauses' = clauses /\ UNCHANGED <<wps, alphaVars, levelVars, markVars>>
  BY DEF TrailInv, TrailTypes
<1>2. ClausesProper'
  BY <1>1 DEF ClausesProper
<1> QED
  BY <1>1, <1>2, StillKeeps

(* A step of the loops that only moves them.                                *)
LEMMA LoopMoves ==
  ASSUME BackwardInv, pc \in {"up", "re-up"}, UNCHANGED Settles, Leaves,
         global_up' = global_up \/ global_up' \in 1..Len(units) + 1,
         UNCHANGED <<clauses, wps, alphaVars, levelVars, markVars>>,
         WpUp', Propagated'
  PROVE  BackwardInv'
<1>1. TrailInv(Base, Bare, clauses[Candidate]) /\ Len(units) \in Nat
  BY LoopFacts
<1>2. units' = units /\ clauses' = clauses /\ clauses \in Seq(Seq(Lit))
  BY <1>1 DEF alphaVars, TrailInv, TrailTypes
<1>3. LoopStep
  BY <1>1, <1>2 DEF LoopStep
<1>4. PICK live, bare, C : live = Base /\ bare = Bare /\ C = clauses[Candidate]
  OBVIOUS
<1>5. TrailInv(live, bare, C)'
  BY <1>1, <1>4, Steady
<1> QED
  BY <1>3, <1>4, <1>5, LoopEnds

(* What is done with stays so.                                              *)
LEMMA SearchedStays ==
  ASSUME Searched, UNCHANGED <<clauses, wps, alphaVars>>, Floor' = Floor,
         \A n \in 1..Len(units) : \A q \in 1..Len(wps[-units[n].lit]) : Done(n, q)' => Done(n, q)
  PROVE  Searched'
<1>1. units' = units /\ alpha' = alpha /\ clauses' = clauses /\ wps' = wps
  BY DEF alphaVars
<1>2. \A c, l : Exhausted(c, l)' <=> Exhausted(c, l)
  BY <1>1 DEF Exhausted, IsTrue, IsFalse
<1> SUFFICES ASSUME NEW n \in 1..Len(units), n >= Floor,
                    NEW q \in 1..Len(wps[-units[n].lit]), Done(n, q)'
             PROVE  Exhausted(wps[-units[n].lit][q], -units[n].lit)'
  BY <1>1 DEF Searched
<1>3. PICK c, l : c = wps[-units[n].lit][q] /\ l = -units[n].lit
  OBVIOUS
<1>4. Exhausted(c, l)
  BY <1>3 DEF Searched
<1>5. Exhausted(c, l)'
  BY <1>2, <1>4
<1> QED
  BY <1>1, <1>3, <1>5

LEMMA NextUnitKeeps == ASSUME BackwardInv, NextUnit PROVE BackwardInv'
<1>1. /\ Loops /\ Searched /\ WpUp /\ Floor \in Nat \ {0} /\ Len(units) \in Nat
      /\ Len(units) <= Cardinality(Var) /\ Cardinality(Var) \in Nat
      /\ TrailInv(Base, Bare, clauses[Candidate])
  BY LoopFacts DEF NextUnit, Propagating
<1>2. /\ pc \in {"up", "re-up"} /\ i <= Len(units) /\ j > Len(wps[FalsifiedLit])
      /\ wp_up' = [wp_up EXCEPT ![i] = ignored_j]
      /\ i' = i + 1 /\ j' = StartOf(i + 1) /\ ignored_j' = j'
      /\ UNCHANGED <<clauses, wps, progressed_i, bookmarked_i, accepting, pc, alphaVars,
                     markVars, upVars, lineVars, passVars>>
  BY DEF NextUnit, Propagating
<1>3. i \in 1..Len(units) /\ i \in 1..Cardinality(Var) /\ i >= Floor /\ ignored_j \in Nat \ {0}
      /\ j \in Nat
  BY <1>1, <1>2 DEF Loops
<1>4. wp_up \in [1..Cardinality(Var) -> Nat \ {0}]
  BY <1>1 DEF WpUp
<1>5. WpUp' /\ \A n \in 1..Len(units) : n # i => wp_up'[n] = wp_up[n]
  BY <1>1, <1>2, <1>3, <1>4 DEF WpUp
<1>6. j' \in Nat \ {0} /\ (i + 1 <= Len(units) => j' = wp_up[i + 1])
  BY <1>1, <1>2, <1>3, <1>4 DEF StartOf
<1>7. Floor' = Floor /\ units' = units
  BY <1>2 DEF Floor, upVars, levelVars, alphaVars
<1>8. Loops'
  BY <1>1, <1>2, <1>3, <1>6, <1>7 DEF Loops
<1>9. Searched'
  <2>1. \A n \in 1..Len(units) : \A q \in 1..Len(wps[-units[n].lit]) : Done(n, q)' => Done(n, q)
    <3> SUFFICES ASSUME NEW n \in 1..Len(units), NEW q \in 1..Len(wps[-units[n].lit]),
                        Done(n, q)'
                 PROVE  Done(n, q)
      OBVIOUS
    <3>1. i' = i + 1 /\ progressed_i' = progressed_i
      BY <1>2
    <3>2. CASE n = i
      <4>1. -units[n].lit = FalsifiedLit
        BY <3>2 DEF FalsifiedLit
      <4>2. FalsifiedLit \in Lit /\ wps \in [Lit -> Seq(Nat)]
        <5>1. TrailTypes
          BY <1>1 DEF TrailInv
        <5>2. units[n].lit \in Lit
          BY <5>1, UnitTypes
        <5> QED
          BY <4>1, <5>1, <5>2, LitFacts DEF TrailTypes
      <4>3. Len(wps[FalsifiedLit]) \in Nat
        BY <4>2, LenProperties
      <4>4. q < j
        BY <1>2, <1>3, <4>1, <4>3
      <4> QED
        BY <3>2, <4>4 DEF Done
    <3>3. CASE n < i
      BY <3>3 DEF Done
    <3>4. CASE n > i
      <4>1. n < progressed_i \/ (n = i + 1 /\ q < j') \/ q < wp_up'[n]
        BY <1>3, <3>1, <3>4 DEF Done
      <4>2. wp_up'[n] = wp_up[n] /\ (n = i + 1 => j' = wp_up[n])
        BY <1>3, <1>5, <1>6, <3>4
      <4> QED
        BY <3>4, <4>1, <4>2 DEF Done
    <3> QED
      BY <1>3, <3>2, <3>3, <3>4
  <2> QED
    BY <1>1, <1>2, <1>7, <2>1, SearchedStays
<1>10. Propagated'
  BY <1>8, <1>9 DEF Propagated
<1> QED
  BY <1>2, <1>5, <1>10, LoopMoves DEF Settles, Leaves, upVars, levelVars, lineVars, passVars

LEMMA ReturnToIgnoredKeeps == ASSUME BackwardInv, ReturnToIgnored PROVE BackwardInv'
<1>1. /\ Loops /\ Searched /\ WpUp /\ Floor \in Nat \ {0} /\ Len(units) \in Nat
      /\ Len(units) <= Cardinality(Var) /\ Cardinality(Var) \in Nat
  BY LoopFacts DEF ReturnToIgnored
<1>2. /\ pc \in {"up", "re-up"} /\ i > Len(units) /\ bookmarked_i # 0
      /\ progressed_i' = i /\ i' = bookmarked_i /\ j' = StartOf(i') /\ ignored_j' = j'
      /\ accepting' = TRUE
      /\ UNCHANGED <<clauses, wps, wp_up, bookmarked_i, pc, alphaVars, markVars, upVars,
                     lineVars, passVars>>
  BY DEF ReturnToIgnored, IgnoredSome, Accepting
<1>3. WpUp'
  BY <1>1, <1>2 DEF WpUp
<1>4. /\ i = Len(units) + 1 /\ i >= Floor /\ bookmarked_i \in 1..Len(units)
      /\ bookmarked_i >= Floor
  BY <1>1, <1>2 DEF Loops
<1>5. j' \in Nat \ {0}
  BY <1>1, <1>2, <1>4 DEF StartOf, WpUp
<1>6. Floor' = Floor /\ units' = units
  BY <1>2 DEF Floor, upVars, levelVars, alphaVars
<1>7. Loops'
  BY <1>1, <1>2, <1>4, <1>5, <1>6 DEF Loops
<1>8. Searched'
  <2>1. \A n \in 1..Len(units) : \A q \in 1..Len(wps[-units[n].lit]) : Done(n, q)
    BY <1>1, <1>4 DEF Done
  <2> QED
    BY <1>1, <1>2, <1>6, <2>1, SearchedStays
<1>9. Propagated'
  BY <1>7, <1>8 DEF Propagated
<1> QED
  BY <1>2, <1>3, <1>9, LoopMoves DEF Settles, Leaves, upVars, levelVars, lineVars, passVars

LEMMA FinishUpKeeps == ASSUME BackwardInv, FinishUp PROVE BackwardInv'
<1>1. /\ Loops /\ WpUp /\ Len(units) \in Nat /\ i \in Nat \ {0} /\ i <= Len(units) + 1
      /\ Data
  BY LoopFacts DEF FinishUp, Loops, BackwardInv, Stopped
<1>2. /\ pc \in {"up", "re-up"}
      /\ global_up' = IF up_state = "GLOBAL_UP" THEN i ELSE global_up
      /\ pc' = CASE up_state = "RAT_UP"       -> "FATAL"
                 [] up_state = "CANDIDATE_UP" -> "witness"
                 [] OTHER                     -> IF pc = "re-up" THEN "check"
                                                 ELSE IF derived_empty_clause THEN "derived"
                                                 ELSE AfterAdding(loaded)
      /\ UNCHANGED <<clauses, wps, loopVars, alphaVars, markVars, levelVars, lineVars, passVars>>
  BY DEF FinishUp
<1>3. CASE pc' = "FATAL"
  BY <1>3 DEF BackwardInv, Stopped
<1>4. CASE pc' # "FATAL"
  <2>1. pc = "re-up" => up_state = "GLOBAL_UP"
    BY <1>1 DEF Data, BackwardControl
  <2>2. up_state \in {"GLOBAL_UP", "CANDIDATE_UP", "RAT_UP"}
    BY <1>2, LoopFacts DEF TrailInv, TrailTypes
  <2>3. PICK next : next = AfterAdding(loaded)
    OBVIOUS
  <2>4. pc' = CASE up_state = "RAT_UP"       -> "FATAL"
               [] up_state = "CANDIDATE_UP" -> "witness"
               [] OTHER -> IF pc = "re-up" THEN "check"
                           ELSE IF derived_empty_clause THEN "derived" ELSE next
    BY <1>2, <2>3
  <2>5. ASSUME up_state = "CANDIDATE_UP" PROVE pc' = "witness" /\ pc = "up"
    BY <1>2, <2>1, <2>4, <2>5
  <2>6. ASSUME up_state = "RAT_UP" PROVE FALSE
    BY <1>4, <2>4, <2>6
  <2>7. ASSUME up_state = "GLOBAL_UP", pc = "re-up" PROVE pc' = "check"
    BY <2>4, <2>7
  <2>8. ASSUME up_state = "GLOBAL_UP", pc = "up", derived_empty_clause PROVE pc' = "derived"
    BY <2>4, <2>8
  <2>9. ASSUME up_state = "GLOBAL_UP", pc = "up", ~derived_empty_clause PROVE pc' = next
    BY <2>4, <2>9
  <2>10. next # "FATAL" =>
            \/ loaded < NumCnf /\ next = "load"
            \/ loaded \in NumCnf..EndOfFormula - 1 /\ next = "line"
    BY <2>3 DEF AfterAdding
  <2>11. Leaves
    BY <1>2, <1>4, <2>2, <2>5, <2>6, <2>7, <2>8, <2>9, <2>10 DEF Leaves
  <2>12. global_up' = global_up \/ global_up' \in 1..Len(units) + 1
    BY <1>1, <1>2
  <2>13. WpUp'
    BY <1>1, <1>2 DEF WpUp, loopVars
  <2>14. Propagated'
    <3>1. pc' \notin {"up", "re-up"}
      BY <1>2, <1>4, <2>2, <2>5, <2>6, <2>7, <2>8, <2>9, <2>10
    <3> QED
      BY <3>1 DEF Propagated
  <2> QED
    BY <1>2, <2>11, <2>12, <2>13, <2>14, LoopMoves DEF Settles, levelVars, lineVars, passVars
<1> QED
  BY <1>3, <1>4

-----------------------------------------------------------------------------
(***************************************************************************)
(* The forward pass.                                                        *)
(***************************************************************************)
LEMMA LineFacts ==
  ASSUME BackwardInv, pc \notin Stopped
  PROVE  /\ Data /\ Sizes /\ Witnesses /\ ForwardControl /\ BackwardControl
         /\ TrailInv(Base, Bare, clauses[Candidate]) /\ WpUp
         /\ NumCnf \in Nat \ {0} /\ EndOfFormula \in Nat
         /\ EndOfFormula = NumCnf + Len(proof.lines) /\ Len(proof.lines) \in Nat
         /\ Candidate = NumCnf + current_line + 1 /\ current_line \in Nat
         /\ loaded \in Nat /\ loaded <= EndOfFormula /\ loaded <= Len(clauses)
         /\ clauses \in Seq(Seq(Lit)) /\ Len(clauses) \in Nat /\ Len(units) \in Nat
         /\ \A c \in 1..Len(clauses) : Proper(clauses[c]) /\ clauses[c] \in Seq(Lit)
         /\ Base \subseteq 1..Len(clauses)
<1>1. Data /\ TrailInv(Base, Bare, clauses[Candidate]) /\ WpUp
  BY DEF BackwardInv
<1>2. Sizes /\ Witnesses /\ ForwardControl /\ BackwardControl
  BY <1>1 DEF Data
<1>3. proof \in Proofs /\ loaded \in 0..EndOfFormula /\ loaded <= Len(clauses) /\ current_line \in Nat
  BY <1>2 DEF Sizes
<1>4. /\ NumCnf \in Nat \ {0} /\ EndOfFormula \in Nat
      /\ EndOfFormula = NumCnf + Len(proof.lines) /\ Len(proof.lines) \in Nat
  BY <1>3, ProofFacts
<1>5. clauses \in Seq(Seq(Lit)) /\ units \in Seq(Unit) /\ ClausesProper /\ Base \subseteq 1..Len(clauses)
  BY <1>1 DEF TrailInv, TrailTypes
<1>6. Len(clauses) \in Nat /\ Len(units) \in Nat
  BY <1>5, LenProperties
<1>7. Candidate = NumCnf + current_line + 1
  BY DEF Candidate, ClauseOf
<1>8. \A c \in 1..Len(clauses) : Proper(clauses[c]) /\ clauses[c] \in Seq(Lit)
  BY <1>5 DEF ClausesProper, Proper
<1>9. loaded \in Nat /\ loaded <= EndOfFormula
  BY <1>3, <1>4
<1> QED
  BY <1>1, <1>2, <1>3, <1>4, <1>5, <1>6, <1>7, <1>8, <1>9

LEMMA LineEnds ==
  ASSUME NEW live, NEW bare, NEW C, TrailInv(live, bare, C)', live = Base', bare = Bare',
         up_state' = "GLOBAL_UP" \/ C = (clauses[Candidate])',
         pc' \in Forward \cup Backward \cup Propagation,
         Sizes', Witnesses', ForwardControl', BackwardControl', WpUp', Propagated'
  PROVE  BackwardInv'
<1>1. TrailInv(Base, Bare, clauses[Candidate])'
  BY RebasedLater
<1> QED
  BY <1>1 DEF BackwardInv, Data

(* Propagation starts at the first unit of its level.                       *)
LEMMA Started ==
  ASSUME BackwardInv, pc \notin Stopped,
         NEW live, NEW bare, NEW C, TrailInv(live, bare, C)',
         NEW from \in Nat \ {0}, NEW to, StartUp(from, to),
         from = Floor', from <= Len(units') + 1
  PROVE  WpUp' /\ Propagated'
<1>1. PICK u : u = units'
  OBVIOUS
<1>2. u \in Seq(Unit)
  BY <1>1 DEF TrailInv, TrailTypes
<1>3. \A m, n \in 1..Len(u) : VarOf(u[m].lit) = VarOf(u[n].lit) => m = n
  BY <1>1 DEF TrailInv, TrailExact
<1>4. Len(u) <= Cardinality(Var) /\ Cardinality(Var) \in Nat /\ Len(u) \in Nat
  BY <1>2, <1>3, UnitsBounded, LenProperties
<1>5. wp_up \in [1..Cardinality(Var) -> Nat \ {0}]
  BY DEF BackwardInv, WpUp
<1>6. wp_up' = [k \in 1..Cardinality(Var) |-> IF k >= from THEN 1 ELSE wp_up[k]]
  BY <1>5 DEF StartUp
<1>7. WpUp'
  BY <1>5, <1>6 DEF WpUp
<1>8. /\ i' = from /\ j' = 1 /\ ignored_j' = 1 /\ progressed_i' = 1 /\ bookmarked_i' = 0
      /\ accepting' = FALSE
  BY DEF StartUp
<1>9. Loops'
  <2>1. Len(units') \in Nat /\ i' \in Nat \ {0} /\ i' >= Floor' /\ i' <= Len(units') + 1
    BY <1>1, <1>4, <1>8
  <2>2. progressed_i' \in 1..Len(units') + 1
    BY <1>8, <2>1
  <2>3. j' \in Nat \ {0} /\ ignored_j' \in Nat \ {0} /\ ignored_j' <= j'
    BY <1>8
  <2>4. bookmarked_i' \in Nat /\ bookmarked_i' = 0
    BY <1>8
  <2>5. accepting' \in BOOLEAN /\ ~accepting'
    BY <1>8
  <2> QED
    BY ONLY <2>1, <2>2, <2>3, <2>4, <2>5 DEF Loops
<1>10. Searched'
  <2> SUFFICES ASSUME NEW n \in 1..Len(units'), n >= Floor',
                      NEW q \in 1..Len(wps'[-units'[n].lit]), Done(n, q)'
               PROVE  FALSE
    BY DEF Searched
  <2>1. n \in Nat /\ n >= from /\ n \in 1..Cardinality(Var)
    BY <1>1, <1>4
  <2>2. wp_up'[n] = 1
    BY <1>6, <2>1
  <2>3. q < 1
    BY <1>8, <2>1, <2>2 DEF Done
  <2> QED
    BY <2>3
<1> QED
  BY <1>7, <1>9, <1>10 DEF Propagated

LEMMA StoreRangeKeeps == ASSUME BackwardInv, StoreRange PROVE BackwardInv'
<1>1. pc = "line" /\ pc \notin Stopped /\ Adds
  BY DEF StoreRange, Stopped, Adds, Forward
<1>2. /\ Sizes /\ Witnesses /\ ForwardControl /\ BackwardControl /\ WpUp
      /\ TrailInv(Base, Bare, clauses[Candidate])
      /\ NumCnf \in Nat \ {0} /\ EndOfFormula \in Nat /\ loaded \in Nat
  BY <1>1, LineFacts
<1>3. PICK T : T = Reducible
  OBVIOUS
<1>4. /\ current_line' = LineOf(loaded + 1) /\ deletion' = 1 /\ pc' = "delete"
      /\ UNCHANGED <<clauses, wps, alphaVars, markVars, upVars, loopVars, cursor, subst,
                     witnesses, proof, loaded, deleted, derived_empty_clause>>
      /\ lines_range' = Append(lines_range, [min |-> Min({loaded} \cup T),
                                             max |-> Max({1} \cup T)])
      /\ T \subseteq 1..loaded
  BY <1>3 DEF StoreRange, Added, Reducible
<1>5. loaded \in NumCnf..EndOfFormula - 1 /\ up_state = "GLOBAL_UP" /\ ~derived_empty_clause
  BY <1>1, <1>2 DEF ForwardControl, Forward
<1>6. current_line' = loaded - NumCnf /\ current_line' \in Nat
  BY <1>2, <1>4, <1>5 DEF LineOf
<1>7. UNCHANGED <<NumCnf, EndOfFormula>> /\ Adds' /\ Base' = Base /\ Bare' = Bare
      /\ up_state' = up_state /\ global_up' = global_up /\ units' = units
  BY <1>1, <1>4 DEF NumCnf, EndOfFormula, Adds, Forward, Base, Bare, upVars, levelVars, alphaVars
<1>8. /\ Min({loaded} \cup T) \in Nat \ {0}
      /\ Max({1} \cup T) \in Nat
  <2>1. /\ {loaded} \cup T \in SUBSET Nat /\ {loaded} \cup T # {}
        /\ {1} \cup T \in SUBSET Nat /\ {1} \cup T # {}
        /\ \A x \in {loaded} \cup T : x # 0
        /\ \A x \in {1} \cup T : x <= loaded
    BY <1>2, <1>4, <1>5
  <2>2. Min({loaded} \cup T) \in {loaded} \cup T
    BY <2>1, MinExists
  <2>3. Max({1} \cup T) \in {1} \cup T
    BY <1>2, <2>1, MaxExists
  <2> QED
    BY <2>1, <2>2, <2>3
<1>9. /\ lines_range' \in Seq([min: Nat \ {0}, max: Nat])
      /\ Len(lines_range') = Len(lines_range) + 1 /\ Len(lines_range) \in Nat
  <2>1. lines_range \in Seq([min: Nat \ {0}, max: Nat])
    BY <1>2 DEF Witnesses
  <2> HIDE DEF Min, Max
  <2>2. PICK e : e = [min |-> Min({loaded} \cup T), max |-> Max({1} \cup T)]
    OBVIOUS
  <2>3. e \in [min: Nat \ {0}, max: Nat] /\ lines_range' = Append(lines_range, e)
    BY <1>4, <1>8, <2>2
  <2> QED
    BY <2>1, <2>3, AppendProperties, LenProperties
<1>10. Sizes'
  BY <1>2, <1>4, <1>6, <1>7, <1>1 DEF Sizes
<1>11. Witnesses'
  <2>1. /\ DOMAIN witnesses = 1..Len(proof.lines)
        /\ \A k \in 1..Len(proof.lines) : witnesses[k] = proof.lines[k].witness
        /\ loaded - NumCnf <= Len(lines_range) /\ subst \in Substitution
    BY <1>1, <1>2 DEF Witnesses, Unread
  <2> QED
    BY <1>2, <1>4, <1>7, <1>9, <2>1 DEF Witnesses
<1>12. ForwardControl'
  BY <1>1, <1>2, <1>4, <1>5, <1>6, <1>7 DEF ForwardControl, Forward
<1>13. BackwardControl'
  BY <1>4, <1>5, <1>7 DEF BackwardControl
<1>14. PICK live, bare, C : live = Base /\ bare = Bare /\ C = clauses[Candidate]
  OBVIOUS
<1>15. TrailInv(live, bare, C)'
  BY <1>2, <1>4, <1>14, Steady DEF upVars
<1>16. WpUp' /\ Propagated'
  BY <1>2, <1>4 DEF WpUp, Propagated, loopVars
<1>17. pc' \in Forward
  BY <1>4 DEF Forward
<1> QED
  BY <1>5, <1>7, <1>10, <1>11, <1>12, <1>13, <1>14, <1>15, <1>16, <1>17, LineEnds

LEMMA DeletingFacts ==
  ASSUME BackwardInv, Deleting
  PROVE  /\ ToDelete \in 1..loaded /\ ToDelete \in 1..Len(clauses) /\ clauses[ToDelete] # << >>
         /\ Adds /\ up_state = "GLOBAL_UP" /\ ~derived_empty_clause /\ pc = "delete"
         /\ pc \notin Stopped /\ deletion \in Nat \ {0}
<1>1. pc = "delete" /\ pc \notin Stopped /\ Adds /\ deletion <= Len(Deletions(current_line))
  BY DEF Deleting, Stopped, Adds, Forward
<1>2. /\ Sizes /\ ForwardControl /\ loaded \in Nat /\ NumCnf \in Nat \ {0}
      /\ loaded <= EndOfFormula /\ EndOfFormula \in Nat /\ loaded <= Len(clauses)
      /\ Len(clauses) \in Nat /\ current_line \in Nat
  BY <1>1, LineFacts
<1>3. /\ current_line = loaded - NumCnf /\ ~derived_empty_clause /\ up_state = "GLOBAL_UP"
      /\ proof \in Proofs /\ deletion \in Nat \ {0}
  BY <1>1, <1>2 DEF ForwardControl, Forward, Sizes
<1>4. PICK L \in Nat : L = current_line
  BY <1>2
<1>5. Deletions(L) \in Seq(Nat) /\ \A k \in 1..Len(Deletions(L)) : Deletions(L)[k] \in 1..NumCnf + L
  BY <1>3, Deletable
<1>6. Deletions(L)[deletion] \in 1..NumCnf + L /\ ToDelete = Deletions(L)[deletion]
  <2>1. Len(Deletions(L)) \in Nat
    BY <1>5, LenProperties
  <2> QED
    BY <1>1, <1>3, <1>4, <1>5, <2>1 DEF ToDelete
<1>7. NumCnf + L = loaded
  BY <1>2, <1>3, <1>4
<1>8. ToDelete \in 1..loaded
  BY <1>6, <1>7
<1>9. ToDelete \in 1..Len(clauses) /\ ToDelete <= EndOfFormula
  BY <1>2, <1>8
<1>10. clauses[ToDelete] # << >>
  BY <1>1, <1>2, <1>9 DEF Sizes
<1> QED
  BY <1>1, <1>3, <1>8, <1>9, <1>10

(* A deletion, or none; the next one follows.                               *)
LEMMA DeletingEnds ==
  ASSUME BackwardInv, Deleting, pc' = "delete", deletion' = deletion + 1,
         deleted' \subseteq 1..loaded,
         UNCHANGED <<clauses, units, upVars, current_line, cursor, subst, witnesses, wp_up,
                     proof, loaded, derived_empty_clause, lines_range>>
  PROVE  /\ Sizes' /\ Witnesses' /\ ForwardControl' /\ BackwardControl' /\ WpUp' /\ Propagated'
         /\ Base' = 1..loaded \ deleted' /\ Base = 1..loaded \ deleted /\ Bare' = Bare
         /\ up_state' = "GLOBAL_UP" /\ pc' \in Forward
<1>1. /\ Adds /\ up_state = "GLOBAL_UP" /\ ~derived_empty_clause /\ pc = "delete"
      /\ pc \notin Stopped /\ deletion \in Nat \ {0}
  BY DeletingFacts
<1>2. Sizes /\ Witnesses /\ ForwardControl /\ BackwardControl /\ WpUp
  BY <1>1, LineFacts
<1>3. /\ UNCHANGED <<NumCnf, EndOfFormula>> /\ Adds' /\ Bare' = Bare
      /\ up_state' = up_state /\ global_up' = global_up
  BY <1>1 DEF NumCnf, EndOfFormula, Adds, Forward, Bare, upVars, levelVars
<1>4. Base' = 1..loaded \ deleted' /\ Base = 1..loaded \ deleted
  BY <1>1, <1>3 DEF Base
<1>5. Sizes'
  BY <1>1, <1>2, <1>3 DEF Sizes
<1>6. Witnesses'
  BY <1>1, <1>2, <1>3 DEF Witnesses, Unread
<1>7. ForwardControl'
  BY <1>1, <1>2, <1>3 DEF ForwardControl, Forward
<1>8. BackwardControl'
  BY <1>1, <1>3 DEF BackwardControl
<1>9. WpUp' /\ Propagated'
  BY <1>2 DEF WpUp, Propagated
<1> QED
  BY <1>1, <1>3, <1>4, <1>5, <1>6, <1>7, <1>8, <1>9 DEF Forward

LEMMA IgnoreDeletionKeeps == ASSUME BackwardInv, IgnoreDeletion PROVE BackwardInv'
<1>1. /\ Deleting /\ pc' = pc /\ deletion' = deletion + 1
      /\ UNCHANGED <<clauses, wps, alphaVars, markVars, upVars, loopVars, current_line, cursor,
                     subst, witnesses, passVars>>
  BY DEF IgnoreDeletion
<1>2. /\ pc = "delete" /\ pc \notin Stopped /\ Adds
  BY <1>1, DeletingFacts
<1>3. /\ UNCHANGED <<proof, loaded, deleted, derived_empty_clause, lines_range, units, wp_up>>
      /\ UNCHANGED levelVars
  BY <1>1 DEF passVars, alphaVars, loopVars, upVars
<1>4. deleted' \subseteq 1..loaded /\ TrailInv(Base, Bare, clauses[Candidate])
  <2>1. ForwardControl /\ TrailInv(Base, Bare, clauses[Candidate])
    BY <1>2, LineFacts
  <2> QED
    BY <1>2, <1>3, <2>1 DEF ForwardControl
<1>5. /\ Sizes' /\ Witnesses' /\ ForwardControl' /\ BackwardControl' /\ WpUp' /\ Propagated'
      /\ Base' = 1..loaded \ deleted' /\ Base = 1..loaded \ deleted /\ Bare' = Bare
      /\ up_state' = "GLOBAL_UP" /\ pc' \in Forward
  BY <1>1, <1>2, <1>3, <1>4, DeletingEnds
<1>6. PICK live, bare, C : live = Base /\ bare = Bare /\ C = clauses[Candidate]
  OBVIOUS
<1>7. TrailInv(live, bare, C)'
  BY <1>1, <1>3, <1>4, <1>6, Steady
<1> QED
  BY <1>3, <1>5, <1>6, <1>7, LineEnds

LEMMA SoftDeleteKeeps == ASSUME BackwardInv, SoftDelete PROVE BackwardInv'
<1>1. CASE pc' = "FATAL"
  BY <1>1 DEF BackwardInv, Stopped
<1>2. CASE pc' # "FATAL"
  <2>1. /\ Deleting /\ ~IsReason(ToDelete) /\ IsWatched(ToDelete) /\ Detach(ToDelete)
        /\ pc' = pc /\ deletion' = deletion + 1 /\ deleted' = deleted \cup {ToDelete}
        /\ UNCHANGED <<clauses, alphaVars, markVars, upVars, loopVars, current_line, cursor,
                       subst, witnesses, proof, loaded, derived_empty_clause, lines_range>>
    BY <1>2 DEF SoftDelete
  <2>2. /\ ToDelete \in 1..loaded /\ ToDelete \in 1..Len(clauses) /\ clauses[ToDelete] # << >>
        /\ pc = "delete" /\ pc \notin Stopped /\ Adds /\ up_state = "GLOBAL_UP"
    BY <2>1, DeletingFacts
  <2>3. UNCHANGED <<units, wp_up, levelVars>>
    BY <2>1 DEF alphaVars, loopVars, upVars
  <2>4. deleted' \subseteq 1..loaded /\ TrailInv(Base, Bare, clauses[Candidate])
    <3>1. ForwardControl /\ TrailInv(Base, Bare, clauses[Candidate])
      BY <2>2, LineFacts
    <3> QED
      BY <2>1, <2>2, <3>1 DEF ForwardControl
  <2>5. /\ Sizes' /\ Witnesses' /\ ForwardControl' /\ BackwardControl' /\ WpUp' /\ Propagated'
        /\ Base' = 1..loaded \ deleted' /\ Base = 1..loaded \ deleted /\ Bare' = Bare
        /\ up_state' = "GLOBAL_UP" /\ pc' \in Forward
    BY <2>1, <2>2, <2>3, <2>4, DeletingEnds
  <2>6. PICK live, bare, C : live = Base /\ bare = Bare /\ C = clauses[Candidate]
    OBVIOUS
  <2>7. TrailInv(live, bare, C)
    BY <2>4, <2>6
  <2>8. PICK c \in 1..Len(clauses) : c = ToDelete
    BY <2>2
  <2>9. clauses[c] # << >> /\ IsWatched(c) /\ Detach(c)
    BY <2>1, <2>2, <2>8
  <2>10. ~(IsVarSetDueToUp(VarOf(clauses[c][1])) /\ ReasonOf(VarOf(clauses[c][1])) = c)
    BY <2>1, <2>8 DEF IsReason
  <2>11. \A n \in 1..Len(units) : units[n].clause # c
    BY <2>2, <2>7, <2>10, Unneeded
  <2>12. TrailInv(live \ {c}, bare, C)'
    BY <2>1, <2>2, <2>3, <2>7, <2>9, <2>11, DetachKeeps
  <2>13. live \ {c} = Base'
    BY <2>1, <2>5, <2>6, <2>8
  <2> QED
    BY <2>5, <2>6, <2>12, <2>13, LineEnds
<1> QED
  BY <1>1, <1>2

LEMMA AddingFacts ==
  ASSUME BackwardInv, Adding
  PROVE  /\ pc \notin Stopped /\ Adds /\ pc \in {"load", "delete"} /\ up_state = "GLOBAL_UP"
         /\ ~derived_empty_clause /\ loaded < EndOfFormula
         /\ Added \in 1..Len(clauses) /\ Added = loaded + 1 /\ Added \notin Base
         /\ Added <= EndOfFormula
         /\ clauses[Added] # << >> /\ Bare = {} /\ Base = 1..loaded \ deleted
         /\ deleted \subseteq 1..loaded /\ Added - NumCnf <= Len(lines_range)
         /\ global_up \in Nat \ {0} /\ global_up <= Len(units) + 1
<1>1. pc \in {"load", "delete"} /\ pc \notin Stopped /\ Adds
  BY DEF Adding, Stopped, Adds, Forward
<1>2. /\ Sizes /\ ForwardControl /\ Witnesses /\ loaded \in Nat /\ NumCnf \in Nat \ {0}
      /\ EndOfFormula \in Nat /\ EndOfFormula = NumCnf + Len(proof.lines)
      /\ Len(proof.lines) \in Nat /\ Len(clauses) \in Nat
  BY <1>1, LineFacts
<1>3. /\ ~derived_empty_clause /\ up_state = "GLOBAL_UP" /\ deleted \subseteq 1..loaded
      /\ Len(clauses) >= EndOfFormula
      /\ global_up \in Nat \ {0} /\ global_up <= Len(units) + 1
      /\ pc = "load" => loaded < NumCnf
      /\ pc = "delete" => loaded \in NumCnf..EndOfFormula - 1
  BY <1>1, <1>2 DEF ForwardControl, Forward, Sizes
<1>4. loaded < EndOfFormula
  BY <1>1, <1>2, <1>3
<1>5. Added = loaded + 1 /\ Added \in 1..Len(clauses) /\ Added <= EndOfFormula
  BY <1>2, <1>3, <1>4 DEF Added
<1>6. clauses[Added] # << >>
  BY <1>1, <1>2, <1>5 DEF Sizes
<1>7. Base = 1..loaded \ deleted /\ Bare = {}
  BY <1>1, <1>3 DEF Base, Bare
<1>8. Added \notin Base
  BY <1>2, <1>5, <1>7
<1>9. Added - NumCnf <= Len(lines_range)
  <2>1. lines_range \in Seq([min: Nat \ {0}, max: Nat])
    BY <1>2 DEF Witnesses
  <2>2. Len(lines_range) \in Nat
    BY <2>1, LenProperties
  <2>3. pc = "delete" => loaded + 1 - NumCnf <= Len(lines_range)
    BY <1>2 DEF Witnesses
  <2> QED
    BY <1>1, <1>2, <1>3, <1>5, <2>2, <2>3
<1> QED
  BY <1>1, <1>3, <1>4, <1>5, <1>6, <1>7, <1>8, <1>9

(* The clause is added, with or without watches.                            *)
LEMMA AddingEnds ==
  ASSUME BackwardInv, Adding, loaded' = Added, pc' \in {"up", "derived"},
         UNCHANGED <<upVars, lineVars, proof, deleted, lines_range>>,
         derived_empty_clause' \in BOOLEAN, pc' = "derived" => derived_empty_clause',
         Len(clauses') = Len(clauses), clauses' \in Seq(Seq(Lit)),
         \A c \in 1..Len(clauses) : Len(clauses'[c]) = Len(clauses[c]),
         Len(units') \in Nat, Len(units) <= Len(units')
  PROVE  /\ Sizes' /\ Witnesses' /\ ForwardControl' /\ BackwardControl'
         /\ Base' = Base \cup {Added} /\ (derived_empty_clause' => Bare' = {Added})
         /\ (~derived_empty_clause' => Bare' = {})
         /\ up_state' = "GLOBAL_UP" /\ Floor' = global_up
         /\ pc' \in Forward \cup Backward \cup Propagation
<1>1. /\ pc \notin Stopped /\ Adds /\ pc \in {"load", "delete"} /\ up_state = "GLOBAL_UP"
      /\ ~derived_empty_clause /\ loaded < EndOfFormula
      /\ Added \in 1..Len(clauses) /\ Added = loaded + 1 /\ Added \notin Base
      /\ Added <= EndOfFormula
      /\ clauses[Added] # << >> /\ Bare = {} /\ Base = 1..loaded \ deleted
      /\ deleted \subseteq 1..loaded /\ Added - NumCnf <= Len(lines_range)
      /\ global_up \in Nat \ {0} /\ global_up <= Len(units) + 1
  BY AddingFacts
<1>2. /\ Sizes /\ Witnesses /\ ForwardControl
      /\ NumCnf \in Nat \ {0} /\ EndOfFormula \in Nat /\ loaded \in Nat
      /\ Len(clauses) \in Nat /\ Len(units) \in Nat /\ clauses \in Seq(Seq(Lit))
      /\ \A c \in 1..Len(clauses) : clauses[c] \in Seq(Lit)
  BY <1>1, LineFacts
<1>3. /\ UNCHANGED <<NumCnf, EndOfFormula>> /\ Adds'
      /\ up_state' = up_state /\ global_up' = global_up
      /\ UNCHANGED <<current_line, deletion, cursor, subst, witnesses>>
  BY <1>1 DEF NumCnf, EndOfFormula, Adds, Forward, Propagation, upVars, levelVars, lineVars
<1>4. Base' = Base \cup {Added}
  BY <1>1, <1>2, <1>3, SMTT(30) DEF Base
<1>5. \A c \in 1..Len(clauses) : clauses[c] # << >> => clauses'[c] # << >>
  <2> SUFFICES ASSUME NEW c \in 1..Len(clauses), clauses[c] # << >>
               PROVE  clauses'[c] # << >>
    OBVIOUS
  <2>1. clauses[c] \in Seq(Lit) /\ clauses'[c] \in Seq(Lit) /\ Len(clauses'[c]) = Len(clauses[c])
    BY <1>2, ElementOfSeq
  <2> QED
    BY <2>1, EmptySeq
<1>6. Sizes'
  <2>1. /\ current_line' \in Nat /\ deletion' \in Nat \ {0} /\ cursor' \in Nat
        /\ proof' \in Proofs /\ global_up' \in Nat \ {0}
    BY <1>2, <1>3 DEF Sizes
  <2>2. loaded' \in 0..EndOfFormula' /\ loaded' <= Len(clauses')
    BY <1>1, <1>2, <1>3
  <2>3. \A c \in 1..Len(clauses) : c <= EndOfFormula => clauses'[c] # << >>
    BY <1>1, <1>2, <1>5 DEF Sizes
  <2> QED
    BY <1>3, <2>1, <2>2, <2>3 DEF Sizes
<1>7. Witnesses'
  <2>1. /\ DOMAIN witnesses = 1..Len(proof.lines)
        /\ \A k \in 1..Len(proof.lines) : witnesses[k] = proof.lines[k].witness
        /\ lines_range \in Seq([min: Nat \ {0}, max: Nat]) /\ subst \in Substitution
    BY <1>1, <1>2 DEF Witnesses, Unread
  <2> QED
    BY <1>1, <1>2, <1>3, <2>1 DEF Witnesses
<1>8. ForwardControl'
  <2>1. Len(clauses') >= EndOfFormula' /\ deleted' \subseteq 1..loaded'
    BY <1>1, <1>2, <1>3 DEF ForwardControl
  <2>2. global_up' <= Len(units') + 1
    BY <1>1, <1>2, <1>3
  <2> QED
    BY <1>1, <1>3, <2>1, <2>2 DEF ForwardControl
<1>9. BackwardControl'
  BY <1>1, <1>3 DEF BackwardControl
<1>10. Floor' = global_up
  BY <1>1, <1>3 DEF Floor
<1>11. (derived_empty_clause' => Bare' = {Added}) /\ (~derived_empty_clause' => Bare' = {})
  BY DEF Bare
<1> QED
  BY <1>1, <1>3, <1>4, <1>6, <1>7, <1>8, <1>9, <1>10, <1>11 DEF Forward, Propagation

LEMMA AddUnitKeeps == ASSUME BackwardInv, AddUnit PROVE BackwardInv'
<1>1. /\ Adding /\ AttachUnit(Added) /\ loaded' = Added /\ StartUp(global_up, "up") /\ pc' = "up"
      /\ UNCHANGED <<clauses, wps, markVars, upVars, lineVars, proof, deleted,
                     derived_empty_clause, lines_range>>
  BY DEF AddUnit, StartUp
<1>2. /\ pc \notin Stopped /\ up_state = "GLOBAL_UP" /\ ~derived_empty_clause
      /\ Added \in 1..Len(clauses) /\ Added \notin Base /\ Bare = {}
      /\ global_up \in Nat \ {0} /\ global_up <= Len(units) + 1
  BY <1>1, AddingFacts
<1>3. TrailInv(Base, Bare, clauses[Candidate]) /\ clauses \in Seq(Seq(Lit)) /\ Len(units) \in Nat
  BY <1>2, LineFacts
<1>4. PICK live, bare, C : live = Base /\ bare = Bare /\ C = clauses[Candidate]
  OBVIOUS
<1>5. PICK a \in 1..Len(clauses) : a = Added
  BY <1>2
<1>6. TrailInv(live \cup {a}, bare, C)'
  BY <1>1, <1>2, <1>3, <1>4, <1>5, AttachUnitKeeps DEF upVars
<1>7. Len(units') \in Nat /\ Len(units) <= Len(units')
  <2>1. CASE Len(units') = Len(units)
    BY <1>3, <2>1
  <2>2. CASE Len(units') = Len(units) + 1
    BY <1>3, <2>2
  <2>3. TrailTypes
    BY <1>3 DEF TrailInv
  <2>4. units \in Seq(Unit)
    BY <2>3 DEF TrailTypes
  <2>5. Len(units') = Len(units) \/ Len(units') = Len(units) + 1
    BY <1>1, <2>4 DEF AttachUnit, SetUnit
  <2> QED
    BY <2>1, <2>2, <2>5
<1>8. /\ Sizes' /\ Witnesses' /\ ForwardControl' /\ BackwardControl'
      /\ Base' = Base \cup {Added} /\ Bare' = {}
      /\ up_state' = "GLOBAL_UP" /\ Floor' = global_up
      /\ pc' \in Forward \cup Backward \cup Propagation
  <2>1. derived_empty_clause' \in BOOLEAN /\ ~derived_empty_clause'
    BY <1>1, <1>2, LineFacts DEF Sizes
  <2> QED
    BY <1>1, <1>3, <1>7, <2>1, AddingEnds
<1>9. WpUp' /\ Propagated'
  <2>1. PICK from \in Nat \ {0} : from = global_up
    BY <1>2
  <2>2. from = Floor' /\ from <= Len(units') + 1 /\ StartUp(from, "up")
    BY <1>1, <1>2, <1>3, <1>7, <1>8, <2>1
  <2> QED
    BY <1>2, <1>6, <2>2, Started
<1> QED
  BY <1>2, <1>4, <1>5, <1>6, <1>8, <1>9, LineEnds

LEMMA AddWatchedKeeps == ASSUME BackwardInv, AddWatched PROVE BackwardInv'
<1>1. /\ Adding /\ AttachWatched(Added) /\ loaded' = Added /\ StartUp(global_up, "up")
      /\ pc' = "up"
      /\ UNCHANGED <<markVars, upVars, lineVars, proof, deleted, derived_empty_clause,
                     lines_range>>
  BY DEF AddWatched, StartUp
<1>2. /\ pc \notin Stopped /\ up_state = "GLOBAL_UP" /\ ~derived_empty_clause
      /\ Added \in 1..Len(clauses) /\ Added \notin Base /\ Bare = {}
      /\ global_up \in Nat \ {0} /\ global_up <= Len(units) + 1
  BY <1>1, AddingFacts
<1>3. TrailInv(Base, Bare, clauses[Candidate]) /\ clauses \in Seq(Seq(Lit)) /\ Len(units) \in Nat
  BY <1>2, LineFacts
<1>4. PICK live, bare, C : live = Base /\ bare = Bare /\ C = clauses[Candidate]
  OBVIOUS
<1>5. PICK a \in 1..Len(clauses) : a = Added
  BY <1>2
<1>6. /\ TrailInv(live \cup {a}, bare, C)' /\ Len(clauses') = Len(clauses)
      /\ \A c \in 1..Len(clauses) : c # a => clauses'[c] = clauses[c]
      /\ Len(clauses'[a]) = Len(clauses[a])
  <2>1. TrailInv(live, bare, C) /\ a \notin live /\ AttachWatched(a)
    BY <1>1, <1>2, <1>3, <1>4, <1>5
  <2>2. UNCHANGED <<levelVars, markVars>>
    BY <1>1 DEF upVars
  <2> QED
    BY <1>2, <2>1, <2>2, AttachWatchedKeeps
<1>7. Len(units') \in Nat /\ Len(units) <= Len(units')
  <2>1. CASE Len(units') = Len(units)
    BY <1>3, <2>1
  <2>2. CASE Len(units') = Len(units) + 1
    BY <1>3, <2>2
  <2>3. TrailTypes
    BY <1>3 DEF TrailInv
  <2>4. units \in Seq(Unit)
    BY <2>3 DEF TrailTypes
  <2>5. Len(units') = Len(units) \/ Len(units') = Len(units) + 1
    BY <1>1, <2>4 DEF AttachWatched, SetUnit, alphaVars
  <2> QED
    BY <2>1, <2>2, <2>5
<1>8. clauses' \in Seq(Seq(Lit)) /\ \A c \in 1..Len(clauses) : Len(clauses'[c]) = Len(clauses[c])
  BY <1>6 DEF TrailInv, TrailTypes
<1>9. /\ Sizes' /\ Witnesses' /\ ForwardControl' /\ BackwardControl'
      /\ Base' = Base \cup {Added} /\ Bare' = {}
      /\ up_state' = "GLOBAL_UP" /\ Floor' = global_up
      /\ pc' \in Forward \cup Backward \cup Propagation
  <2>1. derived_empty_clause' \in BOOLEAN /\ ~derived_empty_clause'
    BY <1>1, <1>2, LineFacts DEF Sizes
  <2> QED
    BY <1>1, <1>6, <1>7, <1>8, <2>1, AddingEnds
<1>10. WpUp' /\ Propagated'
  <2>1. PICK from \in Nat \ {0} : from = global_up
    BY <1>2
  <2>2. from = Floor' /\ from <= Len(units') + 1 /\ StartUp(from, "up")
    BY <1>1, <1>2, <1>3, <1>7, <1>9, <2>1
  <2> QED
    BY <1>2, <1>6, <2>2, Started
<1> QED
  BY <1>2, <1>4, <1>5, <1>6, <1>9, <1>10, LineEnds

LEMMA AddFalsifiedKeeps == ASSUME BackwardInv, AddFalsified PROVE BackwardInv'
<1>1. CASE pc' = "FATAL"
  BY <1>1 DEF BackwardInv, Stopped
<1>2. CASE pc' # "FATAL"
  <2>1. /\ Adding /\ loaded' = Added /\ derived_empty_clause' = TRUE
        /\ \/ pc' = "derived" /\ wp_up' = wp_up
           \/ pc' = "up" /\ StartUp(global_up, "up")
        /\ UNCHANGED <<clauses, wps, alphaVars, markVars, upVars, lineVars, proof, deleted,
                       lines_range>>
    <3>1. /\ Adding /\ loaded' = Added /\ derived_empty_clause' = TRUE
          /\ IF UsedAfterDeletion(ToSet(RefutationHints(Added)))
             THEN pc' = "FATAL" /\ UNCHANGED loopVars
             ELSE IF Len(clauses[Added]) = 1 THEN pc' = "derived" /\ UNCHANGED loopVars
             ELSE StartUp(global_up, "up") /\ UNCHANGED falsified
          /\ UNCHANGED <<clauses, wps, alphaVars, markVars, upVars, lineVars, proof, deleted,
                         lines_range>>
      BY DEF AddFalsified
    <3>2. StartUp(global_up, "up") => pc' = "up"
      BY DEF StartUp
    <3> QED
      BY <1>2, <3>1, <3>2 DEF loopVars
  <2>2. /\ pc \notin Stopped /\ up_state = "GLOBAL_UP"
        /\ Added \in 1..Len(clauses) /\ Added \notin Base /\ Bare = {}
        /\ global_up \in Nat \ {0} /\ global_up <= Len(units) + 1
    BY <2>1, AddingFacts
  <2>3. /\ TrailInv(Base, Bare, clauses[Candidate]) /\ clauses \in Seq(Seq(Lit))
        /\ Len(units) \in Nat /\ WpUp
    BY <2>2, LineFacts
  <2>4. PICK live, bare, C : live = Base /\ bare = Bare /\ C = clauses[Candidate]
    OBVIOUS
  <2>5. PICK a \in 1..Len(clauses) : a = Added
    BY <2>2
  <2>6. TrailInv(live \cup {a}, bare \cup {a}, C)'
    <3>1. TrailInv(live, bare, C) /\ a \notin live /\ UNCHANGED levelVars
      BY <2>1, <2>2, <2>3, <2>4, <2>5 DEF upVars
    <3> QED
      BY <2>1, <3>1, FalsifiedKeeps
  <2>7. units' = units /\ clauses' = clauses
    BY <2>1 DEF alphaVars
  <2>8. /\ Sizes' /\ Witnesses' /\ ForwardControl' /\ BackwardControl'
        /\ Base' = Base \cup {Added} /\ Bare' = {Added}
        /\ up_state' = "GLOBAL_UP" /\ Floor' = global_up
        /\ pc' \in Forward \cup Backward \cup Propagation
    <3>1. derived_empty_clause' \in BOOLEAN /\ derived_empty_clause'
      BY <2>1
    <3>2. pc' \in {"up", "derived"}
      BY <2>1
    <3>3. Len(units') \in Nat /\ Len(units) <= Len(units')
      BY <2>3, <2>7
    <3> QED
      BY <2>1, <2>3, <2>7, <3>1, <3>2, <3>3, AddingEnds
  <2>9. WpUp' /\ Propagated'
    <3>1. CASE pc' = "derived" /\ wp_up' = wp_up
      BY <2>3, <3>1 DEF WpUp, Propagated
    <3>2. CASE StartUp(global_up, "up")
      <4>1. PICK from \in Nat \ {0} : from = global_up
        BY <2>2
      <4>2. from = Floor' /\ from <= Len(units') + 1 /\ StartUp(from, "up")
        BY <2>2, <2>7, <2>8, <3>2, <4>1
      <4> QED
        BY <2>2, <2>6, <4>2, Started
    <3> QED
      BY <2>1, <3>1, <3>2
  <2>10. live \cup {a} = Base' /\ bare \cup {a} = Bare'
    BY <2>2, <2>4, <2>5, <2>8
  <2> QED
    BY <2>6, <2>8, <2>9, <2>10, LineEnds
<1> QED
  BY <1>1, <1>2

LEMMA RefuteFormulaKeeps == ASSUME BackwardInv, RefuteFormula PROVE BackwardInv'
<1>1. CASE pc' = "FATAL"
  BY <1>1 DEF BackwardInv, Stopped
<1>2. CASE pc' # "FATAL"
  <2>1. /\ pc = "falsified" /\ up_state = "GLOBAL_UP" /\ derived_empty_clause' = TRUE
        /\ pc' = "derived"
        /\ UNCHANGED <<clauses, wps, alphaVars, markVars, upVars, loopVars, lineVars,
                       proof, loaded, deleted, lines_range>>
    BY <1>2 DEF RefuteFormula
  <2>2. pc \notin Stopped /\ Adds
    BY <2>1 DEF Stopped, Adds, Propagation
  <2>3. /\ Sizes /\ Witnesses /\ ForwardControl /\ BackwardControl /\ WpUp
        /\ TrailInv(Base, Bare, clauses[Candidate]) /\ clauses \in Seq(Seq(Lit))
    BY <2>2, LineFacts
  <2>4. /\ UNCHANGED <<NumCnf, EndOfFormula>> /\ Adds'
        /\ up_state' = up_state /\ global_up' = global_up /\ units' = units
        /\ UNCHANGED <<current_line, deletion, cursor, subst, witnesses, wp_up>>
    BY <2>1 DEF NumCnf, EndOfFormula, Adds, Forward, upVars, levelVars, lineVars, alphaVars,
       loopVars
  <2>5. Base' = Base /\ Bare \subseteq Bare'
    BY <2>1, <2>2, <2>4 DEF Base, Bare
  <2>6. PICK live, bare, C : live = Base /\ bare = Bare /\ C = clauses[Candidate]
    OBVIOUS
  <2>7. PICK bare2 : bare2 = Bare'
    OBVIOUS
  <2>8. TrailInv(live, bare2, C)'
    <3>1. /\ TrailInv(live, bare, C) /\ ClausesProper /\ live \subseteq 1..Len(clauses)
          /\ bare \subseteq bare2 /\ UNCHANGED levelVars
      BY <2>1, <2>3, <2>5, <2>6, <2>7 DEF TrailInv, upVars
    <3>2. clauses' \in Seq(Seq(Lit)) /\ ClausesProper' /\ live \subseteq 1..Len(clauses')
      BY <2>1, <2>3, <3>1 DEF ClausesProper
    <3> QED
      BY <2>1, <3>1, <3>2, StillKeeps
  <2>9. Sizes'
    BY <2>1, <2>2, <2>3, <2>4 DEF Sizes
  <2>10. Witnesses'
    BY <2>1, <2>2, <2>3, <2>4 DEF Witnesses, Unread
  <2>11. ForwardControl'
    BY <2>1, <2>2, <2>3, <2>4 DEF ForwardControl
  <2>12. BackwardControl'
    BY <2>1, <2>4 DEF BackwardControl
  <2>13. WpUp' /\ Propagated'
    BY <2>1, <2>3, <2>4 DEF WpUp, Propagated
  <2>14. pc' \in Forward
    BY <2>1 DEF Forward
  <2> QED
    BY <2>1, <2>4, <2>5, <2>6, <2>7, <2>8, <2>9, <2>10, <2>11, <2>12, <2>13, <2>14, LineEnds
<1> QED
  BY <1>1, <1>2

LEMMA EndOfForwardPassKeeps == ASSUME BackwardInv, EndOfForwardPass PROVE BackwardInv'
<1>1. /\ pc = "derived" /\ clauses' = Append(SubSeq(clauses, 1, loaded), << >>)
      /\ current_line' = LineOf(loaded) + 1
      /\ pc' = IF LineOf(loaded) + 1 > 0 THEN "prepare" ELSE "print"
      /\ UNCHANGED <<wps, alphaVars, markVars, upVars, loopVars, deletion, cursor, subst,
                     witnesses, proof, loaded, deleted, derived_empty_clause, lines_range>>
  BY DEF EndOfForwardPass
<1>2. CASE pc' = "print"
  BY <1>2 DEF BackwardInv, Stopped
<1>3. CASE pc' # "print"
  <2>1. pc \notin Stopped /\ Adds
    BY <1>1 DEF Stopped, Adds, Forward
  <2>2. /\ Sizes /\ Witnesses /\ ForwardControl /\ WpUp
        /\ TrailInv(Base, Bare, clauses[Candidate]) /\ clauses \in Seq(Seq(Lit))
        /\ NumCnf \in Nat \ {0} /\ EndOfFormula \in Nat /\ loaded \in Nat
        /\ loaded <= EndOfFormula /\ loaded <= Len(clauses) /\ Len(clauses) \in Nat
        /\ \A c \in 1..Len(clauses) : Proper(clauses[c])
    BY <2>1, LineFacts
  <2>3. derived_empty_clause /\ up_state = "GLOBAL_UP"
    BY <1>1, <2>2 DEF ForwardControl, Forward
  <2>4. /\ pc' = "prepare" /\ current_line' = loaded - NumCnf /\ current_line' \in Nat
        /\ current_line' >= 1
    BY <1>1, <1>3, <2>2 DEF LineOf
  <2>5. /\ clauses' \in Seq(Seq(Lit)) /\ Len(clauses') = loaded + 1
        /\ \A c \in 1..loaded : clauses'[c] = clauses[c]
        /\ clauses'[loaded + 1] = << >>
    <3>1. PICK s : s = SubSeq(clauses, 1, loaded)
      OBVIOUS
    <3>2. s \in Seq(Seq(Lit)) /\ Len(s) = loaded /\ \A c \in 1..loaded : s[c] = clauses[c]
      BY <2>2, <3>1, Prefix
    <3>3. << >> \in Seq(Lit)
      OBVIOUS
    <3>4. /\ Append(s, << >>) \in Seq(Seq(Lit)) /\ Len(Append(s, << >>)) = loaded + 1
          /\ \A c \in 1..loaded : Append(s, << >>)[c] = s[c]
          /\ Append(s, << >>)[loaded + 1] = << >>
      BY <3>2, <3>3, AppendProperties
    <3> QED
      BY <1>1, <3>1, <3>2, <3>4
  <2>6. /\ UNCHANGED <<NumCnf, EndOfFormula>> /\ ~Adds' /\ Bare' = Bare
        /\ up_state' = up_state /\ global_up' = global_up /\ UNCHANGED <<levelVars, wp_up>>
    BY <1>1, <2>4 DEF NumCnf, EndOfFormula, Adds, Forward, Propagation, Bare, upVars, levelVars,
       loopVars
  <2>7. Candidate' = loaded + 1
    <3>1. Candidate' = NumCnf' + current_line' + 1
      BY DEF Candidate, ClauseOf
    <3> QED
      BY <2>2, <2>4, <2>6, <3>1
  <2>8. Base' = Base /\ Base = 1..loaded \ deleted
    <3>1. Base' = 1..loaded \ deleted
      <4>1. Candidate' - 1 = loaded /\ pc' # "uncommit" /\ deleted' = deleted
        BY <1>1, <2>2, <2>4, <2>7
      <4> QED
        BY <2>6, <4>1 DEF Base
    <3>2. Base = 1..loaded \ deleted
      BY <2>1 DEF Base
    <3> QED
      BY <2>2, <3>1, <3>2
  <2>9. PICK live, bare, C : live = Base /\ bare = Bare /\ C = clauses[Candidate]
    OBVIOUS
  <2>10. TrailInv(live, bare, C)'
    <3>1. TrailInv(live, bare, C) /\ bare \subseteq bare /\ live \subseteq 1..loaded
      BY <2>2, <2>8, <2>9
    <3>2. ClausesProper'
      <4>1. Proper(<< >>)
        BY DEF Proper
      <4>2. \A c \in 1..loaded : Proper(clauses'[c])
        BY <2>2, <2>5
      <4>3. \A c \in 1..loaded + 1 : c \in 1..loaded \/ c = loaded + 1
        BY <2>2
      <4> QED
        BY <2>5, <4>1, <4>2, <4>3 DEF ClausesProper
    <3>3. live \subseteq 1..Len(clauses') /\ \A c \in live : clauses'[c] = clauses[c]
      <4>1. \A c \in 1..loaded : c \in 1..loaded + 1 /\ clauses'[c] = clauses[c]
        BY <2>2, <2>5
      <4>2. 1..Len(clauses') = 1..loaded + 1
        BY <2>5
      <4> QED
        BY <3>1, <4>1, <4>2
    <3> QED
      BY <1>1, <2>5, <2>6, <3>1, <3>2, <3>3, StillKeeps
  <2>11. Sizes'
    <3>1. \A c \in 1..loaded : clauses'[c] # << >>
      <4>1. \A c \in 1..Len(clauses) : c <= EndOfFormula => clauses[c] # << >>
        BY <2>1, <2>2 DEF Sizes
      <4>2. \A c \in 1..loaded : c \in 1..Len(clauses) /\ c <= EndOfFormula
        BY <2>2
      <4> QED
        BY <2>5, <4>1, <4>2
    <3>2. \A c \in 1..Len(clauses') : c <= loaded' => clauses'[c] # << >>
      BY <1>1, <2>2, <2>5, <3>1
    <3>3. loaded' <= Len(clauses') /\ loaded' \in 0..EndOfFormula'
      BY <1>1, <2>2, <2>5, <2>6
    <3> QED
      BY <1>1, <2>2, <2>4, <2>6, <3>2, <3>3 DEF Sizes
  <2>12. Witnesses'
    BY <1>1, <2>1, <2>2, <2>4, <2>6 DEF Witnesses, Unread
  <2>13. ForwardControl'
    BY <2>4, <2>6 DEF ForwardControl, Forward
  <2>14. BackwardControl'
    <3>1. Candidate' <= loaded' + 1
      BY <1>1, <2>2, <2>7
    <3> QED
      BY <1>1, <2>3, <2>4, <2>5, <2>6, <3>1 DEF BackwardControl
  <2>15. WpUp' /\ Propagated'
    BY <2>2, <2>4, <2>6 DEF WpUp, Propagated
  <2>16. pc' \in Backward
    BY <2>4 DEF Backward
  <2> QED
    BY <2>3, <2>6, <2>8, <2>9, <2>10, <2>11, <2>12, <2>13, <2>14, <2>15, <2>16, LineEnds
<1> QED
  BY <1>2, <1>3

-----------------------------------------------------------------------------
(***************************************************************************)
(* The backward pass: a line is taken back.                                 *)
(***************************************************************************)
LEMMA BackwardFacts ==
  ASSUME BackwardInv, pc \notin Stopped, ~Adds
  PROVE  /\ derived_empty_clause /\ Len(clauses) = loaded + 1 /\ Bare = {loaded}
         /\ Candidate \in Nat \ {0} /\ Candidate <= loaded + 1 /\ Candidate \in 1..Len(clauses)
         /\ pc # "prepare" => /\ Candidate <= loaded /\ clauses[Candidate] # << >>
                              /\ current_line + 1 \in 1..Len(proof.lines)
                              /\ current_line + 1 \in 1..Len(lines_range)
         /\ pc = "prepare" => current_line >= 1
         /\ \A c \in 1..loaded : c \in 1..Len(clauses) /\ clauses[c] # << >>
         /\ clauses[Candidate] \in Seq(Lit) /\ Proper(clauses[Candidate])
         /\ proof \in Proofs
<1>1. /\ Sizes /\ Witnesses /\ BackwardControl
      /\ NumCnf \in Nat \ {0} /\ EndOfFormula \in Nat
      /\ EndOfFormula = NumCnf + Len(proof.lines) /\ Len(proof.lines) \in Nat
      /\ Candidate = NumCnf + current_line + 1 /\ current_line \in Nat
      /\ loaded \in Nat /\ loaded <= EndOfFormula /\ loaded <= Len(clauses)
      /\ clauses \in Seq(Seq(Lit)) /\ Len(clauses) \in Nat
      /\ \A c \in 1..Len(clauses) : Proper(clauses[c]) /\ clauses[c] \in Seq(Lit)
  BY LineFacts
<1>2. /\ derived_empty_clause /\ Len(clauses) = loaded + 1
      /\ pc = "prepare" => current_line >= 1 /\ Candidate <= loaded + 1
      /\ pc # "prepare" => Candidate <= loaded
  BY <1>1 DEF BackwardControl
<1>3. Bare = {loaded}
  BY <1>2 DEF Bare
<1>4. /\ Candidate \in Nat \ {0} /\ Candidate <= loaded + 1 /\ Candidate \in 1..Len(clauses)
      /\ pc # "prepare" => Candidate \in 1..loaded /\ current_line + 1 \in 1..Len(proof.lines)
  BY <1>1, <1>2
<1>5. \A c \in 1..loaded : c \in 1..Len(clauses) /\ c <= EndOfFormula /\ c <= loaded
  BY <1>1
<1>6. \A c \in 1..loaded : clauses[c] # << >>
  BY <1>1, <1>5 DEF Sizes
<1>7. pc # "prepare" => current_line + 1 \in 1..Len(lines_range)
  <2>1. lines_range \in Seq([min: Nat \ {0}, max: Nat]) /\ loaded - NumCnf <= Len(lines_range)
    BY <1>1 DEF Witnesses
  <2>2. Len(lines_range) \in Nat
    BY <2>1, LenProperties
  <2> QED
    BY <1>1, <1>2, <2>1, <2>2
<1>8. proof \in Proofs
  BY <1>1 DEF Sizes
<1> QED
  BY <1>1, <1>2, <1>3, <1>4, <1>5, <1>6, <1>7, <1>8

LEMMA RestoreDeletedKeeps == ASSUME BackwardInv, RestoreDeleted PROVE BackwardInv'
<1>1. /\ pc = "prepare" /\ wps' = [l \in Lit |-> wps[l] \o RestoredTo(l)]
      /\ deleted' = deleted \ ToSet(Restored) /\ current_line' = current_line - 1
      /\ pc' = "uncommit"
      /\ UNCHANGED <<clauses, alphaVars, markVars, upVars, loopVars, deletion, cursor, subst,
                     witnesses, proof, loaded, derived_empty_clause, lines_range>>
  BY DEF RestoreDeleted
<1>2. pc \notin Stopped /\ ~Adds
  BY <1>1 DEF Stopped, Adds, Forward, Propagation
<1>3. /\ Sizes /\ Witnesses /\ ForwardControl /\ BackwardControl /\ WpUp
      /\ TrailInv(Base, Bare, clauses[Candidate])
      /\ NumCnf \in Nat \ {0} /\ Candidate = NumCnf + current_line + 1 /\ current_line \in Nat
      /\ loaded \in Nat /\ Len(clauses) \in Nat
  BY <1>2, LineFacts
<1>4. /\ derived_empty_clause /\ Len(clauses) = loaded + 1 /\ Bare = {loaded}
      /\ Candidate \in Nat \ {0} /\ Candidate <= loaded + 1 /\ current_line >= 1
      /\ \A c \in 1..loaded : c \in 1..Len(clauses) /\ clauses[c] # << >>
      /\ proof \in Proofs
  BY <1>1, <1>2, BackwardFacts
<1>5. up_state = "GLOBAL_UP"
  BY <1>1, <1>3 DEF BackwardControl
<1>6. PICK L \in Nat : L = current_line
  BY <1>3
<1>7. PICK D : D = Deletions(L)
  OBVIOUS
<1>8. /\ D \in Seq(Nat) /\ OnceEach(D) /\ \A k \in 1..Len(D) : D[k] \in 1..NumCnf + L
  BY <1>4, <1>7, Deletable
<1>9. PICK K : K = {k \in 1..Len(D) : D[k] \in deleted}
  OBVIOUS
<1>10. PICK R : R = AtPlaces(D, K)
  OBVIOUS
<1>11. Restored = R
  BY <1>6, <1>7, <1>9, <1>10 DEF Restored
<1>12. R \in Seq(Nat) /\ OnceEach(R) /\ \A d : Has(R, d) <=> \E k \in K : D[k] = d
  <2>1. K \in SUBSET (1..Len(D))
    BY <1>9
  <2> QED
    BY <1>8, <1>10, <2>1, PlacesOnce
<1>13. NumCnf + L = Candidate - 1
  BY <1>3, <1>6
<1>14. Base = 1..Candidate - 1 \ deleted
  BY <1>1, <1>2 DEF Base
<1>15. \A d : Has(R, d) => d \in deleted /\ d \in 1..Candidate - 1
  BY <1>8, <1>9, <1>12, <1>13
<1>16. PICK live, bare, C : live = Base /\ bare = Bare /\ C = clauses[Candidate]
  OBVIOUS
<1>17. \A k \in 1..Len(R) :
         R[k] \in 1..Len(clauses) /\ R[k] \notin live /\ clauses[R[k]] # << >>
  <2> SUFFICES ASSUME NEW k \in 1..Len(R)
               PROVE  R[k] \in 1..Len(clauses) /\ R[k] \notin live /\ clauses[R[k]] # << >>
    OBVIOUS
  <2>1. R[k] \in deleted /\ R[k] \in 1..Candidate - 1
    BY <1>15 DEF Has
  <2>2. R[k] \in 1..loaded
    BY <1>3, <1>4, <2>1
  <2> QED
    BY <1>4, <1>14, <1>16, <2>1, <2>2
<1>18. wps' = [l \in Lit |->
                 wps[l] \o AtPlaces(R, {k \in 1..Len(R) : l \in Watches(R[k])})]
  BY <1>1, <1>11 DEF RestoredTo
<1>19. /\ UNCHANGED <<NumCnf, EndOfFormula>> /\ ~Adds' /\ Bare' = Bare
       /\ up_state' = up_state /\ global_up' = global_up /\ UNCHANGED <<levelVars, wp_up>>
  BY <1>1, <1>5 DEF NumCnf, EndOfFormula, Adds, Forward, Propagation, Bare, upVars, levelVars,
     loopVars
<1>20. /\ Candidate' = Candidate - 1 /\ current_line' \in Nat /\ current_line' + 1 = current_line
       /\ Candidate' <= loaded
  <2>1. Candidate' = NumCnf' + current_line' + 1
    BY DEF Candidate, ClauseOf
  <2> QED
    BY <1>1, <1>3, <1>4, <1>19, <2>1
<1>21. Base' = live \cup ToSet(R)
  <2>1. Base' = 1..Candidate - 1 \ (deleted \ ToSet(R))
    BY <1>1, <1>11, <1>19, <1>20 DEF Base
  <2>2. ToSet(R) \subseteq deleted \cap (1..Candidate - 1)
    BY <1>15 DEF ToSet, Has
  <2> QED
    BY <1>14, <1>16, <2>1, <2>2
<1>22. TrailInv(live \cup ToSet(R), bare, C)'
  <2>1. TrailInv(live, bare, C)
    BY <1>3, <1>16
  <2> QED
    BY <1>1, <1>5, <1>12, <1>17, <1>18, <1>19, <2>1, RestoreKeeps
<1>23. Sizes'
  BY <1>1, <1>2, <1>3, <1>19, <1>20 DEF Sizes
<1>24. Witnesses'
  <2>1. \A k \in 1..Len(proof.lines) : Unread(k)' => Unread(k)
    BY <1>1, <1>3, <1>19, <1>20 DEF Unread
  <2> QED
    BY <1>1, <1>3, <1>19, <2>1 DEF Witnesses
<1>25. ForwardControl'
  BY <1>1, <1>19 DEF ForwardControl, Forward
<1>26. BackwardControl'
  BY <1>1, <1>4, <1>5, <1>19, <1>20 DEF BackwardControl
<1>27. WpUp' /\ Propagated' /\ pc' \in Backward
  BY <1>1, <1>3, <1>19 DEF WpUp, Propagated, Backward
<1> QED
  BY <1>5, <1>16, <1>19, <1>21, <1>22, <1>23, <1>24, <1>25, <1>26, <1>27, LineEnds

(* Of what a step of the check of a line may change, what the invariant needs. *)
Checking ==
  /\ UNCHANGED <<clauses, proof, loaded, deleted, derived_empty_clause, lines_range,
                 current_line, deletion>>
  /\ pc' \in {"prepare", "restart"} \cup {"re-up", "check", "witness", "rat", "undo"} \cup Propagation
  /\ pc' = "prepare" => current_line >= 1
  /\ pc' \in {"prepare", "restart", "re-up", "check"} => up_state' = "GLOBAL_UP"
  /\ pc' \in {"witness", "rat", "undo"} => up_state' = "CANDIDATE_UP"
  /\ pc' \in Propagation => up_state' # "GLOBAL_UP"
  /\ pc' = "re-up" => global_up' <= Len(units') + 1
  /\ global_up' \in Nat \ {0} /\ cursor' \in Nat
  /\ pc' = "rat" \/ up_state' = "RAT_UP" => cursor' >= 1
  /\ up_state' = "RAT_UP" => cursor' <= Candidate

LEMMA CheckEnds ==
  ASSUME BackwardInv, pc \notin Stopped, ~Adds, pc \notin {"prepare", "uncommit"}, Checking,
         NEW live, NEW bare, NEW C, live = Base, bare = Bare, C = clauses[Candidate],
         TrailInv(live, bare, C)', Witnesses', WpUp', Propagated'
  PROVE  BackwardInv'
<1>1. /\ Sizes /\ ForwardControl /\ BackwardControl
      /\ Candidate = NumCnf + current_line + 1 /\ current_line \in Nat
      /\ loaded \in Nat /\ NumCnf \in Nat
  BY LineFacts
<1>2. derived_empty_clause /\ Len(clauses) = loaded + 1 /\ Candidate <= loaded /\ Candidate \in Nat
  BY BackwardFacts
<1>3. UNCHANGED <<NumCnf, EndOfFormula, Candidate>> /\ ~Adds'
  BY DEF Checking, NumCnf, EndOfFormula, Candidate, ClauseOf, Adds, Forward, Propagation
<1>4. Base' = Base /\ Bare' = Bare /\ (clauses[Candidate])' = clauses[Candidate]
  BY <1>3 DEF Checking, Base, Bare, Propagation
<1>5. Sizes'
  BY <1>1, <1>3 DEF Checking, Sizes
<1>6. ForwardControl'
  BY <1>3 DEF Checking, ForwardControl, Forward, Propagation
<1>7. BackwardControl'
  <2>1. Candidate' <= loaded' /\ Candidate' <= loaded' + 1
    BY <1>1, <1>2, <1>3 DEF Checking
  <2>2. derived_empty_clause' /\ Len(clauses') = loaded' + 1
    BY <1>2 DEF Checking
  <2>3. pc' = "prepare" => current_line' >= 1
    BY DEF Checking
  <2>4. pc' # "uncommit"
    BY DEF Checking, Propagation
  <2>5. up_state' = "RAT_UP" => cursor' <= Candidate'
    BY <1>3 DEF Checking
  <2> QED
    BY <2>1, <2>2, <2>3, <2>4, <2>5 DEF Checking, BackwardControl
<1>8. pc' \in Forward \cup Backward \cup Propagation
  BY DEF Checking, Backward
<1> QED
  BY <1>4, <1>5, <1>6, <1>7, <1>8, LineEnds

(* Only the line that is being checked, once it has been, has another one.   *)
LEMMA WitnessesStay ==
  ASSUME BackwardInv, pc \notin Stopped, ~Adds, pc \notin {"prepare", "uncommit"}, Checking,
         witnesses' = witnesses, subst' = subst,
         pc \in {"rat", "undo"} \/ up_state = "RAT_UP" =>
           pc' \in {"prepare", "rat", "undo"} \/ up_state' = "RAT_UP"
  PROVE  Witnesses'
<1>1. Witnesses /\ current_line \in Nat
  BY LineFacts
<1>2. UNCHANGED <<NumCnf, EndOfFormula>> /\ ~Adds'
  BY DEF Checking, NumCnf, EndOfFormula, Adds, Forward, Propagation
<1>3. \A k \in 1..Len(proof.lines) : Unread(k)' => Unread(k)
  BY <1>2 DEF Unread, Checking
<1>4. pc' # "delete"
  BY DEF Checking, Propagation
<1> QED
  BY <1>1, <1>2, <1>3, <1>4 DEF Witnesses, Checking

LEMMA UncommitClauseKeeps == ASSUME BackwardInv, UncommitClause PROVE BackwardInv'
<1>1. CASE pc' = "FATAL"
  BY <1>1 DEF BackwardInv, Stopped
<1>2. CASE pc' # "FATAL"
  <2>1. /\ pc = "uncommit" /\ IsWatched(Candidate) /\ Detach(Candidate)
        /\ pc' \in {"prepare", "restart"} /\ (pc' = "prepare" => current_line > 0)
        /\ IF IsReason(Candidate)
           THEN UnassignFrom(vars_unit_indexes[VarOf(clauses[Candidate][1])])
           ELSE UNCHANGED <<alphaVars, global_up>>
        /\ UNCHANGED <<clauses, markVars, levelVars, loopVars, lineVars, passVars>>
    BY <1>2 DEF UncommitClause
  <2>2. UNCHANGED <<wp_up, up_state, current_line, deletion, cursor, subst, witnesses, proof,
                    loaded, deleted, derived_empty_clause, lines_range>>
    BY <2>1 DEF loopVars, levelVars, lineVars, passVars
  <2>3. pc \notin Stopped /\ ~Adds
    BY <2>1 DEF Stopped, Adds, Forward, Propagation
  <2>4. /\ Sizes /\ Witnesses /\ ForwardControl /\ BackwardControl /\ WpUp
        /\ TrailInv(Base, Bare, clauses[Candidate]) /\ up_state = "GLOBAL_UP"
        /\ NumCnf \in Nat \ {0} /\ current_line \in Nat /\ loaded \in Nat /\ Len(clauses) \in Nat
    <3>1. BackwardControl
      BY <2>3, LineFacts
    <3>2. up_state = "GLOBAL_UP"
      BY <2>1, <3>1 DEF BackwardControl
    <3> QED
      BY <2>3, <3>2, LineFacts
  <2>5. /\ derived_empty_clause /\ Len(clauses) = loaded + 1 /\ Candidate <= loaded
        /\ Candidate \in 1..Len(clauses) /\ clauses[Candidate] # << >>
        /\ clauses[Candidate] \in Seq(Lit)
    BY <2>1, <2>3, BackwardFacts
  <2>6. PICK live, bare, C : live = Base /\ bare = Bare /\ C = clauses[Candidate]
    OBVIOUS
  <2>7. TrailInv(live, bare, C)
    BY <2>4, <2>6
  <2>8. PICK c \in 1..Len(clauses) : c = Candidate
    BY <2>5
  <2>9. PICK live2 : live2 = live \ {c}
    OBVIOUS
  <2>10. clauses[c] # << >> /\ IsWatched(c) /\ Detach(c) /\ UNCHANGED clauses
    BY <2>1, <2>5, <2>8
  <2>11. TrailInv(live2, bare, C)' /\ global_up' \in Nat \ {0}
    <3>1. CASE ~IsReason(Candidate)
      <4>1. UNCHANGED <<alphaVars, levelVars, markVars, global_up>>
        BY <2>1, <3>1
      <4>2. ~(IsVarSetDueToUp(VarOf(clauses[c][1])) /\ ReasonOf(VarOf(clauses[c][1])) = c)
        BY <2>8, <3>1 DEF IsReason
      <4>3. \A n \in 1..Len(units) : units[n].clause # c
        BY <2>4, <2>7, <4>2, Unneeded
      <4>4. TrailInv(live \ {c}, bare, C)'
        BY <2>4, <2>7, <2>10, <4>1, <4>3, DetachKeeps
      <4> QED
        BY <2>4, <2>9, <4>1, <4>4 DEF Sizes
    <3>2. CASE IsReason(Candidate)
      <4>1. PICK v : v = VarOf(clauses[c][1])
        OBVIOUS
      <4>2. PICK f : f = vars_unit_indexes[v]
        OBVIOUS
      <4>3. f > 0 /\ units[f].clause = c
        BY <2>8, <3>2, <4>1, <4>2 DEF IsReason, IsVarSetDueToUp, ReasonOf
      <4>4. clauses[c][1] \in Lit /\ v \in Var
        BY <2>5, <2>8, <4>1, EmptySeq, ElementOfSeq, LitFacts
      <4>5. TrailExact /\ TrailTypes /\ ReasonsHold(live) /\ live \subseteq 1..Len(clauses) /\ Levels(C)
            /\ ClausesProper
        BY <2>7 DEF TrailInv
      <4>6. f \in 1..Len(units) /\ VarOf(units[f].lit) = v
        BY <4>2, <4>3, <4>4, <4>5 DEF TrailExact
      <4>7. UnassignFrom(f)
        BY <2>1, <2>8, <3>2, <4>1, <4>2
      <4>8. \A n \in 1..Len(units) : n # f => units[n].clause \in live2
        <5> SUFFICES ASSUME NEW n \in 1..Len(units), n # f PROVE units[n].clause \in live2
          OBVIOUS
        <5>1. units[n].clause # 0
          BY <2>4, <4>5 DEF Levels
        <5>2. units[n].clause \in live /\ clauses[units[n].clause][1] = units[n].lit
          BY <4>5, <5>1 DEF ReasonsHold, Reason
        <5>3. VarOf(units[n].lit) # VarOf(units[f].lit)
          BY <4>5, <4>6 DEF TrailExact
        <5> QED
          BY <2>9, <4>1, <4>6, <5>2, <5>3
      <4>9. /\ units' \in Seq(Unit) /\ alpha' \subseteq Lit /\ vars_unit_indexes' \in [Var -> Nat]
            /\ TrailExact' /\ ReasonsHold(live2)' /\ Levels(C)'
            /\ global_up \in Nat \ {0} => global_up' \in Nat \ {0}
        BY <2>1, <2>4, <2>7, <4>6, <4>7, <4>8, UnassignKeeps
      <4>10. wps' \in [Lit -> Seq(Nat)] /\ WatchesHold(live2, bare)'
        BY <2>7, <2>9, <2>10, Detached
      <4>11. TrailTypes'
        BY <2>1, <4>5, <4>9, <4>10 DEF TrailTypes, levelVars, markVars
      <4>12. ClausesProper' /\ live2 \subseteq 1..Len(clauses')
        BY <2>1, <2>9, <4>5 DEF ClausesProper
      <4> QED
        BY <2>4, <4>9, <4>10, <4>11, <4>12 DEF TrailInv, Sizes
    <3> QED
      BY <3>1, <3>2
  <2>12. /\ UNCHANGED <<NumCnf, EndOfFormula, Candidate, Bare>> /\ ~Adds'
    BY <2>1, <2>2 DEF NumCnf, EndOfFormula, Candidate, ClauseOf, Adds, Forward, Propagation, Bare
  <2>13. Base' = live2
    <3>1. Base = 1..Candidate \ deleted
      BY <2>1, <2>3 DEF Base
    <3>2. Base' = 1..Candidate - 1 \ deleted
      BY <2>1, <2>2, <2>12 DEF Base
    <3> QED
      BY <2>6, <2>8, <2>9, <3>1, <3>2
  <2>14. Sizes'
    BY <2>1, <2>2, <2>3, <2>4, <2>11, <2>12 DEF Sizes
  <2>15. Witnesses'
    <3>1. \A k \in 1..Len(proof.lines) : Unread(k)' => Unread(k)
      BY <2>1, <2>2, <2>3, <2>4, <2>12 DEF Unread
    <3> QED
      BY <2>1, <2>2, <2>4, <2>12, <3>1 DEF Witnesses
  <2>16. ForwardControl'
    BY <2>1, <2>12 DEF ForwardControl, Forward
  <2>17. BackwardControl'
    <3>1. Candidate' <= loaded' /\ Candidate' <= loaded' + 1
      BY <2>2, <2>4, <2>5, <2>12
    <3> QED
      BY <2>1, <2>2, <2>4, <2>5, <2>12, <3>1 DEF BackwardControl
  <2>18. WpUp' /\ Propagated' /\ pc' \in Backward
    BY <2>1, <2>2, <2>4 DEF WpUp, Propagated, Backward
  <2> QED
    BY <2>2, <2>4, <2>6, <2>11, <2>12, <2>13, <2>14, <2>15, <2>16, <2>17, <2>18, LineEnds
<1> QED
  BY <1>1, <1>2

LEMMA RestartGlobalUpKeeps == ASSUME BackwardInv, RestartGlobalUp PROVE BackwardInv'
<1>1. /\ pc = "restart" /\ global_up' = 1 /\ StartUp(1, "re-up") /\ pc' = "re-up"
      /\ UNCHANGED <<clauses, wps, alphaVars, markVars, levelVars, lineVars, passVars>>
  BY DEF RestartGlobalUp, RestartAtUnit, StartUp
<1>2. UNCHANGED <<up_state, current_line, deletion, cursor, subst, witnesses, proof,
                  loaded, deleted, derived_empty_clause, lines_range, units>>
  BY <1>1 DEF levelVars, lineVars, passVars, alphaVars
<1>3. pc \notin Stopped /\ ~Adds
  BY <1>1 DEF Stopped, Adds, Forward, Propagation
<1>4. /\ Sizes /\ BackwardControl /\ TrailInv(Base, Bare, clauses[Candidate])
      /\ Len(units) \in Nat
  BY <1>3, LineFacts
<1>5. up_state = "GLOBAL_UP" /\ cursor \in Nat
  BY <1>1, <1>4 DEF BackwardControl, Sizes
<1>6. Checking
  BY <1>1, <1>2, <1>4, <1>5 DEF Checking, Propagation
<1>7. PICK live, bare, C : live = Base /\ bare = Bare /\ C = clauses[Candidate]
  OBVIOUS
<1>8. TrailInv(live, bare, C)'
  BY <1>1, <1>4, <1>7, Steady
<1>9. Floor' = 1
  BY <1>1, <1>2, <1>5 DEF Floor
<1>10. WpUp' /\ Propagated'
  <2>1. 1 \in Nat \ {0} /\ 1 <= Len(units') + 1
    BY <1>2, <1>4
  <2> QED
    BY <1>1, <1>3, <1>8, <1>9, <2>1, Started
<1>11. Witnesses'
  BY <1>1, <1>2, <1>3, <1>5, <1>6, WitnessesStay
<1> QED
  BY <1>1, <1>3, <1>6, <1>7, <1>8, <1>10, <1>11, CheckEnds

-----------------------------------------------------------------------------
(***************************************************************************)
(* The backward pass: a line is checked.                                    *)
(***************************************************************************)
LEMMA AssumeLineKeeps == ASSUME BackwardInv, AssumeLine PROVE BackwardInv'
<1>1. /\ pc = "check" /\ AssumeCandidate(clauses[Candidate])
      /\ UNCHANGED <<clauses, wps, RAT_marked, global_up, RAT_assumed, RAT_unit,
                     lineVars, passVars>>
      /\ \/ StartUp(candidate_assumed', "up")
         \/ pc' = "falsified" /\ wp_up' = wp_up
  BY DEF AssumeLine
<1>2. UNCHANGED <<current_line, deletion, cursor, subst, witnesses, proof, loaded, deleted,
                  derived_empty_clause, lines_range>>
      /\ pc' \in Propagation /\ up_state' = "CANDIDATE_UP"
  BY <1>1 DEF lineVars, passVars, AssumeCandidate, StartUp, Propagation
<1>3. pc \notin Stopped /\ ~Adds
  BY <1>1 DEF Stopped, Adds, Forward, Propagation
<1>4. /\ Sizes /\ BackwardControl /\ TrailInv(Base, Bare, clauses[Candidate])
      /\ Len(units) \in Nat /\ WpUp
  BY <1>3, LineFacts
<1>5. up_state = "GLOBAL_UP" /\ cursor \in Nat /\ global_up' \in Nat \ {0}
  BY <1>1, <1>4 DEF BackwardControl, Sizes
<1>6. Checking
  BY <1>1, <1>2, <1>5 DEF Checking, Propagation
<1>7. PICK live, bare, C : live = Base /\ bare = Bare /\ C = clauses[Candidate]
  OBVIOUS
<1>8. TrailInv(live, bare, C)'
  <2>1. Proper(C) /\ AssumeCandidate(C)
    BY <1>1, <1>3, <1>7, BackwardFacts
  <2>2. TrailInv(live, bare, C)
    BY <1>4, <1>7
  <2>3. clauses' \in Seq(Seq(Lit)) /\ ClausesProper' /\ live \subseteq 1..Len(clauses')
    BY <1>1, <2>2 DEF TrailInv, TrailTypes, ClausesProper
  <2>4. \A c \in live : clauses'[c] = clauses[c]
    BY <1>1
  <2>5. UNCHANGED <<wps, RAT_marked, RAT_assumed, RAT_unit>>
    BY <1>1
  <2> QED
    BY <1>5, <2>1, <2>2, <2>3, <2>4, <2>5, AssumeCandidateKeeps
<1>9. WpUp' /\ Propagated'
  <2>1. CASE StartUp(candidate_assumed', "up")
    <3>1. PICK from : from = candidate_assumed'
      OBVIOUS
    <3>2. Floor' = from
      BY <1>2, <3>1 DEF Floor
    <3>3. from \in Nat /\ from >= 1 /\ from <= Len(units') + 1
      <4>1. /\ candidate_assumed' \in Nat /\ candidate_assumed' >= 1
            /\ candidate_assumed' <= candidate_unit' /\ candidate_unit' <= Len(units') + 1
            /\ candidate_unit' \in Nat /\ units' \in Seq(Unit)
        BY <1>2, <1>8 DEF TrailInv, TrailTypes, Levels, CandidateLevel
      <4>2. Len(units') \in Nat
        <5>1. PICK u : u = units'
          OBVIOUS
        <5>2. u \in Seq(Unit)
          BY <4>1, <5>1
        <5> QED
          BY <5>1, <5>2, LenProperties
      <4> QED
        BY <3>1, <4>1, <4>2
    <3>4. from \in Nat \ {0} /\ StartUp(from, "up")
      BY <2>1, <3>1, <3>3
    <3> QED
      BY <1>3, <1>8, <3>2, <3>3, <3>4, Started
  <2>2. CASE pc' = "falsified" /\ wp_up' = wp_up
    BY <1>4, <2>2 DEF WpUp, Propagated
  <2> QED
    BY <1>1, <2>1, <2>2
<1>10. Witnesses'
  BY <1>1, <1>2, <1>3, <1>5, <1>6, WitnessesStay
<1> QED
  BY <1>1, <1>3, <1>6, <1>7, <1>8, <1>9, <1>10, CheckEnds

(* A step that only moves on, with no literal assumed or implied.            *)
LEMMA StepEnds ==
  ASSUME BackwardInv, pc \notin Stopped, ~Adds, pc \notin {"prepare", "uncommit"}, Checking,
         UNCHANGED <<clauses, wps, alphaVars, levelVars, markVars, wp_up>>, Witnesses',
         pc' \notin {"up", "re-up"}
  PROVE  BackwardInv'
<1>1. TrailInv(Base, Bare, clauses[Candidate]) /\ WpUp
  BY LineFacts
<1>2. PICK live, bare, C : live = Base /\ bare = Bare /\ C = clauses[Candidate]
  OBVIOUS
<1>3. TrailInv(live, bare, C)'
  BY <1>1, <1>2, Steady
<1>4. WpUp' /\ Propagated'
  BY <1>1 DEF WpUp, Propagated
<1> QED
  BY <1>2, <1>3, <1>4, CheckEnds

LEMMA RefuteCandidateKeeps == ASSUME BackwardInv, RefuteCandidate PROVE BackwardInv'
<1>1. CASE pc' = "FATAL"
  BY <1>1 DEF BackwardInv, Stopped
<1>2. CASE pc' # "FATAL"
  <2>1. /\ pc = "falsified" /\ up_state = "CANDIDATE_UP" /\ pc' = "undo"
        /\ UNCHANGED <<clauses, wps, alphaVars, markVars, upVars, loopVars, lineVars, passVars>>
    BY <1>2 DEF RefuteCandidate
  <2>2. UNCHANGED <<global_up, levelVars, up_state, wp_up, current_line, deletion, cursor, subst,
                    witnesses, proof, loaded, deleted, derived_empty_clause, lines_range>>
    BY <2>1 DEF upVars, levelVars, loopVars, lineVars, passVars
  <2>3. pc \notin Stopped /\ ~Adds
    BY <2>1 DEF Stopped, Adds, Forward
  <2>4. cursor \in Nat /\ global_up \in Nat \ {0}
    BY <2>3, LineFacts DEF Sizes
  <2>5. Checking
    BY <2>1, <2>2, <2>4 DEF Checking, Propagation
  <2>6. Witnesses'
    BY <2>1, <2>2, <2>3, <2>5, WitnessesStay
  <2> QED
    BY <2>1, <2>2, <2>3, <2>5, <2>6, StepEnds
<1> QED
  BY <1>1, <1>2

-----------------------------------------------------------------------------
(***************************************************************************)
(* Witnesses, and the images of clauses.                                    *)
(***************************************************************************)
LEMMA Negation == \A m \in Target : -m \in Target /\ m \in Int
<1> SUFFICES ASSUME NEW m \in Target PROVE -m \in Target /\ m \in Int
  OBVIOUS
<1>1. CASE m \in Lit
  BY <1>1, LitFacts DEF Target
<1>2. CASE m \in {SUBST_TT, SUBST_FF}
  BY <1>2, VarAssumption DEF Target, SUBST_FF
<1> QED
  BY <1>1, <1>2 DEF Target

LEMMA MinimizedType ==
  ASSUME NEW w \in WitnessOfPairs, NEW A
  PROVE  Minimized(w, A) \in WitnessOfPairs
<1> DEFINE Pair == [from: Lit, to: Target]
<1>1. w.pivot \in Lit /\ w.tt \in Seq(Lit) /\ w.map \in Seq(Pair)
  BY DEF WitnessOfPairs
<1>2. PICK K : K = {k \in 1..Len(w.tt) : w.tt[k] \notin A}
  OBVIOUS
<1>3. PICK pairs : pairs = Evaluated(w, A)
  OBVIOUS
<1>4. PICK M : M = {k \in 1..Len(w.map) : ~Redundant(A, pairs[k])}
  OBVIOUS
<1>5. PICK tt : tt = AtPlaces(w.tt, K)
  OBVIOUS
<1>6. PICK map : map = AtPlaces(pairs, M)
  OBVIOUS
<1>7. Minimized(w, A) = [w EXCEPT !.tt = tt, !.map = map]
  BY <1>2, <1>3, <1>4, <1>5, <1>6 DEF Minimized
<1>8. tt \in Seq(Lit)
  <2>1. K \in SUBSET (1..Len(w.tt))
    BY <1>2
  <2> QED
    BY <1>1, <1>5, <2>1, AtPlacesSeq
<1>9. pairs \in Seq(Pair) /\ Len(pairs) = Len(w.map)
  <2>1. Len(w.map) \in Nat /\ \A k \in 1..Len(w.map) : w.map[k] \in Pair
    BY <1>1, LenProperties, ElementOfSeq
  <2>2. \A k \in 1..Len(w.map) : [w.map[k] EXCEPT !.to = Value(A, @)] \in Pair
    <3> SUFFICES ASSUME NEW k \in 1..Len(w.map)
                 PROVE  [w.map[k] EXCEPT !.to = Value(A, @)] \in Pair
      OBVIOUS
    <3>1. w.map[k] \in [from: Lit, to: Target]
      BY <2>1
    <3>2. Value(A, w.map[k].to) \in Target
      BY <3>1 DEF Value, Target
    <3> QED
      BY <3>1, <3>2
  <2>3. pairs = [k \in 1..Len(w.map) |-> [w.map[k] EXCEPT !.to = Value(A, @)]]
    BY <1>3 DEF Evaluated
  <2>4. pairs \in [1..Len(w.map) -> Pair]
    BY <2>2, <2>3
  <2> HIDE DEF Pair
  <2> QED
    BY <2>1, <2>4
<1>10. map \in Seq(Pair)
  <2>1. M \in SUBSET (1..Len(pairs))
    BY <1>4, <1>9
  <2> HIDE DEF Pair
  <2> QED
    BY <1>6, <1>9, <2>1, AtPlacesSeq
<1> QED
  BY <1>7, <1>8, <1>10 DEF WitnessOfPairs

LEMMA SubstType ==
  ASSUME NEW w \in WitnessOfPairs
  PROVE  Subst(w) \in Substitution
<1> DEFINE Pair == [from: Lit, to: Target]
<1>1. w.pivot \in Lit /\ w.tt \in Seq(Lit) /\ w.map \in Seq(Pair)
  BY DEF WitnessOfPairs
<1>2. PICK set : set = Settings(w)
  OBVIOUS
<1>3. set \in Seq(Pair)
  <2>1. Len(w.tt) \in Nat /\ \A k \in 1..Len(w.tt) : w.tt[k] \in Lit
    BY <1>1, LenProperties, ElementOfSeq
  <2>2. PICK first : first = [k \in 1..Len(w.tt) + 1 |->
                                [from |-> IF k = 1 THEN w.pivot ELSE w.tt[k - 1],
                                 to |-> SUBST_TT]]
    OBVIOUS
  <2>3. \A k \in 1..Len(w.tt) + 1 : first[k] \in Pair
    <3> SUFFICES ASSUME NEW k \in 1..Len(w.tt) + 1 PROVE first[k] \in Pair
      OBVIOUS
    <3>1. PICK l : l = IF k = 1 THEN w.pivot ELSE w.tt[k - 1]
      OBVIOUS
    <3>2. l \in Lit
      <4>1. k # 1 => k - 1 \in 1..Len(w.tt)
        BY <2>1
      <4> QED
        BY <1>1, <2>1, <3>1, <4>1
    <3>3. first[k] = [from |-> l, to |-> SUBST_TT]
      BY <2>2, <3>1
    <3> QED
      BY <3>2, <3>3 DEF Target
  <2> HIDE DEF Pair
  <2>4. first \in [1..Len(w.tt) + 1 -> Pair]
    BY <2>2, <2>3
  <2>5. first \in Seq(Pair)
    BY <2>1, <2>4
  <2>6. set = first \o w.map
    BY <1>2, <2>2 DEF Settings
  <2> QED
    BY <1>1, <2>5, <2>6, ConcatProperties
<1>4. Len(set) \in Nat /\ \A k \in 1..Len(set) : set[k].from \in Lit /\ set[k].to \in Target
  <2>1. Len(set) \in Nat /\ \A k \in 1..Len(set) : set[k] \in [from: Lit, to: Target]
    BY <1>3, LenProperties, ElementOfSeq
  <2> QED
    BY <2>1
<1> DEFINE last(v) == SelectLastInSeq(set, LAMBDA e : VarOf(e.from) = v)
<1>5. \A v \in Var : last(v) = 0 \/ last(v) \in 1..Len(set)
  <2> SUFFICES ASSUME NEW v \in Var PROVE last(v) = 0 \/ last(v) \in 1..Len(set)
    OBVIOUS
  <2> DEFINE I == {k \in 1..Len(set) : VarOf(set[k].from) = v}
  <2>1. last(v) = IF I # {} THEN Max(I) ELSE 0
    BY DEF SelectLastInSeq
  <2> HIDE DEF last
  <2>2. I \in SUBSET Nat /\ \A k \in I : k <= Len(set)
    BY <1>4
  <2>3. I \subseteq 1..Len(set)
    OBVIOUS
  <2> HIDE DEF I
  <2>4. I # {} => Max(I) \in I
    BY <1>4, <2>2, MaxExists
  <2> QED
    BY <2>1, <2>3, <2>4
<1>6. \A v \in Var : last(v) # 0 => SetTo(set[last(v)]) \in Target
  <2> SUFFICES ASSUME NEW v \in Var, last(v) # 0 PROVE SetTo(set[last(v)]) \in Target
    OBVIOUS
  <2> HIDE DEF last
  <2>1. set[last(v)].to \in Target
    BY <1>4, <1>5
  <2> QED
    BY <2>1, Negation DEF SetTo
<1>7. \A v \in Var : v \in Target
  BY DEF Target, Lit
<1>8. Subst(w) = [v \in Var |-> IF last(v) = 0 THEN v ELSE SetTo(set[last(v)])]
  <2>1. PICK L : L = [v \in Var |-> last(v)]
    OBVIOUS
  <2>2. Subst(w) = [v \in Var |-> IF L[v] = 0 THEN v ELSE SetTo(set[L[v]])]
    BY <1>2, <2>1 DEF Subst
  <2> HIDE DEF last
  <2> QED
    BY <2>1, <2>2
<1> HIDE DEF last
<1> QED
  BY <1>6, <1>7, <1>8 DEF Substitution

LEMMA ImageType ==
  ASSUME NEW s \in Substitution, NEW C \in Seq(Lit), ReductionOf(s, C) = "REDUCED"
  PROVE  ReducedImage(s, C) \in Seq(Lit)
<1>1. Len(C) \in Nat /\ \A k \in 1..Len(C) : C[k] \in Lit /\ C[k] \in ToSet(C)
  BY LenProperties, ElementOfSeq DEF ToSet
<1>2. SUBST_TT \notin Image(s, ToSet(C))
  <2> SUFFICES ASSUME SUBST_TT \in Image(s, ToSet(C)) PROVE FALSE
    OBVIOUS
  <2>1. PICK T : T = Image(s, ToSet(C))
    OBVIOUS
  <2>2. SUBST_TT # SUBST_FF /\ SUBST_TT \notin Lit
    BY VarAssumption DEF SUBST_FF, Lit
  <2>3. ~(T \subseteq {SUBST_FF})
    BY <2>1, <2>2
  <2>4. ~(\A l \in ToSet(C) : MapLit(s, l) = l)
    <3>1. \A l \in ToSet(C) : l \in Lit
      BY VarsOf
    <3>2. PICK l \in ToSet(C) : MapLit(s, l) = SUBST_TT
      BY DEF Image
    <3> QED
      BY <2>2, <3>1, <3>2
  <2>5. ReductionOf(s, C) = "SATISFIED"
    BY <2>1, <2>3, <2>4 DEF ReductionOf
  <2> QED
    BY <2>5
<1>3. PICK image : image = [k \in 1..Len(C) |-> MapLit(s, C[k])]
  OBVIOUS
<1>4. \A k \in 1..Len(C) : image[k] \in Target /\ image[k] # SUBST_TT
  <2> SUFFICES ASSUME NEW k \in 1..Len(C) PROVE image[k] \in Target /\ image[k] # SUBST_TT
    OBVIOUS
  <2>1. image[k] = MapLit(s, C[k]) /\ image[k] \in Image(s, ToSet(C))
    BY <1>1, <1>3 DEF Image
  <2>2. MapLit(s, C[k]) \in Target
    <3>1. C[k] \in Lit /\ Var \subseteq Nat \ {0}
      BY <1>1, VarAssumption
    <3>2. C[k] > 0 => C[k] \in Var
      BY <3>1 DEF Lit
    <3>3. ~(C[k] > 0) => -C[k] \in Var
      <4> SUFFICES ASSUME ~(C[k] > 0) PROVE -C[k] \in Var
        OBVIOUS
      <4>1. C[k] \notin Var
        <5>1. ASSUME C[k] \in Var PROVE C[k] > 0
          <6>1. C[k] \in Nat /\ C[k] # 0
            BY <3>1, <5>1
          <6> QED
            BY ONLY <6>1
        <5> QED
          BY <5>1
      <4>2. PICK v \in Var : C[k] = -v
        BY <3>1, <4>1 DEF Lit
      <4>3. v \in Int /\ -(-v) = v
        BY <3>1
      <4> QED
        BY <4>2, <4>3
    <3> QED
      BY <3>2, <3>3, Negation DEF MapLit, Substitution
  <2> QED
    BY <1>2, <2>1, <2>2
<1>5. image \in Seq(Target) /\ Len(image) = Len(C)
  <2>1. image \in [1..Len(C) -> Target]
    BY <1>3, <1>4
  <2> QED
    BY <1>1, <2>1
<1>6. PICK K : K = {k \in 1..Len(C) : image[k] # SUBST_FF}
  OBVIOUS
<1>7. PICK R : R = AtPlaces(image, K)
  OBVIOUS
<1>8. K \in SUBSET (1..Len(image))
  BY <1>5, <1>6
<1>9. /\ R \in Seq(Target)
      /\ \A n \in 1..Len(R) : \E p \in K : R[n] = image[p]
  BY <1>5, <1>7, <1>8, AtPlacesSeq
<1>10. \A n \in 1..Len(R) : R[n] \in Lit
  BY <1>4, <1>6, <1>9 DEF Target
<1>11. Len(R) \in Nat /\ DOMAIN R = 1..Len(R) /\ R \in [1..Len(R) -> Target]
  BY <1>9, LenProperties
<1>12. R \in [1..Len(R) -> Lit]
  BY <1>10, <1>11
<1>13. R \in Seq(Lit)
  BY <1>11, <1>12
<1>14. ReducedImage(s, C) = R
  BY <1>3, <1>6, <1>7 DEF ReducedImage
<1> QED
  BY <1>13, <1>14

LEMMA AssumeWitnessKeeps == ASSUME BackwardInv, AssumeWitness PROVE BackwardInv'
<1>1. CASE pc' = "FATAL"
  BY <1>1 DEF BackwardInv, Stopped
<1>2. CASE pc' # "FATAL"
  <2>1. /\ pc = "witness" /\ pc' = "rat"
        /\ subst' = Subst(Minimized(Witness, alpha))
        /\ \E final : witnesses' = [witnesses EXCEPT ![current_line + 1] = final]
        /\ cursor' = IF LineRange.min <= LineRange.max THEN LineRange.min ELSE Candidate
        /\ UNCHANGED <<clauses, wps, alphaVars, markVars, upVars, loopVars, current_line,
                       deletion, passVars>>
    BY <1>2 DEF AssumeWitness
  <2>2. UNCHANGED <<global_up, levelVars, up_state, wp_up, proof, loaded, deleted,
                    derived_empty_clause, lines_range>>
    BY <2>1 DEF upVars, levelVars, loopVars, passVars
  <2>3. pc \notin Stopped /\ ~Adds
    BY <2>1 DEF Stopped, Adds, Forward, Propagation
  <2>4. /\ Sizes /\ Witnesses /\ BackwardControl
        /\ Candidate = NumCnf + current_line + 1 /\ current_line \in Nat
    BY <2>3, LineFacts
  <2>5. /\ current_line + 1 \in 1..Len(proof.lines) /\ current_line + 1 \in 1..Len(lines_range)
        /\ Candidate \in Nat \ {0} /\ proof \in Proofs
    BY <2>1, <2>3, BackwardFacts
  <2>6. up_state = "CANDIDATE_UP"
    BY <2>1, <2>4 DEF BackwardControl
  <2>7. Witness \in WitnessOfPairs
    <3>1. Unread(current_line + 1)
      BY <2>1, <2>6 DEF Unread
    <3>2. witnesses[current_line + 1] = proof.lines[current_line + 1].witness
      BY <2>4, <2>5, <3>1 DEF Witnesses
    <3> QED
      BY <2>5, <3>2, ProofFacts DEF Witness
  <2>8. subst' \in Substitution
    BY <2>1, <2>7, MinimizedType, SubstType
  <2>9. cursor' \in Nat \ {0}
    <3>1. lines_range \in Seq([min: Nat \ {0}, max: Nat])
      BY <2>4 DEF Witnesses
    <3>2. LineRange \in [min: Nat \ {0}, max: Nat]
      BY <2>5, <3>1, ElementOfSeq DEF LineRange
    <3> QED
      BY <2>1, <2>5, <3>2
  <2>10. Checking
    BY <2>1, <2>2, <2>4, <2>6, <2>9 DEF Checking, Propagation, Sizes
  <2>11. Witnesses'
    <3>1. UNCHANGED <<NumCnf, EndOfFormula>> /\ ~Adds'
      BY <2>1, <2>2 DEF NumCnf, EndOfFormula, Adds, Forward, Propagation
    <3>2. \A k \in 1..Len(proof.lines) : Unread(k)' => Unread(k) /\ k # current_line + 1
      BY <2>1, <2>4, <3>1 DEF Unread
    <3>3. /\ DOMAIN witnesses' = 1..Len(proof.lines)
          /\ \A k \in 1..Len(proof.lines) : k # current_line + 1 => witnesses'[k] = witnesses[k]
      BY <2>1, <2>4 DEF Witnesses
    <3> QED
      BY <2>1, <2>2, <2>4, <2>8, <3>1, <3>2, <3>3 DEF Witnesses
  <2> QED
    BY <2>1, <2>2, <2>3, <2>10, <2>11, StepEnds
<1> QED
  BY <1>1, <1>2

(* The clause to check under the witness.                                   *)
LEMMA ScanFacts ==
  ASSUME BackwardInv, pc = "rat"
  PROVE  /\ pc \notin Stopped /\ ~Adds /\ up_state = "CANDIDATE_UP"
         /\ cursor \in Nat \ {0} /\ NextCursor \in Nat \ {0}
         /\ cursor <= Candidate => clauses[cursor] \in Seq(Lit)
         /\ subst \in Substitution /\ global_up \in Nat \ {0}
<1>1. pc \notin Stopped /\ ~Adds
  BY DEF Stopped, Adds, Forward, Propagation
<1>2. /\ Sizes /\ Witnesses /\ BackwardControl
      /\ \A c \in 1..Len(clauses) : Proper(clauses[c]) /\ clauses[c] \in Seq(Lit)
  BY <1>1, LineFacts
<1>3. /\ Candidate \in Nat \ {0} /\ Candidate \in 1..Len(clauses)
      /\ current_line + 1 \in 1..Len(lines_range)
  BY <1>1, BackwardFacts
<1>4. up_state = "CANDIDATE_UP" /\ cursor \in Nat \ {0} /\ global_up \in Nat \ {0}
  BY <1>2 DEF BackwardControl, Sizes
<1>5. NextCursor \in Nat \ {0}
  BY <1>3, <1>4 DEF NextCursor
<1>6. cursor <= Candidate => cursor \in 1..Len(clauses)
  BY <1>3, <1>4
<1> QED
  BY <1>1, <1>2, <1>4, <1>5, <1>6 DEF Witnesses

(* The next clause.                                                         *)
LEMMA ScanEnds ==
  ASSUME BackwardInv, pc = "rat", pc' = "rat", cursor' = NextCursor,
         UNCHANGED <<clauses, wps, alphaVars, markVars, upVars, loopVars, current_line,
                     deletion, subst, witnesses, passVars>>
  PROVE  BackwardInv'
<1>1. UNCHANGED <<global_up, levelVars, up_state, wp_up, proof, loaded, deleted,
                  derived_empty_clause, lines_range>>
  BY DEF upVars, levelVars, loopVars, passVars
<1>2. /\ pc \notin Stopped /\ ~Adds /\ up_state = "CANDIDATE_UP"
      /\ NextCursor \in Nat \ {0} /\ global_up \in Nat \ {0}
  BY ScanFacts
<1>3. Checking
  BY <1>1, <1>2 DEF Checking, Propagation
<1>4. Witnesses'
  BY <1>2, <1>3, WitnessesStay
<1> QED
  BY <1>1, <1>2, <1>3, <1>4, StepEnds

LEMMA PassClauseKeeps == ASSUME BackwardInv, PassClause PROVE BackwardInv'
  BY ScanEnds DEF PassClause, Scanning

LEMMA ImageHoldsKeeps == ASSUME BackwardInv, ImageHolds PROVE BackwardInv'
  BY ScanEnds DEF ImageHolds, NotSkipped, Scanning

LEMMA CheckImageKeeps == ASSUME BackwardInv, CheckImage PROVE BackwardInv'
<1>1. /\ pc = "rat" /\ cursor <= Candidate /\ ReductionOf(subst, clauses[cursor]) = "REDUCED"
      /\ AssumeImage(ReducedImage(subst, clauses[cursor]))
      /\ StartUp(RAT_assumed', "up")
      /\ UNCHANGED <<clauses, wps, global_up, candidate_assumed, candidate_unit,
                     lineVars, passVars>>
  BY DEF CheckImage, NotSkipped, Scanning, Reduction
<1>2. UNCHANGED <<current_line, deletion, cursor, subst, witnesses, proof, loaded, deleted,
                  derived_empty_clause, lines_range>>
      /\ pc' = "up" /\ up_state' = "RAT_UP"
  BY <1>1 DEF lineVars, passVars, AssumeImage, StartUp
<1>3. /\ pc \notin Stopped /\ ~Adds /\ up_state = "CANDIDATE_UP" /\ cursor \in Nat \ {0}
      /\ global_up \in Nat \ {0} /\ subst \in Substitution /\ clauses[cursor] \in Seq(Lit)
  BY <1>1, ScanFacts
<1>4. Checking
  BY <1>1, <1>2, <1>3 DEF Checking, Propagation
<1>5. PICK live, bare, C : live = Base /\ bare = Bare /\ C = clauses[Candidate]
  OBVIOUS
<1>6. TrailInv(live, bare, C)
  BY <1>3, <1>5, LineFacts
<1>7. TrailInv(live, bare, C)'
  <2>1. PICK D : D = ReducedImage(subst, clauses[cursor])
    OBVIOUS
  <2>2. D \in Seq(Lit) /\ AssumeImage(D)
    BY <1>1, <1>3, <2>1, ImageType
  <2> QED
    BY <1>1, <1>3, <1>6, <2>2, AssumeImageKeeps
<1>8. WpUp' /\ Propagated'
  <2>1. PICK from : from = RAT_assumed'
    OBVIOUS
  <2>2. Floor' = from
    BY <1>2, <2>1 DEF Floor
  <2>3. from \in Nat \ {0} /\ from <= Len(units') + 1
    <3>1. /\ RAT_assumed' \in Nat /\ candidate_unit' \in Nat /\ candidate_assumed' \in Nat
          /\ candidate_assumed' >= 1 /\ candidate_assumed' <= candidate_unit'
          /\ candidate_unit' <= RAT_assumed' /\ RAT_assumed' <= Len(units') + 1
      BY <1>2, <1>7 DEF TrailInv, TrailTypes, Levels, CandidateLevel
    <3> QED
      BY <2>1, <3>1
  <2>4. StartUp(from, "up")
    BY <1>1, <2>1
  <2> QED
    BY <1>3, <1>7, <2>2, <2>3, <2>4, Started
<1>9. Witnesses'
  BY <1>1, <1>2, <1>3, <1>4, WitnessesStay
<1> QED
  BY <1>1, <1>3, <1>4, <1>5, <1>7, <1>8, <1>9, CheckEnds

LEMMA RefuteImageKeeps == ASSUME BackwardInv, RefuteImage PROVE BackwardInv'
<1>1. /\ pc = "falsified" /\ up_state = "RAT_UP" /\ UndoImage /\ cursor' = NextCursor
      /\ pc' = "rat"
      /\ UNCHANGED <<clauses, wps, loopVars, global_up, candidate_assumed, candidate_unit,
                     RAT_assumed, RAT_unit, current_line, deletion, subst, witnesses, passVars>>
  BY DEF RefuteImage
<1>2. UNCHANGED <<wp_up, proof, loaded, deleted, derived_empty_clause, lines_range>>
      /\ up_state' = "CANDIDATE_UP"
  BY <1>1 DEF loopVars, passVars, UndoImage
<1>3. pc \notin Stopped /\ ~Adds
  BY <1>1 DEF Stopped, Adds, Forward
<1>4. /\ Sizes /\ BackwardControl /\ WpUp /\ TrailInv(Base, Bare, clauses[Candidate])
  BY <1>3, LineFacts
<1>5. Candidate \in Nat \ {0}
  BY <1>3, BackwardFacts
<1>6. cursor \in Nat \ {0} /\ global_up \in Nat \ {0}
  BY <1>1, <1>4 DEF BackwardControl, Sizes
<1>7. cursor' \in Nat \ {0}
  <2>1. NextCursor \in Nat \ {0}
    BY <1>5, <1>6 DEF NextCursor
  <2> QED
    BY <1>1, <2>1
<1>8. Checking
  BY <1>1, <1>2, <1>6, <1>7 DEF Checking, Propagation
<1>9. PICK live, bare, C : live = Base /\ bare = Bare /\ C = clauses[Candidate]
  OBVIOUS
<1>10. TrailInv(live, bare, C)'
  <2>1. TrailInv(live, bare, C)
    BY <1>4, <1>9
  <2> QED
    BY <1>1, <2>1, UndoImageKeeps
<1>11. WpUp' /\ Propagated'
  BY <1>1, <1>2, <1>4 DEF WpUp, Propagated
<1>12. Witnesses'
  BY <1>1, <1>2, <1>3, <1>8, WitnessesStay
<1> QED
  BY <1>1, <1>3, <1>8, <1>9, <1>10, <1>11, <1>12, CheckEnds

LEMMA StoreLineKeeps == ASSUME BackwardInv, StoreLine PROVE BackwardInv'
<1>1. CASE pc' = "FATAL"
  BY <1>1 DEF BackwardInv, Stopped
<1>2. CASE pc' # "FATAL"
  <2>1. /\ pc = "rat" /\ pc' = "undo"
        /\ UNCHANGED <<clauses, wps, alphaVars, markVars, upVars, loopVars, lineVars, passVars>>
    BY <1>2 DEF StoreLine
  <2>2. UNCHANGED <<global_up, levelVars, up_state, wp_up, current_line, deletion, cursor, subst,
                    witnesses, proof, loaded, deleted, derived_empty_clause, lines_range>>
    BY <2>1 DEF upVars, levelVars, loopVars, lineVars, passVars
  <2>3. /\ pc \notin Stopped /\ ~Adds /\ up_state = "CANDIDATE_UP"
        /\ cursor \in Nat \ {0} /\ global_up \in Nat \ {0}
    BY <2>1, ScanFacts
  <2>4. Checking
    BY <2>1, <2>2, <2>3 DEF Checking, Propagation
  <2>5. Witnesses'
    BY <2>1, <2>2, <2>3, <2>4, WitnessesStay
  <2> QED
    BY <2>1, <2>2, <2>3, <2>4, <2>5, StepEnds
<1> QED
  BY <1>1, <1>2

LEMMA UnassumeCandidateKeeps == ASSUME BackwardInv, UnassumeCandidate PROVE BackwardInv'
<1>1. CASE pc' = "print"
  BY <1>1 DEF BackwardInv, Stopped
<1>2. CASE pc' # "print"
  <2>1. /\ pc = "undo" /\ UndoCandidate(clauses[Candidate])
        /\ pc' = "prepare" /\ current_line > 0
        /\ UNCHANGED <<clauses, wps, RAT_marked, global_up, candidate_assumed, candidate_unit,
                       RAT_assumed, RAT_unit, loopVars, lineVars, passVars>>
    BY <1>2 DEF UnassumeCandidate
  <2>2. UNCHANGED <<wp_up, current_line, deletion, cursor, subst, witnesses, proof, loaded,
                    deleted, derived_empty_clause, lines_range>>
        /\ up_state' = "GLOBAL_UP"
    BY <2>1 DEF loopVars, lineVars, passVars, UndoCandidate
  <2>3. pc \notin Stopped /\ ~Adds
    BY <2>1 DEF Stopped, Adds, Forward, Propagation
  <2>4. /\ Sizes /\ BackwardControl /\ WpUp /\ TrailInv(Base, Bare, clauses[Candidate])
        /\ current_line \in Nat
    BY <2>3, LineFacts
  <2>5. /\ up_state = "CANDIDATE_UP" /\ cursor \in Nat /\ global_up \in Nat \ {0}
        /\ current_line >= 1
    BY <2>1, <2>4 DEF BackwardControl, Sizes
  <2>6. Checking
    BY <2>1, <2>2, <2>5 DEF Checking, Propagation
  <2>7. PICK live, bare, C : live = Base /\ bare = Bare /\ C = clauses[Candidate]
    OBVIOUS
  <2>8. TrailInv(live, bare, C)'
    <3>1. TrailInv(live, bare, C) /\ C \in Seq(Lit)
      BY <2>3, <2>4, <2>7, BackwardFacts
    <3>2. UndoCandidate(C)
      BY <2>1, <2>7
    <3> QED
      BY <2>1, <2>5, <3>1, <3>2, UndoCandidateKeeps
  <2>9. WpUp' /\ Propagated'
    BY <2>1, <2>2, <2>4 DEF WpUp, Propagated
  <2>10. Witnesses'
    BY <2>1, <2>2, <2>3, <2>6, WitnessesStay
  <2> QED
    BY <2>1, <2>3, <2>6, <2>7, <2>8, <2>9, <2>10, CheckEnds
<1> QED
  BY <1>1, <1>2

-----------------------------------------------------------------------------
(***************************************************************************)
(* The start.                                                               *)
(***************************************************************************)
(* The clauses of the formula, of the lines, and the empty one.              *)
LEMMA FirstClauses ==
  ASSUME proof \in Proofs,
         clauses = proof.cnf \o [k \in 1..Len(proof.lines) |-> proof.lines[k].clause]
                   \o (IF proof.empty THEN << << >> >> ELSE << >>)
  PROVE  /\ clauses \in Seq(Seq(Lit)) /\ Len(clauses) \in Nat /\ Len(clauses) >= EndOfFormula
         /\ \A c \in 1..Len(clauses) :
              Proper(clauses[c]) /\ (c <= EndOfFormula => clauses[c] # << >>)
<1>1. /\ NumCnf \in Nat \ {0} /\ Len(proof.lines) \in Nat
      /\ EndOfFormula = NumCnf + Len(proof.lines)
      /\ NumCnf = Len(proof.cnf) /\ proof.cnf \in Seq(Seq(Lit))
      /\ \A c \in 1..NumCnf : Proper(proof.cnf[c]) /\ proof.cnf[c] # << >>
      /\ \A k \in 1..Len(proof.lines) :
           /\ proof.lines[k].clause \in Seq(Lit)
           /\ Proper(proof.lines[k].clause) /\ proof.lines[k].clause # << >>
  BY ProofFacts
<1>2. PICK f, n : f = proof.cnf /\ n = NumCnf
  OBVIOUS
<1>3. PICK g, m : g = [k \in 1..Len(proof.lines) |-> proof.lines[k].clause] /\ m = Len(proof.lines)
  OBVIOUS
<1>4. PICK h : h = IF proof.empty THEN << << >> >> ELSE << >>
  OBVIOUS
<1>5. f \in Seq(Seq(Lit)) /\ Len(f) = n /\ n \in Nat
  BY <1>1, <1>2
<1>6. g \in Seq(Seq(Lit)) /\ Len(g) = m /\ m \in Nat
  <2>1. g \in [1..m -> Seq(Lit)]
    BY <1>1, <1>3
  <2> QED
    BY <1>1, <1>3, <2>1
<1>7. h \in Seq(Seq(Lit)) /\ Len(h) \in Nat /\ \A k \in 1..Len(h) : h[k] = << >>
  <2>1. << >> \in Seq(Lit) /\ << >> \in Seq(Seq(Lit)) /\ Len(<< >>) = 0
    BY EmptySeq
  <2>2. CASE proof.empty
    <3>1. h = << << >> >>
      BY <1>4, <2>2
    <3> QED
      BY <2>1, <3>1
  <2>3. CASE ~proof.empty
    BY <1>4, <2>1, <2>3
  <2> QED
    BY <2>2, <2>3
<1>8. PICK fg : fg = f \o g
  OBVIOUS
<1>9. /\ fg \in Seq(Seq(Lit)) /\ Len(fg) = n + m
      /\ \A c \in 1..n + m : fg[c] = IF c <= n THEN f[c] ELSE g[c - n]
  BY <1>5, <1>6, <1>8, ConcatProperties
<1>10. clauses = fg \o h
  BY <1>2, <1>3, <1>4, <1>8
<1>11. PICK a : a = n + m
  OBVIOUS
<1>12. a \in Nat /\ Len(fg) = a /\ a = EndOfFormula
  <2>1. EndOfFormula = n + m
    BY ONLY <1>1, <1>2, <1>3
  <2> QED
    BY ONLY <1>5, <1>6, <1>9, <1>11, <2>1
<1>13. PICK cl, b : cl = clauses /\ b = Len(h)
  OBVIOUS
<1>14. /\ cl \in Seq(Seq(Lit)) /\ Len(cl) = a + b /\ b \in Nat
       /\ \A c \in 1..a + b : cl[c] = IF c <= a THEN fg[c] ELSE h[c - a]
  <2>1. h \in Seq(Seq(Lit)) /\ fg \in Seq(Seq(Lit)) /\ b \in Nat
    BY ONLY <1>7, <1>9, <1>13
  <2>2. cl = fg \o h /\ Len(fg) = a /\ Len(h) = b
    BY ONLY <1>10, <1>12, <1>13
  <2>3. /\ fg \o h \in Seq(Seq(Lit)) /\ Len(fg \o h) = Len(fg) + Len(h)
        /\ \A c \in 1..Len(fg) + Len(h) :
             (fg \o h)[c] = IF c <= Len(fg) THEN fg[c] ELSE h[c - Len(fg)]
    BY ONLY <2>1, ConcatProperties
  <2> QED
    BY ONLY <2>1, <2>2, <2>3
<1>15. \A c \in 1..a : Proper(fg[c]) /\ fg[c] # << >>
  <2> SUFFICES ASSUME NEW c \in 1..a PROVE Proper(fg[c]) /\ fg[c] # << >>
    OBVIOUS
  <2>1. CASE c <= n
    <3>1. c \in 1..n /\ c \in 1..n + m
      BY ONLY <1>5, <1>6, <1>11, <2>1, c \in 1..a
    <3>2. fg[c] = f[c]
      BY <1>9, <2>1, <3>1
    <3> QED
      BY <1>1, <1>2, <3>1, <3>2
  <2>2. CASE ~(c <= n)
    <3>1. c - n \in 1..m /\ c \in 1..n + m
      BY ONLY <1>5, <1>6, <1>11, <2>2, c \in 1..a
    <3>2. fg[c] = g[c - n]
      BY <1>9, <2>2, <3>1
    <3> QED
      BY <1>1, <1>3, <3>1, <3>2
  <2> QED
    BY <2>1, <2>2
<1>16. Proper(<< >>)
  <2>1. << >> \in Seq(Lit) /\ Len(<< >>) = 0
    BY EmptySeq
  <2> QED
    BY <2>1 DEF Proper
<1>17. \A c \in 1..a + b : Proper(cl[c]) /\ (c <= a => cl[c] # << >>)
  <2> SUFFICES ASSUME NEW c \in 1..a + b PROVE Proper(cl[c]) /\ (c <= a => cl[c] # << >>)
    OBVIOUS
  <2>1. CASE c <= a
    <3>1. c \in 1..a
      BY ONLY <1>12, <1>14, <2>1, c \in 1..a + b
    <3>2. cl[c] = fg[c]
      BY ONLY <1>14, <2>1, c \in 1..a + b
    <3> QED
      BY ONLY <1>15, <3>1, <3>2
  <2>2. CASE ~(c <= a)
    <3>1. c - a \in 1..b
      BY ONLY <1>12, <1>14, <2>2, c \in 1..a + b
    <3>2. cl[c] = h[c - a]
      BY ONLY <1>14, <2>2, c \in 1..a + b
    <3>3. h[c - a] = << >>
      BY ONLY <1>7, <1>13, <3>1
    <3> QED
      BY ONLY <1>16, <2>2, <3>2, <3>3
  <2> QED
    BY <2>1, <2>2
<1>18. Len(cl) \in Nat /\ Len(cl) >= a
  BY ONLY <1>12, <1>14
<1> QED
  BY ONLY <1>12, <1>13, <1>14, <1>17, <1>18

LEMMA Starts == Init => BackwardInv
<1> SUFFICES ASSUME Init PROVE BackwardInv
  OBVIOUS
<1>1. /\ proof \in Proofs /\ InitTrail
      /\ clauses = proof.cnf \o [k \in 1..Len(proof.lines) |-> proof.lines[k].clause]
                   \o (IF proof.empty THEN << << >> >> ELSE << >>)
      /\ witnesses = [k \in 1..Len(proof.lines) |-> proof.lines[k].witness]
      /\ loaded = 0 /\ deleted = {} /\ current_line = 0 /\ deletion = 1 /\ lines_range = << >>
      /\ subst = Identity /\ cursor = 0 /\ wp_up = [k \in 1..Cardinality(Var) |-> 1]
      /\ pc = "load"
  BY DEF Init
<1>2. /\ wps = [l \in Lit |-> << >>] /\ alpha = {} /\ units = << >>
      /\ vars_unit_indexes = [v \in Var |-> 0] /\ assumed = {} /\ RAT_marked = {}
      /\ up_state = "GLOBAL_UP" /\ global_up = 1 /\ candidate_assumed = 0 /\ candidate_unit = 0
      /\ RAT_assumed = 0 /\ RAT_unit = 0 /\ derived_empty_clause = FALSE
  BY <1>1 DEF InitTrail
<1>3. /\ clauses \in Seq(Seq(Lit)) /\ Len(clauses) \in Nat /\ Len(clauses) >= EndOfFormula
      /\ \A c \in 1..Len(clauses) :
           Proper(clauses[c]) /\ (c <= EndOfFormula => clauses[c] # << >>)
  BY <1>1, FirstClauses
<1>4. NumCnf \in Nat \ {0} /\ EndOfFormula \in Nat
  BY <1>1, ProofFacts
<1>5. Adds
  BY <1>1 DEF Adds, Forward
<1>6. Base = {} /\ Bare = {}
  BY <1>1, <1>2, <1>5 DEF Base, Bare
<1>7. Len(<< >>) = 0 /\ << >> \in Seq(Unit) /\ << >> \in Seq(Nat)
      /\ << >> \in Seq([min: Nat \ {0}, max: Nat])
  OBVIOUS
<1>8. TrailInv({}, {}, clauses[Candidate])
  <2>1. TrailTypes
    BY <1>2, <1>3, <1>7 DEF TrailTypes
  <2>2. ClausesProper /\ {} \subseteq 1..Len(clauses)
    BY <1>3 DEF ClausesProper
  <2>3. Len(units) = 0 /\ \A l \in Lit : Len(wps[l]) = 0
    BY <1>2, <1>7
  <2>4. TrailExact
    BY <1>2, <2>3 DEF TrailExact
  <2>5. ReasonsHold({})
    BY <2>3 DEF ReasonsHold
  <2>6. WatchesHold({}, {})
    BY <2>3 DEF WatchesHold, OnceEach, Has
  <2>7. Levels(clauses[Candidate])
    BY <1>2, <2>3 DEF Levels
  <2> QED
    BY <2>1, <2>2, <2>4, <2>5, <2>6, <2>7 DEF TrailInv
<1>9. Sizes
  <2>1. loaded \in 0..EndOfFormula /\ loaded <= Len(clauses)
    BY <1>1, <1>3, <1>4
  <2>2. derived_empty_clause \in BOOLEAN
    BY <1>2
  <2>3. current_line \in Nat /\ deletion \in Nat \ {0} /\ cursor \in Nat /\ global_up \in Nat \ {0}
    BY <1>1, <1>2
  <2> QED
    BY ONLY <1>1, <1>3, <2>1, <2>2, <2>3 DEF Sizes
<1>10. Witnesses
  <2>1. Identity \in Substitution
    BY DEF Identity, Substitution, Target, Lit
  <2>2. loaded - NumCnf <= Len(lines_range)
    BY <1>1, <1>4, <1>7
  <2> QED
    BY <1>1, <1>7, <2>1, <2>2 DEF Witnesses
<1>11. ForwardControl
  <2>1. global_up <= Len(units) + 1 /\ loaded < NumCnf
    BY <1>1, <1>2, <1>4, <1>7
  <2> QED
    BY <1>1, <1>2, <1>3, <2>1 DEF ForwardControl
<1>12. BackwardControl
  BY <1>1, <1>2, <1>5 DEF BackwardControl
<1>13. WpUp /\ Propagated
  BY <1>1 DEF WpUp, Propagated
<1>14. pc \in Forward
  BY <1>1 DEF Forward
<1> QED
  BY <1>6, <1>8, <1>9, <1>10, <1>11, <1>12, <1>13, <1>14 DEF BackwardInv, Data

-----------------------------------------------------------------------------
(***************************************************************************)
(* Every step.                                                              *)
(***************************************************************************)
LEMMA Stutters == ASSUME BackwardInv, UNCHANGED vars PROVE BackwardInv'
<1>1. UNCHANGED <<clauses, wps, pc, alphaVars, markVars, upVars, loopVars, lineVars, passVars>>
  BY DEF vars
<1>2. CASE pc \in Stopped
  BY <1>1, <1>2 DEF BackwardInv, Stopped
<1>3. CASE pc \in {"up", "re-up"}
  <2>1. Loops /\ Searched /\ WpUp /\ Len(units) \in Nat
    BY <1>3, LoopFacts
  <2>2. UNCHANGED <<global_up, up_state, levelVars, i, j, ignored_j, progressed_i, bookmarked_i,
                    accepting, wp_up, units, RAT_assumed, candidate_assumed>>
    BY <1>1 DEF upVars, levelVars, loopVars, alphaVars
  <2>3. Floor' = Floor
    BY <2>2 DEF Floor
  <2>4. Loops'
    BY <2>1, <2>2, <2>3 DEF Loops
  <2>5. Searched'
    <3>1. \A n \in 1..Len(units) : \A q \in 1..Len(wps[-units[n].lit]) : Done(n, q)' => Done(n, q)
      BY <1>1, <2>2 DEF Done
    <3> QED
      BY <1>1, <2>1, <2>3, <3>1, SearchedStays
  <2>6. WpUp' /\ Propagated'
    BY <2>1, <2>2, <2>4, <2>5 DEF WpUp, Propagated
  <2>7. UNCHANGED Settles /\ Leaves
    BY <1>1, <2>2 DEF Settles, Leaves, lineVars, passVars
  <2> QED
    BY <1>1, <1>3, <2>2, <2>6, <2>7, LoopMoves
<1>4. CASE pc \notin Stopped /\ pc \notin {"up", "re-up"}
  <2>1. /\ Sizes /\ Witnesses /\ ForwardControl /\ BackwardControl /\ WpUp
        /\ TrailInv(Base, Bare, clauses[Candidate]) /\ pc \in Forward \cup Backward \cup Propagation
    <3>1. pc \in Forward \cup Backward \cup Propagation
      BY <1>4 DEF BackwardInv
    <3> QED
      BY <1>4, <3>1, LineFacts
  <2>2. UNCHANGED <<global_up, up_state, levelVars, wp_up, units, current_line, deletion, cursor,
                    subst, witnesses, proof, loaded, deleted, derived_empty_clause, lines_range>>
    BY <1>1 DEF upVars, levelVars, loopVars, alphaVars, lineVars, passVars
  <2>3. UNCHANGED <<NumCnf, EndOfFormula, Candidate, Bare, Adds>>
    BY <1>1, <2>2 DEF NumCnf, EndOfFormula, Candidate, ClauseOf, Bare, Adds
  <2>4. Base' = Base
    BY <1>1, <2>2, <2>3 DEF Base
  <2>5. PICK live, bare, C : live = Base /\ bare = Bare /\ C = clauses[Candidate]
    OBVIOUS
  <2>6. TrailInv(live, bare, C)'
    BY <1>1, <2>1, <2>2, <2>5, Steady
  <2>7. Sizes'
    BY <1>1, <2>1, <2>2, <2>3 DEF Sizes
  <2>8. Witnesses'
    <3>1. \A k : Unread(k)' <=> Unread(k)
      BY <1>1, <2>2, <2>3 DEF Unread
    <3> QED
      BY <1>1, <2>1, <2>2, <2>3, <3>1 DEF Witnesses
  <2>9. ForwardControl'
    BY <1>1, <2>1, <2>2, <2>3 DEF ForwardControl
  <2>10. BackwardControl'
    BY <1>1, <2>1, <2>2, <2>3 DEF BackwardControl
  <2>11. WpUp' /\ Propagated'
    BY <1>1, <1>4, <2>1, <2>2 DEF WpUp, Propagated
  <2>12. C = (clauses[Candidate])'
    BY <1>1, <2>3, <2>5
  <2>13. pc' \in Forward \cup Backward \cup Propagation
    BY <1>1, <2>1
  <2> QED
    BY <2>3, <2>4, <2>5, <2>6, <2>7, <2>8, <2>9, <2>10, <2>11, <2>12, <2>13, LineEnds
<1> QED
  BY <1>2, <1>3, <1>4

LEMMA Steps == ASSUME BackwardInv, [Next]_vars PROVE BackwardInv'
<1>1. ASSUME RefuseContradiction \/ PrintProof \/ Exited PROVE BackwardInv'
  <2>1. ASSUME RefuseContradiction PROVE BackwardInv'
    BY <2>1 DEF RefuseContradiction, BackwardInv, Stopped
  <2>2. ASSUME PrintProof PROVE BackwardInv'
    BY <2>2 DEF PrintProof, BackwardInv, Stopped
  <2>3. ASSUME Exited PROVE BackwardInv'
    BY <2>3, Stutters DEF Exited
  <2> QED
    BY <1>1, <2>1, <2>2, <2>3
<1>2. ASSUME \/ SkipSatisfied \/ ReplaceWatch \/ FindConflict \/ FindCoreUnit \/ AcceptUnused
             \/ IgnoreUnused \/ NextUnit \/ ReturnToIgnored \/ FinishUp
      PROVE  BackwardInv'
  BY <1>2, SkipSatisfiedKeeps, ReplaceWatchKeeps, FindConflictKeeps, FindCoreUnitKeeps,
     AcceptUnusedKeeps, IgnoreUnusedKeeps, NextUnitKeeps, ReturnToIgnoredKeeps, FinishUpKeeps
<1>3. ASSUME \/ StoreRange \/ IgnoreDeletion \/ SoftDelete
             \/ AddUnit \/ AddFalsified \/ AddWatched \/ RefuteFormula \/ EndOfForwardPass
      PROVE  BackwardInv'
  BY <1>3, StoreRangeKeeps, IgnoreDeletionKeeps, SoftDeleteKeeps, AddUnitKeeps,
     AddFalsifiedKeeps, AddWatchedKeeps, RefuteFormulaKeeps, EndOfForwardPassKeeps
<1>4. ASSUME \/ RestoreDeleted \/ UncommitClause \/ RestartGlobalUp
             \/ AssumeLine \/ RefuteCandidate \/ AssumeWitness
             \/ PassClause \/ ImageHolds \/ CheckImage \/ RefuteImage
             \/ StoreLine \/ UnassumeCandidate
      PROVE  BackwardInv'
  BY <1>4, RestoreDeletedKeeps, UncommitClauseKeeps, RestartGlobalUpKeeps, AssumeLineKeeps,
     RefuteCandidateKeeps, AssumeWitnessKeeps, PassClauseKeeps, ImageHoldsKeeps, CheckImageKeeps,
     RefuteImageKeeps, StoreLineKeeps, UnassumeCandidateKeeps
<1>5. ASSUME UNCHANGED vars PROVE BackwardInv'
  BY <1>5, Stutters
<1> QED
  BY <1>1, <1>2, <1>3, <1>4, <1>5 DEF Next

-----------------------------------------------------------------------------
(***************************************************************************)
(* The theorems.                                                            *)
(***************************************************************************)
(* The inductive invariant: in the forward pass, in propagation at every     *)
(* level, and while lines are taken back and checked, the trail, its         *)
(* reasons and the watches are those of the clauses of the pass.             *)
THEOREM Invariant == Spec => []BackwardInv
<1>1. BackwardInv /\ [Next]_vars => BackwardInv'
  BY Steps
<1> QED
  BY <1>1, Starts, PTL DEF Spec

(* Between its steps, the clauses of the pass are those of the property.     *)
LEMMA SettledClauses ==
  ASSUME BackwardInv, Settled
  PROVE  /\ TrailInv(Base, Bare, clauses[Candidate]) /\ Live = Base
         /\ derived_empty_clause => Bare = {loaded}
         /\ ~derived_empty_clause => Bare = {}
<1>1. pc \notin Stopped
  BY DEF Settled, Stopped
<1>2. TrailInv(Base, Bare, clauses[Candidate]) /\ ForwardControl /\ BackwardControl
  BY <1>1, LineFacts
<1>3. Adds <=> pc \in {"load", "line"}
  BY DEF Settled, Adds, Forward, Propagation
<1>4. Live = Base
  BY <1>3 DEF Settled, Live, Base
<1> QED
  BY <1>2, <1>4 DEF Bare

(* ReasonsPrecede, of the reasons that outlive deletions and lines taken back
   (unassign_global_units_due_to_deletion(), uncommit_clause()), whatever the
   proof is.                                                                *)
THEOREM Reasons == Spec => []ReasonsPrecede
<1>1. BackwardInv => ReasonsPrecede
  <2> SUFFICES ASSUME BackwardInv, Settled PROVE ReasonsIn(Live)
    BY DEF ReasonsPrecede
  <2>1. PICK live, bare, C : live = Base /\ bare = Bare /\ C = clauses[Candidate]
    OBVIOUS
  <2>2. TrailInv(live, bare, C) /\ Live = live
    BY <2>1, SettledClauses
  <2>3. ReasonsIn(live)
    BY <2>2, ReasonsAre
  <2> QED
    BY <2>2, <2>3
<1> QED
  BY <1>1, Invariant, PTL

(* WatchesRestored, of the watch lists that deletions shorten, propagation
   permutes and restore_deleted_clauses_for_line() appends to.              *)
THEOREM Watched == Spec => []WatchesRestored
<1>1. BackwardInv => WatchesRestored
  <2> SUFFICES ASSUME BackwardInv, Settled, NEW c \in 1..Len(clauses), clauses[c] # << >>,
                      ~(derived_empty_clause /\ c = loaded)
               PROVE  WatchedOnce(c, Live)
    BY DEF WatchesRestored
  <2>1. PICK live, bare, C : live = Base /\ bare = Bare /\ C = clauses[Candidate]
    OBVIOUS
  <2>2. TrailInv(live, bare, C) /\ Live = live /\ c \notin bare
    <3>1. CASE derived_empty_clause
      BY <2>1, <3>1, SettledClauses
    <3>2. CASE ~derived_empty_clause
      BY <2>1, <3>2, SettledClauses
    <3> QED
      BY <3>1, <3>2
  <2>3. WatchedOnce(c, live)
    BY <2>2, WatchedExactly
  <2> QED
    BY <2>2, <2>3
<1> QED
  BY <1>1, Invariant, PTL
=============================================================================
