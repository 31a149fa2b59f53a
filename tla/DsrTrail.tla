------------------------------ MODULE DsrTrail ------------------------------
(***************************************************************************)
(* What the forward and the backward check of dsr-trim share: the units and  *)
(* their reasons, watch pointers, the assumption of the negation of a        *)
(* candidate and of the image of a reduced clause, and the marks that select *)
(* the clauses a derivation rests on.  The operators that prime a variable   *)
(* are parts of the actions of DsrForward and DsrBackward.                   *)
(*                                                                         *)
(* A clause is a sequence of literals, because the order matters: the first  *)
(* two are watched, and the first is the unit of the clause that implied it. *)
(* The code's arrays start at 0 and NO_UNIT_INDEX is -1; the sequences here  *)
(* start at 1 and the index of no unit is 0.  Bit 31 of an index, which      *)
(* marks a set variable as assumed for the current check, is a set.          *)
(***************************************************************************)
EXTENDS Cnf, FiniteSets, SequencesExt, Places

VARIABLES
  clauses,                (* lits_db, without the deletion bits.           *)
  wps,                    (* The clauses watching each literal.             *)
  alpha,                  (* The literals that are true.                    *)
  units,                  (* unit_literals and unit_clauses, in order.      *)
  vars_unit_indexes,      (* Each variable's place in units, 0 if implied
                             by no clause.                                  *)
  assumed,                (* Variables whose index has bit 31 set.          *)
  RAT_marked,             (* Those of them marked for the reduced clause.   *)
  marks,                  (* Variables marked as dependencies of the line.  *)
  up_state,               (* GLOBAL_UP, CANDIDATE_UP or RAT_UP.             *)
  global_up,              (* global_up_literals_index                       *)
  candidate_assumed,      (* candidate_assumed_literals_index               *)
  candidate_unit,         (* candidate_unit_literals_index                  *)
  RAT_assumed, RAT_unit,  (* The same for the reduced clause.               *)
  i, j,                   (* Loops of unit propagation: unit and watcher.   *)
  falsified,              (* The clause unit propagation returned.          *)
  derived_empty_clause

alphaVars == <<alpha, units, vars_unit_indexes>>
markVars  == <<assumed, RAT_marked>>
levelVars == <<up_state, candidate_assumed, candidate_unit, RAT_assumed, RAT_unit>>
upVars    == <<global_up, levelVars>>

(* A variable is in a clause once: clauses are deduplicated, and those that   *)
(* are tautologies are not checked.                                         *)
Proper(C) ==
  /\ C \in Seq(Lit)
  /\ \A k, m \in 1..Len(C) : VarOf(C[k]) = VarOf(C[m]) => k = m

Vars(ls) == {VarOf(l) : l \in ls}

IsTrue(l) == l \in alpha
IsFalse(l) == -l \in alpha
Unassigned(l) == ~IsTrue(l) /\ ~IsFalse(l)

IsVarSetDueToUp(v) == vars_unit_indexes[v] > 0 /\ v \notin assumed

IsVarAssumedForUp(v) == vars_unit_indexes[v] = 0 \/ v \in assumed

ReasonOf(v) == units[vars_unit_indexes[v]].clause

Swap(s, k, m) == [s EXCEPT ![k] = s[m], ![m] = s[k]]

InitTrail ==
  /\ wps = [l \in Lit |-> << >>]
  /\ alpha = {} /\ units = << >>
  /\ vars_unit_indexes = [v \in Var |-> 0]
  /\ assumed = {} /\ RAT_marked = {} /\ marks = {}
  /\ up_state = "GLOBAL_UP" /\ global_up = 1
  /\ candidate_assumed = 0 /\ candidate_unit = 0
  /\ RAT_assumed = 0 /\ RAT_unit = 0
  /\ i = 0 /\ j = 0 /\ falsified = 0
  /\ derived_empty_clause = FALSE

-----------------------------------------------------------------------------
(* Dependencies: which units a refutation rests on.                         *)

(* Variant: a derivation is not cut at the literals that are assumed.        *)
SetByUnitsUncut(c, from, assumedVars) ==
  {v \in Vars({clauses[c][k] : k \in from..Len(clauses[c])}) :
     vars_unit_indexes[v] > 0}

(* Variables of clause c, from its literal from on, that are set by units.  *)
SetByUnits(c, from, assumedVars) ==
  {v \in Vars({clauses[c][k] : k \in from..Len(clauses[c])}) :
     vars_unit_indexes[v] > 0 /\ v \notin assumedVars}

(* The scan at index n: the marks stay, and the mark of the variable of its
   unit is passed on to those of the rest of its clause.                     *)
MarkUnit(marked, n) ==
  UNION {{v} \cup IF v = VarOf(units[n].lit)
                  THEN SetByUnits(units[n].clause, 2, assumed) ELSE {} : v \in marked}

(* The marks M closed backwards over the units from index from on.          *)
MarkDependencies(M, from) ==
  LET scanned[n \in from..Len(units) + 1] ==
        IF n > Len(units) THEN M ELSE MarkUnit(scanned[n + 1], n)
  IN  scanned[from]

(* The reasons of the marked units from index from on, in their order.      *)
MarkedReasons(M, from) ==
  LET reasons[n \in from - 1..Len(units)] ==
        IF n < from THEN << >>
        ELSE IF VarOf(units[n].lit) \in M THEN Append(reasons[n - 1], units[n].clause)
        ELSE reasons[n - 1]
  IN  reasons[Len(units)]

(* What the refutation by clause c rests on, and the clauses to cite for it. *)
RefutationMarks(c) == MarkDependencies(marks \cup SetByUnits(c, 1, assumed), 1)

RefutationHints(c) == Append(MarkedReasons(RefutationMarks(c), 1), c)

-----------------------------------------------------------------------------
(* Units and watch pointers.                                                *)

SetUnit(l, c) ==
  /\ alpha' = alpha \cup {l}
  /\ units' = Append(units, [lit |-> l, clause |-> c])
  /\ vars_unit_indexes' = [vars_unit_indexes EXCEPT ![VarOf(l)] = Len(units')]

(* The literals of C at the open places are assumed to be false.             *)
AssumeUnits(C, open) ==
  LET new == AtPlaces(C, open)
  IN  /\ alpha' = alpha \cup {-C[k] : k \in open}
      /\ units' = units \o [k \in DOMAIN new |-> [lit |-> -new[k], clause |-> 0]]
      /\ UNCHANGED vars_unit_indexes

(* Variant: the last watch is lost instead of the one removed.               *)
RemoveLastWatch(s, k) == SubSeq(s, 1, Len(s) - 1)

(* Removal from a watch list moves its last clause into the gap.            *)
RemoveWatch(s, k) == SubSeq([s EXCEPT ![k] = s[Len(s)]], 1, Len(s) - 1)

PlaceOf(s, c) == CHOOSE k \in 1..Len(s) : s[k] = c

Watches(c) == {clauses[c][k] : k \in 1..(IF Len(clauses[c]) = 1 THEN 0 ELSE 2)}

IsWatched(c) == \A l \in Watches(c) : c \in ToSet(wps[l])

Detach(c) ==
  wps' = [l \in Lit |-> IF l \in Watches(c)
                        THEN RemoveWatch(wps[l], PlaceOf(wps[l], c))
                        ELSE wps[l]]

FalsifiedLit == -units[i].lit

Watcher == wps[FalsifiedLit][j]

(* The clause with the falsified watch second.                              *)
OtherFirst ==
  LET C == clauses[Watcher]
  IN  IF C[1] = FalsifiedLit THEN Swap(C, 1, 2) ELSE C

Replacements == {k \in 3..Len(OtherFirst) : ~IsFalse(OtherFirst[k])}

PutOtherFirst == clauses' = [clauses EXCEPT ![Watcher] = OtherFirst]

MoveWatch ==
  LET C == OtherFirst
      k == CHOOSE m \in Replacements : \A n \in Replacements : m <= n
  IN  /\ clauses' = [clauses EXCEPT ![Watcher] = Swap(C, 2, k)]
      /\ wps' = [wps EXCEPT ![C[k]] = Append(@, Watcher),
                            ![FalsifiedLit] = RemoveWatch(@, j)]

NonFalse(c) == {k \in 1..Len(clauses[c]) : ~IsFalse(clauses[c][k])}

(* A unit clause is the reason of its literal, even if another one made it
   true.                                                                    *)
AttachUnit(c) ==
  /\ Len(clauses[c]) = 1
  /\ LET l == clauses[c][1]
     IN  \/ /\ IsTrue(l)
            /\ units' = [units EXCEPT ![vars_unit_indexes[VarOf(l)]].clause = c]
            /\ UNCHANGED <<alpha, vars_unit_indexes>>
         \/ Unassigned(l) /\ SetUnit(l, c)

(* Variant: the clause is watched as it stands.                              *)
AsItStands(C) == C

(* Literals that are not false go first.                                    *)
NonFalseFirst(C) ==
  LET NonFF == {k \in 1..Len(C) : ~IsFalse(C[k])}
      k1 == CHOOSE k \in NonFF : \A m \in NonFF : k <= m
      D  == Swap(C, 1, k1)
      rest == {k \in 2..Len(D) : ~IsFalse(D[k])}
      k2 == CHOOSE k \in rest : \A m \in rest : k <= m
  IN  IF rest = {} THEN D ELSE Swap(D, 2, k2)

AttachWatched(c) ==
  /\ Len(clauses[c]) > 1 /\ NonFalse(c) # {}
  /\ LET C == NonFalseFirst(clauses[c])
     IN  /\ clauses' = [clauses EXCEPT ![c] = C]
         /\ wps' = [wps EXCEPT ![C[1]] = Append(@, c), ![C[2]] = Append(@, c)]
         /\ IF IsFalse(C[2]) /\ Unassigned(C[1])
            THEN SetUnit(C[1], c)
            ELSE UNCHANGED alphaVars

-----------------------------------------------------------------------------
(* The negation of a candidate C, and of an image D, is assumed and undone.  *)

AssumeCandidate(C) ==
  /\ assumed' = assumed \cup {v \in Vars(ToSet(C)) : vars_unit_indexes[v] > 0}
  /\ AssumeUnits(C, {k \in DOMAIN C : Unassigned(C[k])})
  /\ up_state' = "CANDIDATE_UP"
  /\ candidate_assumed' = Len(units) + 1
  /\ candidate_unit' = Len(units') + 1

(* A literal of C already true refutes the negation by its reason; 0 if none
   is.                                                                      *)
RefutingClause(C) ==
  LET implied == {vars_unit_indexes[VarOf(l)] : l \in ToSet(C) \cap alpha}
  IN  IF implied = {} THEN 0
      ELSE units[CHOOSE k \in implied : \A m \in implied : k <= m].clause

UndoCandidate(C) ==
  LET derived == {VarOf(u.lit) : u \in ToSet(SubSeq(units, candidate_unit, Len(units)))}
      opened == {v \in Vars(ToSet(C)) : vars_unit_indexes[v] = 0}
  IN  /\ alpha' = {l \in alpha : VarOf(l) \notin derived \cup opened}
      /\ vars_unit_indexes' = [v \in Var |-> IF v \in derived
                                             THEN 0 ELSE vars_unit_indexes[v]]
      /\ assumed' = assumed \ Vars(ToSet(C))
      /\ units' = SubSeq(units, 1, candidate_assumed - 1)
      /\ up_state' = "GLOBAL_UP"

(* A literal of D is true by assumption, that of D's own negation included.  *)
SatisfiedByAssumption(D) ==
  \E n \in 1..Len(D) :
    LET opposed == -D[n] \in ToSet(SubSeq(D, 1, n - 1))
    IN  IF IsTrue(D[n]) THEN opposed \/ IsVarAssumedForUp(VarOf(D[n]))
        ELSE opposed /\ Unassigned(D[n])

(* Variant: variables the candidate has marked are marked again.            *)
FalseByUnitsOrCandidate(D) ==
  {v \in Vars({l \in ToSet(D) : IsFalse(l)}) : vars_unit_indexes[v] > 0}

(* The variables of an image that is about to be assumed, false by units.   *)
FalseByUnits(D) == {v \in Vars({l \in ToSet(D) : IsFalse(l)}) : IsVarSetDueToUp(v)}

(* A literal of D is true by a clause, whose literals are marked.            *)
SatisfiedByUnit(D) == ~SatisfiedByAssumption(D) /\ \E l \in ToSet(D) : IsTrue(l)

MarksOfSatisfied(D) ==
  LET first == SelectInSeq(D, IsTrue)
  IN  SetByUnits(ReasonOf(VarOf(D[first])), 1, assumed \cup FalseByUnits(D))

AssumeImage(D) ==
  LET repeated(n) == D[n] \in ToSet(SubSeq(D, 1, n - 1))
  IN  /\ ~SatisfiedByAssumption(D) /\ ToSet(D) \cap alpha = {}
      /\ AssumeUnits(D, {n \in DOMAIN D : Unassigned(D[n]) /\ ~repeated(n)})
      /\ assumed' = assumed \cup FalseByUnits(D)
      /\ RAT_marked' = FalseByUnits(D)
      /\ up_state' = "RAT_UP"
      /\ RAT_assumed' = Len(units) + 1
      /\ RAT_unit' = Len(units') + 1

(* What the refutation of an image rests on, and the hints of its group.     *)
RoundMarks == MarkDependencies(SetByUnits(falsified, 1, assumed), RAT_unit)

RoundHints == Append(MarkedReasons(RoundMarks, RAT_unit), falsified)

UndoImage ==
  LET undone == {u.lit : u \in ToSet(SubSeq(units, RAT_assumed, Len(units)))}
  IN  /\ alpha' = alpha \ undone
      /\ vars_unit_indexes' = [v \in Var |-> IF v \in Vars(undone)
                                             THEN 0 ELSE vars_unit_indexes[v]]
      /\ units' = SubSeq(units, 1, RAT_assumed - 1)
      /\ assumed' = assumed \ RAT_marked
      /\ RAT_marked' = {}
      /\ up_state' = "CANDIDATE_UP"

-----------------------------------------------------------------------------
(* A unit goes, and takes later ones with it.                               *)

(* The first unit whose propagation is to be repeated once the units from
   index from on are unassigned.                                            *)
RestartAt(from) ==
  LET C == clauses[units[from].clause]
      before == IF from > 2
                THEN {from - 1} \cup {vars_unit_indexes[VarOf(C[k])] : k \in 2..Len(C)}
                ELSE {1}
  IN  CHOOSE k \in before : \A m \in before : k <= m

(* Variant: only the unit itself is unassigned, not those that rest on it.    *)
KeptButOne(from) == DOMAIN units \ {from}

(* The places of the units before index from, and of unit clauses after it.  *)
KeptUnits(from) ==
  {n \in DOMAIN units \ {from} : n < from \/ Len(clauses[units[n].clause]) = 1}

UnassignFrom(from) ==
  LET kept == AtPlaces(units, KeptUnits(from))
      start == RestartAt(from)
  IN  /\ units' = kept
      /\ alpha' = {u.lit : u \in ToSet(kept)}
      /\ vars_unit_indexes' =
           [v \in Var |-> SelectInSeq(kept, LAMBDA u : VarOf(u.lit) = v)]
      /\ global_up' = IF start < global_up THEN start ELSE global_up

-----------------------------------------------------------------------------
(* What the properties of both modes are stated with.  live is the set of    *)
(* clauses the check may use.                                               *)

ReasonsIn(live) ==
  \A n \in 1..Len(units) :
    LET u == units[n]
    IN  /\ u.lit \in alpha
        /\ IF u.clause = 0 THEN vars_unit_indexes[VarOf(u.lit)] = 0
           ELSE /\ u.clause \in live
                /\ vars_unit_indexes[VarOf(u.lit)] = n
                /\ clauses[u.clause][1] = u.lit
                /\ \A k \in 2..Len(clauses[u.clause]) :
                     \E m \in 1..n - 1 : units[m].lit = -clauses[u.clause][k]

WatchedOnce(c, live) ==
  \A l \in Lit :
    LET times == Cardinality({n \in 1..Len(wps[l]) : wps[l][n] = c})
    IN  times = IF c \in live /\ l \in Watches(c) THEN 1 ELSE 0

(* Unit propagation has nothing to do for clause c.                         *)
Quiet(c) ==
  \/ \E l \in ToSet(clauses[c]) : IsTrue(l)
  \/ Cardinality({l \in ToSet(clauses[c]) : Unassigned(l)}) >= 2
=============================================================================
