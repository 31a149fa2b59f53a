------------------------------ MODULE LsrCheck ------------------------------
(***************************************************************************)
(* lsr-check in its default, streaming mode: a CNF formula is parsed, then  *)
(* the lines of an LSR proof are read and checked one after the other until *)
(* the empty clause is derived, the proof ends, or a line is refused.       *)
(*                                                                         *)
(* The proof file is the environment.  The head of a line (its clause, its   *)
(* witness and the clause IDs that open its RAT hint groups) is chosen when *)
(* the line is parsed, because check_line() counts the groups before it     *)
(* looks at them; a unit propagation hint is chosen when it is consumed,    *)
(* which is the only time the checker looks at it.                          *)
(*                                                                         *)
(* Clause IDs and line IDs are the 1-indexed ones of the proof format; 0    *)
(* stands for the code's -1 where an ID may be absent.                      *)
(***************************************************************************)
EXTENDS Cnf, Sequences, FiniteSets, FiniteSetsExt, Functions

CONSTANTS
  num_cnf_clauses,  (* Clauses in the CNF formula.                         *)
  CNFs,             (* The formulas the CNF file may hold.                 *)
  ProofLines,       (* The addition lines the proof may hold, hints aside. *)
  MaxId,            (* Bound: largest line ID.                             *)
  GLOBAL_GEN,       (* Bound: the generation of an assignment made forever. *)
  ForwardHints,     (* May UP hints cite the candidate or a later clause?  *)
  LateDeletions     (* May a clause be deleted after a global unit?        *)

CnfIds == 1..num_cnf_clauses

Ids == 1..MaxId

(* One slot past the last clause is always allocated (commit_clause()).     *)
Slots == 1..MaxId + 1

LineHead == [clause: SUBSET Lit, pivot: Lit \cup {0}, explicit: BOOLEAN,
             tt: SUBSET Lit, mapped: SUBSET Var, map: [Var -> Lit],
             groups: Seq(Nat)]

(***************************************************************************)
(* How parse_sr_clause_and_witness() splits a line: the first literal of a  *)
(* nonempty clause is the pivot, its second occurrence opens the witness    *)
(* (the literals tt, set to true), and its third the pairs (mapped, map).   *)
(* "explicit" says that the second occurrence is there.                     *)
(***************************************************************************)
LineShape(ln) ==
  /\ IF ln.clause = {} THEN ln.pivot = 0 ELSE ln.pivot \in ln.clause
  /\ ln.clause = {} => ~ln.explicit
  /\ ~ln.explicit => ln.tt = {} /\ ln.mapped = {}
  /\ ln.pivot \notin ln.tt

GEN_INC == 2

ASSUME LsrAssumption ==
  /\ num_cnf_clauses \in Nat \ {0}
  /\ MaxId \in Nat /\ num_cnf_clauses <= MaxId
  /\ CNFs \subseteq [CnfIds -> (SUBSET Lit) \ {{}}]
  /\ ProofLines \subseteq LineHead
  /\ \A ln \in ProofLines : LineShape(ln)
  /\ GLOBAL_GEN \in Nat /\ GLOBAL_GEN % 2 = 0 /\ GLOBAL_GEN > 0
  /\ {ForwardHints, LateDeletions} \subseteq BOOLEAN

NoLine == [clause |-> {}, pivot |-> 0, explicit |-> FALSE, tt |-> {},
           mapped |-> {}, map |-> Identity, groups |-> << >>]

VARIABLES
  pc,                (* Where check_proof() and check_line() are.          *)
  formula,           (* Clause ID -> its literals (lits_db and formula).   *)
  formula_size,      (* The number of clauses committed.                   *)
  deleted,           (* The clause IDs whose deletion bit is set.          *)
  lits_occurrences,  (* Literal -> the number of clauses that hold it.     *)
  first_last,        (* lits_first_last_clauses.                           *)
  max_line_id,       (* The largest line ID read.                          *)
  alpha,             (* Variable -> generation, its sign in the low bit.   *)
  alpha_generation,  (* Assignments of an older generation are void.       *)
  line,              (* The head of the line being checked.                *)
  cc_gen,            (* The generation of the candidate's negation.        *)
  subst,             (* The witness, as a substitution.                    *)
  max_clause,        (* max_clause_to_check.                               *)
  cursor,            (* The loop variable of check_line().                 *)
  position,          (* The next hint group of check_only_hints().         *)
  checked            (* The RAT clauses of this pass that passed.          *)

db     == <<formula, formula_size, deleted>>
caches == <<lits_occurrences, first_last>>
assignment == <<alpha, alpha_generation>>
locals == <<line, cc_gen, subst, max_clause, cursor, position, checked>>
vars   == <<pc, db, caches, max_line_id, assignment, locals>>

candidate == formula_size

(***************************************************************************)
(* The partial assignment: set_lit_for_alpha(), peval_lit_under_alpha().    *)
(* A stamp is an even generation plus the sign of the literal made true.    *)
(***************************************************************************)
Stamp(l, gen) == gen + (IF l < 0 THEN 1 ELSE 0)

Means(stamp, l) == stamp % 2 = (IF l < 0 THEN 1 ELSE 0)

TrueAt(gen, l) == alpha[VarOf(l)] >= gen /\ Means(alpha[VarOf(l)], l)

FalseAt(gen, l) == TrueAt(gen, -l)

Unassigned(gen, l) == alpha[VarOf(l)] < gen

(* Make the literals of L true, except where the stamp is of the future.    *)
SetLits(L, gen) ==
  [v \in Var |-> IF alpha[v] > gen THEN alpha[v]
                 ELSE IF v \in L THEN Stamp(v, gen)
                 ELSE IF -v \in L THEN Stamp(-v, gen)
                 ELSE alpha[v]]

(* reduce(): every literal false, or exactly one (l) unassigned.            *)
Contradiction(C) == \A l \in C : FalseAt(alpha_generation, l)

(* Variant: the other literals only have to be not true.                    *)
UnitIfNotSatisfied(C, l) ==
  /\ l \in C
  /\ Unassigned(alpha_generation, l)
  /\ \A k \in C \ {l} : ~TrueAt(alpha_generation, k)

UnitUnder(C, l) ==
  /\ l \in C
  /\ Unassigned(alpha_generation, l)
  /\ \A k \in C \ {l} : FalseAt(alpha_generation, k)

(***************************************************************************)
(* The clauses that hold each literal, as cached intervals: the part of     *)
(* update_first_last(), move_min_forward(), move_max_backward() and         *)
(* update_first_last_clause().                                              *)
(***************************************************************************)
NoClause == [min |-> 0, max |-> 0]

Live == (1..formula_size) \ deleted

Holding(l, i, j) == {c \in (i + 1)..(j - 1) \ deleted : l \in formula[c]}

MoveMinForward(l, first, last) ==
  IF Holding(l, first, last) # {} THEN Min(Holding(l, first, last))
  ELSE IF last \in deleted THEN 0 ELSE last

(* Variant: the scan gives up at once.                                      *)
MoveMaxToFirst(l, first, last) == first

MoveMaxBackward(l, first, last) ==
  IF Holding(l, first, last) # {} THEN Max(Holding(l, first, last)) ELSE first

Refreshed(l) ==
  LET mm == first_last[l]
      lo == IF mm.min \in deleted THEN MoveMinForward(l, mm.min, mm.max)
            ELSE mm.min
      hi == IF lo # mm.max /\ mm.max \in deleted
            THEN MoveMaxBackward(l, lo, mm.max) ELSE mm.max
  IN  IF mm.min = 0 THEN mm
      ELSE IF lo = 0 THEN NoClause
      ELSE [min |-> lo, max |-> hi]

(* Variant: a deleted clause stays counted.                                 *)
OccurrencesUnlessRemoved(C, d) ==
  [l \in Lit |-> IF l \in C /\ d > 0 THEN lits_occurrences[l] + d
                 ELSE lits_occurrences[l]]

(* add_occurrences_for_clause() with d = 1, remove_... with d = -1.         *)
OccurrencesAfter(C, d) ==
  [l \in Lit |-> IF l \in C THEN lits_occurrences[l] + d ELSE lits_occurrences[l]]

WithClause(mm, c) == [min |-> IF mm.min = 0 THEN c ELSE mm.min, max |-> c]

-----------------------------------------------------------------------------
(***************************************************************************)
(* Startup: parse_cnf() has read one of the formulas; a tautology is        *)
(* committed and deleted at once, every other clause enters the intervals.  *)
(***************************************************************************)
CnfInterval(cnf, l) ==
  LET S == {c \in CnfIds : l \in cnf[c] /\ ~Tautology(cnf[c])}
  IN  IF S = {} THEN NoClause ELSE [min |-> Min(S), max |-> Max(S)]

Init ==
  \E cnf \in CNFs :
    /\ pc = "prepare"
    /\ formula = [c \in Slots |-> IF c \in CnfIds THEN cnf[c] ELSE {}]
    /\ formula_size = num_cnf_clauses
    /\ deleted = {c \in CnfIds : Tautology(cnf[c])}
    /\ lits_occurrences = [l \in Lit |-> 0]
    /\ first_last = [l \in Lit |-> CnfInterval(cnf, l)]
    /\ max_line_id = num_cnf_clauses
    /\ alpha = [v \in Var |-> 0]
    /\ alpha_generation = 0
    /\ line = NoLine /\ cc_gen = 0 /\ subst = Identity
    /\ max_clause = 0 /\ cursor = 0 /\ position = 0 /\ checked = {}

(* Count the occurrences of every clause of the formula.                    *)
Prepare ==
  /\ pc = "prepare" /\ deleted = {}
  /\ lits_occurrences' =
       [l \in Lit |-> Cardinality({c \in CnfIds : l \in formula[c]})]
  /\ pc' = "read"
  /\ UNCHANGED <<db, first_last, max_line_id, assignment, locals>>

(***************************************************************************)
(* The counting does not skip deleted clauses, and it takes the start of a  *)
(* clause from get_clause_start_unsafe(), which leaves the deletion bit in  *)
(* the index: the read is outside the database.                             *)
(***************************************************************************)
PrepareReadsDeleted ==
  /\ pc = "prepare" /\ deleted # {}
  /\ pc' = "CRASH"
  /\ UNCHANGED <<db, caches, max_line_id, assignment, locals>>

(* log_fatal_err(): the program exits.                                      *)
Fatal ==
  /\ pc' = "FATAL"
  /\ UNCHANGED <<db, caches, max_line_id, assignment, locals>>

EndOfProof ==
  /\ pc = "read"
  /\ pc' = "VALID"
  /\ UNCHANGED <<db, caches, max_line_id, assignment, locals>>
-----------------------------------------------------------------------------
(***************************************************************************)
(* Deletion lines.  One action deletes one clause ID: the line ID need not  *)
(* increase, so a line of several IDs is several steps.                     *)
(***************************************************************************)

(* Variant: the deletion bit is not looked at.                              *)
Committed(c) == c \in 1..formula_size

Deletable(c) == c \in Live

NoGlobalUnits == \A v \in Var : alpha[v] < GLOBAL_GEN

DeleteClause(line_id, c) ==
  /\ pc = "read"
  /\ LateDeletions \/ NoGlobalUnits
  /\ line_id >= max_line_id
  /\ Deletable(c)
  /\ max_line_id' = line_id
  /\ lits_occurrences' = OccurrencesAfter(formula[c], -1)
  /\ deleted' = deleted \cup {c}
  /\ pc' = "read" \/ (formula_size + 1 \in deleted /\ pc' = "CRASH")
  /\ UNCHANGED <<formula, formula_size, first_last, assignment, locals>>

(***************************************************************************)
(* The bounds checks admit the ID one past the last clause: its deletion    *)
(* bit is set before there is a clause, and the size of what is deleted is  *)
(* computed from an index that was never written, so the garbage collector  *)
(* may run, then or at a later deletion, and it takes the slot to be live.  *)
(***************************************************************************)
DeletePending(line_id) ==
  /\ pc = "read"
  /\ line_id >= max_line_id
  /\ formula_size + 1 \notin deleted
  /\ max_line_id' = line_id
  /\ deleted' = deleted \cup {formula_size + 1}
  /\ pc' \in {"read", "CRASH"}
  /\ UNCHANGED <<formula, formula_size, caches, assignment, locals>>

(* A line that names no clause still raises the largest line ID.            *)
EmptyDeletion(line_id) ==
  /\ pc = "read"
  /\ line_id > max_line_id
  /\ max_line_id' = line_id
  /\ UNCHANGED <<pc, db, caches, assignment, locals>>

RefuseDeletion(line_id, c) ==
  /\ pc = "read"
  /\ line_id < max_line_id \/ c > formula_size + 1
  /\ Fatal

(***************************************************************************)
(* remove_occurrences_for_clause() comes before delete_clause() can refuse: *)
(* it starts from an index with the deletion bit, outside the database.     *)
(***************************************************************************)
DeleteTwice(line_id, c) ==
  /\ pc = "read"
  /\ line_id >= max_line_id
  /\ c \in deleted
  /\ pc' \in {"FATAL", "CRASH"}
  /\ UNCHANGED <<db, caches, max_line_id, assignment, locals>>

(***************************************************************************)
(* Global unit lines, one (literal, clause) pair per action.                *)
(***************************************************************************)

GlobalUnitGeneration == alpha_generation + GEN_INC

(* Variant: one literal of the clause is taken for its unit.                *)
HasUnassigned(gen, l, c) ==
  c \in Live /\ l \in formula[c] /\ Unassigned(gen, l)

(* check_global_unit().                                                     *)
IsGlobalUnit(gen, l, c) ==
  /\ c \in Live
  /\ l \in formula[c] /\ Unassigned(gen, l)
  /\ \A k \in formula[c] \ {l} : FalseAt(gen, k)

GlobalUnit(line_id, l, c) ==
  /\ pc = "read"
  /\ line_id >= max_line_id
  /\ GlobalUnitGeneration < GLOBAL_GEN
  /\ IsGlobalUnit(GlobalUnitGeneration, l, c)
  /\ max_line_id' = line_id
  /\ alpha_generation' = GlobalUnitGeneration
  /\ alpha' = SetLits({l}, GLOBAL_GEN)
  /\ UNCHANGED <<pc, db, caches, locals>>

RefuseGlobalUnit(line_id, l, c) ==
  /\ pc = "read"
  /\ line_id < max_line_id \/ ~IsGlobalUnit(GlobalUnitGeneration, l, c)
  /\ Fatal
-----------------------------------------------------------------------------
(***************************************************************************)
(* Addition lines.  parse_lsr_line() fills the IDs the proof skipped with   *)
(* deleted clauses, commits the candidate, and reads the hints.             *)
(***************************************************************************)
ParserAccepts(ln) ==
  /\ ~Tautology(ln.clause)
  /\ -ln.pivot \notin ln.tt
  /\ \A v \in ln.mapped : ln.map[v] = v => v = VarOf(ln.pivot)

Fillers(id) == (formula_size + 1)..(id - 1)

(* insert_hint(): a 1-indexed hint is compared with a 1-indexed line ID     *)
(* after it was made 0-indexed, so the bound is one past the candidate.     *)
HintAccepted(h, id) == h \in 1..(id + 1) /\ h \notin deleted \cup Fillers(id)

LineAccepted(id, ln) ==
  /\ id > max_line_id
  /\ formula_size + 1 \notin deleted
  /\ ParserAccepts(ln)
  /\ \A k \in DOMAIN ln.groups : HintAccepted(ln.groups[k], id)

AddLine(id, ln) ==
  /\ pc = "read"
  /\ alpha_generation + GEN_INC * (Len(ln.groups) + 1) < GLOBAL_GEN
  /\ LineAccepted(id, ln)
  /\ formula' = [formula EXCEPT ![id] = ln.clause]
  /\ formula_size' = id
  /\ deleted' = deleted \cup Fillers(id)
  /\ max_line_id' = id
  /\ line' = ln
  /\ pc' = "assume"
  /\ UNCHANGED <<caches, assignment, cc_gen, subst, max_clause, cursor,
                 position, checked>>

(* A slot deleted before it was filled makes its clause unusable: delete_-   *)
(* clause() refuses a filler, peval_clause_under_alpha() the candidate.     *)
RefuseLine(id) ==
  /\ pc = "read"
  /\ ~ \A ln \in ProofLines : LineAccepted(id, ln)
  /\ Fatal

(***************************************************************************)
(* finish_line: the clause is a part of the formula from now on.  Its       *)
(* locals go out of scope; the substitution is void because the next line   *)
(* takes a new subst_generation.                                            *)
(***************************************************************************)
FinishLine(gen) ==
  /\ alpha_generation' = gen
  /\ IF line.clause = {}
     THEN pc' = "UNSAT" /\ UNCHANGED caches
     ELSE /\ pc' = "read"
          /\ first_last' = [l \in Lit |-> IF l \in line.clause
                                          THEN WithClause(first_last[l], candidate)
                                          ELSE first_last[l]]
          /\ lits_occurrences' = OccurrencesAfter(line.clause, 1)
  /\ line' = NoLine /\ cc_gen' = 0 /\ subst' = Identity
  /\ max_clause' = 0 /\ cursor' = 0 /\ position' = 0 /\ checked' = {}
  /\ UNCHANGED <<db, max_line_id>>

(* check_line(), up to the first hint.                                      *)
LineGeneration == alpha_generation + GEN_INC

(* Variant: no generation is set aside for the hint groups.                 *)
GenerationWithoutGroups == LineGeneration

CandidateGeneration == LineGeneration + GEN_INC * Len(line.groups)

CandidateSatisfied ==
  /\ pc = "assume"
  /\ \E l \in line.clause : TrueAt(LineGeneration, l)
  /\ FinishLine(CandidateGeneration)
  /\ UNCHANGED alpha

AssumeNegatedCandidate ==
  /\ pc = "assume"
  /\ \A l \in line.clause : ~TrueAt(LineGeneration, l)
  /\ alpha' = SetLits({-l : l \in line.clause}, CandidateGeneration)
  /\ alpha_generation' = LineGeneration
  /\ cc_gen' = CandidateGeneration
  /\ pc' = "up"
  /\ UNCHANGED <<db, caches, max_line_id, line, subst, max_clause, cursor,
                 position, checked>>

(***************************************************************************)
(* unit_prop(), one hint per step.  The hints of the candidate itself are   *)
(* taken at "up", those of a RAT clause at "hintsUp" and "scanUp".          *)
(***************************************************************************)
Hint(h) ==
  /\ h \in 1..(candidate + 1) \ deleted
  /\ ForwardHints \/ h < candidate

UpPoint == {"up", "hintsUp", "scanUp"}

UpGeneration == IF pc = "up" THEN cc_gen ELSE alpha_generation

UnitHint(h, l) ==
  /\ pc \in UpPoint
  /\ Hint(h)
  /\ UnitUnder(formula[h], l)
  /\ alpha' = SetLits({l}, UpGeneration)
  /\ UNCHANGED <<pc, db, caches, max_line_id, alpha_generation, locals>>

UselessHint(h) ==
  /\ pc \in UpPoint
  /\ Hint(h)
  /\ ~Contradiction(formula[h])
  /\ \A l \in formula[h] : ~UnitUnder(formula[h], l)
  /\ Fatal

RefutedByHint(h) ==
  /\ pc = "up"
  /\ Hint(h)
  /\ Contradiction(formula[h])
  /\ FinishLine(cc_gen)
  /\ UNCHANGED alpha
-----------------------------------------------------------------------------
(***************************************************************************)
(* The witness: assume_subst().  The literals it touches decide which       *)
(* interval of the formula is looked at.                                    *)
(***************************************************************************)
WitnessClash ==
  \E l \in line.tt : -l \in line.tt \/ VarOf(l) \in line.mapped

WitnessSubst ==
  [v \in Var |-> IF v \in line.mapped THEN line.map[v]
                 ELSE IF v \in line.tt \cup {line.pivot} THEN SUBST_TT
                 ELSE IF -v \in line.tt \cup {line.pivot} THEN SUBST_FF
                 ELSE v]

(* Variant: only the positive literals of the mapped variables.             *)
TouchedOneSided ==
  {-l : l \in line.tt \cup {line.pivot}} \cup line.mapped

Touched ==
  {-l : l \in line.tt \cup {line.pivot}}
    \cup {l \in Lit : VarOf(l) \in line.mapped}

FirstOf(fl) == Min({candidate} \cup {fl[l].min : l \in {k \in Touched : fl[k].min # 0}})

LastOf(fl) == Max({1} \cup {fl[l].max : l \in {k \in Touched : fl[k].min # 0}})

AssumeSubst ==
  /\ pc = "up" /\ line.clause # {} /\ ~WitnessClash
  /\ LET fl == [l \in Lit |-> IF l \in Touched THEN Refreshed(l) ELSE first_last[l]]
     IN  /\ first_last' = fl
         /\ max_clause' = LastOf(fl)
         /\ cursor' = IF FirstOf(fl) <= LastOf(fl) THEN FirstOf(fl) ELSE candidate
  /\ subst' = WitnessSubst
  /\ position' = 1
  /\ pc' = IF line.explicit THEN "scan" ELSE "hints"
  /\ UNCHANGED <<db, lits_occurrences, max_line_id, assignment, line, cc_gen,
                 checked>>

(* The empty clause has no witness; a witness sets a variable once.         *)
RefuseWitness ==
  /\ pc = "up"
  /\ line.clause = {} \/ WitnessClash
  /\ Fatal
-----------------------------------------------------------------------------
(***************************************************************************)
(* One RAT clause c, from either loop.  assume_negated_clause_under_subst() *)
(* gives up when the image of c is satisfied by the substitution or by the  *)
(* assignment, the literals it has just assumed included.                   *)
(***************************************************************************)
ImageOf(c) == Image(subst, formula[c])

TriviallyRefuted(c) ==
  \/ SUBST_TT \in ImageOf(c)
  \/ \E m \in ImageOf(c) \cap Lit :
       TrueAt(alpha_generation, m) \/ -m \in ImageOf(c)

NegatedImage(c) ==
  {-m : m \in {k \in ImageOf(c) \cap Lit : Unassigned(alpha_generation, k)}}

(* Variant: the scan ends before the candidate.                             *)
NextCursorInFormula ==
  IF cursor < max_clause THEN cursor + 1 ELSE candidate + 1

NextCursor ==
  IF cursor < max_clause THEN cursor + 1
  ELSE IF cursor < candidate THEN candidate
  ELSE candidate + 1

(* The group of c is done: its assignments are void, and the loop goes on.  *)
RATClausePassed(c) ==
  /\ alpha_generation' = alpha_generation + GEN_INC
  /\ checked' = checked \cup {c}
  /\ IF pc \in {"hints", "hintsUp"}
     THEN pc' = "hints" /\ position' = position + 1 /\ UNCHANGED cursor
     ELSE pc' = "scan" /\ cursor' = NextCursor /\ UNCHANGED position
  /\ UNCHANGED <<db, caches, max_line_id, line, cc_gen, subst, max_clause>>

AssumeNegatedRATClause(c) ==
  \/ /\ TriviallyRefuted(c)
     /\ RATClausePassed(c)
     /\ UNCHANGED alpha
  \/ /\ ~TriviallyRefuted(c)
     /\ alpha' = SetLits(NegatedImage(c), alpha_generation)
     /\ pc' = IF pc = "hints" THEN "hintsUp" ELSE "scanUp"
     /\ UNCHANGED <<db, caches, max_line_id, alpha_generation, locals>>

RATClause == IF pc = "hintsUp" THEN line.groups[position] ELSE cursor

RATClauseRefuted(h) ==
  /\ pc \in {"hintsUp", "scanUp"}
  /\ Hint(h)
  /\ Contradiction(formula[h])
  /\ RATClausePassed(RATClause)
  /\ UNCHANGED alpha

(* The group ends without a contradiction.                                  *)
RATClauseNotRefuted ==
  /\ pc \in {"hintsUp", "scanUp"}
  /\ Fatal

(***************************************************************************)
(* check_only_hints(), for a line without a witness: only the clauses that  *)
(* open a hint group are looked at, and they must be all the clauses with   *)
(* the negated pivot.                                                       *)
(***************************************************************************)
Group == line.groups[position]

(* reduce_clause_under_RAT_witness() answers REDUCED.                       *)
ReducedByRATWitness(c) ==
  /\ line.pivot \notin formula[c]
  /\ -line.pivot \in formula[c]
  /\ formula[c] # {-line.pivot}

GroupIncreases == \A k \in 1..(position - 1) : line.groups[k] < Group

CheckHintGroup ==
  /\ pc = "hints" /\ position <= Len(line.groups)
  /\ GroupIncreases /\ ReducedByRATWitness(Group)
  /\ AssumeNegatedRATClause(Group)

RefuseHintGroup ==
  /\ pc = "hints" /\ position <= Len(line.groups)
  /\ ~GroupIncreases \/ ~ReducedByRATWitness(Group)
  /\ Fatal

AllGroupsChecked == Cardinality(checked) = lits_occurrences[-line.pivot]

HintGroupsSuffice ==
  /\ pc = "hints" /\ position > Len(line.groups)
  /\ AllGroupsChecked
  /\ FinishLine(cc_gen)
  /\ UNCHANGED alpha

(* "do it the old-fashioned way".                                           *)
HintGroupsMissing ==
  /\ pc = "hints" /\ position > Len(line.groups)
  /\ ~AllGroupsChecked
  /\ pc' = "scan" /\ checked' = {}
  /\ UNCHANGED <<db, caches, max_line_id, assignment, line, cc_gen, subst,
                 max_clause, cursor, position>>

(***************************************************************************)
(* The scan over the interval of touched clauses, then over the candidate:  *)
(* check_RAT_clause() and reduce_clause_under_subst().                      *)
(***************************************************************************)
SatisfiedBySubst(c) == SUBST_TT \in ImageOf(c)

NotReduced(c) == \A l \in formula[c] : MapLit(subst, l) = l

Reduced(c) ==
  ~SatisfiedBySubst(c) /\ ~NotReduced(c) /\ ~(ImageOf(c) \subseteq {SUBST_FF})

(* Variant: any clause may be checked by the hints that come next.          *)
AnyGroup(c) == TRUE

HasGroup(c) == c \in Range(line.groups)

SkipClause ==
  /\ pc = "scan" /\ cursor <= candidate
  /\ cursor \in deleted \/ SatisfiedBySubst(cursor) \/ NotReduced(cursor)
  /\ cursor' = NextCursor
  /\ UNCHANGED <<pc, db, caches, max_line_id, assignment, line, cc_gen, subst,
                 max_clause, position, checked>>

CheckRATClause ==
  /\ pc = "scan" /\ cursor <= candidate
  /\ cursor \notin deleted /\ Reduced(cursor)
  /\ HasGroup(cursor)
  /\ AssumeNegatedRATClause(cursor)

(* A clause the witness falsifies, or a reduced one without a hint group.   *)
RefuseRATClause ==
  /\ pc = "scan" /\ cursor <= candidate
  /\ cursor \notin deleted
  /\ ~SatisfiedBySubst(cursor) /\ ~NotReduced(cursor)
  /\ ~Reduced(cursor) \/ ~HasGroup(cursor)
  /\ Fatal

ScanComplete ==
  /\ pc = "scan" /\ cursor > candidate
  /\ FinishLine(cc_gen)
  /\ UNCHANGED alpha
-----------------------------------------------------------------------------
Final == {"UNSAT", "VALID", "FATAL", "CRASH"}

Exited == pc \in Final /\ UNCHANGED vars

ReadLine ==
  \/ \E line_id \in Ids, c \in Slots : DeleteClause(line_id, c)
  \/ \E line_id \in Ids : DeletePending(line_id)
  \/ \E line_id \in Ids : EmptyDeletion(line_id)
  \/ \E line_id \in Ids, c \in Slots : RefuseDeletion(line_id, c)
  \/ \E line_id \in Ids, c \in Slots : DeleteTwice(line_id, c)
  \/ \E line_id \in Ids, l \in Lit, c \in Slots : GlobalUnit(line_id, l, c)
  \/ \E line_id \in Ids, l \in Lit, c \in Slots : RefuseGlobalUnit(line_id, l, c)
  \/ \E id \in Ids, ln \in ProofLines : AddLine(id, ln)
  \/ \E id \in Ids : RefuseLine(id)

CheckLine ==
  \/ CandidateSatisfied
  \/ AssumeNegatedCandidate
  \/ \E h \in Slots, l \in Lit : UnitHint(h, l)
  \/ \E h \in Slots : UselessHint(h)
  \/ \E h \in Slots : RefutedByHint(h)
  \/ AssumeSubst
  \/ RefuseWitness
  \/ CheckHintGroup
  \/ RefuseHintGroup
  \/ HintGroupsSuffice
  \/ HintGroupsMissing
  \/ SkipClause
  \/ CheckRATClause
  \/ RefuseRATClause
  \/ ScanComplete
  \/ \E h \in Slots : RATClauseRefuted(h)
  \/ RATClauseNotRefuted

Next ==
  \/ Prepare
  \/ PrepareReadsDeleted
  \/ ReadLine
  \/ CheckLine
  \/ EndOfProof
  \/ Exited

Spec == Init /\ [][Next]_vars
-----------------------------------------------------------------------------
(***************************************************************************)
(* Correctness.  A clause is trusted once its line has been checked; the    *)
(* empty clause never is, because deriving it ends the run.                 *)
(***************************************************************************)
Trusted == {c \in Live : formula[c] # {} /\ (c = candidate => line = NoLine)}

TrustedClauses == {formula[c] : c \in Trusted}

CnfClauses == {formula[c] : c \in CnfIds}

Checking == {"assume", "up", "hints", "hintsUp", "scan", "scanUp"}

Pcs == {"prepare", "read"} \cup Checking \cup Final

(* Every variable of the checker holds a value of its C type, the deletion  *)
(* bits are set below the next slot, and no occurrence counter wraps.       *)
TypeOK ==
  /\ pc \in Pcs
  /\ formula \in [Slots -> SUBSET Lit]
  /\ formula_size \in num_cnf_clauses..MaxId
  /\ deleted \subseteq 1..formula_size + 1
  /\ lits_occurrences \in [Lit -> Nat]
  /\ first_last \in [Lit -> [min: 0..formula_size, max: 0..formula_size]]
  /\ max_line_id \in formula_size..MaxId
  /\ alpha \in [Var -> Nat]
  /\ alpha_generation \in Nat
  /\ line \in LineHead
  /\ cc_gen \in Nat
  /\ subst \in Substitution
  /\ max_clause \in 0..formula_size
  /\ cursor \in 0..formula_size + 1
  /\ position \in Nat
  /\ checked \subseteq Slots

(***************************************************************************)
(* While a line is checked its clause is the last one of the formula, live, *)
(* and its hint groups name slots that were not deleted; between lines, and *)
(* once a verdict is printed, no line is being checked.  The two loops over  *)
(* RAT clauses stay within the groups and within the formula.               *)
(***************************************************************************)
LineInProgress ==
  /\ pc \in Checking =>
       /\ line \in ProofLines /\ ParserAccepts(line)
       /\ candidate > num_cnf_clauses /\ candidate \notin deleted
       /\ line.clause = formula[candidate]
       /\ \A k \in DOMAIN line.groups :
            line.groups[k] \in 1..(candidate + 1) \ deleted
  /\ pc \in {"prepare", "read", "UNSAT", "VALID"} => line = NoLine
  /\ pc = "prepare" => formula_size = num_cnf_clauses
  /\ pc \in {"hints", "hintsUp", "scan", "scanUp"} =>
       position >= 1 /\ cursor \in 1..candidate + 1
  /\ pc = "hintsUp" => position \in DOMAIN line.groups
  /\ pc = "scanUp" => cursor <= candidate

(* lits_occurrences counts, for each literal, exactly the clauses that may  *)
(* be cited: check_only_hints() compares it with the hint groups it saw.    *)
OccurrencesExact ==
  pc \notin {"prepare", "CRASH"} =>
    \A l \in Lit :
      lits_occurrences[l] = Cardinality({c \in Trusted : l \in formula[c]})

(* The cached interval of a literal never loses a clause that holds it,     *)
(* however clauses are added, deleted and the ends moved lazily.            *)
IntervalsCover ==
  \A c \in Trusted : \A l \in formula[c] :
    /\ first_last[l].min # 0
    /\ first_last[l].min <= c /\ c <= first_last[l].max

(***************************************************************************)
(* What the partial assignment says is entailed: between lines by the       *)
(* formula, during a line by the formula and the candidate's negation, and  *)
(* in a hint group by those and by the negation of the RAT clause under the *)
(* witness.  An assignment of an earlier line or group must never show.     *)
(***************************************************************************)
Agrees(tau, gen) == \A l \in Lit : TrueAt(gen, l) => Holds(tau, l)

Counterexamples == {tau \in Models(TrustedClauses) : ~Sat(tau, line.clause)}

AssignmentEntailed ==
  /\ pc \in {"read", "assume"} =>
       \A tau \in Models(TrustedClauses) : Agrees(tau, LineGeneration)
  /\ pc \in {"up", "hints", "scan"} =>
       \A tau \in Counterexamples : Agrees(tau, alpha_generation)
  /\ pc \in {"hintsUp", "scanUp"} =>
       \A tau \in Counterexamples :
         ~Sat(Compose(tau, subst), formula[RATClause]) =>
            Agrees(tau, alpha_generation)

(* The generations a line sets aside for its hint groups are enough, so     *)
(* nothing assumed while a line is checked is visible to the next one.      *)
GenerationsSuffice ==
  /\ pc = "read" =>
       \A v \in Var : alpha[v] < LineGeneration \/ alpha[v] >= GLOBAL_GEN
  /\ pc \in {"hints", "hintsUp"} \/ (pc \in {"scan", "scanUp"} /\ line.explicit)
       => alpha_generation <= cc_gen

(* When a line is about to be accepted for its witness, every citable       *)
(* clause and the candidate are satisfied or left alone by the witness, or  *)
(* had their hint group checked.                                            *)
WitnessCoversFormula ==
  (pc = "scan" /\ cursor > candidate) \/
  (pc = "hints" /\ position > Len(line.groups) /\ AllGroupsChecked)
    => \A c \in Trusted \cup {candidate} :
         SatisfiedBySubst(c) \/ NotReduced(c) \/ c \in checked

(* A line whose hint groups do not account for every occurrence of the      *)
(* negated pivot is never accepted by the scan that follows.                *)
FallThroughFails ==
  [][(pc \in {"scan", "scanUp"} /\ ~line.explicit)
       => pc' \in {"scan", "scanUp", "FATAL"}]_vars

(* VERIFIED UNSAT is printed of unsatisfiable formulas only.                *)
VerdictSound == pc = "UNSAT" => ~Satisfiable(CnfClauses)

(* The checker implements the abstract proof system.                        *)
verdict == IF pc \in Final THEN pc ELSE "none"

Abstract == INSTANCE Redundancy WITH cnf <- CnfClauses, F <- TrustedClauses

Refinement == Abstract!Spec
=============================================================================
