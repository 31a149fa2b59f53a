---------------------------- MODULE DsrBackward ----------------------------
(***************************************************************************)
(* The backward check of dsr-trim, its default.  The parsed proof is first   *)
(* added to the formula, clause by clause, until unit propagation refutes    *)
(* it.  Then the lines are taken back, the last one first; those whose       *)
(* clause was used so far are checked, the others are skipped.  Unit         *)
(* propagation prefers clauses that are used already (core first).  The      *)
(* hints are stored and printed at the end, with deletions derived from the  *)
(* last use of each clause.                                                 *)
(*                                                                         *)
(* Clauses are numbered from 1, lines from 0 as in the code, and line L adds *)
(* the clause ClauseOf(L).  An entry of clauses_lui is the line of the last  *)
(* use, Unused, or, where the code sets the top bit of the line before which *)
(* the user deletes the clause, UserDeletedBefore(L).  How the proof is      *)
(* parsed is in DsrParse.                                                   *)
(***************************************************************************)
EXTENDS DsrTrail, Lsr

CONSTANT Proofs   (* Parsed proofs: cnf, lines and whether the empty clause
                     ends them; a line has a clause, a witness, and the
                     clauses deleted before it.                             *)

WitnessOfPairs ==
  [pivot: Lit, tt: Seq(Lit), map: Seq([from: Lit, to: Target])]

(* Formulas without clauses, and with an empty one, are fatal errors, and so
   are lines that are tautologies; an empty line ends the proof and is not
   among its lines.  A tautology of the formula is deleted when it is parsed;
   formulas are taken without.  The hash table finds a clause to delete among
   those before the line, and then forgets it.                              *)
ASSUME ProofsAssumption ==
  /\ IsFiniteSet(Var)
  /\ \A p \in Proofs :
       /\ p.cnf \in Seq(Seq(Lit)) /\ p.cnf # << >>
       /\ \A c \in 1..Len(p.cnf) : Proper(p.cnf[c]) /\ p.cnf[c] # << >>
       /\ p.lines \in Seq([clause: Seq(Lit), witness: WitnessOfPairs, dels: Seq(Nat)])
       /\ \A k \in 1..Len(p.lines) :
            /\ Proper(p.lines[k].clause) /\ p.lines[k].clause # << >>
            /\ \A n \in 1..Len(p.lines[k].dels) :
                 p.lines[k].dels[n] \in 1..Len(p.cnf) + k - 1
            /\ \A m, n \in 1..Len(p.lines[k].dels) :
                 p.lines[k].dels[m] = p.lines[k].dels[n] => m = n

VARIABLES
  proof,            (* The parsed proof, one of Proofs.                     *)
  num_parsed_add_lines,
  loaded,           (* Clauses given to add_wps_and_perform_up().           *)
  deleted,          (* The deletion bits of the formula.                    *)
  current_line,
  deletion,         (* The next user deletion of the line.                  *)
  clauses_lui,
  lines_range,      (* lines_min_max_clauses_to_check                       *)
  witnesses,
  deletions,        (* Derived deletions: ranges, and a pending one.        *)
  hint_ranges,      (* hints: two ranges for each line, from the last one.  *)
  rat_hints,        (* The pending range of RAT hint groups.                *)
  num_reduced,      (* num_reduced_clauses of each line.                    *)
  max_RAT_line,
  subst,            (* The assumed substitution.                            *)
  cursor,           (* The clause to check under the witness.               *)
  ignored_j, progressed_i, bookmarked_i, accepting, wp_up,
                    (* Core-first unit propagation; wp_up is
                       unit_literals_wp_up_indexes.                         *)
  lsr,              (* The printed proof.                                   *)
  pc

loopVars == <<i, j, ignored_j, progressed_i, bookmarked_i, accepting, wp_up, falsified>>
hintVars == <<marks, hint_ranges, rat_hints, num_reduced>>
luiVars  == <<clauses_lui, deletions>>
lineVars == <<current_line, deletion, cursor, subst, witnesses, max_RAT_line>>
passVars == <<proof, num_parsed_add_lines, loaded, deleted, derived_empty_clause,
              lines_range, lsr>>
vars == <<clauses, wps, pc, alphaVars, markVars, upVars, loopVars, hintVars,
          luiVars, lineVars, passVars>>

NumCnf == Len(proof.cnf)

ClauseOf(L) == NumCnf + L + 1

LineOf(c) == c - NumCnf - 1

Candidate == ClauseOf(current_line)

Unused == -1

UserDeletedBefore(L) == -2 - L

IsUsed(c) == clauses_lui[c] >= 0

(* User deletions from the line of the empty clause on are discarded.        *)
Deletions(L) == IF L \in 0..Len(proof.lines) - 1 THEN proof.lines[L + 1].dels ELSE << >>

(* The empty clause that ends a proof is not added to the formula.           *)
EndOfFormula == NumCnf + Len(proof.lines)

Init ==
  /\ proof \in Proofs
  /\ clauses = proof.cnf \o [k \in 1..Len(proof.lines) |-> proof.lines[k].clause]
               \o (IF proof.empty THEN << << >> >> ELSE << >>)
  /\ num_parsed_add_lines = Len(clauses) - NumCnf
  /\ clauses_lui =
       [c \in 1..Len(clauses) |->
          LET L == {m \in 0..Len(proof.lines) - 1 : c \in ToSet(Deletions(m))}
          IN  IF L = {} THEN Unused ELSE UserDeletedBefore(Min(L))]
  /\ witnesses = [k \in 1..Len(proof.lines) |-> proof.lines[k].witness]
  /\ num_reduced = [k \in 1..Len(proof.lines) |-> 0]
  /\ InitTrail
  /\ loaded = 0 /\ deleted = {} /\ current_line = 0 /\ deletion = 1
  /\ lines_range = << >>
  /\ deletions = [ranges |-> << >>, pending |-> {}]
  /\ hint_ranges = << >> /\ rat_hints = << >>
  /\ max_RAT_line = -1 /\ subst = Identity /\ cursor = 0
  /\ ignored_j = 0 /\ progressed_i = 0 /\ bookmarked_i = 0
  /\ accepting = FALSE /\ wp_up = [k \in 1..Cardinality(Var) |-> 1]
  /\ lsr = << >>
  /\ pc = "load"

-----------------------------------------------------------------------------
(* The last use of clauses.                                                 *)

(* adjust_clause_lui(), of all the clauses of D.  A clause in a derivation   *)
(* after its deletion is a fatal error.                                     *)
UsedAfterDeletion(D) ==
  \E c \in D : clauses_lui[c] < Unused /\ UserDeletedBefore(current_line) < clauses_lui[c]

Adjust(D) ==
  LET new == {c \in D : ~IsUsed(c)}
  IN  /\ clauses_lui' = [c \in DOMAIN clauses_lui |->
                           IF c \in new THEN current_line ELSE clauses_lui[c]]
      /\ deletions' = IF current_line = num_parsed_add_lines - 1 THEN deletions
                      ELSE [deletions EXCEPT !.pending = @ \cup new]

(* Two ranges of hints: the groups, of which a refutation has none, and the
   hints that come before them.                                             *)
StoreRefutation(c) ==
  /\ marks' = RefutationMarks(c)
  /\ hint_ranges' = hint_ranges \o <<rat_hints, RefutationHints(c)>>
  /\ rat_hints' = << >>
  /\ Adjust(ToSet(RefutationHints(c)))

-----------------------------------------------------------------------------
(* Core-first unit propagation.                                             *)

StartUp(from, to) ==
  /\ i' = from /\ j' = 1 /\ ignored_j' = 1
  /\ progressed_i' = 1 /\ bookmarked_i' = 0 /\ accepting' = FALSE
  /\ wp_up' = [k \in DOMAIN wp_up |-> IF k >= from THEN 1 ELSE wp_up[k]]
  /\ pc' = to

Propagating == pc \in {"up", "re-up"} /\ i <= Len(units)

Visiting == Propagating /\ j <= Len(wps[FalsifiedLit])

NoReplacement == i < progressed_i \/ Replacements = {}

(* The clauses that are done with come before those that are ignored.        *)
Advance ==
  /\ PutOtherFirst
  /\ wps' = [wps EXCEPT ![FalsifiedLit] = Swap(@, j, ignored_j)]
  /\ j' = j + 1 /\ ignored_j' = ignored_j + 1

SkipSatisfied ==
  /\ Visiting
  /\ IsTrue(OtherFirst[1])
  /\ Advance
  /\ UNCHANGED <<i, progressed_i, bookmarked_i, accepting, wp_up, falsified, pc,
                 alphaVars, markVars, upVars, hintVars, luiVars, lineVars, passVars>>

ReplaceWatch ==
  /\ Visiting
  /\ ~IsTrue(OtherFirst[1]) /\ ~NoReplacement
  /\ MoveWatch
  /\ UNCHANGED <<loopVars, pc, alphaVars, markVars, upVars, hintVars, luiVars,
                 lineVars, passVars>>

(* Global propagation between lines drops a conflict.                       *)
FindConflict ==
  /\ Visiting
  /\ IsFalse(OtherFirst[1]) /\ NoReplacement
  /\ PutOtherFirst
  /\ falsified' = Watcher
  /\ pc' = IF pc = "re-up" THEN "check" ELSE "falsified"
  /\ UNCHANGED <<wps, i, j, ignored_j, progressed_i, bookmarked_i, accepting, wp_up,
                 alphaVars, markVars, upVars, hintVars, luiVars, lineVars, passVars>>

FindCoreUnit ==
  /\ Visiting
  /\ Unassigned(OtherFirst[1]) /\ NoReplacement
  /\ IsUsed(Watcher)
  /\ SetUnit(OtherFirst[1], Watcher)
  /\ wp_up' = [wp_up EXCEPT ![Len(units')] = 1]
  /\ Advance
  /\ UNCHANGED <<i, progressed_i, bookmarked_i, accepting, falsified, pc,
                 markVars, upVars, hintVars, luiVars, lineVars, passVars>>

(* Variant: other unused clauses are accepted as well.                      *)
AcceptMore == accepting

AcceptAfterOne == FALSE

(* One is accepted; then the units that have not been propagated are.        *)
AcceptUnused ==
  /\ Visiting
  /\ Unassigned(OtherFirst[1]) /\ NoReplacement
  /\ ~IsUsed(Watcher) /\ accepting
  /\ SetUnit(OtherFirst[1], Watcher)
  /\ PutOtherFirst
  /\ wps' = [wps EXCEPT ![FalsifiedLit] = Swap(@, j, ignored_j)]
  /\ wp_up' = [wp_up EXCEPT ![Len(units')] = 1, ![i] = ignored_j + 1]
  /\ i' = progressed_i /\ j' = wp_up'[i'] /\ ignored_j' = j'
  /\ accepting' = AcceptAfterOne /\ bookmarked_i' = i
  /\ UNCHANGED <<progressed_i, falsified, pc, markVars, upVars, hintVars,
                 luiVars, lineVars, passVars>>

IgnoreUnused ==
  /\ Visiting
  /\ Unassigned(OtherFirst[1]) /\ NoReplacement
  /\ ~IsUsed(Watcher) /\ ~accepting
  /\ PutOtherFirst
  /\ bookmarked_i' = IF bookmarked_i = 0 THEN i ELSE bookmarked_i
  /\ j' = j + 1
  /\ UNCHANGED <<wps, i, ignored_j, progressed_i, accepting, wp_up, falsified, pc,
                 alphaVars, markVars, upVars, hintVars, luiVars, lineVars, passVars>>

StartOf(k) == IF k <= Len(units) THEN wp_up[k] ELSE 1

NextUnit ==
  /\ Propagating
  /\ j > Len(wps[FalsifiedLit])
  /\ wp_up' = [wp_up EXCEPT ![i] = ignored_j]
  /\ i' = i + 1 /\ j' = StartOf(i + 1) /\ ignored_j' = j'
  /\ UNCHANGED <<clauses, wps, progressed_i, bookmarked_i, accepting, falsified, pc,
                 alphaVars, markVars, upVars, hintVars, luiVars, lineVars, passVars>>

(* Variant: the ignored clauses are only walked again, not accepted.         *)
StillIgnoring == accepting

Accepting == TRUE

IgnoredSome == ~accepting /\ bookmarked_i # 0

ReturnToIgnored ==
  /\ pc \in {"up", "re-up"} /\ i > Len(units) /\ IgnoredSome
  /\ progressed_i' = i
  /\ i' = bookmarked_i /\ j' = StartOf(i') /\ ignored_j' = j'
  /\ accepting' = Accepting
  /\ UNCHANGED <<clauses, wps, bookmarked_i, wp_up, falsified, pc, alphaVars,
                 markVars, upVars, hintVars, luiVars, lineVars, passVars>>

(* What follows a clause that is added without a conflict.                  *)
AfterAdding(c) ==
  CASE c < NumCnf -> "load" [] c \in NumCnf..EndOfFormula - 1 -> "line" [] OTHER -> "FATAL"

(* No conflict: a reduced clause is not refuted, which is an error, or the
   proof does not refute the formula.                                       *)
FinishUp ==
  /\ pc \in {"up", "re-up"} /\ i > Len(units) /\ ~IgnoredSome
  /\ global_up' = IF up_state = "GLOBAL_UP" THEN i ELSE global_up
  /\ pc' = CASE up_state = "RAT_UP"       -> "FATAL"
             [] up_state = "CANDIDATE_UP" -> "witness"
             [] OTHER                     -> IF pc = "re-up" THEN "check"
                                             ELSE IF derived_empty_clause THEN "derived"
                                             ELSE AfterAdding(loaded)
  /\ UNCHANGED <<clauses, wps, loopVars, alphaVars, markVars, levelVars, hintVars,
                 luiVars, lineVars, passVars>>

-----------------------------------------------------------------------------
(* The forward pass: formula and proof are added until they are refuted.     *)

Added == loaded + 1

(* The clauses that the witness of the next line touches.                    *)
Reducible ==
  {b \in 1..loaded \ deleted :
     ToSet(clauses[b]) \cap Touched(witnesses[LineOf(Added) + 1]) # {}}

(* Those that the witness can reduce are between these.                      *)
StoreRange ==
  /\ pc = "line"
  /\ lines_range' = Append(lines_range, [min |-> Min({loaded} \cup Reducible),
                                         max |-> Max({1} \cup Reducible)])
  /\ current_line' = LineOf(Added)
  /\ deletion' = 1
  /\ pc' = "delete"
  /\ UNCHANGED <<clauses, wps, alphaVars, markVars, upVars, loopVars, hintVars, luiVars,
                 cursor, subst, witnesses, max_RAT_line, proof, num_parsed_add_lines,
                 loaded, deleted, derived_empty_clause, lsr>>

Deleting == pc = "delete" /\ deletion <= Len(Deletions(current_line))

ToDelete == Deletions(current_line)[deletion]

IsReason(c) ==
  LET v == VarOf(clauses[c][1]) IN IsVarSetDueToUp(v) /\ ReasonOf(v) = c

(* The clause that implies a literal is kept, with the default options.      *)
IgnoreDeletion ==
  /\ Deleting /\ IsReason(ToDelete)
  /\ clauses_lui' = [clauses_lui EXCEPT ![ToDelete] = Unused]
  /\ deletion' = deletion + 1
  /\ UNCHANGED <<clauses, wps, pc, alphaVars, markVars, upVars, loopVars, hintVars,
                 deletions, current_line, cursor, subst, witnesses, max_RAT_line, passVars>>

SoftDelete ==
  /\ Deleting /\ ~IsReason(ToDelete)
  /\ \/ IsWatched(ToDelete) /\ Detach(ToDelete) /\ UNCHANGED pc
     \/ ~IsWatched(ToDelete) /\ pc' = "FATAL" /\ UNCHANGED wps
  /\ deleted' = deleted \cup {ToDelete}
  /\ deletion' = deletion + 1
  /\ UNCHANGED <<clauses, alphaVars, markVars, upVars, loopVars, hintVars, luiVars,
                 current_line, cursor, subst, witnesses, max_RAT_line, proof,
                 num_parsed_add_lines, loaded, derived_empty_clause, lines_range, lsr>>

Adding == pc = "load" \/ (pc = "delete" /\ ~Deleting)

AddUnit ==
  /\ Adding
  /\ AttachUnit(Added)
  /\ loaded' = Added
  /\ StartUp(global_up, "up")
  /\ UNCHANGED <<clauses, wps, falsified, markVars, upVars, hintVars, luiVars, lineVars,
                 proof, num_parsed_add_lines, deleted, derived_empty_clause,
                 lines_range, lsr>>

(* The clause is false.  A longer one goes on to unit propagation, without
   watches.                                                                 *)
AddFalsified ==
  /\ Adding /\ NonFalse(Added) = {}
  /\ StoreRefutation(Added)
  /\ derived_empty_clause' = TRUE
  /\ loaded' = Added
  /\ IF UsedAfterDeletion(ToSet(RefutationHints(Added)))
     THEN pc' = "FATAL" /\ UNCHANGED loopVars
     ELSE IF Len(clauses[Added]) = 1 THEN pc' = "derived" /\ UNCHANGED loopVars
     ELSE StartUp(global_up, "up") /\ UNCHANGED falsified
  /\ UNCHANGED <<clauses, wps, alphaVars, markVars, upVars, num_reduced, lineVars,
                 proof, num_parsed_add_lines, deleted, lines_range, lsr>>

AddWatched ==
  /\ Adding
  /\ AttachWatched(Added)
  /\ loaded' = Added
  /\ StartUp(global_up, "up")
  /\ UNCHANGED <<falsified, markVars, upVars, hintVars, luiVars, lineVars, proof,
                 num_parsed_add_lines, deleted, derived_empty_clause, lines_range, lsr>>

RefuteFormula ==
  /\ pc = "falsified" /\ up_state = "GLOBAL_UP"
  /\ StoreRefutation(falsified)
  /\ derived_empty_clause' = TRUE
  /\ pc' = IF UsedAfterDeletion(ToSet(RefutationHints(falsified)))
           THEN "FATAL" ELSE "derived"
  /\ UNCHANGED <<clauses, wps, alphaVars, markVars, upVars, loopVars, num_reduced,
                 lineVars, proof, num_parsed_add_lines, loaded, deleted, lines_range, lsr>>

(* The empty clause follows the clause that completed the refutation.        *)
EndOfForwardPass ==
  /\ pc = "derived"
  /\ clauses' = Append(SubSeq(clauses, 1, loaded), << >>)
  /\ num_parsed_add_lines' = LineOf(loaded) + 2
  /\ current_line' = LineOf(loaded) + 1
  /\ pc' = IF LineOf(loaded) + 1 > 0 THEN "prepare" ELSE "print"
  /\ UNCHANGED <<wps, alphaVars, markVars, upVars, loopVars, hintVars, luiVars, deletion,
                 cursor, subst, witnesses, max_RAT_line, proof, loaded, deleted,
                 derived_empty_clause, lines_range, lsr>>

-----------------------------------------------------------------------------
(* The backward pass: a line is taken back.                                 *)

(* Variant: clauses whose deletion was ignored get their watches again.      *)
RestoredAll == Deletions(current_line)

Restored ==
  LET D == Deletions(current_line)
  IN  AtPlaces(D, {k \in 1..Len(D) : D[k] \in deleted})

RestoredTo(l) == AtPlaces(Restored, {k \in 1..Len(Restored) : l \in Watches(Restored[k])})

(* The user deletions of the line are undone.                               *)
RestoreDeleted ==
  /\ pc = "prepare"
  /\ wps' = [l \in Lit |-> wps[l] \o RestoredTo(l)]
  /\ deleted' = deleted \ ToSet(Restored)
  /\ current_line' = current_line - 1
  /\ pc' = "uncommit"
  /\ UNCHANGED <<clauses, alphaVars, markVars, upVars, loopVars, hintVars, luiVars,
                 deletion, cursor, subst, witnesses, max_RAT_line, proof,
                 num_parsed_add_lines, loaded, derived_empty_clause, lines_range, lsr>>

(* The clause of the line loses its watches, or its unit.  The first line is
   checked even if its clause is not used.                                  *)
UncommitClause ==
  /\ pc = "uncommit"
  /\ \/ /\ IsWatched(Candidate)
        /\ Detach(Candidate)
        /\ pc' = IF ~IsUsed(Candidate) /\ current_line > 0 THEN "prepare" ELSE "restart"
     \/ ~IsWatched(Candidate) /\ pc' = "FATAL" /\ UNCHANGED wps
  /\ IF IsReason(Candidate)
     THEN UnassignFrom(vars_unit_indexes[VarOf(clauses[Candidate][1])])
     ELSE UNCHANGED <<alphaVars, global_up>>
  /\ deletions' = [ranges |-> Append(deletions.ranges, deletions.pending), pending |-> {}]
  /\ UNCHANGED <<clauses, markVars, levelVars, loopVars, hintVars, clauses_lui, lineVars,
                 passVars>>

(* Variant: propagation goes on where it was.                                *)
WhereItWas == global_up

RestartAtUnit == 1

RestartGlobalUp ==
  /\ pc = "restart"
  /\ global_up' = RestartAtUnit
  /\ StartUp(RestartAtUnit, "re-up")
  /\ UNCHANGED <<clauses, wps, falsified, alphaVars, markVars, levelVars, hintVars,
                 luiVars, lineVars, passVars>>

-----------------------------------------------------------------------------
(* The line is checked.                                                     *)

(* Lines that are not checked have empty ranges of hints.                    *)
RATHintsIdx(L) == 2 * (num_parsed_add_lines - 1 - L)

Padded(s, size) == s \o [k \in 1..(size - Len(s)) |-> << >>]

AssumeLine ==
  /\ pc = "check"
  /\ hint_ranges' = Padded(hint_ranges, RATHintsIdx(current_line))
  /\ marks' = {}
  /\ AssumeCandidate(clauses[Candidate])
  /\ LET c == RefutingClause(clauses[Candidate])
     IN  IF c = 0 THEN StartUp(candidate_assumed', "up") /\ UNCHANGED falsified
         ELSE /\ pc' = "falsified" /\ falsified' = c
              /\ UNCHANGED <<i, j, ignored_j, progressed_i, bookmarked_i, accepting, wp_up>>
  /\ UNCHANGED <<clauses, wps, RAT_marked, global_up, RAT_assumed, RAT_unit, rat_hints,
                 num_reduced, luiVars, lineVars, passVars>>

RefuteCandidate ==
  /\ pc = "falsified" /\ up_state = "CANDIDATE_UP"
  /\ StoreRefutation(falsified)
  /\ pc' = IF UsedAfterDeletion(ToSet(RefutationHints(falsified))) THEN "FATAL" ELSE "undo"
  /\ UNCHANGED <<clauses, wps, alphaVars, markVars, upVars, loopVars, num_reduced,
                 lineVars, passVars>>

Witness == witnesses[current_line + 1]

LineRange == lines_range[current_line + 1]

AssumeWitness ==
  /\ pc = "witness"
  /\ LET small == Minimized(Witness, alpha)
         final == WitnessToCheck(Witness, clauses[Candidate], alpha)
     IN  /\ subst' = Subst(small)
         /\ witnesses' = [witnesses EXCEPT ![current_line + 1] = final]
         /\ pc' = IF SetTwice(small) \/ final.pivot = 0 THEN "FATAL" ELSE "rat"
  /\ max_RAT_line' = Max({max_RAT_line, current_line})
  /\ cursor' = IF LineRange.min <= LineRange.max THEN LineRange.min ELSE Candidate
  /\ UNCHANGED <<clauses, wps, alphaVars, markVars, upVars, loopVars, hintVars, luiVars,
                 current_line, deletion, passVars>>

(* Variant: a clause that is used last by the next line is skipped too.      *)
CanSkipOneMore(c) ==
  IF IsUsed(c) THEN clauses_lui[c] <= current_line + 1
  ELSE clauses_lui[c] \in UserDeletedBefore(current_line)..Unused - 1

(* Variant: a clause that is deleted before this very line is checked.      *)
CanSkipUnlessNow(c) ==
  IF IsUsed(c) THEN clauses_lui[c] <= current_line
  ELSE clauses_lui[c] \in UserDeletedBefore(current_line) + 1..Unused - 1

(* Clauses the user has deleted, and those no later line uses, which are
   deleted from the printed proof, are skipped.                             *)
CanSkip(c) ==
  IF IsUsed(c) THEN clauses_lui[c] <= current_line
  ELSE clauses_lui[c] \in UserDeletedBefore(current_line)..Unused - 1

(* The candidate comes after the range.                                     *)
NextCursor ==
  IF cursor < LineRange.max THEN cursor + 1
  ELSE IF cursor < Candidate THEN Candidate ELSE Candidate + 1

Scanning == pc = "rat" /\ cursor <= Candidate

Reduction == ReductionOf(subst, clauses[cursor])

NotSkipped == Scanning /\ (cursor = Candidate \/ ~CanSkip(cursor))

CountReduced == num_reduced' = [num_reduced EXCEPT ![current_line + 1] = @ + 1]

PassClause ==
  /\ Scanning
  /\ \/ cursor # Candidate /\ CanSkip(cursor) /\ UNCHANGED num_reduced
     \/ NotSkipped /\ Reduction = "NOT_REDUCED" /\ UNCHANGED num_reduced
     \/ NotSkipped /\ Reduction = "SATISFIED" /\ CountReduced
  /\ cursor' = NextCursor
  /\ UNCHANGED <<clauses, wps, pc, alphaVars, markVars, upVars, loopVars, marks,
                 hint_ranges, rat_hints, luiVars, current_line, deletion, subst,
                 witnesses, max_RAT_line, passVars>>

RefuseContradiction ==
  /\ NotSkipped /\ Reduction = "CONTRADICTION"
  /\ pc' = "FATAL"
  /\ UNCHANGED <<clauses, wps, alphaVars, markVars, upVars, loopVars, hintVars, luiVars,
                 lineVars, passVars>>

ImageHolds ==
  /\ NotSkipped /\ Reduction = "REDUCED"
  /\ LET D == ReducedImage(subst, clauses[cursor])
     IN  \/ SatisfiedByAssumption(D) /\ UNCHANGED marks
         \/ SatisfiedByUnit(D) /\ marks' = marks \cup MarksOfSatisfied(D)
  /\ rat_hints' = Append(rat_hints, Group(cursor, << >>))
  /\ CountReduced
  /\ cursor' = NextCursor
  /\ UNCHANGED <<clauses, wps, pc, alphaVars, markVars, upVars, loopVars, hint_ranges,
                 luiVars, current_line, deletion, subst, witnesses, max_RAT_line, passVars>>

CheckImage ==
  /\ NotSkipped /\ Reduction = "REDUCED"
  /\ AssumeImage(ReducedImage(subst, clauses[cursor]))
  /\ rat_hints' = Append(rat_hints, Group(cursor, << >>))
  /\ CountReduced
  /\ StartUp(RAT_assumed', "up")
  /\ UNCHANGED <<clauses, wps, falsified, global_up, candidate_assumed, candidate_unit,
                 marks, hint_ranges, luiVars, lineVars, passVars>>

RefuteImage ==
  /\ pc = "falsified" /\ up_state = "RAT_UP"
  /\ marks' = marks \cup RoundMarks
  /\ rat_hints' = [rat_hints EXCEPT ![Len(rat_hints)].hints = RoundHints]
  /\ UndoImage
  /\ cursor' = NextCursor
  /\ pc' = "rat"
  /\ UNCHANGED <<clauses, wps, loopVars, global_up, candidate_assumed, candidate_unit,
                 RAT_assumed, RAT_unit, hint_ranges, num_reduced, luiVars, current_line,
                 deletion, subst, witnesses, max_RAT_line, passVars>>

(* Variant: the hints of every group are counted as uses.                   *)
AllGroups(used) == used \cup UNION {ToSet(g.hints) : g \in ToSet(rat_hints)}

(* A group is kept if its clause is used by a later line or by the hints of
   this one, those of the groups that are kept included.                    *)
ActiveGroup(g, used) == IsUsed(g.clause) \/ g.clause \in used

UsedByGroups(used) ==
  LET Spread(U, g) == U \cup UNION {ToSet(h.hints) : h \in
                                      {e \in ToSet(rat_hints) : ActiveGroup(e, U)}}
  IN  FoldLeft(Spread, used, rat_hints)

StoreLine ==
  /\ pc = "rat" /\ cursor > Candidate
  /\ marks' = MarkDependencies(marks, 1)
  /\ LET hs == MarkedReasons(marks', 1)
         used == UsedByGroups(ToSet(hs))
         kept == SelectSeq(rat_hints, LAMBDA g : ActiveGroup(g, used))
     IN  /\ hint_ranges' = hint_ranges \o <<kept, hs>>
         /\ Adjust(used)
         /\ pc' = IF UsedAfterDeletion(used) THEN "FATAL" ELSE "undo"
  /\ rat_hints' = << >>
  /\ UNCHANGED <<clauses, wps, alphaVars, markVars, upVars, loopVars, num_reduced,
                 lineVars, passVars>>

UnassumeCandidate ==
  /\ pc = "undo"
  /\ UndoCandidate(clauses[Candidate])
  /\ pc' = IF current_line > 0 THEN "prepare" ELSE "print"
  /\ UNCHANGED <<clauses, wps, RAT_marked, global_up, candidate_assumed, candidate_unit,
                 RAT_assumed, RAT_unit, loopVars, hintVars, luiVars, lineVars, passVars>>

-----------------------------------------------------------------------------
(* The stored proof is printed.                                             *)

(* Clauses that are not used have no identifier.                            *)
MappedId(c) ==
  IF c <= NumCnf THEN c
  ELSE NumCnf + Cardinality({b \in NumCnf + 1..c : b = c \/ IsUsed(b)})

Mapped(hs) == [k \in 1..Len(hs) |-> MappedId(hs[k])]

HintRange(k) == IF k < Len(hint_ranges) THEN hint_ranges[k + 1] ELSE << >>

UPHints(L) == HintRange(RATHintsIdx(L) + 1)

RATHints(L) == HintRange(RATHintsIdx(L))

(* The range of the first line is still pending.                            *)
DerivedDeletions(L) ==
  LET k == num_parsed_add_lines - 1 - L
  IN  IF k < Len(deletions.ranges) THEN deletions.ranges[k + 1] ELSE deletions.pending

NoWitness == [pivot |-> SUBST_TT, tt |-> << >>, map |-> << >>]

PrintedWitness(L) ==
  IF L = num_parsed_add_lines - 1 THEN NoWitness
  ELSE IF num_reduced[L + 1] = 0 THEN [witnesses[L + 1] EXCEPT !.tt = << >>, !.map = << >>]
  ELSE Printed(witnesses[L + 1])

PrintedLine(L) ==
  AdditionLine(MappedId(ClauseOf(L)), ToSet(clauses[ClauseOf(L)]), PrintedWitness(L),
               Mapped(UPHints(L)),
               [k \in 1..Len(RATHints(L)) |->
                  Group(MappedId(RATHints(L)[k].clause), Mapped(RATHints(L)[k].hints))])

(* Deletions do not help after the last line that is not a refutation.       *)
PrintedDeletions(L) ==
  IF L < max_RAT_line /\ DerivedDeletions(L) # {}
  THEN <<DeletionLine({MappedId(c) : c \in DerivedDeletions(L)})>> ELSE << >>

PrintProof ==
  LET last == num_parsed_add_lines - 1
      Lines(L) == (IF IsUsed(ClauseOf(L)) THEN <<PrintedLine(L)>> ELSE << >>)
                  \o PrintedDeletions(L)
  IN  /\ pc = "print"
      /\ lsr' = <<DeletionLine({c \in 1..NumCnf : ~IsUsed(c)})>>
                \o FlattenSeq([k \in 1..last |-> Lines(k - 1)]) \o <<PrintedLine(last)>>
      /\ pc' = "UNSAT"
      /\ UNCHANGED <<clauses, wps, alphaVars, markVars, upVars, loopVars, hintVars, luiVars,
                     lineVars, proof, num_parsed_add_lines, loaded, deleted,
                     derived_empty_clause, lines_range>>

Final == {"UNSAT", "FATAL"}

Exited == pc \in Final /\ UNCHANGED vars

Next ==
  \/ SkipSatisfied \/ ReplaceWatch \/ FindConflict \/ FindCoreUnit \/ AcceptUnused
  \/ IgnoreUnused \/ NextUnit \/ ReturnToIgnored \/ FinishUp
  \/ StoreRange \/ IgnoreDeletion \/ SoftDelete
  \/ AddUnit \/ AddFalsified \/ AddWatched \/ RefuteFormula \/ EndOfForwardPass
  \/ RestoreDeleted \/ UncommitClause \/ RestartGlobalUp
  \/ AssumeLine \/ RefuteCandidate \/ AssumeWitness
  \/ PassClause \/ RefuseContradiction \/ ImageHolds \/ CheckImage \/ RefuteImage
  \/ StoreLine \/ UnassumeCandidate \/ PrintProof \/ Exited

(* The program is one thread that takes its next step.                      *)
Spec == Init /\ [][Next]_vars /\ WF_vars(Next)

-----------------------------------------------------------------------------
(* Properties.                                                              *)

(* The clauses the line is checked with, or added to.                       *)
Live == 1..(IF pc \in {"load", "line"} THEN loaded ELSE Candidate - 1) \ deleted

Settled == pc \in {"load", "line", "check", "witness", "rat", "undo"}

(* Whatever has been deleted, restored and taken back since a unit was set,
   its reason is a clause of the line's own database, whose first literal is
   the unit and whose others were false before.  Units above the one that
   uncommit_clause() takes back are unassigned too, and deletions of reasons
   are ignored: a reason that outlives its clause would have the hints of an
   earlier line cite a later clause.                                        *)
ReasonsPrecede == Settled => ReasonsIn(Live)

(* Each clause of the line's database of two literals or more is watched once
   by its first two literals, and no other clause is watched: deletions are
   undone by appending to watch lists that were permuted, and shortened, in
   the meantime.                                                            *)
WatchesRestored ==
  Settled => \A c \in 1..Len(clauses) :
    clauses[c] # << >> /\ ~(derived_empty_clause /\ c = loaded) => WatchedOnce(c, Live)

(* When a line is checked, and when its images are, unit propagation has
   missed nothing, though core-first propagation leaves watch lists in the
   middle and returns to them, clauses the user deleted come back, and units
   are taken back without the propagation of others.                        *)
PropagationReturns == pc \in {"check", "witness", "rat"} => \A c \in Live : Quiet(c)

(* A clause that is not used yet implies a literal only when no clause in use
   is unit or false (dsr-trim.c:2571-2598 of core-first propagation): it is
   what keeps the checked part of the proof small.                          *)
CoreFirst ==
  [][ (pc = "re-up" \/ (pc = "up" /\ up_state # "GLOBAL_UP"))
        /\ Len(units') > Len(units) /\ ~IsUsed(units'[Len(units')].clause)
      => \A c \in Live : IsUsed(c) => Quiet(c) ]_vars

LastLine == num_parsed_add_lines - 1

Cited(L) == ToSet(UPHints(L)) \cup UNION {ToSet(g.hints) : g \in ToSet(RATHints(L))}

(* The refutation of the formula is the last line, but what it uses is counted
   one line earlier, see the README.                                        *)
CountedAt(L) == IF L = LastLine /\ L > 0 THEN L - 1 ELSE L

(* src/src/dsr-trim.c:282: the last-used table has the last line whose hints
   cite each clause.  Which hints a line keeps depends on the table, that
   grows while they are chosen; which lines are checked, which clauses a RAT
   check skips and when clauses are deleted depends on it in turn.           *)
LastUseExact ==
  pc = "print" => \A c \in 1..Len(clauses) - 1 :
    LET uses == {CountedAt(L) : L \in {m \in 0..LastLine : c \in Cited(m)}}
    IN  IF uses = {} THEN ~IsUsed(c) ELSE clauses_lui[c] = Max(uses)

Formula == [c \in 1..NumCnf |-> ToSet(proof.cnf[c])]

(* The proof that is printed is accepted by the checker it is for, though it
   lacks lines, clauses that are deleted before the first line or between
   lines, groups of hints and parts of witnesses, and its clauses have other
   numbers.  A RAT line that ends the proof is the exception, see the README. *)
EmittedAccepted ==
  pc = "UNSAT" =>
    RefusedLines(Formula, lsr) \subseteq
      {MappedId(ClauseOf(L)) : L \in {max_RAT_line} \cap {LastLine - 1}}

UnitClosure(F, A) ==
  LET Step(B, n) ==
        B \cup UNION {U \in {{l \in C : -l \notin B} : C \in F} : Cardinality(U) = 1}
  IN  FoldLeft(Step, A, [n \in 1..Cardinality(Var) |-> n])

(* Unit propagation refutes the clauses F under the literals A.              *)
RefutedByUnits(F, A) ==
  LET B == UnitClosure(F, A) IN \E C \in F : \A l \in C : -l \in B

(* The clause that is candidate has the property that dsr-trim checks.       *)
Substitutable(F, C, w) ==
  LET s == Subst(w)
      B == UnitClosure(F, Negated(C))
      Left(D) == Image(s, D) \ {SUBST_FF}
  IN  \/ RefutedByUnits(F, Negated(C))
      \/ /\ C # {}
         /\ \A D \in F \cup {C} :
              \/ SUBST_TT \in Left(D) \/ \A l \in D : MapLit(s, l) = l
              \/ Left(D) # {} /\ (Tautology(Left(D)) \/ Left(D) \cap B # {}
                                    \/ RefutedByUnits(F, B \cup Negated(Left(D))))

(* What is wrong with a proof that is refused: unit propagation does not refute
   the formula and the lines, or the line at fault is no substitution
   redundancy of what comes before it.                                      *)
BadProof ==
  LET F == {ToSet(clauses[c]) : c \in Live}
  IN  IF ~derived_empty_clause
      THEN loaded = EndOfFormula
           /\ ~RefutedByUnits({ToSet(clauses[c]) : c \in 1..loaded \ deleted}, {})
      ELSE ~Substitutable(F, ToSet(clauses[Candidate]),
                          proof.lines[current_line + 1].witness)

(* The backward pass refuses a line with its candidate assumed; only a clause
   that cannot be taken back is given up before.                            *)
NotTakenBack == deletions.ranges # << >> /\ up_state = "GLOBAL_UP"

(* The clause completed the refutation when it was added: units alone made it
   false.                                                                   *)
AddedFalse(c) == c = loaded /\ \A l \in ToSet(clauses[c]) : -l \in alpha

(* Only a bad proof is refused, whatever was skipped, deleted, kept or restored
   before the line at fault is checked.  The program cannot take back a clause
   that was false when it was added, see the README; every other clause it
   can.                                                                     *)
OnlyBadProofsRefused ==
  pc = "FATAL" => IF NotTakenBack THEN AddedFalse(Candidate) ELSE BadProof

(* Core-first propagation goes back to earlier units and walks the rest of
   their watch lists again, and the backward pass repeats propagation from
   the first unit for each line: the program ends all the same.             *)
Termination == <>(pc \in Final)

(* README.md:5-16: what dsr-trim reports unsatisfiable is.                  *)
VerdictSound == pc = "UNSAT" => ~Satisfiable({Formula[c] : c \in 1..NumCnf})
=============================================================================
