----------------------------- MODULE DsrForward -----------------------------
(***************************************************************************)
(* The forward check of dsr-trim: unit propagation with two watched          *)
(* literals, the check of a candidate clause by assuming its negation, the   *)
(* redundancy checks of the clauses its witness reduces, the hints emitted   *)
(* for lsr-check, and the deletion of clauses that made literals unit.       *)
(*                                                                         *)
(* Parsing and clause identity are in DsrParse; here a line adds a clause    *)
(* that the formula lacks or deletes one that it has.  The witness is        *)
(* abstracted to the images of the clauses that it reduces, in any order.    *)
(***************************************************************************)
EXTENDS DsrTrail, Lsr

CONSTANTS
  Formulas,     (* The CNF formulas, as sequences of clauses.              *)
  Candidates,   (* The clauses an addition line may have.                  *)
  Images,       (* The images of clauses under the witnesses of the proof.  *)
  MaxLines,     (* Bound on the lines of the proof.                        *)
  MaxImages     (* Bound on the reduced clauses of a line.                 *)

(* Formulas without clauses, and with an empty one, are fatal errors.       *)
ASSUME DsrForwardAssumption ==
  /\ \A F \in Formulas :
       /\ F \in Seq(Seq(Lit)) /\ F # << >>
       /\ \A c \in 1..Len(F) : Proper(F[c]) /\ F[c] # << >>
  /\ \A C \in Candidates : Proper(C)
  /\ \A D \in Images : D \in Seq(Lit)
  /\ MaxLines \in Nat /\ MaxImages \in Nat

VARIABLES
  deleted,                (* The deletion bits.                            *)
  loaded,                 (* Clauses given to add_wps_and_perform_up().     *)
  hints, rat_hints,       (* Those of the line, and its RAT hint groups.    *)
  lines,                  (* Lines read.                                    *)
  unassigned,             (* History: a deletion has unassigned units.      *)
  pc                      (* "load" and "add": a clause is to be watched;
                             "up" and "re-up": propagating, the latter after
                             a deletion; "falsified": it found a conflict;
                             "rat": checking reduced clauses; "refuted"
                             and "reduced": the line holds, by refutation or
                             by its reduced clauses; "read": between lines. *)

hintVars  == <<marks, hints, rat_hints, derived_empty_clause>>
lineVars  == <<deleted, lines, unassigned>>
vars == <<clauses, loaded, wps, i, j, falsified, pc,
          upVars, alphaVars, markVars, hintVars, lineVars>>

Candidate == clauses[Len(clauses)]

Live == 1..loaded \ deleted

Init ==
  /\ clauses \in Formulas
  /\ InitTrail
  /\ deleted = {} /\ loaded = 0
  /\ hints = << >> /\ rat_hints = << >>
  /\ lines = 0 /\ unassigned = FALSE
  /\ pc = "load"

StoreRefutation(c) ==
  /\ marks' = RefutationMarks(c)
  /\ hints' = RefutationHints(c)
  /\ rat_hints' = << >>

-----------------------------------------------------------------------------
(* Unit propagation.                                                        *)

StartUp(from, to) == i' = from /\ j' = 1 /\ pc' = to

Propagating == pc \in {"up", "re-up"} /\ i <= Len(units)

Visiting == Propagating /\ j <= Len(wps[FalsifiedLit])

SkipSatisfied ==
  /\ Visiting
  /\ IsTrue(OtherFirst[1])
  /\ PutOtherFirst
  /\ j' = j + 1
  /\ UNCHANGED <<loaded, wps, i, falsified, pc, alphaVars,
                 upVars, markVars, hintVars, lineVars>>

ReplaceWatch ==
  /\ Visiting
  /\ ~IsTrue(OtherFirst[1])
  /\ Replacements # {}
  /\ MoveWatch
  /\ UNCHANGED <<loaded, i, j, falsified, pc, alphaVars,
                 upVars, markVars, hintVars, lineVars>>

FindConflict ==
  /\ Visiting
  /\ IsFalse(OtherFirst[1])
  /\ Replacements = {}
  /\ PutOtherFirst
  /\ falsified' = Watcher
  /\ pc' = IF pc = "re-up" THEN "read" ELSE "falsified"
  /\ UNCHANGED <<loaded, wps, i, j, alphaVars,
                 upVars, markVars, hintVars, lineVars>>

FindUnit ==
  /\ Visiting
  /\ Unassigned(OtherFirst[1])
  /\ Replacements = {}
  /\ PutOtherFirst
  /\ SetUnit(OtherFirst[1], Watcher)
  /\ j' = j + 1
  /\ UNCHANGED <<loaded, wps, i, falsified, pc,
                 upVars, markVars, hintVars, lineVars>>

NextUnit ==
  /\ Propagating
  /\ j > Len(wps[FalsifiedLit])
  /\ i' = i + 1 /\ j' = 1
  /\ UNCHANGED <<clauses, loaded, wps, falsified, pc, alphaVars,
                 upVars, markVars, hintVars, lineVars>>

(* No conflict: a reduced clause is not refuted, which is an error.         *)
FinishUp ==
  /\ pc \in {"up", "re-up"} /\ i > Len(units)
  /\ global_up' = IF up_state = "GLOBAL_UP" THEN i ELSE global_up
  /\ pc' = CASE up_state = "RAT_UP"       -> "FATAL"
             [] up_state = "CANDIDATE_UP" -> IF Candidate = << >>
                                             THEN "FATAL" ELSE "rat"
             [] OTHER -> IF derived_empty_clause THEN "UNSAT"
                         ELSE IF loaded < Len(clauses) THEN "load" ELSE "read"
  /\ UNCHANGED <<clauses, loaded, wps, i, j, falsified, alphaVars, levelVars,
                 markVars, hintVars, lineVars>>

-----------------------------------------------------------------------------
(* A clause of the formula, or the clause a line has added, is watched.      *)

Adding == pc \in {"load", "add"}

Added == loaded + 1

AddUnit ==
  /\ Adding
  /\ AttachUnit(Added)
  /\ loaded' = Added
  /\ StartUp(global_up, "up")
  /\ UNCHANGED <<clauses, wps, falsified, upVars, markVars, hintVars, lineVars>>

(* The clause is false.  A longer one goes on to unit propagation.           *)
AddFalsified ==
  /\ Adding /\ NonFalse(Added) = {}
  /\ StoreRefutation(Added)
  /\ derived_empty_clause' = TRUE
  /\ loaded' = Added
  /\ IF Len(clauses[Added]) = 1
     THEN pc' = "UNSAT" /\ UNCHANGED <<i, j>>
     ELSE StartUp(global_up, "up")
  /\ UNCHANGED <<clauses, wps, falsified, alphaVars, upVars, markVars, lineVars>>

AddWatched ==
  /\ Adding
  /\ AttachWatched(Added)
  /\ loaded' = Added
  /\ StartUp(global_up, "up")
  /\ UNCHANGED <<falsified, upVars, markVars, hintVars, lineVars>>

RefuteFormula ==
  /\ pc = "falsified" /\ up_state = "GLOBAL_UP"
  /\ StoreRefutation(falsified)
  /\ derived_empty_clause' = TRUE
  /\ pc' = "UNSAT"
  /\ UNCHANGED <<clauses, loaded, wps, i, j, falsified, alphaVars,
                 upVars, markVars, lineVars>>

-----------------------------------------------------------------------------
(* An addition line: the negation of the candidate is assumed.              *)

ReadAddition ==
  /\ pc = "read" /\ lines < MaxLines
  /\ \E C \in Candidates :
       /\ \A c \in Live : ToSet(clauses[c]) # ToSet(C)
       /\ clauses' = Append(clauses, C)
       /\ AssumeCandidate(C)
       /\ IF RefutingClause(C) = 0
          THEN StartUp(candidate_assumed', "up") /\ UNCHANGED falsified
          ELSE /\ pc' = "falsified" /\ falsified' = RefutingClause(C)
               /\ UNCHANGED <<i, j>>
  /\ marks' = {} /\ hints' = << >> /\ rat_hints' = << >>
  /\ lines' = lines + 1
  /\ UNCHANGED <<loaded, wps, RAT_marked, global_up, RAT_assumed, RAT_unit,
                 derived_empty_clause, deleted, unassigned>>

RefuteCandidate ==
  /\ pc = "falsified" /\ up_state = "CANDIDATE_UP"
  /\ StoreRefutation(falsified)
  /\ pc' = "refuted"
  /\ UNCHANGED <<clauses, loaded, wps, i, j, falsified, alphaVars,
                 upVars, markVars, derived_empty_clause, lineVars>>

-----------------------------------------------------------------------------
(* A clause that the witness reduces: the negation of its image is assumed.
   Its group is named by the image.                                         *)

Reducing == pc = "rat" /\ Len(rat_hints) < MaxImages

ImageHolds ==
  /\ Reducing
  /\ \E D \in Images :
       /\ \/ SatisfiedByAssumption(D) /\ UNCHANGED marks
          \/ SatisfiedByUnit(D) /\ marks' = marks \cup MarksOfSatisfied(D)
       /\ rat_hints' = Append(rat_hints, Group(D, << >>))
  /\ UNCHANGED <<clauses, loaded, wps, i, j, falsified, pc, alphaVars, upVars,
                 markVars, hints, derived_empty_clause, lineVars>>

CheckImage ==
  /\ Reducing
  /\ \E D \in Images :
       AssumeImage(D) /\ rat_hints' = Append(rat_hints, Group(D, << >>))
  /\ StartUp(RAT_assumed', "up")
  /\ UNCHANGED <<clauses, loaded, wps, falsified, global_up, candidate_assumed,
                 candidate_unit, marks, hints, derived_empty_clause, lineVars>>

(* The units of this check are the hints of its group; the others are marked
   for the line.  Everything since the image was assumed is undone.          *)
RefuteImage ==
  /\ pc = "falsified" /\ up_state = "RAT_UP"
  /\ marks' = marks \cup RoundMarks
  /\ rat_hints' = [rat_hints EXCEPT ![Len(rat_hints)].hints = RoundHints]
  /\ UndoImage
  /\ pc' = "rat"
  /\ UNCHANGED <<clauses, loaded, wps, i, j, falsified, global_up, candidate_assumed,
                 candidate_unit, RAT_assumed, RAT_unit, hints,
                 derived_empty_clause, lineVars>>

PrintLine ==
  /\ pc = "rat"
  /\ marks' = MarkDependencies(marks, 1)
  /\ hints' = MarkedReasons(marks', 1)
  /\ pc' = "reduced"
  /\ UNCHANGED <<clauses, loaded, wps, i, j, falsified, alphaVars, upVars,
                 markVars, rat_hints, derived_empty_clause, lineVars>>

UnassumeCandidate ==
  /\ pc \in {"refuted", "reduced"}
  /\ UndoCandidate(Candidate)
  /\ pc' = "add"
  /\ UNCHANGED <<clauses, loaded, wps, i, j, falsified, RAT_marked, global_up,
                 candidate_assumed, candidate_unit, RAT_assumed, RAT_unit,
                 hintVars, lineVars>>

-----------------------------------------------------------------------------
(* A deletion line.                                                         *)

FirstVar(c) == VarOf(clauses[c][1])

(* The clause that implies a literal is kept, with the default options.     *)
IgnoreDeletion ==
  /\ pc = "read" /\ lines < MaxLines
  /\ \E c \in Live : IsVarSetDueToUp(FirstVar(c)) /\ ReasonOf(FirstVar(c)) = c
  /\ lines' = lines + 1
  /\ UNCHANGED <<clauses, deleted, loaded, wps, i, j, falsified, pc, alphaVars,
                 upVars, markVars, hintVars, unassigned>>

(* A clause without its watches is a fatal error.                           *)
Delete(c, to) ==
  /\ deleted' = deleted \cup {c}
  /\ \/ IsWatched(c) /\ Detach(c) /\ pc' = to
     \/ ~IsWatched(c) /\ pc' = "FATAL" /\ UNCHANGED wps

DeleteOther ==
  /\ pc = "read" /\ lines < MaxLines
  /\ \E c \in Live : ~IsVarSetDueToUp(FirstVar(c)) /\ Delete(c, "read")
  /\ lines' = lines + 1
  /\ UNCHANGED <<clauses, loaded, i, j, falsified, alphaVars,
                 upVars, markVars, hintVars, unassigned>>

(* The unit that makes the first literal of c true goes, whatever clause it
   came from.                                                               *)
DeleteAndUnassign ==
  /\ pc = "read" /\ lines < MaxLines
  /\ \E c \in Live :
       /\ IsVarSetDueToUp(FirstVar(c)) /\ ReasonOf(FirstVar(c)) # c
       /\ UnassignFrom(vars_unit_indexes[FirstVar(c)])
       /\ Delete(c, "re-up")
  /\ i' = global_up' /\ j' = 1
  /\ lines' = lines + 1
  /\ unassigned' = TRUE
  /\ UNCHANGED <<clauses, loaded, falsified, levelVars, markVars, hintVars>>

EndOfProof ==
  /\ pc = "read"
  /\ pc' = "VALID"
  /\ UNCHANGED <<clauses, loaded, wps, i, j, falsified, alphaVars, upVars,
                 markVars, hintVars, lineVars>>

Exited == pc \in {"VALID", "UNSAT", "FATAL"} /\ UNCHANGED vars

Next ==
  \/ SkipSatisfied \/ ReplaceWatch \/ FindConflict \/ FindUnit
  \/ NextUnit \/ FinishUp
  \/ AddUnit \/ AddFalsified \/ AddWatched \/ RefuteFormula
  \/ ReadAddition \/ RefuteCandidate
  \/ ImageHolds \/ CheckImage \/ RefuteImage
  \/ PrintLine \/ UnassumeCandidate
  \/ IgnoreDeletion \/ DeleteOther \/ DeleteAndUnassign
  \/ EndOfProof \/ Exited

Spec == Init /\ [][Next]_vars

-----------------------------------------------------------------------------
(* Properties.                                                              *)

(* Every unit of the formula was implied when it was set: its reason is a
   live clause whose first literal is the unit and whose other literals were
   false before it.  mark_unit_clause() skips the first literal and scans the
   units backwards once; a watch moved in a reason, a deletion that leaves a
   unit behind or a wrong index would have it cite clauses that do not
   propagate.                                                               *)
ReasonsOrdered == ReasonsIn(Live)

(* Checks leave nothing behind: what is true is what units holds; no literal
   is assumed between lines, nor an image's when the next one is read, and
   the candidate's own marks survive its images.  Marks of the candidate and
   of its images share one bit, and each level is undone from other data: by
   place in units, by the candidate's literals, or by a list of variables.   *)
AssumptionsUndone ==
  /\ alpha = {u.lit : u \in ToSet(units)}
  /\ pc \in {"load", "add", "read"} =>
       assumed = {} /\ \A u \in ToSet(units) : u.clause # 0
  /\ pc = "rat" =>
       assumed = {v \in Vars(ToSet(Candidate)) : vars_unit_indexes[v] > 0}

(* A live clause of two literals or more is watched once by each of its
   first two literals and by no other, and no other clause is watched (but
   the clause whose addition ended the proof, which may be false): so
   remove_wp_for_lit() finds what it removes, and unit propagation never
   reads a deleted clause.                                                  *)
WatchesAttached ==
  \A c \in 1..Len(clauses) :
    clauses[c] # << >> /\ ~(derived_empty_clause /\ c = loaded) => WatchedOnce(c, Live)

(* The hints of a printed line are accepted by the checker they are for: they
   refute the negation of the candidate, or they propagate, and then those of
   each group refute the negated image, unless it is already true.  The marks
   drop every unit that the conflict does not need and cut the derivation at
   literals that the candidate or the image makes false again, and RAT marks
   are completed for the whole line afterwards.                             *)
HintsRefute ==
  LET db == [c \in Live |-> ToSet(clauses[c])]
      A == Negated(ToSet(Candidate))
  IN  /\ derived_empty_clause => Refutes(db, {}, hints)
      /\ pc = "refuted" => Refutes(db, A, hints)
      /\ pc = "reduced" =>
           LET B == Propagate(db, A, hints)
           IN  /\ B # Refused
               /\ \A g \in ToSet(rat_hints) :
                    ImageRefuted(db, B, ToSet(g.clause), g.hints)

(* Unit propagation misses nothing: between lines, and when the images of a
   candidate are checked, every live clause has a true literal or two
   unassigned ones.  The watches moved for an earlier candidate, or for an
   image, are never moved back.                                             *)
PropagationComplete ==
  pc \in {"read", "rat"} /\ ~unassigned => \A c \in Live : Quiet(c)
=============================================================================
