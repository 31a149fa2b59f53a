------------------------------ MODULE ClauseDb ------------------------------
(***************************************************************************)
(* global_data.c: the clause database.  lits_db holds the literals of all   *)
(* clauses one after the other, and formula[i] is where clause i starts; its *)
(* sign bit marks the clause as deleted.  formula[formula_size] is where    *)
(* the clause being written starts.  Clause IDs are 0-based, as in the code. *)
(***************************************************************************)
EXTENDS Places

CONSTANTS
  Elt,         (* The literals.                                            *)
  MaxLits,     (* Bound: the literals in the database.                     *)
  MaxClauses,  (* Bound: the clauses in the formula.                       *)
  DELETION_GC_NUMER, DELETION_GC_DENOM

ASSUME ClauseDbAssumption ==
  /\ MaxLits \in Nat /\ MaxClauses \in Nat
  /\ DELETION_GC_NUMER \in Nat /\ DELETION_GC_DENOM \in Nat

VARIABLES
  lits_db,               (* The literals; lits_db_size is its length.      *)
  formula,               (* Offset and deletion bit of a clause.           *)
  formula_size,
  lits_db_deleted_size,
  gone                   (* History: the clauses deleted for good.         *)

vars == <<lits_db, formula, formula_size, lits_db_deleted_size, gone>>

Ids == 0..formula_size - 1

Entry(at, deleted) == [at |-> at, deleted |-> deleted]

CLAUSE_IDX(i) == formula[i].at

IS_DELETED_CLAUSE(i) == formula[i].deleted

(* get_clause_size().                                                       *)
ClauseEnd(i) == IF i = formula_size THEN Len(lits_db) ELSE CLAUSE_IDX(i + 1)

ClauseSize(i) == ClauseEnd(i) - CLAUSE_IDX(i)

ClauseAt(i) == SubSeq(lits_db, CLAUSE_IDX(i) + 1, ClauseEnd(i))
-----------------------------------------------------------------------------
Init ==
  /\ lits_db = << >>
  /\ formula = [i \in 0..MaxClauses |-> Entry(0, FALSE)]
  /\ formula_size = 0
  /\ lits_db_deleted_size = 0
  /\ gone = {}

InsertLit ==
  /\ Len(lits_db) < MaxLits
  /\ \E l \in Elt : lits_db' = Append(lits_db, l)
  /\ UNCHANGED <<formula, formula_size, lits_db_deleted_size, gone>>

(* lits_db_size -= new_clause_size, after a deletion line of a proof.       *)
DropNewClause ==
  /\ lits_db' = SubSeq(lits_db, 1, CLAUSE_IDX(formula_size))
  /\ UNCHANGED <<formula, formula_size, lits_db_deleted_size, gone>>

CommitClause ==
  /\ formula_size < MaxClauses
  /\ formula_size' = formula_size + 1
  /\ formula' = [formula EXCEPT ![formula_size + 1] = Entry(Len(lits_db), FALSE)]
  /\ UNCHANGED <<lits_db, lits_db_deleted_size, gone>>
-----------------------------------------------------------------------------
(***************************************************************************)
(* gc_lits_db(): the literals of live clauses, and those of the clause       *)
(* being written, move down over those of the deleted clauses, and the start *)
(* of every clause, deleted ones included, moves with them.                  *)
(***************************************************************************)
LitsOf(i) == CLAUSE_IDX(i) + 1..ClauseEnd(i)

(* Variant: the clause being written does not move.                         *)
KeptInClauses(dead) == 1..CLAUSE_IDX(formula_size) \ UNION {LitsOf(i) : i \in dead}

(* The places of the literals that are kept.                                *)
Kept(dead) == 1..Len(lits_db) \ UNION {LitsOf(i) : i \in dead}

(* Variant: a deleted clause that is followed by a live one keeps its offset. *)
StaleOffset(dead, i) ==
  IF i \in dead /\ i + 1 \notin dead THEN CLAUSE_IDX(i)
  ELSE UpTo(Kept(dead), CLAUSE_IDX(i))

MovedTo(dead, i) == UpTo(Kept(dead), CLAUSE_IDX(i))

KeptLits(dead) == AtPlaces(lits_db, Kept(dead))

Collected(dead) ==
  /\ lits_db' = KeptLits(dead)
  /\ formula' = [i \in DOMAIN formula |->
                   IF i <= formula_size THEN Entry(MovedTo(dead, i), i \in dead)
                   ELSE formula[i]]
  /\ lits_db_deleted_size' = 0

(* delete_clause(), of a clause in the formula.                             *)
DeleteClause ==
  \E i \in Ids :
    LET dead == {j \in Ids : IS_DELETED_CLAUSE(j)} \cup {i}
        deleted_size == lits_db_deleted_size + ClauseSize(i)
    IN  /\ ~IS_DELETED_CLAUSE(i)
        /\ \A j \in Ids \ gone : ~IS_DELETED_CLAUSE(j)
        /\ IF deleted_size * DELETION_GC_DENOM <= Len(lits_db) * DELETION_GC_NUMER
             THEN /\ formula' = [formula EXCEPT ![i] = Entry(@.at, TRUE)]
                  /\ lits_db_deleted_size' = deleted_size
                  /\ UNCHANGED lits_db
             ELSE Collected(dead)
        /\ gone' = gone \cup {i}
        /\ UNCHANGED formula_size

SetDeleted(i, deleted) ==
  /\ IS_DELETED_CLAUSE(i) # deleted
  /\ formula' = [formula EXCEPT ![i] = Entry(@.at, deleted)]
  /\ UNCHANGED <<lits_db, formula_size, lits_db_deleted_size, gone>>

SoftDeleteClause == \E i \in Ids : SetDeleted(i, TRUE)

SoftUndeleteClause == \E i \in Ids \ gone : SetDeleted(i, FALSE)

(* discard_formula_after_clause(): the next clause becomes the empty clause. *)
(* Its offset is read with its deletion bit, so it is not a deleted one.    *)
DiscardFormulaAfterClause ==
  \E i \in Ids :
    /\ ~IS_DELETED_CLAUSE(i + 1) /\ i + 2 <= MaxClauses
    /\ lits_db' = SubSeq(lits_db, 1, CLAUSE_IDX(i + 1))
    /\ formula_size' = i + 2
    /\ formula' = [formula EXCEPT ![i + 2] = Entry(CLAUSE_IDX(i + 1), FALSE)]
    /\ gone' = gone \cap 0..i
    /\ UNCHANGED lits_db_deleted_size

Next ==
  \/ InsertLit \/ DropNewClause \/ CommitClause \/ DeleteClause
  \/ SoftDeleteClause \/ SoftUndeleteClause \/ DiscardFormulaAfterClause

Spec == Init /\ [][Next]_vars
-----------------------------------------------------------------------------
(* The offsets of the clauses, deleted ones included, are in order and       *)
(* within the literals, also after a collection: the end of a clause is the *)
(* start of the next.                                                       *)
OffsetsOrdered ==
  /\ CLAUSE_IDX(0) = 0
  /\ \A i \in 0..formula_size : CLAUSE_IDX(i) <= ClauseEnd(i)
  /\ ~IS_DELETED_CLAUSE(formula_size)

(* Whatever is deleted, restored, collected and discarded, the other clauses *)
(* and the one being written keep their literals.                           *)
ClauseOf(i) ==
  IF i \in gone THEN [lits |-> << >>, status |-> "gone"]
  ELSE [lits |-> ClauseAt(i),
        status |-> IF IS_DELETED_CLAUSE(i) THEN "deleted" ELSE "live"]

Clauses == [n \in 1..formula_size |-> ClauseOf(n - 1)]

List == INSTANCE ClauseList WITH
  clauses <- Clauses, writing <- ClauseAt(formula_size)

Refinement == List!Spec
=============================================================================
