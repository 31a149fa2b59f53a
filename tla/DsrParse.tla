------------------------------ MODULE DsrParse ------------------------------
(***************************************************************************)
(* dsr-trim.c, in its default mode (backward checking, eager parsing), up   *)
(* to the end of the proof file: the CNF formula and the DSR proof are read  *)
(* into one clause database, a hash table finds the clause a deletion line  *)
(* names, and copies of a clause are counted, not stored.                   *)
(*                                                                         *)
(* A clause is the set of its literals, a clause ID is 1-based, and two      *)
(* clauses have the same hash only if they have the same literals (the      *)
(* literals are compared as well, so a collision changes nothing).          *)
(* lits_db is the contents of the clauses; the literals of a deleted clause *)
(* stay until the database is garbage collected.                            *)
(***************************************************************************)
EXTENDS Integers, Sequences, SequencesExt, FiniteSetsExt

CONSTANTS
  CnfClauses,    (* The clauses a CNF line may have.                       *)
  AddLines,      (* The addition lines of a proof: records of LineShape.   *)
  DelClauses,    (* The clauses a deletion line may name.                  *)
  MinCnf,        (* The sizes of the CNF formula, from its header.         *)
  MaxCnf,
  MaxLines,      (* Bound: the lines of the proof.                         *)
  WITNESS_TERM   (* The atom that ends a witness.                          *)

Tautology(C) == \E l \in C : -l \in C

LineShape(line) ==
  /\ line.clause = {} => line.pivot = 0 /\ line.atoms = << >>
  /\ line.clause # {} => line.pivot \in line.clause
  /\ line.atoms # << >> => line.atoms[1] = line.pivot

ASSUME ParseAssumption ==
  /\ MinCnf \in Nat \ {0} /\ MaxCnf \in Nat /\ MaxLines \in Nat
  /\ {} \notin CnfClauses /\ WITNESS_TERM \in Int
  /\ AddLines \subseteq [clause: SUBSET Int, pivot: Int, atoms: Seq(Int)]
  /\ \A line \in AddLines : LineShape(line)

VARIABLES
  pc,
  num_cnf_clauses,
  db,                    (* The clause database, see DB.                   *)
  next,                  (* The loop counter of prepare_dsr_trim_data().   *)
  clause_id_ht,          (* Entries: a clause ID, and the literals hashed. *)
  clause_mults,          (* The copies counted for a clause; 1 if none.    *)
  clauses_lui,           (* The line a clause is deleted before, or -1.    *)
  bcu_deletions,         (* Range i: the clauses deleted before line i.    *)
  witnesses,             (* Range i: the witness of line i.                *)
  num_parsed_add_lines,
  file                   (* History: the lines read so far.                *)

tables == <<clause_id_ht, clause_mults, clauses_lui, bcu_deletions>>
vars == <<pc, num_cnf_clauses, db, next, tables, witnesses,
          num_parsed_add_lines, file>>

MaxId == MaxCnf + MaxLines
Ids == 1..MaxId
UNUSED == -1

R == INSTANCE RangeArray
       WITH Elt <- Ids, MaxData <- MaxId, MaxRanges <- MaxId, ra <- witnesses
-----------------------------------------------------------------------------
(***************************************************************************)
(* The clause database.  stored[id] is the clause between the offsets of id *)
(* and id + 1.                                                              *)
(***************************************************************************)
EmptyDB == [stored |-> << >>, deleted |-> {}, lits_db_size |-> 0,
            lits_db_deleted_size |-> 0]

formula_size == Len(db.stored)

CommitClause(d, C) ==
  [d EXCEPT !.stored = Append(@, C), !.lits_db_size = @ + Cardinality(C)]

(* Variant: the collected literals stay counted as deleted.                 *)
GarbageKeptCounted(d) ==
  IF d.lits_db_deleted_size * 4 <= d.lits_db_size THEN d
  ELSE [d EXCEPT !.stored = [id \in DOMAIN d.stored |->
                               IF id \in d.deleted THEN {} ELSE d.stored[id]],
                 !.lits_db_size = @ - d.lits_db_deleted_size]

GarbageCollect(d) ==
  IF d.lits_db_deleted_size * 4 <= d.lits_db_size THEN d
  ELSE [stored |-> [id \in DOMAIN d.stored |->
                      IF id \in d.deleted THEN {} ELSE d.stored[id]],
        deleted |-> d.deleted,
        lits_db_size |-> d.lits_db_size - d.lits_db_deleted_size,
        lits_db_deleted_size |-> 0]

DeleteClause(d, id) ==
  GarbageCollect(
    [d EXCEPT !.deleted = @ \cup {id},
              !.lits_db_deleted_size = @ + Cardinality(d.stored[id])])
-----------------------------------------------------------------------------
(***************************************************************************)
(* The hash table.  The literals of an entry are those its clause has now.  *)
(***************************************************************************)
Matches(C) == {e \in clause_id_ht : e.hashed = C /\ db.stored[e.id] = C}

(* Only the literals of a clause in the database are compared without a     *)
(* check of its deletion bit: the comparison may read outside the database. *)
UnsafeRead(C, ids) == C # {} /\ ids \cap db.deleted # {}

Crash == pc' = "CRASH" /\ UNCHANGED <<num_cnf_clauses, db, next, tables, witnesses,
                                      num_parsed_add_lines>>

Fatal == pc' = "FATAL" /\ UNCHANGED <<num_cnf_clauses, db, next, tables, witnesses,
                                      num_parsed_add_lines>>

(* Variant: the clause is still there for the next line.                    *)
MarkDeletedAfter(id, line_num) ==
  clauses_lui' = [clauses_lui EXCEPT ![id] = line_num + 1]

MarkUserDeleted(id, line_num) ==
  clauses_lui' = [clauses_lui EXCEPT ![id] = line_num]

(* Variant: copies counted earlier are forgotten.                           *)
SecondCopy(id) == clause_mults' = [clause_mults EXCEPT ![id] = 2]

IncClauseMult(id) == clause_mults' = [clause_mults EXCEPT ![id] = @ + 1]

AddToTable(id, C) == clause_id_ht' = clause_id_ht \cup {[id |-> id, hashed |-> C]}
-----------------------------------------------------------------------------
Init ==
  /\ pc = "cnf"
  /\ num_cnf_clauses \in MinCnf..MaxCnf
  /\ db = EmptyDB
  /\ next = 1
  /\ clause_id_ht = {}
  /\ clause_mults = [id \in Ids |-> 1]
  /\ clauses_lui = [id \in Ids |-> UNUSED]
  /\ bcu_deletions = R!EmptyRA
  /\ witnesses = R!EmptyRA
  /\ num_parsed_add_lines = 0
  /\ file = << >>

CnfLine(C) == [type |-> "cnf", clause |-> C]

(* parse_cnf(): one clause.                                                 *)
CnfClause(C) ==
  /\ pc = "cnf" /\ formula_size < num_cnf_clauses
  /\ LET d == CommitClause(db, C)
     IN  db' = IF Tautology(C) THEN DeleteClause(d, Len(d.stored)) ELSE d
  /\ file' = Append(file, CnfLine(C))
  /\ UNCHANGED <<pc, num_cnf_clauses, next, tables, witnesses,
                 num_parsed_add_lines>>

(* prepare_dsr_trim_data(): a table with formula_size / 2 buckets.          *)
Prepare ==
  /\ pc = "cnf" /\ formula_size = num_cnf_clauses
  /\ IF formula_size \div 2 > 0
       THEN /\ pc' = "prepare"
            /\ UNCHANGED <<num_cnf_clauses, db, next, tables, witnesses,
                           num_parsed_add_lines>>
       ELSE Fatal
  /\ UNCHANGED file

(* add_formula_clause_to_ht(): a copy is deleted, and counted instead.      *)
AddFormulaClauseToHt ==
  /\ pc = "prepare" /\ next <= formula_size
  /\ LET C == db.stored[next]
         found == Matches(C)
     IN  \/ /\ found = {}
            /\ AddToTable(next, C)
            /\ next' = next + 1
            /\ UNCHANGED <<pc, num_cnf_clauses, db, clause_mults, clauses_lui,
                           bcu_deletions, witnesses, num_parsed_add_lines>>
         \/ \E e \in found :
              /\ next \notin db.deleted
              /\ db' = DeleteClause(db, next)
              /\ IncClauseMult(e.id)
              /\ MarkUserDeleted(next, 0)
              /\ next' = next + 1
              /\ UNCHANGED <<pc, num_cnf_clauses, clause_id_ht, bcu_deletions,
                             witnesses, num_parsed_add_lines>>
         \/ found # {} /\ next \in db.deleted /\ Fatal
         \/ \E e \in found : UnsafeRead(C, {next, e.id}) /\ Crash
  /\ UNCHANGED file

StartProof ==
  /\ pc = "prepare" /\ next > formula_size
  /\ pc' = "parse"
  /\ UNCHANGED <<num_cnf_clauses, db, next, tables, witnesses,
                 num_parsed_add_lines, file>>
-----------------------------------------------------------------------------
(***************************************************************************)
(* parse_dsr_line().                                                        *)
(***************************************************************************)
ReadLine(line) ==
  /\ pc = "parse"
  /\ Len(file) < num_cnf_clauses + MaxLines
  /\ file' = Append(file, line)

Deletion(C) == [type |-> "delete", clause |-> C]

Addition(line) ==
  [type |-> "add", clause |-> line.clause, pivot |-> line.pivot, atoms |-> line.atoms]

(* The parser stops at an empty clause, in a deletion line too.             *)
AfterLine(C) == pc' = IF C = {} THEN "parsed" ELSE "parse"

(* Variant: the entry of a deleted clause stays in the table.               *)
KeepInTable(e) == UNCHANGED clause_id_ht

RemoveFromTable(e) == clause_id_ht' = clause_id_ht \ {e}

(* One copy less.                                                           *)
DecClauseMult(C, e) ==
  /\ clause_mults[e.id] > 1
  /\ clause_mults' = [clause_mults EXCEPT ![e.id] = @ - 1]
  /\ AfterLine(C)
  /\ UNCHANGED <<num_cnf_clauses, db, next, clause_id_ht, clauses_lui,
                 bcu_deletions, witnesses, num_parsed_add_lines>>

(* The last copy: the clause itself is deleted before the next line.        *)
DeleteLastCopy(C, e) ==
  /\ clause_mults[e.id] = 1
  /\ RemoveFromTable(e)
  /\ bcu_deletions' = R!InsertElt(bcu_deletions, e.id)
  /\ MarkUserDeleted(e.id, num_parsed_add_lines)
  /\ AfterLine(C)
  /\ UNCHANGED <<num_cnf_clauses, db, next, clause_mults, witnesses,
                 num_parsed_add_lines>>

DeletionLine(C) ==
  /\ ReadLine(Deletion(C))
  /\ \/ Matches(C) = {} /\ Fatal
     \/ \E e \in Matches(C) :
          \/ DecClauseMult(C, e)
          \/ DeleteLastCopy(C, e)
          \/ UnsafeRead(C, {e.id}) /\ Crash

WitnessData(line) ==
  IF line.atoms # << >> THEN Append(line.atoms, WITNESS_TERM)
  ELSE IF line.clause # {} THEN <<line.pivot>>
  ELSE << >>

(* parse_sr_clause_and_witness(): the witness gets the next range.          *)
ParsedWitness(line) ==
  LET padded == R!CommitEmptyRangesUntil(witnesses, num_parsed_add_lines)
      written == [padded EXCEPT !.data = @ \o WitnessData(line)]
  IN  R!CommitRange(written)

TautologyLine(line) ==
  /\ ReadLine(Addition(line))
  /\ Tautology(line.clause)
  /\ Fatal

NewLine(line) ==
  /\ ReadLine(Addition(line))
  /\ ~Tautology(line.clause)
  /\ Matches(line.clause) = {}
  /\ witnesses' = ParsedWitness(line)
  /\ db' = CommitClause(db, line.clause)
  /\ AddToTable(formula_size + 1, line.clause)
  /\ bcu_deletions' = R!CommitRange(bcu_deletions)
  /\ num_parsed_add_lines' = num_parsed_add_lines + 1
  /\ AfterLine(line.clause)
  /\ UNCHANGED <<num_cnf_clauses, next, clause_mults, clauses_lui>>

(* Variant: the witness keeps the range it was committed to.                *)
KeptWitness(line) == ParsedWitness(line)

WitnessOfCopy(line) == R!UncommitRange(ParsedWitness(line))

(* The clause is already in the formula: nothing is added but a copy.       *)
CopyLine(line) ==
  /\ ReadLine(Addition(line))
  /\ ~Tautology(line.clause)
  /\ \E e \in Matches(line.clause) :
       IncClauseMult(e.id)
  /\ witnesses' = WitnessOfCopy(line)
  /\ AfterLine(line.clause)
  /\ UNCHANGED <<num_cnf_clauses, db, next, clause_id_ht, clauses_lui,
                 bcu_deletions, num_parsed_add_lines>>

EndOfFile ==
  /\ pc = "parse"
  /\ pc' = "parsed"
  /\ UNCHANGED <<num_cnf_clauses, db, next, tables, witnesses,
                 num_parsed_add_lines, file>>

Exited == pc \in {"parsed", "FATAL", "CRASH"} /\ UNCHANGED vars

Next ==
  \/ \E C \in CnfClauses : CnfClause(C)
  \/ Prepare \/ AddFormulaClauseToHt \/ StartProof
  \/ \E C \in DelClauses : DeletionLine(C)
  \/ \E line \in AddLines : TautologyLine(line) \/ NewLine(line) \/ CopyLine(line)
  \/ EndOfFile \/ Exited

Spec == Init /\ [][Next]_vars
-----------------------------------------------------------------------------
(***************************************************************************)
(* What the proof file means.  The formula is a bag of clauses; a line adds  *)
(* or removes one copy, and only a line that adds a first copy is a line of  *)
(* the proof.                                                               *)
(***************************************************************************)
TautologyInCnf == \E i \in DOMAIN file : file[i].type = "cnf" /\ Tautology(file[i].clause)

(* A tautology in the CNF formula is hashed although it is deleted; once it   *)
(* is collected it stands for the empty clause, and the file is not parsed   *)
(* as it is meant (see the README).                                         *)
Parsing == pc \in {"parse", "parsed"} /\ ~TautologyInCnf

Copies(C, n) ==
  Cardinality({i \in 1..n : /\ file[i].type # "delete" /\ file[i].clause = C
                            /\ ~Tautology(C)})
  - Cardinality({i \in 1..n : file[i].type = "delete" /\ file[i].clause = C})

FirstCopies(type) ==
  {i \in DOMAIN file : file[i].type = type /\ Copies(file[i].clause, i - 1) = 0}

ProofLines == FirstCopies("add")

LinesBefore(i) == Cardinality({j \in ProofLines : j < i})

IdOfLine(i) == num_cnf_clauses + LinesBefore(i) + 1

(* The lines that delete the last copy of the clause of line i.             *)
LastCopyDeletions(i) ==
  {j \in DOMAIN file : /\ j > i /\ file[j].type = "delete"
                       /\ file[j].clause = file[i].clause
                       /\ Copies(file[i].clause, j) = 0}

DeletedBefore(i) ==
  IF LastCopyDeletions(i) = {} THEN UNUSED
  ELSE LinesBefore(Min(LastCopyDeletions(i)))
-----------------------------------------------------------------------------
(* The sizes the garbage collector decides by are those of the literals in   *)
(* the database, of all of them and of the deleted ones.                    *)
SizesExact ==
  LET size(ids) == MapThenSumSet(LAMBDA id : Cardinality(db.stored[id]), ids)
  IN  /\ db.lits_db_size = size(DOMAIN db.stored)
      /\ db.lits_db_deleted_size = size(db.deleted)

(* The two hash tables together count the copies of every clause: those in   *)
(* the formula, plus those added, less those deleted, across any order of    *)
(* additions and deletions; a clause has one entry at most.                 *)
MultiplicityExact ==
  Parsing =>
    \A C \in {file[i].clause : i \in DOMAIN file} \ {{}} :
      /\ Cardinality(Matches(C)) <= 1
      /\ Matches(C) = {} => Copies(C, Len(file)) = 0
      /\ \A e \in Matches(C) : clause_mults[e.id] = Copies(C, Len(file))

(* The formula is the CNF formula and the first copies the proof adds, in    *)
(* order: a copy takes no ID and no line number.                            *)
FormulaOfProof ==
  Parsing =>
    /\ num_parsed_add_lines = Cardinality(ProofLines)
    /\ formula_size = num_cnf_clauses + num_parsed_add_lines
    /\ \A i \in ProofLines : db.stored[IdOfLine(i)] = file[i].clause

(* A clause is marked as deleted before a line if and only if the file       *)
(* deletes its last copy there, and the deletions of that line hold it; a    *)
(* copy in the CNF formula is unused from the start and in no deletion.      *)
DeletionsExact ==
  Parsing =>
    /\ \A i \in 1..num_cnf_clauses :
         clauses_lui[i] = IF i \in FirstCopies("cnf") THEN DeletedBefore(i) ELSE 0
    /\ \A i \in ProofLines : clauses_lui[IdOfLine(i)] = DeletedBefore(i)
    /\ \A n \in 0..num_parsed_add_lines :
         LET range == R!RangeAt(bcu_deletions, n)
         IN  /\ IsInjective(range)
             /\ {range[k] : k \in DOMAIN range} =
                  {i \in FirstCopies("cnf") : DeletedBefore(i) = n} \cup
                  {IdOfLine(i) : i \in {j \in ProofLines : DeletedBefore(j) = n}}

(* The parser gives up only on a line that deletes a clause the formula does *)
(* not have, or that adds a tautology; and on every formula of one clause,   *)
(* which asks for a hash table without buckets.                             *)
RefusalsJustified ==
  pc = "FATAL" /\ ~TautologyInCnf =>
    LET n == Len(file)
        line == file[n]
    IN  \/ num_cnf_clauses = 1
        \/ line.type = "delete" /\ Copies(line.clause, n - 1) = 0
        \/ line.type = "add" /\ Tautology(line.clause)

(* The witness of a line is in the range of that line, and nothing follows it.*)
WitnessKept ==
  Parsing =>
    \A i \in ProofLines : IsSuffix(WitnessData(file[i]),
                                   R!RangeAt(witnesses, LinesBefore(i)))
=============================================================================
