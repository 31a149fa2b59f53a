--------------------------- MODULE DsrParseProofs ---------------------------
(***************************************************************************)
(* The eager parser: the copies it counts, the formula, the deletions and    *)
(* the witnesses it stores are those of the file, for every formula and      *)
(* every proof.                                                             *)
(***************************************************************************)
EXTENDS DsrParse, NatSets, SequenceTheorems, TLAPS

(* The two range arrays, with the lemmas about their operators.              *)
DP == INSTANCE RangeArrayProofs
        WITH Elt <- Ids, MaxData <- MaxId, MaxRanges <- MaxId, ra <- bcu_deletions

WP == INSTANCE RangeArrayProofs
        WITH Elt <- Int, MaxData <- MaxId, MaxRanges <- MaxId, ra <- witnesses

-----------------------------------------------------------------------------
(***************************************************************************)
(* The inductive invariant.                                                 *)
(***************************************************************************)
Clause == CnfClauses \cup {line.clause : line \in AddLines} \cup {{}}

Named == Clause \cup DelClauses

Line ==
  {CnfLine(C) : C \in CnfClauses} \cup {Deletion(C) : C \in DelClauses}
    \cup {Addition(line) : line \in AddLines}

Reading == pc \in {"cnf", "prepare", "parse", "parsed"}

(* The lines whose clauses have been looked up in the table.                *)
Hashed == CASE pc = "cnf"     -> 0
            [] pc = "prepare" -> next - 1
            [] OTHER          -> Len(file)

(* The clauses that have been given to the table.                           *)
Entered == IF pc \in {"cnf", "prepare"} THEN Hashed ELSE formula_size

Shape ==
  /\ num_cnf_clauses \in Nat \ {0} /\ num_cnf_clauses <= MaxCnf
  /\ db = [stored |-> db.stored, deleted |-> db.deleted, lits_db_size |-> db.lits_db_size,
           lits_db_deleted_size |-> db.lits_db_deleted_size]
  /\ db.stored \in Seq(Clause)
  /\ next \in Nat \ {0}
  /\ clause_mults \in [Ids -> Nat] /\ clauses_lui \in [Ids -> Int]
  /\ num_parsed_add_lines \in Nat

(* How far the parser is, and the lines it has not refused.                  *)
Phases ==
  /\ pc \in {"cnf", "prepare"} =>
       /\ num_parsed_add_lines = 0
       /\ bcu_deletions = R!EmptyRA /\ witnesses = R!EmptyRA
  /\ pc = "cnf" => /\ formula_size = Len(file) /\ Len(file) <= num_cnf_clauses
                   /\ clause_id_ht = {} /\ next = 1
  /\ pc # "cnf" => /\ formula_size = num_cnf_clauses + num_parsed_add_lines
                   /\ formula_size <= Len(file) /\ Len(file) <= num_cnf_clauses + MaxLines
  /\ pc = "prepare" => Len(file) = num_cnf_clauses /\ next <= num_cnf_clauses + 1
  /\ \A i \in 1..Len(file) :
       /\ file[i].type = "cnf" <=> i <= num_cnf_clauses
       /\ file[i].type # "delete" => ~Tautology(file[i].clause)

(* An entry for each clause that has copies, with their number.              *)
Table ==
  /\ \A e \in clause_id_ht :
       /\ e.id \in 1..Entered /\ e.id \notin db.deleted /\ db.stored[e.id] = e.hashed
       /\ clause_mults[e.id] = Copies(e.hashed, Hashed) /\ Copies(e.hashed, Hashed) >= 1
  /\ \A e, f \in clause_id_ht : e.hashed = f.hashed => e = f
  /\ \A C \in Named : (\A e \in clause_id_ht : e.hashed # C) => Copies(C, Hashed) = 0
  /\ \A id \in Ids : id > Entered => clause_mults[id] = 1 /\ clauses_lui[id] = UNUSED

(* The lines that got a clause of their own, and its ID.                    *)
Firsts == {i \in 1..Hashed : file[i].type # "delete" /\ Copies(file[i].clause, i - 1) = 0}

IdOf(i) == IF i <= num_cnf_clauses THEN i ELSE IdOfLine(i)

EntryOf(i) == [id |-> IdOf(i), hashed |-> file[i].clause]

Stored ==
  /\ db.deleted \subseteq 1..num_cnf_clauses /\ \A id \in db.deleted : id <= Entered
  /\ \A i \in 1..Len(file) :
       i <= num_cnf_clauses /\ i \notin db.deleted => db.stored[i] = file[i].clause
  /\ \A i \in ProofLines : db.stored[IdOfLine(i)] = file[i].clause
  /\ num_parsed_add_lines = Cardinality(ProofLines)

(* A clause leaves the table at the deletion of its last copy, for good.     *)
DeletedOnce ==
  /\ \A e \in clause_id_ht : \E i \in Firsts : e = EntryOf(i)
  /\ \A i \in Firsts :
       /\ clauses_lui[IdOf(i)] = DeletedBefore(i)
       /\ EntryOf(i) \in clause_id_ht <=> LastCopyDeletions(i) = {}
  /\ \A i \in 1..Hashed : i <= num_cnf_clauses /\ i \notin Firsts => clauses_lui[i] = 0

Before(n) == {IdOf(i) : i \in {h \in Firsts : DeletedBefore(h) = n}}

Ranged ==
  /\ DP!Good(bcu_deletions) /\ bcu_deletions.indexes_size = num_parsed_add_lines
  /\ \A n \in 0..num_parsed_add_lines :
       LET range == DP!RangeAt(bcu_deletions, n)
       IN  IsInjective(range) /\ ToSet(range) = Before(n)

Witnessed ==
  /\ WP!Good(witnesses) /\ witnesses.indexes_size = num_parsed_add_lines
  /\ \A i \in ProofLines : IsSuffix(WitnessData(file[i]), WP!RangeAt(witnesses, LinesBefore(i)))

Refused ==
  LET n == Len(file)
  IN  \/ num_cnf_clauses = 1
      \/ /\ n >= 1
         /\ \/ file[n].type = "delete" /\ Copies(file[n].clause, n - 1) = 0
            \/ file[n].type = "add" /\ Tautology(file[n].clause)

Parsed == Shape /\ Phases /\ Table /\ Stored /\ DeletedOnce /\ Ranged /\ Witnessed

ParseInv ==
  /\ file \in Seq(Line)
  /\ pc \in {"cnf", "prepare", "parse", "parsed", "FATAL", "CRASH"}
  /\ ~TautologyInCnf => /\ Reading => Parsed
                        /\ pc = "FATAL" => Refused
                        /\ pc # "CRASH"

-----------------------------------------------------------------------------
(***************************************************************************)
(* The file.                                                                *)
(***************************************************************************)
LEMMA MaxIdType == MaxId \in Nat /\ MaxCnf \in Nat /\ MaxLines \in Nat /\ MaxId = MaxCnf + MaxLines
  BY ParseAssumption DEF MaxId

LEMMA LineFields ==
  ASSUME NEW x \in Line
  PROVE  /\ x.clause \in Named /\ x.type \in {"cnf", "delete", "add"}
         /\ x.type # "delete" => x.clause \in Clause
         /\ x.type = "add" => /\ x.clause \in SUBSET Int /\ x.pivot \in Int
                              /\ x.atoms \in Seq(Int)
<1>1. CASE \E C \in CnfClauses : x = CnfLine(C)
  BY <1>1 DEF CnfLine, Named, Clause
<1>2. CASE \E C \in DelClauses : x = Deletion(C)
  BY <1>2 DEF Deletion, Named, Clause
<1>3. CASE \E line \in AddLines : x = Addition(line)
  <2> PICK line \in AddLines : x = Addition(line)
    BY <1>3
  <2>1. /\ x.type = "add" /\ x.clause = line.clause /\ x.pivot = line.pivot
        /\ x.atoms = line.atoms
    BY DEF Addition
  <2>2. line \in [clause: SUBSET Int, pivot: Int, atoms: Seq(Int)]
    BY ParseAssumption
  <2>3. line.clause \in SUBSET Int /\ line.pivot \in Int /\ line.atoms \in Seq(Int)
    BY <2>2
  <2> QED
    BY <2>1, <2>3 DEF Named, Clause
<1> QED
  BY <1>1, <1>2, <1>3 DEF Line

LEMMA Lines ==
  ASSUME file \in Seq(Line)
  PROVE  /\ Len(file) \in Nat /\ DOMAIN file = 1..Len(file)
         /\ \A i \in 1..Len(file) : file[i] \in Line
  OBVIOUS

LEMMA Appending ==
  ASSUME file \in Seq(Line), NEW x \in Line, file' = Append(file, x)
  PROVE  /\ file' \in Seq(Line) /\ Len(file') = Len(file) + 1 /\ Len(file) \in Nat
         /\ file'[Len(file) + 1] = x
         /\ \A i \in 1..Len(file) : file'[i] = file[i]
  BY AppendProperties

(* One line more in a set of lines.                                         *)
LEMMA CountNext ==
  ASSUME NEW n \in Nat, NEW S \in SUBSET (1..n)
  PROVE  /\ IsFiniteSet(S) /\ Cardinality(S) \in Nat
         /\ IsFiniteSet(S \cup {n + 1}) /\ Cardinality(S \cup {n + 1}) = Cardinality(S) + 1
<1>1. IsFiniteSet(1..n)
  BY FS_Interval
<1>2. IsFiniteSet(S) /\ Cardinality(S) \in Nat
  BY <1>1, FS_Subset, FS_CardinalityType
<1>3. n + 1 \notin S
  OBVIOUS
<1> QED
  BY <1>2, <1>3, FS_AddElement

AddsOf(C, n) == {i \in 1..n : /\ file[i].type # "delete" /\ file[i].clause = C
                              /\ ~Tautology(C)}

DelsOf(C, n) == {i \in 1..n : file[i].type = "delete" /\ file[i].clause = C}

LEMMA CopiesAre ==
  \A C, n : Copies(C, n) = Cardinality(AddsOf(C, n)) - Cardinality(DelsOf(C, n))
BY DEF Copies, AddsOf, DelsOf

LEMMA CopiesNext ==
  ASSUME NEW C, NEW n \in Nat
  PROVE  /\ Copies(C, n) \in Int /\ Copies(C, 0) = 0
         /\ file[n + 1].clause # C => Copies(C, n + 1) = Copies(C, n)
         /\ file[n + 1].clause = C /\ file[n + 1].type = "delete" =>
              Copies(C, n + 1) = Copies(C, n) - 1
         /\ file[n + 1].clause = C /\ file[n + 1].type # "delete" /\ ~Tautology(C) =>
              Copies(C, n + 1) = Copies(C, n) + 1
<1> DEFINE a == Cardinality(AddsOf(C, n))
           d == Cardinality(DelsOf(C, n))
<1>1. AddsOf(C, n) \in SUBSET (1..n) /\ DelsOf(C, n) \in SUBSET (1..n)
  BY DEF AddsOf, DelsOf
<1>2. /\ a \in Nat /\ d \in Nat
      /\ Cardinality(AddsOf(C, n) \cup {n + 1}) = a + 1
      /\ Cardinality(DelsOf(C, n) \cup {n + 1}) = d + 1
  BY <1>1, CountNext
<1>3. /\ Copies(C, n) = a - d
      /\ Copies(C, n + 1) = Cardinality(AddsOf(C, n + 1)) - Cardinality(DelsOf(C, n + 1))
      /\ Copies(C, 0) = Cardinality(AddsOf(C, 0)) - Cardinality(DelsOf(C, 0))
  BY CopiesAre
<1>4. Copies(C, 0) = 0
  <2>1. AddsOf(C, 0) = {} /\ DelsOf(C, 0) = {}
    BY DEF AddsOf, DelsOf
  <2>2. Cardinality({}) = 0
    BY FS_EmptySet
  <2>3. Copies(C, 0) = 0 - 0
    BY <1>3, <2>1, <2>2
  <2> QED
    BY <2>3
<1>5. \A i \in 1..n + 1 : i \in 1..n \/ i = n + 1
  OBVIOUS
<1>6. n + 1 \in 1..n + 1 /\ 1..n \subseteq 1..n + 1
  OBVIOUS
<1>7. ASSUME file[n + 1].clause # C
      PROVE  AddsOf(C, n + 1) = AddsOf(C, n) /\ DelsOf(C, n + 1) = DelsOf(C, n)
  BY <1>5, <1>6, <1>7 DEF AddsOf, DelsOf
<1>8. ASSUME file[n + 1].clause = C, file[n + 1].type = "delete"
      PROVE  AddsOf(C, n + 1) = AddsOf(C, n) /\ DelsOf(C, n + 1) = DelsOf(C, n) \cup {n + 1}
  BY <1>5, <1>6, <1>8 DEF AddsOf, DelsOf
<1>9. ASSUME file[n + 1].clause = C, file[n + 1].type # "delete", ~Tautology(C)
      PROVE  AddsOf(C, n + 1) = AddsOf(C, n) \cup {n + 1} /\ DelsOf(C, n + 1) = DelsOf(C, n)
  BY <1>5, <1>6, <1>9 DEF AddsOf, DelsOf
<1> HIDE DEF a, d
<1>10. Copies(C, n) \in Int
  BY <1>2, <1>3
<1>11. file[n + 1].clause # C => Copies(C, n + 1) = Copies(C, n)
  BY <1>3, <1>7 DEF a, d
<1>12. file[n + 1].clause = C /\ file[n + 1].type = "delete" =>
         Copies(C, n + 1) = Copies(C, n) - 1
  <2> SUFFICES ASSUME file[n + 1].clause = C, file[n + 1].type = "delete"
               PROVE  Copies(C, n + 1) = Copies(C, n) - 1
    OBVIOUS
  <2>1. Copies(C, n + 1) = a - (d + 1)
    BY <1>2, <1>3, <1>8 DEF a, d
  <2> QED
    BY <1>2, <1>3, <2>1
<1>13. file[n + 1].clause = C /\ file[n + 1].type # "delete" /\ ~Tautology(C) =>
         Copies(C, n + 1) = Copies(C, n) + 1
  <2> SUFFICES ASSUME file[n + 1].clause = C, file[n + 1].type # "delete", ~Tautology(C)
               PROVE  Copies(C, n + 1) = Copies(C, n) + 1
    OBVIOUS
  <2>1. Copies(C, n + 1) = (a + 1) - d
    BY <1>2, <1>3, <1>9 DEF a, d
  <2> QED
    BY <1>2, <1>3, <2>1
<1> QED
  BY <1>4, <1>10, <1>11, <1>12, <1>13

CopiesStep(C, n) ==
  /\ file[n + 1].clause # C => Copies(C, n + 1) = Copies(C, n)
  /\ file[n + 1].clause = C /\ file[n + 1].type = "delete" =>
       Copies(C, n + 1) = Copies(C, n) - 1
  /\ file[n + 1].clause = C /\ file[n + 1].type # "delete" /\ ~Tautology(C) =>
       Copies(C, n + 1) = Copies(C, n) + 1

LEMMA CopiesStepped == \A D : \A n \in Nat : CopiesStep(D, n)
BY CopiesNext DEF CopiesStep

LEMMA CopiesSteppedNext == (\A D : \A n \in Nat : CopiesStep(D, n))'
BY CopiesStepped, PTL

(* The file of the next state says the same of the lines read before.        *)
SameLines(n) == \A i \in 1..n : file'[i] = file[i]

LEMMA CopiesKept ==
  ASSUME NEW n \in Nat, SameLines(n), NEW C, NEW k \in 0..n
  PROVE  Copies(C, k)' = Copies(C, k)
<1>1. 1..k \subseteq 1..n
  OBVIOUS
<1>2. AddsOf(C, k)' = AddsOf(C, k) /\ DelsOf(C, k)' = DelsOf(C, k)
  BY <1>1 DEF SameLines, AddsOf, DelsOf
<1>3. Copies(C, k)' = (Cardinality(AddsOf(C, k)) - Cardinality(DelsOf(C, k)))'
  BY DEF Copies, AddsOf, DelsOf
<1> QED
  BY <1>2, <1>3, CopiesAre

(***************************************************************************)
(* The lines of the proof.                                                  *)
(***************************************************************************)
LEMMA ProofLineFacts ==
  ASSUME file \in Seq(Line)
  PROVE  /\ ProofLines \subseteq 1..Len(file) /\ IsFiniteSet(ProofLines)
         /\ Cardinality(ProofLines) \in Nat
         /\ \A i \in ProofLines : file[i].type = "add" /\ Copies(file[i].clause, i - 1) = 0
         /\ \A i \in Nat : /\ LinesBefore(i) \in Nat
                           /\ LinesBefore(i) <= Cardinality(ProofLines)
                           /\ i > Len(file) => LinesBefore(i) = Cardinality(ProofLines)
         /\ \A i \in ProofLines : LinesBefore(i) < Cardinality(ProofLines)
         /\ \A i, k \in ProofLines : i < k => LinesBefore(i) < LinesBefore(k)
<1>1. /\ ProofLines \subseteq 1..Len(file) /\ Len(file) \in Nat
      /\ \A i \in ProofLines : file[i].type = "add" /\ Copies(file[i].clause, i - 1) = 0
  BY Lines DEF ProofLines, FirstCopies
<1>2. IsFiniteSet(ProofLines) /\ Cardinality(ProofLines) \in Nat
  <2>1. IsFiniteSet(1..Len(file))
    BY <1>1, FS_Interval
  <2> QED
    BY <1>1, <2>1, FS_Subset, FS_CardinalityType
<1> DEFINE B(i) == {j \in ProofLines : j < i}
<1>3. \A i : LinesBefore(i) = Cardinality(B(i))
  BY DEF LinesBefore
<1>4. ASSUME NEW i
      PROVE  /\ IsFiniteSet(B(i)) /\ Cardinality(B(i)) \in Nat
             /\ Cardinality(B(i)) <= Cardinality(ProofLines)
  <2>1. B(i) \subseteq ProofLines
    OBVIOUS
  <2> QED
    BY <1>2, <2>1, FS_Subset, FS_CardinalityType
<1>5. ASSUME NEW i \in Nat, i > Len(file) PROVE B(i) = ProofLines
  <2>1. \A j \in 1..Len(file) : j < i
    BY <1>1, <1>5
  <2> QED
    BY <1>1, <2>1
<1>6. ASSUME NEW i \in ProofLines, NEW S, IsFiniteSet(S), B(i) \cup {i} \subseteq S
      PROVE  Cardinality(B(i)) < Cardinality(S)
  <2>1. i \notin B(i)
    BY <1>1
  <2>2. /\ IsFiniteSet(B(i) \cup {i})
        /\ Cardinality(B(i) \cup {i}) = Cardinality(B(i)) + 1
    BY <1>4, <2>1, FS_AddElement
  <2>3. Cardinality(B(i) \cup {i}) <= Cardinality(S) /\ Cardinality(S) \in Nat
    BY <1>6, FS_Subset, FS_CardinalityType
  <2>4. Cardinality(B(i)) \in Nat
    BY <1>4
  <2> HIDE DEF B
  <2> QED
    BY <2>2, <2>3, <2>4
<1>7. ASSUME NEW i \in ProofLines PROVE Cardinality(B(i)) < Cardinality(ProofLines)
  <2>1. B(i) \cup {i} \subseteq ProofLines
    OBVIOUS
  <2> QED
    BY <1>2, <1>6, <2>1
<1>8. ASSUME NEW i \in ProofLines, NEW k \in ProofLines, i < k
      PROVE  Cardinality(B(i)) < Cardinality(B(k))
  <2>1. i \in Nat /\ k \in Nat /\ ProofLines \subseteq Nat
    BY <1>1
  <2>2. \A j \in Nat : j < i => j < k
    BY <1>8, <2>1
  <2>3. B(i) \cup {i} \subseteq B(k)
    BY <1>8, <2>1, <2>2
  <2> QED
    BY <1>4, <1>6, <2>3
<1> HIDE DEF B
<1> QED
  BY <1>1, <1>2, <1>3, <1>4, <1>5, <1>7, <1>8

(* A line more.                                                             *)
LEMMA LinesNext ==
  ASSUME file \in Seq(Line), NEW x \in Line, file' = Append(file, x)
  PROVE  /\ SameLines(Len(file))
         /\ ProofLines' = IF x.type = "add" /\ Copies(x.clause, Len(file)) = 0
                          THEN ProofLines \cup {Len(file) + 1} ELSE ProofLines
         /\ \A i \in 0..Len(file) + 1 : LinesBefore(i)' = LinesBefore(i)
<1> PICK n \in Nat : n = Len(file)
  BY Lines
<1>1. /\ file' \in Seq(Line) /\ Len(file') = n + 1 /\ file'[n + 1] = x
      /\ \A i \in 1..n : file'[i] = file[i]
      /\ DOMAIN file' = 1..n + 1 /\ DOMAIN file = 1..n
  BY Appending, Lines
<1>2. SameLines(n)
  BY <1>1 DEF SameLines
<1>3. ASSUME NEW i \in 1..n
      PROVE  Copies(file[i].clause, i - 1)' = Copies(file[i].clause, i - 1)
  <2> PICK k \in 0..n : k = i - 1
    OBVIOUS
  <2> PICK C : C = file[i].clause
    OBVIOUS
  <2>1. Copies(C, k)' = Copies(C, k)
    BY <1>2, CopiesKept
  <2> QED
    BY <1>1, <2>1
<1>4. Copies(file[n + 1].clause, n)' = Copies(x.clause, n)
  <2> PICK C : C = x.clause
    OBVIOUS
  <2>1. Copies(C, n)' = Copies(C, n)
    BY <1>2, CopiesKept
  <2> QED
    BY <1>1, <2>1
<1>5. ProofLines' = {i \in 1..n + 1 : file'[i].type = "add" /\ Copies(file[i].clause, i - 1)' = 0}
  BY <1>1 DEF ProofLines, FirstCopies
<1>6. ProofLines = {i \in 1..n : file[i].type = "add" /\ Copies(file[i].clause, i - 1) = 0}
  BY <1>1 DEF ProofLines, FirstCopies
<1>7. (n + 1) - 1 = n /\ \A i \in 1..n + 1 : i \in 1..n \/ i = n + 1
  OBVIOUS
<1>8. ASSUME NEW i
      PROVE  i \in ProofLines' <=>
               i \in ProofLines \/ (i = n + 1 /\ x.type = "add" /\ Copies(x.clause, n) = 0)
  <2>1. CASE i \in 1..n
    BY <1>1, <1>3, <1>5, <1>6, <2>1
  <2>2. CASE i = n + 1
    BY <1>1, <1>4, <1>5, <1>6, <1>7, <2>2
  <2>3. CASE i \notin 1..n + 1
    BY <1>5, <1>6, <2>3
  <2> QED
    BY <1>7, <2>1, <2>2, <2>3
<1>9. ProofLines' = IF x.type = "add" /\ Copies(x.clause, n) = 0
                    THEN ProofLines \cup {n + 1} ELSE ProofLines
  BY <1>8
<1>10. ASSUME NEW i \in 0..n + 1 PROVE LinesBefore(i)' = LinesBefore(i)
  <2>1. {j \in ProofLines' : j < i} = {j \in ProofLines : j < i}
    BY <1>9
  <2> QED
    BY <2>1 DEF LinesBefore
<1> QED
  BY <1>2, <1>9, <1>10

(* The deletions of last copies, with a line more.                          *)
LEMMA LastNext ==
  ASSUME file \in Seq(Line), NEW x \in Line, file' = Append(file, x),
         NEW i \in 1..Len(file), NEW n \in Nat, n = Len(file)
  PROVE  LastCopyDeletions(i)' =
           IF x.type = "delete" /\ x.clause = file[i].clause /\ Copies(x.clause, n + 1)' = 0
           THEN LastCopyDeletions(i) \cup {n + 1} ELSE LastCopyDeletions(i)
<1>1. /\ file' \in Seq(Line) /\ Len(file') = n + 1 /\ file'[n + 1] = x
      /\ \A k \in 1..n : file'[k] = file[k]
      /\ DOMAIN file' = 1..n + 1 /\ DOMAIN file = 1..n /\ i \in 1..n
  BY Appending, Lines
<1> PICK C : C = file[i].clause
  OBVIOUS
<1>2. ASSUME NEW k \in 1..n PROVE Copies(C, k)' = Copies(C, k)
  BY <1>1, CopiesKept DEF SameLines
<1>3. \A k : k \in LastCopyDeletions(i) <=>
        k \in 1..n /\ k > i /\ file[k].type = "delete" /\ file[k].clause = C /\ Copies(C, k) = 0
  BY <1>1 DEF LastCopyDeletions
<1>4. \A k : k \in LastCopyDeletions(i)' <=>
        k \in 1..n + 1 /\ k > i /\ file'[k].type = "delete" /\ file'[k].clause = C
          /\ Copies(C, k)' = 0
  BY <1>1 DEF LastCopyDeletions
<1>5. ASSUME NEW k
      PROVE  k \in LastCopyDeletions(i)' <=>
               \/ k \in LastCopyDeletions(i)
               \/ k = n + 1 /\ x.type = "delete" /\ x.clause = C /\ Copies(C, n + 1)' = 0
  <2>1. CASE k \in 1..n
    BY <1>1, <1>2, <1>3, <1>4, <2>1
  <2>2. CASE k = n + 1
    <3>1. k > i /\ k \in 1..n + 1 /\ k \notin 1..n
      BY <2>2
    <3> QED
      BY <1>1, <1>3, <1>4, <2>2, <3>1
  <2>3. CASE k \notin 1..n + 1
    BY <1>3, <1>4, <2>3
  <2>4. \A m \in 1..n + 1 : m \in 1..n \/ m = n + 1
    OBVIOUS
  <2> QED
    BY <2>1, <2>2, <2>3, <2>4
<1>6. LastCopyDeletions(i)' =
        IF x.type = "delete" /\ x.clause = C /\ Copies(C, n + 1)' = 0
        THEN LastCopyDeletions(i) \cup {n + 1} ELSE LastCopyDeletions(i)
  BY <1>5
<1>7. x.clause = C => Copies(x.clause, n + 1)' = Copies(C, n + 1)'
  OBVIOUS
<1> QED
  BY <1>6, <1>7

(***************************************************************************)
(* The lines that are done, and the next one.                               *)
(***************************************************************************)
LEMMA Context ==
  ASSUME file \in Seq(Line), Reading, Parsed
  PROVE  /\ Len(file) \in Nat /\ num_cnf_clauses \in Nat \ {0} /\ MaxId \in Nat
         /\ formula_size \in Nat /\ formula_size <= MaxId
         /\ Hashed \in Nat /\ Hashed <= Len(file)
         /\ Entered \in Nat /\ Entered <= formula_size /\ Entered <= MaxId
         /\ num_parsed_add_lines \in Nat
         /\ pc # "cnf" => /\ formula_size = num_cnf_clauses + num_parsed_add_lines
                          /\ num_cnf_clauses <= Len(file)
         /\ pc \in {"parse", "parsed"} => Hashed = Len(file) /\ Entered = formula_size
         /\ pc = "prepare" => /\ Len(file) = num_cnf_clauses /\ Hashed = next - 1
                              /\ Entered = Hashed /\ num_parsed_add_lines = 0
<1>1. /\ Len(file) \in Nat /\ MaxId \in Nat /\ MaxId = MaxCnf + MaxLines
      /\ MaxCnf \in Nat /\ MaxLines \in Nat
  BY Lines, MaxIdType
<1>2. /\ num_cnf_clauses \in Nat \ {0} /\ num_cnf_clauses <= MaxCnf /\ next \in Nat \ {0}
      /\ num_parsed_add_lines \in Nat /\ db.stored \in Seq(Clause)
  BY DEF Parsed, Shape
<1>3. formula_size \in Nat
  BY <1>2 DEF formula_size
<1>4. CASE pc = "cnf"
  BY <1>1, <1>2, <1>3, <1>4 DEF Parsed, Phases, Hashed, Entered
<1>5. CASE pc = "prepare"
  BY <1>1, <1>2, <1>3, <1>5 DEF Parsed, Phases, Hashed, Entered
<1>6. CASE pc \in {"parse", "parsed"}
  BY <1>1, <1>2, <1>3, <1>6 DEF Parsed, Phases, Hashed, Entered
<1> QED
  BY <1>4, <1>5, <1>6 DEF Reading

LEMMA FirstFacts ==
  ASSUME file \in Seq(Line), Reading, Parsed
  PROVE  /\ \A i \in Firsts :
              /\ i \in 1..Hashed /\ i \in Nat /\ IdOf(i) \in 1..Entered /\ IdOf(i) \in Ids
              /\ file[i].type # "delete" /\ Copies(file[i].clause, i - 1) = 0
              /\ i > num_cnf_clauses => i \in ProofLines
         /\ \A i, k \in Firsts : IdOf(i) = IdOf(k) => i = k
<1>1. /\ Len(file) \in Nat /\ num_cnf_clauses \in Nat \ {0} /\ Hashed \in Nat
      /\ Hashed <= Len(file) /\ Entered \in Nat /\ Entered <= MaxId /\ MaxId \in Nat
  BY Context
<1>2. /\ Cardinality(ProofLines) = num_parsed_add_lines
      /\ \A i \in ProofLines : LinesBefore(i) \in Nat /\ LinesBefore(i) < Cardinality(ProofLines)
      /\ \A i, k \in ProofLines : i < k => LinesBefore(i) < LinesBefore(k)
  <2>1. ProofLines \subseteq Nat
    BY ProofLineFacts
  <2> QED
    BY <2>1, ProofLineFacts DEF Parsed, Stored
<1>3. ASSUME NEW i \in Firsts
      PROVE  /\ i \in 1..Hashed /\ i \in Nat /\ IdOf(i) \in 1..Entered /\ IdOf(i) \in Ids
             /\ file[i].type # "delete" /\ Copies(file[i].clause, i - 1) = 0
             /\ i > num_cnf_clauses =>
                  /\ i \in ProofLines /\ IdOf(i) = num_cnf_clauses + LinesBefore(i) + 1
                  /\ IdOf(i) > num_cnf_clauses
             /\ i <= num_cnf_clauses => IdOf(i) = i
  <2>1. /\ i \in 1..Hashed /\ file[i].type # "delete" /\ Copies(file[i].clause, i - 1) = 0
        /\ i \in 1..Len(file) /\ i \in Nat
    BY <1>1 DEF Firsts
  <2>2. CASE i <= num_cnf_clauses
    <3>1. IdOf(i) = i
      BY <2>2 DEF IdOf
    <3>2. i <= Entered
      <4>1. CASE pc \in {"cnf", "prepare"}
        BY <2>1, <4>1 DEF Entered
      <4>2. CASE pc \notin {"cnf", "prepare"}
        <5>1. Entered = num_cnf_clauses + num_parsed_add_lines /\ num_parsed_add_lines \in Nat
          BY <4>2, Context DEF Entered, Reading
        <5> QED
          BY <1>1, <2>1, <2>2, <5>1
      <4> QED
        BY <4>1, <4>2
    <3>3. i \in 1..Entered /\ i \in Ids
      BY <1>1, <2>1, <3>2 DEF Ids
    <3> QED
      BY <1>1, <2>1, <2>2, <3>1, <3>3
  <2>3. CASE i > num_cnf_clauses
    <3>1. file[i].type = "add"
      <4>1. file[i] \in Line
        BY <2>1, Lines
      <4>2. file[i].type # "cnf"
        BY <1>1, <2>1, <2>3 DEF Parsed, Phases
      <4> QED
        BY <2>1, <4>1, <4>2, LineFields
    <3>2. i \in ProofLines
      BY <2>1, <3>1, Lines DEF ProofLines, FirstCopies
    <3>3. IdOf(i) = num_cnf_clauses + LinesBefore(i) + 1
      BY <1>1, <2>1, <2>3 DEF IdOf, IdOfLine
    <3>4. pc \notin {"cnf", "prepare"}
      <4>1. pc = "cnf" => Hashed = 0
        BY DEF Hashed
      <4>2. pc = "prepare" => Len(file) = num_cnf_clauses
        BY Context
      <4> QED
        BY <1>1, <2>1, <2>3, <4>1, <4>2
    <3>5. Entered = num_cnf_clauses + num_parsed_add_lines /\ num_parsed_add_lines \in Nat
      BY <3>4, Context DEF Entered, Reading
    <3>6. LinesBefore(i) \in Nat /\ LinesBefore(i) < num_parsed_add_lines
      BY <1>2, <3>2
    <3>7. IdOf(i) \in 1..Entered /\ IdOf(i) > num_cnf_clauses
      BY <1>1, <3>3, <3>5, <3>6
    <3>8. IdOf(i) \in Ids
      BY <1>1, <3>7 DEF Ids
    <3> QED
      BY <1>1, <2>1, <2>3, <3>2, <3>3, <3>7, <3>8
  <2> QED
    BY <1>1, <2>1, <2>2, <2>3
<1>4. ASSUME NEW i \in Firsts, NEW k \in Firsts, i # k PROVE IdOf(i) # IdOf(k)
  <2>1. CASE i <= num_cnf_clauses \/ k <= num_cnf_clauses
    BY <1>1, <1>3, <1>4, <2>1
  <2>2. CASE i > num_cnf_clauses /\ k > num_cnf_clauses
    <3>1. /\ IdOf(i) = num_cnf_clauses + LinesBefore(i) + 1 /\ LinesBefore(i) \in Nat
          /\ IdOf(k) = num_cnf_clauses + LinesBefore(k) + 1 /\ LinesBefore(k) \in Nat
          /\ i \in ProofLines /\ k \in ProofLines
      BY <1>2, <1>3, <2>2
    <3>2. i < k \/ k < i
      BY <1>3, <1>4
    <3>3. LinesBefore(i) # LinesBefore(k)
      BY <1>2, <3>1, <3>2
    <3> QED
      BY <1>1, <3>1, <3>3
  <2> QED
    BY <1>1, <1>3, <2>1, <2>2
<1> QED
  BY <1>3, <1>4

(* The line x is the next one: the parser looks up its clause.               *)
NextLine(x, H) ==
  /\ H = Hashed /\ Hashed' = H + 1 /\ x \in Line /\ file'[H + 1] = x
  /\ UNCHANGED num_cnf_clauses
  /\ \/ pc = "prepare" /\ pc' = "prepare" /\ file' = file /\ H + 1 <= num_cnf_clauses
     \/ pc = "parse" /\ pc' \in {"parse", "parsed"} /\ file' = Append(file, x)

LEMMA Advance ==
  ASSUME file \in Seq(Line), Reading, Parsed, NEW x, NEW H, NextLine(x, H)
  PROVE  /\ H \in Nat /\ SameLines(H) /\ file' \in Seq(Line) /\ file'[H + 1] = x
         /\ H + 1 <= Len(file') /\ x \in Line
         /\ \A i \in 0..H + 1 : LinesBefore(i)' = LinesBefore(i)
         /\ \A C : \A i \in 0..H : Copies(C, i)' = Copies(C, i)
         /\ ProofLines' = IF x.type = "add" /\ Copies(x.clause, H) = 0
                          THEN ProofLines \cup {H + 1} ELSE ProofLines
         /\ pc = "prepare" => x.type = "cnf"
         /\ pc = "parse" => H = Len(file) /\ num_cnf_clauses <= H
<1>1. /\ H \in Nat /\ Len(file) \in Nat /\ num_cnf_clauses \in Nat /\ H = Hashed
      /\ H <= Len(file)
  BY Context DEF NextLine
<1>2. CASE pc = "prepare"
  <2>1. file' = file /\ Len(file) = num_cnf_clauses /\ H + 1 \in 1..Len(file)
    BY <1>1, <1>2, Context DEF NextLine
  <2>2. x.type = "cnf"
    BY <2>1 DEF NextLine, Parsed, Phases
  <2>3. ProofLines' = ProofLines /\ \A i : LinesBefore(i)' = LinesBefore(i)
    BY <2>1 DEF ProofLines, FirstCopies, Copies, LinesBefore
  <2>4. SameLines(H)
    BY <2>1 DEF SameLines
  <2>5. \A C : \A i \in 0..H : Copies(C, i)' = Copies(C, i)
    BY <1>1, <2>4, CopiesKept
  <2> QED
    BY <1>1, <1>2, <2>1, <2>2, <2>3, <2>4, <2>5 DEF NextLine
<1>3. CASE pc = "parse"
  <2>1. /\ H = Len(file) /\ file' = Append(file, x) /\ x \in Line /\ num_cnf_clauses <= Len(file)
    BY <1>1, <1>3, Context DEF NextLine
  <2>2. file' \in Seq(Line) /\ Len(file') = H + 1 /\ file'[H + 1] = x
    BY <2>1, Appending
  <2>3. /\ SameLines(H)
        /\ ProofLines' = IF x.type = "add" /\ Copies(x.clause, H) = 0
                         THEN ProofLines \cup {H + 1} ELSE ProofLines
        /\ \A i \in 0..H + 1 : LinesBefore(i)' = LinesBefore(i)
    BY <2>1, LinesNext
  <2>4. \A C : \A i \in 0..H : Copies(C, i)' = Copies(C, i)
    BY <1>1, <2>3, CopiesKept
  <2> QED
    BY <1>1, <1>3, <2>1, <2>2, <2>3, <2>4
<1> QED
  BY <1>2, <1>3 DEF NextLine

(* What the next line adds to what is said of the file.                      *)
LEMMA NextCopies ==
  ASSUME file \in Seq(Line), Reading, Parsed, NEW x, NEW H, NextLine(x, H), NEW C
  PROVE  /\ Copies(C, H) \in Int
         /\ x.clause # C => Copies(C, H + 1)' = Copies(C, H)
         /\ x.clause = C /\ x.type = "delete" => Copies(C, H + 1)' = Copies(C, H) - 1
         /\ x.clause = C /\ x.type # "delete" /\ ~Tautology(C) =>
              Copies(C, H + 1)' = Copies(C, H) + 1
<1>1. /\ H \in Nat /\ file'[H + 1] = x /\ Copies(C, H)' = Copies(C, H)
  <2>1. H \in Nat /\ file'[H + 1] = x /\ \A i \in 0..H : Copies(C, i)' = Copies(C, i)
    BY Advance
  <2> QED
    BY <2>1
<1>2. Copies(C, H) \in Int
  BY <1>1, CopiesNext
<1>3. (\A D : \A n \in Nat : CopiesStep(D, n))'
  BY CopiesSteppedNext
<1>4. CopiesStep(C, H)'
  BY <1>1, <1>3
<1>5. (/\ file[H + 1].clause # C => Copies(C, H + 1) = Copies(C, H)
       /\ file[H + 1].clause = C /\ file[H + 1].type = "delete" =>
            Copies(C, H + 1) = Copies(C, H) - 1
       /\ file[H + 1].clause = C /\ file[H + 1].type # "delete" /\ ~Tautology(C) =>
            Copies(C, H + 1) = Copies(C, H) + 1)'
  BY <1>4 DEF CopiesStep
<1> QED
  BY <1>1, <1>2, <1>5

LEMMA NextFirst ==
  ASSUME file \in Seq(Line), Reading, Parsed, NEW x, NEW H, NextLine(x, H)
  PROVE  /\ Firsts' = IF x.type # "delete" /\ Copies(x.clause, H) = 0
                      THEN Firsts \cup {H + 1} ELSE Firsts
         /\ Firsts \subseteq 1..H
         /\ \A i \in 1..H : IdOf(i)' = IdOf(i) /\ EntryOf(i)' = EntryOf(i)
         /\ (H + 1 <= num_cnf_clauses => IdOf(H + 1)' = H + 1)
         /\ (H + 1 > num_cnf_clauses => IdOf(H + 1)' = num_cnf_clauses + num_parsed_add_lines + 1)
<1>1. /\ H \in Nat /\ file' \in Seq(Line) /\ file'[H + 1] = x /\ H + 1 <= Len(file')
      /\ \A i \in 1..H : file'[i] = file[i]
      /\ \A i \in 0..H + 1 : LinesBefore(i)' = LinesBefore(i)
      /\ \A C : \A i \in 0..H : Copies(C, i)' = Copies(C, i)
      /\ H = Hashed /\ Hashed' = H + 1 /\ num_cnf_clauses' = num_cnf_clauses
      /\ num_cnf_clauses \in Nat
  BY Advance, Context DEF NextLine, SameLines
<1>2. ASSUME NEW i \in 1..H
      PROVE  Copies(file[i].clause, i - 1)' = Copies(file[i].clause, i - 1)
  <2> PICK k \in 0..H : k = i - 1
    BY <1>1
  <2> PICK C : C = file[i].clause
    OBVIOUS
  <2>1. Copies(C, k)' = Copies(C, k)
    BY <1>1
  <2> QED
    BY <1>1, <2>1
<1>3. Copies(file[H + 1].clause, H)' = Copies(x.clause, H)
  <2> PICK C : C = x.clause
    OBVIOUS
  <2>1. Copies(C, H)' = Copies(C, H)
    BY <1>1
  <2> QED
    BY <1>1, <2>1
<1>4. /\ Firsts' = {i \in 1..H + 1 : file'[i].type # "delete" /\ Copies(file[i].clause, i - 1)' = 0}
      /\ Firsts = {i \in 1..H : file[i].type # "delete" /\ Copies(file[i].clause, i - 1) = 0}
  BY <1>1 DEF Firsts
<1>5. ASSUME NEW i
      PROVE  i \in Firsts' <=>
               i \in Firsts \/ (i = H + 1 /\ x.type # "delete" /\ Copies(x.clause, H) = 0)
  <2>1. CASE i \in 1..H
    BY <1>1, <1>2, <1>4, <2>1
  <2>2. CASE i = H + 1
    <3>1. i \in 1..H + 1 /\ i \notin 1..H /\ i - 1 = H
      BY <1>1, <2>2
    <3>2. Copies(file[i].clause, i - 1)' = Copies(x.clause, H)
      BY <1>3, <2>2, <3>1
    <3> QED
      BY <1>1, <1>4, <2>2, <3>1, <3>2
  <2>3. CASE i \notin 1..H + 1
    BY <1>1, <1>4, <2>3
  <2>4. \A k \in 1..H + 1 : k \in 1..H \/ k = H + 1
    BY <1>1
  <2> QED
    BY <2>1, <2>2, <2>3, <2>4
<1>6. ASSUME NEW i \in 1..H PROVE IdOf(i)' = IdOf(i) /\ EntryOf(i)' = EntryOf(i)
  <2>1. LinesBefore(i)' = LinesBefore(i) /\ file'[i] = file[i]
    BY <1>1
  <2>2. IdOf(i)' = IdOf(i)
    BY <1>1, <2>1 DEF IdOf, IdOfLine
  <2> QED
    BY <2>1, <2>2 DEF EntryOf
<1>7. H + 1 <= num_cnf_clauses => IdOf(H + 1)' = H + 1
  BY <1>1 DEF IdOf
<1>8. H + 1 > num_cnf_clauses => IdOf(H + 1)' = num_cnf_clauses + num_parsed_add_lines + 1
  <2> SUFFICES ASSUME H + 1 > num_cnf_clauses
               PROVE  IdOf(H + 1)' = num_cnf_clauses + num_parsed_add_lines + 1
    OBVIOUS
  <2>1. pc = "parse"
    BY <1>1 DEF NextLine
  <2>2. H = Len(file)
    BY <2>1, Advance
  <2>3. H + 1 \in Nat /\ H + 1 > Len(file)
    BY <1>1, <2>2
  <2>4. LinesBefore(H + 1) = Cardinality(ProofLines)
    BY <2>3, ProofLineFacts
  <2>5. LinesBefore(H + 1)' = num_parsed_add_lines
    BY <1>1, <2>4 DEF Parsed, Stored
  <2>6. ~(H + 1 <= num_cnf_clauses)
    BY <1>1
  <2>7. IdOf(H + 1)' = num_cnf_clauses' + LinesBefore(H + 1)' + 1
    BY <1>1, <2>6 DEF IdOf, IdOfLine
  <2> QED
    BY <1>1, <2>5, <2>7
<1>9. Firsts \subseteq 1..H
  BY <1>4
<1> QED
  BY <1>5, <1>6, <1>7, <1>8, <1>9

(* When the next line deletes a last copy, that counts for the line that got *)
(* the clause its ID, unless an earlier line has deleted it.                 *)
LastOf(x, H) == x.type = "delete" /\ Copies(x.clause, H) = 1

LEMMA NextDeleted ==
  ASSUME file \in Seq(Line), Reading, Parsed, NEW x, NEW H, NextLine(x, H),
         NEW i \in 1..H
  PROVE  /\ LastCopyDeletions(i)' = {} <=>
              LastCopyDeletions(i) = {} /\ ~(LastOf(x, H) /\ x.clause = file[i].clause)
         /\ DeletedBefore(i)' =
              IF LastCopyDeletions(i) = {} /\ LastOf(x, H) /\ x.clause = file[i].clause
              THEN num_parsed_add_lines ELSE DeletedBefore(i)
         /\ DeletedBefore(i) \in Int /\ DeletedBefore(i) <= num_parsed_add_lines
         /\ LastCopyDeletions(i) = {} <=> DeletedBefore(i) = UNUSED
<1>1. /\ H \in Nat /\ file' \in Seq(Line) /\ file'[H + 1] = x /\ x \in Line
      /\ \A k \in 1..H : file'[k] = file[k]
      /\ \A k \in 0..H + 1 : LinesBefore(k)' = LinesBefore(k)
      /\ Len(file) \in Nat /\ num_parsed_add_lines \in Nat
      /\ Cardinality(ProofLines) = num_parsed_add_lines
      /\ H <= Len(file)
  BY Advance, Context DEF NextLine, SameLines, Parsed, Stored
<1> PICK C : C = file[i].clause
  OBVIOUS
<1>2. LastCopyDeletions(i) \subseteq Nat /\ \A k \in LastCopyDeletions(i) : k \in 1..Len(file)
  BY Lines DEF LastCopyDeletions
<1>3. ASSUME NEW k \in Nat
      PROVE  LinesBefore(k) \in Nat /\ LinesBefore(k) <= num_parsed_add_lines
  BY <1>1, ProofLineFacts
<1>4. LastCopyDeletions(i) # {} =>
        /\ Min(LastCopyDeletions(i)) \in LastCopyDeletions(i)
        /\ \A k \in LastCopyDeletions(i) : Min(LastCopyDeletions(i)) <= k
  BY <1>2, MinExists
<1>5. /\ DeletedBefore(i) \in Int /\ DeletedBefore(i) <= num_parsed_add_lines
      /\ LastCopyDeletions(i) = {} <=> DeletedBefore(i) = UNUSED
  <2>1. CASE LastCopyDeletions(i) = {}
    <3>1. DeletedBefore(i) = -1
      BY <2>1 DEF DeletedBefore, UNUSED
    <3> QED
      BY <1>1, <2>1, <3>1 DEF UNUSED
  <2>2. CASE LastCopyDeletions(i) # {}
    <3>1. DeletedBefore(i) = LinesBefore(Min(LastCopyDeletions(i)))
      BY <2>2 DEF DeletedBefore
    <3>2. DeletedBefore(i) \in Nat /\ DeletedBefore(i) <= num_parsed_add_lines
      BY <1>2, <1>3, <1>4, <2>2, <3>1
    <3> QED
      BY <2>2, <3>2 DEF UNUSED
  <2> QED
    BY <2>1, <2>2
<1>6. CASE pc = "prepare"
  <2>1. file' = file /\ x.type = "cnf"
    BY <1>6, Advance DEF NextLine
  <2>2. LastCopyDeletions(i)' = LastCopyDeletions(i) /\ DeletedBefore(i)' = DeletedBefore(i)
    BY <2>1 DEF LastCopyDeletions, DeletedBefore, Copies, LinesBefore, ProofLines, FirstCopies
  <2> QED
    BY <1>5, <2>1, <2>2 DEF LastOf
<1>7. CASE pc = "parse"
  <2> DEFINE last == x.type = "delete" /\ x.clause = C /\ Copies(x.clause, H + 1)' = 0
  <2>1. H = Len(file) /\ file' = Append(file, x) /\ i \in 1..Len(file)
    BY <1>1, <1>7, Advance DEF NextLine
  <2>2. LastCopyDeletions(i)' = IF last THEN LastCopyDeletions(i) \cup {H + 1}
                                ELSE LastCopyDeletions(i)
    BY <1>1, <2>1, LastNext
  <2>3. last <=> LastOf(x, H) /\ x.clause = C
    <3>1. /\ x.type = "delete" /\ x.clause = C => Copies(C, H + 1)' = Copies(C, H) - 1
          /\ Copies(C, H) \in Int
      BY NextCopies
    <3> QED
      BY <3>1 DEF LastOf
  <2> HIDE DEF last
  <2>4. CASE ~last
    <3>1. LastCopyDeletions(i)' = LastCopyDeletions(i)
      BY <2>2, <2>4
    <3>2. LastCopyDeletions(i) # {} => Min(LastCopyDeletions(i)) \in 1..H
      BY <1>2, <1>4, <2>1
    <3>3. DeletedBefore(i)' = DeletedBefore(i)
      <4> PICK m : m = Min(LastCopyDeletions(i))
        OBVIOUS
      <4>1. LastCopyDeletions(i) # {} => LinesBefore(m)' = LinesBefore(m)
        BY <1>1, <3>2
      <4>2. Min(LastCopyDeletions(i))' = m
        BY <3>1
      <4> QED
        BY <3>1, <4>1, <4>2 DEF DeletedBefore
    <3> QED
      BY <1>5, <2>3, <2>4, <3>1, <3>3
  <2>5. CASE last
    <3>1. LastCopyDeletions(i)' = LastCopyDeletions(i) \cup {H + 1}
      BY <2>2, <2>5
    <3> PICK D : D = LastCopyDeletions(i)
      OBVIOUS
    <3> PICK m : m = Min(D \cup {H + 1})
      OBVIOUS
    <3>2. m \in D \cup {H + 1} /\ \A k \in D \cup {H + 1} : m <= k
      <4>1. D \cup {H + 1} \in SUBSET Nat /\ D \cup {H + 1} # {}
        BY <1>1, <1>2
      <4> QED
        BY <4>1, MinExists
    <3>3. DeletedBefore(i)' = LinesBefore(m)'
      BY <3>1 DEF DeletedBefore
    <3>4. LinesBefore(H + 1) = num_parsed_add_lines /\ LinesBefore(H + 1)' = LinesBefore(H + 1)
      <4>1. H + 1 \in Nat /\ H + 1 > Len(file)
        BY <1>1, <2>1
      <4> QED
        BY <1>1, <4>1, ProofLineFacts
    <3>5. CASE D = {}
      BY <1>5, <2>3, <2>5, <3>1, <3>2, <3>3, <3>4, <3>5
    <3>6. CASE D # {}
      <4>1. Min(D) \in D /\ \A k \in D : Min(D) <= k
        BY <1>4, <3>6
      <4>2. \A k \in D : k \in 1..H /\ k \in Nat
        BY <1>2, <2>1
      <4>3. m = Min(D)
        <5>0. PICK n : n = Min(D)
          OBVIOUS
        <5>1. m <= n /\ n \in 1..H /\ (\A k \in D : n <= k) /\ n \in D
          BY <3>2, <4>1, <4>2, <5>0
        <5>2. m # H + 1
          BY ONLY <1>1, <5>1
        <5>3. m \in D /\ m \in Nat
          BY <3>2, <4>2, <5>2
        <5> QED
          BY ONLY <1>1, <5>0, <5>1, <5>3
      <4>4. LinesBefore(m)' = LinesBefore(m)
        BY <1>1, <4>1, <4>2, <4>3
      <4>5. DeletedBefore(i) = LinesBefore(m)
        BY <3>6, <4>3 DEF DeletedBefore
      <4> QED
        BY <1>5, <3>1, <3>3, <3>6, <4>4, <4>5
    <3> QED
      BY <3>5, <3>6
  <2> QED
    BY <2>4, <2>5
<1> QED
  BY <1>6, <1>7 DEF NextLine

-----------------------------------------------------------------------------
(***************************************************************************)
(* The table.                                                               *)
(***************************************************************************)
LEMMA EntryFacts ==
  ASSUME file \in Seq(Line), Reading, Parsed
  PROVE  /\ \A e \in clause_id_ht :
              /\ e.id \in 1..Entered /\ e.id \in Ids /\ e.id \in Nat /\ e.id <= Entered
              /\ e.id \notin db.deleted /\ db.stored[e.id] = e.hashed
              /\ clause_mults[e.id] = Copies(e.hashed, Hashed)
              /\ clause_mults[e.id] \in Nat /\ clause_mults[e.id] >= 1
         /\ \A e, f \in clause_id_ht : e.hashed = f.hashed \/ e.id = f.id => e = f
         /\ \A C : Matches(C) = {e \in clause_id_ht : e.hashed = C}
<1>1. Entered \in Nat /\ Entered <= MaxId /\ MaxId \in Nat
  BY Context
<1>2. ASSUME NEW e \in clause_id_ht
      PROVE  /\ e.id \in 1..Entered /\ e.id \in Ids /\ e.id \in Nat /\ e.id <= Entered
             /\ e.id \notin db.deleted /\ db.stored[e.id] = e.hashed
             /\ clause_mults[e.id] = Copies(e.hashed, Hashed)
             /\ clause_mults[e.id] \in Nat /\ clause_mults[e.id] >= 1
  <2>1. /\ e.id \in 1..Entered /\ e.id \notin db.deleted /\ db.stored[e.id] = e.hashed
        /\ clause_mults[e.id] = Copies(e.hashed, Hashed) /\ Copies(e.hashed, Hashed) >= 1
    BY DEF Parsed, Table
  <2>2. e.id \in Ids /\ e.id \in Nat /\ e.id <= Entered
    BY <1>1, <2>1 DEF Ids
  <2>3. clause_mults[e.id] \in Nat
    BY <2>2 DEF Parsed, Shape
  <2> QED
    BY <2>1, <2>2, <2>3
<1>3. ASSUME NEW e \in clause_id_ht, NEW f \in clause_id_ht, e.hashed = f.hashed \/ e.id = f.id
      PROVE  e = f
  <2>1. e.hashed = f.hashed
    BY <1>2, <1>3
  <2> QED
    BY <2>1 DEF Parsed, Table
<1>4. ASSUME NEW C PROVE Matches(C) = {e \in clause_id_ht : e.hashed = C}
  BY <1>2 DEF Matches
<1> QED
  BY <1>2, <1>3, <1>4

LEMMA ClauseNamed ==
  ASSUME NEW x, NEW H, NextLine(x, H)
  PROVE  x.clause \in Named
  BY LineFields DEF NextLine

(* What a step does to the clauses that have been looked up.                 *)
Kept ==
  /\ Entered' \in Nat /\ Entered <= Entered'
  /\ \A k \in 1..Entered : /\ k \in db.deleted' <=> k \in db.deleted
                           /\ k \notin db.deleted => db.stored'[k] = db.stored[k]

(* The four things the parser does with a line it accepts.                   *)
Entering(x, id) ==
  /\ x.type # "delete" /\ ~Tautology(x.clause)
  /\ \A e \in clause_id_ht : e.hashed # x.clause
  /\ AddToTable(id, x.clause)
  /\ id = Entered + 1 /\ Entered' = id /\ id \in Ids
  /\ id \notin db.deleted' /\ db.stored'[id] = x.clause
  /\ UNCHANGED <<clause_mults, clauses_lui>>

Counting(x, H, e) ==
  /\ x.type # "delete" /\ ~Tautology(x.clause)
  /\ e \in clause_id_ht /\ e.hashed = x.clause
  /\ IncClauseMult(e.id)
  /\ pc = "prepare" => Entered' = H + 1 /\ H = Entered /\ H + 1 \in Ids /\ MarkUserDeleted(H + 1, 0)
  /\ pc = "parse" => Entered' = Entered /\ UNCHANGED clauses_lui
  /\ UNCHANGED clause_id_ht

Uncounting(x, e) ==
  /\ x.type = "delete" /\ e \in clause_id_ht /\ e.hashed = x.clause
  /\ clause_mults[e.id] > 1
  /\ clause_mults' = [clause_mults EXCEPT ![e.id] = @ - 1]
  /\ Entered' = Entered
  /\ UNCHANGED <<clause_id_ht, clauses_lui>>

Forgetting(x, e) ==
  /\ x.type = "delete" /\ e \in clause_id_ht /\ e.hashed = x.clause
  /\ clause_mults[e.id] = 1
  /\ RemoveFromTable(e)
  /\ MarkUserDeleted(e.id, num_parsed_add_lines)
  /\ Entered' = Entered
  /\ UNCHANGED clause_mults

LEMMA TableEntering ==
  ASSUME file \in Seq(Line), Reading, Parsed, NEW x, NEW H, NextLine(x, H), Kept,
         NEW id, Entering(x, id)
  PROVE  Table'
<1> DEFINE new == [id |-> id, hashed |-> x.clause]
<1>1. /\ H = Hashed /\ Hashed' = H + 1 /\ Entered \in Nat /\ Entered' = id /\ id = Entered + 1
      /\ id \in Ids /\ clause_id_ht' = clause_id_ht \cup {new}
      /\ clause_mults' = clause_mults /\ clauses_lui' = clauses_lui
      /\ x.clause \in Named
  BY Context, ClauseNamed DEF NextLine, Entering, AddToTable
<1>2. Copies(x.clause, H) = 0
  BY <1>1 DEF Entering, Parsed, Table
<1>3. ASSUME NEW C, C # x.clause PROVE Copies(C, H + 1)' = Copies(C, H)
  BY <1>3, NextCopies
<1>4. ASSUME NEW C, C = x.clause PROVE Copies(C, H + 1)' = 1
  <2>1. Copies(C, H + 1)' = Copies(C, H) + 1
    BY <1>4, NextCopies DEF Entering
  <2> QED
    BY <1>2, <1>4, <2>1
<1>5. ASSUME NEW e \in clause_id_ht
      PROVE  /\ e.id \in 1..id /\ e.id \notin db.deleted' /\ db.stored'[e.id] = e.hashed
             /\ clause_mults'[e.id] = Copies(e.hashed, H + 1)' /\ Copies(e.hashed, H + 1)' >= 1
             /\ e.hashed # x.clause
  <2>1. /\ e.id \in 1..Entered /\ e.id \notin db.deleted /\ db.stored[e.id] = e.hashed
        /\ clause_mults[e.id] = Copies(e.hashed, H) /\ clause_mults[e.id] >= 1
    BY <1>1, EntryFacts
  <2>2. e.hashed # x.clause
    BY DEF Entering
  <2>3. Copies(e.hashed, H + 1)' = Copies(e.hashed, H)
    <3> PICK C : C = e.hashed
      OBVIOUS
    <3>1. Copies(C, H + 1)' = Copies(C, H)
      BY <1>3, <2>2
    <3> QED
      BY <3>1
  <2>4. e.id \notin db.deleted' /\ db.stored'[e.id] = e.hashed
    BY <2>1 DEF Kept
  <2>5. e.id \in 1..id
    BY <1>1, <2>1
  <2> QED
    BY <1>1, <2>1, <2>2, <2>3, <2>4, <2>5
<1>6. /\ new.id = id /\ new.hashed = x.clause
      /\ id \in 1..id /\ id \notin db.deleted' /\ db.stored'[id] = x.clause
      /\ clause_mults'[id] = Copies(x.clause, H + 1)' /\ Copies(x.clause, H + 1)' = 1
  <2>1. clause_mults[id] = 1
    <3>1. id > Entered
      BY <1>1
    <3> QED
      BY <1>1, <3>1 DEF Parsed, Table
  <2>2. Copies(x.clause, H + 1)' = 1
    <3> PICK C : C = x.clause
      OBVIOUS
    <3>1. Copies(C, H + 1)' = 1
      BY <1>4
    <3>2. x' = x
      OBVIOUS
    <3> QED
      BY <3>1, <3>2
  <2> QED
    BY <1>1, <2>1, <2>2 DEF Entering
<1> HIDE DEF new
<1>7. ASSUME NEW e \in clause_id_ht'
      PROVE  /\ e.id \in 1..id /\ e.id \notin db.deleted' /\ db.stored'[e.id] = e.hashed
             /\ clause_mults'[e.id] = Copies(e.hashed, H + 1)' /\ Copies(e.hashed, H + 1)' >= 1
  <2>1. CASE e \in clause_id_ht
    BY <1>5, <2>1
  <2>2. CASE e = new
    BY <1>6, <2>2
  <2> QED
    BY <1>1, <2>1, <2>2
<1>8. ASSUME NEW e \in clause_id_ht', NEW f \in clause_id_ht', e.hashed = f.hashed PROVE e = f
  <2>1. CASE e \in clause_id_ht /\ f \in clause_id_ht
    BY <1>8, <2>1, EntryFacts
  <2>2. CASE e = new \/ f = new
    BY <1>1, <1>5, <1>6, <1>8, <2>2
  <2> QED
    BY <1>1, <2>1, <2>2
<1>9. ASSUME NEW C \in Named', \A e \in clause_id_ht' : e.hashed # C
      PROVE  Copies(C, H + 1)' = 0
  <2>1. C \in Named /\ C # x.clause /\ \A e \in clause_id_ht : e.hashed # C
    BY <1>1, <1>6, <1>9 DEF Named, Clause
  <2>2. Copies(C, H) = 0
    BY <1>1, <2>1 DEF Parsed, Table
  <2>3. Copies(C, H + 1)' = Copies(C, H)
    BY <1>3, <2>1
  <2> QED
    BY <2>2, <2>3
<1>10. ASSUME NEW k \in Ids, k > id
       PROVE  clause_mults'[k] = 1 /\ clauses_lui'[k] = UNUSED
  <2>1. k > Entered
    BY <1>1, <1>10 DEF Ids
  <2> QED
    BY <1>1, <2>1 DEF Parsed, Table
<1>11. Ids' = Ids
  BY DEF Ids, MaxId
<1> QED
  BY <1>1, <1>7, <1>8, <1>9, <1>10, <1>11 DEF Table, UNUSED

LEMMA TableCounting ==
  ASSUME file \in Seq(Line), Reading, Parsed, NEW x, NEW H, NextLine(x, H), Kept,
         NEW a, Counting(x, H, a)
  PROVE  Table'
<1>1. /\ H = Hashed /\ Hashed' = H + 1 /\ Entered \in Nat /\ Entered' \in Nat
      /\ Entered <= Entered' /\ clause_id_ht' = clause_id_ht
      /\ clause_mults' = [clause_mults EXCEPT ![a.id] = @ + 1]
      /\ a \in clause_id_ht /\ a.hashed = x.clause /\ a.id \in Ids /\ a.id <= Entered
      /\ x.type # "delete" /\ ~Tautology(x.clause)
      /\ pc \in {"prepare", "parse"}
  BY Context, EntryFacts DEF NextLine, Counting, Kept, IncClauseMult
<1>2. clause_mults \in [Ids -> Nat] /\ clauses_lui \in [Ids -> Int] /\ Ids \subseteq Nat
  BY DEF Parsed, Shape, Ids
<1>3. /\ clause_mults'[a.id] = clause_mults[a.id] + 1
      /\ \A k \in Ids : k # a.id => clause_mults'[k] = clause_mults[k]
  BY <1>1, <1>2
<1>4. ASSUME NEW C
      PROVE  /\ Copies(C, H) \in Int
             /\ Copies(C, H + 1)' = IF C = x.clause THEN Copies(C, H) + 1 ELSE Copies(C, H)
  BY <1>1, NextCopies
<1>5. ASSUME NEW e \in clause_id_ht'
      PROVE  /\ e.id \in 1..Entered' /\ e.id \notin db.deleted' /\ db.stored'[e.id] = e.hashed
             /\ clause_mults'[e.id] = Copies(e.hashed, H + 1)' /\ Copies(e.hashed, H + 1)' >= 1
  <2>1. /\ e \in clause_id_ht /\ e.id \in 1..Entered /\ e.id \in Ids /\ e.id \notin db.deleted
        /\ db.stored[e.id] = e.hashed
        /\ clause_mults[e.id] = Copies(e.hashed, H) /\ clause_mults[e.id] >= 1
        /\ clause_mults[e.id] \in Nat
    BY <1>1, EntryFacts
  <2>2. e.id \notin db.deleted' /\ db.stored'[e.id] = e.hashed
    BY <2>1 DEF Kept
  <2>3. e.id \in 1..Entered'
    BY <1>1, <2>1
  <2>4. e.hashed = x.clause <=> e.id = a.id
    BY <1>1, <2>1, EntryFacts
  <2>5. Copies(e.hashed, H + 1)' = IF e.hashed = x.clause THEN Copies(e.hashed, H) + 1
                                   ELSE Copies(e.hashed, H)
    <3> PICK C : C = e.hashed
      OBVIOUS
    <3>1. Copies(C, H + 1)' = IF C = x.clause THEN Copies(C, H) + 1 ELSE Copies(C, H)
      BY <1>4
    <3> QED
      BY <3>1
  <2>6. CASE e.id = a.id
    BY <1>3, <2>1, <2>2, <2>3, <2>4, <2>5, <2>6
  <2>7. CASE e.id # a.id
    BY <1>3, <2>1, <2>2, <2>3, <2>4, <2>5, <2>7
  <2> QED
    BY <2>6, <2>7
<1>6. ASSUME NEW C \in Named', \A e \in clause_id_ht' : e.hashed # C
      PROVE  Copies(C, H + 1)' = 0
  <2>1. C \in Named /\ C # x.clause /\ \A e \in clause_id_ht : e.hashed # C
    BY <1>1, <1>6 DEF Named, Clause
  <2>2. Copies(C, H) = 0
    BY <1>1, <2>1 DEF Parsed, Table
  <2> QED
    BY <1>4, <2>1, <2>2
<1>7. ASSUME NEW k \in Ids, k > Entered'
      PROVE  clause_mults'[k] = 1 /\ clauses_lui'[k] = UNUSED
  <2>1. k > Entered /\ k # a.id
    BY <1>1, <1>2, <1>7
  <2>2. clause_mults[k] = 1 /\ clauses_lui[k] = UNUSED
    BY <2>1 DEF Parsed, Table
  <2>3. clauses_lui'[k] = clauses_lui[k]
    <3>1. CASE pc = "prepare"
      <4>1. clauses_lui' = [clauses_lui EXCEPT ![H + 1] = 0] /\ H + 1 = Entered'
        BY <3>1 DEF Counting, MarkUserDeleted
      <4>2. k # H + 1
        BY <1>1, <1>2, <1>7, <4>1
      <4> QED
        BY <1>2, <4>1, <4>2
    <3>2. CASE pc = "parse"
      BY <3>2 DEF Counting
    <3> QED
      BY <1>1, <3>1, <3>2
  <2> QED
    BY <1>3, <2>1, <2>2, <2>3
<1>8. ASSUME NEW e \in clause_id_ht', NEW f \in clause_id_ht', e.hashed = f.hashed PROVE e = f
  BY <1>1, <1>8, EntryFacts
<1>9. Ids' = Ids
  BY DEF Ids, MaxId
<1> QED
  BY <1>1, <1>5, <1>6, <1>7, <1>8, <1>9 DEF Table, UNUSED

LEMMA TableUncounting ==
  ASSUME file \in Seq(Line), Reading, Parsed, NEW x, NEW H, NextLine(x, H), Kept,
         NEW a, Uncounting(x, a)
  PROVE  Table'
<1>1. /\ H = Hashed /\ Hashed' = H + 1 /\ Entered \in Nat /\ Entered' = Entered
      /\ clause_id_ht' = clause_id_ht /\ clauses_lui' = clauses_lui
      /\ clause_mults' = [clause_mults EXCEPT ![a.id] = @ - 1] /\ clause_mults[a.id] > 1
      /\ a \in clause_id_ht /\ a.hashed = x.clause /\ a.id \in Ids /\ a.id <= Entered
      /\ x.type = "delete"
  BY Context, EntryFacts DEF NextLine, Uncounting
<1>2. clause_mults \in [Ids -> Nat] /\ Ids \subseteq Nat
  BY DEF Parsed, Shape, Ids
<1>3. /\ clause_mults'[a.id] = clause_mults[a.id] - 1
      /\ \A k \in Ids : k # a.id => clause_mults'[k] = clause_mults[k]
  BY <1>1, <1>2
<1>4. ASSUME NEW C
      PROVE  /\ Copies(C, H) \in Int
             /\ Copies(C, H + 1)' = IF C = x.clause THEN Copies(C, H) - 1 ELSE Copies(C, H)
  BY <1>1, NextCopies
<1>5. ASSUME NEW e \in clause_id_ht'
      PROVE  /\ e.id \in 1..Entered' /\ e.id \notin db.deleted' /\ db.stored'[e.id] = e.hashed
             /\ clause_mults'[e.id] = Copies(e.hashed, H + 1)' /\ Copies(e.hashed, H + 1)' >= 1
  <2>1. /\ e \in clause_id_ht /\ e.id \in 1..Entered /\ e.id \in Ids /\ e.id \notin db.deleted
        /\ db.stored[e.id] = e.hashed
        /\ clause_mults[e.id] = Copies(e.hashed, H) /\ clause_mults[e.id] >= 1
        /\ clause_mults[e.id] \in Nat
    BY <1>1, EntryFacts
  <2>2. e.id \notin db.deleted' /\ db.stored'[e.id] = e.hashed /\ e.id \in 1..Entered'
    BY <1>1, <2>1 DEF Kept
  <2>4. e.hashed = x.clause <=> e.id = a.id
    BY <1>1, <2>1, EntryFacts
  <2>5. Copies(e.hashed, H + 1)' = IF e.hashed = x.clause THEN Copies(e.hashed, H) - 1
                                   ELSE Copies(e.hashed, H)
    <3> PICK C : C = e.hashed
      OBVIOUS
    <3>1. Copies(C, H + 1)' = IF C = x.clause THEN Copies(C, H) - 1 ELSE Copies(C, H)
      BY <1>4
    <3> QED
      BY <3>1
  <2>6. CASE e.id = a.id
    BY <1>1, <1>3, <2>1, <2>2, <2>4, <2>5, <2>6
  <2>7. CASE e.id # a.id
    BY <1>3, <2>1, <2>2, <2>4, <2>5, <2>7
  <2> QED
    BY <2>6, <2>7
<1>6. ASSUME NEW C \in Named', \A e \in clause_id_ht' : e.hashed # C
      PROVE  Copies(C, H + 1)' = 0
  <2>1. C \in Named /\ C # x.clause /\ \A e \in clause_id_ht : e.hashed # C
    BY <1>1, <1>6 DEF Named, Clause
  <2>2. Copies(C, H) = 0
    BY <1>1, <2>1 DEF Parsed, Table
  <2> QED
    BY <1>4, <2>1, <2>2
<1>7. ASSUME NEW k \in Ids, k > Entered'
      PROVE  clause_mults'[k] = 1 /\ clauses_lui'[k] = UNUSED
  <2>1. k > Entered /\ k # a.id
    BY <1>1, <1>2, <1>7
  <2> QED
    BY <1>1, <1>3, <2>1 DEF Parsed, Table
<1>8. ASSUME NEW e \in clause_id_ht', NEW f \in clause_id_ht', e.hashed = f.hashed PROVE e = f
  BY <1>1, <1>8, EntryFacts
<1>9. Ids' = Ids
  BY DEF Ids, MaxId
<1> QED
  BY <1>1, <1>5, <1>6, <1>7, <1>8, <1>9 DEF Table, UNUSED

LEMMA TableForgetting ==
  ASSUME file \in Seq(Line), Reading, Parsed, NEW x, NEW H, NextLine(x, H), Kept,
         NEW a, Forgetting(x, a)
  PROVE  Table'
<1>1. /\ H = Hashed /\ Hashed' = H + 1 /\ Entered \in Nat /\ Entered' = Entered
      /\ clause_id_ht' = clause_id_ht \ {a} /\ clause_mults' = clause_mults
      /\ clauses_lui' = [clauses_lui EXCEPT ![a.id] = num_parsed_add_lines]
      /\ clause_mults[a.id] = 1
      /\ a \in clause_id_ht /\ a.hashed = x.clause /\ a.id \in Ids /\ a.id <= Entered
      /\ x.type = "delete"
  BY Context, EntryFacts DEF NextLine, Forgetting, RemoveFromTable, MarkUserDeleted
<1>2. /\ clause_mults \in [Ids -> Nat] /\ clauses_lui \in [Ids -> Int] /\ Ids \subseteq Nat
      /\ num_parsed_add_lines \in Nat
  BY DEF Parsed, Shape, Ids
<1>3. \A k \in Ids : k # a.id => clauses_lui'[k] = clauses_lui[k]
  BY <1>1, <1>2
<1>4. ASSUME NEW C
      PROVE  /\ Copies(C, H) \in Int
             /\ Copies(C, H + 1)' = IF C = x.clause THEN Copies(C, H) - 1 ELSE Copies(C, H)
  BY <1>1, NextCopies
<1>5. ASSUME NEW e \in clause_id_ht'
      PROVE  /\ e.id \in 1..Entered' /\ e.id \notin db.deleted' /\ db.stored'[e.id] = e.hashed
             /\ clause_mults'[e.id] = Copies(e.hashed, H + 1)' /\ Copies(e.hashed, H + 1)' >= 1
  <2>1. /\ e \in clause_id_ht /\ e.id \in 1..Entered /\ e.id \in Ids /\ e.id \notin db.deleted
        /\ db.stored[e.id] = e.hashed
        /\ clause_mults[e.id] = Copies(e.hashed, H) /\ clause_mults[e.id] >= 1
        /\ clause_mults[e.id] \in Nat /\ e # a
    BY <1>1, EntryFacts
  <2>2. e.id \notin db.deleted' /\ db.stored'[e.id] = e.hashed /\ e.id \in 1..Entered'
    BY <1>1, <2>1 DEF Kept
  <2>4. e.hashed # x.clause
    BY <1>1, <2>1, EntryFacts
  <2>5. Copies(e.hashed, H + 1)' = Copies(e.hashed, H)
    <3> PICK C : C = e.hashed
      OBVIOUS
    <3>1. Copies(C, H + 1)' = Copies(C, H)
      BY <1>4, <2>4
    <3> QED
      BY <3>1
  <2> QED
    BY <1>1, <2>1, <2>2, <2>5
<1>6. ASSUME NEW C \in Named', \A e \in clause_id_ht' : e.hashed # C
      PROVE  Copies(C, H + 1)' = 0
  <2>1. C \in Named
    BY DEF Named, Clause
  <2>2. CASE C = x.clause
    <3>1. Copies(C, H) = 1
      BY <1>1, <2>2, EntryFacts
    <3> QED
      BY <1>4, <2>2, <3>1
  <2>3. CASE C # x.clause
    <3>1. \A e \in clause_id_ht : e.hashed # C
      BY <1>1, <1>6, <2>3
    <3>2. Copies(C, H) = 0
      BY <1>1, <2>1, <3>1 DEF Parsed, Table
    <3> QED
      BY <1>4, <2>3, <3>2
  <2> QED
    BY <2>2, <2>3
<1>7. ASSUME NEW k \in Ids, k > Entered'
      PROVE  clause_mults'[k] = 1 /\ clauses_lui'[k] = UNUSED
  <2>1. k > Entered /\ k # a.id
    BY <1>1, <1>2, <1>7
  <2> QED
    BY <1>1, <1>3, <2>1 DEF Parsed, Table
<1>8. ASSUME NEW e \in clause_id_ht', NEW f \in clause_id_ht', e.hashed = f.hashed PROVE e = f
  BY <1>1, <1>8, EntryFacts
<1>9. Ids' = Ids
  BY DEF Ids, MaxId
<1> QED
  BY <1>1, <1>5, <1>6, <1>7, <1>8, <1>9 DEF Table, UNUSED

(***************************************************************************)
(* The clauses that leave the table.                                        *)
(***************************************************************************)
LEMMA NextUndeleted ==
  ASSUME file \in Seq(Line), Reading, Parsed, NEW x, NEW H, NextLine(x, H)
  PROVE  LastCopyDeletions(H + 1)' = {} /\ DeletedBefore(H + 1)' = UNUSED
<1>1. H \in Nat /\ file' \in Seq(Line)
  BY Advance
<1>2. LastCopyDeletions(H + 1)' = {}
  <2>1. CASE pc = "prepare"
    <3>1. /\ file' = file /\ Len(file) = num_cnf_clauses /\ DOMAIN file = 1..Len(file)
      BY <2>1, Context, Lines DEF NextLine
    <3>2. \A j \in DOMAIN file' : file'[j].type = "cnf"
      BY <3>1 DEF Parsed, Phases
    <3> QED
      BY <3>2 DEF LastCopyDeletions
  <2>2. CASE pc = "parse"
    <3>1. H = Len(file) /\ file' = Append(file, x) /\ x \in Line
      BY <2>2, Advance DEF NextLine
    <3>2. Len(file') = H + 1 /\ DOMAIN file' = 1..H + 1
      BY <1>1, <3>1, Appending
    <3>3. \A j \in DOMAIN file' : ~(j > H + 1)
      BY <1>1, <3>2
    <3> QED
      BY <3>3 DEF LastCopyDeletions
  <2> QED
    BY <2>1, <2>2 DEF NextLine
<1> QED
  BY <1>2 DEF DeletedBefore, UNUSED

LEMMA DeletedEntering ==
  ASSUME file \in Seq(Line), Reading, Parsed, NEW x, NEW H, NextLine(x, H),
         NEW id, Entering(x, id), id = IdOf(H + 1)'
  PROVE  DeletedOnce'
<1> DEFINE new == [id |-> id, hashed |-> x.clause]
<1>1. /\ H = Hashed /\ Hashed' = H + 1 /\ H \in Nat /\ Entered \in Nat /\ id = Entered + 1
      /\ clause_id_ht' = clause_id_ht \cup {new} /\ clauses_lui' = clauses_lui
      /\ x.clause \in Named /\ x.type # "delete" /\ id \in Ids
      /\ num_cnf_clauses' = num_cnf_clauses /\ num_cnf_clauses \in Nat /\ file'[H + 1] = x
  BY Context, ClauseNamed DEF NextLine, Entering, AddToTable
<1>2. Copies(x.clause, H) = 0
  BY <1>1 DEF Entering, Parsed, Table
<1>3. /\ Firsts' = Firsts \cup {H + 1} /\ Firsts \subseteq 1..H
      /\ \A i \in 1..H : IdOf(i)' = IdOf(i) /\ EntryOf(i)' = EntryOf(i)
  BY <1>1, <1>2, NextFirst
<1>4. ASSUME NEW i \in 1..H
      PROVE  /\ LastCopyDeletions(i)' = {} <=> LastCopyDeletions(i) = {}
             /\ DeletedBefore(i)' = DeletedBefore(i)
  <2>1. ~LastOf(x, H)
    BY <1>1 DEF LastOf
  <2> QED
    BY <2>1, NextDeleted
<1>5. LastCopyDeletions(H + 1)' = {} /\ DeletedBefore(H + 1)' = UNUSED
  BY NextUndeleted
<1>6. EntryOf(H + 1)' = new
  BY <1>1 DEF EntryOf
<1>7. ASSUME NEW e \in clause_id_ht' PROVE \E i \in Firsts' : e = EntryOf(i)'
  <2>1. CASE e \in clause_id_ht
    <3>1. PICK i \in Firsts : e = EntryOf(i)
      BY <2>1 DEF Parsed, DeletedOnce
    <3> QED
      BY <1>3, <3>1
  <2>2. CASE e = new
    BY <1>3, <1>6, <2>2
  <2> QED
    BY <1>1, <2>1, <2>2
<1>8. ASSUME NEW i \in Firsts'
      PROVE  /\ clauses_lui'[IdOf(i)'] = DeletedBefore(i)'
             /\ EntryOf(i)' \in clause_id_ht' <=> LastCopyDeletions(i)' = {}
  <2>1. CASE i \in Firsts
    <3>1. /\ i \in 1..H /\ clauses_lui[IdOf(i)] = DeletedBefore(i)
          /\ EntryOf(i) \in clause_id_ht <=> LastCopyDeletions(i) = {}
          /\ IdOf(i) \in 1..Entered
      BY <1>3, <2>1, FirstFacts DEF Parsed, DeletedOnce
    <3>2. EntryOf(i) # new
      <4>1. IdOf(i) # id
        BY <1>1, <3>1
      <4> QED
        BY <4>1 DEF EntryOf
    <3> QED
      BY <1>1, <1>3, <1>4, <3>1, <3>2
  <2>2. CASE i = H + 1
    <3>1. clauses_lui[id] = UNUSED
      <4>1. id > Entered
        BY <1>1
      <4> QED
        BY <1>1, <4>1 DEF Parsed, Table
    <3> QED
      BY <1>1, <1>5, <1>6, <2>2, <3>1
  <2> QED
    BY <1>3, <2>1, <2>2
<1>9. ASSUME NEW i \in 1..H + 1, i <= num_cnf_clauses, i \notin Firsts'
      PROVE  clauses_lui'[i] = 0
  <2>1. i \in 1..H /\ i \notin Firsts
    BY <1>1, <1>3, <1>9
  <2> QED
    BY <1>1, <1>9, <2>1 DEF Parsed, DeletedOnce
<1> HIDE DEF new
<1> QED
  BY <1>1, <1>7, <1>8, <1>9 DEF DeletedOnce

LEMMA DeletedCounting ==
  ASSUME file \in Seq(Line), Reading, Parsed, NEW x, NEW H, NextLine(x, H),
         NEW a, Counting(x, H, a)
  PROVE  DeletedOnce' /\ Firsts' = Firsts
<1>1. /\ H = Hashed /\ Hashed' = H + 1 /\ H \in Nat /\ Entered \in Nat
      /\ clause_id_ht' = clause_id_ht /\ a \in clause_id_ht /\ a.hashed = x.clause
      /\ x.type # "delete" /\ pc \in {"prepare", "parse"}
      /\ num_cnf_clauses' = num_cnf_clauses /\ num_cnf_clauses \in Nat
      /\ Ids \subseteq Nat /\ clauses_lui \in [Ids -> Int]
  BY Context DEF NextLine, Counting, Parsed, Shape, Ids
<1>2. Copies(x.clause, H) >= 1
  BY <1>1, EntryFacts
<1>3. /\ Firsts' = Firsts /\ Firsts \subseteq 1..H
      /\ \A i \in 1..H : IdOf(i)' = IdOf(i) /\ EntryOf(i)' = EntryOf(i)
  BY <1>1, <1>2, NextFirst
<1>4. ASSUME NEW i \in 1..H
      PROVE  /\ LastCopyDeletions(i)' = {} <=> LastCopyDeletions(i) = {}
             /\ DeletedBefore(i)' = DeletedBefore(i)
  <2>1. ~LastOf(x, H)
    BY <1>1 DEF LastOf
  <2> QED
    BY <2>1, NextDeleted
<1>5. CASE pc = "prepare"
  <2>1. clauses_lui' = [clauses_lui EXCEPT ![H + 1] = 0] /\ H = Entered /\ H + 1 \in Ids
    BY <1>5 DEF Counting, MarkUserDeleted
  <2>2. clauses_lui'[H + 1] = 0 /\ \A k \in Ids : k # H + 1 => clauses_lui'[k] = clauses_lui[k]
    BY <1>1, <2>1
  <2>3. ASSUME NEW i \in Firsts
        PROVE  /\ clauses_lui'[IdOf(i)'] = DeletedBefore(i)'
               /\ EntryOf(i)' \in clause_id_ht' <=> LastCopyDeletions(i)' = {}
    <3>1. /\ i \in 1..H /\ clauses_lui[IdOf(i)] = DeletedBefore(i)
          /\ EntryOf(i) \in clause_id_ht <=> LastCopyDeletions(i) = {}
          /\ IdOf(i) \in 1..Entered /\ IdOf(i) \in Ids
      BY <1>3, FirstFacts DEF Parsed, DeletedOnce
    <3>2. IdOf(i) # H + 1
      BY <1>1, <2>1, <3>1
    <3> QED
      BY <1>1, <1>3, <1>4, <2>2, <3>1, <3>2
  <2>4. ASSUME NEW i \in 1..H + 1, i <= num_cnf_clauses, i \notin Firsts
        PROVE  clauses_lui'[i] = 0
    <3>1. CASE i = H + 1
      BY <2>2, <3>1
    <3>2. CASE i # H + 1
      <4>1. i \in 1..H /\ i \in Ids
        BY <1>1, <2>1, <3>2, MaxIdType DEF Ids
      <4> QED
        BY <1>1, <2>2, <2>4, <3>2, <4>1 DEF Parsed, DeletedOnce
    <3> QED
      BY <3>1, <3>2
  <2>5. \A e \in clause_id_ht' : \E i \in Firsts' : e = EntryOf(i)'
    <3> SUFFICES ASSUME NEW e \in clause_id_ht' PROVE \E i \in Firsts' : e = EntryOf(i)'
      OBVIOUS
    <3>1. PICK i \in Firsts : e = EntryOf(i)
      BY <1>1 DEF Parsed, DeletedOnce
    <3> QED
      BY <1>3, <3>1
  <2> QED
    BY <1>1, <1>3, <2>3, <2>4, <2>5 DEF DeletedOnce
<1>6. CASE pc = "parse"
  <2>1. clauses_lui' = clauses_lui
    BY <1>6 DEF Counting
  <2>2. num_cnf_clauses <= H
    BY <1>6, Advance
  <2>3. ASSUME NEW i \in Firsts
        PROVE  /\ clauses_lui'[IdOf(i)'] = DeletedBefore(i)'
               /\ EntryOf(i)' \in clause_id_ht' <=> LastCopyDeletions(i)' = {}
    <3>1. /\ i \in 1..H /\ clauses_lui[IdOf(i)] = DeletedBefore(i)
          /\ EntryOf(i) \in clause_id_ht <=> LastCopyDeletions(i) = {}
      BY <1>3 DEF Parsed, DeletedOnce
    <3> QED
      BY <1>1, <1>3, <1>4, <2>1, <3>1
  <2>4. ASSUME NEW i \in 1..H + 1, i <= num_cnf_clauses, i \notin Firsts
        PROVE  clauses_lui'[i] = 0
    <3>1. i \in 1..H
      BY <1>1, <2>2, <2>4
    <3> QED
      BY <1>1, <2>1, <2>4, <3>1 DEF Parsed, DeletedOnce
  <2>5. \A e \in clause_id_ht' : \E i \in Firsts' : e = EntryOf(i)'
    <3> SUFFICES ASSUME NEW e \in clause_id_ht' PROVE \E i \in Firsts' : e = EntryOf(i)'
      OBVIOUS
    <3>1. PICK i \in Firsts : e = EntryOf(i)
      BY <1>1 DEF Parsed, DeletedOnce
    <3> QED
      BY <1>3, <3>1
  <2> QED
    BY <1>1, <1>3, <2>3, <2>4, <2>5 DEF DeletedOnce
<1> QED
  BY <1>1, <1>3, <1>5, <1>6

LEMMA DeletedUncounting ==
  ASSUME file \in Seq(Line), Reading, Parsed, NEW x, NEW H, NextLine(x, H),
         NEW a, Uncounting(x, a)
  PROVE  DeletedOnce' /\ Firsts' = Firsts /\ ~LastOf(x, H)
<1>1. /\ H = Hashed /\ Hashed' = H + 1 /\ H \in Nat
      /\ clause_id_ht' = clause_id_ht /\ clauses_lui' = clauses_lui
      /\ a \in clause_id_ht /\ a.hashed = x.clause /\ clause_mults[a.id] > 1
      /\ x.type = "delete" /\ pc \in {"prepare", "parse"}
      /\ num_cnf_clauses' = num_cnf_clauses /\ num_cnf_clauses \in Nat
  BY Context DEF NextLine, Uncounting
<1>2. Copies(x.clause, H) = clause_mults[a.id]
  BY <1>1, EntryFacts
<1>3. /\ Firsts' = Firsts /\ Firsts \subseteq 1..H
      /\ \A i \in 1..H : IdOf(i)' = IdOf(i) /\ EntryOf(i)' = EntryOf(i)
  BY <1>1, NextFirst
<1>4. ~LastOf(x, H)
  BY <1>1, <1>2 DEF LastOf
<1>5. ASSUME NEW i \in 1..H
      PROVE  /\ LastCopyDeletions(i)' = {} <=> LastCopyDeletions(i) = {}
             /\ DeletedBefore(i)' = DeletedBefore(i)
  BY <1>4, NextDeleted
<1>6. num_cnf_clauses <= H
  <2>1. pc = "parse"
    BY <1>1, Advance
  <2> QED
    BY <2>1, Advance
<1>7. ASSUME NEW i \in Firsts
      PROVE  /\ clauses_lui'[IdOf(i)'] = DeletedBefore(i)'
             /\ EntryOf(i)' \in clause_id_ht' <=> LastCopyDeletions(i)' = {}
  <2>1. /\ i \in 1..H /\ clauses_lui[IdOf(i)] = DeletedBefore(i)
        /\ EntryOf(i) \in clause_id_ht <=> LastCopyDeletions(i) = {}
    BY <1>3 DEF Parsed, DeletedOnce
  <2> QED
    BY <1>1, <1>3, <1>5, <2>1
<1>8. ASSUME NEW i \in 1..H + 1, i <= num_cnf_clauses, i \notin Firsts
      PROVE  clauses_lui'[i] = 0
  <2>1. i \in 1..H
    BY <1>1, <1>6, <1>8
  <2> QED
    BY <1>1, <1>8, <2>1 DEF Parsed, DeletedOnce
<1>9. \A e \in clause_id_ht' : \E i \in Firsts' : e = EntryOf(i)'
  <2> SUFFICES ASSUME NEW e \in clause_id_ht' PROVE \E i \in Firsts' : e = EntryOf(i)'
    OBVIOUS
  <2>1. PICK i \in Firsts : e = EntryOf(i)
    BY <1>1 DEF Parsed, DeletedOnce
  <2> QED
    BY <1>3, <2>1
<1> QED
  BY <1>1, <1>3, <1>4, <1>7, <1>8, <1>9 DEF DeletedOnce

(* The last copy goes: the line that got its clause the ID is deleted now.   *)
LEMMA DeletedForgetting ==
  ASSUME file \in Seq(Line), Reading, Parsed, NEW x, NEW H, NextLine(x, H),
         NEW a, Forgetting(x, a)
  PROVE  /\ DeletedOnce' /\ Firsts' = Firsts
         /\ \E h \in Firsts :
              /\ a.id = IdOf(h) /\ DeletedBefore(h) = UNUSED
              /\ DeletedBefore(h)' = num_parsed_add_lines
              /\ \A i \in Firsts : i # h => DeletedBefore(i)' = DeletedBefore(i)
<1>1. /\ H = Hashed /\ Hashed' = H + 1 /\ H \in Nat
      /\ clause_id_ht' = clause_id_ht \ {a}
      /\ clauses_lui' = [clauses_lui EXCEPT ![a.id] = num_parsed_add_lines]
      /\ a \in clause_id_ht /\ a.hashed = x.clause /\ clause_mults[a.id] = 1
      /\ x.type = "delete" /\ pc \in {"prepare", "parse"}
      /\ num_cnf_clauses' = num_cnf_clauses /\ num_cnf_clauses \in Nat
      /\ clauses_lui \in [Ids -> Int] /\ num_parsed_add_lines \in Nat
  BY Context DEF NextLine, Forgetting, RemoveFromTable, MarkUserDeleted, Parsed, Shape
<1>2. Copies(x.clause, H) = 1 /\ LastOf(x, H)
  BY <1>1, EntryFacts DEF LastOf
<1>3. /\ Firsts' = Firsts /\ Firsts \subseteq 1..H
      /\ \A i \in 1..H : IdOf(i)' = IdOf(i) /\ EntryOf(i)' = EntryOf(i)
  BY <1>1, NextFirst
<1>4. PICK h \in Firsts : a = EntryOf(h)
  BY <1>1 DEF Parsed, DeletedOnce
<1>5. /\ h \in 1..H /\ a.id = IdOf(h) /\ x.clause = file[h].clause
      /\ LastCopyDeletions(h) = {} /\ a.id \in Ids
  <2>1. EntryOf(h).id = IdOf(h) /\ EntryOf(h).hashed = file[h].clause
    BY DEF EntryOf
  <2> QED
    BY <1>1, <1>3, <1>4, <2>1, FirstFacts DEF Parsed, DeletedOnce
<1>6. /\ LastCopyDeletions(h)' # {} /\ DeletedBefore(h)' = num_parsed_add_lines
      /\ DeletedBefore(h) = UNUSED
  BY <1>2, <1>5, NextDeleted
<1>7. ASSUME NEW i \in Firsts, i # h
      PROVE  /\ LastCopyDeletions(i)' = {} <=> LastCopyDeletions(i) = {}
             /\ DeletedBefore(i)' = DeletedBefore(i)
             /\ IdOf(i) # a.id /\ EntryOf(i) # a /\ IdOf(i) \in Ids
  <2>1. i \in 1..H /\ IdOf(i) # a.id /\ IdOf(i) \in Ids
    BY <1>3, <1>5, <1>7, FirstFacts
  <2>2. EntryOf(i).id = IdOf(i) /\ EntryOf(i).hashed = file[i].clause
    BY DEF EntryOf
  <2>3. EntryOf(i) # a
    BY <2>1, <2>2
  <2>4. ~(LastCopyDeletions(i) = {} /\ x.clause = file[i].clause)
    <3> SUFFICES ASSUME LastCopyDeletions(i) = {}, x.clause = file[i].clause PROVE FALSE
      OBVIOUS
    <3>1. EntryOf(i) \in clause_id_ht
      BY DEF Parsed, DeletedOnce
    <3> QED
      BY <1>1, <2>2, <2>3, <3>1, EntryFacts
  <2> QED
    BY <2>1, <2>3, <2>4, NextDeleted
<1>8. num_cnf_clauses <= H
  <2>1. pc = "parse"
    BY <1>1, Advance
  <2> QED
    BY <2>1, Advance
<1>9. ASSUME NEW i \in Firsts
      PROVE  /\ clauses_lui'[IdOf(i)'] = DeletedBefore(i)'
             /\ EntryOf(i)' \in clause_id_ht' <=> LastCopyDeletions(i)' = {}
  <2>1. /\ i \in 1..H /\ clauses_lui[IdOf(i)] = DeletedBefore(i)
        /\ EntryOf(i) \in clause_id_ht <=> LastCopyDeletions(i) = {}
    BY <1>3 DEF Parsed, DeletedOnce
  <2>2. CASE i = h
    BY <1>1, <1>3, <1>4, <1>5, <1>6, <2>1, <2>2
  <2>3. CASE i # h
    BY <1>1, <1>3, <1>7, <2>1, <2>3
  <2> QED
    BY <2>2, <2>3
<1>10. ASSUME NEW i \in 1..H + 1, i <= num_cnf_clauses, i \notin Firsts
       PROVE  clauses_lui'[i] = 0
  <2>1. i \in 1..H /\ clauses_lui[i] = 0
    BY <1>1, <1>8, <1>10 DEF Parsed, DeletedOnce
  <2>2. i \in Ids
    <3>1. i <= MaxId
      BY <1>1, <1>10, MaxIdType DEF Parsed, Shape
    <3> QED
      BY <1>10, <3>1, MaxIdType DEF Ids
  <2>3. CASE i # a.id
    BY <1>1, <2>1, <2>2, <2>3
  <2>4. CASE i = a.id
    <3>1. h > num_cnf_clauses
      BY <1>1, <1>4, <1>5, <1>10, <2>4 DEF IdOf
    <3>2. IdOf(h) > num_cnf_clauses
      <4>1. h \in ProofLines
        BY <1>4, <3>1, FirstFacts
      <4>2. LinesBefore(h) \in Nat
        BY <1>5, <4>1, ProofLineFacts
      <4>3. IdOf(h) = num_cnf_clauses + LinesBefore(h) + 1
        BY <1>1, <1>5, <3>1 DEF IdOf, IdOfLine
      <4> QED
        BY <1>1, <4>2, <4>3
    <3> QED
      BY <1>1, <1>5, <1>10, <2>4, <3>2
  <2> QED
    BY <2>3, <2>4
<1>11. \A e \in clause_id_ht' : \E i \in Firsts' : e = EntryOf(i)'
  <2> SUFFICES ASSUME NEW e \in clause_id_ht' PROVE \E i \in Firsts' : e = EntryOf(i)'
    OBVIOUS
  <2>1. PICK i \in Firsts : e = EntryOf(i)
    BY <1>1 DEF Parsed, DeletedOnce
  <2> QED
    BY <1>3, <2>1
<1>12. DeletedOnce'
  BY <1>1, <1>3, <1>9, <1>10, <1>11 DEF DeletedOnce
<1> QED
  BY <1>3, <1>5, <1>6, <1>7, <1>12

(***************************************************************************)
(* The two range arrays.                                                    *)
(***************************************************************************)
LEMMA DPAssumption == DP!RangeAssumption
  BY MaxIdType DEF DP!RangeAssumption

LEMMA WPAssumption == WP!RangeAssumption
  BY MaxIdType DEF WP!RangeAssumption

LEMMA RangesOfDeletions ==
  ASSUME NEW r, DP!Good(r)
  PROVE  /\ r.indexes_size \in Nat
         /\ \A n \in 0..r.indexes_size :
              DP!RangeAt(r, n) = IF n = r.indexes_size THEN DP!Pending(r) ELSE DP!Ranges(r)[n + 1]
<1>1. /\ r.indexes_size \in Nat /\ DP!Pending(r) = DP!RangeAt(r, r.indexes_size)
      /\ \A i \in 1..r.indexes_size : DP!Ranges(r)[i] = DP!RangeAt(r, i - 1)
  BY DPAssumption, DP!RangesType DEF DP!Pending
<1>2. ASSUME NEW n \in 0..r.indexes_size, n # r.indexes_size
      PROVE  DP!Ranges(r)[n + 1] = DP!RangeAt(r, n)
  <2>1. n + 1 \in 1..r.indexes_size /\ (n + 1) - 1 = n
    BY <1>1, <1>2
  <2> QED
    BY <1>1, <2>1
<1> QED
  BY <1>1, <1>2

LEMMA DeletionInserted ==
  ASSUME NEW r, DP!Good(r), NEW e \in Ids
  PROVE  LET s == DP!InsertElt(r, e)
         IN  /\ DP!Good(s) /\ s.indexes_size = r.indexes_size
             /\ \A n \in 0..r.indexes_size :
                  DP!RangeAt(s, n) = IF n = r.indexes_size THEN Append(DP!RangeAt(r, n), e)
                                     ELSE DP!RangeAt(r, n)
<1> DEFINE s == DP!InsertElt(r, e)
<1>1. DP!Good(s) /\ DP!Ranges(s) = DP!Ranges(r) /\ DP!Pending(s) = Append(DP!Pending(r), e)
  BY DPAssumption, DP!InsertEltGood, DP!InsertRanges
<1>2. s.indexes_size = r.indexes_size
  BY DEF DP!InsertElt, DP!Array
<1> HIDE DEF s
<1>3. \A n \in 0..r.indexes_size :
        DP!RangeAt(s, n) = IF n = r.indexes_size THEN Append(DP!RangeAt(r, n), e)
                           ELSE DP!RangeAt(r, n)
  BY <1>1, <1>2, RangesOfDeletions
<1> QED
  BY <1>1, <1>2, <1>3 DEF s

LEMMA DeletionsCommitted ==
  ASSUME NEW r, DP!Good(r), r.indexes_size < MaxId
  PROVE  LET s == DP!CommitRange(r)
         IN  /\ DP!Good(s) /\ s.indexes_size = r.indexes_size + 1
             /\ \A n \in 0..r.indexes_size : DP!RangeAt(s, n) = DP!RangeAt(r, n)
             /\ DP!RangeAt(s, r.indexes_size + 1) = << >>
<1> DEFINE s == DP!CommitRange(r)
<1>1. /\ DP!Good(s) /\ DP!Ranges(s) = Append(DP!Ranges(r), DP!Pending(r))
      /\ DP!Pending(s) = << >>
  BY DPAssumption, DP!CommitRangeGood, DP!CommitRanges
<1>2. s.indexes_size = r.indexes_size + 1
  BY DEF DP!CommitRange, DP!Array
<1>3. /\ DP!Ranges(r) \in Seq(Seq(Ids)) /\ Len(DP!Ranges(r)) = r.indexes_size
      /\ DP!Pending(r) \in Seq(Ids) /\ r.indexes_size \in Nat
  BY DPAssumption, DP!RangesType
<1> HIDE DEF s
<1>4. ASSUME NEW n \in 0..r.indexes_size PROVE DP!RangeAt(s, n) = DP!RangeAt(r, n)
  <2>1. DP!RangeAt(s, n) = DP!Ranges(s)[n + 1]
    <3>1. n \in 0..s.indexes_size /\ n # s.indexes_size
      BY <1>2, <1>3
    <3> QED
      BY <1>1, <3>1, RangesOfDeletions
  <2>2. Append(DP!Ranges(r), DP!Pending(r))[n + 1] =
          IF n = r.indexes_size THEN DP!Pending(r) ELSE DP!Ranges(r)[n + 1]
    <3> PICK A : A = DP!Ranges(r)
      OBVIOUS
    <3> PICK p : p = DP!Pending(r)
      OBVIOUS
    <3> PICK m : m = r.indexes_size
      OBVIOUS
    <3>1. A \in Seq(Seq(Ids)) /\ p \in Seq(Ids) /\ Len(A) = m /\ m \in Nat /\ n \in 0..m
      BY <1>3
    <3>2. Append(A, p)[n + 1] = IF n = m THEN p ELSE A[n + 1]
      BY ONLY <3>1
    <3> QED
      BY <3>2
  <2> QED
    BY <1>1, <2>1, <2>2, RangesOfDeletions
<1>5. DP!RangeAt(s, r.indexes_size + 1) = << >>
  BY <1>1, <1>2, <1>3, RangesOfDeletions
<1> QED
  BY <1>1, <1>2, <1>4, <1>5 DEF s

(* The deletions of a line are listed once each.                             *)
LEMMA RangedSame ==
  ASSUME file \in Seq(Line), Reading, Parsed, NEW x, NEW H, NextLine(x, H), ~LastOf(x, H),
         \/ Firsts' = Firsts
         \/ Firsts' = Firsts \cup {H + 1},
         UNCHANGED <<bcu_deletions, num_parsed_add_lines>>
  PROVE  Ranged'
<1>1. /\ Firsts \subseteq 1..H /\ num_parsed_add_lines \in Nat
      /\ \A i \in 1..H : IdOf(i)' = IdOf(i) /\ DeletedBefore(i)' = DeletedBefore(i)
  BY NextFirst, NextDeleted, Context
<1>2. DeletedBefore(H + 1)' = UNUSED
  BY NextUndeleted
<1>3. ASSUME NEW n \in 0..num_parsed_add_lines PROVE Before(n)' = Before(n)
  <2>1. \A i : i \in Firsts' /\ DeletedBefore(i)' = n <=> i \in Firsts /\ DeletedBefore(i) = n
    <3>1. n # UNUSED
      BY <1>1 DEF UNUSED
    <3> QED
      BY <1>1, <1>2, <3>1
  <2>2. \A i \in Firsts : IdOf(i)' = IdOf(i)
    BY <1>1
  <2> QED
    BY <2>1, <2>2 DEF Before
<1>4. \A n \in 0..num_parsed_add_lines :
        LET range == DP!RangeAt(bcu_deletions, n)
        IN  IsInjective(range) /\ ToSet(range) = Before(n)'
  BY <1>3 DEF Parsed, Ranged
<1>5. /\ DP!Good(bcu_deletions)' /\ bcu_deletions.indexes_size = num_parsed_add_lines
      /\ bcu_deletions' = bcu_deletions /\ num_parsed_add_lines' = num_parsed_add_lines
  BY DEF Parsed, Ranged, DP!Good, DP!RA, DP!Partitions, Ids, MaxId
<1> QED
  BY <1>4, <1>5 DEF Ranged

LEMMA StillInjective ==
  ASSUME NEW S, NEW s \in Seq(S), NEW e \in S, IsInjective(s), \A k \in DOMAIN s : s[k] # e,
         NEW t, t = Append(s, e), NEW n \in Nat, n = Len(s)
  PROVE  IsInjective(t) /\ ToSet(t) = ToSet(s) \cup {e}
<1>1. n \in Nat
  OBVIOUS
<1>2. /\ DOMAIN s = 1..n /\ DOMAIN t = 1..n + 1 /\ t[n + 1] = e
      /\ \A k \in 1..n : t[k] = s[k]
  BY <1>1
<1>3. \A k \in 1..n + 1 : k \in 1..n \/ k = n + 1
  BY ONLY <1>1
<1>4. 1..n \subseteq 1..n + 1 /\ n + 1 \in 1..n + 1
  BY ONLY <1>1
<1>5. IsInjective(t)
  BY <1>2, <1>3 DEF IsInjective
<1>6. ToSet(t) = ToSet(s) \cup {e}
  BY <1>2, <1>3, <1>4 DEF ToSet
<1> QED
  BY ONLY <1>5, <1>6, Zenon

LEMMA EmptyInjective == IsInjective(<< >>) /\ ToSet(<< >>) = {}
  BY DEF IsInjective, ToSet

LEMMA RangedForgetting ==
  ASSUME file \in Seq(Line), Reading, Parsed, NEW x, NEW H, NextLine(x, H),
         NEW a, Forgetting(x, a), bcu_deletions' = DP!InsertElt(bcu_deletions, a.id),
         num_parsed_add_lines' = num_parsed_add_lines
  PROVE  Ranged'
<1>1. /\ Firsts' = Firsts /\ Firsts \subseteq 1..H /\ num_parsed_add_lines \in Nat
      /\ \A i \in 1..H : IdOf(i)' = IdOf(i)
  BY NextFirst, Context, DeletedForgetting
<1>2. PICK h \in Firsts :
        /\ a.id = IdOf(h) /\ DeletedBefore(h) = UNUSED
        /\ DeletedBefore(h)' = num_parsed_add_lines
        /\ \A i \in Firsts : i # h => DeletedBefore(i)' = DeletedBefore(i)
  BY DeletedForgetting
<1>3. PICK q \in Nat : q = num_parsed_add_lines
  BY <1>1
<1>4. q # UNUSED /\ \A n \in 0..q : n # UNUSED
  BY DEF UNUSED
<1>5. ASSUME NEW n \in 0..q, n # q PROVE Before(n)' = Before(n)
  <2>1. \A i : i \in Firsts' /\ DeletedBefore(i)' = n <=> i \in Firsts /\ DeletedBefore(i) = n
    BY <1>1, <1>2, <1>3, <1>4, <1>5
  <2>2. \A i \in Firsts : IdOf(i)' = IdOf(i)
    BY <1>1
  <2> QED
    BY <2>1, <2>2 DEF Before
<1>6. Before(q)' = Before(q) \cup {a.id} /\ a.id \notin Before(q)
  <2>1. \A i : i \in Firsts' /\ DeletedBefore(i)' = q <=>
                 (i \in Firsts /\ DeletedBefore(i) = q) \/ i = h
    BY <1>1, <1>2, <1>3, <1>4
  <2>2. \A i \in Firsts : IdOf(i)' = IdOf(i)
    BY <1>1
  <2>3. \A i \in Firsts : DeletedBefore(i) = q => IdOf(i) # a.id
    BY <1>2, <1>4, FirstFacts
  <2> QED
    BY <1>2, <2>1, <2>2, <2>3 DEF Before
<1>7. /\ DP!Good(bcu_deletions) /\ bcu_deletions.indexes_size = q
      /\ \A n \in 0..q : /\ IsInjective(DP!RangeAt(bcu_deletions, n))
                         /\ ToSet(DP!RangeAt(bcu_deletions, n)) = Before(n)
  BY <1>3 DEF Parsed, Ranged
<1>8. a.id \in Ids
  BY <1>2, FirstFacts
<1>9. /\ DP!Good(bcu_deletions') /\ bcu_deletions'.indexes_size = q
      /\ \A n \in 0..q :
           DP!RangeAt(bcu_deletions', n) =
             IF n = q THEN Append(DP!RangeAt(bcu_deletions, n), a.id)
             ELSE DP!RangeAt(bcu_deletions, n)
  BY <1>7, <1>8, DeletionInserted
<1>10. /\ IsInjective(DP!RangeAt(bcu_deletions', q))
       /\ ToSet(DP!RangeAt(bcu_deletions', q)) = Before(q)'
  <2>1. PICK s : s = DP!RangeAt(bcu_deletions, q)
    OBVIOUS
  <2>2. q \in 0..q /\ s \in Seq(Ids)
    BY <1>7, <2>1, DPAssumption, DP!RangeAtFacts
  <2>3. IsInjective(s) /\ ToSet(s) = Before(q)
    BY <1>7, <2>1, <2>2
  <2>4. \A k \in DOMAIN s : s[k] # a.id
    BY <1>6, <2>3 DEF ToSet
  <2>5. PICK t : t = Append(s, a.id)
    OBVIOUS
  <2>6. IsInjective(t) /\ ToSet(t) = ToSet(s) \cup {a.id}
    <3>1. Len(s) \in Nat
      BY <2>2
    <3> QED
      BY <1>8, <2>2, <2>3, <2>4, <2>5, <3>1, StillInjective
  <2>7. DP!RangeAt(bcu_deletions', q) = t
    BY <1>9, <2>1, <2>2, <2>5
  <2> QED
    BY <1>6, <2>3, <2>6, <2>7
<1>11. ASSUME NEW n \in 0..q
       PROVE  /\ IsInjective(DP!RangeAt(bcu_deletions', n))
              /\ ToSet(DP!RangeAt(bcu_deletions', n)) = Before(n)'
  <2>1. CASE n = q
    BY <1>10, <2>1
  <2>2. CASE n # q
    BY <1>5, <1>7, <1>9, <2>2
  <2> QED
    BY <2>1, <2>2
<1> QED
  BY <1>3, <1>9, <1>11 DEF Ranged

LEMMA RangedEntered ==
  ASSUME file \in Seq(Line), Reading, Parsed, NEW x, NEW H, NextLine(x, H), ~LastOf(x, H),
         Firsts' = Firsts \cup {H + 1}, num_parsed_add_lines < MaxId,
         bcu_deletions' = DP!CommitRange(bcu_deletions),
         num_parsed_add_lines' = num_parsed_add_lines + 1
  PROVE  Ranged'
<1>1. /\ Firsts \subseteq 1..H
      /\ \A i \in 1..H : /\ IdOf(i)' = IdOf(i) /\ DeletedBefore(i)' = DeletedBefore(i)
                         /\ DeletedBefore(i) \in Int
                         /\ DeletedBefore(i) <= num_parsed_add_lines
  BY NextFirst, NextDeleted
<1>2. DeletedBefore(H + 1)' = UNUSED
  BY NextUndeleted
<1>3. PICK q \in Nat : q = num_parsed_add_lines
  BY Context
<1>4. ASSUME NEW n \in 0..q + 1 PROVE Before(n)' = IF n = q + 1 THEN {} ELSE Before(n)
  <2>1. n # UNUSED
    BY DEF UNUSED
  <2>2. \A i : i \in Firsts' /\ DeletedBefore(i)' = n <=> i \in Firsts /\ DeletedBefore(i) = n
    BY <1>1, <1>2, <2>1
  <2>3. n = q + 1 => \A i \in Firsts : DeletedBefore(i) # n
    BY <1>1, <1>3
  <2>4. \A i \in Firsts : IdOf(i)' = IdOf(i)
    BY <1>1
  <2> QED
    BY <2>2, <2>3, <2>4 DEF Before
<1>5. /\ DP!Good(bcu_deletions) /\ bcu_deletions.indexes_size = q
      /\ \A n \in 0..q : /\ IsInjective(DP!RangeAt(bcu_deletions, n))
                         /\ ToSet(DP!RangeAt(bcu_deletions, n)) = Before(n)
  BY <1>3 DEF Parsed, Ranged
<1>6. /\ DP!Good(bcu_deletions') /\ bcu_deletions'.indexes_size = q + 1
      /\ \A n \in 0..q : DP!RangeAt(bcu_deletions', n) = DP!RangeAt(bcu_deletions, n)
      /\ DP!RangeAt(bcu_deletions', q + 1) = << >>
  BY <1>3, <1>5, DeletionsCommitted
<1>7. ASSUME NEW n \in 0..q + 1
      PROVE  /\ IsInjective(DP!RangeAt(bcu_deletions', n))
             /\ ToSet(DP!RangeAt(bcu_deletions', n)) = Before(n)'
  <2>1. CASE n = q + 1
    BY <1>4, <1>6, <2>1, EmptyInjective
  <2>2. CASE n # q + 1
    <3>1. n \in 0..q
      BY <2>2
    <3> QED
      BY <1>4, <1>5, <1>6, <2>2, <3>1
  <2> QED
    BY <2>1, <2>2
<1> QED
  BY <1>3, <1>6, <1>7 DEF Ranged

LEMMA ReverseIs ==
  ASSUME NEW s \in Seq(Int)
  PROVE  /\ Reverse(s) \in Seq(Int) /\ Len(Reverse(s)) = Len(s) /\ Len(s) \in Nat
         /\ \A k \in 1..Len(s) : Reverse(s)[k] = s[Len(s) - k + 1]
<1>1. PICK n \in Nat : n = Len(s)
  OBVIOUS
<1>2. \A k \in 1..n : (n - k) + 1 \in 1..n
  BY ONLY <1>1
<1>3. \A k \in 1..n : s[(n - k) + 1] \in Int
  BY <1>1, <1>2
<1>4. Reverse(s) = [k \in 1..n |-> s[(n - k) + 1]]
  BY <1>1 DEF Reverse
<1>5. PICK f : f = Reverse(s)
  OBVIOUS
<1>6. f \in [1..n -> Int] /\ \A k \in 1..n : f[k] = s[(n - k) + 1]
  BY <1>3, <1>4, <1>5
<1>7. f \in Seq(Int) /\ Len(f) = n
  BY ONLY <1>1, <1>6
<1> QED
  BY <1>1, <1>5, <1>6, <1>7

(* What is appended to the data is a suffix of the last range.               *)
LEMMA SuffixOfData ==
  ASSUME NEW d \in Seq(Int), NEW W \in Seq(Int), NEW a \in Nat, a <= Len(d)
  PROVE  IsSuffix(W, SubSeq(d \o W, a + 1, Len(d \o W)))
<1>1. PICK n \in Nat : n = Len(d)
  OBVIOUS
<1>2. PICK m \in Nat : m = Len(W)
  OBVIOUS
<1>3. PICK e : e = d \o W
  OBVIOUS
<1>4. e \in Seq(Int) /\ Len(e) = n + m /\ \A k \in 1..m : e[n + k] = W[k]
  BY <1>1, <1>2, <1>3, ConcatProperties
<1>5. PICK b \in Nat : b = n - a
  <2>1. n - a \in Nat
    BY <1>1
  <2> QED
    BY <2>1
<1>6. PICK u : u = SubSeq(e, a + 1, n + m)
  OBVIOUS
<1>7. /\ u \in Seq(Int) /\ Len(u) = b + m
      /\ \A i \in 1..b + m : u[i] = e[a + i]
  <2>1. a <= n + m /\ n + m <= Len(e) /\ n + m \in Nat /\ (n + m) - a = b + m
    BY ONLY <1>1, <1>2, <1>4, <1>5
  <2>2. PICK c \in Nat : c = n + m
    BY <2>1
  <2>3. e \in Seq(Int) /\ a <= c /\ c <= Len(e) /\ u = SubSeq(e, a + 1, c)
    BY <1>4, <1>6, <2>1, <2>2
  <2>4. u \in Seq(Int) /\ Len(u) = c - a /\ \A i \in 1..c - a : u[i] = e[a + i]
    BY <2>3, WP!Slice, WPAssumption
  <2> QED
    BY <2>1, <2>2, <2>4
<1>8. ASSUME NEW k \in 1..m PROVE u[(b + m) - k + 1] = W[m - k + 1]
  <2>1. PICK i : i = (b + m) - k + 1
    OBVIOUS
  <2>2. PICK j : j = m - k + 1
    OBVIOUS
  <2>3. k \in 1..m /\ m \in Nat /\ b \in Nat /\ b = n - a /\ n \in Nat /\ a \in Nat
    BY <1>1, <1>2, <1>5
  <2>4. i \in 1..b + m /\ j \in 1..m /\ a + i = n + j
    BY ONLY <2>1, <2>2, <2>3
  <2> QED
    <3>1. u[i] = e[a + i] /\ e[n + j] = W[j]
      BY <1>4, <1>7, <2>4
    <3> QED
      BY <2>1, <2>2, <2>4, <3>1
<1>9. PICK v : v = Reverse(W)
  OBVIOUS
<1>10. PICK w : w = Reverse(u)
  OBVIOUS
<1>11. /\ v \in Seq(Int) /\ Len(v) = m /\ \A k \in 1..m : v[k] = W[m - k + 1]
  BY <1>2, <1>9, ReverseIs
<1>12. /\ w \in Seq(Int) /\ Len(w) = b + m /\ \A k \in 1..b + m : w[k] = u[(b + m) - k + 1]
  <2>1. /\ w \in Seq(Int) /\ Len(w) = Len(u)
        /\ \A k \in 1..Len(u) : w[k] = u[Len(u) - k + 1]
    BY <1>7, <1>10, ReverseIs
  <2> QED
    BY <1>7, <2>1
<1>13. m <= b + m /\ m <= Len(v) /\ m <= Len(w) /\ 0 \in Nat /\ 0 <= m /\ 0 + 1 = 1
       /\ \A k \in 1..m : k \in 1..b + m
  BY ONLY <1>2, <1>5, <1>11, <1>12
<1>14. \A k \in 1..m : v[k] = w[k]
  BY <1>8, <1>11, <1>12, <1>13
<1>15. SubSeq(v, 0 + 1, m) = SubSeq(w, 0 + 1, m)
  BY <1>11, <1>12, <1>13, <1>14, WP!SlicesAgree, WPAssumption
<1>16. IsPrefix(v, w)
  BY <1>11, <1>12, <1>13, <1>15 DEF IsPrefix
<1>17. IsSuffix(W, u)
  BY <1>9, <1>10, <1>16 DEF IsSuffix
<1> QED
  BY <1>3, <1>4, <1>6, <1>17

LEMMA WitnessWritten ==
  ASSUME NEW r, WP!Good(r), NEW W \in Seq(Int), NEW s,
         s = WP!Array(r.data \o W, r.indexes, r.indexes_size)
  PROVE  /\ WP!Good(s) /\ s.indexes_size = r.indexes_size
         /\ \A n \in 0..r.indexes_size :
              n # r.indexes_size => WP!RangeAt(s, n) = WP!RangeAt(r, n)
         /\ IsSuffix(W, WP!RangeAt(s, r.indexes_size))
<1>1. /\ r.data \in Seq(Int) /\ Len(r.data) \in Nat /\ r.indexes \in [0..MaxId -> Nat]
      /\ r.indexes_size \in 0..MaxId /\ r.indexes_size \in Nat
      /\ \A i \in 0..r.indexes_size : r.indexes[i] \in Nat /\ r.indexes[i] <= Len(r.data)
  BY WPAssumption, WP!FieldTypes
<1>2. /\ r.indexes[0] = 0
      /\ \A i, j \in 0..r.indexes_size : i <= j => r.indexes[i] <= r.indexes[j]
  BY DEF WP!Good, WP!Partitions
<1>3. PICK d : d = r.data \o W
  OBVIOUS
<1>4. /\ d \in Seq(Int) /\ Len(d) \in Nat /\ Len(r.data) <= Len(d)
      /\ \A k \in 1..Len(r.data) : d[k] = r.data[k]
  BY <1>1, <1>3, ConcatProperties
<1>5. /\ s.data = d /\ s.indexes = r.indexes /\ s.indexes_size = r.indexes_size
      /\ s = WP!Array(d, r.indexes, r.indexes_size)
  BY <1>2, <1>3 DEF WP!Array
<1>6. r.indexes[r.indexes_size] <= Len(d)
  <2>1. PICK m : m = r.indexes[r.indexes_size]
    OBVIOUS
  <2>2. PICK n : n = Len(r.data)
    OBVIOUS
  <2>3. PICK q : q = Len(d)
    OBVIOUS
  <2>4. m \in Nat /\ n \in Nat /\ q \in Nat /\ m <= n /\ n <= q
    <3>1. r.indexes_size \in 0..r.indexes_size
      BY <1>1
    <3> QED
      BY <1>1, <1>4, <2>1, <2>2, <2>3, <3>1
  <2>5. m <= q
    BY ONLY <2>4
  <2> QED
    BY <2>1, <2>3, <2>5
<1>7. WP!Good(s)
  <2>1. PICK x : x = r.indexes
    OBVIOUS
  <2>2. PICK n : n = r.indexes_size
    OBVIOUS
  <2>3. /\ d \in Seq(Int) /\ x \in [0..MaxId -> Nat] /\ n \in 0..MaxId /\ x[0] = 0
        /\ x[n] <= Len(d) /\ \A i, j \in 0..n : i <= j => x[i] <= x[j]
    BY <1>1, <1>2, <1>4, <1>6, <2>1, <2>2
  <2>4. WP!Good(WP!Array(d, x, n))
    BY <2>3, WP!GoodArray, WPAssumption
  <2> QED
    BY <1>5, <2>1, <2>2, <2>4
<1>8. ASSUME NEW n \in 0..r.indexes_size, n # r.indexes_size
      PROVE  WP!RangeAt(s, n) = WP!RangeAt(r, n)
  <2>0. n \in 0..s.indexes_size /\ n # s.indexes_size
    BY <1>5, <1>8
  <2>1. /\ WP!RangeAt(r, n) = SubSeq(r.data, r.indexes[n] + 1, r.indexes[n + 1])
        /\ WP!RangeAt(s, n) = SubSeq(d, r.indexes[n] + 1, r.indexes[n + 1])
        /\ r.indexes[n] \in Nat /\ r.indexes[n + 1] \in Nat /\ r.indexes[n] <= r.indexes[n + 1]
        /\ r.indexes[n + 1] <= Len(r.data)
    <3>1. /\ WP!RangeAt(r, n) = SubSeq(r.data, r.indexes[n] + 1, WP!RangeLimit(r, n))
          /\ r.indexes[n] \in Nat /\ WP!RangeLimit(r, n) \in Nat
          /\ r.indexes[n] <= WP!RangeLimit(r, n) /\ WP!RangeLimit(r, n) <= Len(r.data)
      BY WPAssumption, WP!RangeAtFacts
    <3>2. WP!RangeAt(s, n) = SubSeq(s.data, s.indexes[n] + 1, WP!RangeLimit(s, n))
      BY <1>7, <2>0, WPAssumption, WP!RangeAtFacts
    <3>3. /\ WP!RangeLimit(r, n) = r.indexes[n + 1]
          /\ WP!RangeLimit(s, n) = s.indexes[n + 1]
      BY <1>8, <2>0 DEF WP!RangeLimit
    <3> QED
      BY <1>5, <3>1, <3>2, <3>3
  <2>2. r.indexes[n + 1] <= Len(d) /\ \A k \in 1..r.indexes[n + 1] : d[k] = r.data[k]
    BY <1>1, <1>4, <2>1
  <2>3. PICK a \in Nat : a = r.indexes[n]
    BY <2>1
  <2>4. PICK b \in Nat : b = r.indexes[n + 1]
    BY <2>1
  <2>5. PICK c \in Seq(Int) : c = r.data
    BY <1>1
  <2>6. /\ d \in Seq(Int) /\ a <= b /\ b <= Len(d) /\ b <= Len(c)
        /\ \A k \in 1..b : d[k] = c[k]
    BY <1>4, <2>1, <2>2, <2>3, <2>4, <2>5
  <2>7. SubSeq(d, a + 1, b) = SubSeq(c, a + 1, b)
    BY <2>6, WPAssumption, WP!SlicesAgree
  <2> QED
    BY <2>1, <2>3, <2>4, <2>5, <2>7
<1>9. IsSuffix(W, WP!RangeAt(s, r.indexes_size))
  <2>1. r.indexes_size \in 0..s.indexes_size /\ r.indexes[r.indexes_size] \in Nat
        /\ r.indexes[r.indexes_size] <= Len(r.data)
    BY <1>1, <1>5
  <2>2. WP!RangeAt(s, r.indexes_size) = SubSeq(d, r.indexes[r.indexes_size] + 1, Len(d))
    BY <1>5, <1>7, <2>1, WPAssumption, WP!RangeAtFacts DEF WP!RangeLimit
  <2> QED
    BY <1>1, <1>3, <2>1, <2>2, SuffixOfData
<1> QED
  BY <1>5, <1>7, <1>8, <1>9

LEMMA RangesOfWitnesses ==
  ASSUME NEW r, WP!Good(r)
  PROVE  /\ r.indexes_size \in Nat
         /\ \A n \in 0..r.indexes_size :
              WP!RangeAt(r, n) = IF n = r.indexes_size THEN WP!Pending(r) ELSE WP!Ranges(r)[n + 1]
<1>1. /\ r.indexes_size \in Nat /\ WP!Pending(r) = WP!RangeAt(r, r.indexes_size)
      /\ \A i \in 1..r.indexes_size : WP!Ranges(r)[i] = WP!RangeAt(r, i - 1)
  BY WPAssumption, WP!RangesType DEF WP!Pending
<1>2. ASSUME NEW n \in 0..r.indexes_size, n # r.indexes_size
      PROVE  WP!Ranges(r)[n + 1] = WP!RangeAt(r, n)
  <2>1. n + 1 \in 1..r.indexes_size /\ (n + 1) - 1 = n
    BY <1>1, <1>2
  <2> QED
    BY <1>1, <2>1
<1> QED
  BY <1>1, <1>2

LEMMA WitnessCommitted ==
  ASSUME NEW r, WP!Good(r), r.indexes_size < MaxId, NEW s, s = WP!CommitRange(r)
  PROVE  /\ WP!Good(s) /\ s.indexes_size = r.indexes_size + 1
         /\ \A n \in 0..r.indexes_size : WP!RangeAt(s, n) = WP!RangeAt(r, n)
<1>1. WP!Good(s) /\ WP!Ranges(s) = Append(WP!Ranges(r), WP!Pending(r))
  BY WPAssumption, WP!CommitRangeGood, WP!CommitRanges
<1>2. s.indexes_size = r.indexes_size + 1
  BY DEF WP!CommitRange, WP!Array
<1>3. /\ WP!Ranges(r) \in Seq(Seq(Int)) /\ Len(WP!Ranges(r)) = r.indexes_size
      /\ WP!Pending(r) \in Seq(Int) /\ r.indexes_size \in Nat
  BY WPAssumption, WP!RangesType
<1>4. ASSUME NEW n \in 0..r.indexes_size PROVE WP!RangeAt(s, n) = WP!RangeAt(r, n)
  <2>1. WP!RangeAt(s, n) = WP!Ranges(s)[n + 1]
    <3>1. n \in 0..s.indexes_size /\ n # s.indexes_size
      BY <1>2, <1>3
    <3> QED
      BY <1>1, <3>1, RangesOfWitnesses
  <2>2. Append(WP!Ranges(r), WP!Pending(r))[n + 1] =
          IF n = r.indexes_size THEN WP!Pending(r) ELSE WP!Ranges(r)[n + 1]
    <3> PICK A : A = WP!Ranges(r)
      OBVIOUS
    <3> PICK p : p = WP!Pending(r)
      OBVIOUS
    <3> PICK m : m = r.indexes_size
      OBVIOUS
    <3>1. A \in Seq(Seq(Int)) /\ p \in Seq(Int) /\ Len(A) = m /\ m \in Nat /\ n \in 0..m
      BY <1>3
    <3>2. Append(A, p)[n + 1] = IF n = m THEN p ELSE A[n + 1]
      BY ONLY <3>1
    <3> QED
      BY <3>2
  <2> QED
    BY <1>1, <2>1, <2>2, RangesOfWitnesses
<1> QED
  BY <1>1, <1>2, <1>4

LEMMA WitnessUncommitted ==
  ASSUME NEW r, WP!Good(r), r.indexes_size < MaxId,
         NEW s, s = WP!UncommitRange(WP!CommitRange(r))
  PROVE  /\ WP!Good(s) /\ s.indexes_size = r.indexes_size
         /\ \A n \in 0..r.indexes_size :
              n # r.indexes_size => WP!RangeAt(s, n) = WP!RangeAt(r, n)
<1>1. PICK t : t = WP!CommitRange(r)
  OBVIOUS
<1>2. /\ WP!Good(t) /\ t.indexes_size = r.indexes_size + 1 /\ r.indexes_size \in Nat
      /\ WP!Ranges(t) = Append(WP!Ranges(r), WP!Pending(r))
      /\ WP!Ranges(r) \in Seq(Seq(Int)) /\ Len(WP!Ranges(r)) = r.indexes_size
      /\ WP!Pending(r) \in Seq(Int)
  BY <1>1, WitnessCommitted, WPAssumption, WP!CommitRanges, WP!RangesType
<1>3. t.indexes_size > 0
  BY <1>2
<1>4. WP!Good(s) /\ WP!Ranges(s) = SubSeq(WP!Ranges(t), 1, Len(WP!Ranges(t)) - 1)
  BY <1>1, <1>2, <1>3, WPAssumption, WP!UncommitRangeGood, WP!UncommitRanges
<1>5. s.indexes_size = r.indexes_size
  <2>1. s.indexes_size = t.indexes_size - 1
    BY <1>1 DEF WP!UncommitRange, WP!Array
  <2> QED
    BY <1>2, <2>1
<1>6. WP!Ranges(s) = WP!Ranges(r)
  <2> PICK A : A = WP!Ranges(r)
    OBVIOUS
  <2> PICK p : p = WP!Pending(r)
    OBVIOUS
  <2>1. A \in Seq(Seq(Int)) /\ p \in Seq(Int) /\ WP!Ranges(t) = Append(A, p)
    BY <1>2
  <2>2. SubSeq(Append(A, p), 1, Len(Append(A, p)) - 1) = A
    <3>1. PICK m \in Nat : m = Len(A)
      BY <2>1
    <3>2. PICK B : B = Append(A, p)
      OBVIOUS
    <3>3. B \in Seq(Seq(Int)) /\ Len(B) = m + 1 /\ \A k \in 1..m : B[k] = A[k]
      BY <2>1, <3>1, <3>2, AppendProperties
    <3>4. PICK C : C = SubSeq(B, 1, m)
      OBVIOUS
    <3>5. C \in Seq(Seq(Int)) /\ Len(C) = m /\ \A k \in 1..m : C[k] = B[k]
      BY ONLY <3>1, <3>3, <3>4
    <3>6. C = A
      BY <2>1, <3>1, <3>3, <3>5, SeqEqual
    <3>7. Len(B) - 1 = m
      BY ONLY <3>1, <3>3
    <3> QED
      BY <3>2, <3>4, <3>6, <3>7
  <2> QED
    BY <1>4, <2>1, <2>2
<1>7. ASSUME NEW n \in 0..r.indexes_size, n # r.indexes_size
      PROVE  WP!RangeAt(s, n) = WP!RangeAt(r, n)
  <2>1. n \in 0..s.indexes_size /\ n # s.indexes_size
    BY <1>5, <1>7
  <2>2. WP!RangeAt(s, n) = WP!Ranges(s)[n + 1]
    BY <1>4, <2>1, RangesOfWitnesses
  <2>3. WP!RangeAt(r, n) = WP!Ranges(r)[n + 1]
    BY <1>7, RangesOfWitnesses
  <2> QED
    BY <1>6, <2>2, <2>3
<1> QED
  BY <1>4, <1>5, <1>7

LEMMA WitnessDataType ==
  ASSUME NEW line \in AddLines
  PROVE  /\ WitnessData(line) \in Seq(Int)
         /\ WitnessData(Addition(line)) = WitnessData(line)
<1>1. line \in [clause: SUBSET Int, pivot: Int, atoms: Seq(Int)]
  BY ParseAssumption
<1>2. line.clause \in SUBSET Int /\ line.pivot \in Int /\ line.atoms \in Seq(Int)
  BY <1>1
<1>3. WITNESS_TERM \in Int
  BY ParseAssumption
<1>4. WitnessData(line) \in Seq(Int)
  <2>1. Append(line.atoms, WITNESS_TERM) \in Seq(Int)
    BY <1>2, <1>3
  <2>2. <<line.pivot>> \in Seq(Int) /\ << >> \in Seq(Int)
    BY <1>2
  <2> QED
    BY <2>1, <2>2 DEF WitnessData
<1>5. WitnessData(Addition(line)) = WitnessData(line)
  BY DEF WitnessData, Addition
<1> QED
  BY <1>4, <1>5

(* parse_sr_clause_and_witness(): the witness is the next range.             *)
LEMMA ParsedWitnessIs ==
  ASSUME NEW line \in AddLines, WP!Good(witnesses), witnesses.indexes_size = num_parsed_add_lines
  PROVE  ParsedWitness(line) =
            WP!CommitRange(WP!Array(witnesses.data \o WitnessData(line), witnesses.indexes,
                                    witnesses.indexes_size))
<1>1. num_parsed_add_lines \in Nat
  BY WPAssumption, WP!FieldTypes
<1>2. R!CommitEmptyRangesUntil(witnesses, num_parsed_add_lines) = witnesses
  BY <1>1 DEF R!CommitEmptyRangesUntil
<1>3. witnesses = [data |-> witnesses.data, indexes |-> witnesses.indexes,
                   indexes_size |-> witnesses.indexes_size]
  BY DEF WP!Good, WP!RA
<1>4. PICK w : w = [witnesses EXCEPT !.data = @ \o WitnessData(line)]
  OBVIOUS
<1>5. w = WP!Array(witnesses.data \o WitnessData(line), witnesses.indexes,
                   witnesses.indexes_size)
  BY <1>3, <1>4 DEF WP!Array
<1>6. ParsedWitness(line) = R!CommitRange(w)
  BY <1>2, <1>4 DEF ParsedWitness
<1>7. R!CommitRange(w) = WP!CommitRange(w)
  BY DEF R!CommitRange, R!Array, WP!CommitRange, WP!Array
<1> QED
  BY <1>5, <1>6, <1>7

LEMMA WitnessedEntered ==
  ASSUME file \in Seq(Line), Reading, Parsed, NEW H, NEW line \in AddLines,
         NextLine(Addition(line), H), pc = "parse",
         ProofLines' = ProofLines \cup {H + 1}, num_parsed_add_lines < MaxId,
         witnesses' = ParsedWitness(line),
         num_parsed_add_lines' = num_parsed_add_lines + 1
  PROVE  Witnessed'
<1>1. PICK x : x = Addition(line)
  OBVIOUS
<1>2. NextLine(x, H)
  BY <1>1
<1>3. PICK q \in Nat : q = num_parsed_add_lines
  BY Context
<1>4. /\ WP!Good(witnesses) /\ witnesses.indexes_size = q
      /\ \A i \in ProofLines : IsSuffix(WitnessData(file[i]), WP!RangeAt(witnesses, LinesBefore(i)))
  BY <1>3 DEF Parsed, Witnessed
<1>5. PICK W \in Seq(Int) : W = WitnessData(line) /\ W = WitnessData(x)
  BY <1>1, WitnessDataType
<1>6. PICK w : w = WP!Array(witnesses.data \o W, witnesses.indexes, witnesses.indexes_size)
  OBVIOUS
<1>7. /\ WP!Good(w) /\ w.indexes_size = q /\ IsSuffix(W, WP!RangeAt(w, q))
      /\ \A n \in 0..q : n # q => WP!RangeAt(w, n) = WP!RangeAt(witnesses, n)
  <2>1. PICK r : r = witnesses
    OBVIOUS
  <2>2. WP!Good(r) /\ r.indexes_size = q /\ w = WP!Array(r.data \o W, r.indexes, r.indexes_size)
    BY <1>4, <1>6, <2>1
  <2>3. /\ WP!Good(w) /\ w.indexes_size = r.indexes_size
        /\ \A n \in 0..r.indexes_size :
             n # r.indexes_size => WP!RangeAt(w, n) = WP!RangeAt(r, n)
        /\ IsSuffix(W, WP!RangeAt(w, r.indexes_size))
    BY <2>2, WitnessWritten
  <2> QED
    BY <2>1, <2>2, <2>3
<1>8. witnesses' = WP!CommitRange(w)
  BY <1>3, <1>4, <1>5, <1>6, ParsedWitnessIs
<1>9. /\ WP!Good(witnesses') /\ witnesses'.indexes_size = q + 1
      /\ \A n \in 0..q : WP!RangeAt(witnesses', n) = WP!RangeAt(w, n)
  BY <1>3, <1>7, <1>8, WitnessCommitted
<1>10. /\ H = Len(file) /\ H \in Nat /\ file'[H + 1] = x
       /\ \A i \in 1..H : file'[i] = file[i]
       /\ \A i \in 0..H + 1 : LinesBefore(i)' = LinesBefore(i)
  BY <1>2, Advance DEF SameLines
<1>11. /\ ProofLines \subseteq 1..H /\ LinesBefore(H + 1) = q
       /\ \A i \in ProofLines : LinesBefore(i) \in Nat /\ LinesBefore(i) < q
  <2>1. H + 1 \in Nat /\ H + 1 > Len(file)
    BY <1>10
  <2>2. Cardinality(ProofLines) = q
    BY <1>3 DEF Parsed, Stored
  <2>3. ProofLines \subseteq Nat
    BY ProofLineFacts
  <2> QED
    BY <1>10, <2>1, <2>2, <2>3, ProofLineFacts
<1>12. ASSUME NEW i \in ProofLines'
       PROVE  IsSuffix(WitnessData(file'[i]), WP!RangeAt(witnesses', LinesBefore(i)'))
  <2>1. CASE i \in ProofLines
    <3>1. /\ file'[i] = file[i] /\ LinesBefore(i)' = LinesBefore(i)
          /\ LinesBefore(i) \in 0..q /\ LinesBefore(i) # q
      <4>1. i \in 1..H /\ i \in 0..H + 1
        BY <1>10, <1>11, <2>1
      <4>2. LinesBefore(i) \in Nat /\ LinesBefore(i) < q
        BY <1>11, <2>1
      <4> QED
        BY <1>10, <4>1, <4>2
    <3>2. WP!RangeAt(witnesses', LinesBefore(i)) = WP!RangeAt(witnesses, LinesBefore(i))
      BY <1>7, <1>9, <3>1
    <3> QED
      BY <1>4, <2>1, <3>1, <3>2
  <2>2. CASE i = H + 1
    <3>1. file'[i] = x /\ LinesBefore(i)' = q /\ q \in 0..q
      BY <1>10, <1>11, <2>2
    <3> QED
      BY <1>5, <1>7, <1>9, <3>1
  <2> QED
    BY <2>1, <2>2
<1> QED
  BY <1>3, <1>9, <1>12 DEF Witnessed

(* A line that takes no ID leaves the witnesses before it alone.             *)
LEMMA WitnessedSame ==
  ASSUME file \in Seq(Line), Reading, Parsed, NEW x, NEW H, NextLine(x, H),
         ProofLines' = ProofLines, UNCHANGED num_parsed_add_lines,
         \/ UNCHANGED witnesses
         \/ \E line \in AddLines : num_parsed_add_lines < MaxId /\ witnesses' = WitnessOfCopy(line)
  PROVE  Witnessed'
<1>1. PICK q \in Nat : q = num_parsed_add_lines
  BY Context
<1>2. /\ WP!Good(witnesses) /\ witnesses.indexes_size = q
      /\ \A i \in ProofLines : IsSuffix(WitnessData(file[i]), WP!RangeAt(witnesses, LinesBefore(i)))
  BY <1>1 DEF Parsed, Witnessed
<1>3. /\ WP!Good(witnesses') /\ witnesses'.indexes_size = q
      /\ \A n \in 0..q : n # q => WP!RangeAt(witnesses', n) = WP!RangeAt(witnesses, n)
  <2>1. CASE UNCHANGED witnesses
    BY <1>2, <2>1
  <2>2. CASE \E line \in AddLines : num_parsed_add_lines < MaxId /\ witnesses' = WitnessOfCopy(line)
    <3>1. PICK line \in AddLines : num_parsed_add_lines < MaxId /\ witnesses' = WitnessOfCopy(line)
      BY <2>2
    <3>2. PICK W \in Seq(Int) : W = WitnessData(line)
      BY WitnessDataType
    <3>3. PICK w : w = WP!Array(witnesses.data \o W, witnesses.indexes, witnesses.indexes_size)
      OBVIOUS
    <3>4. /\ WP!Good(w) /\ w.indexes_size = q
          /\ \A n \in 0..q : n # q => WP!RangeAt(w, n) = WP!RangeAt(witnesses, n)
      <4>1. PICK r : r = witnesses
        OBVIOUS
      <4>2. WP!Good(r) /\ r.indexes_size = q /\ w = WP!Array(r.data \o W, r.indexes, r.indexes_size)
        BY <1>2, <3>3, <4>1
      <4>3. /\ WP!Good(w) /\ w.indexes_size = r.indexes_size
            /\ \A n \in 0..r.indexes_size :
                 n # r.indexes_size => WP!RangeAt(w, n) = WP!RangeAt(r, n)
        BY <4>2, WitnessWritten
      <4> QED
        BY <4>1, <4>2, <4>3
    <3>5. ParsedWitness(line) = WP!CommitRange(w)
      BY <1>1, <1>2, <3>2, <3>3, ParsedWitnessIs
    <3>6. witnesses' = WP!UncommitRange(WP!CommitRange(w))
      BY <3>1, <3>5 DEF WitnessOfCopy, R!UncommitRange, R!Array, WP!UncommitRange, WP!Array
    <3>7. /\ WP!Good(witnesses') /\ witnesses'.indexes_size = q
          /\ \A n \in 0..q : n # q => WP!RangeAt(witnesses', n) = WP!RangeAt(w, n)
      BY <1>1, <3>1, <3>4, <3>6, WitnessUncommitted
    <3> QED
      BY <3>4, <3>7
  <2> QED
    BY <2>1, <2>2
<1>4. ASSUME NEW i \in ProofLines
      PROVE  /\ file'[i] = file[i] /\ LinesBefore(i)' = LinesBefore(i)
             /\ LinesBefore(i) \in 0..q /\ LinesBefore(i) # q
  <2>1. i \in 1..Len(file) /\ Len(file) \in Nat /\ LinesBefore(i) \in Nat /\ LinesBefore(i) < q
    <3>1. i \in 1..Len(file) /\ Len(file) \in Nat
      BY ProofLineFacts, Lines
    <3>2. Cardinality(ProofLines) = q /\ i \in Nat
      BY <1>1, <3>1 DEF Parsed, Stored
    <3> QED
      BY <3>1, <3>2, ProofLineFacts
  <2>2. file'[i] = file[i] /\ LinesBefore(i)' = LinesBefore(i)
    <3>1. CASE pc = "prepare"
      <4>1. file' = file
        BY <3>1 DEF NextLine
      <4> QED
        BY <4>1 DEF LinesBefore, ProofLines, FirstCopies, Copies
    <3>2. CASE pc = "parse"
      <4>1. H = Len(file) /\ SameLines(H) /\ \A k \in 0..H + 1 : LinesBefore(k)' = LinesBefore(k)
        BY <3>2, Advance
      <4> QED
        BY <2>1, <4>1 DEF SameLines
    <3> QED
      BY <3>1, <3>2 DEF NextLine
  <2> QED
    BY <2>1, <2>2
<1>5. ASSUME NEW i \in ProofLines'
      PROVE  IsSuffix(WitnessData(file'[i]), WP!RangeAt(witnesses', LinesBefore(i)'))
  BY <1>2, <1>3, <1>4
<1> QED
  BY <1>1, <1>3, <1>5 DEF Witnessed

-----------------------------------------------------------------------------
(***************************************************************************)
(* The clause database.                                                     *)
(***************************************************************************)
Database(d) ==
  /\ d = [stored |-> d.stored, deleted |-> d.deleted, lits_db_size |-> d.lits_db_size,
          lits_db_deleted_size |-> d.lits_db_deleted_size]
  /\ d.stored \in Seq(Clause)

LEMMA Committing ==
  ASSUME NEW d, Database(d), NEW C \in Clause
  PROVE  /\ Database(CommitClause(d, C))
         /\ CommitClause(d, C).stored = Append(d.stored, C)
         /\ CommitClause(d, C).deleted = d.deleted
<1>1. PICK c : c = CommitClause(d, C)
  OBVIOUS
<1>2. /\ d = [stored |-> d.stored, deleted |-> d.deleted, lits_db_size |-> d.lits_db_size,
              lits_db_deleted_size |-> d.lits_db_deleted_size]
      /\ d.stored \in Seq(Clause)
  BY DEF Database
<1>3. c = [d EXCEPT !.stored = Append(@, C), !.lits_db_size = @ + Cardinality(C)]
  BY <1>1 DEF CommitClause
<1>4. PICK z : z = d.lits_db_size + Cardinality(C)
  OBVIOUS
<1>5. c = [stored |-> Append(d.stored, C), deleted |-> d.deleted, lits_db_size |-> z,
           lits_db_deleted_size |-> d.lits_db_deleted_size]
  BY <1>2, <1>3, <1>4
<1>6. /\ c.stored = Append(d.stored, C) /\ c.deleted = d.deleted /\ c.lits_db_size = z
      /\ c.lits_db_deleted_size = d.lits_db_deleted_size
  BY <1>5
<1>7. Database(c)
  <2>1. c.stored \in Seq(Clause)
    BY <1>2, <1>6
  <2>2. c = [stored |-> c.stored, deleted |-> c.deleted, lits_db_size |-> c.lits_db_size,
             lits_db_deleted_size |-> c.lits_db_deleted_size]
    BY <1>5, <1>6
  <2> QED
    BY <2>1, <2>2 DEF Database
<1> QED
  BY <1>1, <1>6, <1>7

(* delete_clause(), with the garbage collection it may call.                 *)
LEMMA Deleting ==
  ASSUME NEW d, Database(d), NEW id, NEW c, c = DeleteClause(d, id)
  PROVE  /\ Database(c) /\ Len(c.stored) = Len(d.stored)
         /\ c.deleted = d.deleted \cup {id}
         /\ \A k \in 1..Len(d.stored) : k \notin c.deleted => c.stored[k] = d.stored[k]
<1>1. /\ d = [stored |-> d.stored, deleted |-> d.deleted, lits_db_size |-> d.lits_db_size,
              lits_db_deleted_size |-> d.lits_db_deleted_size]
      /\ d.stored \in Seq(Clause)
  BY DEF Database
<1>2. PICK n \in Nat : n = Len(d.stored)
  BY <1>1
<1>3. PICK z : z = d.lits_db_deleted_size + Cardinality(d.stored[id])
  OBVIOUS
<1>4. PICK b : b = [d EXCEPT !.deleted = @ \cup {id},
                             !.lits_db_deleted_size = @ + Cardinality(d.stored[id])]
  OBVIOUS
<1>5. b = [stored |-> d.stored, deleted |-> d.deleted \cup {id},
           lits_db_size |-> d.lits_db_size, lits_db_deleted_size |-> z]
  BY <1>1, <1>3, <1>4
<1>6. /\ b.stored = d.stored /\ b.deleted = d.deleted \cup {id}
      /\ b.lits_db_size = d.lits_db_size /\ b.lits_db_deleted_size = z
  BY <1>5
<1>7. c = GarbageCollect(b)
  BY <1>4 DEF DeleteClause
<1>8. CASE b.lits_db_deleted_size * 4 <= b.lits_db_size
  <2>1. c = b
    BY <1>7, <1>8 DEF GarbageCollect
  <2>2. Database(b)
    BY <1>1, <1>5, <1>6 DEF Database
  <2> QED
    BY <1>6, <2>1, <2>2
<1>9. CASE ~(b.lits_db_deleted_size * 4 <= b.lits_db_size)
  <2>1. PICK s : s = [k \in DOMAIN b.stored |-> IF k \in b.deleted THEN {} ELSE b.stored[k]]
    OBVIOUS
  <2>2. PICK y : y = b.lits_db_size - b.lits_db_deleted_size
    OBVIOUS
  <2>3. c = [stored |-> s, deleted |-> b.deleted, lits_db_size |-> y,
             lits_db_deleted_size |-> 0]
    BY <1>7, <1>9, <2>1, <2>2 DEF GarbageCollect
  <2>4. /\ c.stored = s /\ c.deleted = b.deleted /\ c.lits_db_size = y
        /\ c.lits_db_deleted_size = 0
    BY <2>3
  <2>5. {} \in Clause /\ DOMAIN d.stored = 1..n /\ \A k \in 1..n : d.stored[k] \in Clause
    BY <1>1, <1>2 DEF Clause
  <2>6. s = [k \in 1..n |-> IF k \in b.deleted THEN {} ELSE d.stored[k]]
    BY <1>6, <2>1, <2>5
  <2>7. s \in [1..n -> Clause] /\ \A k \in 1..n : k \notin b.deleted => s[k] = d.stored[k]
    BY <2>5, <2>6
  <2>8. s \in Seq(Clause) /\ Len(s) = n
    BY ONLY <1>2, <2>7
  <2>9. Database(c)
    BY <2>3, <2>4, <2>8 DEF Database
  <2> QED
    BY <1>2, <1>6, <2>4, <2>7, <2>8, <2>9
<1> QED
  BY <1>8, <1>9

LEMMA LineIds ==
  ASSUME file \in Seq(Line), Reading, Parsed, pc # "cnf"
  PROVE  \A i \in ProofLines :
           /\ IdOfLine(i) \in 1..formula_size /\ IdOfLine(i) > num_cnf_clauses
           /\ i \in 1..Len(file) /\ i > num_cnf_clauses /\ i \in Nat
<1>1. /\ formula_size \in Nat /\ formula_size = num_cnf_clauses + num_parsed_add_lines
      /\ num_cnf_clauses \in Nat /\ num_parsed_add_lines \in Nat
      /\ Cardinality(ProofLines) = num_parsed_add_lines
  BY Context DEF Parsed, Stored
<1> SUFFICES ASSUME NEW i \in ProofLines
             PROVE  /\ IdOfLine(i) \in 1..formula_size /\ IdOfLine(i) > num_cnf_clauses
                    /\ i \in 1..Len(file) /\ i > num_cnf_clauses /\ i \in Nat
  OBVIOUS
<1>2. i \in 1..Len(file) /\ i \in Nat /\ file[i].type = "add"
  BY ProofLineFacts, Lines
<1>3. i > num_cnf_clauses
  <2>1. ~(i <= num_cnf_clauses)
    BY <1>2 DEF Parsed, Phases
  <2> QED
    BY <1>1, <1>2, <2>1
<1>4. LinesBefore(i) \in Nat /\ LinesBefore(i) < num_parsed_add_lines
  BY <1>1, <1>2, ProofLineFacts
<1>5. IdOfLine(i) = num_cnf_clauses + LinesBefore(i) + 1
  BY DEF IdOfLine
<1>6. IdOfLine(i) \in 1..formula_size /\ IdOfLine(i) > num_cnf_clauses
  BY <1>1, <1>4, <1>5
<1> QED
  BY <1>2, <1>3, <1>6

LEMMA StoredSame ==
  ASSUME file \in Seq(Line), Reading, Parsed, NEW x, NEW H, NextLine(x, H),
         ProofLines' = ProofLines, UNCHANGED num_parsed_add_lines,
         db'.deleted \subseteq 1..num_cnf_clauses, \A id \in db'.deleted : id <= Entered',
         db.deleted \subseteq db'.deleted,
         \A k \in 1..formula_size : k \notin db'.deleted => db'.stored[k] = db.stored[k]
  PROVE  Stored'
<1>1. /\ num_cnf_clauses' = num_cnf_clauses /\ num_cnf_clauses \in Nat
      /\ pc \in {"prepare", "parse"} /\ num_cnf_clauses <= Len(file) /\ Len(file) \in Nat
      /\ formula_size \in Nat /\ num_cnf_clauses <= formula_size
      /\ num_parsed_add_lines \in Nat
  BY Context DEF NextLine
<1>2. /\ \A i \in 1..Len(file) : file'[i] = file[i]
      /\ \A i \in 1..Len(file) : LinesBefore(i)' = LinesBefore(i)
  <2>1. CASE pc = "prepare"
    <3>1. file' = file
      BY <2>1 DEF NextLine
    <3> QED
      BY <3>1 DEF LinesBefore, ProofLines, FirstCopies, Copies
  <2>2. CASE pc = "parse"
    <3>1. H = Len(file) /\ SameLines(H) /\ \A k \in 0..H + 1 : LinesBefore(k)' = LinesBefore(k)
      BY <2>2, Advance
    <3> QED
      BY <1>1, <3>1 DEF SameLines
  <2> QED
    BY <1>1, <2>1, <2>2
<1>3. ASSUME NEW i \in 1..Len(file'), i <= num_cnf_clauses, i \notin db'.deleted
      PROVE  db'.stored[i] = file'[i].clause
  <2>1. i \in 1..Len(file) /\ i \in 1..formula_size
    BY <1>1, <1>3
  <2> QED
    BY <1>1, <1>2, <1>3, <2>1 DEF Parsed, Stored
<1>4. ASSUME NEW i \in ProofLines
      PROVE  db'.stored[IdOfLine(i)'] = file'[i].clause
  <2>1. /\ IdOfLine(i) \in 1..formula_size /\ IdOfLine(i) > num_cnf_clauses
        /\ i \in 1..Len(file)
    BY <1>1, LineIds
  <2>2. IdOfLine(i) \notin db'.deleted
    BY <1>1, <2>1
  <2>3. IdOfLine(i)' = IdOfLine(i)
    BY <1>1, <1>2, <2>1 DEF IdOfLine
  <2> QED
    BY <1>2, <2>1, <2>2, <2>3 DEF Parsed, Stored
<1>5. num_parsed_add_lines' = Cardinality(ProofLines')
  BY DEF Parsed, Stored
<1> QED
  BY <1>1, <1>3, <1>4, <1>5 DEF Stored

LEMMA StoredEntered ==
  ASSUME file \in Seq(Line), Reading, Parsed, NEW x, NEW H, NextLine(x, H), pc = "parse",
         ProofLines' = ProofLines \cup {H + 1},
         num_parsed_add_lines' = num_parsed_add_lines + 1,
         db'.stored = Append(db.stored, x.clause), db'.deleted = db.deleted,
         Entered' = Entered + 1
  PROVE  Stored'
<1>1. /\ num_cnf_clauses' = num_cnf_clauses /\ num_cnf_clauses \in Nat
      /\ num_cnf_clauses <= H /\ H = Len(file) /\ H \in Nat
      /\ formula_size \in Nat /\ formula_size = num_cnf_clauses + num_parsed_add_lines
      /\ num_parsed_add_lines \in Nat /\ Entered \in Nat /\ Entered = formula_size
      /\ \A i \in 1..H : file'[i] = file[i]
      /\ \A i \in 0..H + 1 : LinesBefore(i)' = LinesBefore(i)
      /\ file'[H + 1] = x
  BY Context, Advance DEF NextLine, SameLines
<1>2. x.clause \in Clause
  <2>1. x.type # "delete" /\ x \in Line
    <3>1. ProofLines \subseteq 1..H
      BY <1>1, ProofLineFacts
    <3>2. H + 1 \notin 1..H
      BY <1>1
    <3>3. ProofLines' # ProofLines
      BY <3>1, <3>2
    <3> QED
      BY <3>3, Advance
  <2> QED
    BY <2>1, LineFields
<1>3. /\ db'.stored[formula_size + 1] = x.clause
      /\ \A k \in 1..formula_size : db'.stored[k] = db.stored[k]
  <2>1. db.stored \in Seq(Clause)
    BY DEF Parsed, Shape
  <2> QED
    BY <1>2, <2>1, AppendProperties DEF formula_size
<1>4. ASSUME NEW i \in 1..Len(file'), i <= num_cnf_clauses, i \notin db'.deleted
      PROVE  db'.stored[i] = file'[i].clause
  <2>1. i \in 1..Len(file) /\ i \in 1..formula_size
    BY <1>1, <1>4
  <2> QED
    BY <1>1, <1>3, <1>4, <2>1 DEF Parsed, Stored
<1>5. ASSUME NEW i \in ProofLines'
      PROVE  db'.stored[IdOfLine(i)'] = file'[i].clause
  <2>1. CASE i \in ProofLines
    <3>1. IdOfLine(i) \in 1..formula_size /\ i \in 1..Len(file)
      BY <2>1, LineIds
    <3>2. IdOfLine(i)' = IdOfLine(i) /\ file'[i] = file[i]
      <4>1. i \in 1..H /\ i \in 0..H + 1
        BY <1>1, <3>1
      <4> QED
        BY <1>1, <4>1 DEF IdOfLine
    <3> QED
      BY <1>3, <2>1, <3>1, <3>2 DEF Parsed, Stored
  <2>2. CASE i = H + 1
    <3>1. LinesBefore(H + 1) = num_parsed_add_lines
      <4>1. H + 1 \in Nat /\ H + 1 > Len(file) /\ Cardinality(ProofLines) = num_parsed_add_lines
        BY <1>1 DEF Parsed, Stored
      <4> QED
        BY <4>1, ProofLineFacts
    <3>2. IdOfLine(H + 1)' = formula_size + 1
      BY <1>1, <3>1 DEF IdOfLine
    <3> QED
      BY <1>1, <1>3, <2>2, <3>2
  <2> QED
    BY <2>1, <2>2
<1>6. num_parsed_add_lines' = Cardinality(ProofLines')
  <2>1. ProofLines \in SUBSET (1..H) /\ Cardinality(ProofLines) = num_parsed_add_lines
    BY <1>1, ProofLineFacts DEF Parsed, Stored
  <2> QED
    BY <1>1, <2>1, CountNext
<1>7. \A id \in db'.deleted : id <= Entered'
  <2>1. \A id \in db.deleted : id <= Entered /\ id \in Int
    BY DEF Parsed, Stored
  <2>2. Entered \in Nat /\ Entered' = Entered + 1
    BY <1>1
  <2> QED
    BY <2>1, <2>2
<1>8. db'.deleted \subseteq 1..num_cnf_clauses
  BY DEF Parsed, Stored
<1> QED
  BY <1>1, <1>4, <1>5, <1>6, <1>7, <1>8 DEF Stored

-----------------------------------------------------------------------------
(***************************************************************************)
(* The lines of the proof, one lemma for each thing a line may do.           *)
(***************************************************************************)
LEMMA ReadIsNext ==
  ASSUME file \in Seq(Line), Reading, Parsed, NEW x \in Line, ReadLine(x),
         pc' \in {"parse", "parsed"}, UNCHANGED num_cnf_clauses
  PROVE  /\ pc = "parse" /\ NextLine(x, Len(file))
         /\ Len(file) \in Nat /\ Len(file') = Len(file) + 1 /\ file' \in Seq(Line)
         /\ Len(file) < num_cnf_clauses + MaxLines
         /\ Entered = formula_size /\ Hashed = Len(file) /\ formula_size \in Nat
         /\ num_cnf_clauses \in Nat \ {0} /\ num_parsed_add_lines \in Nat
         /\ formula_size = num_cnf_clauses + num_parsed_add_lines
         /\ formula_size <= Len(file) /\ formula_size < MaxId
         /\ num_parsed_add_lines < MaxId /\ MaxId \in Nat
<1>1. pc = "parse" /\ file' = Append(file, x) /\ Len(file) < num_cnf_clauses + MaxLines
  BY DEF ReadLine
<1>2. /\ Len(file) \in Nat /\ Len(file') = Len(file) + 1 /\ file' \in Seq(Line)
      /\ file'[Len(file) + 1] = x
  BY <1>1, Appending
<1>3. /\ Hashed = Len(file) /\ Entered = formula_size /\ formula_size \in Nat
      /\ num_cnf_clauses \in Nat \ {0} /\ num_parsed_add_lines \in Nat
      /\ formula_size = num_cnf_clauses + num_parsed_add_lines
  BY <1>1, Context
<1>4. Hashed' = Len(file')
  BY DEF Hashed
<1>5. NextLine(x, Len(file))
  BY <1>1, <1>2, <1>3, <1>4 DEF NextLine
<1>6. formula_size <= Len(file) /\ num_cnf_clauses <= MaxCnf
  BY <1>1 DEF Parsed, Phases, Shape
<1>7. formula_size < MaxId /\ num_parsed_add_lines < MaxId /\ MaxId \in Nat
  BY <1>1, <1>2, <1>3, <1>6, MaxIdType
<1> QED
  BY <1>1, <1>2, <1>3, <1>5, <1>6, <1>7

LEMMA PhasesParse ==
  ASSUME file \in Seq(Line), Reading, Parsed, NEW x \in Line, ReadLine(x),
         pc' \in {"parse", "parsed"}, UNCHANGED num_cnf_clauses,
         x.type # "cnf", x.type # "delete" => ~Tautology(x.clause),
         formula_size' = num_cnf_clauses + num_parsed_add_lines',
         formula_size' <= Len(file) + 1
  PROVE  Phases'
<1>1. /\ pc = "parse" /\ NextLine(x, Len(file))
      /\ Len(file) \in Nat /\ Len(file') = Len(file) + 1
      /\ Len(file) < num_cnf_clauses + MaxLines
      /\ num_cnf_clauses \in Nat /\ num_cnf_clauses <= Len(file)
  BY ReadIsNext, Context
<1>2. file'[Len(file) + 1] = x /\ \A i \in 1..Len(file) : file'[i] = file[i]
  BY Appending DEF ReadLine
<1>3. ASSUME NEW i \in 1..Len(file')
      PROVE  /\ file'[i].type = "cnf" <=> i <= num_cnf_clauses
             /\ file'[i].type # "delete" => ~Tautology(file'[i].clause)
  <2>1. CASE i \in 1..Len(file)
    BY <1>2, <2>1 DEF Parsed, Phases
  <2>2. CASE i = Len(file) + 1
    BY <1>1, <1>2, <2>2
  <2> QED
    BY <1>1, <2>1, <2>2
<1>4. Len(file') <= num_cnf_clauses + MaxLines
  BY <1>1, MaxIdType
<1>5. num_cnf_clauses' = num_cnf_clauses /\ MaxLines' = MaxLines
  OBVIOUS
<1>6. Tautology(file[1].clause)' = Tautology(file'[1].clause)
  BY DEF Tautology
<1> QED
  BY <1>1, <1>3, <1>4, <1>5 DEF Phases

LEMMA AdditionLine ==
  ASSUME NEW line \in AddLines
  PROVE  /\ Addition(line) \in Line /\ Addition(line).type = "add"
         /\ Addition(line).clause = line.clause /\ line.clause \in Clause
<1>1. Addition(line) \in Line
  BY DEF Line
<1>2. line.clause \in Clause
  BY DEF Clause
<1> QED
  BY <1>1, <1>2 DEF Addition

LEMMA StepNewLine ==
  ASSUME file \in Seq(Line), Reading, Parsed, NEW line \in AddLines, NewLine(line)
  PROVE  Parsed'
<1>1. PICK x : x = Addition(line)
  OBVIOUS
<1>2. /\ x \in Line /\ x.type = "add" /\ x.clause = line.clause /\ x.clause \in Clause
  BY <1>1, AdditionLine
<1>3. /\ ReadLine(x) /\ ~Tautology(x.clause) /\ Matches(x.clause) = {}
      /\ witnesses' = ParsedWitness(line) /\ db' = CommitClause(db, x.clause)
      /\ AddToTable(formula_size + 1, x.clause)
      /\ bcu_deletions' = R!CommitRange(bcu_deletions)
      /\ num_parsed_add_lines' = num_parsed_add_lines + 1
      /\ num_cnf_clauses' = num_cnf_clauses /\ next' = next
      /\ clause_mults' = clause_mults /\ clauses_lui' = clauses_lui
      /\ pc' \in {"parse", "parsed"}
  BY <1>1, <1>2 DEF NewLine, AfterLine
<1>4. PICK H : H = Len(file)
  OBVIOUS
<1>5. /\ pc = "parse" /\ NextLine(x, H) /\ H \in Nat /\ Len(file') = H + 1
      /\ Entered = formula_size /\ Hashed = H /\ formula_size \in Nat
      /\ num_cnf_clauses \in Nat \ {0} /\ num_parsed_add_lines \in Nat
      /\ formula_size = num_cnf_clauses + num_parsed_add_lines
      /\ formula_size <= H /\ formula_size < MaxId
      /\ num_parsed_add_lines < MaxId /\ MaxId \in Nat
  BY <1>2, <1>3, <1>4, ReadIsNext
<1>6. Database(db) /\ db.stored \in Seq(Clause)
  BY DEF Parsed, Shape, Database
<1>7. /\ Database(db') /\ db'.stored = Append(db.stored, x.clause) /\ db'.deleted = db.deleted
  BY <1>2, <1>3, <1>6, Committing
<1>8. /\ formula_size' = formula_size + 1 /\ db'.stored[formula_size + 1] = x.clause
      /\ \A k \in 1..formula_size : db'.stored[k] = db.stored[k]
  BY <1>2, <1>6, <1>7, AppendProperties DEF formula_size
<1>9. PICK id \in Nat : id = formula_size + 1
  BY <1>5
<1>10. Entered' = id /\ Entered' = Entered + 1
  BY <1>3, <1>5, <1>8, <1>9 DEF Entered
<1>11. id \notin db'.deleted
  <2>1. \A k \in db.deleted : k <= Entered
    BY DEF Parsed, Stored
  <2> QED
    BY <1>5, <1>7, <1>9, <2>1
<1>12. Entering(x, id)
  <2>1. \A e \in clause_id_ht : e.hashed # x.clause
    BY <1>3, EntryFacts
  <2>2. id \in Ids
    BY <1>5, <1>9 DEF Ids
  <2> QED
    BY <1>2, <1>3, <1>5, <1>8, <1>9, <1>10, <1>11, <2>1, <2>2 DEF Entering
<1>13. Kept
  <2>1. Entered' \in Nat /\ Entered <= Entered'
    BY <1>5, <1>9, <1>10
  <2> QED
    BY <1>5, <1>7, <1>8, <2>1 DEF Kept
<1>14. Copies(x.clause, H) = 0
  <2>1. x.clause \in Named
    BY <1>2 DEF Named
  <2> QED
    BY <1>5, <1>12, <2>1 DEF Entering, Parsed, Table
<1>15. /\ ProofLines' = ProofLines \cup {H + 1} /\ Firsts' = Firsts \cup {H + 1}
       /\ IdOf(H + 1)' = id
  <2>1. H + 1 > num_cnf_clauses
    BY <1>5
  <2> QED
    BY <1>2, <1>5, <1>9, <1>14, <2>1, Advance, NextFirst
<1>16. ~LastOf(x, H)
  BY <1>2 DEF LastOf
<1>17. Table'
  BY <1>5, <1>12, <1>13, TableEntering
<1>18. Stored'
  BY <1>3, <1>5, <1>7, <1>10, <1>15, StoredEntered
<1>19. DeletedOnce'
  BY <1>5, <1>12, <1>15, DeletedEntering
<1>20. Ranged'
  <2>1. bcu_deletions' = DP!CommitRange(bcu_deletions)
    BY <1>3 DEF R!CommitRange, R!Array, DP!CommitRange, DP!Array
  <2> QED
    BY <1>3, <1>5, <1>15, <1>16, <2>1, RangedEntered
<1>21. Witnessed'
  BY <1>1, <1>3, <1>5, <1>15, WitnessedEntered
<1>22. Phases'
  <2>1. formula_size' = num_cnf_clauses + num_parsed_add_lines' /\ formula_size' <= Len(file) + 1
    BY <1>3, <1>4, <1>5, <1>8
  <2> QED
    BY <1>2, <1>3, <2>1, PhasesParse
<1>23. Shape'
  <2>1. num_parsed_add_lines' \in Nat
    BY <1>3, <1>5
  <2> QED
    BY <1>3, <1>7, <2>1 DEF Parsed, Shape, Database, Clause, Ids, MaxId
<1> QED
  BY <1>17, <1>18, <1>19, <1>20, <1>21, <1>22, <1>23 DEF Parsed

LEMMA StepCopyLine ==
  ASSUME file \in Seq(Line), Reading, Parsed, NEW line \in AddLines, CopyLine(line)
  PROVE  Parsed'
<1>1. PICK x : x = Addition(line)
  OBVIOUS
<1>2. x \in Line /\ x.type = "add" /\ x.clause = line.clause
  BY <1>1, AdditionLine
<1>3. /\ ReadLine(x) /\ ~Tautology(x.clause)
      /\ witnesses' = WitnessOfCopy(line) /\ db' = db /\ clause_id_ht' = clause_id_ht
      /\ bcu_deletions' = bcu_deletions /\ num_parsed_add_lines' = num_parsed_add_lines
      /\ num_cnf_clauses' = num_cnf_clauses /\ next' = next /\ clauses_lui' = clauses_lui
      /\ pc' \in {"parse", "parsed"}
  BY <1>1, <1>2 DEF CopyLine, AfterLine
<1>4. PICK a \in Matches(x.clause) : IncClauseMult(a.id)
  BY <1>2 DEF CopyLine
<1>5. PICK H : H = Len(file)
  OBVIOUS
<1>6. /\ pc = "parse" /\ NextLine(x, H) /\ H \in Nat /\ Hashed = H
      /\ Entered = formula_size /\ formula_size \in Nat
      /\ formula_size = num_cnf_clauses + num_parsed_add_lines
      /\ formula_size <= H /\ num_parsed_add_lines < MaxId
  BY <1>2, <1>3, <1>5, ReadIsNext
<1>7. formula_size' = formula_size /\ Entered' = Entered
  BY <1>3, <1>6 DEF formula_size, Entered
<1>8. a \in clause_id_ht /\ a.hashed = x.clause /\ a.id \in Ids /\ clause_mults[a.id] \in Nat
      /\ Copies(x.clause, H) = clause_mults[a.id] /\ clause_mults[a.id] >= 1
  BY <1>4, <1>6, EntryFacts
<1>9. Counting(x, H, a)
  BY <1>2, <1>3, <1>4, <1>6, <1>7, <1>8 DEF Counting
<1>10. Kept
  BY <1>3, <1>6, <1>7 DEF Kept
<1>11. ProofLines' = ProofLines /\ Firsts' = Firsts /\ ~LastOf(x, H)
  <2>1. Copies(x.clause, H) # 0
    BY <1>8
  <2> QED
    BY <1>2, <1>6, <2>1, Advance, NextFirst DEF LastOf
<1>12. Table'
  BY <1>6, <1>9, <1>10, TableCounting
<1>13. Stored'
  <2>1. /\ db'.deleted \subseteq 1..num_cnf_clauses
        /\ \A id \in db'.deleted : id <= Entered'
    BY <1>3, <1>7 DEF Parsed, Stored
  <2> QED
    BY <1>3, <1>6, <1>11, <2>1, StoredSame
<1>14. DeletedOnce'
  BY <1>6, <1>9, DeletedCounting
<1>15. Ranged'
  BY <1>3, <1>6, <1>11, RangedSame
<1>16. Witnessed'
  BY <1>3, <1>6, <1>11, WitnessedSame
<1>17. Phases'
  <2>1. formula_size' = num_cnf_clauses + num_parsed_add_lines' /\ formula_size' <= Len(file) + 1
    BY <1>3, <1>5, <1>6, <1>7
  <2> QED
    BY <1>2, <1>3, <2>1, PhasesParse
<1>18. Shape'
  <2>1. clause_mults \in [Ids -> Nat] /\ clause_mults' = [clause_mults EXCEPT ![a.id] = @ + 1]
    BY <1>4 DEF IncClauseMult, Parsed, Shape
  <2>2. clause_mults' \in [Ids -> Nat]
    BY <1>8, <2>1
  <2> QED
    BY <1>3, <2>2 DEF Parsed, Shape, Clause, Ids, MaxId
<1> QED
  BY <1>12, <1>13, <1>14, <1>15, <1>16, <1>17, <1>18 DEF Parsed

LEMMA DeletionIs ==
  ASSUME NEW C \in DelClauses
  PROVE  /\ Deletion(C) \in Line /\ Deletion(C).type = "delete" /\ Deletion(C).clause = C
         /\ C \in Named
<1>1. Deletion(C) \in Line
  BY DEF Line
<1> QED
  BY <1>1 DEF Deletion, Named

LEMMA StepDecClauseMult ==
  ASSUME file \in Seq(Line), Reading, Parsed, NEW C \in DelClauses, ReadLine(Deletion(C)),
         NEW a \in Matches(C), DecClauseMult(C, a)
  PROVE  Parsed'
<1>1. PICK x : x = Deletion(C)
  OBVIOUS
<1>2. x \in Line /\ x.type = "delete" /\ x.clause = C
  BY <1>1, DeletionIs
<1>3. /\ ReadLine(x) /\ pc' \in {"parse", "parsed"}
      /\ clause_mults[a.id] > 1 /\ clause_mults' = [clause_mults EXCEPT ![a.id] = @ - 1]
      /\ witnesses' = witnesses /\ db' = db /\ clause_id_ht' = clause_id_ht
      /\ bcu_deletions' = bcu_deletions /\ num_parsed_add_lines' = num_parsed_add_lines
      /\ num_cnf_clauses' = num_cnf_clauses /\ next' = next /\ clauses_lui' = clauses_lui
  BY <1>1 DEF DecClauseMult, AfterLine
<1>4. PICK H : H = Len(file)
  OBVIOUS
<1>5. /\ pc = "parse" /\ NextLine(x, H) /\ H \in Nat /\ Hashed = H
      /\ Entered = formula_size /\ formula_size \in Nat
      /\ formula_size = num_cnf_clauses + num_parsed_add_lines
      /\ formula_size <= H
  BY <1>2, <1>3, <1>4, ReadIsNext
<1>6. formula_size' = formula_size /\ Entered' = Entered
  BY <1>3, <1>5 DEF formula_size, Entered
<1>7. a \in clause_id_ht /\ a.hashed = x.clause /\ a.id \in Ids /\ clause_mults[a.id] \in Nat
  BY <1>2, EntryFacts
<1>8. Uncounting(x, a)
  BY <1>2, <1>3, <1>6, <1>7 DEF Uncounting
<1>9. Kept
  BY <1>3, <1>5, <1>6 DEF Kept
<1>10. ProofLines' = ProofLines /\ Firsts' = Firsts /\ ~LastOf(x, H) /\ DeletedOnce'
  BY <1>2, <1>5, <1>8, Advance, DeletedUncounting
<1>11. Table'
  BY <1>5, <1>8, <1>9, TableUncounting
<1>12. Stored'
  <2>1. /\ db'.deleted \subseteq 1..num_cnf_clauses
        /\ \A id \in db'.deleted : id <= Entered'
    BY <1>3, <1>6 DEF Parsed, Stored
  <2> QED
    BY <1>3, <1>5, <1>10, <2>1, StoredSame
<1>13. Ranged'
  BY <1>3, <1>5, <1>10, RangedSame
<1>14. Witnessed'
  BY <1>3, <1>5, <1>10, WitnessedSame
<1>15. Phases'
  <2>1. formula_size' = num_cnf_clauses + num_parsed_add_lines' /\ formula_size' <= Len(file) + 1
    BY <1>3, <1>4, <1>5, <1>6
  <2> QED
    BY <1>2, <1>3, <2>1, PhasesParse
<1>16. Shape'
  <2>1. clause_mults \in [Ids -> Nat]
    BY DEF Parsed, Shape
  <2>2. clause_mults[a.id] - 1 \in Nat
    BY <1>3, <1>7
  <2>3. clause_mults' \in [Ids -> Nat]
    BY <1>3, <1>7, <2>1, <2>2
  <2> QED
    BY <1>3, <2>3 DEF Parsed, Shape, Clause, Ids, MaxId
<1> QED
  BY <1>10, <1>11, <1>12, <1>13, <1>14, <1>15, <1>16 DEF Parsed

LEMMA StepDeleteLastCopy ==
  ASSUME file \in Seq(Line), Reading, Parsed, NEW C \in DelClauses, ReadLine(Deletion(C)),
         NEW a \in Matches(C), DeleteLastCopy(C, a)
  PROVE  Parsed'
<1>1. PICK x : x = Deletion(C)
  OBVIOUS
<1>2. x \in Line /\ x.type = "delete" /\ x.clause = C
  BY <1>1, DeletionIs
<1>3. /\ ReadLine(x) /\ pc' \in {"parse", "parsed"} /\ clause_mults[a.id] = 1
      /\ RemoveFromTable(a) /\ MarkUserDeleted(a.id, num_parsed_add_lines)
      /\ bcu_deletions' = R!InsertElt(bcu_deletions, a.id)
      /\ clause_mults' = clause_mults /\ witnesses' = witnesses /\ db' = db
      /\ num_parsed_add_lines' = num_parsed_add_lines
      /\ num_cnf_clauses' = num_cnf_clauses /\ next' = next
  BY <1>1 DEF DeleteLastCopy, AfterLine
<1>4. PICK H : H = Len(file)
  OBVIOUS
<1>5. /\ pc = "parse" /\ NextLine(x, H) /\ H \in Nat /\ Hashed = H
      /\ Entered = formula_size /\ formula_size \in Nat
      /\ formula_size = num_cnf_clauses + num_parsed_add_lines
      /\ formula_size <= H /\ num_parsed_add_lines \in Nat
  BY <1>2, <1>3, <1>4, ReadIsNext
<1>6. formula_size' = formula_size /\ Entered' = Entered
  BY <1>3, <1>5 DEF formula_size, Entered
<1>7. a \in clause_id_ht /\ a.hashed = x.clause /\ a.id \in Ids
  BY <1>2, EntryFacts
<1>8. Forgetting(x, a)
  BY <1>2, <1>3, <1>6, <1>7 DEF Forgetting
<1>9. Kept
  BY <1>3, <1>5, <1>6 DEF Kept
<1>10. ProofLines' = ProofLines /\ DeletedOnce'
  BY <1>2, <1>5, <1>8, Advance, DeletedForgetting
<1>11. Table'
  BY <1>5, <1>8, <1>9, TableForgetting
<1>12. Stored'
  <2>1. /\ db'.deleted \subseteq 1..num_cnf_clauses
        /\ \A id \in db'.deleted : id <= Entered'
    BY <1>3, <1>6 DEF Parsed, Stored
  <2> QED
    BY <1>3, <1>5, <1>10, <2>1, StoredSame
<1>13. Ranged'
  <2>1. bcu_deletions' = DP!InsertElt(bcu_deletions, a.id)
    BY <1>3 DEF R!InsertElt, R!Array, DP!InsertElt, DP!Array
  <2> QED
    BY <1>3, <1>5, <1>8, <2>1, RangedForgetting
<1>14. Witnessed'
  BY <1>3, <1>5, <1>10, WitnessedSame
<1>15. Phases'
  <2>1. formula_size' = num_cnf_clauses + num_parsed_add_lines' /\ formula_size' <= Len(file) + 1
    BY <1>3, <1>4, <1>5, <1>6
  <2> QED
    BY <1>2, <1>3, <2>1, PhasesParse
<1>16. Shape'
  <2>1. clauses_lui \in [Ids -> Int]
    BY DEF Parsed, Shape
  <2>2. clauses_lui' \in [Ids -> Int]
    BY <1>3, <1>5, <1>7, <2>1 DEF MarkUserDeleted
  <2> QED
    BY <1>3, <2>2 DEF Parsed, Shape, Clause, Ids, MaxId
<1> QED
  BY <1>10, <1>11, <1>12, <1>13, <1>14, <1>15, <1>16 DEF Parsed

(* A deletion of a clause that has copies does not read outside the database, *)
(* and one of a clause that has none is refused.                             *)
LEMMA StepDeletionLine ==
  ASSUME file \in Seq(Line), Reading, Parsed, NEW C \in DelClauses, DeletionLine(C)
  PROVE  (Parsed' /\ pc' \in {"parse", "parsed"}) \/ (pc' = "FATAL" /\ Refused')
<1>1. PICK x : x = Deletion(C)
  OBVIOUS
<1>2. x \in Line /\ x.type = "delete" /\ x.clause = C /\ x.clause \in Named
  BY <1>1, DeletionIs
<1>3. ReadLine(x)
  BY <1>1 DEF DeletionLine
<1>4. CASE Matches(C) = {} /\ Fatal
  <2>1. PICK H : H = Len(file)
    OBVIOUS
  <2>2. H \in Nat /\ Len(file') = H + 1 /\ file'[H + 1] = x /\ SameLines(H) /\ pc = "parse"
    BY <1>2, <1>3, <2>1, Appending DEF ReadLine, SameLines
  <2>3. Copies(C, H) = 0
    <3>1. \A e \in clause_id_ht : e.hashed # C
      BY <1>4, EntryFacts
    <3>2. Hashed = H
      BY <2>1, <2>2 DEF Hashed
    <3> QED
      BY <1>2, <3>1, <3>2 DEF Parsed, Table
  <2>4. Copies(C, H)' = Copies(C, H)
    BY <2>2, CopiesKept
  <2>5. file'[Len(file')] = x /\ Len(file') - 1 = H /\ Len(file') >= 1
    BY <2>2
  <2>6. Refused'
    BY <1>2, <2>3, <2>4, <2>5 DEF Refused
  <2> QED
    BY <1>4, <2>6 DEF Fatal
<1>5. ASSUME NEW e \in Matches(C), DecClauseMult(C, e)
      PROVE  Parsed' /\ pc' \in {"parse", "parsed"}
  BY <1>1, <1>3, <1>5, StepDecClauseMult DEF DecClauseMult, AfterLine
<1>6. ASSUME NEW e \in Matches(C), DeleteLastCopy(C, e)
      PROVE  Parsed' /\ pc' \in {"parse", "parsed"}
  BY <1>1, <1>3, <1>6, StepDeleteLastCopy DEF DeleteLastCopy, AfterLine
<1>7. ASSUME NEW e \in Matches(C), UnsafeRead(C, {e.id}) PROVE FALSE
  <2>1. e.id \notin db.deleted
    BY EntryFacts
  <2> QED
    BY <1>7, <2>1 DEF UnsafeRead
<1> QED
  BY <1>4, <1>5, <1>6, <1>7 DEF DeletionLine

LEMMA StepTautologyLine ==
  ASSUME file \in Seq(Line), NEW line \in AddLines, TautologyLine(line)
  PROVE  pc' = "FATAL" /\ Refused'
<1>1. PICK x : x = Addition(line)
  OBVIOUS
<1>2. x \in Line /\ x.type = "add" /\ x.clause = line.clause
  BY <1>1, AdditionLine
<1>3. PICK H : H = Len(file)
  OBVIOUS
<1>4. H \in Nat /\ Len(file') = H + 1 /\ file'[H + 1] = x
  BY <1>1, <1>2, <1>3, Appending DEF TautologyLine, ReadLine
<1>5. file'[Len(file')] = x /\ Len(file') >= 1
  BY <1>4
<1>6. Tautology(x.clause)
  BY <1>2 DEF TautologyLine
<1>7. Refused'
  BY <1>2, <1>5, <1>6 DEF Refused, Tautology
<1> QED
  BY <1>7 DEF TautologyLine, Fatal

-----------------------------------------------------------------------------
(***************************************************************************)
(* The formula.                                                             *)
(***************************************************************************)
CnfReady ==
  /\ pc = "cnf" /\ file \in Seq(Line) /\ Shape /\ Phases
  /\ db.deleted = {} /\ \A i \in 1..Len(file) : db.stored[i] = file[i].clause
  /\ \A id \in Ids : clause_mults[id] = 1 /\ clauses_lui[id] = UNUSED

LEMMA CnfParsed == CnfReady => Parsed
<1> SUFFICES ASSUME CnfReady PROVE Parsed
  OBVIOUS
<1>1. /\ pc = "cnf" /\ file \in Seq(Line) /\ Shape /\ Phases
      /\ num_parsed_add_lines = 0 /\ clause_id_ht = {}
      /\ bcu_deletions = R!EmptyRA /\ witnesses = R!EmptyRA
      /\ formula_size = Len(file) /\ Len(file) <= num_cnf_clauses
      /\ num_cnf_clauses \in Nat
  BY DEF CnfReady, Phases, Shape
<1>2. Hashed = 0 /\ Entered = 0
  BY <1>1 DEF Hashed, Entered
<1>3. Firsts = {} /\ \A n : Before(n) = {}
  <2>1. Firsts = {}
    BY <1>2 DEF Firsts
  <2> QED
    BY <2>1 DEF Before
<1>4. ProofLines = {} /\ Cardinality(ProofLines) = 0
  <2>1. \A i \in 1..Len(file) : file[i].type = "cnf"
    <3>1. \A i \in 1..Len(file) : i <= num_cnf_clauses
      BY <1>1
    <3> QED
      BY <1>1, <3>1 DEF Phases
  <2>2. ProofLines = {}
    BY <1>1, <2>1, ProofLineFacts
  <2> QED
    BY <2>2, FS_EmptySet
<1>5. \A C : Copies(C, 0) = 0
  BY CopiesNext
<1>6. Table
  BY <1>1, <1>2, <1>5 DEF Table, CnfReady
<1>7. Stored
  BY <1>1, <1>4 DEF Stored, CnfReady
<1>8. DeletedOnce
  BY <1>1, <1>2, <1>3 DEF DeletedOnce
<1>9. PICK x : x = [i \in 0..MaxId |-> 0]
  OBVIOUS
<1>10. x \in [0..MaxId -> Nat] /\ x[0] = 0
  BY <1>9, MaxIdType
<1>11. Ranged
  <2>1. bcu_deletions = DP!Array(<< >>, x, 0)
    BY <1>1, <1>9 DEF R!EmptyRA, R!Array, DP!Array
  <2>2. DP!Good(bcu_deletions) /\ DP!Pending(bcu_deletions) = << >>
    BY <1>10, <2>1, DPAssumption, DP!EmptyGood, DP!EmptyRanges
  <2>3. bcu_deletions.indexes_size = 0
    BY <2>1 DEF DP!Array
  <2>4. DP!RangeAt(bcu_deletions, 0) = << >>
    BY <2>2, <2>3, RangesOfDeletions
  <2>5. \A n \in 0..0 : n = 0
    OBVIOUS
  <2> QED
    BY <1>1, <1>3, <2>2, <2>3, <2>4, <2>5, EmptyInjective DEF Ranged
<1>12. Witnessed
  <2>1. witnesses = WP!Array(<< >>, x, 0)
    BY <1>1, <1>9 DEF R!EmptyRA, R!Array, WP!Array
  <2>2. WP!Good(witnesses)
    BY <1>10, <2>1, WPAssumption, WP!EmptyGood
  <2>3. witnesses.indexes_size = 0
    BY <2>1 DEF WP!Array
  <2> QED
    BY <1>1, <1>4, <2>2, <2>3 DEF Witnessed
<1> QED
  BY <1>1, <1>6, <1>7, <1>8, <1>11, <1>12 DEF Parsed

LEMMA CnfParsedNext == (CnfReady => Parsed)'
BY CnfParsed, PTL

LEMMA ParsedIsReady ==
  ASSUME file \in Seq(Line), pc = "cnf", Parsed
  PROVE  CnfReady
<1>1. Hashed = 0 /\ Entered = 0 /\ Reading
  BY DEF Hashed, Entered, Reading
<1>2. /\ Shape /\ Phases /\ Len(file) <= num_cnf_clauses /\ Len(file) \in Nat
      /\ num_cnf_clauses \in Nat
  BY <1>1, Context DEF Parsed, Phases
<1>3. db.deleted = {}
  <2>1. \A id \in db.deleted : id \in 1..num_cnf_clauses /\ id <= 0
    BY <1>1 DEF Parsed, Stored
  <2> QED
    BY <1>2, <2>1
<1>4. \A i \in 1..Len(file) : db.stored[i] = file[i].clause
  BY <1>2, <1>3 DEF Parsed, Stored
<1>5. \A id \in Ids : id > 0
  BY MaxIdType DEF Ids
<1>6. \A id \in Ids : clause_mults[id] = 1 /\ clauses_lui[id] = UNUSED
  BY <1>1, <1>5 DEF Parsed, Table
<1> QED
  BY <1>2, <1>3, <1>4, <1>6 DEF CnfReady

LEMMA InitParsed == Init => Parsed /\ file \in Seq(Line)
<1> SUFFICES ASSUME Init PROVE Parsed /\ file \in Seq(Line)
  OBVIOUS
<1>1. /\ pc = "cnf" /\ file = << >> /\ file \in Seq(Line) /\ Len(file) = 0
      /\ db = EmptyDB /\ next = 1 /\ num_cnf_clauses \in MinCnf..MaxCnf
  BY DEF Init
<1>2. db.stored = << >> /\ db.deleted = {} /\ Len(db.stored) = 0 /\ db.stored \in Seq(Clause)
  BY <1>1 DEF EmptyDB
<1>3. num_cnf_clauses \in Nat \ {0} /\ num_cnf_clauses <= MaxCnf
  BY <1>1, ParseAssumption
<1>4. /\ \A id \in Ids : clause_mults[id] = 1 /\ clauses_lui[id] = UNUSED
      /\ clause_mults \in [Ids -> Nat] /\ clauses_lui \in [Ids -> Int]
  BY DEF Init, UNUSED
<1>5. Shape
  <2>1. db = [stored |-> db.stored, deleted |-> db.deleted, lits_db_size |-> db.lits_db_size,
              lits_db_deleted_size |-> db.lits_db_deleted_size]
    BY <1>1 DEF EmptyDB
  <2>2. next \in Nat \ {0} /\ num_parsed_add_lines \in Nat
    BY DEF Init
  <2> QED
    BY <1>2, <1>3, <1>4, <2>1, <2>2 DEF Shape
<1>6. Phases
  BY <1>1, <1>2, <1>3 DEF Phases, Init, formula_size
<1>7. CnfReady
  BY <1>1, <1>2, <1>4, <1>5, <1>6 DEF CnfReady
<1> QED
  BY <1>1, <1>7, CnfParsed

LEMMA StepCnfClause ==
  ASSUME file \in Seq(Line), Parsed, NEW C \in CnfClauses, CnfClause(C), ~TautologyInCnf'
  PROVE  Parsed'
<1>1. PICK x : x = CnfLine(C)
  OBVIOUS
<1>2. x \in Line /\ x.type = "cnf" /\ x.clause = C /\ C \in Clause
  BY <1>1 DEF CnfLine, Line, Clause
<1>3. /\ pc = "cnf" /\ pc' = "cnf" /\ formula_size < num_cnf_clauses /\ file' = Append(file, x)
      /\ num_cnf_clauses' = num_cnf_clauses /\ next' = next
      /\ clause_id_ht' = clause_id_ht /\ clause_mults' = clause_mults
      /\ clauses_lui' = clauses_lui /\ bcu_deletions' = bcu_deletions
      /\ witnesses' = witnesses /\ num_parsed_add_lines' = num_parsed_add_lines
  BY <1>1 DEF CnfClause, tables
<1>4. CnfReady
  BY <1>3, ParsedIsReady
<1>5. PICK n \in Nat : n = Len(file)
  BY Lines
<1>6. /\ file' \in Seq(Line) /\ Len(file') = n + 1 /\ file'[n + 1] = x
      /\ \A i \in 1..n : file'[i] = file[i]
      /\ DOMAIN file' = 1..n + 1
  BY <1>2, <1>3, <1>5, Appending, Lines
<1>7. ~Tautology(C)
  <2>1. n + 1 \in DOMAIN file' /\ file'[n + 1].type = "cnf" /\ file'[n + 1].clause = C
    BY <1>2, <1>6
  <2> SUFFICES ASSUME Tautology(C) PROVE FALSE
    OBVIOUS
  <2>2. TautologyInCnf'
    BY <2>1 DEF TautologyInCnf, Tautology
  <2> QED
    BY <2>2
<1>8. /\ Database(db) /\ db.stored \in Seq(Clause) /\ Len(db.stored) = n /\ db.deleted = {}
      /\ n < num_cnf_clauses /\ num_cnf_clauses \in Nat
      /\ \A i \in 1..n : db.stored[i] = file[i].clause
  BY <1>3, <1>4, <1>5 DEF CnfReady, Phases, Shape, Database, formula_size
<1>9. db' = CommitClause(db, C)
  BY <1>7 DEF CnfClause
<1>10. /\ Database(db') /\ db'.stored = Append(db.stored, C) /\ db'.deleted = {}
  BY <1>2, <1>8, <1>9, Committing
<1>11. /\ db'.stored \in Seq(Clause) /\ Len(db'.stored) = n + 1 /\ db'.stored[n + 1] = C
       /\ \A i \in 1..n : db'.stored[i] = db.stored[i]
  BY <1>2, <1>8, <1>10, AppendProperties
<1>12. \A i \in 1..n + 1 : i \in 1..n \/ i = n + 1
  OBVIOUS
<1>13. \A i \in 1..Len(file') : db'.stored[i] = file'[i].clause
  BY <1>2, <1>6, <1>8, <1>11, <1>12
<1>14. Shape'
  BY <1>3, <1>4, <1>10 DEF CnfReady, Shape, Database, Clause, Ids, MaxId
<1>15. \A i \in 1..Len(file') : /\ file'[i].type = "cnf" <=> i <= num_cnf_clauses
                                /\ file'[i].type # "delete" => ~Tautology(file'[i].clause)
  <2> SUFFICES ASSUME NEW i \in 1..n + 1
               PROVE  /\ file'[i].type = "cnf" <=> i <= num_cnf_clauses
                      /\ file'[i].type # "delete" => ~Tautology(file'[i].clause)
    BY <1>6
  <2>1. CASE i \in 1..n
    BY <1>4, <1>5, <1>6, <2>1 DEF CnfReady, Phases
  <2>2. CASE i = n + 1
    BY <1>2, <1>6, <1>7, <1>8, <2>2
  <2> QED
    BY <1>12, <2>1, <2>2
<1>16. formula_size' = Len(file') /\ Len(file') <= num_cnf_clauses
  BY <1>6, <1>8, <1>11 DEF formula_size
<1>17. Phases'
  <2>1. /\ num_parsed_add_lines' = 0 /\ bcu_deletions' = R!EmptyRA /\ witnesses' = R!EmptyRA
        /\ clause_id_ht' = {} /\ next' = 1
    BY <1>3, <1>4 DEF CnfReady, Phases
  <2> QED
    BY <1>3, <1>15, <1>16, <2>1 DEF Phases, R!EmptyRA, R!Array, MaxId
<1>18. \A id \in Ids : clause_mults'[id] = 1 /\ clauses_lui'[id] = UNUSED
  BY <1>3, <1>4 DEF CnfReady
<1>19. CnfReady'
  BY <1>3, <1>6, <1>10, <1>13, <1>14, <1>17, <1>18 DEF CnfReady, Ids, MaxId, UNUSED, Line
<1> QED
  BY <1>19, CnfParsedNext

(* A step of the parser alone: no line is read and nothing is looked up.     *)
LEMMA ParserMoves ==
  ASSUME file \in Seq(Line), Reading, Parsed,
         UNCHANGED <<num_cnf_clauses, db, next, tables, witnesses, num_parsed_add_lines, file>>,
         UNCHANGED <<Hashed, Entered>>, Phases'
  PROVE  Parsed'
<1>1. /\ num_cnf_clauses' = num_cnf_clauses /\ db' = db /\ next' = next
      /\ clause_id_ht' = clause_id_ht /\ clause_mults' = clause_mults
      /\ clauses_lui' = clauses_lui /\ bcu_deletions' = bcu_deletions
      /\ witnesses' = witnesses /\ num_parsed_add_lines' = num_parsed_add_lines
      /\ file' = file /\ Hashed' = Hashed /\ Entered' = Entered
  BY DEF tables
<1>2. \A C, k : Copies(C, k)' = Copies(C, k)
  BY <1>1 DEF Copies
<1>3. ProofLines' = ProofLines /\ \A k : LinesBefore(k)' = LinesBefore(k)
  <2>1. ProofLines' = ProofLines
    BY <1>1 DEF ProofLines, FirstCopies, Copies
  <2> QED
    BY <2>1 DEF LinesBefore
<1>4. \A k : /\ LastCopyDeletions(k)' = LastCopyDeletions(k)
             /\ DeletedBefore(k)' = DeletedBefore(k)
  <2>1. \A k : LastCopyDeletions(k)' = LastCopyDeletions(k)
    BY <1>1 DEF LastCopyDeletions, Copies
  <2> QED
    BY <1>3, <2>1 DEF DeletedBefore
<1>5. Firsts' = Firsts
  BY <1>1 DEF Firsts, Copies
<1>6. \A k : IdOfLine(k)' = IdOfLine(k) /\ IdOf(k)' = IdOf(k) /\ EntryOf(k)' = EntryOf(k)
  BY <1>1, <1>3 DEF IdOf, IdOfLine, EntryOf
<1>7. \A n : Before(n)' = Before(n)
  BY <1>4, <1>5, <1>6 DEF Before
<1>8. Shape'
  BY <1>1 DEF Parsed, Shape, Clause, Ids, MaxId
<1>9. Table'
  BY <1>1, <1>2 DEF Parsed, Table, Named, Clause, Ids, MaxId, UNUSED
<1>10. Stored'
  BY <1>1, <1>3, <1>6 DEF Parsed, Stored
<1>11. DeletedOnce'
  BY <1>1, <1>4, <1>5, <1>6 DEF Parsed, DeletedOnce
<1>12. Ranged'
  BY <1>1, <1>7 DEF Parsed, Ranged
<1>13. Witnessed'
  BY <1>1, <1>3 DEF Parsed, Witnessed
<1> QED
  BY <1>8, <1>9, <1>10, <1>11, <1>12, <1>13 DEF Parsed

LEMMA PhasesKept ==
  ASSUME file \in Seq(Line), Parsed, pc # "cnf", pc' # "cnf",
         UNCHANGED <<num_cnf_clauses, file, num_parsed_add_lines>>,
         formula_size' = formula_size,
         pc' = "prepare" =>
           /\ bcu_deletions' = R!EmptyRA /\ witnesses' = R!EmptyRA /\ num_parsed_add_lines = 0
           /\ Len(file) = num_cnf_clauses /\ next' <= num_cnf_clauses + 1
  PROVE  Phases'
<1>1. /\ num_cnf_clauses' = num_cnf_clauses /\ file' = file
      /\ num_parsed_add_lines' = num_parsed_add_lines
  OBVIOUS
<1>2. \A i \in 1..Len(file) : /\ file[i].type = "cnf" <=> i <= num_cnf_clauses
                              /\ file[i].type # "delete" => ~Tautology(file[i].clause)
  BY DEF Parsed, Phases
<1>3. /\ formula_size = num_cnf_clauses + num_parsed_add_lines
      /\ formula_size <= Len(file) /\ Len(file) <= num_cnf_clauses + MaxLines
  BY DEF Parsed, Phases
<1> QED
  BY <1>1, <1>2, <1>3 DEF Phases, R!EmptyRA, R!Array, MaxId

LEMMA StepPrepare ==
  ASSUME file \in Seq(Line), Parsed, Prepare
  PROVE  (Parsed' /\ pc' = "prepare") \/ (pc' = "FATAL" /\ Refused')
<1>1. pc = "cnf" /\ formula_size = num_cnf_clauses /\ file' = file
      /\ num_cnf_clauses \in Nat \ {0} /\ Reading
  BY DEF Prepare, Parsed, Shape, Reading
<1>2. /\ num_parsed_add_lines = 0 /\ bcu_deletions = R!EmptyRA /\ witnesses = R!EmptyRA
      /\ formula_size = Len(file) /\ next = 1
      /\ \A i \in 1..Len(file) : /\ file[i].type = "cnf" <=> i <= num_cnf_clauses
                                 /\ file[i].type # "delete" => ~Tautology(file[i].clause)
  BY <1>1 DEF Parsed, Phases
<1>3. CASE formula_size \div 2 > 0
  <2>1. /\ pc' = "prepare"
        /\ UNCHANGED <<num_cnf_clauses, db, next, tables, witnesses, num_parsed_add_lines, file>>
    BY <1>1, <1>3 DEF Prepare
  <2>2. Hashed' = Hashed /\ Entered' = Entered
    BY <1>1, <1>2, <2>1 DEF Hashed, Entered
  <2>3. Phases'
    <3>1. /\ num_cnf_clauses' = num_cnf_clauses /\ file' = file /\ formula_size' = formula_size
          /\ num_parsed_add_lines' = 0 /\ bcu_deletions' = bcu_deletions
          /\ witnesses' = witnesses /\ next' = 1
      BY <1>2, <2>1 DEF tables, formula_size
    <3>2. num_cnf_clauses + 0 = num_cnf_clauses /\ 1 <= num_cnf_clauses + 1
          /\ num_cnf_clauses <= num_cnf_clauses + MaxLines
      BY <1>1, MaxIdType
    <3>3. /\ formula_size' = num_cnf_clauses' + num_parsed_add_lines'
          /\ formula_size' <= Len(file') /\ Len(file') <= num_cnf_clauses' + MaxLines
          /\ Len(file') = num_cnf_clauses' /\ next' <= num_cnf_clauses' + 1
      <4>1. PICK n \in Nat : n = num_cnf_clauses
        BY <1>1
      <4>2. /\ formula_size' = n /\ num_cnf_clauses' = n /\ num_parsed_add_lines' = 0
            /\ Len(file') = n /\ next' = 1
        BY <1>1, <1>2, <3>1, <4>1
      <4>3. n = n + 0 /\ n <= n /\ n <= n + MaxLines /\ 1 <= n + 1
        BY ONLY <4>1, MaxIdType
      <4> QED
        BY <4>2, <4>3
    <3>4. bcu_deletions' = R!EmptyRA /\ witnesses' = R!EmptyRA /\ num_parsed_add_lines' = 0
      BY <1>2, <3>1
    <3>5. \A i \in 1..Len(file') : /\ file'[i].type = "cnf" <=> i <= num_cnf_clauses'
                                   /\ file'[i].type # "delete" => ~Tautology(file'[i].clause)
      BY <1>2, <3>1
    <3> QED
      BY <2>1, <3>3, <3>4, <3>5 DEF Phases, R!EmptyRA, R!Array, MaxId
  <2> QED
    BY <1>1, <2>1, <2>2, <2>3, ParserMoves
<1>4. CASE ~(formula_size \div 2 > 0)
  <2>1. pc' = "FATAL" /\ num_cnf_clauses' = num_cnf_clauses
    BY <1>4 DEF Prepare, Fatal
  <2>2. num_cnf_clauses = 1
    <3>1. ~(num_cnf_clauses \div 2 > 0)
      BY <1>1, <1>4
    <3> QED
      BY <1>1, <3>1
  <2> QED
    BY <2>1, <2>2 DEF Refused
<1> QED
  BY <1>3, <1>4

LEMMA StepStartProof ==
  ASSUME file \in Seq(Line), Parsed, StartProof
  PROVE  Parsed'
<1>1. /\ pc = "prepare" /\ next > formula_size /\ pc' = "parse" /\ Reading
      /\ UNCHANGED <<num_cnf_clauses, db, next, tables, witnesses, num_parsed_add_lines, file>>
  BY DEF StartProof, Reading
<1>2. /\ Len(file) = num_cnf_clauses /\ num_parsed_add_lines = 0 /\ next <= num_cnf_clauses + 1
      /\ formula_size = num_cnf_clauses + num_parsed_add_lines
      /\ num_cnf_clauses \in Nat /\ next \in Nat
  BY <1>1 DEF Parsed, Phases, Shape
<1>3. Hashed' = Hashed /\ Entered' = Entered
  <2>1. next - 1 = Len(file) /\ next - 1 = formula_size
    BY <1>1, <1>2
  <2> QED
    BY <1>1, <2>1 DEF Hashed, Entered, formula_size
<1>4. Phases'
  BY <1>1, PhasesKept DEF formula_size
<1> QED
  BY <1>1, <1>3, <1>4, ParserMoves

LEMMA StepEndOfFile ==
  ASSUME file \in Seq(Line), Parsed, EndOfFile
  PROVE  Parsed'
<1>1. /\ pc = "parse" /\ pc' = "parsed" /\ Reading
      /\ UNCHANGED <<num_cnf_clauses, db, next, tables, witnesses, num_parsed_add_lines, file>>
  BY DEF EndOfFile, Reading
<1>2. Hashed' = Hashed /\ Entered' = Entered
  BY <1>1 DEF Hashed, Entered, formula_size
<1>3. Phases'
  BY <1>1, PhasesKept DEF formula_size
<1> QED
  BY <1>1, <1>2, <1>3, ParserMoves

LEMMA StepUnchanged ==
  ASSUME file \in Seq(Line), Reading, Parsed, UNCHANGED vars
  PROVE  Parsed'
<1>1. /\ pc' = pc
      /\ UNCHANGED <<num_cnf_clauses, db, next, tables, witnesses, num_parsed_add_lines, file>>
  BY DEF vars
<1>2. Hashed' = Hashed /\ Entered' = Entered
  BY <1>1 DEF Hashed, Entered, formula_size
<1>3. Phases'
  BY <1>1 DEF Parsed, Phases, formula_size, tables, R!EmptyRA, R!Array, MaxId, Tautology
<1> QED
  BY <1>1, <1>2, <1>3, ParserMoves

(***************************************************************************)
(* prepare_dsr_trim_data(): the clauses of the formula are hashed in order.  *)
(***************************************************************************)
LEMMA HashedNext ==
  ASSUME file \in Seq(Line), Reading, Parsed, AddFormulaClauseToHt, pc' = "prepare",
         next' = next + 1, UNCHANGED num_cnf_clauses
  PROVE  /\ pc = "prepare" /\ next \in Nat \ {0} /\ next <= num_cnf_clauses
         /\ Len(file) = num_cnf_clauses /\ num_cnf_clauses \in Nat /\ file' = file
         /\ formula_size = num_cnf_clauses /\ num_parsed_add_lines = 0
         /\ NextLine(file[next], next - 1) /\ file[next].type = "cnf"
         /\ ~Tautology(file[next].clause) /\ next \in Ids
         /\ db.stored[next] = file[next].clause /\ next \notin db.deleted
         /\ Hashed = next - 1 /\ Entered = next - 1 /\ Entered' = next
<1>1. /\ pc = "prepare" /\ next <= formula_size /\ file' = file
      /\ num_cnf_clauses' = num_cnf_clauses
  BY DEF AddFormulaClauseToHt
<1>2. /\ Len(file) = num_cnf_clauses /\ num_cnf_clauses \in Nat /\ formula_size = num_cnf_clauses
      /\ num_parsed_add_lines = 0 /\ next \in Nat \ {0} /\ num_cnf_clauses <= MaxCnf
  <2>1. /\ Len(file) = num_cnf_clauses /\ num_parsed_add_lines = 0
        /\ formula_size = num_cnf_clauses + num_parsed_add_lines
        /\ num_cnf_clauses \in Nat /\ next \in Nat \ {0} /\ num_cnf_clauses <= MaxCnf
    BY <1>1 DEF Parsed, Phases, Shape
  <2> QED
    BY <2>1
<1>3. next \in 1..Len(file) /\ next \in Ids
  BY <1>1, <1>2, MaxIdType DEF Ids
<1>4. file[next] \in Line /\ file[next].type = "cnf" /\ ~Tautology(file[next].clause)
  <2>1. file[next] \in Line
    BY <1>3, Lines
  <2>2. next <= num_cnf_clauses
    BY <1>1, <1>2
  <2>3. file[next].type = "cnf"
    BY <1>3, <2>2 DEF Parsed, Phases
  <2> QED
    BY <1>3, <2>1, <2>3 DEF Parsed, Phases
<1>5. Hashed = next - 1 /\ Entered = next - 1
  BY <1>1 DEF Hashed, Entered
<1>6. next \notin db.deleted
  <2>1. \A id \in db.deleted : id <= next - 1
    BY <1>5 DEF Parsed, Stored
  <2> QED
    BY <1>2, <2>1
<1>7. db.stored[next] = file[next].clause
  BY <1>1, <1>2, <1>3, <1>6 DEF Parsed, Stored
<1>8. (next - 1) + 1 = next /\ (next + 1) - 1 = next
  BY <1>2
<1>9. Hashed' = next /\ Entered' = next
  BY <1>8 DEF Hashed, Entered
<1>10. NextLine(file[next], next - 1)
  BY <1>1, <1>2, <1>4, <1>5, <1>8, <1>9 DEF NextLine
<1> QED
  BY <1>1, <1>2, <1>3, <1>4, <1>5, <1>6, <1>7, <1>9, <1>10

LEMMA StepHashNew ==
  ASSUME file \in Seq(Line), Reading, Parsed, AddFormulaClauseToHt,
         Matches(db.stored[next]) = {}, AddToTable(next, db.stored[next]), next' = next + 1,
         UNCHANGED <<pc, num_cnf_clauses, db, clause_mults, clauses_lui,
                     bcu_deletions, witnesses, num_parsed_add_lines>>
  PROVE  Parsed' /\ pc' = "prepare"
<1>1. pc = "prepare" /\ pc' = "prepare" /\ num_cnf_clauses' = num_cnf_clauses
  BY DEF AddFormulaClauseToHt
<1>2. PICK x : x = file[next]
  OBVIOUS
<1>3. PICK H : H = next - 1
  OBVIOUS
<1>4. /\ next \in Nat \ {0} /\ next <= num_cnf_clauses
      /\ Len(file) = num_cnf_clauses /\ num_cnf_clauses \in Nat /\ file' = file
      /\ formula_size = num_cnf_clauses /\ num_parsed_add_lines = 0
      /\ NextLine(x, H) /\ x.type = "cnf" /\ ~Tautology(x.clause) /\ next \in Ids
      /\ db.stored[next] = x.clause /\ next \notin db.deleted
      /\ Hashed = H /\ Entered = H /\ Entered' = next /\ H \in Nat /\ H + 1 = next
  <2>1. /\ next \in Nat \ {0} /\ next <= num_cnf_clauses
        /\ Len(file) = num_cnf_clauses /\ num_cnf_clauses \in Nat /\ file' = file
        /\ formula_size = num_cnf_clauses /\ num_parsed_add_lines = 0
        /\ NextLine(x, H) /\ x.type = "cnf" /\ ~Tautology(x.clause) /\ next \in Ids
        /\ db.stored[next] = x.clause /\ next \notin db.deleted
        /\ Hashed = H /\ Entered = H /\ Entered' = next
    BY <1>1, <1>2, <1>3, HashedNext
  <2> QED
    BY <1>3, <2>1
<1>5. PICK id \in Nat : id = next
  BY <1>4
<1>6. Entering(x, id)
  <2>1. \A e \in clause_id_ht : e.hashed # x.clause
    BY <1>4, EntryFacts
  <2> QED
    BY <1>4, <1>5, <2>1 DEF Entering
<1>7. Kept
  BY <1>4 DEF Kept
<1>8. Copies(x.clause, H) = 0
  <2>1. x.clause \in Named
    BY <1>4, ClauseNamed
  <2> QED
    BY <1>4, <1>6, <2>1 DEF Entering, Parsed, Table
<1>9. ProofLines' = ProofLines /\ Firsts' = Firsts \cup {H + 1} /\ IdOf(H + 1)' = id
      /\ ~LastOf(x, H)
  <2>1. H + 1 <= num_cnf_clauses
    BY <1>4
  <2>2. IdOf(H + 1)' = H + 1
    BY <1>4, <2>1, NextFirst
  <2> QED
    BY <1>4, <1>5, <1>8, <2>2, Advance, NextFirst DEF LastOf
<1>10. Table'
  BY <1>4, <1>6, <1>7, TableEntering
<1>11. Stored'
  <2>1. db'.deleted \subseteq 1..num_cnf_clauses
    BY DEF Parsed, Stored
  <2>2. \A k \in db'.deleted : k <= Entered'
    <3>1. \A k \in db.deleted : k <= H /\ k \in 1..num_cnf_clauses
      BY <1>4 DEF Parsed, Stored
    <3>2. \A k \in 1..num_cnf_clauses : k <= H => k <= next
      BY <1>4
    <3> QED
      BY <1>4, <3>1, <3>2
  <2> QED
    BY <1>4, <1>9, <2>1, <2>2, StoredSame
<1>12. DeletedOnce'
  BY <1>4, <1>6, <1>9, DeletedEntering
<1>13. Ranged'
  BY <1>4, <1>9, RangedSame
<1>14. Witnessed'
  BY <1>4, <1>9, WitnessedSame
<1>15. Phases'
  <2>1. bcu_deletions = R!EmptyRA /\ witnesses = R!EmptyRA
    BY <1>1 DEF Parsed, Phases
  <2>2. next' <= num_cnf_clauses + 1 /\ formula_size' = formula_size
    BY <1>4 DEF formula_size
  <2> QED
    BY <1>1, <1>4, <2>1, <2>2, PhasesKept
<1>16. Shape'
  <2>1. next' \in Nat \ {0}
    BY <1>4
  <2> QED
    BY <2>1 DEF Parsed, Shape, Clause, Ids, MaxId
<1> QED
  BY <1>1, <1>10, <1>11, <1>12, <1>13, <1>14, <1>15, <1>16 DEF Parsed

LEMMA StepHashCopy ==
  ASSUME file \in Seq(Line), Reading, Parsed, AddFormulaClauseToHt,
         NEW a \in Matches(db.stored[next]), db' = DeleteClause(db, next),
         IncClauseMult(a.id), MarkUserDeleted(next, 0), next' = next + 1,
         UNCHANGED <<pc, num_cnf_clauses, clause_id_ht, bcu_deletions,
                     witnesses, num_parsed_add_lines>>
  PROVE  Parsed' /\ pc' = "prepare"
<1>1. pc = "prepare" /\ pc' = "prepare" /\ num_cnf_clauses' = num_cnf_clauses
  BY DEF AddFormulaClauseToHt
<1>2. PICK x : x = file[next]
  OBVIOUS
<1>3. PICK H : H = next - 1
  OBVIOUS
<1>4. /\ next \in Nat \ {0} /\ next <= num_cnf_clauses
      /\ Len(file) = num_cnf_clauses /\ num_cnf_clauses \in Nat /\ file' = file
      /\ formula_size = num_cnf_clauses /\ num_parsed_add_lines = 0
      /\ NextLine(x, H) /\ x.type = "cnf" /\ ~Tautology(x.clause) /\ next \in Ids
      /\ db.stored[next] = x.clause /\ next \notin db.deleted
      /\ Hashed = H /\ Entered = H /\ Entered' = next /\ H \in Nat /\ H + 1 = next
  <2>1. /\ next \in Nat \ {0} /\ next <= num_cnf_clauses
        /\ Len(file) = num_cnf_clauses /\ num_cnf_clauses \in Nat /\ file' = file
        /\ formula_size = num_cnf_clauses /\ num_parsed_add_lines = 0
        /\ NextLine(x, H) /\ x.type = "cnf" /\ ~Tautology(x.clause) /\ next \in Ids
        /\ db.stored[next] = x.clause /\ next \notin db.deleted
        /\ Hashed = H /\ Entered = H /\ Entered' = next
    BY <1>1, <1>2, <1>3, HashedNext
  <2> QED
    BY <1>3, <2>1
<1>5. /\ Database(db') /\ Len(db'.stored) = Len(db.stored)
      /\ db'.deleted = db.deleted \cup {next}
      /\ \A k \in 1..Len(db.stored) : k \notin db'.deleted => db'.stored[k] = db.stored[k]
  <2>1. Database(db)
    BY DEF Parsed, Shape, Database
  <2> QED
    BY <2>1, Deleting
<1>6. formula_size' = formula_size
  BY <1>5 DEF formula_size
<1>7. a \in clause_id_ht /\ a.hashed = x.clause /\ a.id \in Ids /\ clause_mults[a.id] \in Nat
      /\ Copies(x.clause, H) = clause_mults[a.id] /\ clause_mults[a.id] >= 1
  BY <1>4, EntryFacts
<1>8. Counting(x, H, a)
  BY <1>1, <1>4, <1>7 DEF Counting
<1>9. Kept
  <2>1. ASSUME NEW k \in 1..H
        PROVE  /\ k \in db'.deleted <=> k \in db.deleted
               /\ k \notin db.deleted => db'.stored[k] = db.stored[k]
    <3>1. k # next /\ k \in 1..formula_size
      BY <1>4
    <3> QED
      BY <1>5, <3>1 DEF formula_size
  <2>2. H <= next
    BY <1>4
  <2> QED
    BY <1>4, <2>1, <2>2 DEF Kept
<1>10. ProofLines' = ProofLines /\ Firsts' = Firsts /\ ~LastOf(x, H)
  <2>1. Copies(x.clause, H) # 0
    BY <1>7
  <2> QED
    BY <1>4, <2>1, Advance, NextFirst DEF LastOf
<1>11. Table'
  BY <1>4, <1>8, <1>9, TableCounting
<1>12. Stored'
  <2>1. db'.deleted \subseteq 1..num_cnf_clauses
    BY <1>4, <1>5 DEF Parsed, Stored
  <2>2. \A k \in db'.deleted : k <= Entered'
    <3>1. \A k \in db.deleted : k <= H /\ k \in 1..num_cnf_clauses
      BY <1>4 DEF Parsed, Stored
    <3>2. \A k \in 1..num_cnf_clauses : k <= H => k <= next
      BY <1>4
    <3> QED
      BY <1>4, <1>5, <3>1, <3>2
  <2> QED
    BY <1>4, <1>5, <1>10, <2>1, <2>2, StoredSame DEF formula_size
<1>13. DeletedOnce'
  BY <1>4, <1>8, DeletedCounting
<1>14. Ranged'
  BY <1>4, <1>10, RangedSame
<1>15. Witnessed'
  BY <1>4, <1>10, WitnessedSame
<1>16. Phases'
  <2>1. bcu_deletions = R!EmptyRA /\ witnesses = R!EmptyRA
    BY <1>1 DEF Parsed, Phases
  <2>2. next' <= num_cnf_clauses + 1
    BY <1>4
  <2> QED
    BY <1>1, <1>4, <1>6, <2>1, <2>2, PhasesKept
<1>17. Shape'
  <2>1. next' \in Nat \ {0}
    BY <1>4
  <2>2. clause_mults \in [Ids -> Nat] /\ clause_mults' = [clause_mults EXCEPT ![a.id] = @ + 1]
        /\ clauses_lui \in [Ids -> Int] /\ clauses_lui' = [clauses_lui EXCEPT ![next] = 0]
    BY DEF IncClauseMult, MarkUserDeleted, Parsed, Shape
  <2>3. clause_mults' \in [Ids -> Nat] /\ clauses_lui' \in [Ids -> Int]
    BY <1>4, <1>7, <2>2
  <2> QED
    BY <1>5, <2>1, <2>3 DEF Parsed, Shape, Database, Clause, Ids, MaxId
<1> QED
  BY <1>1, <1>11, <1>12, <1>13, <1>14, <1>15, <1>16, <1>17 DEF Parsed

(* No clause of the formula is deleted before it is hashed, unless it was a   *)
(* tautology: a copy of it is never refused, and never read out of bounds.   *)
LEMMA StepAddFormulaClause ==
  ASSUME file \in Seq(Line), Reading, Parsed, AddFormulaClauseToHt
  PROVE  Parsed' /\ pc' = "prepare"
<1>1. pc = "prepare" /\ next <= formula_size /\ next \in Nat
  BY DEF AddFormulaClauseToHt, Parsed, Shape
<1>2. next \notin db.deleted
  <2>1. Entered = next - 1
    BY <1>1 DEF Hashed, Entered
  <2>2. \A id \in db.deleted : id <= next - 1
    BY <2>1 DEF Parsed, Stored
  <2> QED
    BY <1>1, <2>2
<1>3. \A e \in Matches(db.stored[next]) : e.id \notin db.deleted
  BY EntryFacts
<1>4. ~ \E e \in Matches(db.stored[next]) : UnsafeRead(db.stored[next], {next, e.id})
  BY <1>2, <1>3 DEF UnsafeRead
<1>5. CASE /\ Matches(db.stored[next]) = {}
           /\ AddToTable(next, db.stored[next])
           /\ next' = next + 1
           /\ UNCHANGED <<pc, num_cnf_clauses, db, clause_mults, clauses_lui,
                          bcu_deletions, witnesses, num_parsed_add_lines>>
  BY <1>5, StepHashNew
<1>6. ASSUME NEW a \in Matches(db.stored[next]), db' = DeleteClause(db, next),
             IncClauseMult(a.id), MarkUserDeleted(next, 0), next' = next + 1,
             UNCHANGED <<pc, num_cnf_clauses, clause_id_ht, bcu_deletions,
                         witnesses, num_parsed_add_lines>>
      PROVE  Parsed' /\ pc' = "prepare"
  BY <1>6, StepHashCopy
<1> QED
  BY <1>2, <1>4, <1>5, <1>6 DEF AddFormulaClauseToHt

-----------------------------------------------------------------------------
(***************************************************************************)
(* The invariant holds initially, and every step preserves it.              *)
(***************************************************************************)
Pcs == {"cnf", "prepare", "parse", "parsed", "FATAL", "CRASH"}

(* Lines are only added: a tautology in the formula stays in the file.       *)
LEMMA FileGrows ==
  ASSUME file \in Seq(Line), [Next]_vars
  PROVE  file' \in Seq(Line) /\ (TautologyInCnf => TautologyInCnf')
<1>1. file' = file \/ \E x \in Line : file' = Append(file, x)
  <2>1. ASSUME NEW C \in CnfClauses, CnfClause(C)
        PROVE  \E x \in Line : file' = Append(file, x)
    <3>1. CnfLine(C) \in Line
      BY DEF Line
    <3> QED
      BY <2>1, <3>1 DEF CnfClause
  <2>2. ASSUME NEW C \in DelClauses, DeletionLine(C)
        PROVE  \E x \in Line : file' = Append(file, x)
    BY <2>2, DeletionIs DEF DeletionLine, ReadLine
  <2>3. ASSUME NEW line \in AddLines, TautologyLine(line) \/ NewLine(line) \/ CopyLine(line)
        PROVE  \E x \in Line : file' = Append(file, x)
    <3>1. ReadLine(Addition(line))
      BY <2>3 DEF TautologyLine, NewLine, CopyLine
    <3> QED
      BY <3>1, AdditionLine DEF ReadLine
  <2>4. CASE Prepare \/ AddFormulaClauseToHt \/ StartProof \/ EndOfFile
    BY <2>4 DEF Prepare, AddFormulaClauseToHt, StartProof, EndOfFile
  <2>5. CASE Exited \/ UNCHANGED vars
    BY <2>5 DEF Exited, vars
  <2> QED
    BY <2>1, <2>2, <2>3, <2>4, <2>5 DEF Next
<1>2. CASE file' = file
  BY <1>2 DEF TautologyInCnf
<1>3. ASSUME NEW x \in Line, file' = Append(file, x)
      PROVE  file' \in Seq(Line) /\ (TautologyInCnf => TautologyInCnf')
  <2>1. /\ file' \in Seq(Line) /\ Len(file') = Len(file) + 1 /\ Len(file) \in Nat
        /\ \A i \in 1..Len(file) : file'[i] = file[i]
    BY <1>3, Appending
  <2>2. DOMAIN file = 1..Len(file) /\ DOMAIN file' = 1..Len(file')
    BY <2>1, Lines
  <2>3. \A i \in DOMAIN file : i \in DOMAIN file' /\ file'[i] = file[i]
    BY <2>1, <2>2
  <2> QED
    BY <2>1, <2>3 DEF TautologyInCnf
<1> QED
  BY <1>1, <1>2, <1>3

LEMMA PcType ==
  ASSUME pc \in Pcs, [Next]_vars
  PROVE  pc' \in Pcs
<1>1. ASSUME NEW C \in CnfClauses, CnfClause(C)
      PROVE  pc' \in Pcs
  BY <1>1 DEF CnfClause
<1>2. ASSUME NEW C \in DelClauses, DeletionLine(C)
      PROVE  pc' \in Pcs
  BY <1>2 DEF DeletionLine, Fatal, Crash, DecClauseMult, DeleteLastCopy, AfterLine, Pcs
<1>3. ASSUME NEW line \in AddLines, TautologyLine(line) \/ NewLine(line) \/ CopyLine(line)
      PROVE  pc' \in Pcs
  BY <1>3 DEF TautologyLine, NewLine, CopyLine, Fatal, AfterLine, Pcs
<1>4. CASE Prepare \/ AddFormulaClauseToHt \/ StartProof \/ EndOfFile
  BY <1>4 DEF Prepare, AddFormulaClauseToHt, StartProof, EndOfFile, Fatal, Crash, Pcs
<1>5. CASE Exited \/ UNCHANGED vars
  BY <1>5 DEF Exited, vars
<1> QED
  BY <1>1, <1>2, <1>3, <1>4, <1>5 DEF Next

LEMMA InitInv == Init => ParseInv
<1> SUFFICES ASSUME Init PROVE ParseInv
  OBVIOUS
<1>1. Parsed /\ file \in Seq(Line) /\ pc = "cnf"
  BY InitParsed DEF Init
<1> QED
  BY <1>1 DEF ParseInv

(* A step of the parser of a formula without tautologies.                    *)
LEMMA StepParsed ==
  ASSUME file \in Seq(Line), Reading, Parsed, Next, ~TautologyInCnf'
  PROVE  (Parsed' /\ pc' \notin {"FATAL", "CRASH"}) \/ (pc' = "FATAL" /\ Refused')
<1>1. ASSUME NEW C \in CnfClauses, CnfClause(C)
      PROVE  Parsed' /\ pc' \notin {"FATAL", "CRASH"}
  <2>1. pc' = "cnf"
    BY <1>1 DEF CnfClause
  <2> QED
    BY <1>1, <2>1, StepCnfClause
<1>2. CASE Prepare
  BY <1>2, StepPrepare
<1>3. CASE AddFormulaClauseToHt
  BY <1>3, StepAddFormulaClause
<1>4. CASE StartProof
  <2>1. pc' = "parse"
    BY <1>4 DEF StartProof
  <2> QED
    BY <1>4, <2>1, StepStartProof
<1>5. ASSUME NEW C \in DelClauses, DeletionLine(C)
      PROVE  (Parsed' /\ pc' \notin {"FATAL", "CRASH"}) \/ (pc' = "FATAL" /\ Refused')
  BY <1>5, StepDeletionLine
<1>6. ASSUME NEW line \in AddLines, TautologyLine(line)
      PROVE  pc' = "FATAL" /\ Refused'
  BY <1>6, StepTautologyLine
<1>7. ASSUME NEW line \in AddLines, NewLine(line)
      PROVE  Parsed' /\ pc' \notin {"FATAL", "CRASH"}
  <2>1. pc' \in {"parse", "parsed"}
    BY <1>7 DEF NewLine, AfterLine
  <2> QED
    BY <1>7, <2>1, StepNewLine
<1>8. ASSUME NEW line \in AddLines, CopyLine(line)
      PROVE  Parsed' /\ pc' \notin {"FATAL", "CRASH"}
  <2>1. pc' \in {"parse", "parsed"}
    BY <1>8 DEF CopyLine, AfterLine
  <2> QED
    BY <1>8, <2>1, StepCopyLine
<1>9. CASE EndOfFile
  <2>1. pc' = "parsed"
    BY <1>9 DEF EndOfFile
  <2> QED
    BY <1>9, <2>1, StepEndOfFile
<1>10. CASE Exited
  <2>1. UNCHANGED vars /\ pc' \notin {"FATAL", "CRASH"}
    BY <1>10 DEF Exited, Reading, vars
  <2> QED
    BY <2>1, StepUnchanged
<1> QED
  BY <1>1, <1>2, <1>3, <1>4, <1>5, <1>6, <1>7, <1>8, <1>9, <1>10 DEF Next

LEMMA StepInv == ParseInv /\ [Next]_vars => ParseInv'
<1> SUFFICES ASSUME ParseInv, [Next]_vars PROVE ParseInv'
  OBVIOUS
<1>1. file \in Seq(Line) /\ pc \in Pcs
  BY DEF ParseInv, Pcs
<1>2. file' \in Seq(Line) /\ (TautologyInCnf => TautologyInCnf')
  BY <1>1, FileGrows
<1>3. pc' \in Pcs
  BY <1>1, PcType
<1>4. ASSUME ~TautologyInCnf'
      PROVE  /\ Reading' => Parsed'
             /\ pc' = "FATAL" => Refused'
             /\ pc' # "CRASH"
  <2>1. /\ Reading => Parsed
        /\ pc = "FATAL" => Refused
        /\ pc # "CRASH"
    BY <1>2, <1>4 DEF ParseInv
  <2>2. CASE Reading /\ Next
    <3>1. (Parsed' /\ pc' \notin {"FATAL", "CRASH"}) \/ (pc' = "FATAL" /\ Refused')
      BY <1>1, <1>4, <2>1, <2>2, StepParsed
    <3>2. Reading' => pc' # "FATAL"
      BY DEF Reading
    <3> QED
      BY <3>1, <3>2
  <2>3. CASE Reading /\ UNCHANGED vars
    <3>1. Parsed'
      BY <1>1, <2>1, <2>3, StepUnchanged
    <3>2. pc' = pc /\ pc # "FATAL"
      BY <2>3 DEF vars, Reading
    <3> QED
      BY <2>1, <3>1, <3>2
  <2>4. CASE ~Reading
    <3>1. pc = "FATAL"
      BY <1>1, <2>1, <2>4 DEF Pcs, Reading
    <3>2. UNCHANGED vars
      BY <3>1 DEF Next, CnfClause, Prepare, AddFormulaClauseToHt, StartProof, DeletionLine,
                  TautologyLine, NewLine, CopyLine, ReadLine, EndOfFile, Exited
    <3>3. pc' = "FATAL" /\ file' = file /\ num_cnf_clauses' = num_cnf_clauses
      BY <3>1, <3>2 DEF vars
    <3>4. Refused
      BY <2>1, <3>1
    <3>5. Refused'
      BY <3>3, <3>4 DEF Refused, Copies
    <3> QED
      BY <3>3, <3>5 DEF Reading
  <2> QED
    BY <2>2, <2>3, <2>4
<1> QED
  BY <1>2, <1>3, <1>4 DEF ParseInv, Pcs

(* The invariant of the parser, for every formula and every proof, whatever  *)
(* the order of its additions and deletions: while the file is read, the     *)
(* table has an entry for exactly the clauses that have copies, with their   *)
(* number, a clause leaves it at its last deletion and gets a new ID when it *)
(* comes back, and the two range arrays follow the lines of the proof.       *)
THEOREM Invariant == Spec => []ParseInv
<1>1. Init => ParseInv
  BY InitInv
<1>2. ParseInv /\ [Next]_vars => ParseInv'
  BY StepInv
<1> QED
  BY <1>1, <1>2, PTL DEF Spec

-----------------------------------------------------------------------------
(***************************************************************************)
(* What the invariant says of the file, of a state that is read.            *)
(***************************************************************************)
LEMMA Read ==
  ASSUME ParseInv, Parsing
  PROVE  /\ file \in Seq(Line) /\ Reading /\ Parsed /\ pc # "cnf"
         /\ Hashed = Len(file) /\ Entered = formula_size
         /\ DOMAIN file = 1..Len(file) /\ Len(file) \in Nat
         /\ num_cnf_clauses \in Nat \ {0} /\ num_cnf_clauses <= Len(file)
<1>1. file \in Seq(Line) /\ Reading /\ Parsed /\ pc \in {"parse", "parsed"}
  BY DEF ParseInv, Parsing, Reading
<1> QED
  BY <1>1, Context, Lines

LEMMA MultiplicityExactHolds == ParseInv => MultiplicityExact
<1> SUFFICES ASSUME ParseInv, Parsing,
                    NEW C \in {file[i].clause : i \in DOMAIN file} \ {{}}
             PROVE  /\ Cardinality(Matches(C)) <= 1
                    /\ Matches(C) = {} => Copies(C, Len(file)) = 0
                    /\ \A e \in Matches(C) : clause_mults[e.id] = Copies(C, Len(file))
  BY DEF MultiplicityExact
<1>1. /\ file \in Seq(Line) /\ Reading /\ Parsed /\ Hashed = Len(file)
      /\ DOMAIN file = 1..Len(file)
  BY Read
<1>2. C \in Named
  <2>1. PICK i \in DOMAIN file : C = file[i].clause
    OBVIOUS
  <2>2. file[i] \in Line
    BY <1>1, <2>1, Lines
  <2> QED
    BY <2>1, <2>2, LineFields
<1>3. /\ Matches(C) = {e \in clause_id_ht : e.hashed = C}
      /\ \A e, f \in clause_id_ht : e.hashed = f.hashed => e = f
      /\ \A e \in clause_id_ht : clause_mults[e.id] = Copies(e.hashed, Hashed)
  BY <1>1, EntryFacts
<1>4. Cardinality(Matches(C)) <= 1
  <2>1. CASE Matches(C) = {}
    BY <2>1, FS_EmptySet
  <2>2. ASSUME NEW e \in Matches(C)
        PROVE  Cardinality(Matches(C)) <= 1
    <3>1. Matches(C) = {e}
      BY <1>3, <2>2
    <3>2. Cardinality({e}) = 1
      BY FS_Singleton
    <3> QED
      BY <3>1, <3>2
  <2> QED
    BY <2>1, <2>2
<1>5. Matches(C) = {} => Copies(C, Len(file)) = 0
  BY <1>1, <1>2, <1>3 DEF Parsed, Table
<1> QED
  BY <1>1, <1>3, <1>4, <1>5

LEMMA FormulaOfProofHolds == ParseInv => FormulaOfProof
<1> SUFFICES ASSUME ParseInv, Parsing
             PROVE  /\ num_parsed_add_lines = Cardinality(ProofLines)
                    /\ formula_size = num_cnf_clauses + num_parsed_add_lines
                    /\ \A i \in ProofLines : db.stored[IdOfLine(i)] = file[i].clause
  BY DEF FormulaOfProof
<1>1. Parsed /\ pc # "cnf"
  BY Read
<1> QED
  BY <1>1 DEF Parsed, Phases, Stored

LEMMA RefusalsJustifiedHolds == ParseInv => RefusalsJustified
BY DEF ParseInv, RefusalsJustified, Refused

(* The lines with a clause of their own are the first copies of the file.    *)
LEMMA FirstsAre ==
  ASSUME ParseInv, Parsing
  PROVE  /\ Firsts = FirstCopies("cnf") \cup ProofLines
         /\ \A i \in FirstCopies("cnf") : i \in 1..num_cnf_clauses /\ IdOf(i) = i
         /\ \A i \in Firsts : i <= num_cnf_clauses => i \in FirstCopies("cnf")
         /\ \A i \in ProofLines : IdOf(i) = IdOfLine(i)
<1>1. /\ file \in Seq(Line) /\ Reading /\ Parsed /\ pc # "cnf" /\ Hashed = Len(file)
      /\ DOMAIN file = 1..Len(file) /\ Len(file) \in Nat
  BY Read
<1>2. ASSUME NEW i \in 1..Len(file)
      PROVE  /\ file[i].type \in {"cnf", "delete", "add"}
             /\ file[i].type = "cnf" <=> i <= num_cnf_clauses
  BY <1>1, Lines, LineFields DEF Parsed, Phases
<1>3. Firsts = FirstCopies("cnf") \cup ProofLines
  BY <1>1, <1>2 DEF Firsts, FirstCopies, ProofLines
<1>4. \A i \in FirstCopies("cnf") : i \in 1..num_cnf_clauses /\ IdOf(i) = i
  <2> SUFFICES ASSUME NEW i \in FirstCopies("cnf")
               PROVE  i \in 1..num_cnf_clauses /\ IdOf(i) = i
    OBVIOUS
  <2>1. i \in 1..Len(file) /\ file[i].type = "cnf"
    BY <1>1 DEF FirstCopies
  <2>2. i <= num_cnf_clauses /\ i \in Nat /\ i >= 1
    BY <1>2, <2>1
  <2>3. num_cnf_clauses \in Nat
    BY Read
  <2> QED
    BY <2>2, <2>3 DEF IdOf
<1>5. \A i \in Firsts : i <= num_cnf_clauses => i \in FirstCopies("cnf")
  BY <1>1, <1>2 DEF Firsts, FirstCopies
<1>6. \A i \in ProofLines : IdOf(i) = IdOfLine(i)
  <2> SUFFICES ASSUME NEW i \in ProofLines
               PROVE  IdOf(i) = IdOfLine(i)
    OBVIOUS
  <2>1. i \in 1..Len(file) /\ file[i].type = "add"
    BY <1>1 DEF FirstCopies, ProofLines
  <2>2. ~(i <= num_cnf_clauses)
    BY <1>2, <2>1
  <2> QED
    BY <2>2 DEF IdOf
<1> QED
  BY <1>3, <1>4, <1>5, <1>6

LEMMA SameRanges ==
  \A r, n : R!RangeAt(r, n) = DP!RangeAt(r, n) /\ R!RangeAt(r, n) = WP!RangeAt(r, n)
BY DEF R!RangeAt, R!RangeStart, R!RangeEnd, DP!RangeAt, DP!RangeStart, DP!RangeEnd,
       WP!RangeAt, WP!RangeStart, WP!RangeEnd

LEMMA DeletionsExactHolds == ParseInv => DeletionsExact
<1> SUFFICES ASSUME ParseInv, Parsing
             PROVE  /\ \A i \in 1..num_cnf_clauses :
                         clauses_lui[i] = IF i \in FirstCopies("cnf") THEN DeletedBefore(i)
                                          ELSE 0
                    /\ \A i \in ProofLines : clauses_lui[IdOfLine(i)] = DeletedBefore(i)
                    /\ \A n \in 0..num_parsed_add_lines :
                         LET range == R!RangeAt(bcu_deletions, n)
                         IN  /\ IsInjective(range)
                             /\ {range[k] : k \in DOMAIN range} =
                                  {i \in FirstCopies("cnf") : DeletedBefore(i) = n} \cup
                                  {IdOfLine(i) : i \in {j \in ProofLines : DeletedBefore(j) = n}}
  BY DEF DeletionsExact
<1>1. /\ Parsed /\ Hashed = Len(file) /\ Len(file) \in Nat
      /\ num_cnf_clauses \in Nat \ {0} /\ num_cnf_clauses <= Len(file)
  BY Read
<1>2. /\ \A i \in Firsts : clauses_lui[IdOf(i)] = DeletedBefore(i)
      /\ \A i \in 1..Hashed : i <= num_cnf_clauses /\ i \notin Firsts => clauses_lui[i] = 0
  BY <1>1 DEF Parsed, DeletedOnce
<1>3. /\ Firsts = FirstCopies("cnf") \cup ProofLines
      /\ \A i \in FirstCopies("cnf") : i \in 1..num_cnf_clauses /\ IdOf(i) = i
      /\ \A i \in Firsts : i <= num_cnf_clauses => i \in FirstCopies("cnf")
      /\ \A i \in ProofLines : IdOf(i) = IdOfLine(i)
  BY FirstsAre
<1>4. ASSUME NEW i \in 1..num_cnf_clauses
      PROVE  clauses_lui[i] = IF i \in FirstCopies("cnf") THEN DeletedBefore(i) ELSE 0
  <2>1. CASE i \in FirstCopies("cnf")
    <3>1. i \in Firsts /\ IdOf(i) = i
      BY <1>3, <2>1
    <3>2. clauses_lui[IdOf(i)] = DeletedBefore(i)
      BY <1>2, <3>1
    <3> QED
      BY <2>1, <3>1, <3>2
  <2>2. CASE i \notin FirstCopies("cnf")
    <3>1. i \in 1..Hashed /\ i <= num_cnf_clauses
      BY <1>1
    <3>2. i \notin Firsts
      BY <1>3, <2>2, <3>1
    <3> QED
      BY <1>2, <2>2, <3>1, <3>2
  <2> QED
    BY <2>1, <2>2
<1>5. ASSUME NEW i \in ProofLines
      PROVE  clauses_lui[IdOfLine(i)] = DeletedBefore(i)
  BY <1>2, <1>3
<1>6. ASSUME NEW n \in 0..num_parsed_add_lines, NEW range, range = R!RangeAt(bcu_deletions, n)
      PROVE  /\ IsInjective(range)
             /\ {range[k] : k \in DOMAIN range} =
                  {i \in FirstCopies("cnf") : DeletedBefore(i) = n} \cup
                  {IdOfLine(i) : i \in {j \in ProofLines : DeletedBefore(j) = n}}
  <2>1. range = DP!RangeAt(bcu_deletions, n)
    BY <1>6, SameRanges
  <2>2. IsInjective(range) /\ ToSet(range) = Before(n)
    BY <1>1, <2>1 DEF Parsed, Ranged
  <2>3. ToSet(range) = {range[k] : k \in DOMAIN range}
    BY DEF ToSet
  <2>4. Before(n) = {i \in FirstCopies("cnf") : DeletedBefore(i) = n} \cup
                    {IdOfLine(i) : i \in {j \in ProofLines : DeletedBefore(j) = n}}
    <3>1. \A i \in FirstCopies("cnf") : i \in Firsts
      BY <1>3
    <3>2. \A i \in ProofLines : i \in Firsts
      BY <1>3
    <3>3. \A i \in Firsts : i \in FirstCopies("cnf") \/ i \in ProofLines
      BY <1>3
    <3> QED
      BY ONLY <1>3, <3>1, <3>2, <3>3 DEF Before
  <2> QED
    BY <2>2, <2>3, <2>4
<1> QED
  BY <1>4, <1>5, <1>6

LEMMA WitnessKeptHolds == ParseInv => WitnessKept
<1> SUFFICES ASSUME ParseInv, Parsing, NEW i \in ProofLines
             PROVE  IsSuffix(WitnessData(file[i]), R!RangeAt(witnesses, LinesBefore(i)))
  BY DEF WitnessKept
<1>1. IsSuffix(WitnessData(file[i]), WP!RangeAt(witnesses, LinesBefore(i)))
  BY Read DEF Parsed, Witnessed
<1> QED
  BY <1>1, SameRanges

-----------------------------------------------------------------------------
(* The table and the counts of copies together count every clause of the     *)
(* file: what add_formula_clause_to_ht(), inc_clause_mult() and the deletion *)
(* lines of parse_dsr_line() leave is what the file adds less what it        *)
(* deletes.                                                                 *)
THEOREM Multiplicities == Spec => []MultiplicityExact
<1>1. ParseInv => MultiplicityExact
  BY MultiplicityExactHolds
<1> QED
  BY <1>1, Invariant, PTL

(* The clause database is the formula of the proof: an ID after those of the *)
(* CNF formula belongs to the line that added the first copy, so that the    *)
(* IDs of an LSR proof and the line numbers of the backward check agree.     *)
THEOREM Formula == Spec => []FormulaOfProof
<1>1. ParseInv => FormulaOfProof
  BY FormulaOfProofHolds
<1> QED
  BY <1>1, Invariant, PTL

(* clauses_lui and bcu_deletions say the same of every deletion, and what    *)
(* the file says: the range of a line holds the clauses whose last copy goes *)
(* before it, each of them once.                                            *)
THEOREM Deletions == Spec => []DeletionsExact
<1>1. ParseInv => DeletionsExact
  BY DeletionsExactHolds
<1> QED
  BY <1>1, Invariant, PTL

(* parse_dsr_line() exits with an error only where the file is wrong (or the *)
(* formula has one clause), and compares no deleted clause on the way.       *)
THEOREM Refusals == Spec => []RefusalsJustified
<1>1. ParseInv => RefusalsJustified
  BY RefusalsJustifiedHolds
<1> QED
  BY <1>1, Invariant, PTL

(* The witness of a line ends its range: the witness of a copy, which is     *)
(* uncommitted, may come before it, and nothing comes after it.              *)
THEOREM Witnesses == Spec => []WitnessKept
<1>1. ParseInv => WitnessKept
  BY WitnessKeptHolds
<1> QED
  BY <1>1, Invariant, PTL

=============================================================================
