---------------------------- MODULE ClauseDbProofs ----------------------------
(***************************************************************************)
(* The clause database implements a list of clauses, for every set of       *)
(* literals, every bound and every policy of collection.                    *)
(***************************************************************************)
EXTENDS ClauseDb, NatSets, SequenceTheorems, TLAPS

(***************************************************************************)
(* The inductive invariant: the starts of the clauses are ordered (as pairs, *)
(* not only neighbours), lie within the literals, and a clause that is gone  *)
(* is marked as deleted, so that no later step takes it for another's room. *)
(***************************************************************************)
TypeOK ==
  /\ lits_db \in Seq(Elt)
  /\ formula \in [0..MaxClauses -> [at: Nat, deleted: BOOLEAN]]
  /\ formula_size \in 0..MaxClauses
  /\ gone \subseteq Ids

Ordered ==
  /\ CLAUSE_IDX(0) = 0
  /\ \A m, n \in 0..formula_size : m <= n => CLAUSE_IDX(m) <= CLAUSE_IDX(n)
  /\ CLAUSE_IDX(formula_size) <= Len(lits_db)
  /\ ~IS_DELETED_CLAUSE(formula_size)

GoneDeleted == \A c \in gone : IS_DELETED_CLAUSE(c)

DbInv == TypeOK /\ Ordered /\ GoneDeleted

-----------------------------------------------------------------------------
(* A slice of a sequence: its length and its elements.                      *)
LEMMA Slice ==
  ASSUME NEW s \in Seq(Elt), NEW a \in Nat, NEW b \in Nat, a <= b, b <= Len(s)
  PROVE  /\ SubSeq(s, a + 1, b) \in Seq(Elt)
         /\ Len(SubSeq(s, a + 1, b)) = b - a
         /\ \A k \in 1..b - a : SubSeq(s, a + 1, b)[k] = s[a + k]
<1>1. \A k \in a + 1..b : s[k] \in Elt
  OBVIOUS
<1> QED
  BY <1>1, SubSeqProperties

(* Where a clause is in the database.                                       *)
LEMMA ClausePlace ==
  ASSUME DbInv, NEW c \in 0..formula_size
  PROVE  /\ CLAUSE_IDX(c) \in Nat /\ ClauseEnd(c) \in Nat
         /\ CLAUSE_IDX(c) <= ClauseEnd(c) /\ ClauseEnd(c) <= Len(lits_db)
         /\ ClauseAt(c) = SubSeq(lits_db, CLAUSE_IDX(c) + 1, ClauseEnd(c))
         /\ ClauseAt(c) \in Seq(Elt)
         /\ lits_db \in Seq(Elt) /\ Len(lits_db) \in Nat
<1> USE DEF DbInv, TypeOK, Ordered
<1>1. /\ formula_size \in Nat /\ MaxClauses \in Nat /\ lits_db \in Seq(Elt)
      /\ Len(lits_db) \in Nat /\ c \in 0..MaxClauses /\ c \in Nat /\ c <= formula_size
  BY ClauseDbAssumption
<1>2. \A m \in 0..formula_size :
        CLAUSE_IDX(m) \in Nat /\ CLAUSE_IDX(m) <= Len(lits_db)
  <2> SUFFICES ASSUME NEW m \in 0..formula_size
               PROVE  CLAUSE_IDX(m) \in Nat /\ CLAUSE_IDX(m) <= Len(lits_db)
    OBVIOUS
  <2>1. m \in 0..MaxClauses /\ formula_size \in 0..formula_size /\ m <= formula_size
    BY <1>1
  <2>2. CLAUSE_IDX(m) \in Nat /\ CLAUSE_IDX(formula_size) \in Nat
    BY <2>1 DEF CLAUSE_IDX
  <2>3. CLAUSE_IDX(m) <= CLAUSE_IDX(formula_size)
    BY <2>1
  <2> QED
    BY <1>1, <2>2, <2>3
<1>3. /\ ClauseEnd(c) \in Nat /\ CLAUSE_IDX(c) <= ClauseEnd(c)
      /\ ClauseEnd(c) <= Len(lits_db)
  <2>1. CASE c = formula_size
    BY <1>1, <1>2, <2>1 DEF ClauseEnd
  <2>2. CASE c # formula_size
    <3>1. c + 1 \in 0..formula_size /\ c <= c + 1
      BY <1>1, <2>2
    <3> QED
      BY <1>2, <2>2, <3>1 DEF ClauseEnd
  <2> QED
    BY <2>1, <2>2
<1> QED
  BY <1>1, <1>2, <1>3, Slice DEF ClauseAt

(* Clauses lie one after the other.                                         *)
LEMMA ClausesApart ==
  ASSUME DbInv, NEW c \in 0..formula_size, NEW d \in 0..formula_size, c < d
  PROVE  ClauseEnd(c) <= CLAUSE_IDX(d)
<1>1. formula_size \in Nat /\ c # formula_size /\ c + 1 \in 0..formula_size /\ c + 1 <= d
  BY ClauseDbAssumption DEF DbInv, TypeOK
<1> QED
  BY <1>1 DEF DbInv, Ordered, ClauseEnd

-----------------------------------------------------------------------------
(***************************************************************************)
(* gc_lits_db().  The places of a clause that is not dead are all kept, so   *)
(* their ranks follow one another.                                          *)
(***************************************************************************)
LEMMA KeptType ==
  ASSUME DbInv, NEW dead \in SUBSET Ids
  PROVE  /\ Kept(dead) \in SUBSET (Nat \ {0}) /\ IsFiniteSet(Kept(dead))
         /\ Kept(dead) \subseteq 1..Len(lits_db)
<1>1. Len(lits_db) \in Nat
  BY DEF DbInv, TypeOK
<1>2. Kept(dead) \subseteq 1..Len(lits_db) /\ IsFiniteSet(1..Len(lits_db))
  BY <1>1, FS_Interval DEF Kept
<1> QED
  BY <1>1, <1>2, FS_Subset

(* No literal of a clause that is not dead is dropped.                      *)
LEMMA LiveKept ==
  ASSUME DbInv, NEW dead \in SUBSET Ids, NEW c \in 0..formula_size, c \notin dead
  PROVE  LitsOf(c) \subseteq Kept(dead)
<1> SUFFICES ASSUME NEW p \in LitsOf(c), NEW d \in dead, p \in LitsOf(d)
             PROVE  FALSE
  <2>1. /\ CLAUSE_IDX(c) \in Nat /\ ClauseEnd(c) \in Nat
        /\ ClauseEnd(c) <= Len(lits_db) /\ Len(lits_db) \in Nat
    BY ClausePlace
  <2>2. LitsOf(c) \subseteq 1..Len(lits_db)
    BY <2>1 DEF LitsOf
  <2> QED
    BY <2>2 DEF Kept
<1>1. d \in 0..formula_size /\ c \in Nat /\ d \in Nat /\ c # d
  BY ClauseDbAssumption DEF DbInv, TypeOK, Ids
<1>2. /\ CLAUSE_IDX(c) \in Nat /\ ClauseEnd(c) \in Nat
      /\ CLAUSE_IDX(d) \in Nat /\ ClauseEnd(d) \in Nat
  BY <1>1, ClausePlace
<1>3. ClauseEnd(c) <= CLAUSE_IDX(d) \/ ClauseEnd(d) <= CLAUSE_IDX(c)
  <2>1. c < d \/ d < c
    BY <1>1
  <2> QED
    BY <1>1, <2>1, ClausesApart
<1> QED
  BY <1>2, <1>3 DEF LitsOf

(* The literals that are kept, each at its rank.                            *)
LEMMA KeptLitsAt ==
  ASSUME DbInv, NEW dead \in SUBSET Ids
  PROVE  /\ KeptLits(dead) \in Seq(Elt)
         /\ Len(KeptLits(dead)) = Cardinality(Kept(dead))
         /\ Cardinality(Kept(dead)) \in Nat
         /\ \A p \in Kept(dead) :
              /\ UpTo(Kept(dead), p) \in 1..Cardinality(Kept(dead))
              /\ KeptLits(dead)[UpTo(Kept(dead), p)] = lits_db[p]
<1> DEFINE K == Kept(dead)
<1>1. lits_db \in Seq(Elt) /\ K \in SUBSET (1..Len(lits_db))
  BY KeptType DEF DbInv, TypeOK
<1> HIDE DEF K
<1> DEFINE s == lits_db
<1>a. s \in Seq(Elt) /\ K \in SUBSET (1..Len(s))
  BY <1>1
<1> HIDE DEF s
<1>2. /\ AtPlaces(s, K) \in Seq(Elt)
      /\ Len(AtPlaces(s, K)) = Cardinality(K) /\ Cardinality(K) \in Nat
      /\ \A p \in K : /\ UpTo(K, p) \in 1..Cardinality(K)
                      /\ AtPlaces(s, K)[UpTo(K, p)] = s[p]
  <2>1. K \in SUBSET (1..Len(s))
    BY <1>a
  <2>2. s \in Seq(Elt)
    BY <1>a
  <2>3. AtPlaces(s, K) \in Seq(Elt) /\ Len(AtPlaces(s, K)) = Cardinality(K)
    BY <2>1, <2>2, AtPlacesSeq, SMTT(20)
  <2>4. Cardinality(K) \in Nat
    BY <2>1, <2>2, AtPlacesSeq, SMTT(20)
  <2>5. ASSUME NEW p \in K
        PROVE  /\ UpTo(K, p) \in 1..Cardinality(K)
               /\ AtPlaces(s, K)[UpTo(K, p)] = s[p]
    BY <2>1, <2>2, AtPlacesSeq, SMTT(20)
  <2> QED
    BY <2>3, <2>4, <2>5
<1> QED
  BY <1>2 DEF K, KeptLits, s

(* The fields of an entry whose deletion bit is a test of membership.       *)
LEMMA EntryFields ==
  ASSUME NEW at, NEW c, NEW dead
  PROVE  /\ Entry(at, c \in dead).at = at
         /\ Entry(at, c \in dead).deleted <=> c \in dead
         /\ at \in Nat => Entry(at, c \in dead) \in [at: Nat, deleted: BOOLEAN]
<1>1. Entry(at, c \in dead).at = at
  BY Zenon DEF Entry
<1>2. Entry(at, c \in dead).deleted <=> c \in dead
  BY Zenon DEF Entry
<1>3. (c \in dead) \in BOOLEAN
  OBVIOUS
<1>4. at \in Nat => Entry(at, c \in dead) \in [at: Nat, deleted: BOOLEAN]
  BY Zenon, <1>3 DEF Entry
<1> QED
  BY <1>1, <1>2, <1>4

(* Where a clause goes, and that it keeps its literals if it is not dead.    *)
LEMMA CollectedPlace ==
  ASSUME DbInv, NEW dead \in SUBSET Ids, Collected(dead), formula_size' = formula_size
  PROVE  /\ DOMAIN formula' = 0..MaxClauses
         /\ \A c \in 0..formula_size :
              /\ formula'[c] = Entry(MovedTo(dead, c), c \in dead)
              /\ MovedTo(dead, c) \in Nat
              /\ c \notin dead => ClauseAt(c)' = ClauseAt(c)
         /\ \A c \in 0..MaxClauses :
              formula'[c] \in [at: Nat, deleted: BOOLEAN]
         /\ \A m, n \in 0..formula_size :
              m <= n => MovedTo(dead, m) <= MovedTo(dead, n)
         /\ MovedTo(dead, 0) = 0
         /\ lits_db' \in Seq(Elt) /\ MovedTo(dead, formula_size) <= Len(lits_db')
<1> DEFINE K == Kept(dead)
           n == formula_size
           L == Len(lits_db)
<1>1. /\ n \in 0..MaxClauses /\ n \in Nat /\ MaxClauses \in Nat
      /\ DOMAIN formula = 0..MaxClauses
      /\ formula \in [0..MaxClauses -> [at: Nat, deleted: BOOLEAN]]
  BY ClauseDbAssumption DEF DbInv, TypeOK
<1>2. /\ K \in SUBSET (Nat \ {0}) /\ K \in SUBSET Nat /\ IsFiniteSet(K) /\ K \subseteq 1..L
  BY KeptType
<1>3. /\ lits_db' = KeptLits(dead) /\ lits_db' \in Seq(Elt)
      /\ Len(lits_db') = Cardinality(K) /\ Cardinality(K) \in Nat
  BY KeptLitsAt DEF Collected
<1>4. \A c \in 0..n : MovedTo(dead, c) = UpTo(K, CLAUSE_IDX(c)) /\ MovedTo(dead, c) \in Nat
  BY <1>2, UpToType DEF MovedTo
<1>5. /\ DOMAIN formula' = 0..MaxClauses
      /\ \A c \in 0..MaxClauses :
           formula'[c] = IF c <= n THEN Entry(MovedTo(dead, c), c \in dead) ELSE formula[c]
  BY <1>1 DEF Collected
<1>6. \A c \in 0..n :
        /\ c \in 0..MaxClauses /\ c <= n
        /\ CLAUSE_IDX(c) \in Nat /\ CLAUSE_IDX(c) <= L /\ L \in Nat
  <2> SUFFICES ASSUME NEW c \in 0..n
               PROVE  /\ c \in 0..MaxClauses /\ c <= n
                      /\ CLAUSE_IDX(c) \in Nat /\ CLAUSE_IDX(c) <= L /\ L \in Nat
    OBVIOUS
  <2>1. /\ CLAUSE_IDX(c) \in Nat /\ ClauseEnd(c) \in Nat
        /\ CLAUSE_IDX(c) <= ClauseEnd(c) /\ ClauseEnd(c) <= L /\ L \in Nat
    BY ClausePlace
  <2> QED
    BY <1>1, <2>1
<1>7. \A c \in 0..n : formula'[c] = Entry(MovedTo(dead, c), c \in dead)
  BY <1>5, <1>6
<1>8. \A c \in 0..MaxClauses : formula'[c] \in [at: Nat, deleted: BOOLEAN]
  <2> SUFFICES ASSUME NEW c \in 0..MaxClauses
               PROVE  formula'[c] \in [at: Nat, deleted: BOOLEAN]
    OBVIOUS
  <2>1. CASE c <= n
    <3>1. c \in 0..n
      BY <1>1, <2>1
    <3>2. MovedTo(dead, c) \in Nat /\ formula'[c] = Entry(MovedTo(dead, c), c \in dead)
      BY <1>4, <1>7, <3>1
    <3> QED
      BY <3>2, EntryFields
  <2>2. CASE ~(c <= n)
    BY <1>1, <1>5, <2>2
  <2> QED
    BY <2>1, <2>2
<1>9. \A p, q \in 0..n : p <= q => MovedTo(dead, p) <= MovedTo(dead, q)
  <2> SUFFICES ASSUME NEW p \in 0..n, NEW q \in 0..n, p <= q
               PROVE  MovedTo(dead, p) <= MovedTo(dead, q)
    OBVIOUS
  <2>1. CLAUSE_IDX(p) <= CLAUSE_IDX(q)
    BY DEF DbInv, Ordered
  <2> QED
    BY <1>2, <1>4, <1>6, <2>1, UpToInterval
<1>10. MovedTo(dead, 0) = 0
  <2>1. {q \in K : q <= 0} = {}
    BY <1>2
  <2>2. CLAUSE_IDX(0) = 0 /\ 0 \in 0..n
    BY <1>1 DEF DbInv, Ordered
  <2> QED
    BY <1>4, <2>1, <2>2, FS_EmptySet DEF UpTo
<1>11. MovedTo(dead, n) <= Len(lits_db')
  <2>1. UpTo(K, CLAUSE_IDX(n)) <= Cardinality(K)
    BY <1>2, UpToType
  <2>2. n \in 0..n
    BY <1>1
  <2> QED
    BY <1>3, <1>4, <2>1, <2>2
<1>12. UpTo(K, L) = Cardinality(K)
  <2>1. \A q \in K : q <= L
    BY <1>2, <1>6
  <2>2. {q \in K : q <= L} = K
    BY <2>1
  <2> QED
    BY <2>2 DEF UpTo
<1>13. ASSUME NEW c \in 0..n, c \notin dead
       PROVE  ClauseAt(c)' = ClauseAt(c)
  <2> DEFINE a == CLAUSE_IDX(c)
             b == ClauseEnd(c)
             A == UpTo(K, a)
             B == UpTo(K, b)
  <2>1. /\ a \in Nat /\ b \in Nat /\ a <= b /\ b <= L /\ L \in Nat /\ lits_db \in Seq(Elt)
        /\ ClauseAt(c) = SubSeq(lits_db, a + 1, b)
    BY ClausePlace
  <2>2. a + 1..b \subseteq K
    BY <1>13, LiveKept DEF LitsOf
  <2>3. B = A + (b - a) /\ A \in Nat /\ B \in Nat /\ B <= Cardinality(K)
    BY <1>2, <2>1, <2>2, UpToInterval, UpToType
  <2>4. CLAUSE_IDX(c)' = A
    BY <1>4, <1>7, EntryFields DEF CLAUSE_IDX
  <2>5. ClauseEnd(c)' = B
    <3>1. CASE c = n
      <4>1. b = L /\ ClauseEnd(c)' = Len(lits_db')
        BY <3>1 DEF ClauseEnd
      <4> QED
        BY <1>3, <1>12, <4>1
    <3>2. CASE c # n
      <4>1. c + 1 \in 0..n /\ b = CLAUSE_IDX(c + 1) /\ ClauseEnd(c)' = formula'[c + 1].at
        BY <1>1, <3>2 DEF ClauseEnd, CLAUSE_IDX
      <4> QED
        BY <1>4, <1>7, <4>1, EntryFields
    <3> QED
      BY <3>1, <3>2
  <2>6. \A k \in 1..b - a : lits_db'[A + k] = lits_db[a + k]
    <3> SUFFICES ASSUME NEW k \in 1..b - a
                 PROVE  lits_db'[A + k] = lits_db[a + k]
      OBVIOUS
    <3>1. a + k \in K /\ a + k \in Nat /\ a <= a + k /\ a + 1..a + k \subseteq K
          /\ (a + k) - a = k
      BY <2>1, <2>2
    <3>2. UpTo(K, a + k) = A + k
      BY <1>2, <2>1, <3>1, UpToInterval
    <3> QED
      BY <1>3, <3>1, <3>2, KeptLitsAt
  <2>7. ClauseAt(c)' = SubSeq(lits_db', A + 1, B)
    BY <2>4, <2>5 DEF ClauseAt
  <2> HIDE DEF a, b, A, B, K, L
  <2>8. SubSeq(lits_db', A + 1, B) = SubSeq(lits_db, a + 1, b)
    <3> DEFINE t == lits_db'
               s == lits_db
    <3>1. t \in Seq(Elt) /\ B <= Len(t) /\ s \in Seq(Elt) /\ b <= Len(s)
      BY <1>3, <2>1, <2>3 DEF L
    <3>2. \A k \in 1..b - a : t[A + k] = s[a + k]
      BY <2>6
    <3> HIDE DEF t, s
    <3> DEFINE u == SubSeq(s, a + 1, b)
               v == SubSeq(t, A + 1, B)
    <3>3. /\ u \in Seq(Elt) /\ Len(u) = b - a
          /\ \A k \in 1..b - a : u[k] = s[a + k]
      <4>1. a \in Nat /\ b \in Nat /\ a <= b
        BY <2>1
      <4>2. s \in Seq(Elt) /\ b <= Len(s)
        BY <3>1
      <4> QED
        BY <4>1, <4>2, Slice
    <3>4. /\ v \in Seq(Elt) /\ Len(v) = B - A
          /\ \A k \in 1..B - A : v[k] = t[A + k]
      <4>1. A \in Nat /\ B \in Nat /\ A <= B
        BY <2>1, <2>3
      <4>2. t \in Seq(Elt) /\ B <= Len(t)
        BY <3>1
      <4> QED
        BY <4>1, <4>2, Slice
    <3>5. B - A = b - a
      BY <2>1, <2>3
    <3> HIDE DEF u, v
    <3>6. v = u
      BY <3>2, <3>3, <3>4, <3>5, SeqEqual
    <3> QED
      BY <3>6 DEF u, v, t, s
  <2> QED
    BY <2>1, <2>7, <2>8
<1> QED
  BY <1>3, <1>4, <1>5, <1>7, <1>8, <1>9, <1>10, <1>11, <1>13

-----------------------------------------------------------------------------
(***************************************************************************)
(* Every operation preserves the invariant.                                 *)
(***************************************************************************)
LEMMA InitInv == Init => DbInv
<1> SUFFICES ASSUME Init PROVE DbInv
  OBVIOUS
<1> USE DEF Init
<1>1. MaxClauses \in Nat /\ formula_size = 0 /\ 0..formula_size = {0} /\ 0 \in 0..MaxClauses
  BY ClauseDbAssumption
<1>2. Entry(0, FALSE) \in [at: Nat, deleted: BOOLEAN]
  BY DEF Entry
<1>3. TypeOK
  BY <1>1, <1>2 DEF TypeOK, Ids
<1>4. formula[0] = Entry(0, FALSE) /\ CLAUSE_IDX(0) = 0 /\ ~IS_DELETED_CLAUSE(0)
  BY <1>1 DEF CLAUSE_IDX, IS_DELETED_CLAUSE, Entry
<1>5. Ordered
  BY <1>1, <1>4 DEF Ordered
<1> QED
  BY <1>3, <1>5 DEF DbInv, GoneDeleted

(* Marking a clause changes no offset.                                      *)
LEMMA Marked ==
  ASSUME DbInv, NEW i \in Ids, NEW deleted \in BOOLEAN,
         formula' = [formula EXCEPT ![i] = Entry(@.at, deleted)],
         formula_size' = formula_size
  PROVE  /\ formula' \in [0..MaxClauses -> [at: Nat, deleted: BOOLEAN]]
         /\ i # formula_size /\ i \in 0..formula_size /\ i \in 0..MaxClauses
         /\ \A c \in 0..MaxClauses :
              /\ CLAUSE_IDX(c)' = CLAUSE_IDX(c)
              /\ IS_DELETED_CLAUSE(c)' = IF c = i THEN deleted ELSE IS_DELETED_CLAUSE(c)
<1>1. /\ i \in 0..MaxClauses /\ i # formula_size /\ i \in 0..formula_size
      /\ formula \in [0..MaxClauses -> [at: Nat, deleted: BOOLEAN]]
  BY ClauseDbAssumption DEF DbInv, TypeOK, Ids
<1>2. formula[i].at \in Nat
  BY <1>1
<1> DEFINE e == Entry(formula[i].at, deleted)
<1>3. /\ e \in [at: Nat, deleted: BOOLEAN]
      /\ e.at = formula[i].at /\ e.deleted = deleted
  BY <1>2 DEF Entry
<1> HIDE DEF e
<1>4. formula' = [formula EXCEPT ![i] = e]
  BY DEF e
<1>5. formula' \in [0..MaxClauses -> [at: Nat, deleted: BOOLEAN]]
  BY <1>1, <1>3, <1>4
<1>6. ASSUME NEW c \in 0..MaxClauses
      PROVE  /\ CLAUSE_IDX(c)' = CLAUSE_IDX(c)
             /\ IS_DELETED_CLAUSE(c)' = IF c = i THEN deleted ELSE IS_DELETED_CLAUSE(c)
  BY <1>1, <1>3, <1>4 DEF CLAUSE_IDX, IS_DELETED_CLAUSE
<1> QED
  BY <1>1, <1>5, <1>6

(* What keeps the invariant: offsets that stay, or move together.           *)
LEMMA MarkedInv ==
  ASSUME DbInv, NEW i \in Ids, NEW deleted \in BOOLEAN,
         formula' = [formula EXCEPT ![i] = Entry(@.at, deleted)],
         UNCHANGED <<lits_db, formula_size>>,
         gone' \subseteq Ids,
         \A c \in gone' : (c = i /\ deleted) \/ (c # i /\ c \in gone)
  PROVE  DbInv'
<1>1. /\ MaxClauses \in Nat /\ formula_size \in 0..MaxClauses
      /\ Ids' = Ids /\ Ids \subseteq 0..MaxClauses
  BY ClauseDbAssumption DEF DbInv, TypeOK, Ids
<1>2. TypeOK'
  BY <1>1, Marked DEF DbInv, TypeOK
<1>3. Ordered'
  <2>1. /\ \A c \in 0..formula_size : c \in 0..MaxClauses
        /\ 0 \in 0..formula_size /\ formula_size \in 0..formula_size
    BY <1>1
  <2>2. \A c \in 0..formula_size :
          /\ CLAUSE_IDX(c)' = CLAUSE_IDX(c)
          /\ IS_DELETED_CLAUSE(c)' = IF c = i THEN deleted ELSE IS_DELETED_CLAUSE(c)
    BY <2>1, Marked
  <2>3. formula_size # i /\ formula_size' = formula_size /\ lits_db' = lits_db
    BY Marked
  <2>4. /\ CLAUSE_IDX(0)' = 0 /\ CLAUSE_IDX(formula_size)' = CLAUSE_IDX(formula_size)
        /\ ~(IS_DELETED_CLAUSE(formula_size)')
    BY <2>1, <2>2, <2>3 DEF DbInv, Ordered
  <2>5. \A m, n \in 0..formula_size : m <= n => CLAUSE_IDX(m)' <= CLAUSE_IDX(n)'
    BY <2>2 DEF DbInv, Ordered
  <2> QED
    BY <2>3, <2>4, <2>5 DEF DbInv, Ordered, CLAUSE_IDX, IS_DELETED_CLAUSE
<1>4. GoneDeleted'
  BY <1>1, Marked DEF DbInv, GoneDeleted
<1> QED
  BY <1>2, <1>3, <1>4 DEF DbInv

(* insert_lit(): the clause being written grows, past every offset.         *)
LEMMA InsertInv == DbInv /\ InsertLit => DbInv'
<1> SUFFICES ASSUME DbInv, InsertLit PROVE DbInv'
  OBVIOUS
<1>1. PICK l \in Elt : lits_db' = Append(lits_db, l)
  BY DEF InsertLit
<1>2. /\ lits_db' \in Seq(Elt) /\ Len(lits_db') = Len(lits_db) + 1
      /\ Len(lits_db) \in Nat
  BY <1>1 DEF DbInv, TypeOK
<1>3. formula' = formula /\ formula_size' = formula_size /\ gone' = gone
  BY DEF InsertLit
<1>4. formula_size \in 0..formula_size
  BY ClauseDbAssumption DEF DbInv, TypeOK
<1>5. CLAUSE_IDX(formula_size) \in Nat /\ CLAUSE_IDX(formula_size) <= Len(lits_db)
  BY <1>4, ClausePlace DEF DbInv, Ordered
<1>6. CLAUSE_IDX(formula_size) <= Len(lits_db')
  BY <1>2, <1>5
<1> QED
  BY <1>2, <1>3, <1>6
  DEF DbInv, TypeOK, Ordered, GoneDeleted, Ids, CLAUSE_IDX, IS_DELETED_CLAUSE

(* The literals up to the start of a clause.                                *)
LEMMA Cut ==
  ASSUME DbInv, NEW c \in 0..formula_size
  PROVE  /\ SubSeq(lits_db, 1, CLAUSE_IDX(c)) \in Seq(Elt)
         /\ Len(SubSeq(lits_db, 1, CLAUSE_IDX(c))) = CLAUSE_IDX(c)
         /\ CLAUSE_IDX(c) \in Nat
         /\ \A k \in 1..CLAUSE_IDX(c) : SubSeq(lits_db, 1, CLAUSE_IDX(c))[k] = lits_db[k]
<1> DEFINE a == CLAUSE_IDX(c)
           z == 0
<1>1. /\ a \in Nat /\ a <= Len(lits_db) /\ lits_db \in Seq(Elt) /\ Len(lits_db) \in Nat
  BY ClausePlace
<1>2. /\ SubSeq(lits_db, z + 1, a) \in Seq(Elt)
      /\ Len(SubSeq(lits_db, z + 1, a)) = a - z
      /\ \A k \in 1..a - z : SubSeq(lits_db, z + 1, a)[k] = lits_db[z + k]
  <2> HIDE DEF a, z
  <2>1. z \in Nat /\ z <= a
    BY <1>1 DEF z
  <2> QED
    BY <1>1, <2>1, Slice
<1> QED
  BY <1>1, <1>2

(* A deletion line gives up the clause being written.                       *)
LEMMA DropInv == DbInv /\ DropNewClause => DbInv'
<1> SUFFICES ASSUME DbInv, DropNewClause PROVE DbInv'
  OBVIOUS
<1>1. formula_size \in 0..formula_size
  BY ClauseDbAssumption DEF DbInv, TypeOK
<1>2. /\ lits_db' \in Seq(Elt) /\ Len(lits_db') = CLAUSE_IDX(formula_size)
      /\ CLAUSE_IDX(formula_size) \in Nat
  BY <1>1, Cut DEF DropNewClause
<1>3. formula' = formula /\ formula_size' = formula_size /\ gone' = gone
  BY DEF DropNewClause
<1>4. CLAUSE_IDX(formula_size) <= Len(lits_db')
  BY <1>2
<1> QED
  BY <1>2, <1>3, <1>4
  DEF DbInv, TypeOK, Ordered, GoneDeleted, Ids, CLAUSE_IDX, IS_DELETED_CLAUSE

(* A slot is opened after slot m, at the end of the literals.               *)
LEMMA Opened ==
  ASSUME DbInv, NEW m \in 0..formula_size, m < MaxClauses,
         formula' = [formula EXCEPT ![m + 1] = Entry(Len(lits_db'), FALSE)],
         formula_size' = m + 1
  PROVE  /\ m \in Nat /\ m + 1 \in 0..MaxClauses
         /\ \A c \in 0..m :
              /\ c \in 0..formula_size
              /\ CLAUSE_IDX(c)' = CLAUSE_IDX(c)
              /\ IS_DELETED_CLAUSE(c)' = IS_DELETED_CLAUSE(c)
         /\ CLAUSE_IDX(m + 1)' = Len(lits_db')
         /\ ~(IS_DELETED_CLAUSE(m + 1)')
<1>1. /\ m \in Nat /\ MaxClauses \in Nat /\ m + 1 \in 0..MaxClauses
      /\ \A c \in 0..m : c \in 0..MaxClauses /\ c # m + 1 /\ c \in 0..formula_size
      /\ formula \in [0..MaxClauses -> [at: Nat, deleted: BOOLEAN]]
  BY ClauseDbAssumption DEF DbInv, TypeOK
<1> DEFINE e == Entry(Len(lits_db'), FALSE)
<1>2. e.at = Len(lits_db') /\ e.deleted = FALSE
  BY DEF Entry
<1> HIDE DEF e
<1>3. formula' = [formula EXCEPT ![m + 1] = e]
  BY DEF e
<1>4. formula'[m + 1] = e /\ \A c \in 0..m : formula'[c] = formula[c]
  BY <1>1, <1>3
<1> QED
  BY <1>1, <1>2, <1>4 DEF CLAUSE_IDX, IS_DELETED_CLAUSE

(* commit_clause() and discard_formula_after_clause() both open a slot.     *)
LEMMA OpenedInv ==
  ASSUME DbInv, NEW m \in 0..formula_size, m < MaxClauses,
         formula' = [formula EXCEPT ![m + 1] = Entry(Len(lits_db'), FALSE)],
         formula_size' = m + 1,
         lits_db' \in Seq(Elt), CLAUSE_IDX(m) <= Len(lits_db'),
         gone' \subseteq gone \cap 0..m
  PROVE  DbInv'
<1> DEFINE L == Len(lits_db')
<1>1. /\ m \in Nat /\ m + 1 \in 0..MaxClauses /\ formula_size \in Nat /\ MaxClauses \in Nat
      /\ formula \in [0..MaxClauses -> [at: Nat, deleted: BOOLEAN]]
      /\ L \in Nat /\ Ids' = 0..m
  BY ClauseDbAssumption, Opened DEF DbInv, TypeOK, Ids
<1>2. \A c \in 0..m :
        /\ c \in 0..formula_size
        /\ CLAUSE_IDX(c)' = CLAUSE_IDX(c) /\ IS_DELETED_CLAUSE(c)' = IS_DELETED_CLAUSE(c)
  BY Opened
<1>3. CLAUSE_IDX(m + 1)' = L /\ ~(IS_DELETED_CLAUSE(m + 1)')
  BY Opened
<1>4. TypeOK'
  <2>1. Entry(L, FALSE) \in [at: Nat, deleted: BOOLEAN]
    BY <1>1 DEF Entry
  <2>2. formula' \in [0..MaxClauses -> [at: Nat, deleted: BOOLEAN]]
    BY <1>1, <2>1
  <2> QED
    BY <1>1, <2>2 DEF TypeOK
<1>5. Ordered'
  <2>1. \A c \in 0..m : CLAUSE_IDX(c) \in Nat /\ CLAUSE_IDX(c) <= L
    <3> SUFFICES ASSUME NEW c \in 0..m PROVE CLAUSE_IDX(c) \in Nat /\ CLAUSE_IDX(c) <= L
      OBVIOUS
    <3>1. CLAUSE_IDX(c) \in Nat /\ CLAUSE_IDX(m) \in Nat
      BY <1>2, ClausePlace
    <3>2. CLAUSE_IDX(c) <= CLAUSE_IDX(m)
      BY <1>1, <1>2 DEF DbInv, Ordered
    <3> QED
      BY <1>1, <3>1, <3>2
  <2>2. CLAUSE_IDX(0)' = 0
    BY <1>1, <1>2 DEF DbInv, Ordered
  <2>3. ASSUME NEW p \in 0..m + 1, NEW q \in 0..m + 1, p <= q
        PROVE  CLAUSE_IDX(p)' <= CLAUSE_IDX(q)'
    <3>1. CASE q \in 0..m
      <4>1. p \in 0..m
        BY <1>1, <2>3, <3>1
      <4>2. CLAUSE_IDX(p) <= CLAUSE_IDX(q)
        BY <1>2, <2>3, <3>1, <4>1 DEF DbInv, Ordered
      <4> QED
        BY <1>2, <3>1, <4>1, <4>2
    <3>2. CASE q = m + 1 /\ p \in 0..m
      BY <1>2, <1>3, <2>1, <3>2
    <3>3. CASE q = m + 1 /\ p = m + 1
      BY <1>1, <1>3, <3>3
    <3>4. (p \in 0..m \/ p = m + 1) /\ (q \in 0..m \/ q = m + 1)
      BY <1>1
    <3> QED
      BY <3>1, <3>2, <3>3, <3>4
  <2>4. CLAUSE_IDX(m + 1)' <= L
    BY <1>1, <1>3
  <2> QED
    BY <1>3, <2>2, <2>3, <2>4 DEF Ordered, CLAUSE_IDX, IS_DELETED_CLAUSE
<1>6. GoneDeleted'
  <2> SUFFICES ASSUME NEW c \in gone' PROVE IS_DELETED_CLAUSE(c)'
    BY DEF GoneDeleted
  <2>1. c \in gone /\ c \in 0..m
    OBVIOUS
  <2> QED
    BY <1>2, <2>1 DEF DbInv, GoneDeleted
<1> QED
  BY <1>4, <1>5, <1>6 DEF DbInv

LEMMA CommitInv == DbInv /\ CommitClause => DbInv'
<1> SUFFICES ASSUME DbInv, CommitClause PROVE DbInv'
  OBVIOUS
<1>1. /\ formula_size \in 0..formula_size /\ gone \subseteq gone \cap 0..formula_size
      /\ formula_size < MaxClauses /\ lits_db \in Seq(Elt)
      /\ CLAUSE_IDX(formula_size) <= Len(lits_db)
  BY ClauseDbAssumption DEF DbInv, TypeOK, Ids, Ordered, CommitClause
<1>2. /\ formula_size' = formula_size + 1 /\ lits_db' = lits_db /\ gone' = gone
      /\ formula' = [formula EXCEPT ![formula_size + 1] = Entry(Len(lits_db'), FALSE)]
  BY DEF CommitClause
<1> QED
  BY <1>1, <1>2, OpenedInv

LEMMA DiscardInv == DbInv /\ DiscardFormulaAfterClause => DbInv'
<1> SUFFICES ASSUME DbInv, DiscardFormulaAfterClause PROVE DbInv'
  OBVIOUS
<1>1. PICK i \in Ids :
        /\ i + 2 <= MaxClauses /\ formula_size' = i + 2
        /\ lits_db' = SubSeq(lits_db, 1, CLAUSE_IDX(i + 1))
        /\ formula' = [formula EXCEPT ![i + 2] = Entry(CLAUSE_IDX(i + 1), FALSE)]
        /\ gone' = gone \cap 0..i
  BY DEF DiscardFormulaAfterClause
<1> DEFINE m == i + 1
<1>2. /\ m \in 0..formula_size /\ m < MaxClauses /\ i + 2 = m + 1
      /\ gone' \subseteq gone \cap 0..m
  BY <1>1, ClauseDbAssumption DEF DbInv, TypeOK, Ids
<1> HIDE DEF m
<1>3. /\ lits_db' \in Seq(Elt) /\ Len(lits_db') = CLAUSE_IDX(m) /\ CLAUSE_IDX(m) \in Nat
  <2>1. lits_db' = SubSeq(lits_db, 1, CLAUSE_IDX(m))
    BY <1>1 DEF m
  <2> QED
    BY <1>2, <2>1, Cut
<1>4. formula' = [formula EXCEPT ![m + 1] = Entry(Len(lits_db'), FALSE)]
  <2>1. formula' = [formula EXCEPT ![i + 2] = Entry(CLAUSE_IDX(m), FALSE)]
    BY <1>1 DEF m
  <2> QED
    BY <1>2, <1>3, <2>1
<1>5. formula_size' = m + 1 /\ CLAUSE_IDX(m) <= Len(lits_db')
  BY <1>1, <1>2, <1>3
<1> QED
  BY <1>2, <1>3, <1>4, <1>5, OpenedInv

(* After a collection the marked clauses are the dead ones.                 *)
LEMMA CollectedEntries ==
  ASSUME DbInv, NEW dead \in SUBSET Ids, Collected(dead), formula_size' = formula_size
  PROVE  \A c \in 0..formula_size :
           CLAUSE_IDX(c)' = MovedTo(dead, c) /\ (IS_DELETED_CLAUSE(c)' <=> c \in dead)
<1> SUFFICES ASSUME NEW c \in 0..formula_size
             PROVE  /\ CLAUSE_IDX(c)' = MovedTo(dead, c)
                    /\ IS_DELETED_CLAUSE(c)' <=> c \in dead
  OBVIOUS
<1>1. formula'[c] = Entry(MovedTo(dead, c), c \in dead)
  BY CollectedPlace
<1>2. CLAUSE_IDX(c)' = formula'[c].at /\ IS_DELETED_CLAUSE(c)' = formula'[c].deleted
  BY DEF CLAUSE_IDX, IS_DELETED_CLAUSE
<1>3. formula'[c].at = MovedTo(dead, c) /\ (formula'[c].deleted <=> c \in dead)
  BY <1>1, EntryFields
<1>4. CLAUSE_IDX(c)' = MovedTo(dead, c)
  BY <1>2, <1>3
<1>5. IS_DELETED_CLAUSE(c)' <=> c \in dead
  BY Zenon, <1>2, <1>3
<1> QED
  BY <1>4, <1>5

(* gc_lits_db().                                                            *)
LEMMA CollectedInv ==
  ASSUME DbInv, NEW dead \in SUBSET Ids, Collected(dead), formula_size' = formula_size,
         gone' \subseteq dead
  PROVE  DbInv'
<1>1. /\ formula_size \in Nat /\ formula_size \in 0..MaxClauses
      /\ 0 \in 0..formula_size /\ formula_size \in 0..formula_size
      /\ formula_size \notin dead /\ Ids' = Ids /\ Ids \subseteq 0..formula_size
  BY ClauseDbAssumption DEF DbInv, TypeOK, Ids
<1>2. \A c \in 0..formula_size :
        CLAUSE_IDX(c)' = MovedTo(dead, c) /\ (IS_DELETED_CLAUSE(c)' <=> c \in dead)
  BY CollectedEntries
<1>3. TypeOK'
  <2>1. /\ DOMAIN formula' = 0..MaxClauses
        /\ \A c \in 0..MaxClauses : formula'[c] \in [at: Nat, deleted: BOOLEAN]
        /\ lits_db' \in Seq(Elt)
    BY CollectedPlace
  <2>2. formula' = [c \in 0..MaxClauses |-> formula'[c]]
    <3>1. DOMAIN formula = 0..MaxClauses
      BY DEF DbInv, TypeOK
    <3> DEFINE g(c) == IF c <= formula_size THEN Entry(MovedTo(dead, c), c \in dead)
                       ELSE formula[c]
    <3>2. formula' = [c \in 0..MaxClauses |-> g(c)]
      BY <3>1 DEF Collected
    <3> HIDE DEF g
    <3> QED
      BY <3>2
  <2>3. formula' \in [0..MaxClauses -> [at: Nat, deleted: BOOLEAN]]
    BY Zenon, <2>1, <2>2
  <2> QED
    BY <1>1, <2>1, <2>3 DEF TypeOK
<1>4. Ordered'
  <2>1. /\ \A m, n \in 0..formula_size : m <= n => MovedTo(dead, m) <= MovedTo(dead, n)
        /\ MovedTo(dead, 0) = 0 /\ MovedTo(dead, formula_size) <= Len(lits_db')
    BY CollectedPlace
  <2>2. \A m, n \in 0..formula_size : m <= n => CLAUSE_IDX(m)' <= CLAUSE_IDX(n)'
    BY <1>2, <2>1
  <2>3. CLAUSE_IDX(0)' = 0 /\ CLAUSE_IDX(formula_size)' <= Len(lits_db')
    BY <1>1, <1>2, <2>1
  <2>4. ~(IS_DELETED_CLAUSE(formula_size)')
    BY <1>1, <1>2
  <2> QED
    BY <2>2, <2>3, <2>4 DEF Ordered, CLAUSE_IDX, IS_DELETED_CLAUSE
<1>5. GoneDeleted'
  BY <1>1, <1>2 DEF GoneDeleted
<1> QED
  BY <1>3, <1>4, <1>5 DEF DbInv

(* The clauses that a collection removes are those that are gone.           *)
LEMMA DeleteSteps ==
  ASSUME DbInv, DeleteClause
  PROVE  \E i \in Ids :
           /\ ~IS_DELETED_CLAUSE(i) /\ gone' = gone \cup {i} /\ formula_size' = formula_size
           /\ \A j \in Ids \ gone : ~IS_DELETED_CLAUSE(j)
           /\ \/ /\ formula' = [formula EXCEPT ![i] = Entry(@.at, TRUE)]
                 /\ lits_db' = lits_db
              \/ Collected(gone \cup {i})
<1>1. PICK i \in Ids :
        LET dead == {j \in Ids : IS_DELETED_CLAUSE(j)} \cup {i}
            deleted_size == lits_db_deleted_size + ClauseSize(i)
        IN  /\ ~IS_DELETED_CLAUSE(i)
            /\ \A j \in Ids \ gone : ~IS_DELETED_CLAUSE(j)
            /\ IF deleted_size * DELETION_GC_DENOM <= Len(lits_db) * DELETION_GC_NUMER
                 THEN /\ formula' = [formula EXCEPT ![i] = Entry(@.at, TRUE)]
                      /\ lits_db_deleted_size' = deleted_size
                      /\ UNCHANGED lits_db
                 ELSE Collected(dead)
            /\ gone' = gone \cup {i}
            /\ UNCHANGED formula_size
  BY DEF DeleteClause
<1> DEFINE dead == {j \in Ids : IS_DELETED_CLAUSE(j)} \cup {i}
<1>2. /\ ~IS_DELETED_CLAUSE(i) /\ \A j \in Ids \ gone : ~IS_DELETED_CLAUSE(j)
      /\ gone' = gone \cup {i} /\ formula_size' = formula_size
      /\ \/ /\ formula' = [formula EXCEPT ![i] = Entry(@.at, TRUE)]
            /\ lits_db' = lits_db
         \/ Collected(dead)
  BY <1>1
<1>3. dead = gone \cup {i}
  BY <1>2 DEF DbInv, TypeOK, GoneDeleted
<1> QED
  BY <1>2, <1>3

(* delete_clause(), with a collection or without one.                       *)
LEMMA DeleteInv == DbInv /\ DeleteClause => DbInv'
<1> SUFFICES ASSUME DbInv, DeleteClause PROVE DbInv'
  OBVIOUS
<1>1. PICK i \in Ids :
        /\ ~IS_DELETED_CLAUSE(i) /\ gone' = gone \cup {i} /\ formula_size' = formula_size
        /\ \/ /\ formula' = [formula EXCEPT ![i] = Entry(@.at, TRUE)]
              /\ lits_db' = lits_db
           \/ Collected(gone \cup {i})
  BY DeleteSteps
<1>2. gone \cup {i} \in SUBSET Ids
  BY DEF DbInv, TypeOK
<1>3. CASE Collected(gone \cup {i})
  BY <1>1, <1>2, <1>3, CollectedInv
<1>4. CASE /\ formula' = [formula EXCEPT ![i] = Entry(@.at, TRUE)]
           /\ lits_db' = lits_db
  <2>1. \A c \in gone' : (c = i /\ TRUE) \/ (c # i /\ c \in gone)
    BY <1>1
  <2> QED
    BY <1>1, <1>2, <1>4, <2>1, MarkedInv
<1> QED
  BY <1>1, <1>3, <1>4

LEMMA SoftDeleteInv == DbInv /\ SoftDeleteClause => DbInv'
<1> SUFFICES ASSUME DbInv, SoftDeleteClause PROVE DbInv'
  OBVIOUS
<1>1. PICK i \in Ids : SetDeleted(i, TRUE)
  BY DEF SoftDeleteClause
<1>2. \A c \in gone' : (c = i /\ TRUE) \/ (c # i /\ c \in gone)
  BY <1>1 DEF SetDeleted
<1> QED
  BY <1>1, <1>2, MarkedInv DEF SetDeleted, DbInv, TypeOK

LEMMA SoftUndeleteInv == DbInv /\ SoftUndeleteClause => DbInv'
<1> SUFFICES ASSUME DbInv, SoftUndeleteClause PROVE DbInv'
  OBVIOUS
<1>1. PICK i \in Ids \ gone : SetDeleted(i, FALSE)
  BY DEF SoftUndeleteClause
<1>2. \A c \in gone' : (c = i /\ FALSE) \/ (c # i /\ c \in gone)
  BY <1>1 DEF SetDeleted
<1> QED
  BY <1>1, <1>2, MarkedInv DEF SetDeleted, DbInv, TypeOK

LEMMA StepInv == DbInv /\ [Next]_vars => DbInv'
<1> SUFFICES ASSUME DbInv, [Next]_vars PROVE DbInv'
  OBVIOUS
<1>1. CASE UNCHANGED vars
  BY <1>1 DEF vars, DbInv, TypeOK, Ordered, GoneDeleted, Ids, CLAUSE_IDX, IS_DELETED_CLAUSE
<1> QED
  BY <1>1, InsertInv, DropInv, CommitInv, DeleteInv, SoftDeleteInv, SoftUndeleteInv,
     DiscardInv DEF Next

(* delete_clause() and gc_lits_db() keep the starts of the clauses, deleted  *)
(* ones included, in order: get_clause_size() may take the start of the next *)
(* clause for the end of this one, whatever was deleted in between.         *)
THEOREM OffsetsCorrect == Spec => []OffsetsOrdered
<1>1. DbInv => OffsetsOrdered
  <2> SUFFICES ASSUME DbInv PROVE OffsetsOrdered
    OBVIOUS
  <2>1. \A i \in 0..formula_size : CLAUSE_IDX(i) <= ClauseEnd(i)
    BY ClausePlace
  <2> QED
    BY <2>1 DEF OffsetsOrdered, DbInv, Ordered
<1> QED
  BY <1>1, InitInv, StepInv, PTL DEF Spec

-----------------------------------------------------------------------------
(***************************************************************************)
(* The refinement.  What a clause of the list is: its literals where no     *)
(* step may touch them, and whether it is deleted.                          *)
(***************************************************************************)
Recs == [lits: Seq(Elt), status: {"live", "deleted", "gone"}]

(* Which of the three kinds of clause a slot holds.                         *)
LEMMA ClauseRec ==
  ASSUME DbInv, NEW c \in Ids
  PROVE  /\ ClauseOf(c) \in Recs
         /\ c \in gone => ClauseOf(c) = [lits |-> << >>, status |-> "gone"]
         /\ c \notin gone /\ IS_DELETED_CLAUSE(c) =>
              ClauseOf(c) = [lits |-> ClauseAt(c), status |-> "deleted"]
         /\ ~IS_DELETED_CLAUSE(c) =>
              ClauseOf(c) = [lits |-> ClauseAt(c), status |-> "live"]
<1>1. ClauseAt(c) \in Seq(Elt)
  <2>1. c \in 0..formula_size
    BY ClauseDbAssumption DEF DbInv, TypeOK, Ids
  <2> QED
    BY <2>1, ClausePlace
<1>2. << >> \in Seq(Elt)
  OBVIOUS
<1>3. c \in gone => IS_DELETED_CLAUSE(c)
  BY DEF DbInv, GoneDeleted
<1> QED
  BY <1>1, <1>2, <1>3 DEF ClauseOf, Recs

ClausesAre ==
  /\ Clauses \in Seq(Recs) /\ Len(Clauses) = formula_size
  /\ DOMAIN Clauses = 1..formula_size /\ formula_size \in Nat
  /\ \A n \in 1..formula_size : n - 1 \in Ids /\ Clauses[n] = ClauseOf(n - 1)
  /\ \A c \in Ids : c + 1 \in 1..formula_size /\ Clauses[c + 1] = ClauseOf(c)

LEMMA ClausesShape == DbInv => ClausesAre
<1> SUFFICES ASSUME DbInv PROVE ClausesAre
  OBVIOUS
<1>1. formula_size \in Nat
  BY ClauseDbAssumption DEF DbInv, TypeOK
<1>2. /\ \A n \in 1..formula_size : n - 1 \in Ids
      /\ \A c \in Ids : c + 1 \in 1..formula_size /\ (c + 1) - 1 = c
  BY <1>1 DEF Ids
<1>3. \A n \in 1..formula_size : ClauseOf(n - 1) \in Recs
  BY <1>2, ClauseRec
<1>4. /\ DOMAIN Clauses = 1..formula_size
      /\ \A n \in 1..formula_size : Clauses[n] = ClauseOf(n - 1)
  BY DEF Clauses
<1>5. Clauses \in [1..formula_size -> Recs]
  BY <1>3 DEF Clauses
<1>6. Clauses \in Seq(Recs) /\ Len(Clauses) = formula_size
  BY <1>1, <1>5
<1>7. \A c \in Ids : Clauses[c + 1] = ClauseOf(c)
  BY <1>2, <1>4
<1> QED
  BY <1>1, <1>2, <1>4, <1>6, <1>7 DEF ClausesAre

LEMMA ClausesShapeNext == DbInv' => ClausesAre'
BY ClausesShape, PTL

(* The same literals below a place make the same slices below it.           *)
LEMMA SamePrefix ==
  ASSUME NEW s \in Seq(Elt), NEW t \in Seq(Elt), NEW a \in Nat, NEW b \in Nat,
         a <= b, b <= Len(s), b <= Len(t), \A k \in 1..b : t[k] = s[k]
  PROVE  SubSeq(t, a + 1, b) = SubSeq(s, a + 1, b)
<1> DEFINE u == SubSeq(s, a + 1, b)
           v == SubSeq(t, a + 1, b)
<1>1. u \in Seq(Elt) /\ Len(u) = b - a /\ \A k \in 1..b - a : u[k] = s[a + k]
  BY Slice
<1>2. v \in Seq(Elt) /\ Len(v) = b - a /\ \A k \in 1..b - a : v[k] = t[a + k]
  BY Slice
<1>3. \A k \in 1..b - a : a + k \in 1..b
  OBVIOUS
<1> HIDE DEF u, v
<1>4. u = v
  BY <1>1, <1>2, <1>3, SeqEqual
<1> QED
  BY <1>4 DEF u, v

(* Clauses below a slot that keeps its place keep their literals, as long as *)
(* nothing is written below that place.                                     *)
LEMMA SameClauses ==
  ASSUME DbInv, DbInv', NEW n \in 0..formula_size, n <= formula_size',
         \A c \in 0..n : CLAUSE_IDX(c)' = CLAUSE_IDX(c),
         \A k \in 1..CLAUSE_IDX(n) : lits_db'[k] = lits_db[k],
         CLAUSE_IDX(n) <= Len(lits_db')
  PROVE  \A c \in 0..n - 1 : ClauseAt(c)' = ClauseAt(c)
<1> SUFFICES ASSUME NEW c \in 0..n - 1
             PROVE  ClauseAt(c)' = ClauseAt(c)
  OBVIOUS
<1>1. formula_size \in Nat /\ formula_size' \in Nat
  BY ClauseDbAssumption DEF DbInv, TypeOK
<1>2. /\ c \in 0..formula_size /\ c + 1 \in 0..formula_size /\ c + 1 \in 0..n
      /\ c \in 0..n /\ n \in 0..n /\ c # formula_size /\ c # formula_size' /\ c + 1 <= n
  BY <1>1
<1> DEFINE a == CLAUSE_IDX(c)
           b == CLAUSE_IDX(c + 1)
           m == CLAUSE_IDX(n)
<1>3. /\ CLAUSE_IDX(c)' = a /\ ClauseEnd(c) = b
      /\ ClauseEnd(c)' = b
  BY <1>2 DEF ClauseEnd, CLAUSE_IDX
<1>4. a \in Nat /\ b \in Nat /\ a <= b /\ b <= Len(lits_db) /\ lits_db \in Seq(Elt)
  BY <1>2, <1>3, ClausePlace
<1>5. m \in Nat /\ b <= m
  BY <1>2, ClausePlace DEF DbInv, Ordered
<1>6. lits_db' \in Seq(Elt) /\ Len(lits_db') \in Nat
  BY DEF DbInv, TypeOK
<1>7. ClauseAt(c)' = SubSeq(lits_db', a + 1, b) /\ ClauseAt(c) = SubSeq(lits_db, a + 1, b)
  BY <1>3 DEF ClauseAt
<1>8. m <= Len(lits_db') /\ \A k \in 1..m : lits_db'[k] = lits_db[k]
  OBVIOUS
<1> HIDE DEF a, b, m
<1>9. b <= Len(lits_db') /\ \A k \in 1..b : lits_db'[k] = lits_db[k]
  BY <1>4, <1>5, <1>6, <1>8
<1> DEFINE t == lits_db'
<1>10. t \in Seq(Elt) /\ b <= Len(t) /\ \A k \in 1..b : t[k] = lits_db[k]
  BY <1>6, <1>9
<1> HIDE DEF t
<1>11. SubSeq(t, a + 1, b) = SubSeq(lits_db, a + 1, b)
  BY <1>4, <1>10, SamePrefix
<1> QED
  BY <1>7, <1>11 DEF t

(* A slot whose literals and marks stay holds the same clause.              *)
LEMMA SameClauseOf ==
  ASSUME NEW c, ClauseAt(c)' = ClauseAt(c), c \in gone' <=> c \in gone,
         c \notin gone => (IS_DELETED_CLAUSE(c)' <=> IS_DELETED_CLAUSE(c))
  PROVE  ClauseOf(c)' = ClauseOf(c)
<1>1. CASE c \in gone
  BY <1>1 DEF ClauseOf
<1>2. CASE c \notin gone
  BY <1>2 DEF ClauseOf
<1> QED
  BY <1>1, <1>2

(* The clause being written is empty where the literals end.                *)
LEMMA NothingWritten ==
  ASSUME DbInv', CLAUSE_IDX(formula_size)' = Len(lits_db')
  PROVE  ClauseAt(formula_size)' = << >>
<1> DEFINE t == lits_db'
           a == Len(t)
           u == SubSeq(t, a + 1, a)
<1>1. t \in Seq(Elt) /\ a \in Nat
  BY DEF DbInv, TypeOK
<1>2. ClauseAt(formula_size)' = u
  BY DEF ClauseAt, ClauseEnd, CLAUSE_IDX
<1> HIDE DEF t
<1>3. u \in Seq(Elt) /\ Len(u) = 0
  BY <1>1, Slice
<1> HIDE DEF u
<1>4. u = << >>
  BY <1>3, EmptySeq
<1> QED
  BY <1>2, <1>4

(* The first clauses stay and one is added.                                 *)
LEMMA ClauseAdded ==
  ASSUME DbInv, DbInv', NEW m \in 0..formula_size, formula_size' = m + 1,
         NEW r \in Recs, ClauseOf(m)' = r,
         \A c \in 0..m - 1 : ClauseOf(c)' = ClauseOf(c)
  PROVE  /\ Clauses' = Append(SubSeq(Clauses, 1, m), r)
         /\ m = formula_size => Clauses' = Append(Clauses, r)
<1>1. /\ Clauses \in Seq(Recs) /\ Len(Clauses) = formula_size /\ formula_size \in Nat
      /\ \A n \in 1..formula_size : Clauses[n] = ClauseOf(n - 1)
  BY ClausesShape DEF ClausesAre
<1>2. /\ Clauses' \in Seq(Recs) /\ Len(Clauses') = m + 1 /\ m \in Nat /\ m <= Len(Clauses)
      /\ \A n \in 1..m + 1 : Clauses'[n] = ClauseOf(n - 1)'
  BY <1>1, ClausesShapeNext DEF ClausesAre
<1> DEFINE s == Clauses
           t == Clauses'
           u == SubSeq(s, 1, m)
           v == Append(u, r)
<1>3. \A n \in 1..m : t[n] = s[n]
  <2> SUFFICES ASSUME NEW n \in 1..m PROVE t[n] = s[n]
    OBVIOUS
  <2>1. n - 1 \in 0..m - 1 /\ n \in 1..m + 1 /\ n \in 1..formula_size
    BY <1>1, <1>2
  <2> QED
    BY <1>1, <1>2, <2>1
<1>4. t[m + 1] = r
  <2>1. m + 1 \in 1..m + 1 /\ (m + 1) - 1 = m
    BY <1>2
  <2>2. Clauses'[m + 1] = ClauseOf((m + 1) - 1)'
    BY <1>2, <2>1
  <2> QED
    BY <2>1, <2>2
<1>5. s \in Seq(Recs) /\ t \in Seq(Recs) /\ m <= Len(s) /\ Len(t) = m + 1
  BY <1>1, <1>2
<1>6. m = formula_size => m = Len(s)
  BY <1>1
<1> HIDE DEF s, t
<1>7. u \in Seq(Recs) /\ Len(u) = m /\ \A n \in 1..m : u[n] = s[n]
  BY <1>2, <1>5, SubSeqProperties
<1>8. m = Len(s) => u = s
  BY <1>5, <1>7, SeqEqual
<1> HIDE DEF u
<1>9. v \in Seq(Recs) /\ Len(v) = m + 1 /\ v[m + 1] = r /\ \A n \in 1..m : v[n] = u[n]
  BY <1>2, <1>7
<1> HIDE DEF v
<1>10. \A n \in 1..m + 1 : n \in 1..m \/ n = m + 1
  BY <1>2
<1>11. \A n \in 1..m + 1 : t[n] = v[n]
  BY <1>3, <1>4, <1>7, <1>9, <1>10
<1>12. t = v
  BY <1>5, <1>9, <1>11, SeqEqual
<1>13. Clauses' = Append(u, r)
  BY <1>12 DEF t, v
<1> QED
  BY <1>6, <1>8, <1>13 DEF u, s

(* One clause changes.                                                      *)
LEMMA ClauseChanged ==
  ASSUME DbInv, DbInv', formula_size' = formula_size, NEW i \in Ids,
         \A c \in Ids : c # i => ClauseOf(c)' = ClauseOf(c)
  PROVE  Clauses' = [Clauses EXCEPT ![i + 1] = ClauseOf(i)']
<1>1. /\ DOMAIN Clauses = 1..formula_size /\ formula_size \in Nat
      /\ \A n \in 1..formula_size : n - 1 \in Ids /\ Clauses[n] = ClauseOf(n - 1)
      /\ i + 1 \in 1..formula_size /\ i \in Int
  BY ClausesShape DEF ClausesAre, Ids
<1>2. Clauses' = [n \in 1..formula_size |-> ClauseOf(n - 1)']
  BY DEF Clauses
<1>3. \A n \in 1..formula_size :
        ClauseOf(n - 1)' = IF n = i + 1 THEN ClauseOf(i)' ELSE Clauses[n]
  <2> SUFFICES ASSUME NEW n \in 1..formula_size
               PROVE  ClauseOf(n - 1)' = IF n = i + 1 THEN ClauseOf(i)' ELSE Clauses[n]
    OBVIOUS
  <2>1. CASE n = i + 1
    <3>1. n - 1 = i
      BY <1>1, <2>1
    <3> QED
      BY <2>1, <3>1
  <2>2. CASE n # i + 1
    <3>1. n - 1 # i
      <4>1. n \in Int /\ i \in Int
        BY <1>1
      <4> QED
        BY <2>2, <4>1
    <3>2. n - 1 \in Ids
      BY <1>1
    <3> QED
      BY <1>1, <2>2, <3>1, <3>2
  <2> QED
    BY <2>1, <2>2
<1> DEFINE r == ClauseOf(i)'
           s == Clauses
           g(n) == ClauseOf(n - 1)'
<1>4. \A n \in 1..formula_size : g(n) = IF n = i + 1 THEN r ELSE s[n]
  BY <1>3
<1>5. Clauses' = [n \in 1..formula_size |-> g(n)]
  BY <1>2
<1>6. s = [n \in 1..formula_size |-> s[n]]
  BY <1>1 DEF Clauses
<1> HIDE DEF r, g, s
<1>7. [n \in 1..formula_size |-> g(n)] = [s EXCEPT ![i + 1] = r]
  BY <1>4, <1>6
<1> QED
  BY <1>5, <1>7 DEF r, s

(* The initial states and every operation map to those of the list.         *)
LEMMA InitMaps == Init => List!Init
<1> SUFFICES ASSUME Init PROVE List!Init
  OBVIOUS
<1>1. formula_size = 0 /\ lits_db = << >> /\ 0 \in 0..MaxClauses
  BY ClauseDbAssumption DEF Init
<1>2. Clauses = << >>
  BY <1>1 DEF Clauses
<1>3. CLAUSE_IDX(0) = 0 /\ ClauseEnd(0) = 0
  BY <1>1 DEF CLAUSE_IDX, ClauseEnd, Init, Entry
<1>4. ClauseAt(formula_size) = << >>
  BY <1>1, <1>3 DEF ClauseAt
<1> QED
  BY <1>2, <1>4 DEF List!Init

LEMMA InsertMaps == DbInv /\ DbInv' /\ InsertLit => List!Insert
<1> SUFFICES ASSUME DbInv, DbInv', InsertLit PROVE List!Insert
  OBVIOUS
<1>1. PICK l \in Elt : lits_db' = Append(lits_db, l)
  BY DEF InsertLit
<1> DEFINE L == Len(lits_db)
           a == CLAUSE_IDX(formula_size)
<1>2. /\ formula' = formula /\ formula_size' = formula_size /\ gone' = gone
      /\ formula_size \in 0..formula_size /\ formula_size \in Nat
  BY ClauseDbAssumption DEF InsertLit, DbInv, TypeOK
<1>3. /\ a \in Nat /\ a <= L /\ L \in Nat /\ lits_db \in Seq(Elt)
      /\ ClauseAt(formula_size) = SubSeq(lits_db, a + 1, L)
  BY <1>2, ClausePlace DEF ClauseEnd
<1>4. /\ lits_db' \in Seq(Elt) /\ Len(lits_db') = L + 1 /\ lits_db'[L + 1] = l
      /\ \A k \in 1..L : lits_db'[k] = lits_db[k]
  BY <1>1, <1>3
<1>5. \A c \in 0..formula_size - 1 : ClauseAt(c)' = ClauseAt(c)
  <2>1. \A c \in 0..formula_size : CLAUSE_IDX(c)' = CLAUSE_IDX(c)
    BY <1>2 DEF CLAUSE_IDX
  <2>2. a <= Len(lits_db') /\ \A k \in 1..a : lits_db'[k] = lits_db[k]
    BY <1>3, <1>4
  <2>3. formula_size <= formula_size'
    BY <1>2
  <2> QED
    BY <1>2, <2>1, <2>2, <2>3, SameClauses
<1>6. Clauses' = Clauses
  <2>1. \A c \in Ids : ClauseOf(c)' = ClauseOf(c)
    BY <1>2, <1>5, SameClauseOf DEF Ids, IS_DELETED_CLAUSE
  <2>2. \A n \in 1..formula_size : n - 1 \in Ids
    BY <1>2 DEF Ids
  <2> QED
    BY <1>2, <2>1, <2>2 DEF Clauses
<1>7. ClauseAt(formula_size)' = Append(ClauseAt(formula_size), l)
  <2> DEFINE s == lits_db
             t == lits_db'
             d == L + 1
             u == SubSeq(s, a + 1, L)
             v == SubSeq(t, a + 1, d)
             w == Append(u, l)
  <2>1. ClauseAt(formula_size)' = v
    BY <1>2, <1>4 DEF ClauseAt, ClauseEnd, CLAUSE_IDX
  <2>2. /\ s \in Seq(Elt) /\ t \in Seq(Elt) /\ Len(t) = d /\ Len(s) = L
        /\ t[d] = l /\ \A k \in 1..L : t[k] = s[k]
    BY <1>3, <1>4
  <2>3. /\ d \in Nat /\ a <= d /\ d - a = (L - a) + 1 /\ L - a \in Nat
        /\ a + ((L - a) + 1) = d
    BY <1>3
  <2> HIDE DEF L, a, s, t
  <2>4. u \in Seq(Elt) /\ Len(u) = L - a /\ \A k \in 1..L - a : u[k] = s[a + k]
    BY <1>3, <2>2, Slice
  <2> HIDE DEF d
  <2>5. v \in Seq(Elt) /\ Len(v) = d - a /\ \A k \in 1..d - a : v[k] = t[a + k]
    BY <1>3, <2>2, <2>3, Slice
  <2> HIDE DEF u, v
  <2>6. /\ w \in Seq(Elt) /\ Len(w) = (L - a) + 1 /\ w[(L - a) + 1] = l
        /\ \A k \in 1..L - a : w[k] = u[k]
    BY <2>3, <2>4
  <2> HIDE DEF w
  <2>7. \A k \in 1..L - a : v[k] = w[k]
    <3>1. \A k \in 1..L - a : a + k \in 1..L /\ k \in 1..d - a
      BY <1>3, <2>3
    <3> QED
      BY <2>2, <2>4, <2>5, <2>6, <3>1
  <2>8. v[(L - a) + 1] = l
    <3>1. (L - a) + 1 \in 1..d - a
      BY <2>3
    <3> QED
      BY <2>2, <2>3, <2>5, <3>1
  <2>9. \A k \in 1..d - a : k \in 1..L - a \/ k = (L - a) + 1
    BY <2>3
  <2>10. v = w
    BY <2>3, <2>5, <2>6, <2>7, <2>8, <2>9, SeqEqual
  <2> QED
    BY <1>3, <2>1, <2>10 DEF w, u, s
<1> QED
  BY <1>6, <1>7 DEF List!Insert

LEMMA DropMaps == DbInv /\ DbInv' /\ DropNewClause => List!Drop
<1> SUFFICES ASSUME DbInv, DbInv', DropNewClause PROVE List!Drop
  OBVIOUS
<1> DEFINE a == CLAUSE_IDX(formula_size)
<1>1. /\ formula' = formula /\ formula_size' = formula_size /\ gone' = gone
      /\ formula_size \in 0..formula_size /\ formula_size \in Nat
      /\ lits_db' = SubSeq(lits_db, 1, a)
  BY ClauseDbAssumption DEF DropNewClause, DbInv, TypeOK
<1>2. /\ Len(lits_db') = a /\ a \in Nat
      /\ \A k \in 1..a : lits_db'[k] = lits_db[k]
  BY <1>1, Cut
<1>3. \A c \in 0..formula_size - 1 : ClauseAt(c)' = ClauseAt(c)
  <2>1. \A c \in 0..formula_size : CLAUSE_IDX(c)' = CLAUSE_IDX(c)
    BY <1>1 DEF CLAUSE_IDX
  <2>2. a <= Len(lits_db') /\ \A k \in 1..a : lits_db'[k] = lits_db[k]
    BY <1>2
  <2>3. formula_size <= formula_size'
    BY <1>1
  <2> QED
    BY <1>1, <2>1, <2>2, <2>3, SameClauses
<1>4. Clauses' = Clauses
  <2>1. \A c \in Ids : ClauseOf(c)' = ClauseOf(c)
    BY <1>1, <1>3, SameClauseOf DEF Ids, IS_DELETED_CLAUSE
  <2>2. \A n \in 1..formula_size : n - 1 \in Ids
    BY <1>1 DEF Ids
  <2> QED
    BY <1>1, <2>1, <2>2 DEF Clauses
<1>5. ClauseAt(formula_size)' = << >>
  <2>1. CLAUSE_IDX(formula_size)' = Len(lits_db')
    BY <1>1, <1>2 DEF CLAUSE_IDX
  <2> QED
    BY <2>1, NothingWritten
<1> QED
  BY <1>4, <1>5 DEF List!Drop

LEMMA CommitMaps == DbInv /\ DbInv' /\ CommitClause => List!Commit
<1> SUFFICES ASSUME DbInv, DbInv', CommitClause PROVE List!Commit
  OBVIOUS
<1>0. PICK n \in Nat : n = formula_size
  BY ClauseDbAssumption DEF DbInv, TypeOK
<1> DEFINE r == [lits |-> ClauseAt(n), status |-> "live"]
<1>1. /\ n \in 0..formula_size /\ n < MaxClauses /\ formula_size' = n + 1
      /\ lits_db' = lits_db /\ gone' = gone /\ n \notin gone
      /\ formula' = [formula EXCEPT ![n + 1] = Entry(Len(lits_db'), FALSE)]
  BY <1>0, ClauseDbAssumption DEF CommitClause, DbInv, TypeOK, Ids
<1>2. /\ \A c \in 0..n :
           /\ CLAUSE_IDX(c)' = CLAUSE_IDX(c)
           /\ IS_DELETED_CLAUSE(c)' = IS_DELETED_CLAUSE(c)
      /\ CLAUSE_IDX(n + 1)' = Len(lits_db') /\ n \in 0..n
  BY <1>0, <1>1, Opened
<1>3. /\ CLAUSE_IDX(n) <= Len(lits_db') /\ CLAUSE_IDX(n) \in Nat
      /\ ClauseAt(n) \in Seq(Elt)
      /\ ClauseAt(n) = SubSeq(lits_db, CLAUSE_IDX(n) + 1, Len(lits_db))
  BY <1>0, <1>1, ClausePlace DEF ClauseEnd
<1>4. \A c \in 0..n - 1 : ClauseOf(c)' = ClauseOf(c)
  <2>1. \A k \in 1..CLAUSE_IDX(n) : lits_db'[k] = lits_db[k]
    BY <1>1
  <2>2. n <= formula_size'
    BY <1>0, <1>1
  <2>3. \A c \in 0..n - 1 : ClauseAt(c)' = ClauseAt(c)
    BY <1>1, <1>2, <1>3, <2>1, <2>2, SameClauses
  <2>4. \A c \in 0..n - 1 : c \in 0..n
    BY <1>0
  <2> QED
    BY <1>1, <1>2, <2>3, <2>4, SameClauseOf
<1>5. ClauseOf(n)' = r
  <2>1. ClauseEnd(n)' = Len(lits_db)
    BY <1>0, <1>1, <1>2 DEF ClauseEnd, CLAUSE_IDX
  <2>2. CLAUSE_IDX(n)' = CLAUSE_IDX(n)
    BY <1>2
  <2>3. ClauseAt(n)' = SubSeq(lits_db, CLAUSE_IDX(n) + 1, Len(lits_db))
    BY <1>1, <2>1, <2>2 DEF ClauseAt
  <2>4. ~(IS_DELETED_CLAUSE(n)') /\ n \notin gone'
    BY <1>0, <1>1, <1>2 DEF DbInv, Ordered
  <2> QED
    BY <1>3, <2>3, <2>4 DEF ClauseOf
<1>6. Clauses' = Append(Clauses, r)
  <2>1. r \in Recs
    BY <1>3 DEF Recs
  <2> HIDE DEF r
  <2> QED
    BY <1>0, <1>1, <1>4, <1>5, <2>1, ClauseAdded
<1>7. ClauseAt(formula_size)' = << >>
  <2>1. CLAUSE_IDX(formula_size)' = Len(lits_db')
    BY <1>1, <1>2 DEF CLAUSE_IDX
  <2> QED
    BY <2>1, NothingWritten
<1> QED
  BY <1>0, <1>6, <1>7 DEF List!Commit, List!Clause

LEMMA DiscardMaps == DbInv /\ DbInv' /\ DiscardFormulaAfterClause => List!Discard
<1> SUFFICES ASSUME DbInv, DbInv', DiscardFormulaAfterClause PROVE List!Discard
  OBVIOUS
<1>1. PICK i \in Ids :
        /\ ~IS_DELETED_CLAUSE(i + 1)
        /\ i + 2 <= MaxClauses /\ formula_size' = i + 2
        /\ lits_db' = SubSeq(lits_db, 1, CLAUSE_IDX(i + 1))
        /\ formula' = [formula EXCEPT ![i + 2] = Entry(CLAUSE_IDX(i + 1), FALSE)]
        /\ gone' = gone \cap 0..i
  BY DEF DiscardFormulaAfterClause
<1>2. PICK m \in Nat : m = i + 1
  BY DEF Ids
<1> DEFINE r == [lits |-> << >>, status |-> "live"]
<1>3. /\ m \in 0..formula_size /\ m < MaxClauses /\ i + 2 = m + 1 /\ m \in 0..m
      /\ m - 1 = i /\ i \in Nat /\ formula_size' = m + 1 /\ m <= formula_size'
      /\ m \in DOMAIN Clauses
  BY <1>1, <1>2, ClauseDbAssumption, ClausesShape DEF DbInv, TypeOK, Ids, ClausesAre
<1>4. lits_db' = SubSeq(lits_db, 1, CLAUSE_IDX(m))
  BY <1>1, <1>2
<1>5. /\ Len(lits_db') = CLAUSE_IDX(m) /\ CLAUSE_IDX(m) \in Nat
      /\ \A k \in 1..CLAUSE_IDX(m) : lits_db'[k] = lits_db[k]
  BY <1>3, <1>4, Cut
<1>6. formula' = [formula EXCEPT ![m + 1] = Entry(Len(lits_db'), FALSE)]
  <2>1. formula' = [formula EXCEPT ![i + 2] = Entry(CLAUSE_IDX(m), FALSE)]
    BY <1>1, <1>2
  <2> QED
    BY <1>3, <1>5, <2>1
<1>7. /\ \A c \in 0..m :
           /\ CLAUSE_IDX(c)' = CLAUSE_IDX(c)
           /\ IS_DELETED_CLAUSE(c)' = IS_DELETED_CLAUSE(c)
      /\ CLAUSE_IDX(m + 1)' = Len(lits_db')
  BY <1>3, <1>6, Opened
<1>8. \A c \in 0..m - 1 : ClauseOf(c)' = ClauseOf(c)
  <2>1. CLAUSE_IDX(m) <= Len(lits_db')
    BY <1>5
  <2>2. \A c \in 0..m - 1 : ClauseAt(c)' = ClauseAt(c)
    BY <1>3, <1>5, <1>7, <2>1, SameClauses
  <2>3. \A c \in 0..m - 1 : c \in 0..m /\ c \in 0..i
    BY <1>3
  <2> QED
    BY <1>1, <1>7, <2>2, <2>3, SameClauseOf
<1>9. ClauseOf(m)' = r
  <2> DEFINE t == lits_db'
             a == Len(t)
             u == SubSeq(t, a + 1, a)
  <2>1. ClauseEnd(m)' = Len(lits_db')
    BY <1>3, <1>7 DEF ClauseEnd, CLAUSE_IDX
  <2>2. CLAUSE_IDX(m)' = Len(lits_db')
    BY <1>3, <1>5, <1>7
  <2>3. ClauseAt(m)' = u
    BY <2>1, <2>2 DEF ClauseAt
  <2>4. t \in Seq(Elt) /\ a \in Nat
    BY DEF DbInv, TypeOK
  <2>5. u = << >>
    <3> HIDE DEF t
    <3>1. u \in Seq(Elt) /\ Len(u) = 0
      BY <2>4, Slice
    <3> HIDE DEF u
    <3> QED
      BY <3>1, EmptySeq
  <2>6. m \notin gone'
    BY <1>1, <1>2, <1>3
  <2>7. ~(IS_DELETED_CLAUSE(m)')
    <3>1. ~IS_DELETED_CLAUSE(m)
      BY <1>1, <1>2
    <3> QED
      BY <1>3, <1>7, <3>1
  <2> QED
    BY <2>3, <2>5, <2>6, <2>7 DEF ClauseOf
<1>10. Clauses' = Append(SubSeq(Clauses, 1, m), r)
  <2>1. r \in Recs
    BY DEF Recs
  <2> HIDE DEF r
  <2> QED
    BY <1>3, <1>8, <1>9, <2>1, ClauseAdded
<1>11. ClauseAt(formula_size)' = << >>
  <2>1. CLAUSE_IDX(formula_size)' = Len(lits_db')
    BY <1>3, <1>7 DEF CLAUSE_IDX
  <2> QED
    BY <2>1, NothingWritten
<1> QED
  BY <1>3, <1>10, <1>11 DEF List!Discard, List!Clause

(* Marking a clause changes no other one, nor the clause being written.     *)
LEMMA MarkedClauses ==
  ASSUME DbInv, DbInv', NEW i \in Ids, NEW deleted \in BOOLEAN,
         formula' = [formula EXCEPT ![i] = Entry(@.at, deleted)],
         UNCHANGED <<lits_db, formula_size>>,
         \A c \in Ids : c # i => (c \in gone' <=> c \in gone)
  PROVE  /\ Clauses' = [Clauses EXCEPT ![i + 1] = ClauseOf(i)']
         /\ ClauseAt(i)' = ClauseAt(i)
         /\ IS_DELETED_CLAUSE(i)' <=> deleted
         /\ ClauseAt(formula_size)' = ClauseAt(formula_size)
<1>1. /\ formula_size \in Nat /\ \A c \in 0..formula_size : c \in 0..MaxClauses
      /\ \A c \in Ids : c \in 0..formula_size /\ c + 1 \in 0..formula_size /\ c # formula_size
      /\ formula_size \in 0..formula_size
  BY ClauseDbAssumption DEF DbInv, TypeOK, Ids
<1>2. \A c \in 0..formula_size :
        /\ CLAUSE_IDX(c)' = CLAUSE_IDX(c)
        /\ IS_DELETED_CLAUSE(c)' = IF c = i THEN deleted ELSE IS_DELETED_CLAUSE(c)
  BY <1>1, Marked
<1>3. \A c \in Ids : ClauseAt(c)' = ClauseAt(c)
  <2> SUFFICES ASSUME NEW c \in Ids PROVE ClauseAt(c)' = ClauseAt(c)
    OBVIOUS
  <2>1. ClauseEnd(c)' = ClauseEnd(c)
    BY <1>1, <1>2 DEF ClauseEnd, CLAUSE_IDX
  <2>2. CLAUSE_IDX(c)' = CLAUSE_IDX(c)
    BY <1>1, <1>2
  <2> QED
    BY <2>1, <2>2 DEF ClauseAt
<1>4. ClauseAt(formula_size)' = ClauseAt(formula_size)
  <2>1. PICK n : n = formula_size
    OBVIOUS
  <2>2. CLAUSE_IDX(n)' = CLAUSE_IDX(n)
    BY <1>1, <1>2, <2>1
  <2> QED
    BY <2>1, <2>2 DEF ClauseAt, ClauseEnd, CLAUSE_IDX
<1>5. \A c \in Ids : c # i => ClauseOf(c)' = ClauseOf(c)
  <2> SUFFICES ASSUME NEW c \in Ids, c # i PROVE ClauseOf(c)' = ClauseOf(c)
    OBVIOUS
  <2>1. IS_DELETED_CLAUSE(c)' <=> IS_DELETED_CLAUSE(c)
    BY <1>1, <1>2
  <2> QED
    BY <1>3, <2>1, SameClauseOf
<1>6. Clauses' = [Clauses EXCEPT ![i + 1] = ClauseOf(i)']
  BY <1>5, ClauseChanged
<1> QED
  BY <1>1, <1>2, <1>3, <1>4, <1>6

LEMMA DeleteMaps == DbInv /\ DbInv' /\ DeleteClause => List!Delete
<1> SUFFICES ASSUME DbInv, DbInv', DeleteClause PROVE List!Delete
  OBVIOUS
<1>1. PICK i \in Ids :
        /\ ~IS_DELETED_CLAUSE(i) /\ gone' = gone \cup {i} /\ formula_size' = formula_size
        /\ \A j \in Ids \ gone : ~IS_DELETED_CLAUSE(j)
        /\ \/ /\ formula' = [formula EXCEPT ![i] = Entry(@.at, TRUE)]
              /\ lits_db' = lits_db
           \/ Collected(gone \cup {i})
  BY DeleteSteps
<1>2. /\ i + 1 \in DOMAIN Clauses /\ Clauses[i + 1] = ClauseOf(i)
      /\ Clauses[i + 1].status = "live"
  BY <1>1, ClausesShape, ClauseRec DEF ClausesAre
<1>3. ClauseOf(i)' = [lits |-> << >>, status |-> "gone"]
  BY <1>1 DEF ClauseOf
<1>4. /\ Clauses' = [Clauses EXCEPT ![i + 1] = ClauseOf(i)']
      /\ ClauseAt(formula_size)' = ClauseAt(formula_size)
  <2>1. CASE /\ formula' = [formula EXCEPT ![i] = Entry(@.at, TRUE)]
             /\ lits_db' = lits_db
    BY <1>1, <2>1, MarkedClauses
  <2>2. CASE Collected(gone \cup {i})
    <3> DEFINE dead == gone \cup {i}
    <3>1. dead \in SUBSET Ids /\ formula_size' = formula_size /\ Collected(dead)
      BY <1>1, <2>2 DEF DbInv, TypeOK
    <3>2. PICK n : n = formula_size
      OBVIOUS
    <3>3. /\ n \in 0..formula_size /\ n \notin dead
          /\ Ids \subseteq 0..formula_size
      BY <3>1, <3>2, ClauseDbAssumption DEF DbInv, TypeOK, Ids
    <3>4. gone' = dead
      BY <1>1
    <3> HIDE DEF dead
    <3>5. \A c \in 0..formula_size :
            /\ c \notin dead => ClauseAt(c)' = ClauseAt(c)
            /\ IS_DELETED_CLAUSE(c)' <=> c \in dead
      BY <3>1, CollectedPlace, CollectedEntries
    <3>6. \A c \in Ids : c # i => ClauseOf(c)' = ClauseOf(c)
      <4> SUFFICES ASSUME NEW c \in Ids, c # i PROVE ClauseOf(c)' = ClauseOf(c)
        OBVIOUS
      <4>1. c \in dead <=> c \in gone
        BY DEF dead
      <4>2. CASE c \in gone
        BY <3>4, <4>1, <4>2 DEF ClauseOf
      <4>3. CASE c \notin gone
        <5>1. ClauseAt(c)' = ClauseAt(c)
          BY <3>3, <3>5, <4>1, <4>3
        <5>2. ~IS_DELETED_CLAUSE(c)
          BY <1>1, <4>3
        <5>3. ~(IS_DELETED_CLAUSE(c)')
          BY <3>3, <3>5, <4>1, <4>3
        <5>4. c \in gone' <=> c \in gone
          BY <3>4, <4>1
        <5> QED
          BY <5>1, <5>2, <5>3, <5>4, SameClauseOf
      <4> QED
        BY <4>2, <4>3
    <3>7. ClauseAt(n)' = ClauseAt(n)
      BY <3>3, <3>5
    <3>8. ClauseAt(formula_size)' = ClauseAt(formula_size)
      BY <3>1, <3>2, <3>7 DEF ClauseAt, ClauseEnd, CLAUSE_IDX
    <3> QED
      BY <3>1, <3>6, <3>8, ClauseChanged
  <2> QED
    BY <1>1, <2>1, <2>2
<1> QED
  BY <1>2, <1>3, <1>4 DEF List!Delete, List!Becomes, List!Clause

LEMMA SoftDeleteMaps == DbInv /\ DbInv' /\ SoftDeleteClause => List!SoftDelete
<1> SUFFICES ASSUME DbInv, DbInv', SoftDeleteClause PROVE List!SoftDelete
  OBVIOUS
<1>1. PICK i \in Ids : SetDeleted(i, TRUE)
  BY DEF SoftDeleteClause
<1>2. /\ formula' = [formula EXCEPT ![i] = Entry(@.at, TRUE)] /\ gone' = gone
      /\ UNCHANGED <<lits_db, formula_size>> /\ ~IS_DELETED_CLAUSE(i)
  BY <1>1 DEF SetDeleted
<1>3. i \notin gone
  BY <1>2 DEF DbInv, GoneDeleted
<1>4. /\ i + 1 \in DOMAIN Clauses /\ Clauses[i + 1] = ClauseOf(i)
      /\ ClauseOf(i) = [lits |-> ClauseAt(i), status |-> "live"]
  BY <1>2, ClausesShape, ClauseRec DEF ClausesAre
<1>5. /\ Clauses' = [Clauses EXCEPT ![i + 1] = ClauseOf(i)']
      /\ ClauseAt(i)' = ClauseAt(i) /\ IS_DELETED_CLAUSE(i)'
      /\ ClauseAt(formula_size)' = ClauseAt(formula_size)
  BY <1>2, MarkedClauses
<1>6. ClauseOf(i)' = [lits |-> Clauses[i + 1].lits, status |-> "deleted"]
  <2>1. ClauseOf(i)' = [lits |-> ClauseAt(i)', status |-> "deleted"]
    BY <1>2, <1>3, <1>5 DEF ClauseOf
  <2> QED
    BY <1>4, <1>5, <2>1
<1>7. Clauses[i + 1].status = "live"
  BY <1>4
<1> QED
  BY <1>4, <1>5, <1>6, <1>7 DEF List!SoftDelete, List!Becomes, List!Clause

LEMMA SoftUndeleteMaps == DbInv /\ DbInv' /\ SoftUndeleteClause => List!SoftUndelete
<1> SUFFICES ASSUME DbInv, DbInv', SoftUndeleteClause PROVE List!SoftUndelete
  OBVIOUS
<1>1. PICK i \in Ids \ gone : SetDeleted(i, FALSE)
  BY DEF SoftUndeleteClause
<1>2. /\ formula' = [formula EXCEPT ![i] = Entry(@.at, FALSE)] /\ gone' = gone
      /\ UNCHANGED <<lits_db, formula_size>> /\ i \in Ids /\ i \notin gone
      /\ i \in 0..MaxClauses
  BY <1>1, ClauseDbAssumption DEF SetDeleted, DbInv, TypeOK, Ids
<1>3. IS_DELETED_CLAUSE(i)
  <2>1. IS_DELETED_CLAUSE(i) \in BOOLEAN /\ IS_DELETED_CLAUSE(i) # FALSE
    BY <1>1, <1>2 DEF SetDeleted, IS_DELETED_CLAUSE, DbInv, TypeOK
  <2> QED
    BY <2>1
<1>4. /\ i + 1 \in DOMAIN Clauses /\ Clauses[i + 1] = ClauseOf(i)
      /\ ClauseOf(i) = [lits |-> ClauseAt(i), status |-> "deleted"]
  BY <1>2, <1>3, ClausesShape, ClauseRec DEF ClausesAre
<1>5. /\ Clauses' = [Clauses EXCEPT ![i + 1] = ClauseOf(i)']
      /\ ClauseAt(i)' = ClauseAt(i) /\ ~(IS_DELETED_CLAUSE(i)')
      /\ ClauseAt(formula_size)' = ClauseAt(formula_size)
  BY <1>2, MarkedClauses
<1>6. ClauseOf(i)' = [lits |-> Clauses[i + 1].lits, status |-> "live"]
  <2>1. ClauseOf(i)' = [lits |-> ClauseAt(i)', status |-> "live"]
    BY <1>2, <1>5 DEF ClauseOf
  <2> QED
    BY <1>4, <1>5, <2>1
<1>7. Clauses[i + 1].status = "deleted"
  BY <1>4
<1> QED
  BY <1>4, <1>5, <1>6, <1>7 DEF List!SoftUndelete, List!Becomes, List!Clause

LEMMA StepMaps == DbInv /\ DbInv' /\ [Next]_vars => [List!Next]_(List!vars)
<1> SUFFICES ASSUME DbInv, DbInv', [Next]_vars PROVE [List!Next]_(List!vars)
  OBVIOUS
<1>1. CASE UNCHANGED vars
  BY <1>1 DEF vars, List!vars, Clauses, ClauseOf, ClauseAt, ClauseEnd, CLAUSE_IDX,
     IS_DELETED_CLAUSE
<1> QED
  BY <1>1, InsertMaps, DropMaps, CommitMaps, DeleteMaps, SoftDeleteMaps, SoftUndeleteMaps,
     DiscardMaps DEF Next, List!Next

(* The database of global_data.c is a list of clauses: whatever is deleted,  *)
(* restored, collected by gc_lits_db() and discarded, the other clauses and  *)
(* the one being written keep their literals and their places in the list.  *)
THEOREM ImplementsClauseList == Spec => Refinement
<1>1. Spec => []DbInv
  BY InitInv, StepInv, PTL DEF Spec
<1> QED
  BY <1>1, InitMaps, StepMaps, PTL DEF Spec, Refinement, List!Spec

=============================================================================
