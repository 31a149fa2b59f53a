------------------------------- MODULE NatSets -------------------------------
(***************************************************************************)
(* The least and the greatest elements of sets of natural numbers, and the   *)
(* ranks of their elements.                                                 *)
(***************************************************************************)
EXTENDS Places, FiniteSetsExt, FiniteSetTheorems, WellFoundedInduction, TLAPS

(* A nonempty set of natural numbers has a least element.  The induction is *)
(* the library's, on the well-founded order of the finite sets 0..x.        *)
LEMMA MinExists ==
  ASSUME NEW S \in SUBSET Nat, S # {}
  PROVE  Min(S) \in S /\ \A x \in S : Min(S) <= x
<1> DEFINE T == {0..x : x \in S}
           R == StrictSubsetOrdering(Nat)
<1>1. \A x \in S : 0..x \in FiniteSubsetsOf(Nat)
  <2> SUFFICES ASSUME NEW x \in S
               PROVE  0..x \in FiniteSubsetsOf(Nat)
    OBVIOUS
  <2>1. IsFiniteSet(0..x)
    BY FS_Interval
  <2> QED
    BY <2>1 DEF FiniteSubsetsOf
<1>2. PICK I \in T : \A J \in T : ~(<<J, I>> \in R)
  <2>1. IsWellFoundedOn(R, FiniteSubsetsOf(Nat))
    BY FS_StrictSubsetOrderingWellFounded
  <2>2. T \subseteq FiniteSubsetsOf(Nat) /\ T # {}
    BY <1>1
  <2> HIDE DEF T, R
  <2> QED
    BY <2>1, <2>2, WFMin
<1>3. PICK m \in S : I = 0..m
  OBVIOUS
<1>4. ASSUME NEW y \in S, y < m
      PROVE  FALSE
  <2>1. 0..y \in T /\ 0..y \subseteq 0..m /\ m \in 0..m /\ m \notin 0..y
    BY <1>4
  <2>2. <<0..y, 0..m>> \in R
    BY <2>1, <1>3 DEF StrictSubsetOrdering
  <2> QED
    BY <1>2, <1>3, <2>1, <2>2
<1>5. \A y \in S : m <= y
  BY <1>4
<1> HIDE DEF T, R
<1> QED
  BY <1>5 DEF Min

(* A nonempty bounded set of natural numbers has a greatest element.        *)
LEMMA MaxExists ==
  ASSUME NEW S \in SUBSET Nat, S # {}, NEW n \in Nat, \A x \in S : x <= n
  PROVE  Max(S) \in S /\ \A x \in S : x <= Max(S)
<1> DEFINE T == {n - x : x \in S}
<1>1. T \in SUBSET Nat /\ T # {}
  <2>1. \A x \in S : n - x \in Nat
    OBVIOUS
  <2> QED
    BY <2>1
<1>2. Min(T) \in T /\ \A y \in T : Min(T) <= y
  <2> HIDE DEF T
  <2> QED
    BY <1>1, MinExists
<1>3. PICK m \in S : Min(T) = n - m
  BY <1>2
<1>4. \A x \in S : n - m <= n - x
  BY <1>2, <1>3
<1>5. \A x \in S : x <= m
  BY <1>4
<1> HIDE DEF T
<1> QED
  BY <1>5 DEF Max

-----------------------------------------------------------------------------
(***************************************************************************)
(* The rank of a place among those that are kept.                           *)
(***************************************************************************)
LEMMA UpToType ==
  ASSUME NEW K, IsFiniteSet(K), NEW p
  PROVE  /\ IsFiniteSet({q \in K : q <= p})
         /\ UpTo(K, p) \in Nat /\ UpTo(K, p) <= Cardinality(K)
BY FS_Subset, FS_CardinalityType DEF UpTo

(* The ranks of an interval go up by one where all of it is kept, and not at *)
(* all where nothing is.                                                    *)
LEMMA UpToInterval ==
  ASSUME NEW K \in SUBSET Nat, IsFiniteSet(K), NEW a \in Nat, NEW b \in Nat, a <= b
  PROVE  /\ UpTo(K, a) <= UpTo(K, b)
         /\ a + 1..b \subseteq K => UpTo(K, b) = UpTo(K, a) + (b - a)
<1> DEFINE S == {q \in K : q <= a}
           T == {q \in K : q <= b}
<1>1. IsFiniteSet(T) /\ IsFiniteSet(S) /\ S \subseteq T
  <2>1. \A q \in K : q \in Nat /\ (q <= a => q <= b)
    OBVIOUS
  <2>2. IsFiniteSet(T) /\ IsFiniteSet(S)
    BY FS_Subset
  <2> QED
    BY <2>1, <2>2
<1>2. UpTo(K, a) <= UpTo(K, b)
  BY <1>1, FS_Subset DEF UpTo
<1>3. ASSUME a + 1..b \subseteq K
      PROVE  UpTo(K, b) = UpTo(K, a) + (b - a)
  <2>1. T = S \cup (a + 1..b) /\ S \cap (a + 1..b) = {}
    <3>1. \A q \in T : q \in S \/ q \in a + 1..b
      OBVIOUS
    <3>2. \A q \in a + 1..b : q \in T /\ q \notin S
      BY <1>3
    <3> QED
      BY <1>1, <3>1, <3>2
  <2>2. IsFiniteSet(a + 1..b) /\ Cardinality(a + 1..b) = b - a
    <3>1. a + 1 \in Int /\ b \in Int /\ (a + 1 > b => b - a = 0) /\ b - (a + 1) + 1 = b - a
      OBVIOUS
    <3> QED
      BY <3>1, FS_Interval
  <2>3. Cardinality(T) = Cardinality(S) + (b - a) - Cardinality({})
    BY <1>1, <2>1, <2>2, FS_Union
  <2>4. Cardinality(S) \in Nat /\ Cardinality({}) = 0
    BY <1>1, FS_CardinalityType, FS_EmptySet
  <2> QED
    BY <2>3, <2>4 DEF UpTo
<1> QED
  BY <1>2, <1>3

(* The ranks of the kept places are 1, 2 and so on, each the rank of one.    *)
LEMMA UpToBijection ==
  ASSUME NEW K \in SUBSET (Nat \ {0}), IsFiniteSet(K)
  PROVE  /\ \A p \in K : UpTo(K, p) \in 1..Cardinality(K)
         /\ \A p, q \in K : UpTo(K, p) = UpTo(K, q) => p = q
         /\ \A n \in 1..Cardinality(K) : \E p \in K : UpTo(K, p) = n
<1>1. ASSUME NEW p \in K
      PROVE  /\ UpTo(K, p) = UpTo(K, p - 1) + 1
             /\ UpTo(K, p - 1) \in Nat /\ UpTo(K, p) \in 1..Cardinality(K)
  <2>1. p - 1 \in Nat /\ p \in Nat /\ p - 1 <= p /\ (p - 1) + 1..p \subseteq K
    BY <1>1
  <2>2. UpTo(K, p) = UpTo(K, p - 1) + (p - (p - 1))
    BY <2>1, UpToInterval
  <2>3. UpTo(K, p - 1) \in Nat /\ UpTo(K, p) <= Cardinality(K) /\ Cardinality(K) \in Nat
    BY UpToType, FS_CardinalityType
  <2> QED
    BY <2>1, <2>2, <2>3
<1>2. ASSUME NEW p \in K, NEW q \in K, p < q
      PROVE  UpTo(K, p) < UpTo(K, q)
  <2>1. p \in Nat /\ q - 1 \in Nat /\ p <= q - 1
    BY <1>2
  <2>2. UpTo(K, p) <= UpTo(K, q - 1) /\ UpTo(K, p) \in Nat
    BY <2>1, UpToInterval, UpToType
  <2> QED
    BY <1>1, <2>2
<1>3. ASSUME NEW p \in K, NEW q \in K, UpTo(K, p) = UpTo(K, q)
      PROVE  p = q
  <2>1. p \in Nat /\ q \in Nat /\ UpTo(K, p) \in Nat /\ UpTo(K, q) \in Nat
    BY UpToType
  <2>2. p < q \/ q < p \/ p = q
    BY <2>1
  <2> QED
    BY <1>2, <1>3, <2>1, <2>2
<1>4. \A n \in 1..Cardinality(K) : \E p \in K : UpTo(K, p) = n
  <2> DEFINE f == [p \in K |-> UpTo(K, p)]
             T == 1..Cardinality(K)
  <2>1. Cardinality(K) \in Nat
    BY FS_CardinalityType
  <2>2. IsFiniteSet(T) /\ Cardinality(T) = Cardinality(K)
    BY <2>1, FS_Interval
  <2>3. f \in [K -> T] /\ \A p, q \in K : f[p] = f[q] => p = q
    BY <1>1, <1>3
  <2>4. f \in Injection(K, T)
    BY <2>3 DEF Injection, IsInjective
  <2> HIDE DEF f
  <2>5. f \in Surjection(K, T)
    BY <2>2, <2>4, FS_Injection
  <2>6. \A n \in T : \E p \in K : f[p] = n
    BY <2>5 DEF Surjection
  <2> QED
    BY <2>6 DEF f
<1> QED
  BY <1>1, <1>3, <1>4

(* The elements at the places of K, each at the rank of its place.           *)
LEMMA AtPlacesSeq ==
  ASSUME NEW S, NEW s \in Seq(S), NEW K \in SUBSET (1..Len(s))
  PROVE  /\ IsFiniteSet(K) /\ Cardinality(K) \in Nat
         /\ AtPlaces(s, K) \in Seq(S) /\ Len(AtPlaces(s, K)) = Cardinality(K)
         /\ \A p \in K : /\ UpTo(K, p) \in 1..Cardinality(K)
                         /\ AtPlaces(s, K)[UpTo(K, p)] = s[p]
         /\ \A p, q \in K : UpTo(K, p) = UpTo(K, q) => p = q
         /\ \A n \in 1..Cardinality(K) :
              \E p \in K : UpTo(K, p) = n /\ AtPlaces(s, K)[n] = s[p]
<1> DEFINE place(n) == CHOOSE p \in K : UpTo(K, p) = n
           t == AtPlaces(s, K)
<1>1. Len(s) \in Nat /\ \A p \in 1..Len(s) : s[p] \in S
  OBVIOUS
<1>2. /\ K \in SUBSET (Nat \ {0}) /\ IsFiniteSet(K) /\ Cardinality(K) \in Nat
  <2>1. IsFiniteSet(1..Len(s))
    BY <1>1, FS_Interval
  <2>2. IsFiniteSet(K)
    BY <2>1, FS_Subset
  <2>3. Cardinality(K) \in Nat
    BY <2>2, FS_CardinalityType
  <2>4. \A p \in K : p \in Nat \ {0}
    BY <1>1
  <2> QED
    BY <2>2, <2>3, <2>4
<1>3. t = [n \in 1..Cardinality(K) |-> s[place(n)]]
  BY DEF AtPlaces
<1>4. \A n \in 1..Cardinality(K) : place(n) \in K /\ UpTo(K, place(n)) = n
  <2> SUFFICES ASSUME NEW n \in 1..Cardinality(K)
               PROVE  place(n) \in K /\ UpTo(K, place(n)) = n
    OBVIOUS
  <2>1. \E p \in K : UpTo(K, p) = n
    BY <1>2, UpToBijection
  <2> QED
    BY <2>1
<1>5. /\ \A p, q \in K : UpTo(K, p) = UpTo(K, q) => p = q
      /\ \A p \in K : UpTo(K, p) \in 1..Cardinality(K)
  BY <1>2, UpToBijection
<1>6. \A p \in K : place(UpTo(K, p)) = p
  BY <1>4, <1>5
<1> HIDE DEF place, t
<1>7. t \in [1..Cardinality(K) -> S]
  BY <1>1, <1>3, <1>4
<1>8. t \in Seq(S) /\ Len(t) = Cardinality(K)
  BY <1>2, <1>7
<1>9. \A p \in K : t[UpTo(K, p)] = s[p]
  BY <1>3, <1>5, <1>6
<1>10. \A n \in 1..Cardinality(K) :
         \E p \in K : UpTo(K, p) = n /\ t[n] = s[p]
  BY <1>3, <1>4
<1> QED
  BY <1>2, <1>5, <1>8, <1>9, <1>10 DEF t
=============================================================================
