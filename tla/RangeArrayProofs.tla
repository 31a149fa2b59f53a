-------------------------- MODULE RangeArrayProofs --------------------------
(***************************************************************************)
(* Proofs about RangeArray: the ranges always partition the data, and the   *)
(* two flat arrays implement a list of ranges.  The lemmas about the        *)
(* operators say what a call does to the three fields and that it keeps the *)
(* shape of the array.                                                      *)
(***************************************************************************)
EXTENDS RangeArray, SequenceTheorems, TLAPS

Good(r) == r \in RA /\ Partitions(r)

(* Three fields make a range array.                                         *)
LEMMA Fields ==
  ASSUME NEW d \in Seq(Elt), NEW x \in [0..MaxRanges -> Nat],
         NEW n \in 0..MaxRanges
  PROVE  /\ Array(d, x, n) \in RA
         /\ Array(d, x, n).data = d
         /\ Array(d, x, n).indexes = x
         /\ Array(d, x, n).indexes_size = n
  BY DEF Array, RA

(* The fields of an array in good shape: the data ends after every start.   *)
LEMMA FieldTypes ==
  ASSUME NEW r, Good(r)
  PROVE  /\ r.data \in Seq(Elt) /\ Len(r.data) \in Nat
         /\ r.indexes \in [0..MaxRanges -> Nat]
         /\ r.indexes_size \in 0..MaxRanges /\ r.indexes_size \in Nat
         /\ \A i \in 0..r.indexes_size :
              r.indexes[i] \in Nat /\ r.indexes[i] <= Len(r.data)
<1>1. r \in RA
  BY DEF Good
<1>2. /\ r.data \in Seq(Elt) /\ r.indexes \in [0..MaxRanges -> Nat]
      /\ r.indexes_size \in 0..MaxRanges
  BY <1>1 DEF RA
<1>3. Len(r.data) \in Nat
  BY <1>2
<1>4. r.indexes_size \in Nat
  BY <1>2, RangeAssumption
<1>5. ASSUME NEW i \in 0..r.indexes_size
      PROVE  r.indexes[i] \in Nat /\ r.indexes[i] <= Len(r.data)
  <2>1. i \in 0..MaxRanges /\ r.indexes_size \in 0..MaxRanges
    BY <1>2, RangeAssumption
  <2>2. r.indexes[i] \in Nat /\ r.indexes[r.indexes_size] \in Nat
    BY <1>2, <2>1
  <2>3. r.indexes[i] <= r.indexes[r.indexes_size]
        /\ r.indexes[r.indexes_size] <= Len(r.data)
    BY <1>4, <2>1 DEF Good, Partitions
  <2>4. QED
    BY <1>3, <2>2, <2>3
<1>6. QED
  BY <1>2, <1>3, <1>4, <1>5

(* A prefix of a sequence has the length asked for.                         *)
LEMMA Prefix ==
  ASSUME NEW s \in Seq(Elt), NEW n \in 0..Len(s)
  PROVE  SubSeq(s, 1, n) \in Seq(Elt) /\ Len(SubSeq(s, 1, n)) = n
  BY SubSeqProperties

(* Three fields with ordered starts within the data make a good array.      *)
LEMMA GoodArray ==
  ASSUME NEW d \in Seq(Elt), NEW x \in [0..MaxRanges -> Nat],
         NEW n \in 0..MaxRanges, x[0] = 0, x[n] <= Len(d),
         \A i, j \in 0..n : i <= j => x[i] <= x[j]
  PROVE  Good(Array(d, x, n))
<1> DEFINE s == Array(d, x, n)
<1>1. s \in RA /\ s.data = d /\ s.indexes = x /\ s.indexes_size = n
  BY Fields
<1> HIDE DEF s
<1>2. Good(s)
  BY <1>1 DEF Good, Partitions
<1>3. QED
  BY <1>2 DEF s

(* ra_insert_*_elt(): the element is pending.                               *)
LEMMA InsertEltGood ==
  ASSUME NEW r, Good(r), NEW e \in Elt
  PROVE  Good(InsertElt(r, e))
<1> DEFINE d == Append(r.data, e)
           x == r.indexes
           n == r.indexes_size
<1>1. d \in Seq(Elt) /\ Len(d) = Len(r.data) + 1
  BY FieldTypes
<1>2. /\ x \in [0..MaxRanges -> Nat] /\ n \in 0..MaxRanges /\ x[0] = 0
      /\ x[n] <= Len(d) /\ \A i, j \in 0..n : i <= j => x[i] <= x[j]
  BY <1>1, FieldTypes DEF Good, Partitions
<1>3. InsertElt(r, e) = Array(d, x, n)
  BY DEF InsertElt
<1> HIDE DEF d, x, n
<1>4. QED
  BY <1>1, <1>2, <1>3, GoodArray

(* ra_commit_range(): the pending range is closed.                          *)
LEMMA CommitRangeGood ==
  ASSUME NEW r, Good(r), r.indexes_size < MaxRanges
  PROVE  Good(CommitRange(r))
<1> DEFINE d == r.data
           m == r.indexes_size
           n == m + 1
           x == [r.indexes EXCEPT ![n] = Len(d)]
<1>1. n \in 0..MaxRanges /\ m \in Nat /\ d \in Seq(Elt) /\ Len(d) \in Nat
  BY FieldTypes, RangeAssumption
<1>2. x \in [0..MaxRanges -> Nat]
  BY <1>1, FieldTypes
<1>3. x[n] = Len(d) /\ \A i \in 0..m : x[i] = r.indexes[i]
  BY <1>1, FieldTypes, RangeAssumption
<1>4. x[0] = 0
  BY <1>1, <1>3 DEF Good, Partitions
<1>5. ASSUME NEW i \in 0..n, NEW j \in 0..n, i <= j PROVE x[i] <= x[j]
  <2>1. CASE j = n
    BY <1>1, <1>3, <2>1, FieldTypes
  <2>2. CASE j # n
    <3>1. i \in 0..m /\ j \in 0..m
      BY <1>1, <1>5, <2>2
    <3>2. QED
      BY <1>3, <1>5, <3>1 DEF Good, Partitions
  <2>3. QED
    BY <2>1, <2>2
<1>6. CommitRange(r) = Array(d, x, n)
  BY DEF CommitRange
<1>7. x[n] <= Len(d)
  BY <1>1, <1>3
<1> HIDE DEF d, x, n
<1>8. QED
  BY <1>1, <1>2, <1>4, <1>5, <1>6, <1>7, GoodArray

(* Cutting the data at the start of range i, or later, keeps the ranges     *)
(* before i: ra_uncommit_range(), ra_clear_data_after_range() and           *)
(* ra_uncommit_data_by() are such cuts.                                     *)
LEMMA CutGood ==
  ASSUME NEW r, Good(r), NEW i \in 0..r.indexes_size,
         NEW k \in r.indexes[i]..Len(r.data)
  PROVE  Good(Array(SubSeq(r.data, 1, k), r.indexes, i))
<1> DEFINE d == SubSeq(r.data, 1, k)
           x == r.indexes
<1> SUFFICES Good(Array(d, x, i))
  OBVIOUS
<1>1. r.indexes[i] \in Nat /\ Len(r.data) \in Nat /\ i \in 0..MaxRanges
  BY FieldTypes, RangeAssumption
<1>2. k \in 0..Len(r.data) /\ r.data \in Seq(Elt)
  BY <1>1, FieldTypes
<1>3. d \in Seq(Elt) /\ Len(d) = k
  BY <1>2, Prefix
<1>4. /\ x \in [0..MaxRanges -> Nat] /\ x[0] = 0 /\ x[i] <= Len(d)
      /\ \A p, q \in 0..i : p <= q => x[p] <= x[q]
  <2>1. /\ r.indexes_size \in Nat /\ x[0] = 0
        /\ \A p, q \in 0..r.indexes_size : p <= q => x[p] <= x[q]
    BY FieldTypes DEF Good, Partitions
  <2>2. x \in [0..MaxRanges -> Nat]
    BY FieldTypes
  <2> QED
    BY <1>1, <1>3, <2>1, <2>2
<1> HIDE DEF d, x
<1>5. QED
  BY <1>1, <1>3, <1>4, GoodArray

(* ra_uncommit_range() cuts at the start of the pending range.              *)
LEMMA UncommitRangeGood ==
  ASSUME NEW r, Good(r), r.indexes_size > 0
  PROVE  Good(UncommitRange(r))
<1> DEFINE n == r.indexes_size
           k == r.indexes[n]
<1>1. n - 1 \in 0..n /\ n \in 0..n
  BY FieldTypes, RangeAssumption
<1>2. r.indexes[n - 1] <= k /\ k \in Nat /\ r.indexes[n - 1] \in Nat
      /\ k <= Len(r.data) /\ Len(r.data) \in Nat
  BY <1>1, FieldTypes DEF Good, Partitions
<1>3. k \in r.indexes[n - 1]..Len(r.data)
  BY <1>2
<1>4. QED
  BY <1>1, <1>3, CutGood DEF UncommitRange

(* ra_clear_data_after_range() cuts at the start of range i.                *)
LEMMA ClearDataAfterRangeGood ==
  ASSUME NEW r, Good(r), NEW i \in 0..r.indexes_size
  PROVE  Good(ClearDataAfterRange(r, i))
<1>1. r.indexes[i] \in r.indexes[i]..Len(r.data)
  BY FieldTypes
<1>2. QED
  BY <1>1, CutGood DEF ClearDataAfterRange

(* ra_uncommit_data_by() cuts inside the pending range.                     *)
LEMMA UncommitDataByGood ==
  ASSUME NEW r, Good(r), NEW amount \in 0..PendingSize(r)
  PROVE  Good(UncommitDataBy(r, amount))
<1> DEFINE n == r.indexes_size
           k == Len(r.data) - amount
<1>1. n \in 0..n /\ r.indexes[n] \in Nat /\ Len(r.data) \in Nat
      /\ r.indexes[n] <= Len(r.data)
  BY FieldTypes
<1>2. amount \in 0..Len(r.data) - r.indexes[n]
  BY DEF PendingSize, RangeSize
<1>3. k \in r.indexes[n]..Len(r.data)
  BY <1>1, <1>2
<1>4. QED
  BY <1>1, <1>3, CutGood DEF UncommitDataBy

(* ra_commit_empty_ranges_until(), called when nothing is pending.          *)
LEMMA CommitEmptyRangesUntilGood ==
  ASSUME NEW r, Good(r), NEW n \in 0..MaxRanges,
         n > r.indexes_size => PendingSize(r) = 0
  PROVE  Good(CommitEmptyRangesUntil(r, n))
<1> DEFINE d == r.data
           m == r.indexes_size
           x == [i \in 0..MaxRanges |-> IF i \in m..n THEN Len(d) ELSE r.indexes[i]]
<1>1. CASE m >= n
  BY <1>1 DEF CommitEmptyRangesUntil
<1>2. CASE ~(m >= n)
  <2>1. /\ m \in Nat /\ n \in Nat /\ m < n /\ d \in Seq(Elt) /\ Len(d) \in Nat
        /\ 0 \in 0..MaxRanges
    BY <1>2, FieldTypes, RangeAssumption
  <2>2. x \in [0..MaxRanges -> Nat]
    BY <2>1, FieldTypes
  <2>3. r.indexes[m] = Len(d)
    <3>1. r.indexes[m] \in Nat
      BY <2>1, FieldTypes
    <3>2. Len(d) - r.indexes[m] = 0
      BY <1>2, <2>1 DEF PendingSize, RangeSize
    <3>3. QED
      BY <2>1, <3>1, <3>2
  <2>4. ASSUME NEW i \in 0..n
        PROVE  IF i \in m..n THEN x[i] = Len(d)
               ELSE i \in 0..m /\ x[i] = r.indexes[i] /\ x[i] <= Len(d)
    BY <2>1, FieldTypes, RangeAssumption
  <2>5. x[0] = 0
    <3>1. r.indexes[0] = 0
      BY DEF Good, Partitions
    <3>2. QED
      BY <2>1, <2>3, <3>1
  <2>6. x[n] <= Len(d)
    BY <2>1, <2>4
  <2>7. ASSUME NEW i \in 0..n, NEW j \in 0..n, i <= j PROVE x[i] <= x[j]
    <3>1. CASE j \in m..n
      <4>1. x[j] = Len(d)
        BY <2>4, <3>1
      <4>2. x[i] <= Len(d)
        <5> HIDE DEF x, d
        <5>1. CASE i \in m..n
          BY <2>1, <2>4, <5>1
        <5>2. CASE i \notin m..n
          BY <2>4, <5>2
        <5>3. QED
          BY <5>1, <5>2
      <4>3. QED
        BY <4>1, <4>2
    <3>2. CASE j \notin m..n
      <4>1. i \notin m..n
        BY <2>1, <2>7, <3>2
      <4>2. QED
        BY <2>4, <2>7, <3>2, <4>1 DEF Good, Partitions
    <3>3. QED
      BY <3>1, <3>2
  <2>8. CommitEmptyRangesUntil(r, n) = Array(d, x, n)
    BY <1>2 DEF CommitEmptyRangesUntil
  <2> HIDE DEF d, x
  <2>9. QED
    BY <2>1, <2>2, <2>5, <2>6, <2>7, <2>8, GoodArray
<1>3. QED
  BY <1>1, <1>2

(* ra_init() and ra_reset() leave no range and no data.                     *)
LEMMA EmptyGood ==
  ASSUME NEW x \in [0..MaxRanges -> Nat], x[0] = 0
  PROVE  Good(Array(<< >>, x, 0))
<1> DEFINE d == << >>
<1> SUFFICES Good(Array(d, x, 0))
  OBVIOUS
<1>1. d \in Seq(Elt) /\ x[0] <= Len(d) /\ 0 \in 0..MaxRanges
  BY RangeAssumption
<1>2. \A i, j \in 0..0 : i <= j => x[i] <= x[j]
  OBVIOUS
<1> HIDE DEF d
<1>3. QED
  BY <1>1, <1>2, GoodArray
-----------------------------------------------------------------------------
IInv == Good(ra)

(* ra_init() makes an array in good shape.                                  *)
LEMMA InitInv == Init => IInv
<1>1. [i \in 0..MaxRanges |-> 0] \in [0..MaxRanges -> Nat]
  OBVIOUS
<1>2. [i \in 0..MaxRanges |-> 0][0] = 0
  BY RangeAssumption
<1>3. QED
  BY <1>1, <1>2, EmptyGood DEF Init, IInv, EmptyRA

(* Every call to the array keeps it in good shape.                          *)
LEMMA StepInv == IInv /\ [Next]_ra => IInv'
<1> SUFFICES ASSUME Good(ra), [Next]_ra PROVE Good(ra')
  BY DEF IInv, Good, RA, Partitions
<1>1. CASE Insert
  BY <1>1, InsertEltGood DEF Insert
<1>2. CASE Commit
  BY <1>2, CommitRangeGood DEF Commit
<1>3. CASE Uncommit
  BY <1>3, UncommitRangeGood DEF Uncommit
<1>4. CASE CommitEmpty
  BY <1>4, CommitEmptyRangesUntilGood DEF CommitEmpty
<1>5. CASE Forget
  BY <1>5, UncommitDataByGood DEF Forget
<1>6. CASE Clear
  BY <1>6, ClearDataAfterRangeGood DEF Clear
<1>7. CASE Reset
  <2>1. [ra.indexes EXCEPT ![0] = 0] \in [0..MaxRanges -> Nat]
    BY FieldTypes
  <2>2. [ra.indexes EXCEPT ![0] = 0][0] = 0
    BY FieldTypes, RangeAssumption
  <2>3. QED
    BY <1>7, <2>1, <2>2, EmptyGood DEF Reset, ResetRA
<1>8. CASE UNCHANGED ra
  BY <1>8
<1>9. QED
  BY <1>1, <1>2, <1>3, <1>4, <1>5, <1>6, <1>7, <1>8 DEF Next

(* However ranges are inserted, committed, uncommitted and cleared, the     *)
(* starts of the ranges are ordered and the last is within the data.        *)
THEOREM Partition == Spec => []RangesPartition
<1>1. Spec => []IInv
  BY InitInv, StepInv, PTL DEF Spec
<1>2. IInv => RangesPartition
  BY DEF IInv, Good, RangesPartition
<1>3. QED
  BY <1>1, <1>2, PTL
-----------------------------------------------------------------------------
(***************************************************************************)
(* The refinement.  Two arrays that agree on the data of a range, and on    *)
(* where it starts and ends, hold the same range.                           *)
(***************************************************************************)
(* A slice of a sequence: its length and its elements.                      *)
LEMMA Slice ==
  ASSUME NEW s \in Seq(Elt), NEW a \in Nat, NEW b \in Nat, a <= b, b <= Len(s)
  PROVE  /\ SubSeq(s, a + 1, b) \in Seq(Elt)
         /\ Len(SubSeq(s, a + 1, b)) = b - a
         /\ \A i \in 1..b - a : SubSeq(s, a + 1, b)[i] = s[a + i]
<1>1. \A i \in a + 1..b : s[i] \in Elt
  OBVIOUS
<1>2. QED
  BY <1>1, SubSeqProperties

(* Slices of sequences that agree up to the end of the slice are the same.  *)
LEMMA SlicesAgree ==
  ASSUME NEW s \in Seq(Elt), NEW t \in Seq(Elt), NEW a \in Nat, NEW b \in Nat,
         a <= b, b <= Len(s), b <= Len(t), \A k \in 1..b : s[k] = t[k]
  PROVE  SubSeq(s, a + 1, b) = SubSeq(t, a + 1, b)
<1> DEFINE u == SubSeq(s, a + 1, b)
           v == SubSeq(t, a + 1, b)
<1>2. /\ u \in Seq(Elt) /\ Len(u) = b - a
      /\ \A i \in 1..b - a : u[i] = s[a + i]
  BY Slice
<1>3. /\ v \in Seq(Elt) /\ Len(v) = b - a
      /\ \A i \in 1..b - a : v[i] = t[a + i]
  BY Slice
<1>4. \A i \in 1..b - a : s[a + i] = t[a + i]
  OBVIOUS
<1> HIDE DEF u, v
<1>5. u = v
  BY <1>2, <1>3, <1>4, SeqEqual
<1>6. QED
  BY <1>5 DEF u, v

RangeLimit(r, i) == IF i = r.indexes_size THEN Len(r.data) ELSE r.indexes[i + 1]

(* Where range i is in the data: the getters agree with the indexes.        *)
LEMMA RangeAtFacts ==
  ASSUME NEW r, Good(r), NEW i \in 0..r.indexes_size
  PROVE  /\ RangeAt(r, i) = SubSeq(r.data, r.indexes[i] + 1, RangeLimit(r, i))
         /\ r.indexes[i] \in Nat /\ RangeLimit(r, i) \in Nat
         /\ r.indexes[i] <= RangeLimit(r, i) /\ RangeLimit(r, i) <= Len(r.data)
         /\ RangeAt(r, i) \in Seq(Elt)
         /\ Len(RangeAt(r, i)) = RangeLimit(r, i) - r.indexes[i]
<1>1. /\ r.indexes_size \in Nat /\ Len(r.data) \in Nat
      /\ r.indexes[i] \in Nat /\ r.indexes[i] <= Len(r.data)
  BY FieldTypes
<1>2. i # r.indexes_size => i + 1 \in 0..r.indexes_size /\ i <= i + 1
  BY <1>1
<1>3. /\ RangeLimit(r, i) \in Nat /\ r.indexes[i] <= RangeLimit(r, i)
      /\ RangeLimit(r, i) <= Len(r.data)
  BY <1>1, <1>2, FieldTypes DEF RangeLimit, Good, Partitions
<1>4. RangeStart(r, i) = r.indexes[i]
  BY <1>1 DEF RangeStart, Good, Partitions
<1>5. RangeEnd(r, i) = RangeLimit(r, i)
  BY <1>1, <1>2 DEF RangeEnd, RangeStart, RangeLimit
<1>6. RangeAt(r, i) = SubSeq(r.data, r.indexes[i] + 1, RangeLimit(r, i))
  BY <1>4, <1>5 DEF RangeAt
<1>7. \A k \in r.indexes[i] + 1..RangeLimit(r, i) : r.data[k] \in Elt
  BY <1>1, <1>3, FieldTypes
<1>8. RangeAt(r, i) \in Seq(Elt) /\ Len(RangeAt(r, i)) = RangeLimit(r, i) - r.indexes[i]
  BY <1>1, <1>3, <1>6, <1>7, SubSeqProperties
<1>9. QED
  BY <1>1, <1>3, <1>6, <1>8

(* The ranges are sequences, one per committed index.                       *)
LEMMA RangesType ==
  ASSUME NEW r, Good(r)
  PROVE  /\ Ranges(r) \in Seq(Seq(Elt)) /\ Len(Ranges(r)) = r.indexes_size
         /\ r.indexes_size \in Nat
         /\ \A i \in 1..r.indexes_size : Ranges(r)[i] = RangeAt(r, i - 1)
         /\ Pending(r) \in Seq(Elt)
<1>1. r.indexes_size \in Nat /\ r.indexes_size \in 0..r.indexes_size
  BY FieldTypes
<1>2. \A i \in 1..r.indexes_size : i - 1 \in 0..r.indexes_size
  BY <1>1
<1>3. \A i \in 1..r.indexes_size : RangeAt(r, i - 1) \in Seq(Elt)
  BY <1>2, RangeAtFacts
<1>4. Ranges(r) \in [1..r.indexes_size -> Seq(Elt)]
  BY <1>3 DEF Ranges
<1>5. Ranges(r) \in Seq(Seq(Elt)) /\ Len(Ranges(r)) = r.indexes_size
  BY <1>1, <1>4
<1>6. Pending(r) \in Seq(Elt)
  BY <1>1, RangeAtFacts DEF Pending
<1>7. QED
  BY <1>1, <1>5, <1>6 DEF Ranges

(* Arrays that agree up to the start of range m have the same first m ranges.*)
LEMMA SamePrefix ==
  ASSUME NEW r, Good(r), NEW s, Good(s), NEW m \in Nat,
         m <= r.indexes_size, m <= s.indexes_size,
         \A i \in 0..m : r.indexes[i] = s.indexes[i],
         \A k \in 1..r.indexes[m] : r.data[k] = s.data[k]
  PROVE  \A i \in 1..m : Ranges(r)[i] = Ranges(s)[i]
<1> SUFFICES ASSUME NEW i \in 1..m PROVE Ranges(r)[i] = Ranges(s)[i]
  OBVIOUS
<1>1. r.indexes_size \in Nat /\ s.indexes_size \in Nat
  BY FieldTypes
<1>2. /\ i - 1 \in 0..r.indexes_size /\ i - 1 \in 0..s.indexes_size
      /\ i - 1 # r.indexes_size /\ i - 1 # s.indexes_size
      /\ i - 1 \in 0..m /\ i \in 0..m /\ (i - 1) + 1 = i
      /\ i \in 0..r.indexes_size /\ m \in 0..r.indexes_size
      /\ i \in 1..r.indexes_size /\ i \in 1..s.indexes_size
  BY <1>1
<1> DEFINE a == r.indexes[i - 1]
           b == r.indexes[i]
<1>3. s.indexes[i - 1] = a /\ s.indexes[i] = b
  BY <1>2
<1>4. RangeAt(r, i - 1) = SubSeq(r.data, a + 1, b) /\ a \in Nat /\ b \in Nat
      /\ a <= b /\ b <= Len(r.data)
  BY <1>2, RangeAtFacts DEF RangeLimit
<1>5. RangeAt(s, i - 1) = SubSeq(s.data, a + 1, b) /\ b <= Len(s.data)
  <2>1. RangeLimit(s, i - 1) = b
    BY <1>2, <1>3 DEF RangeLimit
  <2>2. /\ RangeAt(s, i - 1) =
              SubSeq(s.data, s.indexes[i - 1] + 1, RangeLimit(s, i - 1))
        /\ RangeLimit(s, i - 1) <= Len(s.data)
    BY <1>2, RangeAtFacts
  <2> HIDE DEF a, b
  <2>3. QED
    BY <1>3, <2>1, <2>2
<1>6. b <= r.indexes[m] /\ r.indexes[m] \in Nat
  BY <1>2, FieldTypes DEF Good, Partitions
<1>7. \A k \in 1..b : r.data[k] = s.data[k]
  BY <1>4, <1>6
<1>8. r.data \in Seq(Elt) /\ s.data \in Seq(Elt)
  BY FieldTypes
<1> HIDE DEF a, b
<1>9. SubSeq(r.data, a + 1, b) = SubSeq(s.data, a + 1, b)
  BY <1>4, <1>5, <1>7, <1>8, SlicesAgree
<1>10. QED
  BY <1>2, <1>4, <1>5, <1>9, RangesType

(* Cutting the data and the ranges at m keeps the first m ranges.           *)
LEMMA CutRanges ==
  ASSUME NEW r, Good(r), NEW m \in 0..r.indexes_size,
         NEW k \in r.indexes[m]..Len(r.data)
  PROVE  LET s == Array(SubSeq(r.data, 1, k), r.indexes, m)
         IN  /\ Ranges(s) = SubSeq(Ranges(r), 1, m)
             /\ Pending(s) = SubSeq(r.data, r.indexes[m] + 1, k)
<1> DEFINE d == SubSeq(r.data, 1, k)
           s == Array(d, r.indexes, m)
           v == SubSeq(Ranges(r), 1, m)
<1>1. /\ m \in Nat /\ m \in 0..MaxRanges /\ k \in Nat /\ k \in 0..Len(r.data)
      /\ r.indexes[m] \in Nat /\ r.indexes[m] <= k
      /\ r.data \in Seq(Elt) /\ Len(r.data) \in Nat /\ k <= Len(r.data)
      /\ r.indexes \in [0..MaxRanges -> Nat] /\ m <= r.indexes_size
  BY FieldTypes, RangeAssumption
<1>2. d \in Seq(Elt) /\ Len(d) = k
  BY <1>1, Prefix
<1>3. \A i \in 1..k : d[i] = r.data[i]
  <2>1. \A i \in 1..k : r.data[i] \in Elt
    BY <1>1
  <2>2. \A i \in 1..k - 1 + 1 : d[i] = r.data[1 + i - 1]
    BY <1>1, <2>1, SubSeqProperties
  <2>3. QED
    BY <1>1, <2>2
<1>4. Good(s)
  BY CutGood
<1> HIDE DEF d
<1>5. s.data = d /\ s.indexes = r.indexes /\ s.indexes_size = m
  BY <1>1, <1>2, Fields
<1> HIDE DEF s
<1>6. \A i \in 1..m : Ranges(r)[i] = Ranges(s)[i]
  BY <1>1, <1>3, <1>4, <1>5, SamePrefix
<1>7. \A i \in 1..m : Ranges(r)[i] \in Seq(Elt)
  BY <1>1, RangesType
<1>8. v \in Seq(Seq(Elt)) /\ Len(v) = m /\ \A i \in 1..m : v[i] = Ranges(r)[i]
  <2>1. \A i \in 1..m - 1 + 1 : v[i] = Ranges(r)[1 + i - 1]
    BY <1>1, <1>7, SubSeqProperties
  <2>2. v \in Seq(Seq(Elt)) /\ Len(v) = IF 1 <= m THEN m - 1 + 1 ELSE 0
    BY <1>1, <1>7, SubSeqProperties
  <2>3. QED
    BY <1>1, <2>1, <2>2
<1>9. Ranges(s) = v
  <2> HIDE DEF v
  <2>1. Ranges(s) \in Seq(Seq(Elt)) /\ Len(Ranges(s)) = m
    BY <1>4, <1>5, RangesType
  <2>2. QED
    BY <1>6, <1>8, <2>1, SeqEqual
<1>10. Pending(s) = SubSeq(r.data, r.indexes[m] + 1, k)
  <2>1. m \in 0..s.indexes_size
    BY <1>1, <1>5
  <2>2. Pending(s) = SubSeq(d, r.indexes[m] + 1, k)
    BY <1>2, <1>4, <1>5, <2>1, RangeAtFacts DEF Pending, RangeLimit
  <2> DEFINE a == r.indexes[m]
  <2>3. a \in Nat /\ a <= k /\ k \in Nat /\ k <= Len(r.data) /\ k <= Len(d)
    BY <1>1, <1>2
  <2> HIDE DEF a
  <2>4. SubSeq(d, a + 1, k) = SubSeq(r.data, a + 1, k)
    BY <1>1, <1>2, <1>3, <2>3, SlicesAgree
  <2>5. QED
    BY <2>2, <2>4 DEF a
<1>11. QED
  BY <1>9, <1>10 DEF s, d

(* One more element at the end of a sequence is at the end of its slices.   *)
LEMMA SliceAppend ==
  ASSUME NEW s \in Seq(Elt), NEW a \in Nat, a <= Len(s), NEW e \in Elt
  PROVE  SubSeq(Append(s, e), a + 1, Len(s) + 1) =
         Append(SubSeq(s, a + 1, Len(s)), e)
<1> DEFINE n == Len(s)
           d == Append(s, e)
           p == SubSeq(s, a + 1, n)
           q == Append(p, e)
           u == SubSeq(d, a + 1, n + 1)
<1>1. n \in Nat /\ a <= n
  OBVIOUS
<1>2. /\ d \in Seq(Elt) /\ Len(d) = n + 1 /\ d[n + 1] = e
      /\ \A k \in 1..n : d[k] = s[k]
  OBVIOUS
<1>3. p \in Seq(Elt) /\ Len(p) = n - a /\ \A i \in 1..n - a : p[i] = s[a + i]
  BY <1>1, Slice
<1> HIDE DEF n, d, p
<1>4. u \in Seq(Elt) /\ Len(u) = n + 1 - a /\ \A i \in 1..n + 1 - a : u[i] = d[a + i]
  BY <1>1, <1>2, Slice
<1>5. /\ q \in Seq(Elt) /\ Len(q) = n + 1 - a /\ q[n + 1 - a] = e
      /\ \A i \in 1..n - a : q[i] = p[i]
  BY <1>1, <1>3
<1> HIDE DEF q, u
<1>6. ASSUME NEW i \in 1..n + 1 - a PROVE u[i] = q[i]
  <2>1. CASE i = n + 1 - a
    BY <1>1, <1>2, <1>4, <1>5, <2>1
  <2>2. CASE i # n + 1 - a
    <3>1. i \in 1..n - a /\ a + i \in 1..n
      BY <1>1, <2>2
    <3>2. QED
      BY <1>2, <1>3, <1>4, <1>5, <3>1
  <2>3. QED
    BY <2>1, <2>2
<1>7. u = q
  BY <1>4, <1>5, <1>6, SeqEqual
<1>8. QED
  BY <1>7 DEF u, q, p, d, n

(* One more element at the end of the data is one more pending element.     *)
LEMMA InsertRanges ==
  ASSUME NEW r, Good(r), NEW e \in Elt
  PROVE  /\ Ranges(InsertElt(r, e)) = Ranges(r)
         /\ Pending(InsertElt(r, e)) = Append(Pending(r), e)
<1> DEFINE d == Append(r.data, e)
           s == InsertElt(r, e)
           n == r.indexes_size
           a == r.indexes[n]
<1>1. /\ n \in Nat /\ n \in 0..MaxRanges /\ n \in 0..n /\ a \in Nat
      /\ a <= Len(r.data) /\ Len(r.data) \in Nat /\ r.data \in Seq(Elt)
      /\ r.indexes \in [0..MaxRanges -> Nat]
  BY FieldTypes
<1>2. /\ d \in Seq(Elt) /\ Len(d) = Len(r.data) + 1
      /\ \A k \in 1..Len(r.data) : d[k] = r.data[k]
  BY <1>1
<1>3. Good(s)
  BY InsertEltGood
<1>4. s = Array(d, r.indexes, n)
  BY DEF InsertElt
<1>5. Pending(r) = SubSeq(r.data, a + 1, Len(r.data))
  BY <1>1, RangeAtFacts DEF Pending, RangeLimit
<1>6. SubSeq(d, a + 1, Len(r.data) + 1) = Append(SubSeq(r.data, a + 1, Len(r.data)), e)
  <2> HIDE DEF a
  <2>1. QED
    BY <1>1, SliceAppend
<1> HIDE DEF d, s
<1>7. s.data = d /\ s.indexes = r.indexes /\ s.indexes_size = n
  BY <1>1, <1>2, <1>4, Fields
<1>8. \A k \in 1..a : r.data[k] = s.data[k]
  BY <1>1, <1>2, <1>7
<1>9. \A i \in 1..n : Ranges(r)[i] = Ranges(s)[i]
  BY <1>1, <1>3, <1>7, <1>8, SamePrefix
<1>10. Ranges(s) = Ranges(r)
  BY <1>3, <1>7, <1>9, RangesType, SeqEqual
<1>11. Pending(s) = SubSeq(d, a + 1, Len(r.data) + 1)
  BY <1>1, <1>2, <1>3, <1>7, RangeAtFacts DEF Pending, RangeLimit
<1>12. QED
  BY <1>5, <1>6, <1>10, <1>11 DEF s

(* A committed range is the pending one, and nothing is pending after it.    *)
LEMMA CommitRanges ==
  ASSUME NEW r, Good(r), r.indexes_size < MaxRanges
  PROVE  /\ Ranges(CommitRange(r)) = Append(Ranges(r), Pending(r))
         /\ Pending(CommitRange(r)) = << >>
<1> DEFINE d == r.data
           m == r.indexes_size
           n == m + 1
           x == [r.indexes EXCEPT ![n] = Len(d)]
           s == CommitRange(r)
           q == Append(Ranges(r), Pending(r))
<1>1. /\ n \in 0..MaxRanges /\ m \in Nat /\ d \in Seq(Elt) /\ Len(d) \in Nat
      /\ m \in 0..m /\ n \in 0..n
  BY FieldTypes, RangeAssumption
<1>2. x \in [0..MaxRanges -> Nat]
  BY <1>1, FieldTypes
<1>3. x[n] = Len(d) /\ \A i \in 0..m : x[i] = r.indexes[i]
  BY <1>1, FieldTypes, RangeAssumption
<1>4. s = Array(d, x, n)
  BY DEF CommitRange
<1>5. Good(s)
  BY CommitRangeGood
<1> HIDE DEF x, s
<1>6. s.data = d /\ s.indexes = x /\ s.indexes_size = n
  <2> HIDE DEF d, n
  <2>1. QED
    BY <1>1, <1>2, <1>4, Fields
<1>7. \A i \in 1..m : Ranges(r)[i] = Ranges(s)[i]
  BY <1>1, <1>3, <1>5, <1>6, SamePrefix
<1>8. Ranges(s)[n] = Pending(r)
  <2>1. Ranges(s)[n] = RangeAt(s, m)
    BY <1>1, <1>5, <1>6, RangesType
  <2>2. RangeAt(s, m) = SubSeq(d, r.indexes[m] + 1, Len(d))
    <3>1. m \in 0..s.indexes_size /\ m # s.indexes_size
      BY <1>1, <1>6
    <3>2. RangeLimit(s, m) = Len(d) /\ s.indexes[m] = r.indexes[m]
      BY <1>1, <1>3, <1>6, <3>1 DEF RangeLimit
    <3>3. QED
      BY <1>5, <1>6, <3>1, <3>2, RangeAtFacts
  <2>3. Pending(r) = SubSeq(d, r.indexes[m] + 1, Len(d))
    BY <1>1, RangeAtFacts DEF Pending, RangeLimit
  <2>4. QED
    BY <2>1, <2>2, <2>3
<1>9. /\ q \in Seq(Seq(Elt)) /\ Len(q) = n /\ q[n] = Pending(r)
      /\ \A i \in 1..m : q[i] = Ranges(r)[i]
  BY <1>1, RangesType
<1>10. Ranges(s) \in Seq(Seq(Elt)) /\ Len(Ranges(s)) = n
  BY <1>5, <1>6, RangesType
<1>11. \A i \in 1..n : Ranges(s)[i] = q[i]
  <2> HIDE DEF q
  <2>1. \A i \in 1..n : i = n \/ i \in 1..m
    BY <1>1
  <2>2. QED
    BY <1>7, <1>8, <1>9, <2>1
<1> HIDE DEF q
<1>12. Ranges(s) = q
  BY <1>9, <1>10, <1>11, SeqEqual
<1>13. Pending(s) = SubSeq(d, Len(d) + 1, Len(d))
  <2>1. n \in 0..s.indexes_size /\ s.indexes[n] = Len(d) /\ RangeLimit(s, n) = Len(d)
    BY <1>1, <1>3, <1>6 DEF RangeLimit
  <2>2. QED
    BY <1>5, <1>6, <2>1, RangeAtFacts DEF Pending
<1>14. Pending(s) = << >>
  BY <1>1, <1>13, SubSeqEmpty
<1>15. QED
  BY <1>12, <1>14 DEF s, q

(* Ranges committed when nothing is pending are empty.                      *)
LEMMA PadRanges ==
  ASSUME NEW r, Good(r), NEW n \in 0..MaxRanges, n > r.indexes_size,
         PendingSize(r) = 0
  PROVE  LET s == CommitEmptyRangesUntil(r, n)
         IN  /\ Len(Ranges(s)) = n /\ Len(Ranges(r)) = r.indexes_size
             /\ SubSeq(Ranges(s), 1, Len(Ranges(r))) = Ranges(r)
             /\ \A i \in r.indexes_size + 1..n : Ranges(s)[i] = << >>
             /\ Pending(r) = << >> /\ Pending(s) = << >>
<1> DEFINE d == r.data
           m == r.indexes_size
           x == [i \in 0..MaxRanges |-> IF i \in m..n THEN Len(d) ELSE r.indexes[i]]
           s == CommitEmptyRangesUntil(r, n)
<1>1. /\ m \in Nat /\ n \in Nat /\ m < n /\ d \in Seq(Elt) /\ Len(d) \in Nat
      /\ m \in 0..m /\ n \in 0..n
  BY FieldTypes, RangeAssumption
<1>2. x \in [0..MaxRanges -> Nat]
  BY <1>1, FieldTypes
<1>3. r.indexes[m] = Len(d)
  <2>1. r.indexes[m] \in Nat
    BY <1>1, FieldTypes
  <2>2. Len(d) - r.indexes[m] = 0
    BY <1>1 DEF PendingSize, RangeSize
  <2>3. QED
    BY <1>1, <2>1, <2>2
<1>4. \A i \in m..n : x[i] = Len(d)
  BY <1>1, RangeAssumption
<1>5. \A i \in 0..m : x[i] = r.indexes[i]
  BY <1>1, <1>3, <1>4, RangeAssumption
<1>6. s = Array(d, x, n)
  BY <1>1 DEF CommitEmptyRangesUntil
<1>7. Good(s)
  BY CommitEmptyRangesUntilGood
<1> HIDE DEF x, s
<1>8. s.data = d /\ s.indexes = x /\ s.indexes_size = n
  <2> HIDE DEF d
  <2>1. QED
    BY <1>1, <1>2, <1>6, Fields
<1>9. \A i \in 1..m : Ranges(r)[i] = Ranges(s)[i]
  BY <1>1, <1>5, <1>7, <1>8, SamePrefix
<1>10. /\ Ranges(s) \in Seq(Seq(Elt)) /\ Len(Ranges(s)) = n
       /\ Ranges(r) \in Seq(Seq(Elt)) /\ Len(Ranges(r)) = m
  BY <1>7, <1>8, RangesType
<1> DEFINE v == SubSeq(Ranges(s), 1, m)
<1>11. v \in Seq(Seq(Elt)) /\ Len(v) = m /\ \A i \in 1..m : v[i] = Ranges(s)[i]
  <2> DEFINE t == Ranges(s)
  <2>1. t \in Seq(Seq(Elt)) /\ Len(t) = n
    BY <1>10
  <2> HIDE DEF t
  <2>2. \A i \in 1..m : t[i] \in Seq(Elt)
    BY <1>1, <2>1
  <2>3. /\ SubSeq(t, 1, m) \in Seq(Seq(Elt))
        /\ Len(SubSeq(t, 1, m)) = IF 1 <= m THEN m - 1 + 1 ELSE 0
        /\ \A i \in 1..m - 1 + 1 : SubSeq(t, 1, m)[i] = t[1 + i - 1]
    BY <1>1, <2>2, SubSeqProperties
  <2>4. /\ Len(SubSeq(t, 1, m)) = m
        /\ \A i \in 1..m : SubSeq(t, 1, m)[i] = t[i]
    BY <1>1, <2>3
  <2>5. QED
    BY <2>3, <2>4 DEF t
<1> HIDE DEF v
<1>12. v = Ranges(r)
  BY <1>9, <1>10, <1>11, SeqEqual
<1>13. ASSUME NEW i \in m + 1..n PROVE Ranges(s)[i] = << >>
  <2>1. i - 1 \in m..n /\ i \in m..n /\ i - 1 \in 0..n /\ i - 1 # n
        /\ (i - 1) + 1 = i /\ i \in 1..n
    BY <1>1
  <2>2. Ranges(s)[i] = RangeAt(s, i - 1)
    BY <1>7, <1>8, <2>1, RangesType
  <2>3. RangeAt(s, i - 1) = SubSeq(d, Len(d) + 1, Len(d))
    <3>1. i - 1 \in 0..s.indexes_size
      BY <1>8, <2>1
    <3>2. RangeLimit(s, i - 1) = Len(d) /\ s.indexes[i - 1] = Len(d)
      BY <1>4, <1>8, <2>1 DEF RangeLimit
    <3>3. QED
      BY <1>7, <1>8, <3>1, <3>2, RangeAtFacts
  <2>4. QED
    BY <1>1, <2>2, <2>3, SubSeqEmpty
<1>14. Pending(s) = SubSeq(d, Len(d) + 1, Len(d))
  <2>1. n \in m..n
    BY <1>1
  <2>2. QED
    <3>1. n \in 0..s.indexes_size /\ s.indexes[n] = Len(d) /\ RangeLimit(s, n) = Len(d)
      BY <1>1, <1>4, <1>8, <2>1 DEF RangeLimit
    <3>2. QED
      BY <1>7, <1>8, <3>1, RangeAtFacts DEF Pending
<1>15. Pending(r) = SubSeq(d, Len(d) + 1, Len(d))
  BY <1>1, <1>3, RangeAtFacts DEF Pending, RangeLimit
<1>16. Pending(s) = << >> /\ Pending(r) = << >>
  BY <1>1, <1>14, <1>15, SubSeqEmpty
<1>17. QED
  BY <1>10, <1>12, <1>13, <1>16 DEF s, v

(* ra_uncommit_range(): the last range is pending again.                    *)
LEMMA UncommitRanges ==
  ASSUME NEW r, Good(r), r.indexes_size > 0
  PROVE  LET R == Ranges(r) IN
         /\ R # << >>
         /\ Ranges(UncommitRange(r)) = SubSeq(R, 1, Len(R) - 1)
         /\ Pending(UncommitRange(r)) = R[Len(R)]
<1> DEFINE n == r.indexes_size
           k == r.indexes[n]
           R == Ranges(r)
<1>1. n \in Nat /\ n - 1 \in 0..n /\ n \in 0..n /\ n \in 1..n /\ n - 1 # n
      /\ (n - 1) + 1 = n /\ n # 0
  BY FieldTypes
<1>2. r.indexes[n - 1] <= k /\ k \in Nat /\ r.indexes[n - 1] \in Nat
      /\ k <= Len(r.data) /\ Len(r.data) \in Nat
  BY <1>1, FieldTypes DEF Good, Partitions
<1>3. k \in r.indexes[n - 1]..Len(r.data)
  BY <1>2
<1>4. /\ R \in Seq(Seq(Elt)) /\ Len(R) = n /\ R[n] = RangeAt(r, n - 1)
  BY <1>1, RangesType
<1>5. RangeAt(r, n - 1) = SubSeq(r.data, r.indexes[n - 1] + 1, k)
  BY <1>1, RangeAtFacts DEF RangeLimit
<1>6. /\ Ranges(UncommitRange(r)) = SubSeq(R, 1, n - 1)
      /\ Pending(UncommitRange(r)) = SubSeq(r.data, r.indexes[n - 1] + 1, k)
  BY <1>1, <1>3, CutRanges DEF UncommitRange
<1>7. R # << >>
  BY <1>1, <1>4
<1>8. QED
  BY <1>4, <1>5, <1>6, <1>7

(* ra_clear_data_after_range(): the ranges from i on are gone, and nothing  *)
(* is pending.                                                              *)
LEMMA ClearRanges ==
  ASSUME NEW r, Good(r), NEW i \in 0..r.indexes_size
  PROVE  /\ i \in 0..Len(Ranges(r))
         /\ Ranges(ClearDataAfterRange(r, i)) = SubSeq(Ranges(r), 1, i)
         /\ Pending(ClearDataAfterRange(r, i)) = << >>
<1> DEFINE k == r.indexes[i]
<1>1. k \in Nat /\ k \in k..Len(r.data) /\ r.data \in Seq(Elt)
  BY FieldTypes
<1>2. /\ Ranges(ClearDataAfterRange(r, i)) = SubSeq(Ranges(r), 1, i)
      /\ Pending(ClearDataAfterRange(r, i)) = SubSeq(r.data, k + 1, k)
  BY <1>1, CutRanges DEF ClearDataAfterRange
<1>3. SubSeq(r.data, k + 1, k) = << >>
  BY <1>1, SubSeqEmpty
<1>4. QED
  BY <1>2, <1>3, RangesType

(* ra_reset() leaves no range, whatever the indexes hold.                   *)
LEMMA EmptyRanges ==
  ASSUME NEW x \in [0..MaxRanges -> Nat], x[0] = 0
  PROVE  /\ Ranges(Array(<< >>, x, 0)) = << >>
         /\ Pending(Array(<< >>, x, 0)) = << >>
<1> DEFINE d == << >>
           s == Array(d, x, 0)
<1> SUFFICES Ranges(s) = << >> /\ Pending(s) = << >>
  OBVIOUS
<1>1. d \in Seq(Elt) /\ 0 \in 0..MaxRanges /\ Len(d) = 0
  BY RangeAssumption
<1>2. Good(s)
  BY EmptyGood
<1> DEFINE n == 0
<1>n. n \in 0..MaxRanges
  BY <1>1
<1>a. s = Array(d, x, n)
  OBVIOUS
<1> HIDE DEF d, s, n
<1>d. d \in Seq(Elt)
  BY <1>1
<1>b. s.data = d /\ s.indexes = x /\ s.indexes_size = n
  BY <1>d, <1>n, <1>a, Fields, SMTT(30)
<1>3. s.data = d /\ s.indexes = x /\ s.indexes_size = 0
  BY <1>b DEF n
<1>4. Ranges(s) \in Seq(Seq(Elt)) /\ Len(Ranges(s)) = 0 /\ Pending(s) \in Seq(Elt)
  BY <1>2, <1>3, RangesType
<1>5. Len(Pending(s)) = 0
  <2>1. 0 \in 0..s.indexes_size
    BY <1>3
  <2>2. RangeLimit(s, 0) = 0 /\ s.indexes[0] = 0
    BY <1>1, <1>3 DEF RangeLimit
  <2>3. QED
    BY <1>2, <1>3, <2>1, <2>2, RangeAtFacts DEF Pending
<1>6. QED
  BY <1>4, <1>5, EmptySeq

(* ra_uncommit_data_by(): the pending range loses its last elements.        *)
LEMMA ForgetRanges ==
  ASSUME NEW r, Good(r), NEW amount \in 0..PendingSize(r)
  PROVE  LET s == UncommitDataBy(r, amount) IN
         /\ Ranges(s) = Ranges(r)
         /\ \E n \in 0..Len(Pending(r)) : Pending(s) = SubSeq(Pending(r), 1, n)
<1> DEFINE n == r.indexes_size
           a == r.indexes[n]
           k == Len(r.data) - amount
           s == UncommitDataBy(r, amount)
           p == Pending(r)
<1>1. n \in 0..n /\ a \in Nat /\ Len(r.data) \in Nat
      /\ a <= Len(r.data) /\ r.data \in Seq(Elt)
  BY FieldTypes
<1>2. amount \in 0..Len(r.data) - a
  BY DEF PendingSize, RangeSize
<1>3. k \in a..Len(r.data) /\ k \in Nat
  BY <1>1, <1>2
<1>4. /\ Ranges(s) = SubSeq(Ranges(r), 1, n)
      /\ Pending(s) = SubSeq(r.data, a + 1, k)
  BY <1>1, <1>3, CutRanges DEF UncommitDataBy
<1>5. Ranges(r) \in Seq(Seq(Elt)) /\ Len(Ranges(r)) = n
  BY RangesType
<1>6. SubSeq(Ranges(r), 1, n) = Ranges(r)
  BY <1>5, SubSeqFull
<1>7. p = SubSeq(r.data, a + 1, Len(r.data))
  BY <1>1, RangeAtFacts DEF Pending, RangeLimit
<1> HIDE DEF n, a, s
<1>8. p \in Seq(Elt) /\ Len(p) = Len(r.data) - a
      /\ \A i \in 1..Len(r.data) - a : p[i] = r.data[a + i]
  BY <1>1, <1>7, Slice
<1>9. k - a \in 0..Len(p)
  BY <1>1, <1>3, <1>8
<1> HIDE DEF p, k
<1> DEFINE u == SubSeq(r.data, a + 1, k)
           v == SubSeq(p, 1, k - a)
<1>10. u \in Seq(Elt) /\ Len(u) = k - a /\ \A i \in 1..k - a : u[i] = r.data[a + i]
  <2>1. r.data \in Seq(Elt) /\ a \in Nat /\ k \in Nat /\ a <= k /\ k <= Len(r.data)
    BY <1>1, <1>3
  <2> HIDE DEF u
  <2>2. /\ SubSeq(r.data, a + 1, k) \in Seq(Elt)
        /\ Len(SubSeq(r.data, a + 1, k)) = k - a
        /\ \A i \in 1..k - a : SubSeq(r.data, a + 1, k)[i] = r.data[a + i]
    BY <2>1, Slice
  <2>3. QED
    BY <2>2 DEF u
<1>11. v \in Seq(Elt) /\ Len(v) = k - a /\ \A i \in 1..k - a : v[i] = p[i]
  <2> DEFINE b == k - a
  <2>1. b \in Nat /\ 0 \in Nat /\ 0 <= b /\ b <= Len(p)
    BY <1>8, <1>9
  <2> HIDE DEF b
  <2>2. /\ SubSeq(p, 0 + 1, b) \in Seq(Elt) /\ Len(SubSeq(p, 0 + 1, b)) = b - 0
        /\ \A i \in 1..b - 0 : SubSeq(p, 0 + 1, b)[i] = p[0 + i]
    BY <1>8, <2>1, Slice
  <2>3. 0 + 1 = 1 /\ b - 0 = b /\ \A i \in 1..b : 0 + i = i
    BY <2>1
  <2>4. QED
    BY <2>2, <2>3 DEF b
<1>12. \A i \in 1..k - a : i \in 1..Len(r.data) - a
  BY <1>1, <1>3
<1> HIDE DEF u, v
<1>13. u = v
  BY <1>8, <1>10, <1>11, <1>12, SeqEqual
<1>14. QED
  BY <1>4, <1>6, <1>9, <1>13 DEF u, v, s, p
-----------------------------------------------------------------------------
(* A new array is the empty list.                                           *)
LEMMA InitMaps == Init => List!Init
<1>1. [i \in 0..MaxRanges |-> 0] \in [0..MaxRanges -> Nat]
  OBVIOUS
<1>2. [i \in 0..MaxRanges |-> 0][0] = 0
  BY RangeAssumption
<1>3. QED
  BY <1>1, <1>2, EmptyRanges DEF Init, List!Init, EmptyRA

(* Every call maps to one step of the list, or to none.                     *)
LEMMA StepMaps == IInv /\ [Next]_ra => [List!Next]_(List!vars)
<1> SUFFICES ASSUME Good(ra), [Next]_ra PROVE [List!Next]_(List!vars)
  BY DEF IInv
<1>p. Ranges(ra)' = Ranges(ra') /\ Pending(ra)' = Pending(ra')
  BY DEF Ranges, Pending, RangeAt, RangeStart, RangeEnd
<1>1. CASE Insert
  <2>1. PICK e \in Elt : ra' = InsertElt(ra, e)
    BY <1>1 DEF Insert
  <2>2. Ranges(ra') = Ranges(ra) /\ Pending(ra') = Append(Pending(ra), e)
    BY <2>1, InsertRanges
  <2>3. QED
    BY <1>p, <2>2 DEF List!Next, List!Insert
<1>2. CASE Commit
  <2>1. Ranges(ra') = Append(Ranges(ra), Pending(ra)) /\ Pending(ra') = << >>
    BY <1>2, CommitRanges DEF Commit
  <2>2. QED
    BY <1>p, <2>1 DEF List!Next, List!Commit
<1>3. CASE Uncommit
  <2>1. /\ Ranges(ra) # << >>
        /\ Ranges(ra') = SubSeq(Ranges(ra), 1, Len(Ranges(ra)) - 1)
        /\ Pending(ra') = Ranges(ra)[Len(Ranges(ra))]
    BY <1>3, UncommitRanges DEF Uncommit
  <2>2. QED
    BY <1>p, <2>1 DEF List!Next, List!Reopen
<1>4. CASE CommitEmpty
  <2>1. PICK n \in 0..MaxRanges :
          /\ n > ra.indexes_size => PendingSize(ra) = 0
          /\ ra' = CommitEmptyRangesUntil(ra, n)
    BY <1>4 DEF CommitEmpty
  <2>2. ra.indexes_size \in Nat /\ n \in Nat
    BY <2>1, FieldTypes
  <2>3. CASE ra.indexes_size >= n
    BY <2>1, <2>3 DEF CommitEmptyRangesUntil, List!vars
  <2>4. CASE ~(ra.indexes_size >= n)
    <3>1. n > ra.indexes_size
      BY <2>2, <2>4
    <3>2. /\ Len(Ranges(ra')) = n /\ Len(Ranges(ra)) = ra.indexes_size
          /\ SubSeq(Ranges(ra'), 1, Len(Ranges(ra))) = Ranges(ra)
          /\ \A i \in ra.indexes_size + 1..n : Ranges(ra')[i] = << >>
          /\ Pending(ra) = << >> /\ Pending(ra') = << >>
      BY <2>1, <3>1, PadRanges
    <3>3. QED
      BY <1>p, <3>1, <3>2 DEF List!Next, List!Pad
  <2>5. QED
    BY <2>3, <2>4
<1>5. CASE Forget
  <2>1. PICK amount \in 0..PendingSize(ra) : ra' = UncommitDataBy(ra, amount)
    BY <1>5 DEF Forget
  <2>2. /\ Ranges(ra') = Ranges(ra)
        /\ \E n \in 0..Len(Pending(ra)) : Pending(ra') = SubSeq(Pending(ra), 1, n)
    BY <2>1, ForgetRanges
  <2>3. QED
    BY <1>p, <2>2 DEF List!Next, List!Forget
<1>6. CASE Clear
  <2>1. PICK i \in 0..ra.indexes_size : ra' = ClearDataAfterRange(ra, i)
    BY <1>6 DEF Clear
  <2>2. /\ i \in 0..Len(Ranges(ra))
        /\ Ranges(ra') = SubSeq(Ranges(ra), 1, i)
        /\ Pending(ra') = << >>
    BY <2>1, ClearRanges
  <2>3. QED
    BY <1>p, <2>2 DEF List!Next, List!Truncate
<1>7. CASE Reset
  <2> DEFINE x == [ra.indexes EXCEPT ![0] = 0]
  <2>1. x \in [0..MaxRanges -> Nat] /\ x[0] = 0
    BY FieldTypes, RangeAssumption
  <2>2. ra' = Array(<< >>, x, 0)
    BY <1>7 DEF Reset, ResetRA
  <2> HIDE DEF x
  <2>3. Ranges(ra') = << >> /\ Pending(ra') = << >>
    BY <2>1, <2>2, EmptyRanges
  <2>4. Ranges(ra) \in Seq(Seq(Elt)) /\ Len(Ranges(ra)) \in Nat
    BY RangesType
  <2>5. 0 \in 0..Len(Ranges(ra)) /\ SubSeq(Ranges(ra), 1, 0) = << >>
    BY <2>4, SubSeqEmpty
  <2>6. QED
    BY <1>p, <2>3, <2>5 DEF List!Next, List!Truncate
<1>8. CASE UNCHANGED ra
  BY <1>8, <1>p DEF List!vars
<1>9. QED
  BY <1>1, <1>2, <1>3, <1>4, <1>5, <1>6, <1>7, <1>8 DEF Next

(* The two flat arrays and their indexes implement a list of ranges: no     *)
(* call loses, splits or merges a range another call committed.             *)
THEOREM ImplementsRangeList == Spec => Refinement
<1>1. Spec => []IInv
  BY InitInv, StepInv, PTL DEF Spec
<1>2. QED
  BY <1>1, InitMaps, StepMaps, PTL DEF Spec, Refinement, List!Spec
=============================================================================
