----------------------------- MODULE RangeArray -----------------------------
(***************************************************************************)
(* range_array.c: a two-dimensional array kept in two flat ones.  data      *)
(* holds the elements of all ranges one after the other, and indexes[i] is  *)
(* where range i starts; the last index is where the pending range starts.  *)
(*                                                                         *)
(* The operators are used by the modules that keep witnesses, hints and     *)
(* deletions in a range array; the state machine calls them in every order  *)
(* their callers may.  Resizing an array is left out.                       *)
(***************************************************************************)
EXTENDS Integers, Sequences

CONSTANTS
  Elt,         (* The elements: literals or clause IDs.                    *)
  MaxData,     (* Bound: the elements in data.                             *)
  MaxRanges    (* Bound: the committed ranges.                             *)

ASSUME RangeAssumption == MaxData \in Nat /\ MaxRanges \in Nat

VARIABLE ra

RA == [data: Seq(Elt), indexes: [0..MaxRanges -> Nat],
       indexes_size: 0..MaxRanges]

Partitions(r) ==
  /\ r.indexes[0] = 0
  /\ \A i, j \in 0..r.indexes_size : i <= j => r.indexes[i] <= r.indexes[j]
  /\ r.indexes[r.indexes_size] <= Len(r.data)

(* data_size is Len(data); an index above indexes_size keeps a stale value. *)
Array(data, indexes, indexes_size) ==
  [data |-> data, indexes |-> indexes, indexes_size |-> indexes_size]

EmptyRA == Array(<< >>, [i \in 0..MaxRanges |-> 0], 0)

InsertElt(r, e) == Array(Append(r.data, e), r.indexes, r.indexes_size)

(* Variant: the size is advanced after the index has been written.          *)
CommitBeforeSize(r) ==
  Array(r.data, [r.indexes EXCEPT ![r.indexes_size] = Len(r.data)],
        r.indexes_size + 1)

CommitRange(r) ==
  Array(r.data, [r.indexes EXCEPT ![r.indexes_size + 1] = Len(r.data)],
        r.indexes_size + 1)

UncommitRange(r) ==
  Array(SubSeq(r.data, 1, r.indexes[r.indexes_size]), r.indexes,
        r.indexes_size - 1)

CommitEmptyRangesUntil(r, n) ==
  IF r.indexes_size >= n THEN r
  ELSE Array(r.data,
             [i \in 0..MaxRanges |-> IF i \in r.indexes_size..n THEN Len(r.data)
                                     ELSE r.indexes[i]],
             n)

UncommitDataBy(r, amount) ==
  Array(SubSeq(r.data, 1, Len(r.data) - amount), r.indexes, r.indexes_size)

(* Variant: the data of the cleared ranges stays behind.                    *)
ClearIndexesAfterRange(r, i) == Array(r.data, r.indexes, i)

ClearDataAfterRange(r, i) ==
  Array(SubSeq(r.data, 1, r.indexes[i]), r.indexes, i)

ResetRA(r) == Array(<< >>, [r.indexes EXCEPT ![0] = 0], 0)

(* The getters: where range i starts and ends in data, and its length.      *)
RangeStart(r, i) ==
  IF i = 0 THEN 0
  ELSE IF i = r.indexes_size + 1 THEN Len(r.data)
  ELSE r.indexes[i]

RangeEnd(r, i) ==
  IF i = r.indexes_size THEN Len(r.data) ELSE RangeStart(r, i + 1)

RangeSize(r, i) ==
  IF i = r.indexes_size THEN Len(r.data) - r.indexes[i]
  ELSE r.indexes[i + 1] - r.indexes[i]

RangeAt(r, i) == SubSeq(r.data, RangeStart(r, i) + 1, RangeEnd(r, i))

(* The two-dimensional view.                                                *)
Ranges(r) == [i \in 1..r.indexes_size |-> RangeAt(r, i - 1)]

Pending(r) == RangeAt(r, r.indexes_size)

PendingSize(r) == RangeSize(r, r.indexes_size)
-----------------------------------------------------------------------------
Init == ra = EmptyRA

Insert ==
  /\ Len(ra.data) < MaxData
  /\ \E e \in Elt : ra' = InsertElt(ra, e)

Commit ==
  /\ ra.indexes_size < MaxRanges
  /\ ra' = CommitRange(ra)

Uncommit ==
  /\ ra.indexes_size > 0
  /\ ra' = UncommitRange(ra)

(* "The indexes between the current indexes_size and the provided           *)
(* range_index should be empty": there is no pending range to lose.         *)
CommitEmpty ==
  \E n \in 0..MaxRanges :
    /\ n > ra.indexes_size => PendingSize(ra) = 0
    /\ ra' = CommitEmptyRangesUntil(ra, n)

Forget ==
  \E amount \in 0..PendingSize(ra) : ra' = UncommitDataBy(ra, amount)

Clear == \E i \in 0..ra.indexes_size : ra' = ClearDataAfterRange(ra, i)

Reset == ra' = ResetRA(ra)

Next == Insert \/ Commit \/ Uncommit \/ CommitEmpty \/ Forget \/ Clear \/ Reset

Spec == Init /\ [][Next]_ra
-----------------------------------------------------------------------------
(* The array holds elements, and no more ranges are committed than there    *)
(* are indexes for.                                                         *)
TypeOK == ra \in RA

(* The committed ranges and the pending one lie in data one after the other *)
(* and leave nothing out, however ranges are committed, uncommitted and     *)
(* cleared: the start of range i is the end of range i - 1.                 *)
RangesPartition == Partitions(ra)

(* The two flat arrays implement a list of ranges.                          *)
List == INSTANCE RangeList WITH ranges <- Ranges(ra), pending <- Pending(ra)

Refinement == List!Spec
=============================================================================
