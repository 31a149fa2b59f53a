----------------------------- MODULE HashTable ------------------------------
(***************************************************************************)
(* hash_table.c: separate chaining.  A bucket is an array of entries; the    *)
(* number of buckets doubles when the table is full, and never shrinks.     *)
(* The growth of one bucket's array is left out.                            *)
(***************************************************************************)
EXTENDS Integers, FiniteSets, SequencesExt, BagsExt

CONSTANTS
  Hash,            (* The hashes of the data: unsigned integers.           *)
  Data,            (* The data of an entry.                                *)
  LOAD_FACTOR,     (* The entries per bucket of a full table.              *)
  InitBuckets,     (* The number of buckets a table may start with.        *)
  MaxEntries       (* Bound: the entries in the table.                     *)

ASSUME HashTableAssumption ==
  /\ Hash \subseteq Nat /\ LOAD_FACTOR \in Nat \ {0}
  /\ InitBuckets \subseteq Nat \ {0} /\ MaxEntries \in Nat

VARIABLES num_buckets, buckets, num_entries

vars == <<num_buckets, buckets, num_entries>>

Entry == [hash: Hash, data: Data]

HASH_IDX(hash, n) == hash % n

Bucket(hash) == buckets[HASH_IDX(hash, num_buckets)]
-----------------------------------------------------------------------------
Init ==
  /\ num_buckets \in InitBuckets
  /\ buckets = [i \in 0..num_buckets - 1 |-> << >>]
  /\ num_entries = 0

(* Variant: the index in the old table.                                     *)
StaleIndex(e, n) == HASH_IDX(e.hash, num_buckets)

RehashIndex(e, n) == HASH_IDX(e.hash, n)

(* The entries of all buckets, in order.                                    *)
Entries == FlattenSeq([i \in 1..num_buckets |-> buckets[i - 1]])

(* ht_rehash(): the entries move to n new buckets.                          *)
Rehashed(n) ==
  [d \in 0..n - 1 |-> SelectSeq(Entries, LAMBDA e : RehashIndex(e, n) = d)]

(* Variant: the table grows when it has more entries than it should.        *)
Overfull == num_entries > num_buckets * LOAD_FACTOR

Full == num_entries >= num_buckets * LOAD_FACTOR

Appended(bs, n, e) == [bs EXCEPT ![HASH_IDX(e.hash, n)] = Append(@, e)]

(* ht_insert().                                                             *)
InsertEntry(e) ==
  LET n == IF Full THEN num_buckets * 2 ELSE num_buckets
  IN  /\ num_entries < MaxEntries
      /\ num_buckets' = n
      /\ buckets' = Appended(IF Full THEN Rehashed(n) ELSE buckets, n, e)
      /\ num_entries' = num_entries + 1

(* Variant: the last entry is looked up after the bucket has shrunk.        *)
WithoutAfterShrink(b, j) ==
  IF Len(b) = 1 THEN << >> ELSE Front([b EXCEPT ![j] = b[Len(b) - 1]])

(* The last entry takes the place of the removed one.                       *)
Without(b, j) == Front([b EXCEPT ![j] = Last(b)])

(* ht_get_entry_in_bucket(): the index of the next entry with the hash       *)
(* after prev, or 0.                                                        *)
NextEntry(b, hash, prev) ==
  SelectInSubSeq(b, prev + 1, Len(b), LAMBDA e : e.hash = hash)

(* The entries a caller's loop comes by.                                    *)
Found(hash) ==
  LET b == Bucket(hash)
      after[j \in 0..Len(b)] ==
        LET k == NextEntry(b, hash, j)
        IN  IF k = 0 THEN {} ELSE {k} \cup after[k]
  IN  after[0]

(* ht_remove_entry_in_bucket(), of an entry found by its hash.              *)
RemoveEntry(hash) ==
  \E j \in Found(hash) :
    /\ buckets' = [buckets EXCEPT ![HASH_IDX(hash, num_buckets)] = Without(@, j)]
    /\ num_entries' = num_entries - 1
    /\ UNCHANGED num_buckets

Next ==
  \/ \E e \in Entry : InsertEntry(e)
  \/ \E hash \in Hash : RemoveEntry(hash)

Spec == Init /\ [][Next]_vars
-----------------------------------------------------------------------------
(* A loop over the entries of a hash visits every entry with that hash that   *)
(* is in the table, also after the table has grown.                         *)
LookupComplete ==
  \A hash \in Hash :
    Cardinality(Found(hash)) =
      Len(SelectSeq(Entries, LAMBDA e : e.hash = hash))

(* "When there are LOAD_FACTOR times as many entries as hash table buckets,  *)
(* the number of buckets is doubled": the table never holds more.           *)
LoadBounded == Len(Entries) <= num_buckets * LOAD_FACTOR

(* Growing and removing, which swaps entries, lose and repeat no entry: the  *)
(* table implements a bag of entries.                                       *)
Contents ==
  [e \in ToSet(Entries) |-> Cardinality({i \in DOMAIN Entries : Entries[i] = e})]

Bag == INSTANCE EntryBag WITH bag <- Contents

Refinement == Bag!Spec
=============================================================================
