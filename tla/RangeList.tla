------------------------------ MODULE RangeList ------------------------------
(***************************************************************************)
(* What a range array promises: a list of committed ranges and one pending  *)
(* range that is still being written.  Ranges are only added and removed at  *)
(* the end, and nothing that happens to the pending range touches a         *)
(* committed one.                                                           *)
(***************************************************************************)
EXTENDS Sequences, Integers

CONSTANT Elt

VARIABLES
  ranges,   (* The committed ranges, in order.                             *)
  pending   (* The range being written.                                    *)

vars == <<ranges, pending>>

Init == ranges = << >> /\ pending = << >>

Insert ==
  /\ \E e \in Elt : pending' = Append(pending, e)
  /\ UNCHANGED ranges

Forget ==
  /\ \E n \in 0..Len(pending) : pending' = SubSeq(pending, 1, n)
  /\ UNCHANGED ranges

Commit ==
  /\ ranges' = Append(ranges, pending)
  /\ pending' = << >>

(* The last range is pending again.                                         *)
Reopen ==
  /\ ranges # << >>
  /\ ranges' = SubSeq(ranges, 1, Len(ranges) - 1)
  /\ pending' = ranges[Len(ranges)]

(* Empty ranges are added at the end of the list.                           *)
Pad ==
  /\ pending = << >>
  /\ pending' = << >>
  /\ Len(ranges') > Len(ranges)
  /\ SubSeq(ranges', 1, Len(ranges)) = ranges
  /\ \A i \in Len(ranges) + 1..Len(ranges') : ranges'[i] = << >>

Truncate ==
  /\ \E n \in 0..Len(ranges) : ranges' = SubSeq(ranges, 1, n)
  /\ pending' = << >>

Next == Insert \/ Forget \/ Commit \/ Reopen \/ Pad \/ Truncate

Spec == Init /\ [][Next]_vars
=============================================================================
