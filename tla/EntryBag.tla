------------------------------ MODULE EntryBag ------------------------------
(***************************************************************************)
(* What a hash table promises: a bag of entries, each with its hash, to     *)
(* which entries are added and from which they are removed one by one.      *)
(***************************************************************************)
EXTENDS Bags, Integers

CONSTANT Entry

VARIABLE bag

Init == bag = EmptyBag

Insert(e) == bag' = bag (+) SetToBag({e})

Remove(e) ==
  /\ BagIn(e, bag)
  /\ bag' = bag (-) SetToBag({e})

Next == \E e \in Entry : Insert(e) \/ Remove(e)

Spec == Init /\ [][Next]_bag
=============================================================================
