------------------------------- MODULE Codec -------------------------------
(***************************************************************************)
(* The numbers of binary proof files.  A number is doubled, its sign goes    *)
(* into the lowest bit, and the result is cut into groups of PayloadBits     *)
(* bits (7 in the code), the lowest first, each in a byte whose top bit says *)
(* that another follows.  An int has IntBits bits (32 in the code).          *)
(***************************************************************************)
EXTENDS Integers, FiniteSets, SequencesExt

CONSTANTS PayloadBits, IntBits, LongBits

ASSUME WidthAssumption ==
  /\ PayloadBits \in Nat \ {0}
  /\ IntBits \in Nat \ {0} /\ LongBits \in Nat /\ IntBits <= LongBits

Groups == 2^PayloadBits          (* Values of one byte without its top bit. *)

(* write_lit_binary(), write_clause_id_binary().                            *)
Doubled(n, bits) == (IF n < 0 THEN 2 * (-n) + 1 ELSE 2 * n) % 2^bits

(* Variant: a full last group is taken for one with more to come.            *)
CountGroupsAtMost(x) == CHOOSE k \in 1..x + 1 : x <= Groups^k /\ (k = 1 \/ x > Groups^(k - 1))

CountGroups(x) == CHOOSE k \in 1..x + 1 : x < Groups^k /\ (k = 1 \/ x >= Groups^(k - 1))

Encoded(n, bits) ==
  LET x == Doubled(n, bits)
      last == CountGroups(x)
  IN  [k \in 1..last |->
         ((x \div Groups^(k - 1)) % Groups) + (IF k < last THEN Groups ELSE 0)]

(* read_lit_binary(), read_clause_id_binary().                              *)
Signed(x, bits) == IF x >= 2^(bits - 1) THEN x - 2^bits ELSE x

Halved(x) == IF x % 2 = 1 THEN -(x \div 2) ELSE x \div 2

Decoded(bytes, bits) ==
  LET Add(sum, k) == sum + ((bytes[k] % Groups) * Groups^(k - 1))
      x == FoldLeft(Add, 0, [k \in 1..Len(bytes) |-> k]) % 2^bits
  IN  Halved(Signed(x, bits))

(* What is read back: x has to stay below the sign bit.                      *)
Representable(n, bits) == n \in -(2^(bits - 2) - 1)..2^(bits - 2) - 1
=============================================================================
