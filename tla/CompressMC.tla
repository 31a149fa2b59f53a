----------------------------- MODULE CompressMC -----------------------------
(***************************************************************************)
(* Small text proofs for Compress.  With groups of 2 bits a number needs up  *)
(* to 3 bytes as a literal and up to 5 as an identifier.                    *)
(***************************************************************************)
EXTENDS Compress

Ended(s) == s \o <<0, NewLine>>

DsrLines ==
  { Ended(<<1, -2>>), Ended(<<D, 15, -8>>), Ended(<<-1, 7, -1, 3, -1, 2, -2>>),
    Ended(<< >>), Ended(<<G, 4>>) }

LsrLines ==
  { Ended(<<8, 2, -15, 0, 1, -3, 4>>), Ended(<<7, D, 1, 12>>), Ended(<<9, 0, 2, 8>>),
    Ended(<<3, -1, 0>>), Ended(<<9, G, 2>>), Ended(<<100, 2, 0, 64, -127>>) }

Texts ==
  {FlattenSeq(s) : s \in UNION {BoundedSeq(L, 2) : L \in {DsrLines, LsrLines}}} \ {<< >>}
=============================================================================
