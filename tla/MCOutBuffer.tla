---------------------------- MODULE MCOutBuffer -----------------------------
(***************************************************************************)
(* OutBuffer for TLC: two writers, a ring of four bytes, writes of at most *)
(* two.                                                                    *)
(***************************************************************************)
EXTENDS OutBuffer

\* Packets of two bytes to the size of the ring.
ShortPackets == [w \in Writers |-> IF w = "w1" THEN <<3>> ELSE <<2, 4>>]
=============================================================================
