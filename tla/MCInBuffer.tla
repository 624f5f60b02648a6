----------------------------- MODULE MCInBuffer -----------------------------
(***************************************************************************)
(* InBuffer for TLC: a ring of eight bytes and reads of at most two, the   *)
(* ratio of the code (4096 and 1024).                                      *)
(***************************************************************************)
EXTENDS InBuffer

Packet(e, h) == [end |-> e, hdr |-> h]

\* Accepted packets of two to seven bytes, seven being the longest that fits beside
\* a read block, and packets that are refused: too long, or with a bad header.
ShortStreams ==
  { <<Packet(3, 2), Packet(10, 3), Packet(15, 2)>>,
    <<Packet(7, 2), Packet(9, 2), Packet(15, 5), Packet(18, 2)>>,
    <<Packet(4, 2), Packet(13, 2), Packet(15, 2)>>,
    <<Packet(2, 2), Packet(9, 6)>> }
=============================================================================
