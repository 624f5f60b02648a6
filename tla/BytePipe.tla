------------------------------ MODULE BytePipe ------------------------------
(***************************************************************************)
(* What the incoming half of a connection promises: a bounded pipe from    *)
(* the socket to processIncoming, without ring, cursors, copies of         *)
(* cursors, mutexes or condition variables.                                *)
(*                                                                         *)
(*   Put   appends the next bytes of the stream, at most a block of them   *)
(*         and never more than the pipe holds;                             *)
(*   Take  hands over the next packet, if it is acceptable and all there,  *)
(*         and removes exactly its bytes.                                  *)
(***************************************************************************)
EXTENDS Integers, Sequences

CONSTANTS Size, Block, MaxPacketSize, Streams

VARIABLES
  packets,  \* the stream: where each packet ends and the length of its header
  pipe,     \* the bytes received and not yet taken, each its position in the stream
  np        \* packets taken

vars == <<packets, pipe, np>>

End(n) == IF n = 0 THEN 0 ELSE packets[n].end

\* The n bytes of the stream from position b on.
Bytes(b, n) == [i \in 1..n |-> b + i - 1]

Init ==
  /\ packets \in Streams
  /\ pipe = <<>>
  /\ np = 0

Put ==
  \E n \in 1..Block :
    /\ Len(pipe) + n <= Size
    /\ End(np) + Len(pipe) + n <= End(Len(packets))
    /\ pipe' = pipe \o Bytes(End(np) + Len(pipe), n)
    /\ UNCHANGED <<packets, np>>

Take ==
  LET n == End(np + 1) - End(np) IN
  /\ np < Len(packets)
  /\ packets[np + 1].hdr <= 5 /\ n <= MaxPacketSize
  /\ n <= Len(pipe)
  /\ pipe' = SubSeq(pipe, n + 1, Len(pipe))
  /\ np' = np + 1
  /\ UNCHANGED packets

Next == Put \/ Take

Spec == Init /\ [][Next]_vars
=============================================================================
