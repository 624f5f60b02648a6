------------------------------ MODULE SendPipe ------------------------------
(***************************************************************************)
(* What the outgoing half of a connection promises to those who send to    *)
(* the client: a bounded pipe of bytes into which packets go whole.        *)
(*                                                                         *)
(*   Put     appends all bytes of a writer's next packet, at once;         *)
(*   Refuse  drops a writer's next packet, all of it;                      *)
(*   Give    moves bytes from the head of the pipe to the socket;          *)
(*   Cut     sends a DISCONNECT past the pipe, between any two bytes.      *)
(***************************************************************************)
EXTENDS Integers, Sequences

CONSTANTS Writers, Size, Block, Todo

VARIABLES
  next,  \* the number of the packet that each writer writes next
  pipe,  \* the bytes put and not yet given
  wire,  \* the bytes of the pipe that went to the socket
  cut    \* how many they were when the DISCONNECT went there, or -1

vars == <<next, pipe, wire, cut>>

\* The bytes of the ith packet of writer w.
Packet(w, i) == [k \in 1..Todo[w][i] |-> <<w, i, k>>]

Init ==
  /\ next = [w \in Writers |-> 1]
  /\ pipe = <<>>
  /\ wire = <<>>
  /\ cut = -1

Advance(w) ==
  /\ next[w] \in 1..Len(Todo[w])
  /\ next' = [next EXCEPT ![w] = @ + 1]

Put(w) ==
  /\ Advance(w)
  /\ Len(pipe) + Todo[w][next[w]] <= Size
  /\ pipe' = pipe \o Packet(w, next[w])
  /\ UNCHANGED <<wire, cut>>

Refuse(w) ==
  /\ Advance(w)
  /\ UNCHANGED <<pipe, wire, cut>>

Give ==
  \E n \in 1..Block :
    /\ n <= Len(pipe)
    /\ wire' = wire \o SubSeq(pipe, 1, n)
    /\ pipe' = SubSeq(pipe, n + 1, Len(pipe))
    /\ UNCHANGED <<next, cut>>

Cut ==
  /\ cut = -1
  /\ cut' = Len(wire)
  /\ UNCHANGED <<next, pipe, wire>>

Next == Give \/ Cut \/ \E w \in Writers : Put(w) \/ Refuse(w)

Spec == Init /\ [][Next]_vars
=============================================================================
