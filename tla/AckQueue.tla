------------------------------ MODULE AckQueue ------------------------------
(***************************************************************************)
(* The ack queue of a session: corev5/v2/sessions/impl/mem_ackqueue.go.    *)
(*                                                                         *)
(* A power-of-two ring of messages that wait for an acknowledgement, with  *)
(* emap, an index from packet id to ring slot.  Wait appends a message,    *)
(* Ack records the acknowledgement of one packet id wherever its message   *)
(* is in the ring, and Acked hands out, from the head, the messages whose  *)
(* ack cycle is complete.  Every operation runs under the mutex mu, so     *)
(* each one is a single action.                                            *)
(*                                                                         *)
(* A message body is abstracted to a serial number, no: the nth message    *)
(* the queue accepted has no = n.  It stands for Msgbuf and OnComplete and *)
(* is what the order and exactly-once properties are stated with.  ackid   *)
(* stands for Ackbuf: the packet id of the acknowledgement last recorded.  *)
(***************************************************************************)
EXTENDS Integers, Sequences

CONSTANTS
  PktIds,     \* packet ids in use, a set of uint16
  MsgTypes,   \* types of the messages this queue is given to Wait for
  Acks,       \* types of the acknowledgements this queue is given
  InitSize,   \* roundUpPowerOfTwo64 of the argument n of newAckqueue
  MaxSize,    \* bound: the ring never grows beyond this size
  MaxWait     \* bound: number of messages the queue accepts

VARIABLES size, count, head, tail, ring, emap, ping, ackdone, nWait, nDone

vars == <<size, count, head, tail, ring, emap, ping, ackdone, nWait, nDone>>

\* Bounds and the domain of packet ids.
ASSUME AckQueueAssumption ==
  /\ PktIds \subseteq Nat
  /\ MsgTypes \subseteq {"PUBLISH", "SUBSCRIBE", "UNSUBSCRIBE"}
  /\ Acks \subseteq {"PUBACK", "PUBREC", "PUBREL", "PUBCOMP", "SUBACK", "UNSUBACK"}
  /\ InitSize \in Nat \ {0}
  /\ \E k \in 0..InitSize : InitSize = 2^k
  /\ MaxSize \in Nat
  /\ MaxWait \in Nat

NoSlot == -1   \* emap has no entry for the packet id

\* mem_ackqueue.go Acked: the states that end an ack cycle.  PUBREC is not one.
Terminal == {"PUBACK", "PUBREL", "PUBCOMP", "SUBACK", "UNSUBACK"}

\* The zero sessions.Ackmsg{} that make() and removeHead leave in a slot.
EmptyAckmsg == [mtype |-> "RESERVED", state |-> "RESERVED", pktid |-> 0,
                ackid |-> 0, no |-> 0]

NoPing == [mtype |-> "RESERVED", state |-> "RESERVED"]

\* Mutant of increment: the mask is forgotten.
increment_NoMask(n, sz) == n + 1

\* index(n + 1): the mask is sz - 1 and sz a power of two, so n & mask is n % sz.
increment(n, sz) == (n + 1) % sz

full == count = size

-----------------------------------------------------------------------------
Init ==
  /\ size = InitSize
  /\ count = 0 /\ head = 0 /\ tail = 0
  /\ ring = [i \in 0..(size - 1) |-> EmptyAckmsg]
  /\ emap = [p \in PktIds |-> NoSlot]
  /\ ping = NoPing
  /\ ackdone = <<>>
  /\ nWait = 0 /\ nDone = 0

\* Mutant of newring: always one copy from the head, what wraps around is lost.
newring_OnePiece ==
  [i \in 0..(2 * size - 1) |-> IF i < size - head THEN ring[head + i] ELSE EmptyAckmsg]

\* grow: the ring after its live part is copied to the front of a ring of twice
\* the size, in one piece or, when it wraps around, in two.
newring ==
  [i \in 0..(2 * size - 1) |->
     IF tail > head
     THEN IF i < tail - head THEN ring[head + i] ELSE EmptyAckmsg
     ELSE IF i < size - head THEN ring[head + i]
     ELSE IF i < size - head + tail THEN ring[i - (size - head)]
     ELSE EmptyAckmsg]

\* Mutant of newemap: the index is not rebuilt after the messages moved.
newemap_Stale == emap

\* grow: emap rebuilt by a scan of the new ring up to the new tail, count.
newemap ==
  [p \in PktIds |->
     IF \E i \in 0..(count - 1) : newring[i].pktid = p
     THEN CHOOSE i \in 0..(count - 1) :
            /\ newring[i].pktid = p
            /\ \A j \in (i + 1)..(count - 1) : newring[j].pktid # p
     ELSE NoSlot]

\* The ring, its index, size, head and tail that insert works on: grown if full.
Grown ==
  IF full
  THEN [ring |-> newring, emap |-> newemap, size |-> 2 * size, head |-> 0, tail |-> count]
  ELSE [ring |-> ring, emap |-> emap, size |-> size, head |-> head, tail |-> tail]

\* insert: a packet id that is already waiting is dropped (after the ring grew).
insert(pktid, mtype) ==
  LET g  == Grown
      am == [mtype |-> mtype, state |-> "RESERVED", pktid |-> pktid,
             ackid |-> 0, no |-> nWait + 1]
  IN  /\ full => 2 * size <= MaxSize
      /\ size' = g.size
      /\ head' = g.head
      /\ \/ /\ g.emap[pktid] = NoSlot
            /\ nWait < MaxWait
            /\ ring' = [g.ring EXCEPT ![g.tail] = am]
            /\ emap' = [g.emap EXCEPT ![pktid] = g.tail]
            /\ tail' = increment(g.tail, g.size)
            /\ count' = count + 1
            /\ nWait' = nWait + 1
         \/ /\ g.emap[pktid] # NoSlot
            /\ ring' = g.ring
            /\ emap' = g.emap
            /\ tail' = g.tail
            /\ UNCHANGED <<count, nWait>>

\* Wait for a PUBLISH with QoS > 0, a SUBSCRIBE or an UNSUBSCRIBE.  The error
\* of insert is dropped: the caller is told nil for a duplicate too.
Wait(pktid, mtype) ==
  /\ insert(pktid, mtype)
  /\ UNCHANGED <<ping, ackdone, nDone>>

\* Wait for a PINGREQ: the one ping slot is overwritten.
WaitPing ==
  /\ ping' = [mtype |-> "PINGREQ", state |-> "RESERVED"]
  /\ UNCHANGED <<size, count, head, tail, ring, emap, ackdone, nWait, nDone>>

\* Ack: the acknowledgement overwrites the state of the message with this
\* packet id; one for an unknown packet id is ignored.
Ack(type, pktid) ==
  /\ ring' = IF emap[pktid] # NoSlot
             THEN [ring EXCEPT ![emap[pktid]].state = type,
                               ![emap[pktid]].ackid = pktid]
             ELSE ring
  /\ UNCHANGED <<size, count, head, tail, emap, ping, ackdone, nWait, nDone>>

\* Ack for a PINGRESP.
AckPing ==
  /\ ping' = IF ping.mtype = "PINGREQ" THEN [ping EXCEPT !.state = "PINGRESP"] ELSE ping
  /\ UNCHANGED <<size, count, head, tail, ring, emap, ackdone, nWait, nDone>>

\* The kth live slot, counted from the head: where k calls of increment end.
Slot(k) == IF head + k < size THEN head + k ELSE head + k - size

\* Mutant of CompletePrefix: the loop tests the first slot again and again.
CompletePrefix_FirstOnly(n) == n > 0 <=> count > 0 /\ ring[head].state \in Terminal

\* The loop of Acked runs n times: the first n live messages are complete and
\* the next one, if any, is not.
CompletePrefix(n) ==
  /\ \A k \in 0..(n - 1) : ring[Slot(k)].state \in Terminal
  /\ n < count => ring[Slot(n)].state \notin Terminal

\* Mutant of removeHead: the packet id stays in emap.
removeHead_KeepEmap(n) ==
  LET gone == {Slot(k) : k \in 0..(n - 1)} IN
  /\ ring' = [i \in DOMAIN ring |-> IF i \in gone THEN EmptyAckmsg ELSE ring[i]]
  /\ head' = IF head + n < size THEN head + n ELSE head + n - size
  /\ count' = count - n
  /\ UNCHANGED emap

\* n calls of removeHead: the slot is zeroed, the packet id leaves emap.
removeHead(n) ==
  LET gone == {Slot(k) : k \in 0..(n - 1)} IN
  /\ ring' = [i \in DOMAIN ring |-> IF i \in gone THEN EmptyAckmsg ELSE ring[i]]
  /\ emap' = [p \in PktIds |-> IF \E i \in gone : ring[i].pktid = p THEN NoSlot ELSE emap[p]]
  /\ head' = IF head + n < size THEN head + n ELSE head + n - size
  /\ count' = count - n

\* Mutant of Acked: the answered ping is handed out again and again.
Acked_KeepPing ==
  \E n \in 0..count :
    /\ CompletePrefix(n)
    /\ ackdone' = (IF ping.state = "PINGRESP" THEN <<ping>> ELSE <<>>)
                    \o [k \in 1..n |-> ring[Slot(k - 1)]]
    /\ removeHead(n)
    /\ nDone' = nDone + n
    /\ UNCHANGED <<size, tail, ping, nWait>>

\* Acked: the answered ping first, then the complete messages from the head.
Acked ==
  \E n \in 0..count :
    /\ CompletePrefix(n)
    /\ ackdone' = (IF ping.state = "PINGRESP" THEN <<ping>> ELSE <<>>)
                    \o [k \in 1..n |-> ring[Slot(k - 1)]]
    /\ ping' = IF ping.state = "PINGRESP" THEN NoPing ELSE ping
    /\ removeHead(n)
    /\ nDone' = nDone + n
    /\ UNCHANGED <<size, tail, nWait>>

\* A QoS 0 PUBLISH and every other type make Wait or Ack return an error and
\* change nothing, so they are no steps of the model.
Next ==
  \/ \E p \in PktIds, t \in MsgTypes : Wait(p, t)
  \/ \E p \in PktIds, t \in Acks : Ack(t, p)
  \/ WaitPing
  \/ AckPing
  \/ Acked

Spec == Init /\ [][Next]_vars

-----------------------------------------------------------------------------
Ackmsgs == [mtype : MsgTypes \cup {"RESERVED"}, state : Acks \cup {"RESERVED"},
            pktid : Nat, ackid : Nat, no : Nat]

Pings == [mtype : {"PINGREQ", "RESERVED"}, state : {"PINGRESP", "RESERVED"}]

\* The type of every field of the ackqueue struct: head and tail always index the
\* ring the struct holds now, also after grow replaced it.
TypeOK ==
  /\ size \in Nat \ {0}
  /\ count \in 0..size
  /\ head \in 0..(size - 1)
  /\ tail \in 0..(size - 1)
  /\ ring \in [0..(size - 1) -> Ackmsgs]
  /\ emap \in [PktIds -> {NoSlot} \cup 0..(size - 1)]
  /\ ping \in Pings
  /\ ackdone \in Seq(Ackmsgs \cup Pings)
  /\ nWait \in Nat
  /\ nDone \in Nat

\* The slots that hold a waiting message.
Live == {Slot(k) : k \in 0..(count - 1)}

\* emap is exactly the index of the live slots: a packet id is found if and only
\* if a message with it waits, at the slot where it waits, and no two waiting
\* messages share a packet id.  Ack writes through this index, also after grow
\* moved every message and after the ring wrapped around.
EmapExact ==
  \A p \in PktIds :
    /\ emap[p] # NoSlot => emap[p] \in Live /\ ring[emap[p]].pktid = p
    /\ \A i \in Live : ring[i].pktid = p => emap[p] = i

\* Messages leave in the order in which Wait accepted them, none is lost and none
\* is duplicated: what waits is exactly the run of serial numbers after those
\* already handed out, in order from the head, across grow and wrap-around.
InOrderExactlyOnce ==
  /\ nWait = nDone + count
  /\ \A k \in 0..(count - 1) : ring[Slot(k)].no = nDone + k + 1

\* A state recorded for a waiting message comes from an acknowledgement of its own
\* packet id, never from that of a message that was in the slot before.
AckOfOwnMessage ==
  \A i \in Live : ring[i].state # "RESERVED" => ring[i].ackid = ring[i].pktid

\* What Acked returns: after the answered ping, if there is one, complete messages only,
\* each with the acknowledgement of its own packet id, in consecutive order ending at
\* the last one handed out.
AckedIsComplete ==
  LET first == IF ackdone # <<>> /\ ackdone[1].mtype = "PINGREQ" THEN 2 ELSE 1 IN
  \A k \in first..Len(ackdone) :
    /\ ackdone[k].mtype \in MsgTypes
    /\ ackdone[k].state \in Terminal
    /\ ackdone[k].ackid = ackdone[k].pktid
    /\ ackdone[k].no = nDone - (Len(ackdone) - k)

\* The abstract queue this ring implements, seen through the live slots.
Abs == INSTANCE AckQueueAbs WITH
         queue <- [k \in 1..count |-> ring[Slot(k - 1)]]

\* Refinement: the ring behaves as the plain FIFO queue of AckQueueAbs.
ImplementsFifo == Abs!Spec
=============================================================================
