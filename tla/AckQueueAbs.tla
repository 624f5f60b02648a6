---------------------------- MODULE AckQueueAbs ----------------------------
(***************************************************************************)
(* What an ack queue promises (sessions.Ackqueue, corev5/v2/sessions):     *)
(* a plain FIFO queue of waiting messages, with no ring, index or size.    *)
(*                                                                         *)
(*   Wait  appends a message unless its packet id is already waiting;      *)
(*   Ack   marks the waiting message with that packet id, if there is one; *)
(*   Acked removes and returns the longest complete prefix.                *)
(***************************************************************************)
EXTENDS Integers, Sequences

CONSTANTS PktIds, MsgTypes, Acks

VARIABLES queue, ping, ackdone, nWait, nDone

vars == <<queue, ping, ackdone, nWait, nDone>>

Complete(a) == a.state \in {"PUBACK", "PUBREL", "PUBCOMP", "SUBACK", "UNSUBACK"}

Waiting(p) == \E k \in DOMAIN queue : queue[k].pktid = p

Init ==
  /\ queue = <<>>
  /\ ping = [mtype |-> "RESERVED", state |-> "RESERVED"]
  /\ ackdone = <<>>
  /\ nWait = 0 /\ nDone = 0

Wait(p, t) ==
  /\ \/ /\ ~Waiting(p)
        /\ queue' = Append(queue, [mtype |-> t, state |-> "RESERVED", pktid |-> p,
                                   ackid |-> 0, no |-> nWait + 1])
        /\ nWait' = nWait + 1
     \/ /\ Waiting(p)
        /\ UNCHANGED <<queue, nWait>>
  /\ UNCHANGED <<ping, ackdone, nDone>>

Ack(t, p) ==
  /\ queue' = [k \in DOMAIN queue |->
                 IF queue[k].pktid = p
                 THEN [queue[k] EXCEPT !.state = t, !.ackid = p]
                 ELSE queue[k]]
  /\ UNCHANGED <<ping, ackdone, nWait, nDone>>

Ping ==
  /\ \/ ping' = [mtype |-> "PINGREQ", state |-> "RESERVED"]
     \/ ping.mtype = "PINGREQ" /\ ping' = [ping EXCEPT !.state = "PINGRESP"]
     \/ ping.mtype # "PINGREQ" /\ ping' = ping
  /\ UNCHANGED <<queue, ackdone, nWait, nDone>>

Acked ==
  \E n \in 0..Len(queue) :
    /\ \A k \in 1..n : Complete(queue[k])
    /\ n < Len(queue) => ~Complete(queue[n + 1])
    /\ queue' = SubSeq(queue, n + 1, Len(queue))
    /\ ackdone' = (IF ping.state = "PINGRESP" THEN <<ping>> ELSE <<>>) \o SubSeq(queue, 1, n)
    /\ ping' = IF ping.state = "PINGRESP"
               THEN [mtype |-> "RESERVED", state |-> "RESERVED"] ELSE ping
    /\ nDone' = nDone + n
    /\ UNCHANGED nWait

Next ==
  \/ \E p \in PktIds, t \in MsgTypes : Wait(p, t)
  \/ \E p \in PktIds, t \in Acks : Ack(t, p)
  \/ Ping
  \/ Acked

Spec == Init /\ [][Next]_vars
=============================================================================
