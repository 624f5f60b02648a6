--------------------------- MODULE AckQueueProofs ---------------------------
(***************************************************************************)
(* Proofs about AckQueue, for every set of packet ids, initial size and    *)
(* bound.  The inductive invariant adds to the properties the two facts    *)
(* the code relies on without stating them: where tail is (TailOK), and    *)
(* that a live slot holds a message with a packet id (LiveIds).            *)
(*                                                                         *)
(* The refinement then follows operation by operation: what a step does to *)
(* the slots of the ring (WaitEffect, AckEffect, RemoveHeadShifts) is what *)
(* the abstract operation does to the sequence of the live messages.       *)
(***************************************************************************)
EXTENDS AckQueue, SequenceTheorems, TLAPS

\* tail is the slot after the last live one: where head gets after count steps.
TailOK == tail = IF head + count < size THEN head + count ELSE head + count - size

\* Live slots hold messages with a packet id of the model.
LiveIds == \A k \in 0..(count - 1) : ring[Slot(k)].pktid \in PktIds

IndInv ==
  /\ TypeOK
  /\ TailOK
  /\ LiveIds
  /\ EmapExact
  /\ InOrderExactlyOnce
  /\ AckOfOwnMessage

-----------------------------------------------------------------------------
\* increment, for a slot of the ring: one step forward, from the last slot to 0.
LEMMA ModSucc ==
  ASSUME NEW s \in Nat \ {0}, NEW n \in 0..(s - 1)
  PROVE  (n + 1) % s = IF n + 1 < s THEN n + 1 ELSE 0
  <1>1. CASE n + 1 < s
    BY <1>1
  <1>2. CASE n + 1 = s
    BY <1>2
  <1> QED
    BY <1>1, <1>2

\* Slot maps the positions of the queue to different slots of the ring.
LEMMA SlotInjective ==
  ASSUME TypeOK
  PROVE  /\ \A k \in 0..(size - 1) : Slot(k) \in 0..(size - 1)
         /\ \A j, k \in 0..(size - 1) : Slot(j) = Slot(k) => j = k
  BY DEF TypeOK, Slot

\* A slot is live if and only if it is the slot of a position of the queue.
LEMMA LivePositions ==
  ASSUME TypeOK
  PROVE  /\ Live \subseteq 0..(size - 1)
         /\ \A i : i \in Live <=> \E k \in 0..(count - 1) : i = Slot(k)
  BY SlotInjective DEF Live, TypeOK

\* grow copies the queue, in order, to the front of the new ring.
LEMMA GrowCopies ==
  ASSUME IndInv, full
  PROVE  /\ newring \in [0..(2 * size - 1) -> Ackmsgs]
         /\ \A k \in 0..(count - 1) : newring[k] = ring[Slot(k)]
         /\ \A p \in PktIds :
              /\ newemap[p] # NoSlot => newemap[p] \in 0..(count - 1) /\ newring[newemap[p]].pktid = p
              /\ \A i \in 0..(count - 1) : newring[i].pktid = p => newemap[p] = i
         /\ newemap \in [PktIds -> {NoSlot} \cup 0..(2 * size - 1)]
  <1>1. head = tail /\ count = size
    BY DEF IndInv, TypeOK, TailOK, full
  <1>2. EmptyAckmsg \in Ackmsgs
    BY DEF EmptyAckmsg, Ackmsgs
  <1>3. newring \in [0..(2 * size - 1) -> Ackmsgs]
    BY <1>1, <1>2 DEF IndInv, TypeOK, newring
  <1>4. \A k \in 0..(count - 1) : newring[k] = ring[Slot(k)]
    BY <1>1 DEF IndInv, TypeOK, newring, Slot
  <1>5. \A i, j \in 0..(count - 1) :
          newring[i].pktid = newring[j].pktid => i = j
    <2> SUFFICES ASSUME NEW i \in 0..(count - 1), NEW j \in 0..(count - 1),
                        newring[i].pktid = newring[j].pktid
                 PROVE  i = j
      OBVIOUS
    <2>1. Slot(i) \in Live /\ Slot(j) \in Live
      BY LivePositions DEF IndInv
    <2>2. ring[Slot(i)].pktid \in PktIds /\ ring[Slot(i)].pktid = ring[Slot(j)].pktid
      BY <1>4 DEF IndInv, LiveIds
    <2>3. Slot(i) = Slot(j)
      BY <2>1, <2>2 DEF IndInv, EmapExact
    <2> QED
      BY <2>3, <1>1, SlotInjective DEF IndInv
  <1>6. \A p \in PktIds :
          /\ newemap[p] # NoSlot => newemap[p] \in 0..(count - 1) /\ newring[newemap[p]].pktid = p
          /\ \A i \in 0..(count - 1) : newring[i].pktid = p => newemap[p] = i
    <2> SUFFICES ASSUME NEW p \in PktIds
                 PROVE  /\ newemap[p] # NoSlot => newemap[p] \in 0..(count - 1)
                                                 /\ newring[newemap[p]].pktid = p
                        /\ \A i \in 0..(count - 1) : newring[i].pktid = p => newemap[p] = i
      OBVIOUS
    <2>1. CASE \E i \in 0..(count - 1) : newring[i].pktid = p
      <3>1. PICK i \in 0..(count - 1) : newring[i].pktid = p
        BY <2>1
      <3>2. \A j \in (i + 1)..(count - 1) : newring[j].pktid # p
        BY <3>1, <1>5, <1>1 DEF IndInv, TypeOK
      <3> DEFINE c == CHOOSE m \in 0..(count - 1) :
                        /\ newring[m].pktid = p
                        /\ \A j \in (m + 1)..(count - 1) : newring[j].pktid # p
      <3>3. c \in 0..(count - 1) /\ newring[c].pktid = p
        BY <3>1, <3>2
      <3>4. newemap[p] = c
        BY <2>1 DEF newemap
      <3> HIDE DEF c
      <3> QED
        BY <3>3, <3>4, <1>5
    <2>2. CASE ~ \E i \in 0..(count - 1) : newring[i].pktid = p
      BY <2>2 DEF newemap
    <2> QED
      BY <2>1, <2>2
  <1>7. newemap \in [PktIds -> {NoSlot} \cup 0..(2 * size - 1)]
    <2>1. newemap = [p \in PktIds |-> newemap[p]]
      BY DEF newemap
    <2>2. \A i \in 0..(count - 1) : i \in 0..(2 * size - 1)
      BY <1>1 DEF IndInv, TypeOK
    <2>3. \A p \in PktIds : newemap[p] \in {NoSlot} \cup 0..(2 * size - 1)
      BY <1>6, <2>2
    <2> QED
      BY <2>1, <2>3
  <1> QED
    BY <1>3, <1>4, <1>6, <1>7

-----------------------------------------------------------------------------
\* The empty ring of newAckqueue satisfies the inductive invariant.
LEMMA InitIndInv == Init => IndInv
  <1> SUFFICES ASSUME Init PROVE IndInv
    OBVIOUS
  <1>1. EmptyAckmsg \in Ackmsgs /\ NoPing \in Pings
    BY DEF EmptyAckmsg, Ackmsgs, NoPing, Pings
  <1>2. TypeOK
    BY <1>1, AckQueueAssumption DEF Init, TypeOK
  <1>3. Live = {}
    BY DEF Init, Live
  <1> QED
    BY <1>2, <1>3 DEF Init, IndInv, TailOK, LiveIds, EmapExact, InOrderExactlyOnce,
                      AckOfOwnMessage, TypeOK, NoSlot

\* A step that leaves the ring and its index alone.
LEMMA RingUnchanged ==
  ASSUME IndInv, UNCHANGED <<size, count, head, tail, ring, emap, nWait, nDone>>, TypeOK'
  PROVE  IndInv'
  <1>1. \A k : Slot(k)' = Slot(k)
    BY DEF Slot
  <1>2. Live' = Live
    BY <1>1 DEF Live
  <1>3. TailOK' /\ LiveIds' /\ InOrderExactlyOnce'
    BY <1>1 DEF IndInv, TailOK, LiveIds, InOrderExactlyOnce
  <1>4. EmapExact' /\ AckOfOwnMessage'
    BY <1>2 DEF IndInv, EmapExact, AckOfOwnMessage
  <1> QED
    BY <1>3, <1>4 DEF IndInv

\* Wait on a ring with room.
LEMMA WaitRoom ==
  ASSUME IndInv, NEW p \in PktIds, NEW t \in MsgTypes, Wait(p, t), ~full
  PROVE  IndInv'
  <1> DEFINE am == [mtype |-> t, state |-> "RESERVED", pktid |-> p, ackid |-> 0, no |-> nWait + 1]
  <1>0. TypeOK /\ Grown = [ring |-> ring, emap |-> emap, size |-> size, head |-> head, tail |-> tail]
    BY DEF IndInv, Grown
  <1>1. size' = size /\ head' = head
    BY <1>0 DEF Wait, insert
  <1>2. CASE emap[p] # NoSlot
    <2>1. UNCHANGED vars
      BY <1>0, <1>2 DEF Wait, insert, vars
    <2>2. TypeOK'
      BY <2>1, <1>0 DEF vars, TypeOK
    <2> QED
      BY <2>1, <2>2, RingUnchanged DEF vars
  <1>3. CASE emap[p] = NoSlot
    <2>1. /\ ring' = [ring EXCEPT ![tail] = am]
          /\ emap' = [emap EXCEPT ![p] = tail]
          /\ tail' = (tail + 1) % size
          /\ count' = count + 1
          /\ nWait' = nWait + 1
          /\ UNCHANGED <<ping, ackdone, nDone>>
      BY <1>0, <1>3 DEF Wait, insert, increment
    <2>2. am \in Ackmsgs
      BY AckQueueAssumption DEF Ackmsgs, IndInv, TypeOK
    <2>3. count < size /\ tail = Slot(count)
      BY DEF IndInv, TypeOK, TailOK, full, Slot
    <2>4. tail' = IF tail + 1 < size THEN tail + 1 ELSE 0
      BY <2>1, <1>0, ModSucc DEF TypeOK
    <2> HIDE DEF am
    <2>5. TypeOK'
      BY <2>1, <2>2, <2>3, <2>4, <1>0, <1>1 DEF TypeOK
    <2>6. TailOK'
      BY <2>1, <2>3, <2>4, <1>0, <1>1 DEF TypeOK, TailOK, IndInv, Slot
    <2>7. \A k \in 0..(size - 1) : Slot(k)' = Slot(k)
      BY <1>1 DEF Slot
    <2>8. \A k \in 0..(count - 1) : Slot(k) # tail /\ ring'[Slot(k)] = ring[Slot(k)]
      BY <2>1, <2>3, <1>0, SlotInjective DEF TypeOK
    <2>9. ring'[Slot(count)] = am
      BY <2>1, <2>3, <1>0 DEF TypeOK
    <2>10. am.pktid = p /\ am.state = "RESERVED" /\ am.no = nWait + 1
      BY DEF am
    <2>11. LiveIds'
      <3>1. \A k \in 0..(count' - 1) : k \in 0..(size - 1) /\ (k = count \/ k \in 0..(count - 1))
        BY <2>1, <2>3, <1>0 DEF TypeOK
      <3>2. \A k \in 0..(count - 1) : ring'[Slot(k)].pktid \in PktIds
        BY <2>8 DEF LiveIds, IndInv
      <3> QED
        BY <3>1, <3>2, <2>7, <2>9, <2>10 DEF LiveIds
    <2>12. InOrderExactlyOnce'
      <3>1. nWait' = nDone' + count'
        BY <2>1, <1>0 DEF InOrderExactlyOnce, IndInv, TypeOK
      <3>2. ASSUME NEW k \in 0..count
            PROVE  ring'[Slot(k)'].no = nDone + k + 1
        <4>1. CASE k = count
          BY <4>1, <2>3, <2>7, <2>9, <2>10, <1>0 DEF InOrderExactlyOnce, IndInv, TypeOK
        <4>2. CASE k < count
          <5>1. k \in 0..(count - 1) /\ k \in 0..(size - 1)
            BY <4>2, <2>3, <1>0 DEF TypeOK
          <5>2. ring'[Slot(k)'] = ring[Slot(k)]
            BY <5>1, <2>7, <2>8
          <5>3. ring[Slot(k)].no = nDone + k + 1
            BY <5>1 DEF InOrderExactlyOnce, IndInv
          <5> QED
            BY <5>2, <5>3
        <4> QED
          BY <4>1, <4>2, <1>0 DEF TypeOK
      <3>3. 0..count = 0..(count' - 1)
        BY <2>1, <1>0 DEF TypeOK
      <3> QED
        BY <3>1, <3>2, <3>3, <2>1 DEF InOrderExactlyOnce
    <2>13. Live' = Live \cup {tail} /\ tail \notin Live
      <3>1. \A i : i \in Live' <=> \E k \in 0..count : i = Slot(k)
        <4>1. 0..(count' - 1) = 0..count /\ 0..count \subseteq 0..(size - 1)
          BY <2>1, <2>3, <1>0 DEF TypeOK
        <4>2. Live' = {Slot(k)' : k \in 0..(count' - 1)}
          BY DEF Live
        <4> QED
          BY <4>1, <4>2, <2>7
      <3>2. \A i : i \in Live <=> \E k \in 0..(count - 1) : i = Slot(k)
        BY <1>0, LivePositions
      <3>3. \A k : k \in 0..count <=> k \in 0..(count - 1) \/ k = count
        BY <1>0 DEF TypeOK
      <3>4. \A i : i \in Live' <=> i \in Live \/ i = tail
        BY <3>1, <3>2, <3>3, <2>3
      <3>5. tail \notin Live
        BY <3>2, <2>8
      <3> QED
        BY <3>4, <3>5
    <2>14. \A i \in Live : ring'[i] = ring[i]
      BY <2>8, <1>0, LivePositions
    <2>15. EmapExact'
      <3> SUFFICES ASSUME NEW q \in PktIds
                   PROVE  /\ emap'[q] # NoSlot => emap'[q] \in Live' /\ ring'[emap'[q]].pktid = q
                          /\ \A i \in Live' : ring'[i].pktid = q => emap'[q] = i
        BY DEF EmapExact
      <3>1. CASE q = p
        <4>1. emap'[q] = tail
          BY <3>1, <2>1, <1>0 DEF TypeOK
        <4>2. \A i \in Live : ring'[i].pktid # q
          BY <3>1, <2>14, <1>3, LivePositions, <1>0 DEF EmapExact, IndInv, TypeOK, NoSlot
        <4> QED
          BY <3>1, <4>1, <4>2, <2>3, <2>9, <2>10, <2>13
      <3>2. CASE q # p
        BY <3>2, <2>1, <2>3, <2>9, <2>10, <2>13, <2>14, <1>0, <1>3
           DEF EmapExact, IndInv, TypeOK
      <3> QED
        BY <3>1, <3>2
    <2>16. AckOfOwnMessage'
      BY <2>3, <2>9, <2>10, <2>13, <2>14 DEF AckOfOwnMessage, IndInv
    <2> QED
      BY <2>5, <2>6, <2>11, <2>12, <2>15, <2>16 DEF IndInv
  <1> QED
    BY <1>2, <1>3

\* Wait on a full ring: grow, then insert.
LEMMA WaitGrow ==
  ASSUME IndInv, NEW p \in PktIds, NEW t \in MsgTypes, Wait(p, t), full
  PROVE  IndInv'
  <1> DEFINE am == [mtype |-> t, state |-> "RESERVED", pktid |-> p, ackid |-> 0, no |-> nWait + 1]
  <1>0. /\ TypeOK
        /\ Grown = [ring |-> newring, emap |-> newemap, size |-> 2 * size, head |-> 0, tail |-> count]
    BY DEF IndInv, Grown
  <1>1. /\ size' = 2 * size /\ head' = 0 /\ count = size
        /\ UNCHANGED <<ping, ackdone, nDone>>
    BY <1>0 DEF Wait, insert, full
  <1>2. \A k \in 0..(size' - 1) : Slot(k)' = k
    BY <1>0, <1>1 DEF Slot, TypeOK
  <1>3. \A k \in 0..(count - 1) : newring[k] = ring[Slot(k)]
    BY GrowCopies
  <1>4. \A k \in 0..(count - 1) : /\ newring[k].pktid \in PktIds
                                  /\ newring[k].no = nDone + k + 1
                                  /\ newring[k].state # "RESERVED" => newring[k].ackid = newring[k].pktid
    <2> TAKE k \in 0..(count - 1)
    <2>1. Slot(k) \in Live
      BY <1>0, LivePositions
    <2> QED
      BY <2>1, <1>3 DEF IndInv, LiveIds, InOrderExactlyOnce, AckOfOwnMessage
  <1>5. CASE newemap[p] # NoSlot
    <2>1. /\ ring' = newring /\ emap' = newemap /\ tail' = count
          /\ UNCHANGED <<count, nWait>>
      BY <1>0, <1>5 DEF Wait, insert
    <2>2. TypeOK'
      BY <2>1, <1>0, <1>1, GrowCopies DEF TypeOK
    <2>3. Live' = 0..(count - 1)
      BY <2>1, <1>0, <1>1, <1>2 DEF Live, TypeOK
    <2>4. TailOK'
      BY <2>1, <1>0, <1>1 DEF TailOK, TypeOK
    <2>5. LiveIds' /\ InOrderExactlyOnce'
      BY <2>1, <1>0, <1>1, <1>2, <1>4 DEF LiveIds, InOrderExactlyOnce, TypeOK, IndInv
    <2>6. EmapExact'
      BY <2>1, <2>3, GrowCopies DEF EmapExact
    <2>7. AckOfOwnMessage'
      BY <2>1, <2>3, <1>4 DEF AckOfOwnMessage
    <2> QED
      BY <2>2, <2>4, <2>5, <2>6, <2>7 DEF IndInv
  <1>6. CASE newemap[p] = NoSlot
    <2>1. /\ ring' = [newring EXCEPT ![count] = am]
          /\ emap' = [newemap EXCEPT ![p] = count]
          /\ tail' = (count + 1) % (2 * size)
          /\ count' = count + 1
          /\ nWait' = nWait + 1
      BY <1>0, <1>6 DEF Wait, insert, increment
    <2>2. am \in Ackmsgs
      BY AckQueueAssumption DEF Ackmsgs, IndInv, TypeOK
    <2>3. 2 * size \in Nat \ {0} /\ count \in 0..(2 * size - 1)
      BY <1>0, <1>1 DEF TypeOK
    <2>4. tail' = IF count + 1 < 2 * size THEN count + 1 ELSE 0
      BY <2>1, <2>3, ModSucc
    <2>5. am.pktid = p /\ am.state = "RESERVED" /\ am.no = nWait + 1
      BY DEF am
    <2> HIDE DEF am
    <2>6. TypeOK'
      BY <2>1, <2>2, <2>3, <2>4, <1>0, <1>1, GrowCopies DEF TypeOK
    <2>7. TailOK'
      BY <2>1, <2>3, <2>4, <1>0, <1>1 DEF TailOK, TypeOK
    <2>8. /\ \A k \in 0..(count - 1) : ring'[k] = newring[k]
          /\ ring'[count] = am
      BY <2>1, <2>3, <1>0, GrowCopies DEF TypeOK
    <2>9. \A k \in 0..(count' - 1) : k \in 0..(size' - 1) /\ (k = count \/ k \in 0..(count - 1))
      BY <2>1, <2>3, <1>0, <1>1 DEF TypeOK
    <2>10. Live' = 0..count
      BY <2>1, <2>3, <1>0, <1>1, <1>2 DEF Live, TypeOK
    <2>11. LiveIds'
      BY <2>5, <2>8, <2>9, <1>2, <1>4 DEF LiveIds
    <2>12. InOrderExactlyOnce'
      <3>1. nWait' = nDone' + count'
        BY <2>1, <1>0, <1>1 DEF InOrderExactlyOnce, IndInv, TypeOK
      <3>2. am.no = nDone' + count + 1
        BY <2>5, <1>1, <1>0 DEF InOrderExactlyOnce, IndInv, TypeOK
      <3> QED
        BY <3>1, <3>2, <2>8, <2>9, <1>1, <1>2, <1>4 DEF InOrderExactlyOnce
    <2>13. EmapExact'
      <3> SUFFICES ASSUME NEW q \in PktIds
                   PROVE  /\ emap'[q] # NoSlot => emap'[q] \in Live' /\ ring'[emap'[q]].pktid = q
                          /\ \A i \in Live' : ring'[i].pktid = q => emap'[q] = i
        BY DEF EmapExact
      <3>0. \A i \in 0..count : i = count \/ i \in 0..(count - 1)
        BY <1>0 DEF TypeOK
      <3>1. CASE q = p
        <4>1. emap'[q] = count
          BY <3>1, <2>1, GrowCopies
        <4>2. \A i \in 0..(count - 1) : newring[i].pktid # q /\ i # NoSlot
          BY <3>1, <1>6, GrowCopies DEF NoSlot
        <4>3. count \in 0..count
          BY <1>0 DEF TypeOK
        <4> QED
          BY <3>0, <3>1, <4>1, <4>2, <4>3, <2>5, <2>8, <2>10
      <3>2. CASE q # p
        <4>1. emap'[q] = newemap[q]
          BY <3>2, <2>1, GrowCopies
        <4>2. \A i \in 0..(count - 1) : i \in 0..count
          BY <1>0 DEF TypeOK
        <4> QED
          BY <3>0, <3>2, <4>1, <4>2, <2>5, <2>8, <2>10, GrowCopies
      <3> QED
        BY <3>1, <3>2
    <2>14. AckOfOwnMessage'
      <3>1. \A i \in 0..count : i = count \/ i \in 0..(count - 1)
        BY <1>0 DEF TypeOK
      <3> QED
        BY <3>1, <2>5, <2>8, <2>10, <1>4 DEF AckOfOwnMessage
    <2> QED
      BY <2>6, <2>7, <2>11, <2>12, <2>13, <2>14 DEF IndInv
  <1> QED
    BY <1>5, <1>6

\* Ack changes one live message, and only its acknowledgement.
LEMMA AckKeeps ==
  ASSUME IndInv, NEW p \in PktIds, NEW t \in Acks, Ack(t, p)
  PROVE  IndInv'
  <1>0. TypeOK /\ UNCHANGED <<size, count, head, tail, emap, ping, ackdone, nWait, nDone>>
    BY DEF IndInv, Ack
  <1>1. CASE emap[p] = NoSlot
    <2>1. ring' = ring
      BY <1>1 DEF Ack
    <2>2. TypeOK'
      BY <2>1, <1>0 DEF TypeOK
    <2> QED
      BY <2>1, <2>2, <1>0, RingUnchanged
  <1>2. CASE emap[p] # NoSlot
    <2> DEFINE s == emap[p]
    <2>1. s \in Live /\ s \in DOMAIN ring /\ ring[s].pktid = p
      BY <1>2, <1>0, LivePositions DEF IndInv, EmapExact, TypeOK
    <2>2. ring' = [ring EXCEPT ![s] = [ring[s] EXCEPT !.state = t, !.ackid = p]]
      BY <1>2, <2>1, <1>0 DEF Ack, TypeOK, Ackmsgs
    <2>3. ring[s] \in Ackmsgs
      BY <2>1, <1>0 DEF TypeOK
    <2> HIDE DEF s
    <2>4. /\ ring'[s].pktid = p /\ ring'[s].state = t /\ ring'[s].ackid = p
          /\ ring'[s].no = ring[s].no
          /\ [ring[s] EXCEPT !.state = t, !.ackid = p] \in Ackmsgs
      BY <2>1, <2>2, <2>3, AckQueueAssumption DEF Ackmsgs
    <2>5. \A i \in DOMAIN ring : i # s => ring'[i] = ring[i]
      BY <2>2
    <2>6. TypeOK'
      BY <2>1, <2>2, <2>4, <1>0 DEF TypeOK
    <2>7. \A k : Slot(k)' = Slot(k)
      BY <1>0 DEF Slot
    <2>8. Live' = Live /\ Live \subseteq DOMAIN ring
      <3>1. Live' = Live
        BY <2>7, <1>0 DEF Live
      <3>2. Live \subseteq 0..(size - 1)
        BY <1>0, LivePositions
      <3> QED
        BY <3>1, <3>2, <1>0 DEF TypeOK
    <2>9. \A k \in 0..(count - 1) : Slot(k) \in DOMAIN ring
      <3>1. \A k \in 0..(count - 1) : Slot(k) \in Live
        BY DEF Live
      <3> QED
        BY <3>1, <2>8
    <2>10. TailOK' /\ LiveIds' /\ InOrderExactlyOnce'
      <3>1. \A k \in 0..(count - 1) : /\ ring'[Slot(k)].pktid = ring[Slot(k)].pktid
                                     /\ ring'[Slot(k)].no = ring[Slot(k)].no
        BY <2>1, <2>4, <2>5, <2>9
      <3>2. TailOK'
        BY <1>0 DEF IndInv, TailOK
      <3>3. LiveIds'
        BY <3>1, <2>7, <1>0 DEF IndInv, LiveIds
      <3>4. InOrderExactlyOnce'
        BY <3>1, <2>7, <1>0 DEF IndInv, InOrderExactlyOnce
      <3> QED
        BY <3>2, <3>3, <3>4
    <2>11. EmapExact'
      BY <2>1, <2>4, <2>5, <2>8, <1>0 DEF IndInv, EmapExact
    <2>12. AckOfOwnMessage'
      BY <2>1, <2>4, <2>5, <2>8 DEF IndInv, AckOfOwnMessage
    <2> QED
      BY <2>6, <2>10, <2>11, <2>12 DEF IndInv
  <1> QED
    BY <1>1, <1>2

\* Acked removes a prefix of the queue.
LEMMA AckedKeeps ==
  ASSUME IndInv, Acked
  PROVE  IndInv'
  <1>0. TypeOK
    BY DEF IndInv
  <1>1. PICK n \in 0..count :
          /\ ackdone' = (IF ping.state = "PINGRESP" THEN <<ping>> ELSE <<>>)
                          \o [k \in 1..n |-> ring[Slot(k - 1)]]
          /\ ping' = IF ping.state = "PINGRESP" THEN NoPing ELSE ping
          /\ removeHead(n)
          /\ nDone' = nDone + n
          /\ UNCHANGED <<size, tail, nWait>>
    BY DEF Acked
  <1> DEFINE gone == {Slot(k) : k \in 0..(n - 1)}
  <1>2. /\ ring' = [i \in DOMAIN ring |-> IF i \in gone THEN EmptyAckmsg ELSE ring[i]]
        /\ emap' = [p \in PktIds |-> IF \E i \in gone : ring[i].pktid = p THEN NoSlot ELSE emap[p]]
        /\ head' = IF head + n < size THEN head + n ELSE head + n - size
        /\ count' = count - n
    BY <1>1 DEF removeHead
  <1>3. \A i : i \in gone <=> \E k \in 0..(n - 1) : i = Slot(k)
    OBVIOUS
  <1> HIDE DEF gone
  <1>4. EmptyAckmsg \in Ackmsgs /\ NoPing \in Pings
    BY DEF EmptyAckmsg, Ackmsgs, NoPing, Pings
  <1>5. ackdone' \in Seq(Ackmsgs \cup Pings)
    <2>1. \A k \in 1..n : ring[Slot(k - 1)] \in Ackmsgs
      BY <1>0, SlotInjective DEF TypeOK
    <2>2. [k \in 1..n |-> ring[Slot(k - 1)]] \in Seq(Ackmsgs \cup Pings)
      BY <2>1, <1>0 DEF TypeOK
    <2>3. (IF ping.state = "PINGRESP" THEN <<ping>> ELSE <<>>) \in Seq(Ackmsgs \cup Pings)
      <3>1. ping \in Ackmsgs \cup Pings
        BY <1>0 DEF TypeOK
      <3>2. <<ping>> \in Seq(Ackmsgs \cup Pings)
        BY <3>1
      <3>3. <<>> \in Seq(Ackmsgs \cup Pings)
        OBVIOUS
      <3> QED
        BY <3>2, <3>3
    <2> QED
      BY <1>1, <2>2, <2>3
  <1>6. TypeOK'
    <2>1. head' \in 0..(size - 1) /\ count' \in 0..size /\ nDone' \in Nat
      BY <1>0, <1>1, <1>2 DEF TypeOK
    <2>2. ring' \in [0..(size - 1) -> Ackmsgs]
      BY <1>0, <1>2, <1>4 DEF TypeOK
    <2>3. emap' \in [PktIds -> {NoSlot} \cup 0..(size - 1)]
      BY <1>0, <1>2 DEF TypeOK
    <2> QED
      BY <2>1, <2>2, <2>3, <1>0, <1>1, <1>4, <1>5 DEF TypeOK
  <1>7. TailOK'
    <2>1. /\ size \in Nat /\ head \in 0..(size - 1) /\ count \in 0..size /\ n \in 0..count
          /\ tail = IF head + count < size THEN head + count ELSE head + count - size
      BY <1>0, <1>1 DEF TypeOK, TailOK, IndInv
    <2>2. size' = size /\ tail' = tail /\ count' = count - n
      BY <1>1, <1>2
    <2>3. CASE head + n < size
      <3>1. head' = head + n
        BY <2>3, <1>2
      <3> QED
        BY <2>1, <2>2, <3>1 DEF TailOK
    <2>4. CASE ~(head + n < size)
      <3>1. head' = head + n - size
        BY <2>4, <1>2
      <3> QED
        BY <2>1, <2>2, <2>4, <3>1 DEF TailOK
    <2> QED
      BY <2>3, <2>4
  <1>8. \A k \in 0..(count' - 1) : k + n \in 0..(count - 1) /\ Slot(k)' = Slot(k + n)
    BY <1>0, <1>1, <1>2 DEF Slot, TypeOK
  <1>9. \A k \in n..(count - 1) : Slot(k) \notin gone /\ Slot(k) \in DOMAIN ring
    <2>1. /\ \A k \in 0..(size - 1) : Slot(k) \in 0..(size - 1)
          /\ \A j, k \in 0..(size - 1) : Slot(j) = Slot(k) => j = k
      BY <1>0, SlotInjective
    <2>2. \A k \in n..(count - 1) : k \in 0..(size - 1) /\ k \notin 0..(n - 1)
      BY <1>0 DEF TypeOK
    <2>3. \A j \in 0..(n - 1) : j \in 0..(size - 1)
      BY <1>0 DEF TypeOK
    <2>4. DOMAIN ring = 0..(size - 1)
      BY <1>0 DEF TypeOK
    <2> QED
      BY <2>1, <2>2, <2>3, <2>4, <1>3
  <1>10. \A k \in 0..(count' - 1) : k + n \in n..(count - 1) /\ ring'[Slot(k)'] = ring[Slot(k + n)]
    BY <1>0, <1>1, <1>2, <1>8, <1>9 DEF TypeOK
  <1>11. LiveIds'
    BY <1>8, <1>10 DEF LiveIds, IndInv
  <1>12. InOrderExactlyOnce'
    <2>1. nWait' = nDone' + count'
      BY <1>0, <1>1, <1>2 DEF InOrderExactlyOnce, IndInv, TypeOK
    <2>2. ASSUME NEW k \in 0..(count' - 1)
          PROVE  ring'[Slot(k)'].no = nDone' + k + 1
      <3>1. ring[Slot(k + n)].no = nDone + (k + n) + 1
        BY <1>8 DEF InOrderExactlyOnce, IndInv
      <3>2. nDone + (k + n) + 1 = nDone' + k + 1
        BY <1>0, <1>1, <1>2 DEF TypeOK
      <3> QED
        BY <3>1, <3>2, <1>10
    <2> QED
      BY <2>1, <2>2 DEF InOrderExactlyOnce
  <1>13. /\ Live' \subseteq Live
         /\ \A i \in Live : i \in Live' \/ i \in gone
         /\ \A i \in Live' : i \notin gone /\ ring'[i] = ring[i]
    <2>1. \A i : i \in Live' <=> \E k \in 0..(count' - 1) : i = Slot(k)'
      BY DEF Live
    <2>2. \A i : i \in Live <=> \E k \in 0..(count - 1) : i = Slot(k)
      BY <1>0, LivePositions
    <2>3. Live' \subseteq Live
      BY <2>1, <2>2, <1>8
    <2>4. \A i \in Live' : i \notin gone /\ ring'[i] = ring[i]
      BY <2>1, <1>8, <1>9, <1>10
    <2>5. ASSUME NEW k \in 0..(count - 1)
          PROVE  Slot(k) \in Live' \/ Slot(k) \in gone
      <3>1. CASE k < n
        BY <3>1, <1>0, <1>3 DEF TypeOK
      <3>2. CASE k >= n
        <4>1. k - n \in 0..(count' - 1) /\ (k - n) + n = k
          BY <3>2, <1>0, <1>1, <1>2 DEF TypeOK
        <4> QED
          BY <4>1, <1>8, <2>1
      <3> QED
        BY <3>1, <3>2, <1>0 DEF TypeOK
    <2> QED
      BY <2>2, <2>3, <2>4, <2>5
  <1>14. \A i \in gone : i \in Live
    BY <1>0, <1>3, LivePositions DEF TypeOK
  <1>15. EmapExact'
    <2> SUFFICES ASSUME NEW q \in PktIds
                 PROVE  /\ emap'[q] # NoSlot => emap'[q] \in Live' /\ ring'[emap'[q]].pktid = q
                        /\ \A i \in Live' : ring'[i].pktid = q => emap'[q] = i
      BY DEF EmapExact
    <2>1. CASE \E i \in gone : ring[i].pktid = q
      <3>1. emap'[q] = NoSlot
        BY <2>1, <1>2
      <3>2. PICK i \in gone : ring[i].pktid = q
        BY <2>1
      <3>3. emap[q] = i
        BY <3>2, <1>14 DEF IndInv, EmapExact
      <3> QED
        BY <3>1, <3>2, <3>3, <1>13 DEF IndInv, EmapExact
    <2>2. CASE ~ \E i \in gone : ring[i].pktid = q
      <3>1. emap'[q] = emap[q]
        BY <2>2, <1>2
      <3> QED
        BY <3>1, <2>2, <1>13 DEF IndInv, EmapExact
    <2> QED
      BY <2>1, <2>2
  <1>16. AckOfOwnMessage'
    BY <1>13 DEF IndInv, AckOfOwnMessage
  <1> QED
    BY <1>6, <1>7, <1>11, <1>12, <1>15, <1>16 DEF IndInv

\* Every operation of the queue preserves the inductive invariant.
LEMMA NextIndInv == IndInv /\ [Next]_vars => IndInv'
  <1> SUFFICES ASSUME IndInv, [Next]_vars PROVE IndInv'
    OBVIOUS
  <1>0. TypeOK
    BY DEF IndInv
  <1>1. ASSUME NEW p \in PktIds, NEW t \in MsgTypes, Wait(p, t) PROVE IndInv'
    BY <1>1, WaitRoom, WaitGrow
  <1>2. ASSUME NEW p \in PktIds, NEW t \in Acks, Ack(t, p) PROVE IndInv'
    BY <1>2, AckKeeps
  <1>3. CASE WaitPing
    <2>1. TypeOK'
      BY <1>0, <1>3 DEF WaitPing, TypeOK, Pings
    <2> QED
      BY <2>1, <1>3, RingUnchanged DEF WaitPing
  <1>4. CASE AckPing
    <2>1. TypeOK'
      BY <1>0, <1>4 DEF AckPing, TypeOK, Pings
    <2> QED
      BY <2>1, <1>4, RingUnchanged DEF AckPing
  <1>5. CASE Acked
    BY <1>5, AckedKeeps
  <1>6. CASE UNCHANGED vars
    <2>1. TypeOK'
      BY <1>0, <1>6 DEF vars, TypeOK
    <2> QED
      BY <2>1, <1>6, RingUnchanged DEF vars
  <1> QED
    BY <1>1, <1>2, <1>3, <1>4, <1>5, <1>6 DEF Next

\* The inductive invariant holds in every state the queue can reach.
LEMMA Invariance == Spec => []IndInv
  BY InitIndInv, NextIndInv, PTL DEF Spec

-----------------------------------------------------------------------------
\* head and tail of mem_ackqueue.go always index the ring, through every grow.
THEOREM TypeCorrect == Spec => []TypeOK
  <1>1. IndInv => TypeOK
    BY DEF IndInv
  <1> QED
    BY <1>1, Invariance, PTL

\* emap, through which Ack finds a message, is exactly the index of the waiting
\* messages, for every number of packet ids and every history of grow and wrap.
THEOREM IndexCorrect == Spec => []EmapExact
  <1>1. IndInv => EmapExact
    BY DEF IndInv
  <1> QED
    BY <1>1, Invariance, PTL

\* No message the queue accepted is lost, duplicated or overtaken, at any size.
THEOREM FifoCorrect == Spec => []InOrderExactlyOnce
  <1>1. IndInv => InOrderExactlyOnce
    BY DEF IndInv
  <1> QED
    BY <1>1, Invariance, PTL

\* A waiting message is only ever marked by an acknowledgement of its packet id.
THEOREM AckCorrect == Spec => []AckOfOwnMessage
  <1>1. IndInv => AckOfOwnMessage
    BY DEF IndInv
  <1> QED
    BY <1>1, Invariance, PTL

-----------------------------------------------------------------------------
\* The ring as the sequence that the refinement shows to AckQueueAbs.
Queue == [k \in 1..count |-> ring[Slot(k - 1)]]

\* A new message, as Wait puts it into the ring.
NewAckmsg(p, t) == [mtype |-> t, state |-> "RESERVED", pktid |-> p, ackid |-> 0, no |-> nWait + 1]

\* The live part of a ring of c messages that starts at slot h is a sequence of length c.
LEMMA LiveSequence ==
  ASSUME NEW z \in Nat \ {0}, NEW c \in 0..z, NEW h \in 0..(z - 1),
         NEW r \in [0..(z - 1) -> Ackmsgs],
         NEW q, q = [k \in 1..c |-> q[k]],
         \A k \in 1..c : q[k] = r[IF h + (k - 1) < z THEN h + (k - 1) ELSE h + (k - 1) - z]
  PROVE  /\ q \in Seq(Ackmsgs) /\ Len(q) = c /\ DOMAIN q = 1..c
         /\ \A k \in 1..c : q[k] \in Ackmsgs
  <1>1. \A k \in 1..c : (IF h + (k - 1) < z THEN h + (k - 1) ELSE h + (k - 1) - z) \in 0..(z - 1)
    OBVIOUS
  <1>2. q \in [1..c -> Ackmsgs] /\ c \in Nat
    BY <1>1
  <1>3. q \in Seq(Ackmsgs) /\ Len(q) = c
    BY <1>2
  <1> QED
    BY <1>2, <1>3

\* The sequence has the live messages in order ...
LEMMA QueueFacts ==
  ASSUME TypeOK
  PROVE  /\ Queue \in Seq(Ackmsgs) /\ Len(Queue) = count /\ DOMAIN Queue = 1..count
         /\ \A k \in 1..count : Queue[k] = ring[Slot(k - 1)] /\ Queue[k] \in Ackmsgs
  <1>1. \A k \in 1..count : Queue[k] = ring[Slot(k - 1)]
    BY DEF Queue
  <1>2. Queue = [k \in 1..count |-> Queue[k]]
    BY DEF Queue
  <1>3. count \in Nat /\ \A k \in 1..count : ring[Slot(k - 1)] \in Ackmsgs
    BY SlotInjective DEF TypeOK
  <1>4. Queue \in [1..count -> Ackmsgs]
    BY <1>1, <1>2, <1>3
  <1>5. Queue \in Seq(Ackmsgs) /\ Len(Queue) = count
    BY <1>3, <1>4
  <1> QED
    BY <1>1, <1>4, <1>5

\* ... also after a step.
LEMMA NextQueueFacts ==
  ASSUME TypeOK'
  PROVE  /\ Queue' \in Seq(Ackmsgs) /\ Len(Queue') = count' /\ DOMAIN Queue' = 1..count'
         /\ \A k \in 1..count' : Queue'[k] = ring'[Slot(k - 1)']
  <1>1. \A k \in 1..count' : Queue'[k] = ring'[Slot(k - 1)']
    BY DEF Queue
  <1>2. /\ size' \in Nat \ {0} /\ count' \in 0..size' /\ head' \in 0..(size' - 1)
        /\ ring' \in [0..(size' - 1) -> Ackmsgs]
    BY DEF TypeOK
  <1>3. Queue' = [k \in 1..count' |-> Queue'[k]]
    BY DEF Queue
  <1>4. Queue' \in Seq(Ackmsgs) /\ Len(Queue') = count' /\ DOMAIN Queue' = 1..count'
    BY <1>1, <1>2, <1>3, LiveSequence DEF Slot
  <1> QED
    BY <1>1, <1>4

\* emap knows whether a packet id waits.
LEMMA WaitingIsIndexed ==
  ASSUME IndInv, NEW p \in PktIds
  PROVE  (\E k \in DOMAIN Queue : Queue[k].pktid = p) <=> emap[p] # NoSlot
  <1>0. TypeOK
    BY DEF IndInv
  <1>1. ASSUME NEW k \in DOMAIN Queue, Queue[k].pktid = p PROVE emap[p] # NoSlot
    <2>1. k - 1 \in 0..(count - 1) /\ ring[Slot(k - 1)].pktid = p
      BY <1>0, <1>1, QueueFacts DEF TypeOK
    <2>2. Slot(k - 1) \in Live /\ Slot(k - 1) \in 0..(size - 1)
      BY <1>0, <2>1, LivePositions
    <2> QED
      BY <1>0, <2>1, <2>2 DEF IndInv, EmapExact, NoSlot, TypeOK
  <1>2. ASSUME emap[p] # NoSlot PROVE \E k \in DOMAIN Queue : Queue[k].pktid = p
    <2>1. PICK j \in 0..(count - 1) : emap[p] = Slot(j)
      BY <1>0, <1>2, LivePositions DEF IndInv, EmapExact
    <2>2. ring[Slot(j)].pktid = p
      BY <1>2, <2>1 DEF IndInv, EmapExact
    <2>3. j + 1 \in 1..count /\ (j + 1) - 1 = j
      BY <1>0 DEF TypeOK
    <2> QED
      BY <1>0, <2>2, <2>3, QueueFacts
  <1> QED
    BY <1>1, <1>2

\* Wait, with or without grow: the messages stay, in order, and the new one, if its
\* packet id does not wait yet, comes last.
LEMMA WaitEffect ==
  ASSUME IndInv, TypeOK', NEW p \in PktIds, NEW t \in MsgTypes, Wait(p, t)
  PROVE  /\ \A k \in 0..(count - 1) : ring'[Slot(k)'] = ring[Slot(k)]
         /\ \/ /\ emap[p] = NoSlot
               /\ \A k \in 0..count : k = count => ring'[Slot(k)'] = NewAckmsg(p, t)
               /\ count' = count + 1 /\ nWait' = nWait + 1
            \/ emap[p] # NoSlot /\ count' = count /\ nWait' = nWait
         /\ UNCHANGED <<ping, ackdone, nDone>>
  <1>0. TypeOK
    BY DEF IndInv
  <1>1. UNCHANGED <<ping, ackdone, nDone>>
    BY DEF Wait
  <1>2. CASE ~full
    <2>1. Grown = [ring |-> ring, emap |-> emap, size |-> size, head |-> head, tail |-> tail]
      BY <1>2 DEF Grown
    <2>2. size' = size /\ head' = head
      BY <2>1 DEF Wait, insert
    <2>3. \A k : Slot(k)' = Slot(k)
      BY <2>2 DEF Slot
    <2>4. CASE emap[p] # NoSlot
      <3>1. ring' = ring /\ count' = count /\ nWait' = nWait
        BY <2>1, <2>4 DEF Wait, insert
      <3> QED
        BY <1>1, <2>3, <2>4, <3>1
    <2>5. CASE emap[p] = NoSlot
      <3>1. ring' = [ring EXCEPT ![tail] = NewAckmsg(p, t)] /\ count' = count + 1 /\ nWait' = nWait + 1
        BY <2>1, <2>5 DEF Wait, insert, NewAckmsg
      <3>2. count \in 0..(size - 1) /\ Slot(count) = tail /\ tail \in DOMAIN ring
        BY <1>0, <1>2 DEF IndInv, TypeOK, TailOK, Slot, full
      <3>3. \A k \in 0..(count - 1) : Slot(k) # tail /\ Slot(k) \in DOMAIN ring
        <4>1. \A k \in 0..(count - 1) : k \in 0..(size - 1) /\ k # count
          BY <1>0, <3>2 DEF TypeOK
        <4> QED
          BY <1>0, <3>2, <4>1, SlotInjective DEF TypeOK
      <3> QED
        BY <1>1, <2>3, <2>5, <3>1, <3>2, <3>3
    <2> QED
      BY <2>4, <2>5
  <1>3. CASE full
    <2>1. Grown = [ring |-> newring, emap |-> newemap, size |-> 2 * size, head |-> 0, tail |-> count]
      BY <1>3 DEF Grown
    <2>2. size' = 2 * size /\ head' = 0 /\ count = size
      BY <1>3, <2>1 DEF Wait, insert, full
    <2>3. \A k \in 0..(2 * size - 1) : Slot(k)' = k
      BY <1>0, <2>2 DEF Slot, TypeOK
    <2>4. \A k \in 0..count : k \in 0..(2 * size - 1)
      BY <1>0, <2>2 DEF TypeOK
    <2>5. newemap[p] = NoSlot <=> emap[p] = NoSlot
      <3>1. ASSUME NEW k \in 0..(count - 1), newring[k].pktid = p PROVE emap[p] # NoSlot
        <4>1. Slot(k) \in Live /\ ring[Slot(k)].pktid = p /\ Slot(k) \in 0..(size - 1)
          BY <1>0, <1>3, <3>1, LivePositions, GrowCopies
        <4>2. emap[p] = Slot(k)
          BY <4>1 DEF IndInv, EmapExact
        <4> QED
          BY <1>0, <4>1, <4>2 DEF NoSlot, TypeOK
      <3>2. ASSUME emap[p] # NoSlot PROVE newemap[p] # NoSlot
        <4>1. PICK j \in 0..(count - 1) : emap[p] = Slot(j)
          BY <1>0, <3>2, LivePositions DEF IndInv, EmapExact
        <4>2. newring[j].pktid = p
          BY <1>3, <3>2, <4>1, GrowCopies DEF IndInv, EmapExact
        <4>3. newemap[p] = j
          BY <1>3, <4>2, GrowCopies
        <4> QED
          BY <4>3 DEF NoSlot
      <3>3. newemap[p] # NoSlot => newemap[p] \in 0..(count - 1) /\ newring[newemap[p]].pktid = p
        BY <1>3, GrowCopies
      <3> QED
        BY <3>1, <3>2, <3>3
    <2>6. /\ \A k \in 0..(count - 1) : newring[k] = ring[Slot(k)]
          /\ DOMAIN newring = 0..(2 * size - 1)
      BY <1>3, GrowCopies
    <2>7. \A k \in 0..(count - 1) : k \in 0..count /\ k # count
      BY <1>0 DEF TypeOK
    <2>8. count \in 0..count
      BY <1>0 DEF TypeOK
    <2>9. CASE emap[p] # NoSlot
      <3>1. ring' = newring /\ count' = count /\ nWait' = nWait
        BY <2>1, <2>5, <2>9 DEF Wait, insert
      <3> QED
        BY <1>1, <2>3, <2>4, <2>6, <2>7, <2>9, <3>1
    <2>10. CASE emap[p] = NoSlot
      <3>1. ring' = [newring EXCEPT ![count] = NewAckmsg(p, t)] /\ count' = count + 1 /\ nWait' = nWait + 1
        BY <2>1, <2>5, <2>10 DEF Wait, insert, NewAckmsg
      <3> QED
        BY <1>1, <2>3, <2>4, <2>6, <2>7, <2>8, <2>10, <3>1
    <2> QED
      BY <2>9, <2>10
  <1> QED
    BY <1>2, <1>3

\* Wait of the ring is Wait of the queue.
LEMMA WaitRefines ==
  ASSUME IndInv, IndInv', NEW p \in PktIds, NEW t \in MsgTypes, Wait(p, t)
  PROVE  Abs!Wait(p, t)
  <1>0. TypeOK /\ TypeOK'
    BY DEF IndInv
  <1>1. \A k \in 1..count : ring'[Slot(k - 1)'] = ring[Slot(k - 1)]
    <2>1. \A k \in 1..count : k - 1 \in 0..(count - 1)
      BY <1>0 DEF TypeOK
    <2> QED
      BY <1>0, <2>1, WaitEffect
  <1>2. UNCHANGED <<ping, ackdone, nDone>>
    BY DEF Wait
  <1>3. CASE emap[p] # NoSlot
    <2>1. count' = count /\ nWait' = nWait
      BY <1>0, <1>3, WaitEffect
    <2>2. Queue' = Queue
      BY <1>0, <1>1, <2>1 DEF Queue
    <2>3. \E k \in DOMAIN Queue : Queue[k].pktid = p
      BY <1>3, WaitingIsIndexed
    <2> QED
      BY <1>2, <2>1, <2>2, <2>3 DEF Abs!Wait, Abs!Waiting, Queue
  <1>4. CASE emap[p] = NoSlot
    <2>1. /\ \A k \in 0..count : k = count => ring'[Slot(k)'] = NewAckmsg(p, t)
          /\ count' = count + 1 /\ nWait' = nWait + 1
      BY <1>0, <1>4, WaitEffect
    <2>2. NewAckmsg(p, t) \in Ackmsgs
      BY <1>0, AckQueueAssumption DEF NewAckmsg, Ackmsgs, TypeOK
    <2>3. Queue' = Append(Queue, NewAckmsg(p, t))
      <3> DEFINE q == Append(Queue, NewAckmsg(p, t))
      <3>1. Queue' \in Seq(Ackmsgs) /\ Len(Queue') = count + 1
            /\ \A k \in 1..(count + 1) : Queue'[k] = ring'[Slot(k - 1)']
        BY <1>0, <2>1, NextQueueFacts
      <3>2. /\ q \in Seq(Ackmsgs) /\ Len(q) = count + 1
            /\ \A k \in 1..count : q[k] = ring[Slot(k - 1)]
            /\ q[count + 1] = NewAckmsg(p, t)
        BY <1>0, <2>2, QueueFacts, AppendProperties
      <3>3. \A k \in 1..(count + 1) : \/ k \in 1..count
                                      \/ k = count + 1 /\ k - 1 = count /\ k - 1 \in 0..count
        BY <1>0 DEF TypeOK
      <3>5. \A k \in 1..(count + 1) : Queue'[k] = q[k]
        BY <1>1, <2>1, <3>1, <3>2, <3>3
      <3> HIDE DEF q
      <3> QED
        BY <3>1, <3>2, <3>5, SeqEqual DEF q
    <2>4. ~ \E k \in DOMAIN Queue : Queue[k].pktid = p
      BY <1>4, WaitingIsIndexed
    <2> QED
      BY <1>2, <2>1, <2>3, <2>4 DEF Abs!Wait, Abs!Waiting, Queue, NewAckmsg
  <1> QED
    BY <1>3, <1>4

\* n calls of removeHead leave the messages after the first n, in order.
LEMMA RemoveHeadShifts ==
  ASSUME TypeOK, NEW n \in 0..count, removeHead(n), size' = size
  PROVE  \A k \in 0..(count - n - 1) : ring'[Slot(k)'] = ring[Slot(k + n)]
  <1> SUFFICES ASSUME NEW k \in 0..(count - n - 1) PROVE ring'[Slot(k)'] = ring[Slot(k + n)]
    OBVIOUS
  <1> DEFINE gone == {Slot(j) : j \in 0..(n - 1)}
  <1>1. /\ ring' = [i \in DOMAIN ring |-> IF i \in gone THEN EmptyAckmsg ELSE ring[i]]
        /\ head' = IF head + n < size THEN head + n ELSE head + n - size
    BY DEF removeHead
  <1>2. k + n \in 0..(size - 1) /\ \A j \in 0..(n - 1) : j \in 0..(size - 1) /\ j # k + n
    BY DEF TypeOK
  <1>3. Slot(k)' = Slot(k + n)
    BY <1>1, <1>2 DEF Slot, TypeOK
  <1>4. Slot(k + n) \in DOMAIN ring /\ Slot(k + n) \notin gone
    BY <1>2, SlotInjective DEF TypeOK
  <1> HIDE DEF gone
  <1> QED
    BY <1>1, <1>3, <1>4

\* Ack marks the one message of the queue that has the packet id.
LEMMA AckEffect ==
  ASSUME IndInv, NEW p \in PktIds, NEW t \in Acks, Ack(t, p)
  PROVE  \A k \in 1..count :
           ring'[Slot(k - 1)] = IF ring[Slot(k - 1)].pktid = p
                                THEN [ring[Slot(k - 1)] EXCEPT !.state = t, !.ackid = p]
                                ELSE ring[Slot(k - 1)]
  <1>0. TypeOK
    BY DEF IndInv
  <1> TAKE k \in 1..count
  <1> DEFINE s == Slot(k - 1)
  <1>1. s \in Live /\ s \in DOMAIN ring /\ s \in 0..(size - 1) /\ ring[s] \in Ackmsgs
    <2>1. k - 1 \in 0..(count - 1) /\ k - 1 \in 0..(size - 1)
      BY <1>0 DEF TypeOK
    <2> QED
      BY <1>0, <2>1, LivePositions, SlotInjective DEF TypeOK
  <1> HIDE DEF s
  <1>2. CASE ring[s].pktid = p
    <2>1. emap[p] = s
      BY <1>1, <1>2 DEF IndInv, EmapExact
    <2>2. emap[p] # NoSlot
      BY <1>0, <1>1, <2>1 DEF NoSlot, TypeOK
    <2>3. ring' = [ring EXCEPT ![s] = [ring[s] EXCEPT !.state = t, !.ackid = p]]
      BY <1>0, <1>1, <2>1, <2>2 DEF Ack, TypeOK, Ackmsgs
    <2> QED
      BY <1>1, <1>2, <2>3 DEF s
  <1>3. CASE ring[s].pktid # p
    <2>1. emap[p] # s
      BY <1>0, <1>1, <1>3 DEF IndInv, EmapExact, NoSlot, TypeOK
    <2>2. ring'[s] = ring[s]
      BY <1>1, <2>1 DEF Ack
    <2> QED
      BY <1>3, <2>2 DEF s
  <1> QED
    BY <1>2, <1>3 DEF s

\* Ack of the ring is Ack of the queue.
LEMMA AckRefines ==
  ASSUME IndInv, IndInv', NEW p \in PktIds, NEW t \in Acks, Ack(t, p)
  PROVE  Abs!Ack(t, p)
  <1>0. TypeOK /\ TypeOK' /\ UNCHANGED <<size, count, head, tail, emap, ping, ackdone, nWait, nDone>>
    BY DEF IndInv, Ack
  <1>1. \A k : Slot(k)' = Slot(k)
    BY <1>0 DEF Slot
  <1>2. \A k \in 1..count :
          ring'[Slot(k - 1)] = IF ring[Slot(k - 1)].pktid = p
                               THEN [ring[Slot(k - 1)] EXCEPT !.state = t, !.ackid = p]
                               ELSE ring[Slot(k - 1)]
    BY AckEffect
  <1>3. Queue' = [k \in DOMAIN Queue |-> IF Queue[k].pktid = p
                                         THEN [Queue[k] EXCEPT !.state = t, !.ackid = p]
                                         ELSE Queue[k]]
    BY <1>0, <1>1, <1>2 DEF Queue
  <1> QED
    BY <1>0, <1>3 DEF Abs!Ack, Queue

\* Acked removes from the queue, and hands out, the longest complete prefix.
LEMMA AckedRefines ==
  ASSUME IndInv, IndInv', Acked
  PROVE  Abs!Acked
  <1>0. TypeOK /\ TypeOK'
    BY DEF IndInv
  <1>1. PICK n \in 0..count :
          /\ CompletePrefix(n)
          /\ ackdone' = (IF ping.state = "PINGRESP" THEN <<ping>> ELSE <<>>)
                          \o [k \in 1..n |-> ring[Slot(k - 1)]]
          /\ ping' = IF ping.state = "PINGRESP" THEN NoPing ELSE ping
          /\ removeHead(n)
          /\ nDone' = nDone + n
          /\ UNCHANGED <<size, tail, nWait>>
    BY DEF Acked
  <1>2. \A k \in 1..count : Queue[k] = ring[Slot(k - 1)] /\ Queue[k] \in Ackmsgs
    BY <1>0, QueueFacts
  <1>3. n \in 0..Len(Queue)
    BY <1>0, QueueFacts
  <1>4. \A k \in 1..n : Abs!Complete(Queue[k])
    <2>1. \A k \in 1..n : k - 1 \in 0..(n - 1) /\ k \in 1..count
      BY <1>0 DEF TypeOK
    <2> QED
      BY <1>1, <1>2, <2>1 DEF CompletePrefix, Terminal, Abs!Complete
  <1>5. n < Len(Queue) => ~Abs!Complete(Queue[n + 1])
    <2>1. n < Len(Queue) => n + 1 \in 1..count /\ (n + 1) - 1 = n /\ n < count
      BY SMTT(30), <1>0, QueueFacts DEF TypeOK
    <2> QED
      BY <1>1, <1>2, <2>1 DEF CompletePrefix, Terminal, Abs!Complete
  <1>6. [k \in 1..n |-> ring[Slot(k - 1)]] = SubSeq(Queue, 1, n)
    <2> DEFINE a == [k \in 1..n |-> ring[Slot(k - 1)]]
               b == SubSeq(Queue, 1, n)
    <2>1. \A k \in 1..n : k \in 1..count
      BY <1>0 DEF TypeOK
    <2>a. \A k \in 1..n : ring[Slot(k - 1)] \in Ackmsgs
      BY <1>2, <2>1
    <2>2. a \in [1..n -> Ackmsgs] /\ n \in Nat
      BY <1>0, <2>a DEF TypeOK
    <2>3. a \in Seq(Ackmsgs) /\ Len(a) = n
      BY <2>2
    <2>4. /\ b \in Seq(Ackmsgs)
          /\ Len(b) = IF 1 <= n THEN n - 1 + 1 ELSE 0
          /\ \A i \in 1..(n - 1 + 1) : b[i] = Queue[1 + i - 1]
      BY <1>2, <2>1, <2>2, SubSeqProperties
    <2>5. Len(b) = n
      BY <2>2, <2>4
    <2>6. \A i \in 1..n : i \in 1..(n - 1 + 1) /\ 1 + i - 1 = i
      BY <2>2
    <2>7. \A i \in 1..n : a[i] = b[i]
      BY <1>2, <2>1, <2>4, <2>6
    <2> HIDE DEF a, b
    <2>8. a = b
      BY <2>3, <2>4, <2>5, <2>7, SeqEqual
    <2> QED
      BY <2>8 DEF a, b
  <1>7. Queue' = SubSeq(Queue, n + 1, Len(Queue))
    <2> DEFINE b == SubSeq(Queue, n + 1, count)
               c == count - n
    <2>0. count' = c /\ c \in Nat /\ n \in Nat /\ count \in Nat /\ Len(Queue) = count
      BY <1>0, <1>1, QueueFacts DEF removeHead, TypeOK
    <2>1. Queue' \in Seq(Ackmsgs) /\ Len(Queue') = c /\ \A k \in 1..c : Queue'[k] = ring'[Slot(k - 1)']
      BY <1>0, <2>0, NextQueueFacts
    <2>2. \A k \in 1..c : k + n \in 1..count
      BY <2>0
    <2>3. /\ b \in Seq(Ackmsgs)
          /\ Len(b) = IF n + 1 <= count THEN count - (n + 1) + 1 ELSE 0
          /\ \A i \in 1..(count - (n + 1) + 1) : b[i] = Queue[n + 1 + i - 1]
      <3>1. \A i \in (n + 1)..count : i \in 1..count
        BY <2>0
      <3>2. n + 1 \in Int /\ count \in Int
        BY <2>0
      <3> QED
        BY <1>2, <3>1, <3>2, SubSeqProperties
    <2>4. Len(b) = c
      BY <2>0, <2>3
    <2>5. \A k \in 1..c : b[k] = Queue[k + n]
      <3>1. \A k \in 1..c : k \in 1..(count - (n + 1) + 1) /\ n + 1 + k - 1 = k + n
        BY <2>0
      <3> QED
        BY <2>3, <3>1
    <2>6. \A k \in 1..c : ring'[Slot(k - 1)'] = ring[Slot((k + n) - 1)]
      <3>1. \A k \in 1..c : k - 1 \in 0..(c - 1) /\ (k - 1) + n = (k + n) - 1
        BY <2>0
      <3> QED
        BY <1>0, <1>1, <2>0, <3>1, RemoveHeadShifts
    <2>7. \A k \in 1..c : Queue'[k] = b[k]
      BY <1>2, <2>1, <2>2, <2>5, <2>6
    <2> HIDE DEF b, c
    <2>8. Queue' = b
      BY <2>1, <2>3, <2>4, <2>7, SeqEqual
    <2> QED
      BY <2>0, <2>8 DEF b
  <1> QED
    BY <1>1, <1>3, <1>4, <1>5, <1>6, <1>7 DEF Abs!Acked, Queue, NoPing

\* Every step of the ring is a step of the queue or leaves it alone.
LEMMA NextRefines ==
  ASSUME IndInv, IndInv', [Next]_vars
  PROVE  [Abs!Next]_(Abs!vars)
  <1>1. ASSUME NEW p \in PktIds, NEW t \in MsgTypes, Wait(p, t) PROVE Abs!Next
    BY <1>1, WaitRefines DEF Abs!Next
  <1>2. ASSUME NEW p \in PktIds, NEW t \in Acks, Ack(t, p) PROVE Abs!Next
    BY <1>2, AckRefines DEF Abs!Next
  <1>3. ASSUME UNCHANGED <<size, count, head, ring>> PROVE Queue' = Queue
    BY <1>3 DEF Queue, Slot
  <1>4. CASE WaitPing
    <2>1. Queue' = Queue
      BY <1>3, <1>4 DEF WaitPing
    <2>2. Abs!Ping
      BY <1>4, <2>1 DEF WaitPing, Abs!Ping, Queue
    <2> QED
      BY <2>2 DEF Abs!Next
  <1>5. CASE AckPing
    <2>1. Queue' = Queue
      BY <1>3, <1>5 DEF AckPing
    <2>2. Abs!Ping
      BY <1>5, <2>1 DEF AckPing, Abs!Ping, Queue
    <2> QED
      BY <2>2 DEF Abs!Next
  <1>6. CASE Acked
    BY <1>6, AckedRefines DEF Abs!Next
  <1>7. CASE UNCHANGED vars
    <2>1. Queue' = Queue
      BY <1>3, <1>7 DEF vars
    <2> QED
      BY <1>7, <2>1 DEF vars, Abs!vars, Queue
  <1> QED
    BY <1>1, <1>2, <1>4, <1>5, <1>6, <1>7 DEF Next

\* The ring of mem_ackqueue.go with its index, its growth and its wrap-around implements
\* the plain queue of AckQueueAbs, for every set of packet ids and every initial size.
THEOREM Refinement == Spec => ImplementsFifo
  <1>1. Init => Abs!Init
    <2> SUFFICES ASSUME Init PROVE Abs!Init
      OBVIOUS
    <2>1. Queue = <<>>
      BY DEF Init, Queue
    <2> QED
      BY <2>1 DEF Init, Abs!Init, Queue, NoPing
  <1>2. IndInv /\ IndInv' /\ [Next]_vars => [Abs!Next]_(Abs!vars)
    BY NextRefines
  <1> QED
    BY <1>1, <1>2, Invariance, PTL DEF Spec, ImplementsFifo, Abs!Spec

\* What Acked hands out depends on what the queue took in: a waiting message is of a type
\* Wait accepts, and a ping is answered only after it was sent.
AckedInv ==
  /\ AckedIsComplete
  /\ \A k \in 0..(count - 1) : ring[Slot(k)].mtype \in MsgTypes
  /\ ping.state = "PINGRESP" => ping.mtype = "PINGREQ"

\* The serial number of the kth of the last n messages, counted from the last one.
LEMMA CountBack ==
  ASSUME NEW d \in Nat, NEW n \in Nat, NEW k \in Nat, NEW e, e = d + n
  PROVE  e - (n + 1 - k) = d + (k - 1) /\ e - (n - k) = d + k
  OBVIOUS

\* Acked hands out complete messages: AckedInv is kept by every step.
LEMMA NextAckedInv ==
  ASSUME IndInv, IndInv', AckedInv, [Next]_vars
  PROVE  AckedInv'
  <1>0. TypeOK /\ TypeOK'
    BY DEF IndInv
  <1>1. ASSUME UNCHANGED <<ackdone, nDone>> PROVE AckedIsComplete'
    BY <1>1 DEF AckedInv, AckedIsComplete
  <1>2. ASSUME NEW p \in PktIds, NEW t \in MsgTypes, Wait(p, t) PROVE AckedInv'
    <2>1. UNCHANGED <<ping, ackdone, nDone>>
      BY <1>2 DEF Wait
    <2>2. NewAckmsg(p, t).mtype \in MsgTypes
      BY DEF NewAckmsg
    <2>3. \A k \in 0..(count' - 1) : ring'[Slot(k)'].mtype \in MsgTypes
      <3>1. CASE count' = count
        BY <1>0, <1>2, <3>1, WaitEffect DEF AckedInv
      <3>2. CASE count' # count
        <4>1. /\ count' = count + 1
              /\ \A k \in 0..count : k = count => ring'[Slot(k)'] = NewAckmsg(p, t)
              /\ \A k \in 0..(count - 1) : ring'[Slot(k)'] = ring[Slot(k)]
          BY <1>0, <1>2, <3>2, WaitEffect
        <4>2. \A k \in 0..(count' - 1) : k \in 0..count /\ (k = count \/ k \in 0..(count - 1))
          BY <1>0, <4>1 DEF TypeOK
        <4> QED
          BY <2>2, <4>1, <4>2 DEF AckedInv
      <3> QED
        BY <3>1, <3>2
    <2> QED
      BY <1>1, <2>1, <2>3 DEF AckedInv
  <1>3. ASSUME NEW p \in PktIds, NEW t \in Acks, Ack(t, p) PROVE AckedInv'
    <2>1. UNCHANGED <<size, count, head, ping, ackdone, nDone>>
      BY <1>3 DEF Ack
    <2>2. \A k : Slot(k)' = Slot(k)
      BY <2>1 DEF Slot
    <2>3. ASSUME NEW k \in 0..(count - 1) PROVE ring'[Slot(k)].mtype \in MsgTypes
      <3>1. k + 1 \in 1..count /\ (k + 1) - 1 = k /\ k \in 0..(size - 1)
        BY <1>0 DEF TypeOK
      <3>2. ring[Slot(k)] \in Ackmsgs /\ ring[Slot(k)].mtype \in MsgTypes
        BY <1>0, <3>1, SlotInjective DEF TypeOK, AckedInv
      <3> DEFINE j == k + 1
      <3>a. ring'[Slot(j - 1)] = IF ring[Slot(j - 1)].pktid = p
                                 THEN [ring[Slot(j - 1)] EXCEPT !.state = t, !.ackid = p]
                                 ELSE ring[Slot(j - 1)]
        BY <1>3, <3>1, AckEffect
      <3>3. ring'[Slot(k)] = IF ring[Slot(k)].pktid = p
                             THEN [ring[Slot(k)] EXCEPT !.state = t, !.ackid = p]
                             ELSE ring[Slot(k)]
        BY <3>1, <3>a
      <3> QED
        BY <3>2, <3>3 DEF Ackmsgs
    <2> QED
      BY <1>1, <2>1, <2>2, <2>3 DEF AckedInv
  <1>4. ASSUME UNCHANGED <<size, count, head, ring>>
        PROVE  \A k \in 0..(count' - 1) : ring'[Slot(k)'].mtype \in MsgTypes
    BY <1>4 DEF AckedInv, Slot
  <1>5. CASE WaitPing
    BY <1>1, <1>4, <1>5 DEF WaitPing, AckedInv
  <1>6. CASE AckPing
    <2>1. ping'.state = "PINGRESP" => ping'.mtype = "PINGREQ"
      BY <1>0, <1>6 DEF AckPing, AckedInv, TypeOK, Pings
    <2> QED
      BY <1>1, <1>4, <1>6, <2>1 DEF AckPing, AckedInv
  <1>7. CASE Acked
    <2>1. PICK n \in 0..count :
            /\ CompletePrefix(n)
            /\ ackdone' = (IF ping.state = "PINGRESP" THEN <<ping>> ELSE <<>>)
                            \o [k \in 1..n |-> ring[Slot(k - 1)]]
            /\ ping' = IF ping.state = "PINGRESP" THEN NoPing ELSE ping
            /\ removeHead(n)
            /\ nDone' = nDone + n
            /\ UNCHANGED <<size, tail, nWait>>
      BY <1>7 DEF Acked
    <2>2. \A k \in 0..(count' - 1) : ring'[Slot(k)'].mtype \in MsgTypes
      <3>1. count' = count - n
        BY <2>1 DEF removeHead
      <3>2. \A k \in 0..(count' - 1) : k \in 0..(count - n - 1) /\ k + n \in 0..(count - 1)
        BY <1>0, <3>1 DEF TypeOK
      <3> QED
        BY <1>0, <2>1, <3>2, RemoveHeadShifts DEF AckedInv
    <2>3. ping'.state = "PINGRESP" => ping'.mtype = "PINGREQ"
      BY <2>1 DEF NoPing
    <2> DEFINE msgs == [k \in 1..n |-> ring[Slot(k - 1)]]
               pings == IF ping.state = "PINGRESP" THEN <<ping>> ELSE <<>>
    <2>4. \A k \in 1..n : /\ msgs[k] \in Ackmsgs /\ msgs[k].mtype \in MsgTypes
                          /\ msgs[k].state \in Terminal
                          /\ msgs[k].ackid = msgs[k].pktid
                          /\ msgs[k].no = nDone + k
      <3> TAKE k \in 1..n
      <3>1. /\ k - 1 \in 0..(count - 1) /\ k - 1 \in 0..(n - 1) /\ k - 1 \in 0..(size - 1)
            /\ nDone + (k - 1) + 1 = nDone + k
        BY <1>0 DEF TypeOK
      <3>2. ring[Slot(k - 1)] \in Ackmsgs /\ Slot(k - 1) \in Live
        BY <1>0, <3>1, SlotInjective, LivePositions DEF TypeOK
      <3>3. ring[Slot(k - 1)].mtype \in MsgTypes /\ ring[Slot(k - 1)].no = nDone + k
        BY <3>1 DEF AckedInv, IndInv, InOrderExactlyOnce
      <3>4. ring[Slot(k - 1)].state \in Terminal
        BY <2>1, <3>1 DEF CompletePrefix
      <3>5. ring[Slot(k - 1)].ackid = ring[Slot(k - 1)].pktid
        BY <3>2, <3>4 DEF IndInv, AckOfOwnMessage, Terminal
      <3> QED
        BY <3>2, <3>3, <3>4, <3>5
    <2>a. n \in Nat /\ nDone' = nDone + n /\ DOMAIN msgs = 1..n
      BY <1>0, <2>1 DEF TypeOK
    <2>b. msgs = [k \in 1..n |-> msgs[k]] /\ \A k \in 1..n : msgs[k] \in Ackmsgs
      BY <2>4
    <2> HIDE DEF msgs
    <2>5. n \in Nat /\ msgs \in [1..n -> Ackmsgs]
      BY <2>a, <2>b
    <2>6. msgs \in Seq(Ackmsgs \cup Pings) /\ Len(msgs) = n
      BY <2>5
    <2>7. CASE ping.state = "PINGRESP"
      <3>1. ackdone' = <<ping>> \o msgs
        BY <2>1, <2>7 DEF msgs
      <3>2. ping \in Ackmsgs \cup Pings
        BY <1>0 DEF TypeOK
      <3>3. Len(ackdone') = n + 1 /\ ackdone'[1] = ping /\ \A k \in 2..(n + 1) : ackdone'[k] = msgs[k - 1]
        BY <2>5, <2>6, <3>1, <3>2
      <3>4. ping.mtype = "PINGREQ" /\ ackdone' # <<>>
        BY <2>5, <2>7, <3>3 DEF AckedInv
      <3>5. ASSUME NEW k \in 2..(n + 1)
            PROVE  /\ ackdone'[k].mtype \in MsgTypes
                   /\ ackdone'[k].state \in Terminal
                   /\ ackdone'[k].ackid = ackdone'[k].pktid
                   /\ ackdone'[k].no = nDone' - (n + 1 - k)
        <4>1. k - 1 \in 1..n /\ nDone + (k - 1) = nDone + n - (n + 1 - k)
          BY <1>0, <2>5 DEF TypeOK
        <4>2. nDone' - (n + 1 - k) = nDone + (k - 1)
          BY <1>0, <2>5, <2>a, CountBack DEF TypeOK
        <4>3. ackdone'[k] = msgs[k - 1]
          BY <3>3
        <4> QED
          BY <2>4, <4>1, <4>2, <4>3
      <3>6. AckedIsComplete'
        BY <3>3, <3>4, <3>5 DEF AckedIsComplete
      <3> QED
        BY <2>2, <2>3, <3>6 DEF AckedInv
    <2>8. CASE ping.state # "PINGRESP"
      <3>1. ackdone' = <<>> \o msgs
        BY <2>1, <2>8 DEF msgs
      <3>2. ackdone' = msgs
        BY <2>6, <3>1
      <3>3. "PINGREQ" \notin MsgTypes
        BY AckQueueAssumption
      <3>4. ackdone' # <<>> => ackdone'[1].mtype # "PINGREQ"
        BY <2>4, <2>5, <2>6, <3>2, <3>3
      <3>5. ASSUME NEW k \in 1..n
            PROVE  /\ ackdone'[k].mtype \in MsgTypes
                   /\ ackdone'[k].state \in Terminal
                   /\ ackdone'[k].ackid = ackdone'[k].pktid
                   /\ ackdone'[k].no = nDone' - (n - k)
        <4>1. nDone + k = nDone + n - (n - k)
          BY <1>0, <2>5 DEF TypeOK
        <4>2. nDone' - (n - k) = nDone + k
          BY <1>0, <2>5, <2>a, CountBack DEF TypeOK
        <4> QED
          BY <2>4, <3>2, <4>2
      <3>6. AckedIsComplete'
        BY <2>6, <3>2, <3>4, <3>5 DEF AckedIsComplete
      <3> QED
        BY <2>2, <2>3, <3>6 DEF AckedInv
    <2> QED
      BY <2>7, <2>8
  <1>8. CASE UNCHANGED vars
    BY <1>1, <1>4, <1>8 DEF vars, AckedInv
  <1> QED
    BY <1>2, <1>3, <1>5, <1>6, <1>7, <1>8 DEF Next

\* What Acked of mem_ackqueue.go returns is complete, acknowledged under its own packet
\* id and in order, the answered ping first, for every history of the queue.
THEOREM ReturnCorrect == Spec => []AckedIsComplete
  <1>1. Init => AckedInv
    BY DEF Init, AckedInv, AckedIsComplete, NoPing
  <1>2. IndInv /\ IndInv' /\ AckedInv /\ [Next]_vars => AckedInv'
    BY NextAckedInv
  <1>3. AckedInv => AckedIsComplete
    BY DEF AckedInv
  <1> QED
    BY <1>1, <1>2, <1>3, Invariance, PTL DEF Spec
=============================================================================
