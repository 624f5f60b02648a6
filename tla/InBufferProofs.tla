--------------------------- MODULE InBufferProofs ---------------------------
(***************************************************************************)
(* Proofs about InBuffer, for every ring size, block size and stream of    *)
(* packets.                                                                *)
(*                                                                         *)
(* The properties speak of the shared cursors; what keeps them true is in  *)
(* the local state of the two goroutines between their steps: the receiver *)
(* has reserved room that the cached gate vouches for and, after the read, *)
(* holds bytes that pseq does not cover yet; the processor has seen data   *)
(* that its copy of pseq vouches for.  ReceiverInv and ProcessorInv say so *)
(* for each label.                                                         *)
(***************************************************************************)
EXTENDS InBuffer, TLAPS

\* Labels inside waitForWriteSpace and inside ReadWait or ReadPeek.
SpaceWaits == {"waitForWriteSpace", "space_lock", "space_test", "space_done", "space_sleep",
               "space_asleep"}
DataWaits  == {"waitForData", "data_lock", "data_test", "data_done", "data_sleep",
               "data_asleep"}
Closing    == {"close", "close_pcond", "close_ccond"}

RLabels == SpaceWaits \cup Closing
             \cup {"readfrom", "socket_read", "commit_set", "commit_broadcast", "ended"}
PLabels == DataWaits \cup Closing
             \cup {"next_packet", "peek_size", "process", "readcommit_broadcast", "stop",
                   "stop_wait", "stopped"}

Last == End(Len(packets))

\* Types of what the goroutines keep for themselves.
LocalsOK ==
  /\ packets \in Streams
  /\ pc \in [Threads -> RLabels \cup PLabels]
  /\ req \in [Threads -> Int]
  /\ ok \in [Threads -> {"none", "socket_read", "commit_set", "peek_size", "process"}]
  /\ pc[R] \in RLabels /\ pc[P] \in PLabels

\* The receiver has stored bytes that it has not committed.
Uncommitted == pc[R] = "commit_set" \/ (pc[R] \in SpaceWaits /\ ok[R] = "commit_set")

\* Room is reserved through the gate: at socket_read a block, afterwards what was read.
ReceiverInv ==
  /\ pc[R] \in SpaceWaits => ok[R] \in {"socket_read", "commit_set"} /\ req[R] \in 1..Block
  /\ pc[R] \in SpaceWaits /\ ok[R] = "socket_read" => req[R] = Block
  /\ pc[R] = "socket_read" => pseq + Block <= gate + Size
  /\ Uncommitted => /\ req[R] \in 1..Block
                    /\ pseq + req[R] <= gate + Size
                    /\ pseq + req[R] <= Last

\* The bytes stored and not committed are in their slots.
StoredIntact == Uncommitted => \A b \in pseq..(pseq + req[R] - 1) : buf[b % Size] = b

CommittedIntact == \A b \in cseq..(pseq - 1) : buf[b % Size] = b

\* What the processor has seen is there: at peek_size the bytes it asked for, at
\* process the whole packet.
ProcessorInv ==
  /\ ppos <= pseq
  /\ pc[P] \in DataWaits => ok[P] \in {"peek_size", "process"}
  /\ pc[P] \in DataWaits /\ ok[P] = "peek_size" => req[P] \in 2..5
  /\ pc[P] \in DataWaits /\ ok[P] = "process" => np < Len(packets) /\ req[P] = total /\ ~Refused
  /\ pc[P] = "peek_size" => req[P] \in 2..5 /\ cseq + req[P] <= pseq
  /\ pc[P] = "process" => np < Len(packets) /\ cseq + total <= pseq

\* A receiver that is asleep, or has decided to sleep, lacks room; if the processor has
\* made room meanwhile its broadcast is still to come.  pcond.L, which the receiver holds
\* from the test until it is asleep, keeps the broadcast back.
SleepInv ==
  /\ pc[R] \in {"space_test", "space_done", "space_sleep"} => pmutex = R
  /\ R \in pwaiters => pc[R] = "space_asleep"
  /\ P \in cwaiters => pc[P] = "data_asleep"
  /\ pc[R] \in {"space_done", "space_sleep"} \/ R \in pwaiters
       => wrap(R) > cseq \/ pc[P] = "readcommit_broadcast"

IndInv ==
  /\ TypeOK
  /\ LocalsOK
  /\ CursorsInRing
  /\ PacketBoundary
  /\ ReceiverInv
  /\ StoredIntact
  /\ CommittedIntact
  /\ ProcessorInv
  /\ SleepInv

-----------------------------------------------------------------------------
\* Two bytes of the stream that are less than a ring apart have different slots.
LEMMA SlotsDiffer ==
  ASSUME NEW s \in Nat \ {0}, NEW a \in Nat, NEW b \in Nat, a < b, b < a + s
  PROVE  a % s # b % s
  <1>1. /\ a = s * (a \div s) + (a % s) /\ a % s \in 0..(s - 1) /\ a \div s \in Int
        /\ b = s * (b \div s) + (b % s) /\ b % s \in 0..(s - 1) /\ b \div s \in Int
    OBVIOUS
  <1> SUFFICES ASSUME a % s = b % s PROVE FALSE
    OBVIOUS
  <1> DEFINE k == (b \div s) - (a \div s)
  <1>2. k \in Int /\ b - a = s * k
    BY <1>1
  <1> HIDE DEF k
  <1>3. CASE k <= 0
    BY <1>2, <1>3
  <1>4. CASE k >= 1
    BY <1>2, <1>4
  <1> QED
    BY <1>2, <1>3, <1>4

\* The ends of the packets of a stream.
LEMMA StreamFacts ==
  ASSUME packets \in Streams
  PROVE  /\ Len(packets) \in Nat \ {0}
         /\ \A i \in 0..Len(packets) : End(i) \in Nat
         /\ \A i \in 0..(Len(packets) - 1) :
              /\ End(i) <= End(i + 1)
              /\ End(i + 1) = packets[i + 1].end
              /\ packets[i + 1].hdr \in Nat \ {0, 1}
  <1>1. /\ packets \in Seq([end : Nat, hdr : Nat \ {0, 1}]) /\ packets # <<>>
        /\ \A i \in 1..(Len(packets) - 1) : packets[i].end < packets[i + 1].end
    BY InBufferAssumption
  <1>2. Len(packets) \in Nat \ {0}
    BY <1>1
  <1>3. \A i \in 1..Len(packets) : packets[i].end \in Nat /\ packets[i].hdr \in Nat \ {0, 1}
    <2> TAKE i \in 1..Len(packets)
    <2> DEFINE D == [end : Nat, hdr : Nat \ {0, 1}]
    <2>0. packets \in Seq(D)
      BY <1>1
    <2> HIDE DEF D
    <2>1. packets[i] \in D
      BY <2>0
    <2> USE DEF D
    <2> QED
      BY <2>1
  <1>4. \A i \in 0..Len(packets) : End(i) \in Nat
    BY <1>2, <1>3 DEF End
  <1>5. ASSUME NEW i \in 0..(Len(packets) - 1)
        PROVE  /\ End(i) <= End(i + 1)
               /\ End(i + 1) = packets[i + 1].end
               /\ packets[i + 1].hdr \in Nat \ {0, 1}
    <2>1. i + 1 \in 1..Len(packets) /\ i + 1 # 0
      BY <1>2
    <2>2. CASE i = 0
      BY <2>1, <2>2, <1>3 DEF End
    <2>3. CASE i # 0
      <3>1. i \in 1..(Len(packets) - 1)
        BY <2>3, <1>2
      <3>2. packets[i].end < packets[i + 1].end
        BY <3>1, <1>1
      <3>3. packets[i].end \in Nat /\ packets[i + 1].end \in Nat
        BY <3>1, <2>1, <1>2, <1>3
      <3>4. packets[i].end <= packets[i + 1].end
        BY <3>2, <3>3
      <3> QED
        BY <2>1, <2>3, <3>4, <1>3 DEF End
    <2> QED
      BY <2>2, <2>3
  <1> QED
    BY <1>2, <1>4, <1>5

\* The constants and numbers that every step computes with.
LEMMA Numbers ==
  ASSUME IndInv
  PROVE  /\ Size \in Nat \ {0} /\ Block \in 1..Size
         /\ Threads = {R, P} /\ R # P
         /\ pseq \in Nat /\ cseq \in Nat /\ gate \in Nat /\ ppos \in Nat /\ Last \in Nat
         /\ Len(packets) \in Nat /\ np \in Nat
         /\ req[R] \in Int /\ req[P] \in Int
  <1>1. Last \in Nat /\ Len(packets) \in Nat
    BY StreamFacts DEF IndInv, LocalsOK, Last
  <1>2. {pseq, cseq, gate, ppos} \subseteq 0..Last /\ np \in 0..Len(packets)
    BY DEF IndInv, TypeOK, Last
  <1> QED
    BY <1>1, <1>2, RingBufferAssumption, InBufferAssumption DEF IndInv, LocalsOK, R, P

\* The empty ring of newBuffer, with both goroutines at their first statement.
LEMMA InitIndInv == Init => IndInv
  <1> SUFFICES ASSUME Init PROVE IndInv
    OBVIOUS
  <1>1. Threads = {R, P} /\ R # P
    BY InBufferAssumption DEF R, P
  <1>2. Len(packets) \in Nat /\ Last \in Nat /\ End(0) = 0
    BY StreamFacts DEF Init, Last, End
  <1>3. pc[R] = "readfrom" /\ pc[P] = "next_packet"
    BY <1>1 DEF Init, BufferInit, R, P
  <1>4. LocalsOK
    BY <1>1, <1>3 DEF Init, BufferInit, LocalsOK, RLabels, PLabels
  <1>5. TypeOK
    <2>1. 0 \in 0..Last /\ np \in 0..Len(packets)
      BY <1>2 DEF Init
    <2>2. {done, connClosed, faulty} \subseteq BOOLEAN
      BY DEF Init, BufferInit
    <2> QED
      BY <2>1, <2>2 DEF Init, BufferInit, TypeOK, Last
  <1>6. ReceiverInv /\ StoredIntact
    BY <1>3 DEF ReceiverInv, StoredIntact, Uncommitted, SpaceWaits
  <1>8. ProcessorInv /\ SleepInv
    BY <1>3 DEF Init, BufferInit, ProcessorInv, SleepInv, DataWaits
  <1>7. CursorsInRing /\ PacketBoundary /\ CommittedIntact
    BY <1>2, RingBufferAssumption DEF Init, BufferInit, CursorsInRing, PacketBoundary,
                                      CommittedIntact
  <1> QED
    BY <1>4, <1>5, <1>6, <1>7, <1>8 DEF IndInv

\* The packet at the head of the stream.
LEMMA NextPacketFacts ==
  ASSUME IndInv, np < Len(packets)
  PROVE  /\ total \in Nat /\ hdr \in Nat \ {0, 1}
         /\ cseq + total = End(np + 1)
         /\ np + 1 \in 0..Len(packets)
  <1>1. np \in 0..(Len(packets) - 1) /\ np + 1 \in 0..Len(packets) /\ np \in 0..Len(packets)
    BY Numbers
  <1>2. End(np) \in Nat /\ End(np + 1) \in Nat /\ End(np) <= End(np + 1)
        /\ End(np + 1) = packets[np + 1].end /\ packets[np + 1].hdr \in Nat \ {0, 1}
    BY <1>1, StreamFacts DEF IndInv, LocalsOK
  <1>3. cseq = End(np)
    BY DEF IndInv, PacketBoundary
  <1> QED
    BY <1>1, <1>2, <1>3 DEF total, hdr

\* A step of the receiver leaves the processor's view intact.
LEMMA ProcessorFrame ==
  ASSUME IndInv, UNCHANGED <<packets, np, cseq, ppos>>,
         pc'[P] = pc[P], req'[P] = req[P], ok'[P] = ok[P],
         pseq' \in Nat, pseq <= pseq'
  PROVE  ProcessorInv' /\ PacketBoundary'
  <1>1. PacketBoundary'
    BY DEF IndInv, PacketBoundary, End
  <1>2. hdr' = hdr /\ total' = total /\ (Refused' <=> Refused)
    BY DEF hdr, total, Refused
  <1>3. np < Len(packets) => total \in Nat
    BY NextPacketFacts
  <1>4. ProcessorInv'
    BY SMTT(30), <1>2, <1>3, Numbers DEF IndInv, ProcessorInv
  <1> QED
    BY <1>1, <1>4

\* A step of the processor leaves the receiver's reservation and bytes intact.
LEMMA ReceiverFrame ==
  ASSUME IndInv, UNCHANGED <<packets, pseq, gate, buf>>,
         pc'[R] = pc[R], req'[R] = req[R], ok'[R] = ok[R]
  PROVE  ReceiverInv' /\ StoredIntact'
  BY DEF IndInv, ReceiverInv, StoredIntact, Uncommitted, Last, End

\* The committed bytes stay as they are while none are added or overwritten.
LEMMA BytesFrame ==
  ASSUME IndInv, UNCHANGED <<pseq, buf>>, cseq' \in Nat, cseq <= cseq'
  PROVE  CommittedIntact'
  BY Numbers DEF IndInv, CommittedIntact

\* The receiver's steps that neither store nor commit bytes.
LEMMA ReceiverLocalStep ==
  ASSUME IndInv,
         \/ ReadFromLoop \/ SocketError
         \/ /\ \/ waitForWriteSpace(R, "close") \/ CommitBroadcast(R, "readfrom")
               \/ Close(R, "ended")
            /\ UNCHANGED rest
  PROVE  IndInv'
  <1> USE Numbers
  <1>1. CASE ReadFromLoop
    <2>1. TypeOK'
      BY <1>1 DEF IndInv, ReadFromLoop, Goto, rest, Call, TypeOK, End
    <2>2. LocalsOK'
      <3>1. \/ pc' = [pc EXCEPT ![R] = "close"] \/ pc' = [pc EXCEPT ![R] = "waitForWriteSpace"]
        BY <1>1 DEF ReadFromLoop, Goto, Call
      <3>2. /\ req' \in [Threads -> Int] /\ packets' = packets
            /\ ok' \in [Threads -> {"none", "socket_read", "commit_set", "peek_size", "process"}]
        BY SMTT(30), <1>1 DEF IndInv, LocalsOK, ReadFromLoop, Call, rest
      <3> QED
        BY <3>1, <3>2 DEF IndInv, LocalsOK, SpaceWaits, RLabels, Closing
    <2>3. ProcessorInv' /\ PacketBoundary' /\ CommittedIntact'
      BY <1>1, ProcessorFrame, BytesFrame DEF IndInv, ReadFromLoop, Goto, rest, Call, LocalsOK
    <2>4. CursorsInRing'
      BY <1>1 DEF IndInv, ReadFromLoop, Goto, rest, Call, CursorsInRing
    <2>5. ReceiverInv'
      BY <1>1 DEF IndInv, ReadFromLoop, Goto, rest, Call, LocalsOK, ReceiverInv, Uncommitted,
                  SpaceWaits, wrap, CursorsInRing,
                 Last, End
    <2>7. StoredIntact'
      BY <1>1 DEF IndInv, ReadFromLoop, Goto, rest, Call, LocalsOK, ReceiverInv, StoredIntact,
                  Uncommitted, SpaceWaits
    <2>6. SleepInv'
      BY <1>1 DEF IndInv, ReadFromLoop, Goto, rest, Call, LocalsOK, SleepInv, wrap, Nobody
    <2> QED
      BY <2>1, <2>2, <2>3, <2>4, <2>5, <2>6, <2>7 DEF IndInv
  <1>2. CASE SocketError
    <2>1. TypeOK'
      BY <1>2 DEF IndInv, SocketError, Goto, rest, TypeOK, End
    <2>2. LocalsOK'
      BY <1>2 DEF IndInv, SocketError, Goto, rest, LocalsOK, ReceiverInv, SpaceWaits, RLabels,
                  Closing
    <2>3. ProcessorInv' /\ PacketBoundary' /\ CommittedIntact'
      BY <1>2, ProcessorFrame, BytesFrame DEF IndInv, SocketError, Goto, rest, LocalsOK
    <2>4. CursorsInRing'
      BY <1>2 DEF IndInv, SocketError, Goto, rest, CursorsInRing
    <2>5. ReceiverInv'
      BY <1>2 DEF IndInv, SocketError, Goto, rest, LocalsOK, ReceiverInv, Uncommitted,
                  SpaceWaits, wrap, CursorsInRing,
                 Last, End
    <2>7. StoredIntact'
      BY <1>2 DEF IndInv, SocketError, Goto, rest, LocalsOK, ReceiverInv, StoredIntact,
                  Uncommitted, SpaceWaits
    <2>6. SleepInv'
      BY <1>2 DEF IndInv, SocketError, Goto, rest, LocalsOK, SleepInv, wrap, Nobody
    <2> QED
      BY <2>1, <2>2, <2>3, <2>4, <2>5, <2>6, <2>7 DEF IndInv
  <1>3. CASE SpaceEnter(R, "close") /\ UNCHANGED rest
    <2>1. TypeOK'
      BY <1>3 DEF IndInv, SpaceEnter, Goto, rest, TypeOK, End
    <2>2. LocalsOK'
      BY <1>3 DEF IndInv, SpaceEnter, Goto, rest, LocalsOK, ReceiverInv, SpaceWaits, RLabels,
                  Closing
    <2>3. ProcessorInv' /\ PacketBoundary' /\ CommittedIntact'
      BY <1>3, ProcessorFrame, BytesFrame DEF IndInv, SpaceEnter, Goto, rest, LocalsOK
    <2>4. CursorsInRing'
      BY <1>3 DEF IndInv, SpaceEnter, Goto, rest, CursorsInRing
    <2>5. ReceiverInv'
      BY SMTT(30), <1>3 DEF IndInv, SpaceEnter, Goto, rest, LocalsOK, ReceiverInv, Uncommitted,
                  SpaceWaits, wrap, CursorsInRing,
                 Last, End
    <2>7. StoredIntact'
      BY <1>3 DEF IndInv, SpaceEnter, Goto, rest, LocalsOK, ReceiverInv, StoredIntact,
                  Uncommitted, SpaceWaits
    <2>6. SleepInv'
      BY <1>3 DEF IndInv, SpaceEnter, Goto, rest, LocalsOK, SleepInv, wrap, Nobody
    <2> QED
      BY <2>1, <2>2, <2>3, <2>4, <2>5, <2>6, <2>7 DEF IndInv
  <1>4. CASE SpaceLock(R) /\ UNCHANGED rest
    <2>1. TypeOK'
      BY <1>4 DEF IndInv, SpaceLock, Goto, rest, TypeOK, End
    <2>2. LocalsOK'
      BY <1>4 DEF IndInv, SpaceLock, Goto, rest, LocalsOK, ReceiverInv, SpaceWaits, RLabels,
                  Closing
    <2>3. ProcessorInv' /\ PacketBoundary' /\ CommittedIntact'
      BY <1>4, ProcessorFrame, BytesFrame DEF IndInv, SpaceLock, Goto, rest, LocalsOK
    <2>4. CursorsInRing'
      BY <1>4 DEF IndInv, SpaceLock, Goto, rest, CursorsInRing
    <2>5. ReceiverInv'
      BY <1>4 DEF IndInv, SpaceLock, Goto, rest, LocalsOK, ReceiverInv, Uncommitted,
                  SpaceWaits, wrap, CursorsInRing,
                 Last, End
    <2>7. StoredIntact'
      BY <1>4 DEF IndInv, SpaceLock, Goto, rest, LocalsOK, ReceiverInv, StoredIntact,
                  Uncommitted, SpaceWaits
    <2>6. SleepInv'
      BY <1>4 DEF IndInv, SpaceLock, Goto, rest, LocalsOK, SleepInv, wrap, Nobody
    <2> QED
      BY <2>1, <2>2, <2>3, <2>4, <2>5, <2>6, <2>7 DEF IndInv
  <1>5. CASE SpaceTest(R) /\ UNCHANGED rest
    <2>1. TypeOK'
      BY <1>5 DEF IndInv, SpaceTest, Goto, rest, TypeOK, End
    <2>2. LocalsOK'
      BY <1>5 DEF IndInv, SpaceTest, Goto, rest, LocalsOK, ReceiverInv, SpaceWaits, RLabels,
                  Closing
    <2>3. ProcessorInv' /\ PacketBoundary' /\ CommittedIntact'
      BY <1>5, ProcessorFrame, BytesFrame DEF IndInv, SpaceTest, Goto, rest, LocalsOK
    <2>4. CursorsInRing'
      BY <1>5 DEF IndInv, SpaceTest, Goto, rest, CursorsInRing
    <2>5. ReceiverInv'
      BY SMTT(30), <1>5 DEF IndInv, SpaceTest, Goto, rest, LocalsOK, ReceiverInv, Uncommitted,
                  SpaceWaits, wrap, CursorsInRing,
                 Last, End
    <2>7. StoredIntact'
      BY <1>5 DEF IndInv, SpaceTest, Goto, rest, LocalsOK, ReceiverInv, StoredIntact,
                  Uncommitted, SpaceWaits
    <2>6. SleepInv'
      BY <1>5 DEF IndInv, SpaceTest, Goto, rest, LocalsOK, SleepInv, wrap, Nobody
    <2> QED
      BY <2>1, <2>2, <2>3, <2>4, <2>5, <2>6, <2>7 DEF IndInv
  <1>6. CASE SpaceDone(R, "close") /\ UNCHANGED rest
    <2>1. TypeOK'
      BY <1>6 DEF IndInv, SpaceDone, Goto, rest, TypeOK, End
    <2>2. LocalsOK'
      BY <1>6 DEF IndInv, SpaceDone, Goto, rest, LocalsOK, ReceiverInv, SpaceWaits, RLabels,
                  Closing
    <2>3. ProcessorInv' /\ PacketBoundary' /\ CommittedIntact'
      BY <1>6, ProcessorFrame, BytesFrame DEF IndInv, SpaceDone, Goto, rest, LocalsOK
    <2>4. CursorsInRing'
      BY <1>6 DEF IndInv, SpaceDone, Goto, rest, CursorsInRing
    <2>5. ReceiverInv'
      BY <1>6 DEF IndInv, SpaceDone, Goto, rest, LocalsOK, ReceiverInv, Uncommitted,
                  SpaceWaits, wrap, CursorsInRing,
                 Last, End
    <2>7. StoredIntact'
      BY <1>6 DEF IndInv, SpaceDone, Goto, rest, LocalsOK, ReceiverInv, StoredIntact,
                  Uncommitted, SpaceWaits
    <2>6. SleepInv'
      BY <1>6 DEF IndInv, SpaceDone, Goto, rest, LocalsOK, SleepInv, wrap, Nobody
    <2> QED
      BY <2>1, <2>2, <2>3, <2>4, <2>5, <2>6, <2>7 DEF IndInv
  <1>7. CASE SpaceSleep(R) /\ UNCHANGED rest
    <2>1. TypeOK'
      BY <1>7 DEF IndInv, SpaceSleep, Goto, rest, TypeOK, End
    <2>2. LocalsOK'
      BY <1>7 DEF IndInv, SpaceSleep, Goto, rest, LocalsOK, ReceiverInv, SpaceWaits, RLabels,
                  Closing
    <2>3. ProcessorInv' /\ PacketBoundary' /\ CommittedIntact'
      BY <1>7, ProcessorFrame, BytesFrame DEF IndInv, SpaceSleep, Goto, rest, LocalsOK
    <2>4. CursorsInRing'
      BY <1>7 DEF IndInv, SpaceSleep, Goto, rest, CursorsInRing
    <2>5. ReceiverInv'
      BY <1>7 DEF IndInv, SpaceSleep, Goto, rest, LocalsOK, ReceiverInv, Uncommitted,
                  SpaceWaits, wrap, CursorsInRing,
                 Last, End
    <2>7. StoredIntact'
      BY <1>7 DEF IndInv, SpaceSleep, Goto, rest, LocalsOK, ReceiverInv, StoredIntact,
                  Uncommitted, SpaceWaits
    <2>6. SleepInv'
      BY <1>7 DEF IndInv, SpaceSleep, Goto, rest, LocalsOK, SleepInv, wrap, Nobody
    <2> QED
      BY <2>1, <2>2, <2>3, <2>4, <2>5, <2>6, <2>7 DEF IndInv
  <1>8. CASE CommitBroadcast(R, "readfrom") /\ UNCHANGED rest
    <2>1. TypeOK'
      BY <1>8 DEF IndInv, CommitBroadcast, Goto, rest, TypeOK, End
    <2>2. LocalsOK'
      BY <1>8 DEF IndInv, CommitBroadcast, Goto, rest, LocalsOK, ReceiverInv, SpaceWaits,
                  RLabels, Closing
    <2>3. ProcessorInv' /\ PacketBoundary' /\ CommittedIntact'
      BY <1>8, ProcessorFrame, BytesFrame DEF IndInv, CommitBroadcast, Goto, rest, LocalsOK
    <2>4. CursorsInRing'
      BY <1>8 DEF IndInv, CommitBroadcast, Goto, rest, CursorsInRing
    <2>5. ReceiverInv'
      BY <1>8 DEF IndInv, CommitBroadcast, Goto, rest, LocalsOK, ReceiverInv, Uncommitted,
                  SpaceWaits, wrap, CursorsInRing,
                 Last, End
    <2>7. StoredIntact'
      BY <1>8 DEF IndInv, CommitBroadcast, Goto, rest, LocalsOK, ReceiverInv, StoredIntact,
                  Uncommitted, SpaceWaits
    <2>6. SleepInv'
      BY <1>8 DEF IndInv, CommitBroadcast, Goto, rest, LocalsOK, SleepInv, wrap, Nobody
    <2> QED
      BY <2>1, <2>2, <2>3, <2>4, <2>5, <2>6, <2>7 DEF IndInv
  <1>9. CASE CloseDone(R) /\ UNCHANGED rest
    <2>1. TypeOK'
      BY <1>9 DEF IndInv, CloseDone, Goto, rest, TypeOK, End
    <2>2. LocalsOK'
      BY <1>9 DEF IndInv, CloseDone, Goto, rest, LocalsOK, ReceiverInv, SpaceWaits, RLabels,
                  Closing
    <2>3. ProcessorInv' /\ PacketBoundary' /\ CommittedIntact'
      BY <1>9, ProcessorFrame, BytesFrame DEF IndInv, CloseDone, Goto, rest, LocalsOK
    <2>4. CursorsInRing'
      BY <1>9 DEF IndInv, CloseDone, Goto, rest, CursorsInRing
    <2>5. ReceiverInv'
      BY <1>9 DEF IndInv, CloseDone, Goto, rest, LocalsOK, ReceiverInv, Uncommitted,
                  SpaceWaits, wrap, CursorsInRing,
                 Last, End
    <2>7. StoredIntact'
      BY <1>9 DEF IndInv, CloseDone, Goto, rest, LocalsOK, ReceiverInv, StoredIntact,
                  Uncommitted, SpaceWaits
    <2>6. SleepInv'
      BY <1>9 DEF IndInv, CloseDone, Goto, rest, LocalsOK, SleepInv, wrap, Nobody
    <2> QED
      BY <2>1, <2>2, <2>3, <2>4, <2>5, <2>6, <2>7 DEF IndInv
  <1>10. CASE ClosePcond(R) /\ UNCHANGED rest
    <2>1. TypeOK'
      BY <1>10 DEF IndInv, ClosePcond, Goto, rest, TypeOK, End
    <2>2. LocalsOK'
      BY <1>10 DEF IndInv, ClosePcond, Goto, rest, LocalsOK, ReceiverInv, SpaceWaits, RLabels,
                   Closing
    <2>3. ProcessorInv' /\ PacketBoundary' /\ CommittedIntact'
      BY <1>10, ProcessorFrame, BytesFrame DEF IndInv, ClosePcond, Goto, rest, LocalsOK
    <2>4. CursorsInRing'
      BY <1>10 DEF IndInv, ClosePcond, Goto, rest, CursorsInRing
    <2>5. ReceiverInv'
      BY <1>10 DEF IndInv, ClosePcond, Goto, rest, LocalsOK, ReceiverInv, Uncommitted,
                   SpaceWaits, wrap, CursorsInRing,
                 Last, End
    <2>7. StoredIntact'
      BY <1>10 DEF IndInv, ClosePcond, Goto, rest, LocalsOK, ReceiverInv, StoredIntact,
                   Uncommitted, SpaceWaits
    <2>6. SleepInv'
      BY <1>10 DEF IndInv, ClosePcond, Goto, rest, LocalsOK, SleepInv, wrap, Nobody
    <2> QED
      BY <2>1, <2>2, <2>3, <2>4, <2>5, <2>6, <2>7 DEF IndInv
  <1>11. CASE CloseCcond(R, "ended") /\ UNCHANGED rest
    <2>1. TypeOK'
      BY <1>11 DEF IndInv, CloseCcond, Goto, rest, TypeOK, End
    <2>2. LocalsOK'
      BY <1>11 DEF IndInv, CloseCcond, Goto, rest, LocalsOK, ReceiverInv, SpaceWaits, RLabels,
                   Closing
    <2>3. ProcessorInv' /\ PacketBoundary' /\ CommittedIntact'
      BY <1>11, ProcessorFrame, BytesFrame DEF IndInv, CloseCcond, Goto, rest, LocalsOK
    <2>4. CursorsInRing'
      BY <1>11 DEF IndInv, CloseCcond, Goto, rest, CursorsInRing
    <2>5. ReceiverInv'
      BY <1>11 DEF IndInv, CloseCcond, Goto, rest, LocalsOK, ReceiverInv, Uncommitted,
                   SpaceWaits, wrap, CursorsInRing,
                 Last, End
    <2>7. StoredIntact'
      BY <1>11 DEF IndInv, CloseCcond, Goto, rest, LocalsOK, ReceiverInv, StoredIntact,
                   Uncommitted, SpaceWaits
    <2>6. SleepInv'
      BY <1>11 DEF IndInv, CloseCcond, Goto, rest, LocalsOK, SleepInv, wrap, Nobody
    <2> QED
      BY <2>1, <2>2, <2>3, <2>4, <2>5, <2>6, <2>7 DEF IndInv
  <1> QED
    BY <1>1, <1>2, <1>3, <1>4, <1>5, <1>6, <1>7, <1>8, <1>9, <1>10, <1>11
       DEF waitForWriteSpace, Close

\* Stored puts the new bytes into their slots and leaves the unread ones alone: the
\* room reserved at socket_read keeps them less than a ring apart.
LEMMA StoredFacts ==
  ASSUME IndInv, NEW n \in 1..Block, pc[R] = "socket_read", pseq + n <= Last
  PROVE  /\ Stored(n) \in [0..(Size - 1) -> {Unset} \cup 0..(Last - 1)]
         /\ \A b \in pseq..(pseq + n - 1) : Stored(n)[b % Size] = b
         /\ \A b \in cseq..(pseq - 1) : Stored(n)[b % Size] = buf[b % Size]
  <1> DEFINE New == pseq..(pseq + n - 1)
  <1>0. /\ Size \in Nat \ {0} /\ Block \in 1..Size /\ n \in Nat /\ n >= 1
        /\ pseq \in Nat /\ cseq \in Nat /\ Last \in Nat /\ cseq <= pseq
    BY Numbers DEF IndInv, CursorsInRing
  <1>1. pseq + n <= cseq + Size /\ n <= Size
    BY SMTT(30), Numbers DEF IndInv, ReceiverInv, CursorsInRing
  <1>2. \A b \in Nat : b % Size \in 0..(Size - 1)
    BY SMTT(30), Numbers
  <1>3. \A a, b \in cseq..(pseq + n - 1) : a % Size = b % Size => a = b
    <2> SUFFICES ASSUME NEW a \in cseq..(pseq + n - 1), NEW b \in cseq..(pseq + n - 1), a # b
                 PROVE  a % Size # b % Size
      OBVIOUS
    <2>1. a \in Nat /\ b \in Nat /\ a < b + Size /\ b < a + Size
      BY <1>0, <1>1
    <2>2. CASE a < b
      BY <1>0, <2>1, <2>2, SlotsDiffer
    <2>3. CASE b < a
      BY <1>0, <2>1, <2>3, SlotsDiffer
    <2> QED
      BY <2>1, <2>2, <2>3
  <1>5. \A b \in New : b \in cseq..(pseq + n - 1) /\ b \in 0..(Last - 1) /\ b \in Nat
    BY <1>0
  <1>6. ASSUME NEW b \in New
        PROVE  Stored(n)[b % Size] = b
    <2>1. b % Size \in 0..(Size - 1)
      BY <1>2, <1>5
    <2>2. (CHOOSE x \in New : x % Size = b % Size) = b
      BY <1>3, <1>5
    <2> QED
      BY <2>1, <2>2 DEF Stored
  <1>7. ASSUME NEW b \in cseq..(pseq - 1)
        PROVE  Stored(n)[b % Size] = buf[b % Size]
    <2>1. b \in Nat /\ b % Size \in 0..(Size - 1) /\ b \in cseq..(pseq + n - 1) /\ b \notin New
      BY <1>0, <1>2
    <2>2. ~ \E x \in New : x % Size = b % Size
      BY <2>1, <1>3, <1>5
    <2> QED
      BY <2>1, <2>2 DEF Stored
  <1>8. Stored(n) \in [0..(Size - 1) -> {Unset} \cup 0..(Last - 1)]
    <2> SUFFICES ASSUME NEW i \in 0..(Size - 1)
                 PROVE  Stored(n)[i] \in {Unset} \cup 0..(Last - 1)
      BY DEF Stored
    <2>1. CASE \E b \in New : b % Size = i
      <3>1. PICK b \in New : b % Size = i
        BY <2>1
      <3> QED
        BY <3>1, <1>5, <1>6
    <2>2. CASE ~ \E b \in New : b % Size = i
      <3>1. buf[i] \in {Unset} \cup 0..(Last - 1)
        BY DEF IndInv, TypeOK, Last
      <3> QED
        BY <2>2, <3>1 DEF Stored
    <2> QED
      BY <2>1, <2>2
  <1> QED
    BY <1>6, <1>7, <1>8

\* r.Read stores into the room that was reserved.
LEMMA SocketReadStep ==
  ASSUME IndInv, SocketRead
  PROVE  IndInv'
  <1> USE Numbers
  <1>1. PICK n \in 1..Block :
          /\ pseq + n <= Last
          /\ Goto(R, "socket_read", "waitForWriteSpace")
          /\ buf' = Stored(n)
          /\ req' = [req EXCEPT ![R] = n]
          /\ ok' = [ok EXCEPT ![R] = "commit_set"]
          /\ UNCHANGED <<pseq, cseq, gate, done, pmutex, cmutex, pwaiters, cwaiters, ppos, rest>>
    BY DEF SocketRead, Last
  <1>2. pc[R] = "socket_read" /\ pc' = [pc EXCEPT ![R] = "waitForWriteSpace"]
    BY <1>1 DEF Goto
  <1>3. /\ pc'[R] = "waitForWriteSpace" /\ pc'[P] = pc[P] /\ req'[R] = n /\ req'[P] = req[P]
        /\ ok'[R] = "commit_set" /\ ok'[P] = ok[P]
    BY <1>1, <1>2 DEF IndInv, LocalsOK
  <1>4. Last' = Last
    BY <1>1 DEF Last, End, rest
  <1>5. TypeOK'
    BY <1>1, <1>2, StoredFacts DEF IndInv, TypeOK, Last, End, rest
  <1>6. LocalsOK'
    BY <1>1, <1>2 DEF IndInv, LocalsOK, SpaceWaits, RLabels, rest
  <1>7. ProcessorInv' /\ PacketBoundary'
    BY <1>1, <1>3, ProcessorFrame DEF rest
  <1>8. CursorsInRing'
    BY <1>1 DEF IndInv, CursorsInRing
  <1>9. ReceiverInv'
    BY SMTT(30), <1>1, <1>2, <1>3, <1>4 DEF IndInv, ReceiverInv, Uncommitted, SpaceWaits
  <1>10. StoredIntact' /\ CommittedIntact'
    BY <1>1, <1>2, <1>3, StoredFacts DEF IndInv, StoredIntact, CommittedIntact
  <1>11. SleepInv'
    BY <1>1, <1>2, <1>3 DEF IndInv, SleepInv
  <1> QED
    BY <1>5, <1>6, <1>7, <1>8, <1>9, <1>10, <1>11 DEF IndInv

\* WriteCommit moves pseq over the bytes that were stored.
LEMMA CommitStep ==
  ASSUME IndInv, CommitSet(R), UNCHANGED rest
  PROVE  IndInv'
  <1> USE Numbers
  <1>1. /\ pc[R] = "commit_set" /\ pc' = [pc EXCEPT ![R] = "commit_broadcast"]
        /\ pseq' = pseq + req[R]
        /\ UNCHANGED <<cseq, gate, done, buf, pmutex, cmutex, pwaiters, cwaiters, req, ok, ppos>>
    BY DEF CommitSet, Goto
  <1>2. pc'[R] = "commit_broadcast" /\ pc'[P] = pc[P]
    BY <1>1 DEF IndInv, LocalsOK
  <1>3. /\ req[R] \in 1..Block /\ pseq + req[R] <= gate + Size /\ pseq + req[R] <= Last
        /\ \A b \in pseq..(pseq + req[R] - 1) : buf[b % Size] = b
    BY <1>1 DEF IndInv, ReceiverInv, StoredIntact, Uncommitted
  <1>4. pseq' \in Nat /\ pseq <= pseq' /\ pseq' \in 0..Last
    BY SMTT(30), <1>1, <1>3
  <1>5. TypeOK'
    BY <1>1, <1>4 DEF IndInv, TypeOK, Last, End, rest
  <1>6. LocalsOK'
    BY <1>1 DEF IndInv, LocalsOK, RLabels, rest
  <1>7. ProcessorInv' /\ PacketBoundary'
    BY <1>1, <1>2, <1>4, ProcessorFrame DEF rest
  <1>8. CursorsInRing'
    BY SMTT(30), <1>1, <1>3 DEF IndInv, CursorsInRing
  <1>9. ReceiverInv' /\ StoredIntact'
    BY <1>2 DEF ReceiverInv, StoredIntact, Uncommitted, SpaceWaits
  <1>10. CommittedIntact'
    <2> SUFFICES ASSUME NEW b \in cseq..(pseq + req[R] - 1)
                 PROVE  buf[b % Size] = b
      BY SMTT(30), <1>1 DEF CommittedIntact
    <2>1. b \in cseq..(pseq - 1) \/ b \in pseq..(pseq + req[R] - 1)
      BY <1>3
    <2> QED
      BY <2>1, <1>3 DEF IndInv, CommittedIntact
  <1>11. SleepInv'
    BY <1>1, <1>2, <1>3 DEF IndInv, SleepInv
  <1> QED
    BY <1>5, <1>6, <1>7, <1>8, <1>9, <1>10, <1>11 DEF IndInv

\* The processor's steps that leave cseq alone.
LEMMA ProcessorLocalStep ==
  ASSUME IndInv,
         \/ NextPacket \/ PeekMessage \/ ProcessFails \/ Stop \/ StopWait \/ ProcessorInBuffer
  PROVE  IndInv'
  <1> USE Numbers
  <1>1. CASE NextPacket
    <2>1. TypeOK'
      BY <1>1 DEF IndInv, NextPacket, Goto, rest, Call, TypeOK, End
    <2>2. \/ pc' = [pc EXCEPT ![P] = "stop"] /\ UNCHANGED <<req, ok>>
          \/ /\ pc' = [pc EXCEPT ![P] = "waitForData"]
             /\ req' = [req EXCEPT ![P] = 2] /\ ok' = [ok EXCEPT ![P] = "peek_size"]
      BY <1>1 DEF NextPacket, Goto, Call
    <2>3. /\ UNCHANGED <<pseq, cseq, gate, done, buf, pmutex, cmutex, pwaiters, cwaiters, ppos>>
          /\ UNCHANGED <<packets, np>>
          /\ pc[P] = "next_packet"
      BY <1>1 DEF NextPacket, Goto, Call, rest
    <2>4. LocalsOK'
      <3>1. CASE pc' = [pc EXCEPT ![P] = "stop"] /\ UNCHANGED <<req, ok>>
        BY <3>1, <2>3 DEF IndInv, LocalsOK, PLabels
      <3>2. CASE /\ pc' = [pc EXCEPT ![P] = "waitForData"]
                 /\ req' = [req EXCEPT ![P] = 2] /\ ok' = [ok EXCEPT ![P] = "peek_size"]
        BY <3>2, <2>3 DEF IndInv, LocalsOK, PLabels, DataWaits
      <3> QED
        BY <2>2, <3>1, <3>2
    <2>5. ReceiverInv' /\ StoredIntact' /\ CommittedIntact'
      BY <2>2, <2>3, ReceiverFrame, BytesFrame DEF IndInv, LocalsOK
    <2>6. CursorsInRing' /\ PacketBoundary'
      BY <2>3 DEF IndInv, CursorsInRing, PacketBoundary, End
    <2>7. ProcessorInv'
      <3>1. \/ pc'[P] = "stop"
            \/ pc'[P] = "waitForData" /\ req'[P] = 2 /\ ok'[P] = "peek_size"
        <4>1. DOMAIN pc = Threads /\ DOMAIN req = Threads /\ DOMAIN ok = Threads /\ P \in Threads
          BY DEF IndInv, LocalsOK
        <4> QED
          BY <2>2, <4>1
      <3>2. ppos' <= pseq'
        BY <2>3 DEF IndInv, ProcessorInv
      <3> QED
        BY SMTT(30), <3>1, <3>2 DEF ProcessorInv, DataWaits
    <2>8. SleepInv'
      BY <2>2, <2>3 DEF IndInv, LocalsOK, SleepInv, wrap
    <2> QED
      BY <2>1, <2>4, <2>5, <2>6, <2>7, <2>8 DEF IndInv
  <1>2. CASE PeekMessage
    <2>1. /\ pc[P] = "peek_size" /\ req[P] \in 2..5 /\ cseq + req[P] <= pseq
          /\ UNCHANGED <<pseq, cseq, gate, done, buf, pmutex, cmutex, pwaiters, cwaiters, ppos,
                         packets, np, faulty, connClosed>>
      BY <1>2 DEF IndInv, ProcessorInv, PeekMessage, Goto, Call, rest
    <2>2. np < Len(packets)
      <3>1. np \in 0..Len(packets) /\ pseq <= End(Len(packets)) /\ cseq = End(np)
        BY DEF IndInv, PacketBoundary, TypeOK
      <3>2. pseq \in Nat /\ cseq \in Nat /\ Len(packets) \in Nat
        BY Numbers
      <3>3. cseq < pseq
        BY SMTT(30), <2>1, <3>2
      <3>4. np # Len(packets)
        BY <3>1, <3>2, <3>3
      <3> QED
        BY <3>1, <3>2, <3>4
    <2>3. hdr \in Nat \ {0, 1} /\ total \in Nat
      BY <2>2, NextPacketFacts
    <2>4. \/ pc' = [pc EXCEPT ![P] = "stop"] /\ UNCHANGED <<req, ok>>
          \/ /\ pc' = [pc EXCEPT ![P] = "waitForData"]
             /\ req' = [req EXCEPT ![P] = req[P] + 1] /\ ok' = [ok EXCEPT ![P] = "peek_size"]
             /\ req[P] # 5
          \/ /\ pc' = [pc EXCEPT ![P] = "waitForData"]
             /\ req' = [req EXCEPT ![P] = total] /\ ok' = [ok EXCEPT ![P] = "process"]
             /\ ~Refused
      BY <1>2 DEF PeekMessage, Goto, Call
    <2>5. TypeOK'
      BY <2>1 DEF IndInv, TypeOK, End
    <2>6. LocalsOK'
      <3>1. CASE pc' = [pc EXCEPT ![P] = "stop"] /\ UNCHANGED <<req, ok>>
        BY <3>1, <2>1 DEF IndInv, LocalsOK, PLabels
      <3>2. CASE /\ pc' = [pc EXCEPT ![P] = "waitForData"]
                 /\ req' = [req EXCEPT ![P] = req[P] + 1] /\ ok' = [ok EXCEPT ![P] = "peek_size"]
        BY <3>2, <2>1 DEF IndInv, LocalsOK, PLabels, DataWaits
      <3>3. CASE /\ pc' = [pc EXCEPT ![P] = "waitForData"]
                 /\ req' = [req EXCEPT ![P] = total] /\ ok' = [ok EXCEPT ![P] = "process"]
        BY <3>3, <2>1, <2>3 DEF IndInv, LocalsOK, PLabels, DataWaits
      <3> QED
        BY <2>4, <3>1, <3>2, <3>3
    <2>7. ReceiverInv' /\ StoredIntact' /\ CommittedIntact'
      BY SMTT(30), <2>1, <2>4, ReceiverFrame, BytesFrame DEF IndInv, LocalsOK
    <2>8. CursorsInRing' /\ PacketBoundary'
      BY <2>1 DEF IndInv, CursorsInRing, PacketBoundary, End
    <2>9. ProcessorInv'
      <3>1. hdr' = hdr /\ total' = total /\ (Refused' <=> Refused) /\ ppos' <= pseq'
        BY <2>1 DEF hdr, total, Refused, IndInv, ProcessorInv
      <3>2. \/ pc'[P] = "stop"
            \/ pc'[P] = "waitForData" /\ req'[P] \in 2..5 /\ ok'[P] = "peek_size"
            \/ pc'[P] = "waitForData" /\ req'[P] = total /\ ok'[P] = "process" /\ ~Refused
        BY SMTT(30), <2>1, <2>4 DEF IndInv, LocalsOK
      <3> QED
        BY <3>1, <3>2, <2>1, <2>2 DEF ProcessorInv, DataWaits
    <2>10. SleepInv'
      BY <2>1, <2>4 DEF IndInv, LocalsOK, SleepInv, wrap
    <2> QED
      BY <2>5, <2>6, <2>7, <2>8, <2>9, <2>10 DEF IndInv
  <1>3. CASE ProcessFails
    <2>1. TypeOK'
      BY <1>3 DEF IndInv, ProcessFails, Goto, rest, TypeOK, ProcessorInv, End
    <2>2. LocalsOK'
      BY <1>3 DEF IndInv, ProcessFails, Goto, rest, LocalsOK, ProcessorInv, DataWaits,
                  PLabels, Closing
    <2>3. ReceiverInv' /\ StoredIntact' /\ CommittedIntact'
      BY <1>3, ReceiverFrame, BytesFrame DEF IndInv, ProcessFails, Goto, rest, LocalsOK
    <2>4. CursorsInRing' /\ PacketBoundary'
      BY <1>3 DEF IndInv, ProcessFails, Goto, rest, CursorsInRing, PacketBoundary, End
    <2>5. ProcessorInv'
      BY <1>3, NextPacketFacts DEF IndInv, ProcessFails, Goto, rest, LocalsOK, ProcessorInv,
                                   DataWaits, total, hdr, Refused
    <2>6. SleepInv'
      BY <1>3 DEF IndInv, ProcessFails, Goto, rest, LocalsOK, SleepInv, wrap, Nobody
    <2> QED
      BY <2>1, <2>2, <2>3, <2>4, <2>5, <2>6 DEF IndInv
  <1>4. CASE Stop
    <2>1. TypeOK'
      BY <1>4 DEF IndInv, Stop, Goto, rest, TypeOK, ProcessorInv, End
    <2>2. LocalsOK'
      BY <1>4 DEF IndInv, Stop, Goto, rest, LocalsOK, ProcessorInv, DataWaits, PLabels,
                  Closing
    <2>3. ReceiverInv' /\ StoredIntact' /\ CommittedIntact'
      BY <1>4, ReceiverFrame, BytesFrame DEF IndInv, Stop, Goto, rest, LocalsOK
    <2>4. CursorsInRing' /\ PacketBoundary'
      BY <1>4 DEF IndInv, Stop, Goto, rest, CursorsInRing, PacketBoundary, End
    <2>5. ProcessorInv'
      BY <1>4, NextPacketFacts DEF IndInv, Stop, Goto, rest, LocalsOK, ProcessorInv,
                                   DataWaits, total, hdr, Refused
    <2>6. SleepInv'
      BY <1>4 DEF IndInv, Stop, Goto, rest, LocalsOK, SleepInv, wrap, Nobody
    <2> QED
      BY <2>1, <2>2, <2>3, <2>4, <2>5, <2>6 DEF IndInv
  <1>5. CASE StopWait
    <2>1. TypeOK'
      BY <1>5 DEF IndInv, StopWait, Goto, rest, TypeOK, ProcessorInv, End
    <2>2. LocalsOK'
      BY <1>5 DEF IndInv, StopWait, Goto, rest, LocalsOK, ProcessorInv, DataWaits, PLabels,
                  Closing
    <2>3. ReceiverInv' /\ StoredIntact' /\ CommittedIntact'
      BY <1>5, ReceiverFrame, BytesFrame DEF IndInv, StopWait, Goto, rest, LocalsOK
    <2>4. CursorsInRing' /\ PacketBoundary'
      BY <1>5 DEF IndInv, StopWait, Goto, rest, CursorsInRing, PacketBoundary, End
    <2>5. ProcessorInv'
      BY <1>5, NextPacketFacts DEF IndInv, StopWait, Goto, rest, LocalsOK, ProcessorInv,
                                   DataWaits, total, hdr, Refused
    <2>6. SleepInv'
      BY <1>5 DEF IndInv, StopWait, Goto, rest, LocalsOK, SleepInv, wrap, Nobody
    <2> QED
      BY <2>1, <2>2, <2>3, <2>4, <2>5, <2>6 DEF IndInv
  <1>6. CASE DataEnter(P) /\ UNCHANGED rest
    <2>1. TypeOK'
      BY <1>6 DEF IndInv, DataEnter, Goto, rest, TypeOK, ProcessorInv, End
    <2>2. LocalsOK'
      BY <1>6 DEF IndInv, DataEnter, Goto, rest, LocalsOK, ProcessorInv, DataWaits, PLabels,
                  Closing
    <2>3. ReceiverInv' /\ StoredIntact' /\ CommittedIntact'
      BY <1>6, ReceiverFrame, BytesFrame DEF IndInv, DataEnter, Goto, rest, LocalsOK
    <2>4. CursorsInRing' /\ PacketBoundary'
      BY <1>6 DEF IndInv, DataEnter, Goto, rest, CursorsInRing, PacketBoundary, End
    <2>5. ProcessorInv'
      BY <1>6, NextPacketFacts DEF IndInv, DataEnter, Goto, rest, LocalsOK, ProcessorInv,
                                   DataWaits, total, hdr, Refused
    <2>6. SleepInv'
      BY <1>6 DEF IndInv, DataEnter, Goto, rest, LocalsOK, SleepInv, wrap, Nobody
    <2> QED
      BY <2>1, <2>2, <2>3, <2>4, <2>5, <2>6 DEF IndInv
  <1>7. CASE DataLock(P) /\ UNCHANGED rest
    <2>1. TypeOK'
      BY <1>7 DEF IndInv, DataLock, Goto, rest, TypeOK, ProcessorInv, End
    <2>2. LocalsOK'
      BY <1>7 DEF IndInv, DataLock, Goto, rest, LocalsOK, ProcessorInv, DataWaits, PLabels,
                  Closing
    <2>3. ReceiverInv' /\ StoredIntact' /\ CommittedIntact'
      BY <1>7, ReceiverFrame, BytesFrame DEF IndInv, DataLock, Goto, rest, LocalsOK
    <2>4. CursorsInRing' /\ PacketBoundary'
      BY <1>7 DEF IndInv, DataLock, Goto, rest, CursorsInRing, PacketBoundary, End
    <2>5. ProcessorInv'
      BY SMTT(30), <1>7, NextPacketFacts DEF IndInv, DataLock, Goto, rest, LocalsOK, ProcessorInv,
                                   DataWaits, total, hdr, Refused
    <2>6. SleepInv'
      BY <1>7 DEF IndInv, DataLock, Goto, rest, LocalsOK, SleepInv, wrap, Nobody
    <2> QED
      BY <2>1, <2>2, <2>3, <2>4, <2>5, <2>6 DEF IndInv
  <1>8. CASE DataTest(P, req[P]) /\ UNCHANGED rest
    <2>1. TypeOK'
      BY <1>8 DEF IndInv, DataTest, Goto, rest, TypeOK, ProcessorInv, End
    <2>2. LocalsOK'
      BY <1>8 DEF IndInv, DataTest, Goto, rest, LocalsOK, ProcessorInv, DataWaits, PLabels,
                  Closing
    <2>3. ReceiverInv' /\ StoredIntact' /\ CommittedIntact'
      BY <1>8, ReceiverFrame, BytesFrame DEF IndInv, DataTest, Goto, rest, LocalsOK
    <2>4. CursorsInRing' /\ PacketBoundary'
      BY <1>8 DEF IndInv, DataTest, Goto, rest, CursorsInRing, PacketBoundary, End
    <2>5. ProcessorInv'
      <3>1. /\ hdr' = hdr /\ total' = total /\ (Refused' <=> Refused)
            /\ ppos' <= pseq' /\ np' = np /\ packets' = packets
        BY <1>8 DEF DataTest, rest, hdr, total, Refused, IndInv, ProcessorInv
      <3>2. \/ pc'[P] = "data_done" /\ pc[P] = "data_test"
            \/ pc'[P] = ok[P] /\ cseq + req[P] <= pseq /\ pc[P] = "data_test"
        BY <1>8 DEF DataTest, Goto, IndInv, LocalsOK, ProcessorInv
      <3>3. cseq' = cseq /\ pseq' = pseq /\ req' = req /\ ok' = ok
        BY <1>8 DEF DataTest
      <3> QED
        BY <3>1, <3>2, <3>3 DEF IndInv, ProcessorInv, DataWaits
    <2>6. SleepInv'
      BY <1>8 DEF IndInv, DataTest, Goto, rest, LocalsOK, SleepInv, wrap, Nobody
    <2> QED
      BY <2>1, <2>2, <2>3, <2>4, <2>5, <2>6 DEF IndInv
  <1>9. CASE DataDone(P, "stop") /\ UNCHANGED rest
    <2>1. TypeOK'
      BY <1>9 DEF IndInv, DataDone, Goto, rest, TypeOK, ProcessorInv, End
    <2>2. LocalsOK'
      BY <1>9 DEF IndInv, DataDone, Goto, rest, LocalsOK, ProcessorInv, DataWaits, PLabels,
                  Closing
    <2>3. ReceiverInv' /\ StoredIntact' /\ CommittedIntact'
      BY <1>9, ReceiverFrame, BytesFrame DEF IndInv, DataDone, Goto, rest, LocalsOK
    <2>4. CursorsInRing' /\ PacketBoundary'
      BY <1>9 DEF IndInv, DataDone, Goto, rest, CursorsInRing, PacketBoundary, End
    <2>5. ProcessorInv'
      BY <1>9, NextPacketFacts DEF IndInv, DataDone, Goto, rest, LocalsOK, ProcessorInv,
                                   DataWaits, total, hdr, Refused
    <2>6. SleepInv'
      BY <1>9 DEF IndInv, DataDone, Goto, rest, LocalsOK, SleepInv, wrap, Nobody
    <2> QED
      BY <2>1, <2>2, <2>3, <2>4, <2>5, <2>6 DEF IndInv
  <1>10. CASE DataSleep(P) /\ UNCHANGED rest
    <2>1. TypeOK'
      BY <1>10 DEF IndInv, DataSleep, Goto, rest, TypeOK, ProcessorInv, End
    <2>2. LocalsOK'
      BY <1>10 DEF IndInv, DataSleep, Goto, rest, LocalsOK, ProcessorInv, DataWaits, PLabels,
                   Closing
    <2>3. ReceiverInv' /\ StoredIntact' /\ CommittedIntact'
      BY <1>10, ReceiverFrame, BytesFrame DEF IndInv, DataSleep, Goto, rest, LocalsOK
    <2>4. CursorsInRing' /\ PacketBoundary'
      BY <1>10 DEF IndInv, DataSleep, Goto, rest, CursorsInRing, PacketBoundary, End
    <2>5. ProcessorInv'
      BY <1>10, NextPacketFacts DEF IndInv, DataSleep, Goto, rest, LocalsOK, ProcessorInv,
                                    DataWaits, total, hdr, Refused
    <2>6. SleepInv'
      BY <1>10 DEF IndInv, DataSleep, Goto, rest, LocalsOK, SleepInv, wrap, Nobody
    <2> QED
      BY <2>1, <2>2, <2>3, <2>4, <2>5, <2>6 DEF IndInv
  <1>11. CASE ReadCommitBroadcast(P, "next_packet") /\ UNCHANGED rest
    <2>1. TypeOK'
      BY <1>11 DEF IndInv, ReadCommitBroadcast, Goto, rest, TypeOK, ProcessorInv, End
    <2>2. LocalsOK'
      BY <1>11 DEF IndInv, ReadCommitBroadcast, Goto, rest, LocalsOK, ProcessorInv, DataWaits,
                   PLabels, Closing
    <2>3. ReceiverInv' /\ StoredIntact' /\ CommittedIntact'
      BY <1>11, ReceiverFrame, BytesFrame DEF IndInv, ReadCommitBroadcast, Goto, rest,
                                              LocalsOK
    <2>4. CursorsInRing' /\ PacketBoundary'
      BY <1>11 DEF IndInv, ReadCommitBroadcast, Goto, rest, CursorsInRing, PacketBoundary, End
    <2>5. ProcessorInv'
      BY <1>11, NextPacketFacts DEF IndInv, ReadCommitBroadcast, Goto, rest, LocalsOK,
                                    ProcessorInv, DataWaits, total, hdr, Refused
    <2>6. SleepInv'
      BY <1>11 DEF IndInv, ReadCommitBroadcast, Goto, rest, LocalsOK, SleepInv, wrap, Nobody,
                   R
    <2> QED
      BY <2>1, <2>2, <2>3, <2>4, <2>5, <2>6 DEF IndInv
  <1>12. CASE CloseDone(P) /\ UNCHANGED rest
    <2>1. TypeOK'
      BY <1>12 DEF IndInv, CloseDone, Goto, rest, TypeOK, ProcessorInv, End
    <2>2. LocalsOK'
      BY <1>12 DEF IndInv, CloseDone, Goto, rest, LocalsOK, ProcessorInv, DataWaits, PLabels,
                   Closing
    <2>3. ReceiverInv' /\ StoredIntact' /\ CommittedIntact'
      BY <1>12, ReceiverFrame, BytesFrame DEF IndInv, CloseDone, Goto, rest, LocalsOK
    <2>4. CursorsInRing' /\ PacketBoundary'
      BY <1>12 DEF IndInv, CloseDone, Goto, rest, CursorsInRing, PacketBoundary, End
    <2>5. ProcessorInv'
      BY <1>12, NextPacketFacts DEF IndInv, CloseDone, Goto, rest, LocalsOK, ProcessorInv,
                                    DataWaits, total, hdr, Refused
    <2>6. SleepInv'
      BY <1>12 DEF IndInv, CloseDone, Goto, rest, LocalsOK, SleepInv, wrap, Nobody
    <2> QED
      BY <2>1, <2>2, <2>3, <2>4, <2>5, <2>6 DEF IndInv
  <1>13. CASE ClosePcond(P) /\ UNCHANGED rest
    <2>1. TypeOK'
      BY <1>13 DEF IndInv, ClosePcond, Goto, rest, TypeOK, ProcessorInv, End
    <2>2. LocalsOK'
      BY <1>13 DEF IndInv, ClosePcond, Goto, rest, LocalsOK, ProcessorInv, DataWaits, PLabels,
                   Closing
    <2>3. ReceiverInv' /\ StoredIntact' /\ CommittedIntact'
      BY <1>13, ReceiverFrame, BytesFrame DEF IndInv, ClosePcond, Goto, rest, LocalsOK
    <2>4. CursorsInRing' /\ PacketBoundary'
      BY <1>13 DEF IndInv, ClosePcond, Goto, rest, CursorsInRing, PacketBoundary, End
    <2>5. ProcessorInv'
      BY <1>13, NextPacketFacts DEF IndInv, ClosePcond, Goto, rest, LocalsOK, ProcessorInv,
                                    DataWaits, total, hdr, Refused
    <2>6. SleepInv'
      BY <1>13 DEF IndInv, ClosePcond, Goto, rest, LocalsOK, SleepInv, wrap, Nobody
    <2> QED
      BY <2>1, <2>2, <2>3, <2>4, <2>5, <2>6 DEF IndInv
  <1>14. CASE CloseCcond(P, "stop_wait") /\ UNCHANGED rest
    <2>1. TypeOK'
      BY <1>14 DEF IndInv, CloseCcond, Goto, rest, TypeOK, ProcessorInv, End
    <2>2. LocalsOK'
      BY <1>14 DEF IndInv, CloseCcond, Goto, rest, LocalsOK, ProcessorInv, DataWaits, PLabels,
                   Closing
    <2>3. ReceiverInv' /\ StoredIntact' /\ CommittedIntact'
      BY <1>14, ReceiverFrame, BytesFrame DEF IndInv, CloseCcond, Goto, rest, LocalsOK
    <2>4. CursorsInRing' /\ PacketBoundary'
      BY <1>14 DEF IndInv, CloseCcond, Goto, rest, CursorsInRing, PacketBoundary, End
    <2>5. ProcessorInv'
      BY <1>14, NextPacketFacts DEF IndInv, CloseCcond, Goto, rest, LocalsOK, ProcessorInv,
                                    DataWaits, total, hdr, Refused
    <2>6. SleepInv'
      BY <1>14 DEF IndInv, CloseCcond, Goto, rest, LocalsOK, SleepInv, wrap, Nobody
    <2> QED
      BY <2>1, <2>2, <2>3, <2>4, <2>5, <2>6 DEF IndInv
  <1> QED
    BY <1>1, <1>2, <1>3, <1>4, <1>5, <1>6, <1>7, <1>8, <1>9, <1>10, <1>11, <1>12, <1>13, <1>14
       DEF ProcessorInBuffer, waitForData, Close

\* ReadCommit moves cseq to the end of the packet.
LEMMA ReadCommitStep ==
  ASSUME IndInv, ProcessIncoming
  PROVE  IndInv'
  <1> USE Numbers
  <1>1. /\ pc[P] = "process" /\ pc' = [pc EXCEPT ![P] = "readcommit_broadcast"]
        /\ cseq + total <= pseq
        /\ cseq' = cseq + total
        /\ np' = np + 1
        /\ UNCHANGED <<pseq, gate, done, buf, pmutex, cmutex, pwaiters, cwaiters, req, ok, ppos,
                       packets, faulty, connClosed>>
    BY DEF ProcessIncoming, ReadCommit, Goto
  <1>2. pc'[P] = "readcommit_broadcast" /\ pc'[R] = pc[R]
    BY <1>1 DEF IndInv, LocalsOK
  <1>3. /\ np < Len(packets) /\ total \in Nat /\ cseq' = End(np + 1)
        /\ np + 1 \in 0..Len(packets)
    BY <1>1, NextPacketFacts DEF IndInv, ProcessorInv
  <1>4. cseq' \in Nat /\ cseq <= cseq' /\ cseq' <= pseq
    BY SMTT(30), <1>1, <1>3
  <1>5. TypeOK'
    <2>1. cseq' \in 0..Last
      BY <1>4 DEF IndInv, TypeOK, Last
    <2> QED
      BY <2>1, <1>1, <1>3 DEF IndInv, TypeOK, Last, End
  <1>6. LocalsOK'
    BY <1>1 DEF IndInv, LocalsOK, PLabels
  <1>7. ReceiverInv' /\ StoredIntact'
    BY <1>1, <1>2, ReceiverFrame
  <1>8. CommittedIntact'
    BY <1>1, <1>4, BytesFrame
  <1>9. CursorsInRing'
    BY SMTT(30), <1>1, <1>4 DEF IndInv, CursorsInRing
  <1>10. PacketBoundary'
    BY <1>1, <1>3 DEF PacketBoundary, End
  <1>11. ProcessorInv'
    BY <1>1, <1>2 DEF IndInv, ProcessorInv, DataWaits
  <1>12. SleepInv'
    BY <1>1, <1>2 DEF IndInv, SleepInv
  <1> QED
    BY <1>5, <1>6, <1>7, <1>8, <1>9, <1>10, <1>11, <1>12 DEF IndInv

\* Every step of the receiver and of the processor preserves the invariant.
LEMMA NextIndInv == IndInv /\ [Next]_vars => IndInv'
  <1> SUFFICES ASSUME IndInv, [Next]_vars PROVE IndInv'
    OBVIOUS
  <1>1. CASE Receiver
    BY <1>1, ReceiverLocalStep, SocketReadStep, CommitStep DEF Receiver, ReceiverInBuffer
  <1>2. CASE Processor
    BY <1>2, ProcessorLocalStep, ReadCommitStep DEF Processor
  <1>3. CASE UNCHANGED vars
    <2>1. TypeOK' /\ LocalsOK'
      BY <1>3 DEF vars, bufVars, IndInv, TypeOK, LocalsOK, End
    <2>2. CursorsInRing' /\ PacketBoundary' /\ ReceiverInv' /\ StoredIntact' /\ CommittedIntact'
      BY <1>3, ReceiverFrame DEF vars, bufVars, IndInv, CursorsInRing, PacketBoundary,
                                 CommittedIntact, End
    <2>3. ProcessorInv' /\ SleepInv'
      BY <1>3, ProcessorFrame, Numbers DEF vars, bufVars, IndInv, SleepInv, wrap
    <2> QED
      BY <2>1, <2>2, <2>3 DEF IndInv
  <1> QED
    BY <1>1, <1>2, <1>3 DEF Next

\* The inductive invariant holds in every state of the connection.
LEMMA Invariance == Spec => []IndInv
  BY InitIndInv, NextIndInv, PTL DEF Spec

-----------------------------------------------------------------------------
\* The cursors, flags and slots of buffer.go keep their types, for every stream.
THEOREM TypeCorrect == Spec => []TypeOK
  <1>1. IndInv => TypeOK
    BY DEF IndInv
  <1> QED
    BY <1>1, Invariance, PTL

\* The producer never laps the consumer, though it trusts a cached copy of cseq.
THEOREM CursorsCorrect == Spec => []CursorsInRing
  <1>1. IndInv => CursorsInRing
    BY DEF IndInv
  <1> QED
    BY <1>1, Invariance, PTL

\* No committed byte is overwritten before it is read, and what processIncoming is
\* given is the whole packet, for every ring, block size and split of the stream.
THEOREM BytesCorrect == Spec => []UnreadIntact
  <1>1. IndInv => UnreadIntact
    <2> SUFFICES ASSUME IndInv PROVE UnreadIntact
      OBVIOUS
    <2>1. \A b \in cseq..(pseq - 1) : buf[b % Size] = b
      BY DEF IndInv, CommittedIntact
    <2>2. pc[P] = "process" => End(np + 1) <= pseq
      BY NextPacketFacts DEF IndInv, ProcessorInv
    <2> QED
      BY <2>1, <2>2 DEF UnreadIntact
  <1> QED
    BY <1>1, Invariance, PTL

\* The read cursor is always at the start of a packet.
THEOREM BoundaryCorrect == Spec => []PacketBoundary
  <1>1. IndInv => PacketBoundary
    BY DEF IndInv
  <1> QED
    BY <1>1, Invariance, PTL

\* The packets processor accepts leave room for a block beside them, as do the five
\* bytes of the longest header.
RoomBeside ==
  /\ Block + 4 <= Size
  /\ \A s \in Streams : \A i \in 1..Len(s) :
       LET len == s[i].end - (IF i = 1 THEN 0 ELSE s[i - 1].end) IN
       s[i].hdr > 5 \/ len > MaxPacketSize \/ len > Size \/ len <= Size - Block + 1

\* Receiver and processor never wait for each other, where every accepted packet
\* leaves room for one read block: ReadFrom asks for a whole block of space, so a
\* longer packet could never be completed.
THEOREM NoMutualWait ==
  ASSUME RoomBeside
  PROVE  Spec => []NeverBothWait
  <1>1. IndInv => NeverBothWait
    <2> SUFFICES ASSUME IndInv, R \in pwaiters, P \in cwaiters, pseq < cseq + req[P]
                 PROVE  FALSE
      BY DEF NeverBothWait
    <2>1. pc[R] = "space_asleep" /\ pc[P] = "data_asleep" /\ wrap(R) > cseq
      BY DEF IndInv, SleepInv
    <2>2. req[R] <= Block
      BY <2>1, Numbers DEF IndInv, ReceiverInv, SpaceWaits
    <2>3. pseq + Block > cseq + Size
      BY SMTT(30), <2>1, <2>2, Numbers DEF wrap
    <2>4. req[P] <= Size - Block + 1
      <3>1. CASE ok[P] = "peek_size"
        <4>1. req[P] \in 2..5
          BY <2>1, <3>1 DEF IndInv, ProcessorInv, DataWaits
        <4>2. Block + 4 <= Size /\ Block \in Nat /\ Size \in Nat
          BY Numbers DEF RoomBeside
        <4> QED
          BY <4>1, <4>2
      <3>2. CASE ok[P] = "process"
        <4>1. np < Len(packets) /\ req[P] = total /\ ~Refused
          BY <2>1, <3>2 DEF IndInv, ProcessorInv, DataWaits
        <4>2. np + 1 \in 1..Len(packets) /\ packets \in Streams
          BY <4>1, Numbers DEF IndInv, LocalsOK
        <4>3. cseq = IF np + 1 = 1 THEN 0 ELSE packets[(np + 1) - 1].end
          BY SMTT(30), Numbers DEF IndInv, PacketBoundary, End
        <4>4. \/ packets[np + 1].hdr > 5 \/ total > MaxPacketSize \/ total > Size
              \/ total <= Size - Block + 1
          BY <4>2, <4>3 DEF RoomBeside, total
        <4> QED
          BY <4>1, <4>4 DEF Refused, hdr
      <3> QED
        BY <2>1, <3>1, <3>2 DEF IndInv, ProcessorInv, DataWaits
    <2> QED
      BY SMTT(30), <2>3, <2>4, Numbers
  <1> QED
    BY <1>1, Invariance, PTL


-----------------------------------------------------------------------------
(* The refinement of BytePipe.                                             *)

\* What processIncoming is given was not refused by peekMessageSize or peekMessage.
AcceptedInv == pc[P] = "process" => ~Refused

\* Only the test that ends ReadWait leads to processIncoming, and no step between the
\* refusal test and ReadCommit changes which packet is next.
LEMMA NextAccepted ==
  ASSUME IndInv, AcceptedInv, [Next]_vars
  PROVE  AcceptedInv'
  <1> USE Numbers
  <1> SUFFICES ASSUME pc'[P] = "process" PROVE ~Refused'
    BY DEF AcceptedInv
  <1>0. LocalsOK /\ ProcessorInv
    BY DEF IndInv
  <1>1. CASE Receiver
    <2>1. pc'[P] = pc[P] /\ UNCHANGED <<packets, np, cseq>>
      BY <1>0, <1>1 DEF LocalsOK, Receiver, ReadFromLoop, SocketRead, SocketError,
                        ReceiverInBuffer,
                        waitForWriteSpace, SpaceEnter, SpaceLock, SpaceTest, SpaceDone, SpaceSleep,
                        CommitSet, CommitBroadcast, Close, CloseDone, ClosePcond, CloseCcond, Call,
                        Goto, rest
    <2> QED
      BY <2>1 DEF AcceptedInv, Refused, total, hdr
  <1>2. CASE Processor
    <2>1. pc[P] = "data_test" /\ ok[P] = "process" /\ UNCHANGED <<packets, np, cseq>>
      BY <1>0, <1>2 DEF LocalsOK, ProcessorInv, DataWaits, Processor, NextPacket, PeekMessage,
                        ProcessIncoming, ProcessFails, Stop, StopWait, ProcessorInBuffer,
                        waitForData, DataEnter, DataLock, DataTest, DataDone, DataSleep, ReadCommit,
                        ReadCommitBroadcast, Close, CloseDone, ClosePcond, CloseCcond, Call, Goto,
                        rest
    <2> QED
      BY <1>0, <2>1 DEF ProcessorInv, DataWaits, Refused, total, hdr
  <1>3. CASE UNCHANGED vars
    BY <1>3 DEF vars, bufVars, AcceptedInv, Refused, total, hdr
  <1> QED
    BY <1>1, <1>2, <1>3 DEF Next

\* The bytes between the cursors are those of the stream from cseq on, in order.
LEMMA UnreadBytes ==
  ASSUME IndInv
  PROVE  /\ Unread = Pipe!Bytes(cseq, pseq - cseq)
         /\ pseq - cseq \in Nat
         /\ Len(Unread) = pseq - cseq
         /\ cseq = Pipe!End(np)
  <1> USE Numbers
  <1>1. pseq - cseq \in Nat
    BY DEF IndInv, CursorsInRing
  <1>2. \A i \in 1..(pseq - cseq) : buf[(cseq + i - 1) % Size] = cseq + i - 1
    <2> TAKE i \in 1..(pseq - cseq)
    <2>1. cseq + i - 1 \in cseq..(pseq - 1)
      BY SMTT(30)
    <2> QED
      BY <2>1 DEF IndInv, CommittedIntact
  <1>3. Unread = Pipe!Bytes(cseq, pseq - cseq)
    BY <1>2 DEF Unread, Pipe!Bytes
  <1>4. Len(Unread) = pseq - cseq
    BY <1>1 DEF Unread
  <1> QED
    BY <1>1, <1>3, <1>4 DEF IndInv, PacketBoundary, End, Pipe!End

\* Two runs of bytes, one behind the other, are one run.
LEMMA BytesAppend ==
  ASSUME NEW b \in Nat, NEW m \in Nat, NEW n \in Nat
  PROVE  Pipe!Bytes(b, m + n) = Pipe!Bytes(b, m) \o Pipe!Bytes(b + m, n)
  BY DEF Pipe!Bytes

\* A run of bytes without its beginning is a run of bytes.
LEMMA BytesDrop ==
  ASSUME NEW b \in Nat, NEW m \in Nat, NEW n \in Nat, n <= m
  PROVE  SubSeq(Pipe!Bytes(b, m), n + 1, m) = Pipe!Bytes(b + n, m - n)
  BY DEF Pipe!Bytes

\* A step that moves no cursor, whatever it stores, is not seen through the pipe.
LEMMA StepUnseen ==
  ASSUME IndInv, IndInv', UNCHANGED <<pseq, cseq, packets, np>>
  PROVE  UNCHANGED Pipe!vars
  <1>1. Unread = Pipe!Bytes(cseq, pseq - cseq)
    BY UnreadBytes
  <1>2. Unread' = Pipe!Bytes(cseq', pseq' - cseq')
    <2>1. \A i \in 1..(pseq' - cseq') : buf'[(cseq' + i - 1) % Size] = cseq' + i - 1
      <3> TAKE i \in 1..(pseq' - cseq')
      <3>1. cseq' + i - 1 \in cseq'..(pseq' - 1)
        BY SMTT(30), Numbers
      <3> QED
        BY <3>1 DEF IndInv, CommittedIntact
    <2> QED
      BY <2>1 DEF Unread, Pipe!Bytes
  <1>3. Unread' = Unread
    BY <1>1, <1>2 DEF Pipe!Bytes
  <1> QED
    BY <1>3 DEF Pipe!vars

\* WriteCommit is the step at which stored bytes enter the pipe.
LEMMA CommitPuts ==
  ASSUME IndInv, IndInv', CommitSet(R), UNCHANGED rest
  PROVE  Pipe!Put
  <1>0. /\ pseq \in Nat /\ cseq \in Nat /\ gate \in Nat /\ Last \in Nat /\ np \in Nat
        /\ Size \in Nat /\ Block \in Nat /\ Len(packets) \in Nat /\ req[R] \in Int
    BY Numbers
  <1>1. /\ pc[R] = "commit_set" /\ pseq' = pseq + req[R]
        /\ UNCHANGED <<cseq, buf, packets, np>>
    BY DEF CommitSet, Goto, rest
  <1>2. /\ req[R] \in 1..Block
        /\ pseq + req[R] <= gate + Size
        /\ pseq + req[R] <= Last
        /\ gate <= cseq
    BY <1>0, <1>1 DEF IndInv, ReceiverInv, Uncommitted, CursorsInRing
  <1>3. /\ Unread = Pipe!Bytes(cseq, pseq - cseq) /\ Len(Unread) = pseq - cseq
        /\ cseq = Pipe!End(np) /\ pseq - cseq \in Nat
    BY UnreadBytes
  <1>4. Unread' = Pipe!Bytes(cseq, (pseq - cseq) + req[R])
    <2>1. pseq' - cseq' = (pseq - cseq) + req[R] /\ cseq' = cseq
      BY <1>0, <1>1, <1>2
    <2>2. \A i \in 1..((pseq - cseq) + req[R]) : buf'[(cseq + i - 1) % Size] = cseq + i - 1
      <3> TAKE i \in 1..((pseq - cseq) + req[R])
      <3>0. req[R] \in Nat /\ i \in Nat /\ i >= 1 /\ i <= (pseq - cseq) + req[R]
        BY <1>0, <1>2, <1>3
      <3>1. cseq + i - 1 \in cseq..((pseq + req[R]) - 1)
        BY <1>0, <3>0
      <3> QED
        BY <1>0, <1>1, <3>1 DEF IndInv, CommittedIntact
    <2> QED
      BY <1>0, <2>1, <2>2 DEF Unread, Pipe!Bytes
  <1>5. Unread' = Unread \o Pipe!Bytes(cseq + (pseq - cseq), req[R])
    <2>1. req[R] \in Nat
      BY <1>0, <1>2
    <2>2. Pipe!Bytes(cseq, (pseq - cseq) + req[R])
            = Pipe!Bytes(cseq, pseq - cseq) \o Pipe!Bytes(cseq + (pseq - cseq), req[R])
      <3>1. cseq \in Nat /\ pseq - cseq \in Nat
        BY <1>0, <1>3
      <3> QED
        BY <2>1, <3>1, BytesAppend, Zenon
    <2> QED
      BY <1>0, <1>3, <1>4, <2>2
  <1>6. Len(Unread) + req[R] <= Size
    BY SMTT(30), <1>0, <1>2, <1>3
  <1>7. Pipe!End(Len(packets)) = Last
    BY DEF Last, End, Pipe!End
  <1>8. Pipe!End(np) + Len(Unread) + req[R] <= Pipe!End(Len(packets))
    BY SMTT(30), <1>0, <1>2, <1>3, <1>7
  <1> QED
    BY <1>0, <1>1, <1>2, <1>3, <1>5, <1>6, <1>8 DEF Pipe!Put

\* ReadCommit is the step at which a packet leaves the pipe, whole.
LEMMA ReadCommitTakes ==
  ASSUME IndInv, IndInv', AcceptedInv, ProcessIncoming
  PROVE  Pipe!Take
  <1>0. /\ pseq \in Nat /\ cseq \in Nat /\ gate \in Nat /\ Last \in Nat /\ np \in Nat
        /\ Size \in Nat /\ Block \in Nat /\ Len(packets) \in Nat /\ req[R] \in Int
    BY Numbers
  <1>1. /\ pc[P] = "process" /\ cseq' = cseq + total /\ np' = np + 1
        /\ UNCHANGED <<pseq, buf, packets>>
    BY DEF ProcessIncoming, ReadCommit, Goto
  <1>2. np < Len(packets) /\ cseq + total <= pseq /\ ~Refused
    BY <1>0, <1>1 DEF IndInv, ProcessorInv, AcceptedInv
  <1>3. total \in Nat /\ hdr \in Nat /\ cseq + total = End(np + 1)
    BY <1>0, <1>2, NextPacketFacts
  <1>4. /\ Unread = Pipe!Bytes(cseq, pseq - cseq) /\ Len(Unread) = pseq - cseq
        /\ cseq = Pipe!End(np) /\ pseq - cseq \in Nat
    BY UnreadBytes
  <1>5. Unread' = Pipe!Bytes(cseq + total, (pseq - cseq) - total)
    <2>1. pseq' - cseq' = (pseq - cseq) - total /\ cseq' = cseq + total
      BY <1>0, <1>1, <1>3
    <2>2. \A i \in 1..((pseq - cseq) - total) :
             buf'[((cseq + total) + i - 1) % Size] = (cseq + total) + i - 1
      <3> TAKE i \in 1..((pseq - cseq) - total)
      <3>0. i \in Nat /\ i >= 1 /\ i <= (pseq - cseq) - total
        BY <1>0, <1>3, <1>4
      <3>1. (cseq + total) + i - 1 \in cseq..(pseq - 1)
        BY <1>0, <1>3, <3>0
      <3> QED
        BY <1>0, <1>1, <3>1 DEF IndInv, CommittedIntact
    <2> QED
      BY <1>0, <2>1, <2>2 DEF Unread, Pipe!Bytes
  <1>6. Unread' = SubSeq(Unread, total + 1, Len(Unread))
    <2>1. total <= pseq - cseq
      BY <1>0, <1>2, <1>3
    <2>2. SubSeq(Pipe!Bytes(cseq, pseq - cseq), total + 1, pseq - cseq)
            = Pipe!Bytes(cseq + total, (pseq - cseq) - total)
      <3>1. cseq \in Nat /\ pseq - cseq \in Nat /\ total \in Nat
        BY <1>0, <1>3, <1>4
      <3> QED
        BY <2>1, <3>1, BytesDrop, Zenon
    <2> QED
      BY <1>0, <1>4, <1>5, <2>2
  <1>7. Pipe!End(np + 1) - Pipe!End(np) = total
    BY <1>0, <1>3, <1>4 DEF End, Pipe!End
  <1>8. packets[np + 1].hdr <= 5 /\ total <= MaxPacketSize
    BY <1>0, <1>2, <1>3, InBufferAssumption DEF Refused, hdr
  <1>9. total <= Len(Unread)
    BY <1>0, <1>2, <1>3, <1>4
  <1> QED
    BY <1>0, <1>1, <1>2, <1>6, <1>7, <1>8, <1>9 DEF Pipe!Take

\* Every step of the two goroutines is a step of the pipe, or is not seen through it.
LEMMA NextRefinesPipe ==
  ASSUME IndInv, IndInv', AcceptedInv, [Next]_vars
  PROVE  [Pipe!Next]_(Pipe!vars)
  <1>1. CASE CommitSet(R) /\ UNCHANGED rest
    BY <1>1, CommitPuts DEF Pipe!Next
  <1>2. CASE ProcessIncoming
    BY <1>2, ReadCommitTakes DEF Pipe!Next
  <1>3. CASE ~(CommitSet(R) /\ UNCHANGED rest) /\ ~ProcessIncoming
    <2>1. CASE Receiver
      <3>1. UNCHANGED <<pseq, cseq, packets, np>>
        BY <1>3, <2>1 DEF Receiver, ReadFromLoop, SocketRead, SocketError, ReceiverInBuffer,
                          waitForWriteSpace, SpaceEnter, SpaceLock, SpaceTest, SpaceDone,
                          SpaceSleep, CommitBroadcast, Close, CloseDone, ClosePcond, CloseCcond,
                          Call, rest
      <3> QED
        BY <3>1, StepUnseen
    <2>2. CASE Processor
      <3>1. UNCHANGED <<pseq, cseq, packets, np>>
        BY <1>3, <2>2 DEF Processor, NextPacket, PeekMessage, ProcessFails, Stop, StopWait,
                          ProcessorInBuffer, waitForData, DataEnter, DataLock, DataTest, DataDone,
                          DataSleep, ReadCommitBroadcast, Close, CloseDone, ClosePcond,
                          CloseCcond, Call, rest
      <3> QED
        BY <3>1, StepUnseen
    <2>3. CASE UNCHANGED vars
      <3>1. UNCHANGED <<pseq, cseq, packets, np>>
        BY <2>3 DEF vars, bufVars
      <3> QED
        BY <3>1, StepUnseen
    <2> QED
      BY <2>1, <2>2, <2>3 DEF Next
  <1> QED
    BY <1>1, <1>2, <1>3

\* The ring, with its wrap-around, its cached gate and its commit in two steps,
\* implements the pipe of BytePipe: receiver and processor may interleave as they like,
\* processIncoming is given the packets of the stream one by one, each complete, in
\* order, once, up to the first that is refused.
THEOREM Refinement == Spec => ImplementsPipe
  <1>1. Init => Pipe!Init /\ AcceptedInv
    <2> SUFFICES ASSUME Init PROVE Pipe!Init /\ AcceptedInv
      OBVIOUS
    <2>1. pseq = 0 /\ cseq = 0
      BY DEF Init, BufferInit
    <2>2. Unread = <<>>
      BY <2>1 DEF Unread
    <2>3. pc[P] = "next_packet"
      BY InBufferAssumption DEF Init, BufferInit, P
    <2> QED
      BY <2>2, <2>3 DEF Init, Pipe!Init, AcceptedInv
  <1>2. IndInv /\ AcceptedInv /\ [Next]_vars => AcceptedInv'
    BY NextAccepted
  <1>3. IndInv /\ IndInv' /\ AcceptedInv /\ [Next]_vars => [Pipe!Next]_(Pipe!vars)
    BY NextRefinesPipe
  <1> QED
    BY <1>1, <1>2, <1>3, Invariance, PTL DEF Spec, ImplementsPipe, Pipe!Spec
=============================================================================
