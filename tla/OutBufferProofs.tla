-------------------------- MODULE OutBufferProofs ---------------------------
(***************************************************************************)
(* Proofs about OutBuffer, for every number of writers, every ring and     *)
(* block size and all packets.                                             *)
(*                                                                         *)
(* A writer that has called writeMessage holds wmu until it returns, so at *)
(* most one is in the ring; what it knows there is WriterOK.  It reserves  *)
(* room behind pseq through the cached gate, and what it stores there does *)
(* not meet the bytes that the sender has yet to write: that is all that   *)
(* the refinement of SendPipe needs about the ring's contents.             *)
(***************************************************************************)
EXTENDS OutBuffer, SequenceTheorems, TLAPS

\* Labels inside waitForWriteSpace, ReadPeek and Close.
SpaceWaits == {"waitForWriteSpace", "space_lock", "space_test", "space_done", "space_sleep",
               "space_asleep"}
DataWaits  == {"waitForData", "data_lock", "data_test", "data_done", "data_sleep",
               "data_asleep"}
Closing    == {"close", "close_pcond", "close_ccond"}

WLabels == SpaceWaits
             \cup {"idle", "encode", "ring_copy", "commit_set", "commit_broadcast",
                   "unlock", "fail"}
SLabels == DataWaits \cup Closing
             \cup {"writeto", "socket_write", "readcommit", "readcommit_broadcast", "ended"}
TLabels == Closing \cup {"running", "stop", "stop_wait", "stopped"}

Oks == {"none", "encode", "ring_copy", "commit_set", "socket_write"}

\* What a slot of the ring may hold.
Contents == (Writers \cup {Nobody}) \X Nat \X Nat

\* Types of what the goroutines keep for themselves, of the ring and of the socket.
LocalsOK ==
  /\ pc \in [Threads -> WLabels \cup SLabels \cup TLabels]
  /\ req \in [Threads -> Nat]
  /\ ok \in [Threads -> Oks]
  /\ \A w \in Writers : pc[w] \in WLabels
  /\ pc[S] \in SLabels /\ pc[T] \in TLabels
  /\ buf \in [0..(Size - 1) -> Contents]
  /\ wire \in Seq(Contents)
  /\ next \in [Writers -> Nat]
  /\ pc[T] = "running" => cut = NoCut

\* The writer has room for its packet from pseq on.
Reserved(w) ==
  \/ pc[w] \in {"encode", "ring_copy", "commit_set"}
  \/ pc[w] \in SpaceWaits /\ ok[w] \in {"ring_copy", "commit_set"}

\* The packet is in the ring, behind pseq.
Placed(w) == pc[w] = "commit_set" \/ (pc[w] \in SpaceWaits /\ ok[w] = "commit_set")

\* What a writer in writeMessage relies on.
WriterOK(w) ==
  /\ pc[w] # "idle" => wmu = w
  /\ pc[w] \in SpaceWaits => ok[w] \in {"encode", "ring_copy", "commit_set"}
  /\ pc[w] \in SpaceWaits \cup {"encode", "ring_copy", "commit_set"}
       => next[w] <= Len(Todo[w]) /\ req[w] = Todo[w][next[w]]
  /\ pc[w] = "fail" => next[w] <= Len(Todo[w])
  /\ Reserved(w) => pseq + req[w] <= gate + Size
  /\ Placed(w) => \A k \in 1..req[w] : buf[(pseq + k - 1) % Size] = <<w, next[w], k>>

\* A writer that is asleep, or has decided to sleep, lacks room, or the broadcast that
\* tells it otherwise is still to come.
SleepOK(w) ==
  /\ pc[w] \in {"space_test", "space_done", "space_sleep"} => pmutex = w
  /\ w \in pwaiters => pc[w] = "space_asleep"
  /\ pc[w] \in {"space_done", "space_sleep"} \/ w \in pwaiters
       => wrap(w) > cseq \/ pc[S] = "readcommit_broadcast"

\* What the sender has written lies between the cursors, at the start of what is unread
\* until ReadCommit; after a failed write it stays there.
SenderOK ==
  /\ gate <= cseq /\ cseq <= Len(wire) /\ Len(wire) <= pseq /\ pseq <= cseq + Size
  /\ ppos <= pseq
  /\ pc[S] \in DataWaits \cup {"writeto", "socket_write", "readcommit_broadcast"}
       => Len(wire) = cseq
  /\ pc[S] = "readcommit" => Len(wire) = cseq + req[S]
  /\ pc[S] = "socket_write" => cseq < ppos
  /\ pc[S] \in DataWaits => ok[S] = "socket_write"
  /\ S \in cwaiters => pc[S] = "data_asleep"
  /\ pc[S] \in {"data_done", "data_sleep"} \/ S \in cwaiters => ppos <= cseq

IndInv ==
  /\ TypeOK
  /\ LocalsOK
  /\ \A w \in Writers : WriterOK(w) /\ SleepOK(w)
  /\ SenderOK

-----------------------------------------------------------------------------
\* Two positions that are less than a ring apart have different slots.
LEMMA SlotsDiffer ==
  ASSUME NEW s \in Nat \ {0}, NEW a \in Nat, NEW b \in Nat, a < b, b < a + s
  PROVE  a % s # b % s
  <1>1. /\ a = s * (a \div s) + (a % s) /\ a % s \in 0..(s - 1) /\ a \div s \in Int
        /\ b = s * (b \div s) + (b % s) /\ b % s \in 0..(s - 1) /\ b \div s \in Int
    OBVIOUS
  <1> SUFFICES ASSUME a % s = b % s PROVE FALSE
    OBVIOUS
  <1> DEFINE k == (b \div s) - (a \div s)
  <1>2. k \in Int /\ b - a = s * k
    BY <1>1
  <1> HIDE DEF k
  <1>3. CASE k <= 0
    BY <1>2, <1>3
  <1>4. CASE k >= 1
    BY <1>2, <1>4
  <1> QED
    BY <1>2, <1>3, <1>4

\* The goroutines are different ones.
LEMMA Goroutines ==
  /\ Threads = Writers \cup {S, T} /\ S \in Threads /\ T \in Threads
  /\ S # T /\ S # Nobody /\ T # Nobody
  /\ S \notin Writers /\ T \notin Writers /\ Nobody \notin Writers
  /\ \A w \in Writers : w \in Threads /\ w # S /\ w # T /\ w # Nobody
  BY OutBufferAssumption DEF S, T, Nobody

\* The numbers that every step computes with.
LEMMA Numbers ==
  ASSUME IndInv
  PROVE  /\ Size \in Nat \ {0} /\ Block \in 1..Size
         /\ pseq \in Nat /\ cseq \in Nat /\ gate \in Nat /\ ppos \in Nat /\ Len(wire) \in Nat
         /\ req[S] \in Nat
         /\ \A w \in Writers : req[w] \in Nat /\ next[w] \in Nat /\ Len(Todo[w]) \in Nat
  <1>1. Len(wire) \in Nat
    BY LenProperties DEF IndInv, LocalsOK
  <1>2. \A w \in Writers : Len(Todo[w]) \in Nat
    BY LenProperties, OutBufferAssumption
  <1> QED
    BY <1>1, <1>2, RingBufferAssumption, OutBufferAssumption, Goroutines
       DEF IndInv, LocalsOK, TypeOK

\* The packet that a writer writes next has a length.
LEMMA NextLength ==
  ASSUME IndInv, NEW w \in Writers, next[w] <= Len(Todo[w])
  PROVE  next[w] \in 1..Len(Todo[w]) /\ Todo[w][next[w]] \in Nat \ {0}
  <1>1. next[w] \in 1..Len(Todo[w])
    BY Numbers DEF IndInv, TypeOK
  <1>2. Todo[w] \in Seq(Nat \ {0})
    BY OutBufferAssumption
  <1> QED
    BY <1>1, <1>2, ElementOfSeq

\* Only one writer is in writeMessage.
LEMMA OthersIdle ==
  ASSUME IndInv, NEW w \in Writers, NEW v \in Writers, v # w, pc[w] # "idle" \/ wmu = Nobody
  PROVE  pc[v] = "idle"
  BY Goroutines DEF IndInv, WriterOK

\* A writer that is not in writeMessage relies on nothing.
LEMMA IdleOK ==
  ASSUME NEW v, pc'[v] = "idle", v \notin pwaiters'
  PROVE  WriterOK(v)' /\ SleepOK(v)'
  BY DEF WriterOK, SleepOK, Reserved, Placed, SpaceWaits

\* No buffer, no room and no data: newBuffer, before the goroutines run.
LEMMA InitIndInv == Init => IndInv
  <1> SUFFICES ASSUME Init PROVE IndInv
    OBVIOUS
  <1> USE Goroutines
  <1>1. /\ pseq = 0 /\ cseq = 0 /\ gate = 0 /\ ppos = 0 /\ done = FALSE
        /\ pmutex = Nobody /\ cmutex = Nobody /\ pwaiters = {} /\ cwaiters = {}
        /\ wmu = Nobody /\ wire = <<>> /\ cut = NoCut /\ connClosed = FALSE /\ faulty \in BOOLEAN
        /\ buf = [i \in 0..(Size - 1) |-> Blank]
        /\ next = [w \in Writers |-> 1]
        /\ req = [t \in Threads |-> 0] /\ ok = [t \in Threads |-> "none"]
    BY DEF Init, BufferInit
  <1>2. pc = [t \in Threads |-> IF t = S THEN "writeto" ELSE IF t = T THEN "running" ELSE "idle"]
    BY DEF Init, BufferInit
  <1>3. pc[S] = "writeto" /\ pc[T] = "running" /\ \A w \in Writers : pc[w] = "idle"
    BY <1>2
  <1>4. LocalsOK
    <2>1. Blank \in Contents
      BY DEF Blank, Contents
    <2>2. wire \in Seq(Contents)
      BY <1>1
    <2>3. pc \in [Threads -> WLabels \cup SLabels \cup TLabels]
      BY <1>2 DEF WLabels, SLabels, TLabels
    <2> QED
      BY <1>1, <1>3, <2>1, <2>2, <2>3 DEF LocalsOK, Oks, WLabels, SLabels, TLabels
  <1>5. TypeOK
    <2>1. \A w \in Writers : Len(Todo[w]) \in Nat
      BY LenProperties, OutBufferAssumption
    <2>2. \A w \in Writers : next[w] \in 1..(Len(Todo[w]) + 1)
      BY <1>1, <2>1
    <2>3. {done, faulty, connClosed} \subseteq BOOLEAN
      BY <1>1
    <2> QED
      BY <1>1, <2>2, <2>3 DEF TypeOK
  <1>6. \A w \in Writers : WriterOK(w) /\ SleepOK(w)
    BY <1>1, <1>3 DEF WriterOK, SleepOK, Reserved, Placed, SpaceWaits
  <1>7. SenderOK
    BY <1>1, <1>3, RingBufferAssumption DEF SenderOK, DataWaits
  <1> QED
    BY <1>4, <1>5, <1>6, <1>7 DEF IndInv

-----------------------------------------------------------------------------
(* The writers.                                                            *)

\* A step of one writer: the others are idle, and the sender is left alone.
LEMMA WriterFrame ==
  ASSUME IndInv, NEW w \in Writers, pc[w] # "idle" \/ wmu = Nobody,
         TypeOK', LocalsOK', WriterOK(w)', SleepOK(w)',
         \A v \in Writers : v # w => pc'[v] = pc[v],
         pwaiters' \subseteq pwaiters \cup {w},
         UNCHANGED <<cseq, ppos, wire>>, cwaiters' \subseteq cwaiters,
         pc'[S] = pc[S] /\ req'[S] = req[S] /\ ok'[S] = ok[S],
         pseq <= pseq' /\ pseq' <= cseq + Size, gate' <= cseq
  PROVE  IndInv'
  <1>1. \A v \in Writers : v # w => WriterOK(v)' /\ SleepOK(v)'
    <2> SUFFICES ASSUME NEW v \in Writers, v # w PROVE WriterOK(v)' /\ SleepOK(v)'
      OBVIOUS
    <2>1. pc[v] = "idle"
      BY OthersIdle
    <2>2. v \notin pwaiters
      BY <2>1 DEF IndInv, SleepOK
    <2> QED
      BY <2>1, <2>2, IdleOK
  <1>2. SenderOK'
    <2>1. pseq' \in Nat /\ gate' \in Nat
      BY DEF TypeOK
    <2> QED
      BY <2>1, Numbers DEF IndInv, SenderOK
  <1> QED
    BY <1>1, <1>2 DEF IndInv

\* Inside waitForWriteSpace a writer keeps what it has, and leaves with room or with EOF.
LEMMA SpaceFrame ==
  ASSUME IndInv, NEW w \in Writers, pc[w] \in SpaceWaits,
         UNCHANGED <<pseq, buf, next, wmu, req, ok>>, gate' \in Nat, gate <= gate',
         \/ pc'[w] \in SpaceWaits
         \/ pc'[w] = "fail"
         \/ pc'[w] = ok[w] /\ pseq + req[w] <= gate' + Size
  PROVE  WriterOK(w)'
  <1> USE Numbers
  <1>1. WriterOK(w) /\ pc[w] # "idle"
    BY DEF IndInv, SpaceWaits
  <1>2. /\ wmu = w /\ ok[w] \in {"encode", "ring_copy", "commit_set"}
        /\ next[w] <= Len(Todo[w]) /\ req[w] = Todo[w][next[w]]
        /\ ok[w] \in {"ring_copy", "commit_set"} => pseq + req[w] <= gate + Size
        /\ ok[w] = "commit_set"
             => \A k \in 1..req[w] : buf[(pseq + k - 1) % Size] = <<w, next[w], k>>
    BY <1>1 DEF WriterOK, Reserved, Placed
  <1>3. /\ Reserved(w)' => pseq + req[w] <= gate' + Size
        /\ Placed(w)' => ok[w] = "commit_set"
    <2>1. CASE pc'[w] \in SpaceWaits
      <3>1. pc'[w] \notin {"encode", "ring_copy", "commit_set"}
        BY <2>1 DEF SpaceWaits
      <3>2. CASE ok[w] \in {"ring_copy", "commit_set"}
        <4>1. pseq + req[w] <= gate' + Size
          <5>1. pseq + req[w] <= gate + Size
            BY <1>2, <3>2
          <5>2. req[w] \in Nat /\ pseq \in Nat /\ gate \in Nat /\ Size \in Nat
            OBVIOUS
          <5> QED
            BY <5>1, <5>2
        <4> QED
          BY <3>1, <4>1 DEF Placed
      <3>3. CASE ok[w] \notin {"ring_copy", "commit_set"}
        BY <3>1, <3>3 DEF Reserved, Placed
      <3> QED
        BY <3>2, <3>3
    <2>2. CASE pc'[w] = "fail"
      BY <2>2 DEF Reserved, Placed, SpaceWaits
    <2>3. CASE pc'[w] = ok[w] /\ pseq + req[w] <= gate' + Size
      BY <1>2, <2>3 DEF Placed
    <2> QED
      BY <2>1, <2>2, <2>3
  <1> QED
    BY <1>2, <1>3 DEF WriterOK, SpaceWaits

\* isDone and the test against the cached gate.
LEMMA SpaceEnterStep ==
  ASSUME IndInv, NEW w \in Writers, SpaceEnter(w, "fail"),
         UNCHANGED <<wmu, next, wire, faulty, connClosed, cut>>
  PROVE  IndInv'
  <1> USE Numbers, Goroutines
  <1>1. TypeOK'
    BY DEF IndInv, TypeOK, SpaceEnter
  <1>2. LocalsOK'
    BY DEF IndInv, LocalsOK, WriterOK, SpaceEnter, Goto, WLabels, SpaceWaits
  <1>3. /\ pc[w] # "idle"
        /\ \A v \in Writers : v # w => pc'[v] = pc[v]
        /\ pc'[S] = pc[S] /\ req' = req /\ ok' = ok
        /\ pwaiters' \subseteq pwaiters \cup {w} /\ cwaiters' \subseteq cwaiters
        /\ UNCHANGED <<pseq, cseq, ppos, buf>>
        /\ gate <= gate' /\ gate' <= cseq
    BY DEF IndInv, LocalsOK, SenderOK, SpaceEnter, Goto
  <1>4. WriterOK(w)'
    <2>1. pc[w] \in SpaceWaits /\ gate' \in Nat
      BY <1>1 DEF SpaceEnter, Goto, SpaceWaits, TypeOK
    <2>2. \/ pc'[w] \in SpaceWaits
          \/ pc'[w] = "fail"
          \/ pc'[w] = ok[w] /\ pseq + req[w] <= gate' + Size
      BY SMTT(30), <1>1, <1>3, <2>1 DEF IndInv, LocalsOK, SpaceEnter, Goto, SpaceWaits, wrap
    <2> QED
      BY <1>3, <2>1, <2>2, SpaceFrame
  <1>5. SleepOK(w)'
    BY <1>3 DEF IndInv, LocalsOK, TypeOK, SleepOK, WriterOK, SpaceEnter, Goto, SpaceWaits,
                wrap
  <1>6. pseq' <= cseq + Size /\ pseq <= pseq'
    BY <1>3 DEF IndInv, SenderOK
  <1> QED
    BY <1>1, <1>2, <1>3, <1>4, <1>5, <1>6, WriterFrame

\* pcond.L.Lock().
LEMMA SpaceLockStep ==
  ASSUME IndInv, NEW w \in Writers, SpaceLock(w),
         UNCHANGED <<wmu, next, wire, faulty, connClosed, cut>>
  PROVE  IndInv'
  <1> USE Numbers, Goroutines
  <1>1. TypeOK'
    BY DEF IndInv, TypeOK, SpaceLock
  <1>2. LocalsOK'
    <2>1. pc' = [pc EXCEPT ![w] = "space_test"] /\ UNCHANGED <<req, ok, buf, wire, next>>
      BY DEF SpaceLock, Goto
    <2> QED
      BY <2>1 DEF IndInv, LocalsOK, WLabels, SpaceWaits
  <1>3. /\ pc[w] # "idle"
        /\ \A v \in Writers : v # w => pc'[v] = pc[v]
        /\ pc'[S] = pc[S] /\ req' = req /\ ok' = ok
        /\ pwaiters' \subseteq pwaiters \cup {w} /\ cwaiters' \subseteq cwaiters
        /\ UNCHANGED <<pseq, cseq, ppos, buf>>
        /\ gate <= gate' /\ gate' <= cseq
    BY SMTT(30) DEF IndInv, LocalsOK, SenderOK, SpaceLock, Goto
  <1>4. WriterOK(w)'
    <2>1. pc[w] \in SpaceWaits /\ gate' \in Nat
      BY <1>1 DEF SpaceLock, Goto, SpaceWaits, TypeOK
    <2>2. \/ pc'[w] \in SpaceWaits
          \/ pc'[w] = "fail"
          \/ pc'[w] = ok[w] /\ pseq + req[w] <= gate' + Size
      BY <1>1, <1>3, <2>1 DEF IndInv, LocalsOK, SpaceLock, Goto, SpaceWaits, wrap
    <2> QED
      BY <1>3, <2>1, <2>2, SpaceFrame
  <1>5. SleepOK(w)'
    BY SMTT(30), <1>3 DEF IndInv, LocalsOK, TypeOK, SleepOK, WriterOK, SpaceLock, Goto, SpaceWaits, wrap
  <1>6. pseq' <= cseq + Size /\ pseq <= pseq'
    BY <1>3 DEF IndInv, SenderOK
  <1> QED
    BY <1>1, <1>2, <1>3, <1>4, <1>5, <1>6, WriterFrame

\* The loop test; room that is found is remembered in the gate.
LEMMA SpaceTestStep ==
  ASSUME IndInv, NEW w \in Writers, SpaceTest(w),
         UNCHANGED <<wmu, next, wire, faulty, connClosed, cut>>
  PROVE  IndInv'
  <1> USE Numbers, Goroutines
  <1>1. TypeOK'
    BY DEF IndInv, TypeOK, SpaceTest
  <1>2. LocalsOK'
    BY DEF IndInv, LocalsOK, WriterOK, SpaceTest, Goto, WLabels, SpaceWaits
  <1>3. /\ pc[w] # "idle"
        /\ \A v \in Writers : v # w => pc'[v] = pc[v]
        /\ pc'[S] = pc[S] /\ req' = req /\ ok' = ok
        /\ pwaiters' \subseteq pwaiters \cup {w} /\ cwaiters' \subseteq cwaiters
        /\ UNCHANGED <<pseq, cseq, ppos, buf>>
        /\ gate <= gate' /\ gate' <= cseq
    BY DEF IndInv, LocalsOK, SenderOK, SpaceTest, Goto
  <1>4. WriterOK(w)'
    <2>1. pc[w] \in SpaceWaits /\ gate' \in Nat
      BY <1>1 DEF SpaceTest, Goto, SpaceWaits, TypeOK
    <2>2. \/ pc'[w] \in SpaceWaits
          \/ pc'[w] = "fail"
          \/ pc'[w] = ok[w] /\ pseq + req[w] <= gate' + Size
      BY SMTT(30), <1>1, <1>3, <2>1 DEF IndInv, LocalsOK, SpaceTest, Goto, SpaceWaits, wrap
    <2> QED
      BY <1>3, <2>1, <2>2, SpaceFrame
  <1>5. SleepOK(w)'
    <2>1. /\ pc[w] = "space_test" /\ pwaiters' = pwaiters /\ w \notin pwaiters
          /\ pc' = [pc EXCEPT ![w] = IF wrap(w) > cseq THEN "space_done" ELSE ok[w]]
          /\ pmutex' = IF wrap(w) > cseq THEN pmutex ELSE Nobody
          /\ pmutex = w /\ wrap(w)' = wrap(w)
      BY <1>3 DEF SpaceTest, Goto, IndInv, SleepOK, wrap
    <2>2. ok[w] \in {"encode", "ring_copy", "commit_set"}
      BY <2>1 DEF IndInv, WriterOK, SpaceWaits
    <2>3. CASE wrap(w) > cseq
      BY <1>3, <2>1, <2>3 DEF IndInv, LocalsOK, SleepOK
    <2>4. CASE ~(wrap(w) > cseq)
      BY <1>3, <2>1, <2>2, <2>4 DEF IndInv, LocalsOK, SleepOK
    <2> QED
      BY <2>3, <2>4
  <1>6. pseq' <= cseq + Size /\ pseq <= pseq'
    BY <1>3 DEF IndInv, SenderOK
  <1> QED
    BY <1>1, <1>2, <1>3, <1>4, <1>5, <1>6, WriterFrame

\* isDone inside the loop.
LEMMA SpaceDoneStep ==
  ASSUME IndInv, NEW w \in Writers, SpaceDone(w, "fail"),
         UNCHANGED <<wmu, next, wire, faulty, connClosed, cut>>
  PROVE  IndInv'
  <1> USE Numbers, Goroutines
  <1>1. TypeOK'
    BY DEF IndInv, TypeOK, SpaceDone
  <1>2. LocalsOK'
    BY DEF IndInv, LocalsOK, WriterOK, SpaceDone, Goto, WLabels, SpaceWaits
  <1>3. /\ pc[w] # "idle"
        /\ \A v \in Writers : v # w => pc'[v] = pc[v]
        /\ pc'[S] = pc[S] /\ req' = req /\ ok' = ok
        /\ pwaiters' \subseteq pwaiters \cup {w} /\ cwaiters' \subseteq cwaiters
        /\ UNCHANGED <<pseq, cseq, ppos, buf>>
        /\ gate <= gate' /\ gate' <= cseq
    BY DEF IndInv, LocalsOK, SenderOK, SpaceDone, Goto
  <1>4. WriterOK(w)'
    <2>1. pc[w] \in SpaceWaits /\ gate' \in Nat
      BY <1>1 DEF SpaceDone, Goto, SpaceWaits, TypeOK
    <2>2. \/ pc'[w] \in SpaceWaits
          \/ pc'[w] = "fail"
          \/ pc'[w] = ok[w] /\ pseq + req[w] <= gate' + Size
      BY <1>1, <1>3, <2>1 DEF IndInv, LocalsOK, SpaceDone, Goto, SpaceWaits, wrap
    <2> QED
      BY <1>3, <2>1, <2>2, SpaceFrame
  <1>5. SleepOK(w)'
    BY <1>3 DEF IndInv, LocalsOK, TypeOK, SleepOK, WriterOK, SpaceDone, Goto, SpaceWaits, wrap
  <1>6. pseq' <= cseq + Size /\ pseq <= pseq'
    BY <1>3 DEF IndInv, SenderOK
  <1> QED
    BY <1>1, <1>2, <1>3, <1>4, <1>5, <1>6, WriterFrame

\* pcond.Wait().
LEMMA SpaceSleepStep ==
  ASSUME IndInv, NEW w \in Writers, SpaceSleep(w),
         UNCHANGED <<wmu, next, wire, faulty, connClosed, cut>>
  PROVE  IndInv'
  <1> USE Numbers, Goroutines
  <1>1. TypeOK'
    BY DEF IndInv, TypeOK, SpaceSleep
  <1>2. LocalsOK'
    BY DEF IndInv, LocalsOK, WriterOK, SpaceSleep, Goto, WLabels, SpaceWaits
  <1>3. /\ pc[w] # "idle"
        /\ \A v \in Writers : v # w => pc'[v] = pc[v]
        /\ pc'[S] = pc[S] /\ req' = req /\ ok' = ok
        /\ pwaiters' \subseteq pwaiters \cup {w} /\ cwaiters' \subseteq cwaiters
        /\ UNCHANGED <<pseq, cseq, ppos, buf>>
        /\ gate <= gate' /\ gate' <= cseq
    BY DEF IndInv, LocalsOK, SenderOK, SpaceSleep, Goto
  <1>4. WriterOK(w)'
    <2>1. pc[w] \in SpaceWaits /\ gate' \in Nat
      BY <1>1 DEF SpaceSleep, Goto, SpaceWaits, TypeOK
    <2>2. \/ pc'[w] \in SpaceWaits
          \/ pc'[w] = "fail"
          \/ pc'[w] = ok[w] /\ pseq + req[w] <= gate' + Size
      BY <1>1, <1>3, <2>1 DEF IndInv, LocalsOK, SpaceSleep, Goto, SpaceWaits, wrap
    <2> QED
      BY <1>3, <2>1, <2>2, SpaceFrame
  <1>5. SleepOK(w)'
    BY <1>3 DEF IndInv, LocalsOK, TypeOK, SleepOK, WriterOK, SpaceSleep, Goto, SpaceWaits,
                wrap
  <1>6. pseq' <= cseq + Size /\ pseq <= pseq'
    BY <1>3 DEF IndInv, SenderOK
  <1> QED
    BY <1>1, <1>2, <1>3, <1>4, <1>5, <1>6, WriterFrame

\* The broadcast of WriteCommit and of Write.
LEMMA CommitBroadcastStep ==
  ASSUME IndInv, NEW w \in Writers, CommitBroadcast(w, "unlock"),
         UNCHANGED <<wmu, next, wire, faulty, connClosed, cut>>
  PROVE  IndInv'
  <1> USE Numbers, Goroutines
  <1>1. TypeOK'
    BY DEF IndInv, TypeOK, CommitBroadcast
  <1>2. LocalsOK'
    BY DEF IndInv, LocalsOK, WriterOK, CommitBroadcast, Goto, WLabels, SpaceWaits
  <1>3. /\ pc[w] # "idle"
        /\ \A v \in Writers : v # w => pc'[v] = pc[v]
        /\ pc'[S] = pc[S] /\ req' = req /\ ok' = ok
        /\ pwaiters' \subseteq pwaiters \cup {w} /\ cwaiters' \subseteq cwaiters
        /\ UNCHANGED <<pseq, cseq, ppos, buf>>
        /\ gate <= gate' /\ gate' <= cseq
    BY DEF IndInv, LocalsOK, SenderOK, CommitBroadcast, Goto
  <1>4. WriterOK(w)'
    BY <1>1, <1>3 DEF IndInv, LocalsOK, WriterOK, CommitBroadcast, Goto, Reserved, Placed,
                      SpaceWaits
  <1>5. SleepOK(w)'
    BY <1>3 DEF IndInv, LocalsOK, TypeOK, SleepOK, WriterOK, CommitBroadcast, Goto,
                SpaceWaits, wrap
  <1>6. pseq' <= cseq + Size /\ pseq <= pseq'
    BY <1>3 DEF IndInv, SenderOK
  <1> QED
    BY <1>1, <1>2, <1>3, <1>4, <1>5, <1>6, WriterFrame

\* What storing a packet, or a part of one, does to the ring: the bytes are in their
\* slots, and those that the sender has yet to write are where they were.
LEMMA CopiedFacts ==
  ASSUME IndInv, NEW w \in Writers, NEW n \in Nat, pseq + n <= gate + Size
  PROVE  /\ Copied(w, n) \in [0..(Size - 1) -> Contents]
         /\ \A k \in 1..n : Copied(w, n)[(pseq + k - 1) % Size] = <<w, next[w], k>>
         /\ \A p \in Len(wire)..(pseq - 1) : Copied(w, n)[p % Size] = buf[p % Size]
  <1> USE Numbers
  <1>1. gate <= pseq /\ n <= Size /\ pseq + n <= Len(wire) + Size
    BY DEF IndInv, SenderOK
  <1>2. ASSUME NEW j \in 1..n, NEW k \in 1..n, (pseq + j - 1) % Size = (pseq + k - 1) % Size
        PROVE  j = k
    <2>1. pseq + j - 1 \in Nat /\ pseq + k - 1 \in Nat
      BY SMTT(30)
    <2>2. CASE j < k
      <3>1. pseq + j - 1 < pseq + k - 1 /\ pseq + k - 1 < (pseq + j - 1) + Size
        BY SMTT(30), <1>1, <2>2
      <3> QED
        BY <1>2, <2>1, <3>1, SlotsDiffer
    <2>3. CASE k < j
      <3>1. pseq + k - 1 < pseq + j - 1 /\ pseq + j - 1 < (pseq + k - 1) + Size
        BY SMTT(30), <1>1, <2>3
      <3> QED
        BY <1>2, <2>1, <3>1, SlotsDiffer
    <2> QED
      BY <2>2, <2>3
  <1>3. \A k \in 1..n : (pseq + k - 1) % Size \in 0..(Size - 1)
    BY SMTT(30)
  <1>4. Copied(w, n) \in [0..(Size - 1) -> Contents]
    <2> SUFFICES ASSUME NEW i \in 0..(Size - 1)
                 PROVE  (IF \E k \in 1..n : (pseq + k - 1) % Size = i
                         THEN <<w, next[w], CHOOSE k \in 1..n : (pseq + k - 1) % Size = i>>
                         ELSE buf[i]) \in Contents
      BY DEF Copied
    <2>1. CASE \E k \in 1..n : (pseq + k - 1) % Size = i
      <3>1. (CHOOSE k \in 1..n : (pseq + k - 1) % Size = i) \in 1..n
        BY <2>1
      <3>2. (CHOOSE k \in 1..n : (pseq + k - 1) % Size = i) \in Nat
        BY <3>1
      <3> QED
        BY <2>1, <3>2 DEF Contents
    <2>2. CASE ~ \E k \in 1..n : (pseq + k - 1) % Size = i
      BY <2>2 DEF IndInv, LocalsOK
    <2> QED
      BY <2>1, <2>2
  <1>5. ASSUME NEW k \in 1..n
        PROVE  Copied(w, n)[(pseq + k - 1) % Size] = <<w, next[w], k>>
    <2> DEFINE i == (pseq + k - 1) % Size
    <2>1. i \in 0..(Size - 1) /\ \E j \in 1..n : (pseq + j - 1) % Size = i
      BY <1>3
    <2>2. \A j \in 1..n : (pseq + j - 1) % Size = i => j = k
      BY <1>2
    <2> HIDE DEF i
    <2>3. (CHOOSE j \in 1..n : (pseq + j - 1) % Size = i) = k
      BY <2>1, <2>2
    <2>4. Copied(w, n)[i] = <<w, next[w], k>>
      BY <2>1, <2>3 DEF Copied
    <2> QED
      BY <2>4 DEF i
  <1>6. ASSUME NEW p \in Len(wire)..(pseq - 1)
        PROVE  Copied(w, n)[p % Size] = buf[p % Size]
    <2>1. p \in Nat /\ p % Size \in 0..(Size - 1)
      BY SMTT(30)
    <2>2. ASSUME NEW k \in 1..n PROVE (pseq + k - 1) % Size # p % Size
      <3>1. /\ pseq + k - 1 \in Nat
            /\ p < pseq + k - 1 /\ pseq + k - 1 < p + Size
        BY SMTT(30), <1>1
      <3> QED
        BY <2>1, <3>1, SlotsDiffer
    <2> QED
      BY <2>1, <2>2 DEF Copied
  <1> QED
    BY <1>4, <1>5, <1>6

\* wmu.Lock().
LEMMA WriteMessageStep ==
  ASSUME IndInv, NEW w \in Writers, WriteMessage(w)
  PROVE  IndInv'
  <1> USE Numbers, Goroutines
  <1>1. /\ wmu = Nobody /\ wmu' = w /\ next[w] <= Len(Todo[w]) /\ pc[w] = "idle"
        /\ pc' = [pc EXCEPT ![w] = "waitForWriteSpace"]
        /\ req' = [req EXCEPT ![w] = Todo[w][next[w]]]
        /\ ok' = [ok EXCEPT ![w] = "encode"]
        /\ UNCHANGED <<pseq, cseq, gate, done, buf, pmutex, cmutex, pwaiters, cwaiters, ppos,
                       next, wire, faulty, connClosed, cut>>
    BY DEF WriteMessage, Call, Goto
  <1>2. Todo[w][next[w]] \in Nat
    BY <1>1, NextLength
  <1>3. TypeOK'
    BY <1>1 DEF IndInv, TypeOK
  <1>4. LocalsOK'
    BY <1>1, <1>2 DEF IndInv, LocalsOK, WLabels, SpaceWaits, Oks
  <1>5. /\ \A v \in Writers : v # w => pc'[v] = pc[v]
        /\ pc'[S] = pc[S] /\ req'[S] = req[S] /\ ok'[S] = ok[S]
        /\ pc'[w] = "waitForWriteSpace" /\ ok'[w] = "encode" /\ req'[w] = Todo[w][next[w]]
    BY <1>1 DEF IndInv, LocalsOK
  <1>6. WriterOK(w)'
    BY <1>1, <1>5 DEF WriterOK, Reserved, Placed, SpaceWaits
  <1>7. SleepOK(w)'
    BY <1>1, <1>5 DEF IndInv, SleepOK
  <1>8. pseq' <= cseq + Size /\ pseq <= pseq' /\ gate' <= cseq
    BY <1>1 DEF IndInv, SenderOK
  <1> QED
    BY <1>1, <1>3, <1>4, <1>5, <1>6, <1>7, <1>8, WriterFrame

\* The encoding into the ring or into outtmp.
LEMMA EncodeStep ==
  ASSUME IndInv, NEW w \in Writers, Encode(w)
  PROVE  IndInv'
  <1> USE Numbers, Goroutines
  <1>1. /\ pc[w] = "encode" /\ pc' = [pc EXCEPT ![w] = "waitForWriteSpace"]
        /\ ok' = [ok EXCEPT ![w] = IF Wraps(w) THEN "ring_copy" ELSE "commit_set"]
        /\ buf' = IF Wraps(w) THEN buf ELSE Copied(w, req[w])
        /\ UNCHANGED <<pseq, cseq, gate, done, pmutex, cmutex, pwaiters, cwaiters, req, ppos,
                       wmu, next, wire, faulty, connClosed, cut>>
    BY DEF Encode, Goto
  <1>2. /\ wmu = w /\ next[w] <= Len(Todo[w]) /\ req[w] = Todo[w][next[w]]
        /\ pseq + req[w] <= gate + Size
    BY <1>1 DEF IndInv, WriterOK, Reserved
  <1>3. TypeOK'
    BY <1>1 DEF IndInv, TypeOK
  <1>4. LocalsOK'
    <2>1. buf' \in [0..(Size - 1) -> Contents]
      BY <1>1, <1>2, CopiedFacts DEF IndInv, LocalsOK
    <2> QED
      BY <1>1, <2>1 DEF IndInv, LocalsOK, WLabels, SpaceWaits, Oks
  <1>5. /\ \A v \in Writers : v # w => pc'[v] = pc[v]
        /\ pc'[S] = pc[S] /\ req' = req /\ ok'[S] = ok[S]
        /\ pc'[w] = "waitForWriteSpace"
        /\ ok'[w] = IF Wraps(w) THEN "ring_copy" ELSE "commit_set"
    BY <1>1 DEF IndInv, LocalsOK
  <1>6. WriterOK(w)'
    <2>1. ok'[w] = "commit_set"
            => \A k \in 1..req[w] : buf'[(pseq + k - 1) % Size] = <<w, next[w], k>>
      <3> SUFFICES ASSUME ok'[w] = "commit_set"
                   PROVE  \A k \in 1..req[w] : buf'[(pseq + k - 1) % Size] = <<w, next[w], k>>
        OBVIOUS
      <3>1. buf' = Copied(w, req[w])
        BY <1>1, <1>5
      <3>2. req[w] \in Nat
        OBVIOUS
      <3> QED
        BY <1>2, <3>1, <3>2, CopiedFacts
    <2> QED
      BY <1>1, <1>2, <1>5, <2>1 DEF WriterOK, Reserved, Placed, SpaceWaits
  <1>7. SleepOK(w)'
    BY <1>1, <1>5 DEF IndInv, SleepOK
  <1>8. pseq' <= cseq + Size /\ pseq <= pseq' /\ gate' <= cseq
    BY <1>1 DEF IndInv, SenderOK
  <1> QED
    BY <1>1, <1>3, <1>4, <1>5, <1>6, <1>7, <1>8, WriterFrame

\* An encoding that fails.
LEMMA EncodeFailsStep ==
  ASSUME IndInv, NEW w \in Writers, EncodeFails(w)
  PROVE  IndInv'
  <1> USE Numbers, Goroutines
  <1>1. /\ pc[w] = "encode" /\ pc' = [pc EXCEPT ![w] = "fail"]
        /\ UNCHANGED <<pseq, cseq, gate, done, pmutex, cmutex, pwaiters, cwaiters, req, ok, ppos,
                       wmu, next, wire, faulty, connClosed, cut>>
    BY DEF EncodeFails, Goto
  <1>2. /\ wmu = w /\ next[w] <= Len(Todo[w])
        /\ pseq + req[w] <= gate + Size
    BY <1>1 DEF IndInv, WriterOK, Reserved
  <1>3. TypeOK'
    BY <1>1 DEF IndInv, TypeOK
  <1>4. LocalsOK'
    <2>0. PICK n \in 0..req[w] : buf' = IF Wraps(w) THEN buf ELSE Copied(w, n)
      BY DEF EncodeFails
    <2>1. n \in Nat /\ pseq + n <= gate + Size
      BY <1>2
    <2>2. buf' \in [0..(Size - 1) -> Contents]
      BY <2>0, <2>1, CopiedFacts DEF IndInv, LocalsOK
    <2> QED
      BY <1>1, <2>2 DEF IndInv, LocalsOK, WLabels
  <1>5. /\ \A v \in Writers : v # w => pc'[v] = pc[v]
        /\ pc'[S] = pc[S] /\ pc'[w] = "fail"
    BY <1>1 DEF IndInv, LocalsOK
  <1>6. WriterOK(w)'
    BY <1>1, <1>2, <1>5 DEF WriterOK, Reserved, Placed, SpaceWaits
  <1>7. SleepOK(w)'
    BY <1>1, <1>5 DEF IndInv, SleepOK
  <1>8. pseq' <= cseq + Size /\ pseq <= pseq' /\ gate' <= cseq
    BY <1>1 DEF IndInv, SenderOK
  <1> QED
    BY <1>1, <1>3, <1>4, <1>5, <1>6, <1>7, <1>8, WriterFrame

\* ringCopy.
LEMMA RingCopyStep ==
  ASSUME IndInv, NEW w \in Writers, RingCopy(w)
  PROVE  IndInv'
  <1> USE Numbers, Goroutines
  <1>1. /\ pc[w] = "ring_copy" /\ pc' = [pc EXCEPT ![w] = "commit_set"]
        /\ buf' = Copied(w, req[w])
        /\ UNCHANGED <<pseq, cseq, gate, done, pmutex, cmutex, pwaiters, cwaiters, req, ok, ppos,
                       wmu, next, wire, faulty, connClosed, cut>>
    BY DEF RingCopy, Goto
  <1>2. /\ wmu = w /\ next[w] <= Len(Todo[w]) /\ req[w] = Todo[w][next[w]]
        /\ pseq + req[w] <= gate + Size
    BY <1>1 DEF IndInv, WriterOK, Reserved
  <1>3. TypeOK'
    BY <1>1 DEF IndInv, TypeOK
  <1>4. LocalsOK'
    <2>1. buf' \in [0..(Size - 1) -> Contents]
      BY <1>1, <1>2, CopiedFacts
    <2> QED
      BY <1>1, <2>1 DEF IndInv, LocalsOK, WLabels
  <1>5. /\ \A v \in Writers : v # w => pc'[v] = pc[v]
        /\ pc'[S] = pc[S] /\ pc'[w] = "commit_set"
    BY <1>1 DEF IndInv, LocalsOK
  <1>6. WriterOK(w)'
    <2>1. \A k \in 1..req[w] : buf'[(pseq + k - 1) % Size] = <<w, next[w], k>>
      BY <1>1, <1>2, CopiedFacts
    <2> QED
      BY <1>1, <1>2, <1>5, <2>1 DEF WriterOK, Reserved, Placed, SpaceWaits
  <1>7. SleepOK(w)'
    BY <1>1, <1>5 DEF IndInv, SleepOK
  <1>8. pseq' <= cseq + Size /\ pseq <= pseq' /\ gate' <= cseq
    BY <1>1 DEF IndInv, SenderOK
  <1> QED
    BY <1>1, <1>3, <1>4, <1>5, <1>6, <1>7, <1>8, WriterFrame

\* pseq moves over the packet.
LEMMA CommitStep ==
  ASSUME IndInv, NEW w \in Writers, Commit(w)
  PROVE  IndInv'
  <1> USE Numbers, Goroutines
  <1>1. /\ pc[w] = "commit_set" /\ pc' = [pc EXCEPT ![w] = "commit_broadcast"]
        /\ pseq' = pseq + req[w]
        /\ next' = [next EXCEPT ![w] = next[w] + 1]
        /\ UNCHANGED <<cseq, gate, done, buf, pmutex, cmutex, pwaiters, cwaiters, req, ok, ppos,
                       wmu, wire, faulty, connClosed, cut>>
    BY DEF Commit, CommitSet, Goto
  <1>2. /\ wmu = w /\ next[w] <= Len(Todo[w]) /\ req[w] = Todo[w][next[w]]
        /\ pseq + req[w] <= gate + Size
    BY <1>1 DEF IndInv, WriterOK, Reserved
  <1>3. TypeOK'
    <2>1. \A v \in Writers : next'[v] \in 1..(Len(Todo[v]) + 1)
      <3> TAKE v \in Writers
      <3>1. next[v] \in 1..(Len(Todo[v]) + 1) /\ Len(Todo[v]) \in Nat /\ next \in [Writers -> Nat]
        BY DEF IndInv, TypeOK, LocalsOK
      <3>2. CASE v = w
        <4>1. next'[v] = next[v] + 1 /\ next[v] <= Len(Todo[v])
          BY <1>1, <1>2, <3>1, <3>2
        <4> QED
          BY SMTT(30), <3>1, <4>1
      <3>3. CASE v # w
        BY <1>1, <3>1, <3>3
      <3> QED
        BY <3>2, <3>3
    <2>2. {pseq, cseq, gate, ppos}' \subseteq Nat
      BY <1>1
    <2> QED
      BY <1>1, <2>1, <2>2 DEF IndInv, TypeOK
  <1>4. LocalsOK'
    <2>1. next' \in [Writers -> Nat]
      <3>1. next[w] + 1 \in Nat /\ next \in [Writers -> Nat]
        BY DEF IndInv, LocalsOK
      <3> QED
        BY <1>1, <3>1
    <2> QED
      BY <1>1, <2>1 DEF IndInv, LocalsOK, WLabels
  <1>5. /\ \A v \in Writers : v # w => pc'[v] = pc[v]
        /\ pc'[S] = pc[S] /\ pc'[w] = "commit_broadcast"
    BY <1>1 DEF IndInv, LocalsOK
  <1>6. WriterOK(w)'
    BY <1>1, <1>2, <1>5 DEF WriterOK, Reserved, Placed, SpaceWaits
  <1>7. SleepOK(w)'
    BY <1>1, <1>5 DEF IndInv, SleepOK
  <1>8. pseq' <= cseq + Size /\ pseq <= pseq' /\ gate' <= cseq
    <2>1. req[w] \in Nat /\ gate <= cseq
      BY DEF IndInv, SenderOK
    <2>2. pseq' <= gate + Size /\ gate' = gate
      BY <1>1, <1>2
    <2> QED
      BY <1>1, <2>1, <2>2
  <1> QED
    BY <1>1, <1>3, <1>4, <1>5, <1>6, <1>7, <1>8, WriterFrame

\* The deferred wmu.Unlock().
LEMMA UnlockStep ==
  ASSUME IndInv, NEW w \in Writers, Unlock(w)
  PROVE  IndInv'
  <1> USE Numbers, Goroutines
  <1>1. /\ pc[w] \in {"unlock", "fail"} /\ pc' = [pc EXCEPT ![w] = "idle"]
        /\ wmu' = Nobody
        /\ \/ next' = next
           \/ pc[w] = "fail" /\ next' = [next EXCEPT ![w] = next[w] + 1]
        /\ UNCHANGED <<pseq, cseq, gate, done, buf, pmutex, cmutex, pwaiters, cwaiters, req, ok,
                       ppos, wire, faulty, connClosed, cut>>
    BY DEF Unlock, Goto
  <1>2. pc[w] = "fail" => next[w] <= Len(Todo[w])
    BY DEF IndInv, WriterOK
  <1>3. TypeOK'
    <2>1. \A v \in Writers : next'[v] \in 1..(Len(Todo[v]) + 1)
      <3> TAKE v \in Writers
      <3>1. next[v] \in 1..(Len(Todo[v]) + 1) /\ Len(Todo[v]) \in Nat /\ next \in [Writers -> Nat]
        BY DEF IndInv, TypeOK, LocalsOK
      <3>2. CASE v = w /\ next' = [next EXCEPT ![w] = next[w] + 1]
        BY <1>1, <1>2, <3>1, <3>2
      <3>3. CASE v # w \/ next' = next
        BY <1>1, <3>1, <3>3
      <3> QED
        BY <1>1, <3>2, <3>3
    <2> QED
      BY <1>1, <2>1 DEF IndInv, TypeOK
  <1>4. LocalsOK'
    <2>1. next' \in [Writers -> Nat]
      <3>1. next[w] + 1 \in Nat /\ next \in [Writers -> Nat]
        BY DEF IndInv, LocalsOK
      <3> QED
        BY <1>1, <3>1
    <2> QED
      BY <1>1, <2>1 DEF IndInv, LocalsOK, WLabels
  <1>5. /\ \A v \in Writers : v # w => pc'[v] = pc[v]
        /\ pc'[S] = pc[S] /\ pc'[w] = "idle" /\ pc[w] # "idle"
    BY <1>1 DEF IndInv, LocalsOK
  <1>6. WriterOK(w)' /\ SleepOK(w)'
    <2>1. w \notin pwaiters'
      BY <1>1 DEF IndInv, SleepOK
    <2> QED
      BY <1>5, <2>1, IdleOK
  <1>8. pseq' <= cseq + Size /\ pseq <= pseq' /\ gate' <= cseq
    BY <1>1 DEF IndInv, SenderOK
  <1> QED
    BY <1>1, <1>3, <1>4, <1>5, <1>6, <1>8, WriterFrame

\* Every step of a writer keeps the invariant.
LEMMA WriterStep ==
  ASSUME IndInv, NEW w \in Writers, Writer(w)
  PROVE  IndInv'
  <1>1. CASE WriterInBuffer(w)
    BY <1>1, SpaceEnterStep, SpaceLockStep, SpaceTestStep, SpaceDoneStep, SpaceSleepStep,
       CommitBroadcastStep DEF WriterInBuffer, waitForWriteSpace
  <1> QED
    BY <1>1, WriteMessageStep, EncodeStep, EncodeFailsStep, RingCopyStep, CommitStep,
       UnlockStep
       DEF Writer

-----------------------------------------------------------------------------
(* The sender and stop.                                                    *)

\* A step of the sender or of stop leaves the writers where they are; it may wake them.
LEMMA SenderFrame ==
  ASSUME IndInv, TypeOK', LocalsOK', SenderOK',
         UNCHANGED <<pseq, gate, buf, next, wmu, pmutex>>,
         \A v \in Writers : pc'[v] = pc[v] /\ req'[v] = req[v] /\ ok'[v] = ok[v],
         pwaiters' \subseteq pwaiters,
         \/ cseq' = cseq /\ (pc[S] = "readcommit_broadcast" => pc'[S] = pc[S])
         \/ pc'[S] = "readcommit_broadcast"
         \/ pmutex = Nobody /\ pwaiters' = {}
  PROVE  IndInv'
  <1> USE Goroutines
  <1> SUFFICES ASSUME NEW v \in Writers PROVE WriterOK(v)' /\ SleepOK(v)'
    BY DEF IndInv
  <1>1. WriterOK(v) /\ SleepOK(v)
    BY DEF IndInv
  <1>2. WriterOK(v)'
    BY <1>1 DEF WriterOK, Reserved, Placed
  <1>3. wrap(v)' = wrap(v)
    BY DEF wrap
  <1>4. SleepOK(v)'
    BY <1>1, <1>3 DEF SleepOK
  <1> QED
    BY <1>2, <1>4

\* The loop of WriteTo.
LEMMA WriteToLoopStep ==
  ASSUME IndInv, WriteToLoop
  PROVE  IndInv'
  <1> USE Numbers, Goroutines
  <1>1. /\ pc[S] = "writeto"
        /\ \/ pc' = [pc EXCEPT ![S] = "close"] /\ UNCHANGED <<req, ok>>
           \/ /\ pc' = [pc EXCEPT ![S] = "waitForData"]
              /\ req' = [req EXCEPT ![S] = 1] /\ ok' = [ok EXCEPT ![S] = "socket_write"]
        /\ UNCHANGED <<pseq, cseq, gate, done, buf, pmutex, cmutex, pwaiters, cwaiters, ppos,
                       wmu, next, wire, faulty, connClosed, cut>>
    BY DEF WriteToLoop, Call, Goto
  <1>2. TypeOK'
    BY <1>1 DEF IndInv, TypeOK
  <1>3. LocalsOK'
    <2>1. CASE pc' = [pc EXCEPT ![S] = "close"] /\ UNCHANGED <<req, ok>>
      BY <1>1, <2>1 DEF IndInv, LocalsOK, SLabels, Closing
    <2>2. CASE /\ pc' = [pc EXCEPT ![S] = "waitForData"]
               /\ req' = [req EXCEPT ![S] = 1] /\ ok' = [ok EXCEPT ![S] = "socket_write"]
      BY <1>1, <2>2 DEF IndInv, LocalsOK, SLabels, DataWaits, Oks
    <2> QED
      BY <1>1, <2>1, <2>2
  <1>4. /\ \A v \in Writers : pc'[v] = pc[v] /\ req'[v] = req[v] /\ ok'[v] = ok[v]
        /\ pc'[S] = "close" \/ (pc'[S] = "waitForData" /\ ok'[S] = "socket_write")
    BY <1>1 DEF IndInv, LocalsOK
  <1>5. SenderOK'
    BY <1>1, <1>4 DEF IndInv, SenderOK, DataWaits
  <1> QED
    BY <1>1, <1>2, <1>3, <1>4, <1>5, SenderFrame

\* What ReadPeek returns: at least a byte, at most a block, the first of those unread.
LEMMA PeekedFacts ==
  ASSUME IndInv, pc[S] = "socket_write"
  PROVE  /\ Peeked \in Seq(Contents)
         /\ Len(Peeked) \in 1..Block /\ Len(wire) + Len(Peeked) <= pseq
         /\ \A i \in 1..Len(Peeked) : Peeked[i] = buf[(Len(wire) + i - 1) % Size]
  <1> USE Numbers
  <1>1. Len(wire) = cseq /\ cseq < ppos /\ ppos <= pseq
    BY DEF IndInv, SenderOK
  <1> DEFINE n == IF ppos - cseq >= Block THEN Block ELSE ppos - cseq
  <1>2. n \in 1..Block /\ cseq + n <= pseq /\ n \in Nat
    BY <1>1
  <1>3. Peeked = [i \in 1..n |-> buf[(cseq + i - 1) % Size]]
    BY DEF Peeked
  <1> HIDE DEF n
  <1>4. \A i \in 1..n : buf[(cseq + i - 1) % Size] \in Contents
    <2> TAKE i \in 1..n
    <2>1. (cseq + i - 1) % Size \in 0..(Size - 1)
      OBVIOUS
    <2> QED
      BY <2>1 DEF IndInv, LocalsOK
  <1>5. Peeked \in [1..n -> Contents]
    BY <1>3, <1>4
  <1>6. Peeked \in Seq(Contents)
    BY <1>2, <1>5, SeqDef
  <1>7. Len(Peeked) = n
    BY <1>2, <1>5, <1>6, LenProperties
  <1> QED
    BY <1>1, <1>2, <1>3, <1>6, <1>7

\* A write to the socket that succeeds.
LEMMA SocketWriteStep ==
  ASSUME IndInv, SocketWrite
  PROVE  IndInv'
  <1> USE Numbers, Goroutines
  <1>1. /\ pc[S] = "socket_write" /\ pc' = [pc EXCEPT ![S] = "readcommit"]
        /\ wire' = wire \o Peeked
        /\ req' = [req EXCEPT ![S] = Len(Peeked)]
        /\ UNCHANGED <<pseq, cseq, gate, done, buf, pmutex, cmutex, pwaiters, cwaiters, ok, ppos,
                       wmu, next, faulty, connClosed, cut>>
    BY DEF SocketWrite, Goto
  <1>2. TypeOK'
    BY <1>1 DEF IndInv, TypeOK
  <1>3. /\ Len(Peeked) \in Nat /\ Len(wire) + Len(Peeked) <= pseq
        /\ wire' \in Seq(Contents) /\ Len(wire') = Len(wire) + Len(Peeked)
    BY <1>1, PeekedFacts, ConcatProperties DEF IndInv, LocalsOK
  <1>4. LocalsOK'
    BY <1>1, <1>3 DEF IndInv, LocalsOK, SLabels
  <1>5. /\ \A v \in Writers : pc'[v] = pc[v] /\ req'[v] = req[v]
        /\ pc'[S] = "readcommit" /\ req'[S] = Len(Peeked)
    BY <1>1 DEF IndInv, LocalsOK
  <1>6. SenderOK'
    <2>1. Len(wire) = cseq /\ S \notin cwaiters
      BY <1>1 DEF IndInv, SenderOK
    <2> QED
      BY <1>1, <1>3, <1>5, <2>1 DEF IndInv, SenderOK, DataWaits
  <1> QED
    BY <1>1, <1>2, <1>4, <1>5, <1>6, SenderFrame

\* A part of what ReadPeek returned.
LEMMA PartOfPeeked ==
  ASSUME IndInv, pc[S] = "socket_write", NEW n \in 0..Len(Peeked)
  PROVE  /\ SubSeq(Peeked, 1, n) \in Seq(Contents) /\ Len(SubSeq(Peeked, 1, n)) = n
         /\ \A i \in 1..n : SubSeq(Peeked, 1, n)[i] = buf[(Len(wire) + i - 1) % Size]
  <1>1. Peeked \in Seq(Contents) /\ Len(Peeked) \in Nat
    BY PeekedFacts
  <1>2. /\ SubSeq(Peeked, 1, n) \in Seq(Contents)
        /\ Len(SubSeq(Peeked, 1, n)) = IF 1 <= n THEN n - 1 + 1 ELSE 0
        /\ \A i \in 1..(n - 1 + 1) : SubSeq(Peeked, 1, n)[i] = Peeked[1 + i - 1]
    BY <1>1, SubSeqProperties
  <1>3. Len(SubSeq(Peeked, 1, n)) = n
    BY <1>1, <1>2
  <1>4. ASSUME NEW i \in 1..n
        PROVE  SubSeq(Peeked, 1, n)[i] = buf[(Len(wire) + i - 1) % Size]
    <2>1. i \in 1..Len(Peeked) /\ i \in 1..(n - 1 + 1) /\ 1 + i - 1 = i
      BY <1>1
    <2>2. SubSeq(Peeked, 1, n)[i] = Peeked[i]
      BY <1>2, <2>1
    <2> QED
      BY <2>1, <2>2, PeekedFacts
  <1> QED
    BY <1>2, <1>3, <1>4

\* A write to the socket that fails.
LEMMA SocketErrorStep ==
  ASSUME IndInv, SocketError
  PROVE  IndInv'
  <1> USE Numbers, Goroutines
  <1>1. /\ pc[S] = "socket_write" /\ pc' = [pc EXCEPT ![S] = "close"]
        /\ UNCHANGED <<pseq, cseq, gate, done, buf, pmutex, cmutex, pwaiters, cwaiters, req, ok,
                       ppos, wmu, next, faulty, connClosed, cut>>
    BY DEF SocketError, Goto
  <1>2. PICK n \in 0..Len(Peeked) : wire' = wire \o SubSeq(Peeked, 1, n)
    BY DEF SocketError
  <1>3. TypeOK'
    BY <1>1 DEF IndInv, TypeOK
  <1>4. SubSeq(Peeked, 1, n) \in Seq(Contents) /\ Len(SubSeq(Peeked, 1, n)) = n
    BY <1>1, PartOfPeeked
  <1>5. /\ Len(Peeked) \in Nat /\ Len(wire) + Len(Peeked) <= pseq
        /\ wire' \in Seq(Contents) /\ Len(wire') = Len(wire) + n
    BY SMTT(30), <1>1, <1>2, <1>4, PeekedFacts, ConcatProperties DEF IndInv, LocalsOK
  <1>6. LocalsOK'
    BY <1>1, <1>5 DEF IndInv, LocalsOK, SLabels, Closing
  <1>7. /\ \A v \in Writers : pc'[v] = pc[v]
        /\ pc'[S] = "close"
    BY <1>1 DEF IndInv, LocalsOK
  <1>8. SenderOK'
    <2>1. Len(wire) = cseq /\ S \notin cwaiters /\ n \in Nat
      BY <1>1, <1>5 DEF IndInv, SenderOK
    <2> QED
      BY <1>1, <1>5, <1>7, <2>1 DEF IndInv, SenderOK, DataWaits
  <1> QED
    BY <1>1, <1>3, <1>6, <1>7, <1>8, SenderFrame

\* cseq.get() and pseq.get().
LEMMA DataEnterStep ==
  ASSUME IndInv, DataEnter(S), UNCHANGED <<wmu, next, wire, faulty, connClosed, cut>>
  PROVE  IndInv'
  <1> USE Numbers, Goroutines
  <1>1. /\ pc[S] = "waitForData" /\ pc' = [pc EXCEPT ![S] = "data_lock"] /\ ppos' = pseq
        /\ ok[S] = "socket_write"
        /\ UNCHANGED <<pseq, cseq, gate, done, buf, pmutex, cmutex, pwaiters, cwaiters, req, ok>>
    BY DEF IndInv, LocalsOK, SenderOK, DataWaits, DataEnter, Goto
  <1>2. TypeOK'
    BY <1>1 DEF IndInv, TypeOK
  <1>3. LocalsOK'
    BY <1>1 DEF IndInv, LocalsOK, SLabels, DataWaits
  <1>4. /\ \A v \in Writers : pc'[v] = pc[v]
        /\ pc'[S] = "data_lock"
    BY <1>1 DEF IndInv, LocalsOK
  <1>5. SenderOK'
    BY <1>1, <1>4 DEF IndInv, SenderOK, TypeOK, DataWaits
  <1> QED
    BY <1>1, <1>2, <1>3, <1>4, <1>5, SenderFrame

\* ccond.L.Lock().
LEMMA DataLockStep ==
  ASSUME IndInv, DataLock(S), UNCHANGED <<wmu, next, wire, faulty, connClosed, cut>>
  PROVE  IndInv'
  <1> USE Numbers, Goroutines
  <1>1. /\ pc[S] \in {"data_lock", "data_asleep"} /\ pc' = [pc EXCEPT ![S] = "data_test"]
        /\ ppos' \in {ppos, pseq} /\ S \notin cwaiters /\ cmutex' = S
        /\ ok[S] = "socket_write"
        /\ UNCHANGED <<pseq, cseq, gate, done, buf, pmutex, pwaiters, cwaiters, req, ok>>
    BY DEF IndInv, LocalsOK, SenderOK, DataWaits, DataLock, Goto
  <1>2. TypeOK'
    BY <1>1 DEF IndInv, TypeOK
  <1>3. LocalsOK'
    BY <1>1 DEF IndInv, LocalsOK, SLabels, DataWaits
  <1>4. /\ \A v \in Writers : pc'[v] = pc[v]
        /\ pc'[S] = "data_test"
    BY <1>1 DEF IndInv, LocalsOK
  <1>5. SenderOK'
    BY <1>1, <1>4 DEF IndInv, SenderOK, TypeOK, DataWaits
  <1> QED
    BY <1>1, <1>2, <1>3, <1>4, <1>5, SenderFrame

\* The loop test on the copy of pseq.
LEMMA DataTestStep ==
  ASSUME IndInv, DataTest(S, 1), UNCHANGED <<wmu, next, wire, faulty, connClosed, cut>>
  PROVE  IndInv'
  <1> USE Numbers, Goroutines
  <1>1. /\ pc[S] = "data_test" /\ ok[S] = "socket_write" /\ cmutex' \in {cmutex, Nobody}
        /\ pc' = [pc EXCEPT ![S] = IF cseq + 1 > ppos THEN "data_done" ELSE "socket_write"]
        /\ UNCHANGED <<pseq, cseq, gate, done, buf, pmutex, pwaiters, cwaiters, req, ok, ppos>>
    BY DEF IndInv, LocalsOK, SenderOK, DataWaits, DataTest, Goto
  <1>2. TypeOK'
    BY <1>1 DEF IndInv, TypeOK
  <1>3. LocalsOK'
    BY <1>1 DEF IndInv, LocalsOK, SLabels, DataWaits
  <1>4. /\ \A v \in Writers : pc'[v] = pc[v]
        /\ pc'[S] = IF cseq + 1 > ppos THEN "data_done" ELSE "socket_write"
    BY <1>1 DEF IndInv, LocalsOK
  <1>5. SenderOK'
    BY <1>1, <1>4 DEF IndInv, SenderOK, TypeOK, DataWaits
  <1> QED
    BY <1>1, <1>2, <1>3, <1>4, <1>5, SenderFrame

\* isDone inside the loop.
LEMMA DataDoneStep ==
  ASSUME IndInv, DataDone(S, "close"), UNCHANGED <<wmu, next, wire, faulty, connClosed, cut>>
  PROVE  IndInv'
  <1> USE Numbers, Goroutines
  <1>1. /\ pc[S] = "data_done" /\ ok[S] = "socket_write"
        /\ pc' = [pc EXCEPT ![S] = IF done THEN "close" ELSE "data_sleep"]
        /\ UNCHANGED <<pseq, cseq, gate, done, buf, pmutex, cmutex, pwaiters, cwaiters,
                       req, ok, ppos>>
    BY DEF IndInv, LocalsOK, SenderOK, DataWaits, DataDone, Goto
  <1>2. TypeOK'
    BY <1>1 DEF IndInv, TypeOK
  <1>3. LocalsOK'
    BY <1>1 DEF IndInv, LocalsOK, SLabels, DataWaits, Closing
  <1>4. /\ \A v \in Writers : pc'[v] = pc[v]
        /\ pc'[S] \in {"close", "data_sleep"}
    BY <1>1 DEF IndInv, LocalsOK
  <1>5. SenderOK'
    BY <1>1, <1>4 DEF IndInv, SenderOK, TypeOK, DataWaits
  <1> QED
    BY <1>1, <1>2, <1>3, <1>4, <1>5, SenderFrame

\* ccond.Wait().
LEMMA DataSleepStep ==
  ASSUME IndInv, DataSleep(S), UNCHANGED <<wmu, next, wire, faulty, connClosed, cut>>
  PROVE  IndInv'
  <1> USE Numbers, Goroutines
  <1>1. /\ pc[S] = "data_sleep" /\ ok[S] = "socket_write"
        /\ pc' = [pc EXCEPT ![S] = "data_asleep"]
        /\ cwaiters' = cwaiters \cup {S} /\ cmutex' = Nobody
        /\ UNCHANGED <<pseq, cseq, gate, done, buf, pmutex, pwaiters, req, ok, ppos>>
    BY DEF IndInv, LocalsOK, SenderOK, DataWaits, DataSleep, Goto
  <1>2. TypeOK'
    BY <1>1 DEF IndInv, TypeOK
  <1>3. LocalsOK'
    BY <1>1 DEF IndInv, LocalsOK, SLabels, DataWaits
  <1>4. /\ \A v \in Writers : pc'[v] = pc[v]
        /\ pc'[S] = "data_asleep"
    BY <1>1 DEF IndInv, LocalsOK
  <1>5. SenderOK'
    BY <1>1, <1>4 DEF IndInv, SenderOK, TypeOK, DataWaits
  <1> QED
    BY <1>1, <1>2, <1>3, <1>4, <1>5, SenderFrame

\* cseq moves over what was written.
LEMMA ReadCommitStep ==
  ASSUME IndInv, ReadCommit(S, "readcommit", req[S]),
         UNCHANGED <<wmu, next, wire, faulty, connClosed, cut>>
  PROVE  IndInv'
  <1> USE Numbers, Goroutines
  <1>1. /\ pc[S] = "readcommit" /\ pc' = [pc EXCEPT ![S] = "readcommit_broadcast"]
        /\ cseq' = cseq + req[S] /\ cseq' = Len(wire) /\ cseq <= cseq'
        /\ UNCHANGED <<pseq, gate, done, buf, pmutex, cmutex, pwaiters, cwaiters,
                       req, ok, ppos>>
    BY DEF IndInv, LocalsOK, SenderOK, DataWaits, ReadCommit, Goto
  <1>2. TypeOK'
    BY <1>1 DEF IndInv, TypeOK
  <1>3. LocalsOK'
    BY <1>1 DEF IndInv, LocalsOK, SLabels
  <1>4. /\ \A v \in Writers : pc'[v] = pc[v]
        /\ pc'[S] = "readcommit_broadcast"
    BY <1>1 DEF IndInv, LocalsOK
  <1>5. SenderOK'
    BY <1>1, <1>4 DEF IndInv, SenderOK, TypeOK, DataWaits
  <1> QED
    BY <1>1, <1>2, <1>3, <1>4, <1>5, SenderFrame

\* The broadcast of ReadCommit.
LEMMA ReadCommitBroadcastStep ==
  ASSUME IndInv, ReadCommitBroadcast(S, "writeto"),
         UNCHANGED <<wmu, next, wire, faulty, connClosed, cut>>
  PROVE  IndInv'
  <1> USE Numbers, Goroutines
  <1>1. /\ pc[S] = "readcommit_broadcast" /\ pc' = [pc EXCEPT ![S] = "writeto"]
        /\ pmutex = Nobody /\ pwaiters' = {}
        /\ UNCHANGED <<pseq, cseq, gate, done, buf, pmutex, cmutex, cwaiters, req, ok, ppos>>
    BY DEF IndInv, LocalsOK, SenderOK, DataWaits, ReadCommitBroadcast, Goto
  <1>2. TypeOK'
    BY <1>1 DEF IndInv, TypeOK
  <1>3. LocalsOK'
    BY <1>1 DEF IndInv, LocalsOK, SLabels
  <1>4. /\ \A v \in Writers : pc'[v] = pc[v]
        /\ pc'[S] = "writeto"
    BY <1>1 DEF IndInv, LocalsOK
  <1>5. SenderOK'
    BY <1>1, <1>4 DEF IndInv, SenderOK, TypeOK, DataWaits
  <1> QED
    BY <1>1, <1>2, <1>3, <1>4, <1>5, SenderFrame

\* Close, by the sender or by stop.
LEMMA CloseStep ==
  ASSUME IndInv, NEW t \in {S, T}, NEW end, end = (IF t = S THEN "ended" ELSE "stop_wait"),
         Close(t, end), UNCHANGED <<wmu, next, wire, faulty, connClosed, cut>>
  PROVE  IndInv'
  <1> USE Numbers, Goroutines
  <1>1. /\ pc[t] \in Closing
        /\ \E l \in Closing \cup {end} : pc' = [pc EXCEPT ![t] = l]
        /\ done' \in {done, TRUE}
        /\ \/ pwaiters' = pwaiters
           \/ pmutex = Nobody /\ pwaiters' = {}
        /\ cwaiters' \subseteq cwaiters
        /\ UNCHANGED <<pseq, cseq, gate, buf, pmutex, cmutex, req, ok, ppos>>
    <2>1. CASE CloseDone(t)
      BY <2>1 DEF CloseDone, Goto, Closing
    <2>2. CASE ClosePcond(t)
      BY <2>2 DEF ClosePcond, Goto, Closing
    <2>3. CASE CloseCcond(t, end)
      BY <2>3 DEF CloseCcond, Goto, Closing
    <2> QED
      BY <2>1, <2>2, <2>3 DEF Close
  <1>2. TypeOK'
    BY <1>1 DEF IndInv, TypeOK
  <1>3. PICK l \in Closing \cup {end} : pc' = [pc EXCEPT ![t] = l]
    BY <1>1
  <1>4. LocalsOK'
    <2>1. CASE t = S
      BY <1>1, <1>3, <2>1 DEF IndInv, LocalsOK, SLabels, Closing
    <2>2. CASE t = T
      BY <1>1, <1>3, <2>2 DEF IndInv, LocalsOK, TLabels, Closing
    <2> QED
      BY <2>1, <2>2
  <1>5. /\ \A v \in Writers : pc'[v] = pc[v]
        /\ pc'[S] = pc[S] \/ (pc[S] \in Closing /\ pc'[S] \in Closing \cup {"ended"})
    <2>1. CASE t = S
      BY <1>1, <1>3, <2>1 DEF IndInv, LocalsOK
    <2>2. CASE t = T
      BY <1>1, <1>3, <2>2 DEF IndInv, LocalsOK
    <2> QED
      BY <2>1, <2>2
  <1>6. pc[S] = "readcommit_broadcast" => pc'[S] = pc[S]
    BY <1>5 DEF Closing
  <1>7. SenderOK'
    <2>1. CASE pc'[S] = pc[S]
      BY <1>1, <2>1 DEF IndInv, SenderOK
    <2>2. CASE pc[S] \in Closing /\ pc'[S] \in Closing \cup {"ended"}
      <3>1. S \notin cwaiters'
        BY <1>1, <2>2 DEF IndInv, SenderOK, Closing
      <3> QED
        BY <1>1, <2>2, <3>1 DEF IndInv, SenderOK, Closing, DataWaits
    <2> QED
      BY <1>5, <2>1, <2>2
  <1> QED
    BY <1>1, <1>2, <1>4, <1>5, <1>6, <1>7, SenderFrame

\* Every step of the sender keeps the invariant.
LEMMA SenderStep ==
  ASSUME IndInv, Sender
  PROVE  IndInv'
  <1>1. CASE SenderInBuffer
    <2>1. CASE waitForData(S, 1, "close")
      BY <1>1, <2>1, DataEnterStep, DataLockStep, DataTestStep, DataDoneStep, DataSleepStep
         DEF SenderInBuffer, waitForData
    <2>2. CASE Close(S, "ended")
      BY <1>1, <2>2, CloseStep DEF SenderInBuffer
    <2> QED
      BY <1>1, <2>1, <2>2, ReadCommitStep, ReadCommitBroadcastStep DEF SenderInBuffer
  <1> QED
    BY <1>1, WriteToLoopStep, SocketWriteStep, SocketErrorStep DEF Sender

\* Every step of stop keeps the invariant.
LEMMA StopperStep ==
  ASSUME IndInv, Stopper
  PROVE  IndInv'
  <1> USE Numbers, Goroutines
  <1>1. CASE StopInBuffer
    BY <1>1, CloseStep DEF StopInBuffer
  <1>2. CASE Disconnect \/ Stop \/ StopWait
    <2>1. /\ pc[T] \in TLabels
          /\ \E l \in {"stop", "close", "stopped"} : pc' = [pc EXCEPT ![T] = l]
          /\ connClosed' \in {connClosed, TRUE} /\ cut' \in {cut, Len(wire)}
          /\ UNCHANGED <<pseq, cseq, gate, done, buf, pmutex, cmutex, pwaiters, cwaiters, req, ok,
                         ppos, wmu, next, wire, faulty>>
      BY <1>2 DEF Disconnect, Stop, StopWait, Goto, IndInv, LocalsOK
    <2>2. TypeOK'
      BY <2>1 DEF IndInv, TypeOK
    <2>3. LocalsOK'
      BY <2>1 DEF IndInv, LocalsOK, TLabels, Closing
    <2>4. pc'[S] = pc[S] /\ \A v \in Writers : pc'[v] = pc[v]
      BY <2>1 DEF IndInv, LocalsOK
    <2>5. SenderOK'
      BY <2>1, <2>4 DEF IndInv, SenderOK
    <2> QED
      BY <2>1, <2>2, <2>3, <2>4, <2>5, SenderFrame
  <1> QED
    BY <1>1, <1>2 DEF Stopper

\* The invariant is inductive.
LEMMA NextIndInv == IndInv /\ [Next]_vars => IndInv'
  <1> SUFFICES ASSUME IndInv, [Next]_vars PROVE IndInv'
    OBVIOUS
  <1>1. CASE UNCHANGED vars
    BY SMTT(30), <1>1 DEF vars, bufVars, IndInv, TypeOK, LocalsOK, WriterOK, SleepOK, SenderOK,
                Reserved,
                Placed, wrap
  <1>2. CASE Next
    BY <1>2, WriterStep, SenderStep, StopperStep DEF Next
  <1> QED
    BY <1>1, <1>2

\* The invariant holds in every behaviour.
THEOREM Invariance == Spec => []IndInv
  BY InitIndInv, NextIndInv, PTL DEF Spec

\* Type correctness: waits of writers and sender never mix up the condition variables.
THEOREM TypeCorrect == Spec => []TypeOK
  <1>1. IndInv => TypeOK
    BY DEF IndInv
  <1> QED
    BY <1>1, Invariance, PTL

\* Sender and writers never wait for each other, but for the stale copy of pseq in
\* ReadPeek and for packets that are longer than the ring.
THEOREM StallCorrect == Spec => []StallCause
  <1>1. IndInv => StallCause
    <2> SUFFICES ASSUME IndInv, NEW w \in Writers, w \in pwaiters, S \in cwaiters,
                        ~(ppos < pseq)
                 PROVE  req[w] > Size
      BY DEF StallCause
    <2>1. ppos <= cseq /\ ppos <= pseq /\ cseq <= Len(wire) /\ Len(wire) <= pseq
          /\ pc[S] = "data_asleep"
      BY DEF IndInv, SenderOK
    <2>2. wrap(w) > cseq
      BY <2>1 DEF IndInv, SleepOK
    <2>3. cseq = pseq
      BY <2>1, Numbers
    <2>4. req[w] \in Nat /\ pseq \in Nat /\ Size \in Nat
      BY Numbers
    <2> QED
      BY <2>2, <2>3, <2>4 DEF wrap
  <1> QED
    BY <1>1, Invariance, PTL

-----------------------------------------------------------------------------
(* Refinement of SendPipe.                                                 *)

\* Slots of a ring in turn are a sequence of bytes.
LEMMA SlotsSeq ==
  ASSUME NEW b \in [0..(Size - 1) -> Contents], NEW m \in Nat, NEW n \in Nat
  PROVE  LET q == [i \in 1..n |-> b[(m + i - 1) % Size]]
         IN  /\ q \in Seq(Contents) /\ Len(q) = n
             /\ \A i \in 1..n : q[i] = b[(m + i - 1) % Size]
  <1> DEFINE q == [i \in 1..n |-> b[(m + i - 1) % Size]]
  <1>1. \A i \in 1..n : b[(m + i - 1) % Size] \in Contents
    <2> TAKE i \in 1..n
    <2>1. (m + i - 1) % Size \in 0..(Size - 1)
      BY RingBufferAssumption
    <2> QED
      BY <2>1
  <1>2. q \in [1..n -> Contents]
    BY <1>1
  <1>3. \A i \in 1..n : q[i] = b[(m + i - 1) % Size]
    OBVIOUS
  <1> HIDE DEF q
  <1>4. q \in Seq(Contents)
    BY <1>2, SeqDef
  <1>5. Len(q) = n
    BY <1>2, <1>4, LenProperties
  <1> QED
    BY <1>3, <1>4, <1>5 DEF q

\* The mapping is well defined: a sequence of bytes as long as what is committed and not
\* yet on the wire.
LEMMA UnsentIsSeq ==
  ASSUME IndInv
  PROVE  /\ Unsent \in Seq(Contents) /\ Len(Unsent) = pseq - Len(wire) /\ Len(Unsent) \in Nat
         /\ \A i \in 1..(pseq - Len(wire)) : Unsent[i] = buf[(Len(wire) + i - 1) % Size]
  <1>1. pseq - Len(wire) \in Nat /\ Len(wire) \in Nat
    BY Numbers DEF IndInv, SenderOK
  <1>2. buf \in [0..(Size - 1) -> Contents]
    BY DEF IndInv, LocalsOK
  <1> DEFINE n == pseq - Len(wire)
             m == Len(wire)
  <1>3. Unsent = [i \in 1..n |-> buf[(m + i - 1) % Size]]
    BY DEF Unsent
  <1> SUFFICES /\ Unsent \in Seq(Contents) /\ Len(Unsent) = n
               /\ \A i \in 1..n : Unsent[i] = buf[(m + i - 1) % Size]
    BY <1>1
  <1> HIDE DEF n, m
  <1>4. n \in Nat /\ m \in Nat
    BY <1>1 DEF n, m
  <1> QED
    BY ZenonT(40), <1>2, <1>3, <1>4, SlotsSeq

\* A step that moves neither pseq nor the wire and stores behind pseq only is not seen.
LEMMA StoreUnseen ==
  ASSUME IndInv, UNCHANGED <<pseq, wire, next, cut>>,
         \A p \in Len(wire)..(pseq - 1) : buf'[p % Size] = buf[p % Size]
  PROVE  UNCHANGED <<next, Unsent, wire, cut>>
  <1> USE Numbers
  <1>1. Unsent = [i \in 1..(pseq - Len(wire)) |-> buf[(Len(wire) + i - 1) % Size]]
    BY DEF Unsent
  <1>2. Unsent' = [i \in 1..(pseq - Len(wire)) |-> buf'[(Len(wire) + i - 1) % Size]]
    BY DEF Unsent
  <1>3. \A i \in 1..(pseq - Len(wire)) :
          buf'[(Len(wire) + i - 1) % Size] = buf[(Len(wire) + i - 1) % Size]
    <2> TAKE i \in 1..(pseq - Len(wire))
    <2>1. Len(wire) + i - 1 \in Len(wire)..(pseq - 1)
      OBVIOUS
    <2> QED
      BY <2>1
  <1>4. Unsent' = Unsent
    BY <1>1, <1>2, <1>3
  <1> QED
    BY <1>4

\* Storing a packet, or a part of it, is not seen.
LEMMA CopyUnseen ==
  ASSUME IndInv, NEW w \in Writers, NEW n \in 0..req[w], pc[w] \in {"encode", "ring_copy"},
         UNCHANGED <<pseq, wire, next, cut>>, buf' \in {buf, Copied(w, n)}
  PROVE  UNCHANGED <<next, Unsent, wire, cut>>
  <1>1. pseq + req[w] <= gate + Size
    BY DEF IndInv, WriterOK, Reserved
  <1>2. pseq \in Nat /\ gate \in Nat /\ Size \in Nat /\ req[w] \in Nat
    BY Numbers
  <1>3. n \in Nat /\ pseq + n <= gate + Size
    BY <1>1, <1>2
  <1>4. \A p \in Len(wire)..(pseq - 1) : buf'[p % Size] = buf[p % Size]
    BY <1>3, CopiedFacts
  <1> QED
    BY <1>4, StoreUnseen

\* Moving pseq over a packet puts all its bytes.
LEMMA CommitPuts ==
  ASSUME IndInv, NEW w \in Writers, Commit(w)
  PROVE  Pipe!Put(w)
  <1> DEFINE l == req[w]
             packet == [k \in 1..Todo[w][next[w]] |-> <<w, next[w], k>>]
             both == Unsent \o packet
             u == Len(Unsent)
             m == Len(wire)
  <1>0. pseq \in Nat /\ gate \in Nat /\ cseq \in Nat /\ Size \in Nat /\ m \in Nat
    BY Numbers
  <1>1. /\ pc[w] = "commit_set" /\ pseq' = pseq + l /\ wire' = wire /\ buf' = buf /\ cut' = cut
        /\ next' = [next EXCEPT ![w] = next[w] + 1]
    BY DEF Commit, CommitSet, Goto
  <1>2. /\ next[w] <= Len(Todo[w]) /\ l = Todo[w][next[w]]
        /\ pseq + l <= gate + Size
        /\ \A k \in 1..l : buf[(pseq + k - 1) % Size] = <<w, next[w], k>>
    BY <1>1 DEF IndInv, WriterOK, Reserved, Placed
  <1>3. next[w] \in 1..Len(Todo[w]) /\ l \in Nat \ {0} /\ next[w] \in Nat
    BY <1>2, NextLength, Numbers
  <1>4. packet = [k \in 1..l |-> <<w, next[w], k>>]
    BY <1>2
  <1>5. /\ Unsent \in Seq(Contents) /\ u = pseq - m /\ u \in Nat
        /\ \A i \in 1..u : Unsent[i] = buf[(m + i - 1) % Size]
    BY UnsentIsSeq
  <1>6. /\ Unsent' \in Seq(Contents) /\ Len(Unsent') = u + l
        /\ \A i \in 1..(u + l) : Unsent'[i] = buf[(m + i - 1) % Size]
    <2>1. u + l \in Nat /\ pseq' - Len(wire') = u + l /\ Len(wire') = m
      BY SMTT(30), <1>0, <1>1, <1>3, <1>5
    <2>2. Unsent' = [i \in 1..(u + l) |-> buf[(m + i - 1) % Size]]
      BY <1>1, <2>1 DEF Unsent
    <2>3. buf \in [0..(Size - 1) -> Contents]
      BY DEF IndInv, LocalsOK
    <2> DEFINE n == u + l
    <2>4. n \in Nat /\ m \in Nat /\ Unsent' = [i \in 1..n |-> buf[(m + i - 1) % Size]]
      BY <1>0, <2>1, <2>2
    <2> HIDE DEF u, l, m, n
    <2>5. /\ Unsent' \in Seq(Contents) /\ Len(Unsent') = n
          /\ \A i \in 1..n : Unsent'[i] = buf[(m + i - 1) % Size]
      BY ZenonT(40), <2>3, <2>4, SlotsSeq
    <2> QED
      BY <2>5 DEF n
  <1>7. packet \in Seq(Contents) /\ Len(packet) = l
    <2> HIDE DEF l
    <2>1. packet \in [1..l -> Contents]
      <3> SUFFICES ASSUME NEW k \in 1..l PROVE <<w, next[w], k>> \in Contents
        BY <1>4
      <3> QED
        BY <1>3 DEF Contents
    <2> HIDE DEF packet
    <2>2. packet \in Seq(Contents)
      BY <1>3, <2>1, SeqDef
    <2> QED
      BY <1>3, <2>1, <2>2, LenProperties
  <1> HIDE DEF packet, l
  <1>8. /\ both \in Seq(Contents) /\ Len(both) = u + l
        /\ \A i \in 1..(u + l) : both[i] = IF i <= u THEN Unsent[i] ELSE packet[i - u]
    BY <1>5, <1>7, ConcatProperties
  <1> HIDE DEF both, u, m
  <1>9. Unsent' = both
    <2>1. Len(Unsent') = Len(both)
      BY <1>6, <1>8
    <2>2. ASSUME NEW i \in 1..(u + l) PROVE Unsent'[i] = both[i]
      <3>1. Unsent'[i] = buf[(m + i - 1) % Size] /\ i \in Nat /\ i >= 1 /\ i <= u + l
        BY <1>3, <1>5, <1>6
      <3>2. CASE i <= u
        <4>1. i \in 1..u
          BY <1>5, <3>1, <3>2
        <4> QED
          BY <1>5, <1>8, <3>1, <3>2, <4>1
      <3>3. CASE ~(i <= u)
        <4> DEFINE k == i - u
        <4>1. k \in 1..l /\ m + i - 1 = pseq + k - 1
          BY <1>0, <1>3, <1>5, <3>1, <3>3
        <4>2. both[i] = packet[k]
          BY <1>8, <3>3
        <4> HIDE DEF k
        <4>3. packet[k] = <<w, next[w], k>>
          BY <1>4, <4>1
        <4>4. buf[(pseq + k - 1) % Size] = <<w, next[w], k>>
          BY <1>2, <4>1
        <4> QED
          BY <3>1, <4>1, <4>2, <4>3, <4>4
      <3> QED
        BY <3>2, <3>3
    <2> QED
      BY <1>6, <1>8, <2>1, <2>2, SeqEqual
  <1>10. u + Todo[w][next[w]] <= Size
    <2>1. gate <= cseq /\ cseq <= m
      BY DEF IndInv, SenderOK, m
    <2> QED
      BY SMTT(30), <1>0, <1>2, <1>3, <1>5, <2>1
  <1>11. Pipe!Packet(w, next[w]) = packet
    BY DEF Pipe!Packet, packet
  <1> QED
    BY <1>1, <1>3, <1>9, <1>10, <1>11 DEF Pipe!Put, Pipe!Advance, both, u

\* Writing the first n bytes to the socket gives them.
LEMMA WriteGives ==
  ASSUME IndInv, NEW n \in 1..Len(Peeked), pc[S] = "socket_write",
         wire' = wire \o SubSeq(Peeked, 1, n), UNCHANGED <<pseq, buf, next, cut>>
  PROVE  Pipe!Give
  <1> DEFINE m == Len(wire)
             u == Len(Unsent)
             head == SubSeq(Unsent, 1, n)
             rest == SubSeq(Unsent, n + 1, u)
             part == SubSeq(Peeked, 1, n)
  <1>0. pseq \in Nat /\ m \in Nat /\ Block \in Nat
    BY Numbers
  <1>1. Len(Peeked) \in 1..Block /\ m + Len(Peeked) <= pseq
    BY PeekedFacts
  <1>2. n \in 1..Block /\ n \in Nat /\ n >= 1 /\ m + n <= pseq /\ n \in 0..Len(Peeked)
    BY <1>0, <1>1
  <1>3. /\ part \in Seq(Contents) /\ Len(part) = n
        /\ \A i \in 1..n : part[i] = buf[(m + i - 1) % Size]
    BY <1>2, PartOfPeeked
  <1>4. /\ Unsent \in Seq(Contents) /\ u = pseq - m /\ u \in Nat
        /\ \A i \in 1..u : Unsent[i] = buf[(m + i - 1) % Size]
    BY UnsentIsSeq
  <1>5. n <= u /\ u - n \in Nat
    BY <1>0, <1>2, <1>4
  <1>6. Len(wire') = m + n
    BY <1>3, ConcatProperties DEF IndInv, LocalsOK
  <1>7. /\ Unsent' \in Seq(Contents) /\ Len(Unsent') = u - n
        /\ \A i \in 1..(u - n) : Unsent'[i] = buf[((m + n) + i - 1) % Size]
    <2>1. pseq' - Len(wire') = u - n /\ m + n \in Nat
      BY <1>0, <1>2, <1>4, <1>6
    <2>2. Unsent' = [i \in 1..(u - n) |-> buf[((m + n) + i - 1) % Size]]
      BY <1>6, <2>1 DEF Unsent
    <2>3. buf \in [0..(Size - 1) -> Contents]
      BY DEF IndInv, LocalsOK
    <2> HIDE DEF u, m
    <2> QED
      BY <1>5, <2>1, <2>2, <2>3, SlotsSeq
  <1>8. /\ head \in Seq(Contents) /\ Len(head) = n
        /\ \A i \in 1..n : head[i] = Unsent[i]
    <2> HIDE DEF u
    <2>1. /\ head \in Seq(Contents)
          /\ Len(head) = IF 1 <= n THEN n - 1 + 1 ELSE 0
          /\ \A i \in 1..(n - 1 + 1) : head[i] = Unsent[1 + i - 1]
      BY <1>2, <1>4, <1>5, SubSeqProperties DEF u
    <2> HIDE DEF head
    <2> QED
      BY <1>2, <2>1
  <1>9. /\ rest \in Seq(Contents) /\ Len(rest) = u - n
        /\ \A i \in 1..(u - n) : rest[i] = Unsent[n + i]
    <2>1. n + 1 \in 1..(u + 1) /\ u \in (n + 1 - 1)..u
      BY <1>2, <1>4, <1>5
    <2>2. /\ rest \in Seq(Contents)
          /\ Len(rest) = IF n + 1 <= u THEN u - (n + 1) + 1 ELSE 0
          /\ \A i \in 1..(u - (n + 1) + 1) : rest[i] = Unsent[(n + 1) + i - 1]
      BY <1>4, <2>1, SubSeqProperties
    <2> HIDE DEF rest, u
    <2>3. Len(rest) = u - n
      BY <1>2, <1>4, <1>5, <2>2
    <2>4. ASSUME NEW i \in 1..(u - n) PROVE rest[i] = Unsent[n + i]
      <3>1. i \in 1..(u - (n + 1) + 1) /\ (n + 1) + i - 1 = n + i
        BY <1>2, <1>4, <1>5
      <3> QED
        BY <2>2, <3>1
    <2> QED
      BY <2>2, <2>3, <2>4
  <1> HIDE DEF head, rest, part, u, m
  <1>10. head = part
    <2>1. ASSUME NEW i \in 1..n PROVE head[i] = part[i]
      <3>1. i \in 1..u
        BY <1>2, <1>4, <1>5
      <3> QED
        BY <1>3, <1>4, <1>8, <3>1
    <2> QED
      BY <1>3, <1>8, <2>1, SeqEqual
  <1>11. Unsent' = rest
    <2>1. ASSUME NEW i \in 1..(u - n) PROVE Unsent'[i] = rest[i]
      <3>1. n + i \in 1..u /\ (m + n) + i - 1 = m + (n + i) - 1
        BY <1>0, <1>2, <1>4, <1>5
      <3>2. rest[i] = buf[(m + (n + i) - 1) % Size]
        BY <1>4, <1>9, <3>1
      <3> QED
        BY <1>7, <3>1, <3>2
    <2> QED
      BY <1>7, <1>9, <2>1, SeqEqual
  <1>12. wire' = wire \o head
    BY <1>10 DEF part
  <1> QED
    BY <1>2, <1>5, <1>11, <1>12 DEF Pipe!Give, head, rest, u

\* A packet that is not written is dropped whole.
LEMMA UnlockRefuses ==
  ASSUME IndInv, NEW w \in Writers, Unlock(w)
  PROVE  Pipe!Refuse(w) \/ UNCHANGED <<next, Unsent, wire, cut>>
  <1>1. UNCHANGED <<pseq, buf, wire, cut>>
    BY DEF Unlock
  <1>2. Unsent' = Unsent
    BY <1>1 DEF Unsent
  <1>3. CASE next' = next
    BY <1>1, <1>2, <1>3
  <1>4. CASE pc[w] = "fail" /\ next' = [next EXCEPT ![w] = next[w] + 1]
    <2>1. next[w] \in 1..Len(Todo[w])
      BY <1>4, NextLength DEF IndInv, WriterOK
    <2> QED
      BY <1>1, <1>2, <1>4, <2>1 DEF Pipe!Refuse, Pipe!Advance
  <1> QED
    BY <1>3, <1>4 DEF Unlock, Goto

\* Every step of a writer is one of the pipe, or is not seen.
LEMMA WriterRefines ==
  ASSUME IndInv, NEW w \in Writers, Writer(w)
  PROVE  Pipe!Put(w) \/ Pipe!Refuse(w) \/ UNCHANGED <<next, Unsent, wire, cut>>
  <1>1. CASE WriteMessage(w) \/ WriterInBuffer(w)
    <2>1. UNCHANGED <<pseq, buf, wire, next, cut>>
      BY <1>1 DEF WriteMessage, Call, WriterInBuffer, waitForWriteSpace, SpaceEnter,
                  SpaceLock,
                  SpaceTest, SpaceDone, SpaceSleep, CommitBroadcast
    <2> QED
      BY <2>1 DEF Unsent
  <1>2. req[w] \in Nat
    BY Numbers
  <1>3. CASE Encode(w)
    <2>1. /\ pc[w] = "encode" /\ UNCHANGED <<pseq, wire, next, cut>>
          /\ buf' \in {buf, Copied(w, req[w])}
      BY <1>3 DEF Encode, Goto
    <2>2. req[w] \in 0..req[w]
      BY <1>2
    <2> QED
      BY <2>1, <2>2, CopyUnseen
  <1>4. CASE EncodeFails(w)
    <2>1. pc[w] = "encode" /\ UNCHANGED <<pseq, wire, next, cut>>
      BY <1>4 DEF EncodeFails, Goto
    <2>2. PICK n \in 0..req[w] : buf' \in {buf, Copied(w, n)}
      BY <1>4 DEF EncodeFails
    <2> QED
      BY <2>1, <2>2, CopyUnseen
  <1>5. CASE RingCopy(w)
    <2>1. /\ pc[w] = "ring_copy" /\ UNCHANGED <<pseq, wire, next, cut>>
          /\ buf' \in {buf, Copied(w, req[w])}
      BY <1>5 DEF RingCopy, Goto
    <2>2. req[w] \in 0..req[w]
      BY <1>2
    <2> QED
      BY <2>1, <2>2, CopyUnseen
  <1>6. CASE Commit(w)
    BY <1>6, CommitPuts
  <1>7. CASE Unlock(w)
    BY <1>7, UnlockRefuses
  <1> QED
    BY <1>1, <1>3, <1>4, <1>5, <1>6, <1>7 DEF Writer

\* Every step of the sender is one of the pipe, or is not seen.
LEMMA SenderRefines ==
  ASSUME IndInv, Sender
  PROVE  Pipe!Give \/ UNCHANGED <<next, Unsent, wire, cut>>
  <1>1. CASE WriteToLoop \/ SenderInBuffer
    <2>1. UNCHANGED <<pseq, buf, wire, next, cut>>
      BY <1>1 DEF WriteToLoop, Call, SenderInBuffer, waitForData, DataEnter, DataLock,
                  DataTest,
                  DataDone, DataSleep, ReadCommit, ReadCommitBroadcast, Close, CloseDone,
                  ClosePcond, CloseCcond
    <2> QED
      BY <2>1 DEF Unsent
  <1>2. CASE SocketWrite
    <2>1. /\ pc[S] = "socket_write" /\ UNCHANGED <<pseq, buf, next, cut>>
          /\ wire' = wire \o Peeked
      BY <1>2 DEF SocketWrite, Goto
    <2>2. Peeked \in Seq(Contents) /\ Len(Peeked) \in 1..Len(Peeked)
      BY <2>1, PeekedFacts, LenProperties
    <2>3. SubSeq(Peeked, 1, Len(Peeked)) = Peeked
      BY <2>2, SubSeqFull
    <2> QED
      BY <2>1, <2>2, <2>3, WriteGives
  <1>3. CASE SocketError
    <2>1. pc[S] = "socket_write" /\ UNCHANGED <<pseq, buf, next, cut>>
      BY <1>3 DEF SocketError, Goto
    <2>2. PICK n \in 0..Len(Peeked) : wire' = wire \o SubSeq(Peeked, 1, n)
      BY <1>3 DEF SocketError
    <2>3. CASE n = 0
      <3>1. SubSeq(Peeked, 1, 0) = <<>>
        BY <2>1, PeekedFacts, SubSeqEmpty
      <3>2. wire' = wire
        BY <2>2, <2>3, <3>1, ConcatEmptySeq DEF IndInv, LocalsOK
      <3> QED
        BY <2>1, <3>2 DEF Unsent
    <2>4. CASE n # 0
      <3>1. n \in 1..Len(Peeked)
        BY <2>1, <2>4, PeekedFacts
      <3> QED
        BY <2>1, <2>2, <3>1, WriteGives
    <2> QED
      BY <2>3, <2>4
  <1> QED
    BY <1>1, <1>2, <1>3 DEF Sender

\* Every step is one of the pipe, or is not seen.
LEMMA NextRefines ==
  ASSUME IndInv, [Next]_vars
  PROVE  [Pipe!Next]_(Pipe!vars)
  <1> SUFFICES Pipe!Next \/ UNCHANGED <<next, Unsent, wire, cut>>
    BY DEF Pipe!vars
  <1>1. CASE UNCHANGED vars
    BY <1>1 DEF vars, bufVars, Unsent
  <1>2. CASE Sender
    BY <1>2, SenderRefines DEF Pipe!Next
  <1>3. CASE Stopper
    <2>1. UNCHANGED <<pseq, buf, wire, next>>
      BY <1>3 DEF Stopper, Disconnect, Stop, StopWait, StopInBuffer, Close, CloseDone, ClosePcond,
                  CloseCcond
    <2>2. Unsent' = Unsent
      BY <2>1 DEF Unsent
    <2>3. CASE Disconnect
      <3>1. cut = NoCut /\ cut' = Len(wire)
        BY <2>3 DEF Disconnect, Goto, IndInv, LocalsOK
      <3> QED
        BY <2>1, <2>2, <3>1 DEF Pipe!Next, Pipe!Cut, NoCut
    <2>4. CASE Stop \/ StopWait \/ StopInBuffer
      BY <2>1, <2>2, <2>4 DEF Stop, StopWait, StopInBuffer
    <2> QED
      BY <1>3, <2>3, <2>4 DEF Stopper
  <1>4. CASE \E w \in Writers : Writer(w)
    BY <1>4, WriterRefines DEF Pipe!Next
  <1> QED
    BY <1>1, <1>2, <1>3, <1>4 DEF Next

\* The outgoing half of a connection is a bounded pipe into which the packets of all
\* writers go whole, whatever fails: no packet is torn by another or reordered, and one
\* DISCONNECT at most goes past the pipe.
THEOREM Refinement == Spec => ImplementsSendPipe
  <1>1. Init => Pipe!Init
    <2> SUFFICES ASSUME Init PROVE Pipe!Init
      OBVIOUS
    <2>1. pseq = 0 /\ wire = <<>> /\ next = [w \in Writers |-> 1] /\ cut = -1
      BY DEF Init, BufferInit, NoCut
    <2>2. Len(wire) = 0
      BY <2>1
    <2>3. Unsent = <<>>
      BY <2>1, <2>2 DEF Unsent
    <2> QED
      BY <2>1, <2>3 DEF Pipe!Init
  <1> QED
    BY <1>1, Invariance, NextRefines, PTL DEF Spec, ImplementsSendPipe, Pipe!Spec

=============================================================================
