----------------------------- MODULE RingBuffer -----------------------------
(***************************************************************************)
(* The byte ring of a connection: corev5/v2/service/buffer.go.             *)
(*                                                                         *)
(* One producer and one consumer share a power-of-two ring through two     *)
(* ever-increasing cursors, pseq and cseq.  The producer waits for space   *)
(* on pcond, the consumer for data on ccond; each condition variable has   *)
(* its own mutex.  The methods are modelled as steps of threads at the     *)
(* granularity of the code's atomic loads and stores, mutex operations,    *)
(* condition waits and broadcasts; a module that extends this one says     *)
(* which threads call which method.                                        *)
(*                                                                         *)
(* A byte is represented by where it comes from, so buf[i] tells which one *)
(* a slot holds.                                                           *)
(***************************************************************************)
EXTENDS Integers

CONSTANTS
  Threads,  \* the goroutines that use this buffer
  Size      \* buf.size (defaultBufferSize, 4096)

ASSUME RingBufferAssumption == Size \in Nat \ {0}

Nobody == "nobody"   \* owner of a free mutex

VARIABLES
  pseq, cseq,    \* cursors of the producer and of the consumer
  gate,          \* pseq.gate: the producer's cached copy of cseq
  done,          \* atomic flag set by Close
  buf,           \* the ring
  pmutex, cmutex,  \* owners of pcond.L and ccond.L
  pwaiters, cwaiters,  \* threads asleep in pcond.Wait and ccond.Wait
  pc,            \* where each thread is
  req,           \* the argument n of the method each thread is in
  ok,            \* where each thread goes on when that method succeeds
  ppos           \* the copy of pseq the consumer's method works with

bufVars == <<pseq, cseq, gate, done, buf, pmutex, cmutex, pwaiters, cwaiters, pc, req, ok, ppos>>

\* The threads at their starts, and nothing in the ring.
BufferInit(start, blank) ==
  /\ pseq = 0 /\ cseq = 0 /\ gate = 0
  /\ done = FALSE
  /\ buf = [i \in 0..(Size - 1) |-> blank]
  /\ pmutex = Nobody /\ cmutex = Nobody
  /\ pwaiters = {} /\ cwaiters = {}
  /\ pc = start
  /\ req = [t \in Threads |-> 0]
  /\ ok = [t \in Threads |-> "none"]
  /\ ppos = 0

Goto(t, from, to) == pc[t] = from /\ pc' = [pc EXCEPT ![t] = to]

\* A call of a method with argument n that goes on at label k on success.
Call(t, from, method, n, k) ==
  /\ Goto(t, from, method)
  /\ req' = [req EXCEPT ![t] = n]
  /\ ok' = [ok EXCEPT ![t] = k]
  /\ UNCHANGED <<pseq, cseq, gate, done, buf, pmutex, cmutex, pwaiters, cwaiters, ppos>>

-----------------------------------------------------------------------------
(* waitForWriteSpace.  EOF leaves to label eof.                            *)

\* Mutant of wrap: one byte of the ring is never used.
wrap_OneMore(t) == pseq + req[t] - Size + 1

\* The position the ring wraps to if req bytes are written.
wrap(t) == pseq + req[t] - Size

\* Mutant of SpaceEnter: the wrap point is not compared with the gate.
SpaceEnter_NoWrapTest(t, eof) ==
  /\ Goto(t, "waitForWriteSpace",
          IF done THEN eof ELSE IF gate > pseq THEN "space_lock" ELSE ok[t])
  /\ UNCHANGED <<pseq, cseq, gate, done, buf, pmutex, cmutex, pwaiters, cwaiters, req, ok, ppos>>

\* isDone, then the test against the cached gate.
SpaceEnter(t, eof) ==
  /\ Goto(t, "waitForWriteSpace",
          IF done THEN eof
          ELSE IF wrap(t) > gate \/ gate > pseq THEN "space_lock" ELSE ok[t])
  /\ UNCHANGED <<pseq, cseq, gate, done, buf, pmutex, cmutex, pwaiters, cwaiters, req, ok, ppos>>

\* pcond.L.Lock(), also the one inside a pcond.Wait that was woken.
SpaceLock(t) ==
  /\ \/ Goto(t, "space_lock", "space_test")
     \/ t \notin pwaiters /\ Goto(t, "space_asleep", "space_test")
  /\ pmutex = Nobody
  /\ pmutex' = t
  /\ UNCHANGED <<pseq, cseq, gate, done, buf, cmutex, pwaiters, cwaiters, req, ok, ppos>>

\* The loop test on cseq; when there is space the gate is cached and pcond.L unlocked.
SpaceTest(t) ==
  /\ Goto(t, "space_test", IF wrap(t) > cseq THEN "space_done" ELSE ok[t])
  /\ gate' = IF wrap(t) > cseq THEN gate ELSE cseq
  /\ pmutex' = IF wrap(t) > cseq THEN pmutex ELSE Nobody
  /\ UNCHANGED <<pseq, cseq, done, buf, cmutex, pwaiters, cwaiters, req, ok, ppos>>

\* isDone inside the loop: io.EOF is returned with pcond.L still locked.
SpaceDone(t, eof) ==
  /\ Goto(t, "space_done", IF done THEN eof ELSE "space_sleep")
  /\ UNCHANGED <<pseq, cseq, gate, done, buf, pmutex, cmutex, pwaiters, cwaiters, req, ok, ppos>>

\* pcond.Wait(): joins the waiters and unlocks pcond.L.
SpaceSleep(t) ==
  /\ Goto(t, "space_sleep", "space_asleep")
  /\ pwaiters' = pwaiters \cup {t}
  /\ pmutex' = Nobody
  /\ UNCHANGED <<pseq, cseq, gate, done, buf, cmutex, cwaiters, req, ok, ppos>>

waitForWriteSpace(t, eof) ==
  SpaceEnter(t, eof) \/ SpaceLock(t) \/ SpaceTest(t) \/ SpaceDone(t, eof) \/ SpaceSleep(t)

\* The ring after the bytes pseq .. pseq + n - 1 of a stream are stored, each at its
\* slot b & mask; byte b of the stream is represented by b itself.
Stored(n) ==
  [i \in 0..(Size - 1) |->
     IF \E b \in pseq..(pseq + n - 1) : b % Size = i
     THEN CHOOSE b \in pseq..(pseq + n - 1) : b % Size = i
     ELSE buf[i]]

\* WriteCommit after its waitForWriteSpace: pseq moves, then ccond is broadcast.
CommitSet(t) ==
  /\ Goto(t, "commit_set", "commit_broadcast")
  /\ pseq' = pseq + req[t]
  /\ UNCHANGED <<cseq, gate, done, buf, pmutex, cmutex, pwaiters, cwaiters, req, ok, ppos>>

CommitBroadcast(t, next) ==
  /\ Goto(t, "commit_broadcast", next)
  /\ cmutex = Nobody
  /\ cwaiters' = {}
  /\ UNCHANGED <<pseq, cseq, gate, done, buf, pmutex, cmutex, pwaiters, req, ok, ppos>>

-----------------------------------------------------------------------------
(* ReadWait and ReadPeek: wait until at least need(t) bytes are there.     *)

\* cseq.get() and pseq.get() before the lock.
DataEnter(t) ==
  /\ Goto(t, "waitForData", "data_lock")
  /\ ppos' = pseq
  /\ UNCHANGED <<pseq, cseq, gate, done, buf, pmutex, cmutex, pwaiters, cwaiters, req, ok>>

\* ccond.L.Lock(), at the start or inside a ccond.Wait that was woken.
DataLock(t) ==
  /\ \/ Goto(t, "data_lock", "data_test") /\ UNCHANGED ppos
     \/ t \notin cwaiters /\ Goto(t, "data_asleep", "data_test") /\ ppos' = pseq
  /\ cmutex = Nobody
  /\ cmutex' = t
  /\ UNCHANGED <<pseq, cseq, gate, done, buf, pmutex, pwaiters, cwaiters, req, ok>>

\* The loop test on the copy of pseq; on success ccond.L is unlocked.
DataTest(t, need) ==
  /\ Goto(t, "data_test", IF cseq + need > ppos THEN "data_done" ELSE ok[t])
  /\ cmutex' = IF cseq + need > ppos THEN cmutex ELSE Nobody
  /\ UNCHANGED <<pseq, cseq, gate, done, buf, pmutex, pwaiters, cwaiters, req, ok, ppos>>

\* isDone inside the loop: io.EOF is returned with ccond.L still locked.
DataDone(t, eof) ==
  /\ Goto(t, "data_done", IF done THEN eof ELSE "data_sleep")
  /\ UNCHANGED <<pseq, cseq, gate, done, buf, pmutex, cmutex, pwaiters, cwaiters, req, ok, ppos>>

\* Mutant of DataSleep: waits on the producer's condition variable.
DataSleep_OnPcond(t) ==
  /\ Goto(t, "data_sleep", "data_asleep")
  /\ pwaiters' = pwaiters \cup {t}
  /\ cmutex' = Nobody
  /\ UNCHANGED <<pseq, cseq, gate, done, buf, pmutex, cwaiters, req, ok, ppos>>

\* ccond.Wait(): joins the waiters and unlocks ccond.L.
DataSleep(t) ==
  /\ Goto(t, "data_sleep", "data_asleep")
  /\ cwaiters' = cwaiters \cup {t}
  /\ cmutex' = Nobody
  /\ UNCHANGED <<pseq, cseq, gate, done, buf, pmutex, pwaiters, req, ok, ppos>>

waitForData(t, need, eof) ==
  DataEnter(t) \/ DataLock(t) \/ DataTest(t, need) \/ DataDone(t, eof) \/ DataSleep(t)

\* Mutant of ReadCommitBroadcast: the wrong condition variable is broadcast.
ReadCommitBroadcast_Ccond(t, next) ==
  /\ Goto(t, "readcommit_broadcast", next)
  /\ pmutex = Nobody
  /\ cwaiters' = {}
  /\ UNCHANGED <<pseq, cseq, gate, done, buf, pmutex, cmutex, pwaiters, req, ok, ppos>>

\* ReadCommit: cseq moves by n, then pcond is broadcast.
ReadCommit(t, from, n) ==
  /\ Goto(t, from, "readcommit_broadcast")
  /\ cseq + n <= pseq
  /\ cseq' = cseq + n
  /\ UNCHANGED <<pseq, gate, done, buf, pmutex, cmutex, pwaiters, cwaiters, req, ok, ppos>>

ReadCommitBroadcast(t, next) ==
  /\ Goto(t, "readcommit_broadcast", next)
  /\ pmutex = Nobody
  /\ pwaiters' = {}
  /\ UNCHANGED <<pseq, cseq, gate, done, buf, pmutex, cmutex, cwaiters, req, ok, ppos>>

-----------------------------------------------------------------------------
(* Close: the flag, then both broadcasts.  The second one is made with     *)
(* pcond.L locked, not ccond.L.                                            *)

CloseDone(t) ==
  /\ Goto(t, "close", "close_pcond")
  /\ done' = TRUE
  /\ UNCHANGED <<pseq, cseq, gate, buf, pmutex, cmutex, pwaiters, cwaiters, req, ok, ppos>>

ClosePcond(t) ==
  /\ Goto(t, "close_pcond", "close_ccond")
  /\ pmutex = Nobody
  /\ pwaiters' = {}
  /\ UNCHANGED <<pseq, cseq, gate, done, buf, pmutex, cmutex, cwaiters, req, ok, ppos>>

CloseCcond(t, next) ==
  /\ Goto(t, "close_ccond", next)
  /\ pmutex = Nobody
  /\ cwaiters' = {}
  /\ UNCHANGED <<pseq, cseq, gate, done, buf, pmutex, cmutex, pwaiters, req, ok, ppos>>

Close(t, next) == CloseDone(t) \/ ClosePcond(t) \/ CloseCcond(t, next)
=============================================================================
