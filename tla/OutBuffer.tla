----------------------------- MODULE OutBuffer ------------------------------
(***************************************************************************)
(* The outgoing half of a connection: everybody who sends to the client    *)
(* (publishers of other connections, the processor with its answers) runs  *)
(* writeMessage, which puts the packet into svc.out under svc.wmu; the     *)
(* sender goroutine moves what is in svc.out to the socket (sendrecv.go    *)
(* sender, buffer.go WriteTo); stop closes socket and buffer.  Only the    *)
(* DISCONNECT with which the processor ends a connection goes straight to  *)
(* the socket.                                                             *)
(*                                                                         *)
(* A byte is a triple: the writer, the number of its packet, the place of  *)
(* the byte in the packet.  When faulty, an encoding or a write to the     *)
(* socket may fail and the connection may be stopped, at any time.         *)
(***************************************************************************)
EXTENDS RingBuffer, Sequences

CONSTANTS
  Writers,  \* the goroutines that call writeMessage
  Block,    \* defaultWriteBlockSize, 1024
  Todo      \* the lengths of the packets that each writer writes, in turn

S == "sender"
T == "stop"

ASSUME OutBufferAssumption ==
  /\ Threads = Writers \cup {S, T}
  /\ {S, T, Nobody} \cap Writers = {}
  /\ Block \in 1..Size
  /\ Todo \in [Writers -> Seq(Nat \ {0})]

VARIABLES
  wmu,         \* owner of svc.wmu
  next,        \* the number of the packet that each writer writes next
  wire,        \* the bytes that the sender wrote to the socket
  faulty,      \* may something fail
  connClosed,  \* svc.conn.Close() was called
  cut          \* where in wire a DISCONNECT went to the socket, or NoCut

vars == <<bufVars, wmu, next, wire, faulty, connClosed, cut>>

Blank == <<Nobody, 0, 0>>  \* a byte of buf that was never written

NoCut == -1

Init ==
  /\ BufferInit([t \in Threads |-> IF t = S THEN "writeto" ELSE IF t = T THEN "running" ELSE "idle"],
                Blank)
  /\ wmu = Nobody
  /\ next = [w \in Writers |-> 1]
  /\ wire = <<>>
  /\ faulty \in BOOLEAN
  /\ connClosed = FALSE
  /\ cut = NoCut

-----------------------------------------------------------------------------
(* writeMessage.                                                           *)

\* The ring after the first n bytes of w's packet are stored from pseq on.
Copied(w, n) ==
  [i \in 0..(Size - 1) |->
     IF \E k \in 1..n : (pseq + k - 1) % Size = i
     THEN <<w, next[w], CHOOSE k \in 1..n : (pseq + k - 1) % Size = i>>
     ELSE buf[i]]

\* Mutant of WriteMessage: wmu is not locked.
WriteMessage_NoLock(w) ==
  /\ next[w] <= Len(Todo[w])
  /\ Call(w, "idle", "waitForWriteSpace", Todo[w][next[w]], "encode")
  /\ wmu' = w
  /\ UNCHANGED <<next, wire, faulty, connClosed, cut>>

\* wmu.Lock(), then WriteWait(l).
WriteMessage(w) ==
  /\ next[w] <= Len(Todo[w])
  /\ wmu = Nobody
  /\ Call(w, "idle", "waitForWriteSpace", Todo[w][next[w]], "encode")
  /\ wmu' = w
  /\ UNCHANGED <<next, wire, faulty, connClosed, cut>>

\* The packet would reach over the end of the array.
Wraps(w) == (pseq % Size) + req[w] > Size

\* Encode into the ring, then WriteCommit; or, if the packet wraps, into outtmp, then
\* Write.  Both begin with waitForWriteSpace.
Encode(w) ==
  /\ Goto(w, "encode", "waitForWriteSpace")
  /\ ok' = [ok EXCEPT ![w] = IF Wraps(w) THEN "ring_copy" ELSE "commit_set"]
  /\ buf' = IF Wraps(w) THEN buf ELSE Copied(w, req[w])
  /\ UNCHANGED <<pseq, cseq, gate, done, pmutex, cmutex, pwaiters, cwaiters, req, ppos,
                 wmu, next, wire, faulty, connClosed, cut>>

\* Encode returns an error; part of the packet may be in the ring, behind pseq.
EncodeFails(w) ==
  /\ faulty
  /\ Goto(w, "encode", "fail")
  /\ \E n \in 0..req[w] : buf' = IF Wraps(w) THEN buf ELSE Copied(w, n)
  /\ UNCHANGED <<pseq, cseq, gate, done, pmutex, cmutex, pwaiters, cwaiters, req, ok, ppos,
                 wmu, next, wire, faulty, connClosed, cut>>

\* ringCopy in Write.
RingCopy(w) ==
  /\ Goto(w, "ring_copy", "commit_set")
  /\ buf' = Copied(w, req[w])
  /\ UNCHANGED <<pseq, cseq, gate, done, pmutex, cmutex, pwaiters, cwaiters, req, ok, ppos,
                 wmu, next, wire, faulty, connClosed, cut>>

\* pseq moves, in WriteCommit and in Write: the packet is written.
Commit(w) ==
  /\ CommitSet(w)
  /\ next' = [next EXCEPT ![w] = @ + 1]
  /\ UNCHANGED <<wmu, wire, faulty, connClosed, cut>>

\* The deferred wmu.Unlock(), after an error or a success.
Unlock(w) ==
  /\ \/ Goto(w, "unlock", "idle") /\ UNCHANGED next
     \/ Goto(w, "fail", "idle") /\ next' = [next EXCEPT ![w] = @ + 1]
  /\ wmu' = Nobody
  /\ UNCHANGED <<pseq, cseq, gate, done, buf, pmutex, cmutex, pwaiters, cwaiters, req, ok, ppos,
                 wire, faulty, connClosed, cut>>

WriterInBuffer(w) ==
  /\ waitForWriteSpace(w, "fail") \/ CommitBroadcast(w, "unlock")
  /\ UNCHANGED <<wmu, next, wire, faulty, connClosed, cut>>

Writer(w) ==
  \/ WriteMessage(w) \/ Encode(w) \/ EncodeFails(w) \/ RingCopy(w) \/ Commit(w) \/ Unlock(w)
  \/ WriterInBuffer(w)

-----------------------------------------------------------------------------
(* sender: the loop of WriteTo.  Every return runs the deferred Close.     *)

WriteToLoop ==
  /\ \/ done /\ Goto(S, "writeto", "close")
        /\ UNCHANGED <<pseq, cseq, gate, done, buf, pmutex, cmutex, pwaiters, cwaiters, req, ok, ppos>>
     \/ ~done /\ Call(S, "writeto", "waitForData", 1, "socket_write")
  /\ UNCHANGED <<wmu, next, wire, faulty, connClosed, cut>>

\* What ReadPeek returns: what its copy of pseq says is there, a block at most.
Peeked == [i \in 1..(IF ppos - cseq >= Block THEN Block ELSE ppos - cseq) |->
             buf[(cseq + i - 1) % Size]]

\* w.Write(p) succeeds; ReadCommit(n) is next.
SocketWrite ==
  /\ ~connClosed
  /\ Goto(S, "socket_write", "readcommit")
  /\ wire' = wire \o Peeked
  /\ req' = [req EXCEPT ![S] = Len(Peeked)]
  /\ UNCHANGED <<pseq, cseq, gate, done, buf, pmutex, cmutex, pwaiters, cwaiters, ok, ppos,
                 wmu, next, faulty, connClosed, cut>>

\* w.Write(p) fails or times out, when part of p is sent.
SocketError ==
  /\ connClosed \/ faulty
  /\ Goto(S, "socket_write", "close")
  /\ \E n \in 0..Len(Peeked) : wire' = wire \o SubSeq(Peeked, 1, n)
  /\ UNCHANGED <<pseq, cseq, gate, done, buf, pmutex, cmutex, pwaiters, cwaiters, req, ok, ppos,
                 wmu, next, faulty, connClosed, cut>>

SenderInBuffer ==
  /\ \/ waitForData(S, 1, "close")
     \/ ReadCommit(S, "readcommit", req[S])
     \/ ReadCommitBroadcast(S, "writeto")
     \/ Close(S, "ended")
  /\ UNCHANGED <<wmu, next, wire, faulty, connClosed, cut>>

Sender == WriteToLoop \/ SocketWrite \/ SocketError \/ SenderInBuffer

-----------------------------------------------------------------------------
(* The end: a DISCONNECT, or not; then stop closes the socket and the     *)
(* buffer, and waits.                                                      *)

\* sendByConn, and writeMessage(svc.conn, ...): between two writes of the sender.
Disconnect ==
  /\ faulty
  /\ Goto(T, "running", "stop")
  /\ cut' = Len(wire)
  /\ UNCHANGED <<pseq, cseq, gate, done, buf, pmutex, cmutex, pwaiters, cwaiters, req, ok, ppos,
                 wmu, next, wire, faulty, connClosed>>

Stop ==
  /\ faulty
  /\ Goto(T, "running", "close") \/ Goto(T, "stop", "close")
  /\ connClosed' = TRUE
  /\ UNCHANGED <<pseq, cseq, gate, done, buf, pmutex, cmutex, pwaiters, cwaiters, req, ok, ppos,
                 wmu, next, wire, faulty, cut>>

StopWait ==
  /\ pc[S] = "ended"
  /\ Goto(T, "stop_wait", "stopped")
  /\ UNCHANGED <<pseq, cseq, gate, done, buf, pmutex, cmutex, pwaiters, cwaiters, req, ok, ppos,
                 wmu, next, wire, faulty, connClosed, cut>>

StopInBuffer ==
  /\ Close(T, "stop_wait")
  /\ UNCHANGED <<wmu, next, wire, faulty, connClosed, cut>>

Stopper == Disconnect \/ Stop \/ StopWait \/ StopInBuffer

Next == Sender \/ Stopper \/ \E w \in Writers : Writer(w)

\* As in InBuffer: the Go scheduler runs every goroutine that can run, and a contended
\* lock is handed over.  Nobody has to call writeMessage.
Fairness ==
  /\ WF_vars(Sender)
  /\ WF_vars(pc[T] # "running" /\ Stopper)
  /\ \A w \in Writers : WF_vars(pc[w] # "idle" /\ Writer(w))
  /\ \A t \in Threads :
       SF_vars(/\ SpaceLock(t) \/ DataLock(t)
               /\ UNCHANGED <<wmu, next, wire, faulty, connClosed, cut>>)

Spec == Init /\ [][Next]_vars /\ Fairness

-----------------------------------------------------------------------------
\* Cursors, flags and mutex owners have the types of their Go fields; writers sleep for
\* want of room only and the sender for want of data.
TypeOK ==
  /\ {pseq, cseq, gate, ppos} \subseteq Nat
  /\ {done, faulty, connClosed} \subseteq BOOLEAN
  /\ pmutex \in Threads \cup {Nobody} /\ cmutex \in Threads \cup {Nobody}
  /\ wmu \in Writers \cup {Nobody}
  /\ cut \in Nat \cup {NoCut}
  /\ pwaiters \subseteq Writers /\ cwaiters \subseteq {S}
  /\ \A w \in Writers : next[w] \in 1..(Len(Todo[w]) + 1)

\* The bytes committed and not yet written to the socket.
Unsent == [i \in 1..(pseq - Len(wire)) |-> buf[(Len(wire) + i - 1) % Size]]

Pipe == INSTANCE SendPipe WITH pipe <- Unsent

\* Refinement: what the sender writes are whole packets, one after the other, however many
\* goroutines write at once, however packets wrap around the end of the ring, and also
\* while the ring is closed and calls fail half way.  A packet that Encode or EOF ends
\* leaves no byte behind, and one that a writer began later is not sent earlier.  The one
\* thing that can come between two bytes of a packet is the DISCONNECT, once.
ImplementsSendPipe == Pipe!Spec

\* Sender and writers wait for each other only if the sender tests an old copy of pseq,
\* or the packet is longer than the ring.
StallCause ==
  \A w \in Writers : w \in pwaiters /\ S \in cwaiters => ppos < pseq \/ req[w] > Size

\* If nothing fails and every packet fits, wmu is unlocked again, unless the sender sleeps
\* on an old copy of pseq: a writer that waits for room is woken when ReadCommit makes it.
WriteReturns == ~faulty /\ wmu # Nobody ~> wmu = Nobody \/ (S \in cwaiters /\ ppos < pseq)
=============================================================================
