------------------------------ MODULE InBuffer ------------------------------
(***************************************************************************)
(* The incoming half of a connection: the receiver goroutine fills svc.in  *)
(* from the socket (sendrecv.go receiver, buffer.go ReadFrom), the         *)
(* processor goroutine takes whole packets out of it (process.go           *)
(* processor, sendrecv.go peekMessageSize and peekMessage) and, when it    *)
(* ends, runs service.stop.                                                *)
(*                                                                         *)
(* The client sends a stream of packets, each given by the position where  *)
(* it ends and the length of its fixed header.  TCP may deliver the stream *)
(* in pieces of any length.  When faulty, the connection may be lost or time  *)
(* out, the flow control may refuse to go on and the processing of a       *)
(* packet may fail, at any time.                                           *)
(***************************************************************************)
EXTENDS RingBuffer, Sequences

CONSTANTS
  Block,          \* defaultReadBlockSize, 1024
  MaxPacketSize,  \* cfg.MaxPacketSize
  Streams         \* the packet streams a client may send

ASSUME InBufferAssumption ==
  /\ Threads = {"receiver", "processor"}
  /\ Block \in 1..Size
  /\ MaxPacketSize \in Nat
  /\ \A s \in Streams :
       /\ s \in Seq([end : Nat, hdr : Nat \ {0, 1}]) /\ s # <<>>
       /\ \A i \in 1..(Len(s) - 1) : s[i].end < s[i + 1].end

VARIABLES
  packets,     \* the stream the client sends
  np,          \* packets processed
  faulty,      \* may something fail
  connClosed   \* svc.conn.Close() was called

vars == <<bufVars, packets, np, faulty, connClosed>>

Unset == -1  \* a byte of buf that was never written

\* Where the nth packet ends in the stream.
End(n) == IF n = 0 THEN 0 ELSE packets[n].end

Init ==
  /\ packets \in Streams
  /\ np = 0
  /\ faulty \in BOOLEAN
  /\ connClosed = FALSE
  /\ BufferInit([t \in Threads |-> IF t = "receiver" THEN "readfrom" ELSE "next_packet"],
                Unset)

R == "receiver"
P == "processor"

rest == <<packets, np, faulty, connClosed>>

-----------------------------------------------------------------------------
(* receiver: the loop of ReadFrom.  Every return runs the deferred Close.  *)

ReadFromLoop ==
  /\ \/ done /\ Goto(R, "readfrom", "close")
        /\ UNCHANGED <<pseq, cseq, gate, done, buf, pmutex, cmutex, pwaiters, cwaiters, req, ok, ppos>>
     \/ ~done /\ Call(R, "readfrom", "waitForWriteSpace", Block, "socket_read")
  /\ UNCHANGED rest

\* r.Read into the free part of the ring up to its end, then WriteCommit(n).
SocketRead ==
  \E n \in 1..Block :
    /\ ~connClosed
    /\ (pseq % Size) + n <= Size
    /\ pseq + n <= End(Len(packets))
    /\ Goto(R, "socket_read", "waitForWriteSpace")
    /\ buf' = Stored(n)
    /\ req' = [req EXCEPT ![R] = n]
    /\ ok' = [ok EXCEPT ![R] = "commit_set"]
    /\ UNCHANGED <<pseq, cseq, gate, done, pmutex, cmutex, pwaiters, cwaiters, ppos, rest>>

\* r.Read fails: connection closed by stop, closed by the client, or timed out.
SocketError ==
  /\ connClosed \/ faulty
  /\ Goto(R, "socket_read", "close")
  /\ UNCHANGED <<pseq, cseq, gate, done, buf, pmutex, cmutex, pwaiters, cwaiters, req, ok, ppos, rest>>

ReceiverInBuffer ==
  /\ \/ waitForWriteSpace(R, "close")
     \/ CommitSet(R)
     \/ CommitBroadcast(R, "readfrom")
     \/ Close(R, "ended")
  /\ UNCHANGED rest

Receiver == ReadFromLoop \/ SocketRead \/ SocketError \/ ReceiverInBuffer

-----------------------------------------------------------------------------
(* processor.                                                              *)

\* The packet at the head of the buffer: length of its header, total length.
hdr   == packets[np + 1].hdr
total == packets[np + 1].end - cseq

\* Mutant of Refused: a header whose length field does not end is accepted.
Refused_NoHeaderTest == total > MaxPacketSize \/ total > Size

\* The errors that end processor before it waits for the whole packet: a remaining
\* length of more than four bytes, a packet longer than allowed or than the ring.
Refused == hdr > 5 \/ total > MaxPacketSize \/ total > Size

\* streamController, then peekMessageSize asks for cnt = 2 bytes.
NextPacket ==
  /\ \/ faulty /\ Goto(P, "next_packet", "stop")
        /\ UNCHANGED <<pseq, cseq, gate, done, buf, pmutex, cmutex, pwaiters, cwaiters, req, ok, ppos>>
     \/ Call(P, "next_packet", "waitForData", 2, "peek_size")
  /\ UNCHANGED rest

\* peekMessageSize: one more byte while the last one has the continuation bit, five
\* at most; then peekMessage asks for the whole packet.
PeekMessage ==
  LET known == req[P] = hdr \/ req[P] = 5 IN
  /\ pc[P] = "peek_size"
  /\ \/ ~known /\ Call(P, "peek_size", "waitForData", req[P] + 1, "peek_size")
     \/ known /\ Refused /\ Goto(P, "peek_size", "stop")
        /\ UNCHANGED <<pseq, cseq, gate, done, buf, pmutex, cmutex, pwaiters, cwaiters, req, ok, ppos>>
     \/ known /\ ~Refused /\ Call(P, "peek_size", "waitForData", total, "process")
  /\ UNCHANGED rest

\* processIncoming succeeded; ReadCommit(total).
ProcessIncoming ==
  /\ ReadCommit(P, "process", total)
  /\ np' = np + 1
  /\ UNCHANGED <<packets, faulty, connClosed>>

\* processIncoming returned an error, or the packet was a DISCONNECT.
ProcessFails ==
  /\ faulty
  /\ Goto(P, "process", "stop")
  /\ UNCHANGED <<pseq, cseq, gate, done, buf, pmutex, cmutex, pwaiters, cwaiters, req, ok, ppos, rest>>

\* wgStopped.Done(), then stop: the socket is closed before the buffers.
Stop ==
  /\ Goto(P, "stop", "close")
  /\ connClosed' = TRUE
  /\ UNCHANGED <<pseq, cseq, gate, done, buf, pmutex, cmutex, pwaiters, cwaiters, req, ok, ppos,
                 packets, np, faulty>>

\* wgStopped.Wait(), then the rest of stop: unsubscribe, will, session offline.
StopWait ==
  /\ pc[R] = "ended"
  /\ Goto(P, "stop_wait", "stopped")
  /\ UNCHANGED <<pseq, cseq, gate, done, buf, pmutex, cmutex, pwaiters, cwaiters, req, ok, ppos, rest>>

ProcessorInBuffer ==
  /\ \/ waitForData(P, req[P], "stop")
     \/ ReadCommitBroadcast(P, "next_packet")
     \/ Close(P, "stop_wait")
  /\ UNCHANGED rest

Processor ==
  NextPacket \/ PeekMessage \/ ProcessIncoming \/ ProcessFails \/ Stop \/ StopWait \/ ProcessorInBuffer

Next == Receiver \/ Processor

\* The Go scheduler runs every goroutine that can run; sync.Mutex hands a
\* contended lock over, so a goroutine that keeps asking for one gets it.
Fairness ==
  /\ WF_vars(Receiver)
  /\ WF_vars(Processor)
  /\ \A t \in Threads : SF_vars((SpaceLock(t) \/ DataLock(t)) /\ UNCHANGED rest)

Spec == Init /\ [][Next]_vars /\ Fairness

-----------------------------------------------------------------------------
\* Cursors, flags, ring and mutex owners have the types of their Go fields.
TypeOK ==
  /\ {pseq, cseq, gate, ppos} \subseteq 0..End(Len(packets))
  /\ {done, connClosed, faulty} \subseteq BOOLEAN
  /\ buf \in [0..(Size - 1) -> {Unset} \cup 0..(End(Len(packets)) - 1)]
  /\ pmutex \in Threads \cup {Nobody} /\ cmutex \in Threads \cup {Nobody}
  /\ pwaiters \subseteq {R} /\ cwaiters \subseteq {P}
  /\ np \in 0..Len(packets)

\* The producer is never more than one ring ahead of the consumer and never
\* behind it, although waitForWriteSpace decides on a cached copy of cseq.
CursorsInRing == gate <= cseq /\ cseq <= pseq /\ pseq <= cseq + Size

\* No byte that was committed and not yet read is ever overwritten, however the
\* reads were split and however often the ring wrapped, and the slice that
\* peekMessage hands to processIncoming is the whole packet: the receiver may run
\* meanwhile, but not into it.
UnreadIntact ==
  /\ \A b \in cseq..(pseq - 1) : buf[b % Size] = b
  /\ pc[P] = "process" => End(np + 1) <= pseq

\* The read cursor only moves from packet boundary to packet boundary: no byte of a
\* packet is ever read as the header of another.
PacketBoundary == cseq = End(np)

\* The receiver waits for room for a block and the processor for the rest of a
\* packet: never both, as the room there is would have to be less than a block.  It
\* holds for packets of up to Size - Block + 1 bytes.
NeverBothWait ==
  ~(R \in pwaiters /\ P \in cwaiters /\ pseq < cseq + req[P] /\ req[P] <= Size)

\* The bytes between the cursors, as ReadPeek and ReadWait see them.
Unread == [i \in 1..(pseq - cseq) |-> buf[(cseq + i - 1) % Size]]

Pipe == INSTANCE BytePipe WITH pipe <- Unread

\* Refinement: the ring, its two cursors and the copies the goroutines keep of them
\* behave as the pipe of BytePipe.  Storing bytes and moving pseq are two steps, and
\* only the second one is seen; the bytes of a packet are gone only when ReadCommit
\* says so; what is taken is the next packet of the stream, whole, and never one that
\* peekMessage refuses.
ImplementsPipe == Pipe!Spec

\* A receiver asleep for want of space is woken once ReadCommit made enough: cseq is
\* read with pcond.L locked, so the broadcast cannot be missed.
SpaceNoticed ==
  (pc[R] = "space_asleep" /\ wrap(R) <= cseq) ~> (pc[R] # "space_asleep")

\* If nothing fails, every packet up to the first one that is refused is processed:
\* ReadWait's comment says that if there is not enough data, it waits until there is.
AllProcessed == ~faulty => <>(np < Len(packets) => Refused)

\* Once stop is called it ends: its comment says it waits "for all the goroutines
\* to stop", and what follows (unsubscribe, will, session offline) depends on it.
StopReturns == (pc[P] = "stop") ~> (pc[P] = "stopped")
=============================================================================
