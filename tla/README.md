# A TLA+ model of the si-mqtt broker

This directory models the core of `src/`, an MQTT 5 broker in Go
(`corev5/v2`, with clustering in `cluster/`). TLC checks the modules on small
instances, TLAPS proves theorems about them for every value of the constants.
Mutants (definitions named `<definition>_<Change>`) show, property by property,
that a plausible mistake in the code would be noticed.

## 1. Inventory of the system

| Component | State | Operations | Hard part |
|---|---|---|---|
| Ack queue `sessions/impl/mem_ackqueue.go` | ring, head, tail, count, `emap`, ping slot | `Wait`, `Ack`, `Acked`, `grow` | index kept exact while messages move; order |
| Ring buffer `service/buffer.go` | two cursors, cached gate, two condition variables, `done` | `ReadFrom`, `ReadWait`, `ReadCommit`, `WriteWait`, `WriteCommit`, `WriteTo`, `Close` | two goroutines without a common lock; lost wake-ups |
| Connection `service/{sendrecv,process,service}.go` | receiver, processor, sender, `stop` | start, packet loop, stop | order of shutdown, partial packets |
| QoS flows `service/process.go`, `sessions/impl/db_ackqueue.go` | `Pub1ack`, `Pub2in`, `Pub2out`, store records | PUBLISH, PUBACK, PUBREC, PUBREL, PUBCOMP | lost answers, reconnects, reused packet ids |
| Sessions `service/server.go getSession`, `sessions/impl` | session manager, session store | connect, takeover, stop, expiry | old service overlaps the new one |
| Quota `service/pipiline.go` | current quota, flags | `ReqQuota`, `AddQuota` | not atomic together |
| Delayed will `util/cron` | cron jobs by client id | `DelaySendWill`, `Cancel`, `Run` | cancel races stop |
| Topics `topics/{impl,sys,share}` | subscription and retained trees | subscribe, unsubscribe, match, retain | pruning of shared nodes |
| Shared topics across nodes `topics/topic_map_node`, `redis` | counters of nodes per topic | add, remove, choose | counters under concurrent change |
| Cluster by database `cluster/stat/colong/{db,auto_compress_sub}` | event tables, cursors, lease lock | poll, save, compress | commits out of id order, lease expiry |
| Cluster by getty `cluster/stat/colong/static_getty` | session pool | send, receive | reconnects |
| Stores `cluster/store` | sessions, subscriptions, in-flight messages, offline messages | save, release, clear | what `ClearSession` leaves |
| Packet codec `message/` | none (pure) | encode, decode, length | variable-length integers, properties |

Interactions: the receiver goroutine fills `svc.in`, the processor takes packets
out of it, calls the session's ack queues and the topic trees and, for every
subscriber, that subscriber's `onpub`, which writes into the subscriber's
`svc.out`; the sender goroutine empties it. `getSession` (on connect) and `stop`
(on the end of a connection) share the session manager, the session store and
the delayed tasks. `PROJECT.json` lists every component with its state of
modelling and, under `hazards`, what is hard to test, each at its line.

## 2. Modules

| Module | Models | Uses |
|---|---|---|
| `AckQueue` | `mem_ackqueue.go`: one action per method, each under its mutex | `AckQueueAbs` (refinement) |
| `AckQueueAbs` | what `sessions.Ackqueue` promises: a FIFO queue | |
| `AckQueueProofs` | the theorems about `AckQueue` | `AckQueue`, TLAPS |
| `RingBuffer` | `buffer.go` as steps of threads | |
| `InBuffer` | receiver and processor on `svc.in`, and `stop` | `RingBuffer`, `BytePipe` (refinement) |
| `BytePipe` | what the incoming half promises: a bounded pipe that hands over whole packets | |
| `InBufferProofs` | the theorems about `InBuffer` | `InBuffer`, TLAPS |
| `OutBuffer` | everybody who writes to one client, the sender on `svc.out`, and `stop` | `RingBuffer`, `SendPipe` (refinement) |
| `SendPipe` | what the outgoing half promises: a bounded pipe into which packets go whole | |
| `OutBufferProofs` | the theorems about `OutBuffer` | `OutBuffer`, TLAPS |
| `InFlow` | QoS 2 from client to broker over several connections | the FIFO queue of `AckQueueAbs`, inlined as a sequence |
| `InFlowProofs` | the theorems about `InFlow` | `InFlow`, TLAPS |
| `OutFlow` | QoS 1 and 2 from broker to one client: `onpub`, quota, packet ids, acknowledgements, records | the FIFO queue, inlined |
| `OutFlowProofs` | the theorems about `OutFlow` | `OutFlow`, TLAPS |
| `Sessions` | the sessions of one client: connect, stop, session manager and store, delayed wills | |
| `SessionsProofs` | the theorems about `Sessions` | `Sessions`, TLAPS |
| `Topics` | subscription and retained trees, and the handlers that use them | |
| `TopicsProofs` | the theorems about `Topics` | `Topics`, TLAPS |
| `Share` | shared subscriptions over a cluster of nodes | the matching of `Topics`, taken as given |
| `ShareProofs` | the theorems about `Share` | `Share`, TLAPS |
| `Wire` | `header.go`, `message.go`, `identifier.go` and `util.go`: integers, strings, properties, the fixed header | |
| `PublishPacket`, `ConnectPacket`, `SubscribePacket`, `ControlPacket` | setters, `build`, both encoders and `Decode` of each packet type | `Wire` |
| `Codec` | message objects on their way: built, encoded, decoded, forwarded, retained | the packet modules |
| `MC*` | instances for TLC | |

**AckQueue.** Variables are the fields of `ackqueue`. A message body is the
number `no` under which the queue accepted it, an ack body the packet id it
acknowledges. `n & mask` is `n % size`, since the size is a power of two
(assumed of `InitSize`, which is the result of `roundUpPowerOfTwo64`). `grow`
doubles the ring inside `insert`, in the same step, as the code does. The loop of
`Acked` is the length of the longest complete prefix (`CompletePrefix`). Left out:
an encoding error, which makes `insert` return before it changes anything.
`nWait` and `nDone` count what was accepted and handed out; they are history
variables.

**RingBuffer and InBuffer.** One step per atomic load or store, lock, test,
`Cond.Wait` and broadcast; lock, broadcast and unlock in a row are one step, as
nothing else is touched between them, and so are cursor reads that only the
reading thread could change in between. A broadcast empties the set of waiters; a
woken waiter must take the mutex again. `data_test` and `data_done` are separate
because the producer and `Close` can act between the loop test and `isDone`, and
between `isDone` and `Cond.Wait`. Byte `n` of the stream is the number `n`, so
`buf[i]` says which byte is in a slot. A packet is the position where it ends and
the length of its fixed header. `SocketRead` reads any number of bytes up to a
block and up to the end of the array, as `r.Read` may.
`SpaceDone` and `DataDone` keep the mutex when they return EOF, as the code does.
`svc.wgStopped` is modelled for receiver and processor.

**OutBuffer.** On the same steps of `RingBuffer`: any number of writers run
`writeMessage` one after the other under `wmu`, which is held from `WriteWait` over
the encoding to the broadcast. A packet that would reach over the end of the array
is encoded into `outtmp` and copied by `Write`, another is encoded in place; what is
stored lies behind `pseq` until `Commit` moves it. A byte is a triple of writer,
packet and place in the packet, so torn and mixed packets can be told. `EncodeFails`
may leave any part of a packet behind `pseq`; `SocketError` may have sent any part
of a block. `Peeked` is what `ReadPeek` returns: it is read from the ring when the
socket write takes it. `wire` is what the sender wrote, and a write of the sender is
one step, since `net.Conn` lets no other `Write` in between; the DISCONNECT
with which a processor ends its connection goes straight to the socket, and `cut` is
where it came. Every return of `WriteTo` closes the buffer, as does `stop`.
`SpaceDone` and `DataDone` return EOF with the mutex locked here too. Left out: `stop`
sets `svc.out` to nil at its end, which a goroutine that is in `writeMessage` may run
into. `OutFlow` uses `writeMessage` as one step that puts a packet on the way.

**InFlow.** One record per connection holds what the service of that connection
keeps: its `Pub2in` queue, the packets on the way to and from the client, whether
it uses the store (`db`, a session expiry above 0) and whether its session was
given old records. One packet is processed per step: the processor handles them
one after the other, and `Pub2in` and the records of one packet id are only
touched by it. `Connect` is `getSession` and `start` in one step, `stop` is the
end of a service in one step; both are atomic here, their overlap with other
connections is not. `getSession` finds a session only until `stop` deletes it, and
takes the session it finds for expired, because it adds seconds to nanoseconds
(server.go:593): the client is told that there is no session, and drops
what it had in flight. The exception is left out here: between `SetStatus` and `Del`
of `stop` (service.go:323-325) the session found has a fresh offline time, and with an
expiry interval longer, in nanoseconds, than what has passed since, it is kept and
reported (server.go:601-608). Only a connection that overlaps the old one in these two
steps gets there; `Sessions` models it (`keepSession`). The client is external and obeys MQTT 5. Not in this
module: QoS 0 and 1, refusals by `MaxQos`, `RetainAvailable` and topic aliases.

**Topics.** A tree is a function from paths (sequences of level names) to what
the node holds, so a tree is a set of paths closed under prefixes. `smatch` and
`rmatch` follow the code's recursion, as recursive functions of the level and the
node that a call is at, over names drawn from `Levels`; `sremove` and `rremove` remove the longest branch that the
code's test, applied on the way back, removes. Each tree has its mutex, so one
call of a tree is one step, and a handler is a sequence of such steps:
`processSubscribe` inserts filter after filter, collects retained messages, and
then for each of them lowers the QoS, sends and restores the QoS, without the lock.
Messages collected are objects of the tree, not copies (`rmsg`), as in the code.
`lookSend` sends to all subscribers in one step: the sends touch nothing that
another handler reads. The session's filters (`topics`) are the code's own record
of what a client asked for, and the store's retained messages (`rstore`) its
record of what was retained; the properties compare the trees with them. Not in
this module: `$share` and `$sys` trees, `NoLocal` and the quota in `onpub`, stored
sessions whose subscriptions come back, the will that `stop` publishes.

**OutFlow.** `onpub` of a service runs in the processor goroutine of whoever
publishes, so each publisher walks through it on its own: the test of
`beyondQuota`, the decrement, the signal, the swap of 0, the packet id and its
wrap, the record in the store, the entry in the ack queue and the write are
separate steps. The processor of the connection is at the top of its loop
(`streamController`), before a packet, or between `AddQuota` and the rest of a
handler. `AckFails` is the error of `ReleaseOutflowMsg`, which ends the
connection. The other source of messages is the connection's own processor: `processSubscribe`
calls `publish` for each retained message (`SendRetained`), without `onpub`. Such a
message takes no unit of the quota and no packet id of the service; it keeps the one
that its publisher gave it (`RetainedId`). It goes into the same queues and records, and
its PUBACK or PUBCOMP calls `AddQuota` like any other (process.go:193, 232), so that the
counter may rise above `Quota`. `publish` therefore has two kinds of callers, named
by publisher or by connection. `Connect` restores the records of a db session in any order (a Go map)
and the packet ids in `sec` not at all: `Wait` refuses what `dbSession.Init` makes
of them. A packet carries the message it is about beside its id, so that properties
can tell a right answer from one under a reused id; the broker only reads the id.

**Sessions.** One record per connection; session, cron entry and service carry the
number of their connection. `getSession` up to `Init` is one step, cancelling the
delayed task, subscribing and CONNACK the next, and `stop` is five: `unSubAll`, the
will, filing the cron entry under the client id, `SetStatus`, `Del`. `keepSession` is the
branch of `getSession` for a session found in between the last two. They interleave between
connections, since the server never ends an old connection of the same client id. A
cron entry repeats after its delay until something removes it; its job removes
whatever is filed under the client id when the job ends.

**Share.** `tmn[n]` is what node `n` believes of all nodes. The tree of
a node holds its own clients only. SUBSCRIBE and UNSUBSCRIBE go to the other nodes
in a bag (they overtake each other and may be dropped), a message as one
element per share name. Both random draws, of the node and of the member, are
nondeterministic over what the code can draw. All filters of the instance match the
topic published.

**Codec.** Bytes are numbers, a message object is a record with the struct's
fields, and `dirty` and `dbuf` are as in `header`. `Encode`, `EncodeToBuf`, `build`
and `Decode` are translated byte by byte, each from its own lines, because the code
has three hand-written copies of every layout and the properties compare them.
Setters that assign a field and mark the object are one operator (`SetField`) with
the list of their fields. `Encode` gets a buffer of `Len` bytes, as most callers make
one, and fails if it writes more, or a longer one (`EncodeLong`), as `writeMessage` may
give it, which keeps `outtmp`. `Decode` reads properties in a fixed order with `ReadProp`;
a table per packet type gives identifier, width, refused values and
what an absent property leaves behind. An index out of range is the error
`"panic"`. `WellFormed` reads a packet from its lengths alone and shares only the
integer readers with the decoders. Decoding an object in use again (`Insert`) is
how `rinsert` keeps a retained message.

## 3. Runs

| Run | Expect | Shows |
|---|---|---|
| `ack_queue` | pass | `TypeOK`; `EmapExact`: a packet id is found iff it waits, where it waits; `InOrderExactlyOnce`; `AckOfOwnMessage`; `AckedIsComplete`; `ImplementsFifo`: refinement of `AckQueueAbs` |
| `in_buffer` | pass | `TypeOK`; `UnreadIntact`: no unread byte is overwritten and a packet is processed whole; `NeverBothWait` (packets up to `Size - Block + 1`); `ImplementsPipe`: refinement of `BytePipe`; `SpaceNoticed`: no lost wake-up on the producer's side |
| `in_buffer_stale_read` | violation of `AllProcessed` | a lost wake-up in `ReadWait` (buffer.go:409) |
| `in_buffer_stop` | violation of `StopReturns` | EOF returned with a locked mutex (buffer.go:596) |
| `out_buffer` | pass | `TypeOK`: also that nobody sleeps on the wrong condition variable; `StallCause`: writers and sender wait for each other in two ways only; `ImplementsSendPipe`: refinement of `SendPipe`; `WriteReturns` (liveness): if nothing fails, `wmu` is unlocked again or the sender sleeps on an old copy of `pseq` |
| `in_flow` | pass | `AtMostOnce`, `SentOrder`, `CompletedPublished`, `OnlyReleased` for sessions that were not given old records |
| `in_flow_clean` | violation of `CleanStartIsClean` | `ClearSession` of the default store leaves inflow records |
| `out_flow` | pass | `InFlightBounded`: never more unanswered messages than the quota and the retained messages sent; `QuotaAccounted`: the only units given out beyond the quota are the ones that acknowledged retained messages added, and none is lost until a message is refused; `Recorded`: the store follows each message until it is acknowledged, across connections; `AckFindsRecord`: an acknowledgement ends the connection only under a reused id; `Drained`: the ack queues empty themselves |
| `sessions` | pass | `TreeMatches`: the tree has exactly the services that should be in it, also when connections overlap; `SessionKept`; `WillOnce`; `Cancelled`: a client that is back has no will waiting; `WillSent` (liveness): the will of a client that stays away is published |
| `topics` | pass | `TypeOK`; `Routed`: the tree yields exactly the matching subscriptions of the sessions; `NoDeadBranches`; `RetainedAgrees`: tree and store agree; `RetainedOrLive`: a new subscriber does not miss the current retained message |
| `share` | pass | `GroupOnce`: no shared subscription (share name and filter) gets a message twice; `SubscribersKnown`: once the announcements have arrived every node knows of all subscribers |
| `codec` | pass | `LengthsRight`: `build` counts what the encoders write and `Len` gives a caller the right buffer; `BufAgrees`: both encoders write the same bytes, `Encode` also into a buffer of `Len` bytes; `RoundTrip`: on every hop a decoder holds what the encoder's object said, and refuses what it has to; `RetainedKeepsLast`: an object that is decoded into again loses nothing of the last message |

`TypeOK` of `InFlow`, `OutFlow` and `Sessions`, and `CursorsInRing` and `PacketBoundary` of
`InBuffer`, are checked by no run: they are proved for every value of the constants.

**What the passing properties leave out.** Each exclusion below is a
state the model reaches and in which the code does not do what the property asks;
the exclusion is part of the property's definition.

- `NeverBothWait`: a packet longer than `Size - Block + 1` stalls receiver and
  processor (buffer.go:591).
- Nothing is claimed about a lost connection being noticed: `Close` broadcasts
  `ccond` without its mutex (buffer.go:112) and a processor that is about to sleep
  does not hear it.
- `ImplementsSendPipe` is about what the sender writes. The processor writes DISCONNECT
  to the socket itself (process.go:64, 92, 178), possibly between two blocks of one
  packet: `SendPipe` allows it (`Cut`).
- `StallCause` names two ways in which writers and sender stall. `ReadPeek` reads `pseq`
  (buffer.go:342) before it locks `ccond.L` and then tests the copy, like `ReadWait` in
  `in_buffer_stale_read`: it misses the broadcast of a writer that commits in between, and
  the sender sleeps with a packet in the ring until another is written. And
  `waitForWriteSpace` lacks the test against `size` that its siblings have
  (buffer.go:594): a packet longer than the ring waits for ever, with `wmu` locked.
  `WriteReturns` leaves out the first way; the run's packets leave out the second, the
  proof of `StallCause` does not.
- Nothing is claimed about writers once a buffer is closed: `StallCause` is about sleepers,
  `WriteReturns` about behaviours in which nothing fails. `ReadPeek` returns EOF with
  `ccond.L` locked (buffer.go:349) and a writer then blocks in its broadcast.
- `in_flow`: sessions that were given old records (`restored`). The client, told
  that there is no session, reuses packet ids for new messages while the broker
  still holds old ones under them, and each of the four can fail. `in_flow_clean`
  shows the simplest consequence.
- `RetainedAgrees` and `RetainedOrLive` promise completeness only for topics with
  no topic below them: `rremove` deletes a parent that holds a message
  (memtopics.go:534). The QoS of a retained message is not compared: two handlers
  that lower and restore it can leave the lower one (process.go:624-640).
- `InFlightBounded` and `QuotaAccounted` allow for the retained messages of the
  connection: the quota alone bounds nothing. `processSubscribe` sends them without
  `ReqQuota` (process.go:624-636), and each acknowledgement returns a unit that was never
  taken (process.go:193, 232), so that a client that subscribes to retained topics at QoS 1
  or 2 raises its quota above the maximum.
- `InFlightBounded`, `QuotaAccounted`: PUBREC codes above 0x80. For those `AddQuota` is called twice,
  at the PUBREC and at the PUBCOMP (process.go:201); 0x80 itself is not counted as
  a failure, which the comment at pipiline.go:155-158 asks for.
- `QuotaAccounted`: after a refusal the swap of 0 may lose units. A message that
  `NoLocal` drops keeps its unit.
- `Recorded`, `AckFindsRecord`: packet ids in use twice. Ids start at 2 on each
  connection while the records of the last one are there, and wrap without a look
  at what waits; and a retained message keeps the id its publisher gave it, also one
  that waits.
- `WillOnce`: wills with delay 0 are sent at once and once more by their cron
  entry (delay_task.go:66-78; the field's comment at service.go:62 says they are not).
- `SessionKept`, `WillOnce`, `Cancelled`: overlapping connections (`serial`). There
  the old connection's `Del` takes the new session, and its will is filed after the
  new connection has cancelled.
- `Sessions` has no session that is kept twice in the time between `SetStatus` and `Del`,
  for two connections that share it from then on.
- `SubscribersKnown`: a SUBSCRIBE that was dropped between nodes or not announced
  because SUBACK failed, and an UNSUBSCRIBE without a subscription. It is a lower
  bound, because a client that disconnects is never taken out of the weights.
- `LengthsRight`, `BufAgrees`, `RoundTrip`: the objects in `Miscounted` (will user properties, a
  maximum packet size of 0 or 1, a will without topic or message, the packet id
  that the wrapping counter leaves out), `Misread` (a payload taken for a property,
  a subscription identifier from 168435455, an acknowledgement with reason string
  only, CONNACK's maximum QoS 0, available shared subscriptions and strings after
  the server keep alive, short UNSUBSCRIBE topics, DISCONNECT's expiry interval) and
  `Unmarked` (setters that do not mark the object, which is then encoded from its
  old bytes). `BufAgrees` leaves out `Miscounted` only where `Encode` is given a buffer of
  `Len` bytes: what `build` does not count does not fit, and `Encode` panics or returns an
  error (connect.go:849-851, 960-966, connack.go:661-664, message.go:403).
- `RetainedKeepsLast` is about decodings one after the other, not about a handler that
  encodes the object while `rinsert` decodes into it; and bytes are values, although
  `dbuf` of a decoded object is the very slice it was decoded from (header.go:216).

**Bounds.** `ack_queue`: a ring of 2 that grows to 4, three packet ids, five
messages: the ring wraps around before and after it grows, grows while wrapped
around, and every packet id is reused. The proofs cover all other sizes. `in_buffer`: 8 bytes and
blocks of 2, the ratio of the code's 4096 and 1024; streams of 9 to 18 bytes wrap
twice, with the longest packet that fits beside a block, packets whose header is
the longest legal one and one byte longer, and one longer than the ring.
`out_buffer`: one packet of 3 bytes from one writer, of 2 and of 4 from another, a ring of 4
and blocks of 2, so that packets wrap, fill the ring, take several writes and queue
behind each other. The proofs have no such bounds.
`in_flow`: two packet ids and three messages, so that an id is reused while the
other is in flight, and three connections, so that a service can outlive the next
one and a third can find what both left. `topics`: two
clients, topics `a` and `a/b`, filters `a/+` and `a/#` in one packet and, in
another, `a/#` with the refused `a/#/b`, two messages: the filters overlap and
share a node, a packet fails after its first filter, retained nodes lie on one
branch, and a message object is overwritten or dropped while it is being sent.
`out_flow`: two publishers, so that every access to quota and packet id can be
overtaken; three messages (QoS 1, 1 and 2, the last one subject to `NoLocal`) against a quota of 2; ids that wrap
after the second; the last message may instead be a retained one, beyond the quota
and with id 2, which `onpub` gives out first; two connections; PUBREC codes 0 and 0x80. `sessions`: two
connections with each kind of will (none, delay 0, delayed), each will published at
most twice by its entry. `share`: two nodes, two clients on one and one on the
other, one share name with two filters, three SUBSCRIBE or UNSUBSCRIBE packets, one
message. `codec`: every packet type, every field with a value or two, those
at the edges among them, up to 3 to 5 setter calls, two hops, and a packet id
counter at 0 or about to wrap.
Clients and publishers are symmetric where nothing tells them apart.
`CHECK_DEADLOCK FALSE` where the
bounds, the end of the stream or the end of the connection stop the system.

**Fairness.** `InBuffer` and `OutBuffer`: weak fairness of each goroutine, since the Go
scheduler runs every goroutine that can run; strong fairness of taking a mutex,
since `sync.Mutex` hands a contended lock over in starvation mode. The network may
always fail (`faulty`), and delivers only if it does not; nobody has to call
`writeMessage`. `Sessions`: weak fairness
of `start`, `stop`, the goroutine of an immediate will and the cron jobs, all of
them goroutines of the broker that wait for nothing once they can run; none for what
the client does. The cron delay is taken to be longer than the rest of `AddJob` and
than the job itself: it is at least a second.

## 4. Proofs

A theorem holds for every value of the constants that satisfies the module's
named assumption; where it needs more, the hypothesis is in its statement. Each
inductive invariant was model-checked, on the instances of section 3, before it
was proved. There is one lemma per action, and one for each part of the state
that many actions leave alone (`...Frame`).

| Module | Theorem | States |
|---|---|---|
| `AckQueueProofs` | `TypeCorrect`, `IndexCorrect`, `FifoCorrect`, `AckCorrect`, `ReturnCorrect` | `TypeOK`, `EmapExact`, `InOrderExactlyOnce`, `AckOfOwnMessage`, `AckedIsComplete` |
| | `Refinement` | `ImplementsFifo`: every step of the ring is a step of `AckQueueAbs` or a stutter |
| `InBufferProofs` | `TypeCorrect`, `CursorsCorrect`, `BytesCorrect`, `BoundaryCorrect` | `TypeOK`, `CursorsInRing`, `UnreadIntact`, `PacketBoundary` |
| | `NoMutualWait` | `NeverBothWait`, if every packet leaves room for a block beside it (`RoomBeside`) |
| | `Refinement` | `ImplementsPipe`: every step is a step of `BytePipe` or a stutter |
| `OutBufferProofs` | `TypeCorrect`, `StallCorrect` | `TypeOK`, `StallCause` |
| | `Refinement` | `ImplementsSendPipe`: every step is a step of `SendPipe` or a stutter |
| `InFlowProofs` | `TypeCorrect`, `OnceCorrect`, `OrderCorrect`, `ReleaseCorrect`, `CompleteCorrect` | `TypeOK`, `AtMostOnce`, `SentOrder`, `OnlyReleased`, `CompletedPublished` |
| `OutFlowProofs` | `TypeCorrect`, `RecordsCorrect`, `AckCorrect`, `DrainCorrect` | `TypeOK`, `Recorded`, `AckFindsRecord`, `Drained` |
| | `InFlightCorrect`, `QuotaCorrect` | `InFlightBounded`, `QuotaAccounted`, retained messages included, if no PUBREC has a reason above 0x80 (`PubrecsPlain`) |
| `SessionsProofs` | `TypeCorrect`, `TreeCorrect`, `SessionCorrect`, `WillCorrect`, `CancelCorrect` | `TypeOK`, `TreeMatches`, `SessionKept`, `WillOnce`, `Cancelled` |
| `ShareProofs` | `GroupCorrect`, `KnownCorrect` | `GroupOnce`, `SubscribersKnown` |
| `TopicsProofs` | `TypeCorrect`, `BranchesCorrect` | `TypeOK`, `NoDeadBranches` |
| | `RoutingCorrect`, `RetainedCorrect`, `RetainedReaches` | `Routed`, `RetainedAgrees`, `RetainedOrLive`, where no level of a filter or topic is empty (`PlainLevels`) |

**AckQueue.** None of the invariants is inductive alone. That `grow` copies the
right slots, and that `insert` writes to a free one, needs `TailOK`: `tail` is the
slot `count` steps after `head`, which also settles the ambiguous case
`tail = head` (empty or full). That two waiting messages differ in their packet id
after `grow` rebuilt the index follows from `EmapExact` only for packet ids that
are in `PktIds`, which is `LiveIds`. The lemmas `ModSucc`, `SlotInjective`
(different positions of the queue are different slots), `LivePositions` and
`GrowCopies` are about the ring's arithmetic. The refinement maps the live slots,
in order, to the abstract queue; `WaitEffect`, `AckEffect` and `RemoveHeadShifts`
say what each operation does to that sequence, and `CompletePrefix` counts the same
messages in the ring and in the sequence. `AckedIsComplete` needs in addition that
a waiting message is of a type `Wait` accepts and that a ping is answered only
after it was sent (`AckedInv`).

**InBuffer.** The producer decides about room with `gate`, a copy of `cseq` that
may be old. `ReceiverInv` says that what it has reserved fits below
`gate + Size`, and `gate <= cseq`, so the bytes it stores lie less than a ring
after the ones the processor may still read (`SlotsDiffer`). `StoredIntact` carries
the bytes from the socket read to the commit, `ProcessorInv` the bytes that
the processor was promised from `ReadWait` to `ReadCommit`. `SleepInv` is the
argument against mutual waiting: a receiver that sleeps, or has decided to,
lacked room when it looked, and a broadcast that would tell it otherwise is still
to come, because it holds `pcond.L` from the test until it sleeps. With
`RoomBeside` a receiver that lacks room then leaves the processor a whole packet.
The refinement maps the bytes between the cursors to the pipe. Storing bytes is not
seen (`StepUnseen`), since it touches only slots behind `pseq`; moving `pseq` is `Put`
(`CommitPuts`) and `ReadCommit` is `Take` (`ReadCommitTakes`). That only acceptable
packets are taken needs `AcceptedInv`: what is being processed has passed the tests of
`peekMessageSize` and `processor`, and `packets` and `np` have not changed since.

**OutBuffer.** `WriterOK` is what a writer in `writeMessage` relies on: it has `wmu`,
so that all others are idle (`OthersIdle`) and `pseq` does not move under it; from
`WriteWait` on its packet fits below `gate + Size` (`Reserved`); from the encoding, or
the copy, until the commit its bytes are in their slots (`Placed`). `SenderOK` places
what was written to the socket: `gate <= cseq <= Len(wire) <= pseq`, where the second
is an equality but between the socket write and `ReadCommit`. `CopiedFacts` then says
of a packet, or the part of one that a failed encoding leaves, that it is stored in
slots different from those that the sender has yet to read (`SlotsDiffer`). The
refinement maps these, from `Len(wire)` to `pseq`, to the pipe: the commit is `Put`,
the socket write is `Give` (also a part of it, before an error), the unlock after a
failure is `Refuse`, and all else is not seen. `StallCause` rests on `SleepOK`, the
argument of `SleepInv` above, and on the copy of `pseq` with which the sender went to
sleep: it says that there is nothing (`ppos <= cseq`), so that if it is up to date
the ring is empty, and only a packet longer than the ring lacks room.

**InFlow.** While the last connection is up, client and broker are in step
(`Lockstep`): the queue has, in order, the messages for which a PUBREL is on its
way, then those for which a PUBREC is, so that a PUBREL meets its own
message at the head. `CompletedPublished` follows. `SentOrder` rests on
`QueuesOrdered` (what is published, queued and on its way is one ascending
sequence), `OnlyReleased` on `MarksReleased`, and `AtMostOnce` on both `SentOrder`
and that a connection only ever has messages sent on it (`OwnMessages`,
`OwnPublished`). Sessions that were given old records are excluded where the
properties exclude them.

**OutFlow.** The parts of the invariant: a message has at most one packet on
its way, the one that its phase calls for (`WiresOK`); a caller in `onpub` or `publish` has a
message of its own, in the phase of its step (`CallsOK`); `pkid` exceeds `MaxId` by
no more than the publishers that are between `AddUint32` and `StoreUint32`
(`IdsOK`); the store has the record of each message whose packet id is
not in use twice, and a bare packet id comes from a message that was received
(`StoreOK`); the head of an ack queue is never acknowledged for good, and what is
not so acknowledged waits for the client (`QueuesOK`). `Recorded`, `AckFindsRecord`
and `Drained` follow. For the quota, `Units` is `Quota` and the retained messages
whose final acknowledgement has been handled, or is being handled; `Account` says that
the counter is at most `Units` less the messages that hold one, and that these are at
most `Units`; hence swapping 0 into the counter, whatever it holds by then, creates no
unit. What is open holds a unit or is a retained message that has added none yet (`OpenHeld`),
which gives the bound. The proof that no packet returns a unit
twice needs `PubrecsPlain`: section 3 says what the code does otherwise.

**Sessions.** Connections begin in the order of their numbers (`Ordered`), and a
will leaves traces in cron only after its one `sendWillMsg` (`WillTraces`). All but
`TreeMatches` speak of connections that do not overlap (`serial`): then all but the last connection are
gone (`OthersGone`), the session in the manager is the last one's (`SessionIsLast`),
a cron entry is filed under the client id unless its owner is still filing it
(`EntryFiled`), and a job that has sent its will is running or out of the schedule
(`JobOnce`).

**Share.** A message on its way to a node for a share name has not been delivered to
that share name, and there is one such element at most (`OnTheWay`).
`SubscribersKnown` speaks of the moments when nothing is on its way; the invariant has
to hold in between, and is a matter of counting. `Balance(n, k, s)`: the weight that
node `n` has for node `k`, the SUBSCRIBEs on their way from `k` to `n` and those
answered but not yet announced make up for the subscriptions of `k` that last
(`Owned`) and the UNSUBSCRIBEs in the same two places. It is an inequality because a
repeated SUBSCRIBE counts again, a lost UNSUBSCRIBE is never taken off, and neither is a
subscription that ends with its connection. `BagSend` and `BagTake` say what happens to
the bag of announcements, `CountChange` what a step of one client does to the sets that
are counted.

**Topics.** The proofs are about sequences of levels of any length, so the trees
are reasoned about by `IsPre` (one path begins another): `PreChain`, that two
beginnings of a path are ordered, is why `sremove` may delete along the way back
and nothing else. `Tree` (closed under beginnings) is kept by `TreeGrow` and
`TreePrune`, and `Alive`, the form of `NoDeadBranches` that is inductive, by
`InsertAlive` and `RemoveAlive`. `smatch` and `rmatch` are recursive functions; what they
compute is settled without induction: `SReach` and `RReach` state directly which nodes a
call returns, `SReachStep` and `RReachStep` show that this satisfies the equation of
the recursion, and `OneResult` that no other function does, by the first level from
the end at which two would differ. `ReachedMatches` and `SMatchFacts` then compare
with what MQTT means by a match. This needs `PlainLevels`: the code takes an
empty level for `+`, where MQTT does not (memtopics.go:608), so
`Matches` is stated only without one. `Routed` needs `RouteInv`: the tree has what
the sessions have, or, between `Subscribe` and `AddTopic`, the QoS of the
subscription that is being added. `RetainedAgrees` needs `StoreInv`: a message object
belongs to one node, whose topic has that message in the store. For
`RetainedOrLive`, `ComingInv` says where the current message of a topic is for
each client that asks for it: delivered, or with a publisher that has yet to look for
subscribers (`ToMatch`) or has found this one (`ToHand`), or among the objects that
the client's handler has yet to send (`ToSend`). `AskerFound` closes the gap
between `Subscribe` and `AddTopic`; `Fronts` says that the object whose QoS is
lowered is the one that is sent and then taken away; and an object in that list
always has the newest message of its topic, because `rinsert` decodes into the object
that the node has.

The proofs about wires and queues share a few lemmas, stated in each of their modules:
what `Tail`, `SubSeq` and `Append` leave and add, position by position (`Parts`,
`Appended`), and that a set of numbers has a least element (`Minimum`), from which the
loops of `Acked` are settled without induction over the sequence.

Only model-checked: all of `Codec`, and all liveness (`SpaceNoticed`, `WriteReturns`,
`WillSent` and the violations of `AllProcessed` and `StopReturns`), since liveness under
fairness is out of the prover's reach. What the recursive functions of `Wire` (integers,
properties) compute for every input needs induction over data, which is out of its
reach too.

## 5. Plan

`ClusterCompress` is left: event table, cursors, compression and lease.

## 6. Not modelled

- The cluster over a shared database: polling by id, compression of subscription
  events, its lease. Its behaviour is that of SQL statements and of transactions that
  commit out of order; it is planned.
- The getty connection path (`getty_server.go`, `getty_bus.go`): an alternative that
  `main.go` does not start. Its `onPub` and `unSubAll` are the same code as
  modelled.
- Offline messages of the store, the AUTH exchange of the handshake, the rate limiter.
- The tree of `$sys` topics: a copy of the one in `Topics`.
- The redis table of shared topics, SQL, Mongo and redis drivers, configuration,
  logging, middleware, authentication stubs, websocket and listener wiring: they keep
  no protocol state or are not used.
