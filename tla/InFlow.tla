------------------------------- MODULE InFlow -------------------------------
(***************************************************************************)
(* QoS 2 messages from a client to the broker, over several connections:   *)
(* process.go processPublish, processIncoming (PUBREL) and processAcked,   *)
(* db_ackqueue.go and mem_ackqueue.go for Pub2in, db_session.go Init,      *)
(* mem_session_store.go (the default store) for the inflow records,        *)
(* server.go getSession and service.go stop for the life of the session.   *)
(*                                                                         *)
(* The client obeys MQTT 5: PUBREL answers PUBREC at once, a packet id is  *)
(* used again after PUBCOMP, and since CONNACK reports no session          *)
(* (getSession finds none, or one it takes for expired), a client that     *)
(* reconnects forgets what it had in flight.  (A connection that begins    *)
(* while the old service is between SetStatus and Del of stop finds a      *)
(* session that is kept and reported, server.go:601-608: stop is one step  *)
(* here, so that this is left out; Sessions has it.)  A connection may     *)
(* break at any time; its service goes on with the packets it received     *)
(* until it stops, also while the client is back on a new connection.      *)
(*                                                                         *)
(* The nth message of the client is the number n.  The ack queue is the    *)
(* FIFO queue that AckQueue implements.                                    *)
(***************************************************************************)
EXTENDS Integers, Sequences, FiniteSets

CONSTANTS
  PktIds,    \* packet ids the client uses
  MaxMsgs,   \* bound: messages the client publishes
  MaxConns   \* bound: connections the client makes

ASSUME InFlowAssumption ==
  /\ PktIds \subseteq Nat
  /\ MaxMsgs \in Nat
  /\ MaxConns \in Nat \ {0}

VARIABLES
  svc,        \* the service of every connection
  cur,        \* number of the client's latest connection
  clientUp,   \* does the client take that connection to be up
  flight,     \* per packet id, the client's message in flight and its phase
  sentOn,     \* the connection each message was published on
  released,   \* messages the client sent PUBREL for
  completed,  \* messages the client got PUBCOMP for
  store,      \* recCache of this client: the inflow record of each packet id
  published   \* what went to onPublish: message and connection, in order

vars == <<svc, cur, clientUp, flight, sentOn, released, completed, store, published>>

Conns == 1..MaxConns
None  == 0                                \* no message
Idle  == [phase |-> "idle", msg |-> None]

NoService == [status |-> "none", clean |-> FALSE, db |-> FALSE, restored |-> FALSE,
              queue |-> <<>>, c2s |-> <<>>, s2c |-> <<>>]

Init ==
  /\ svc = [c \in Conns |-> NoService]
  /\ cur = 0
  /\ clientUp = FALSE
  /\ flight = [p \in PktIds |-> Idle]
  /\ sentOn = <<>>
  /\ released = {} /\ completed = {}
  /\ store = [p \in PktIds |-> None]
  /\ published = <<>>

-----------------------------------------------------------------------------
(* The client.                                                             *)

ClientPublish(p) ==
  LET m == Len(sentOn) + 1 IN
  /\ clientUp
  /\ flight[p] = Idle
  /\ m <= MaxMsgs
  /\ flight' = [flight EXCEPT ![p] = [phase |-> "publish", msg |-> m]]
  /\ sentOn' = Append(sentOn, cur)
  /\ svc' = [svc EXCEPT ![cur].c2s = Append(@, [type |-> "PUBLISH", pktid |-> p, msg |-> m])]
  /\ UNCHANGED <<cur, clientUp, released, completed, store, published>>

ClientPubrec(p) ==
  /\ clientUp
  /\ svc[cur].s2c # <<>> /\ Head(svc[cur].s2c) = [type |-> "PUBREC", pktid |-> p]
  /\ flight' = [flight EXCEPT ![p].phase = "pubrel"]
  /\ released' = released \cup {flight[p].msg}
  /\ svc' = [svc EXCEPT ![cur].s2c = Tail(@),
                        ![cur].c2s = Append(@, [type |-> "PUBREL", pktid |-> p, msg |-> None])]
  /\ UNCHANGED <<cur, clientUp, sentOn, completed, store, published>>

ClientPubcomp(p) ==
  /\ clientUp
  /\ svc[cur].s2c # <<>> /\ Head(svc[cur].s2c) = [type |-> "PUBCOMP", pktid |-> p]
  /\ completed' = completed \cup {flight[p].msg}
  /\ flight' = [flight EXCEPT ![p] = Idle]
  /\ svc' = [svc EXCEPT ![cur].s2c = Tail(@)]
  /\ UNCHANGED <<cur, clientUp, sentOn, released, store, published>>

\* The connection breaks: what the broker has not received yet is lost.
LoseConnection ==
  /\ clientUp
  /\ clientUp' = FALSE
  /\ \E n \in 0..Len(svc[cur].c2s) :
       svc' = [svc EXCEPT ![cur].status = IF @ = "up" THEN "lost" ELSE @,
                          ![cur].c2s = SubSeq(@, 1, n),
                          ![cur].s2c = <<>>]
  /\ UNCHANGED <<cur, flight, sentOn, released, completed, store, published>>

-----------------------------------------------------------------------------
(* The broker.                                                             *)

Waiting(q, p) == \E k \in DOMAIN q : q[k].pktid = p

\* The records the store keeps for this client.
Records == {[pktid |-> p, msg |-> store[p], rel |-> FALSE] : p \in {i \in PktIds : store[i] # None}}

\* dbSession.Init gives pub2in the inflow records, in the order of a Go map; the
\* session of a client with session expiry 0 starts empty.
RestoredQueue(q, db) ==
  IF db THEN Len(q) = Cardinality(Records) /\ {q[k] : k \in DOMAIN q} = Records
  ELSE q = <<>>

Queues == UNION {[1..n -> Records] : n \in 0..Cardinality(Records)}

\* getSession and start.  ClearSession of the default store, called for a clean start
\* and for a session that is found and taken for expired, leaves the inflow records.
Connect(clean, db) ==
  /\ ~clientUp
  /\ cur < MaxConns
  /\ cur' = cur + 1
  /\ clientUp' = TRUE
  /\ flight' = [p \in PktIds |-> Idle]
  /\ \E q \in Queues :
       /\ RestoredQueue(q, db)
       /\ svc' = [svc EXCEPT ![cur + 1] = [NoService EXCEPT !.status = "up", !.clean = clean,
                                                            !.db = db, !.queue = q,
                                                            !.restored = q # <<>>]]
  /\ UNCHANGED <<sentOn, released, completed, store, published>>

\* writeMessage: an answer reaches the client only while its connection is up.
Answered(c, type, p) ==
  IF svc[c].status = "up" THEN Append(svc[c].s2c, [type |-> type, pktid |-> p]) ELSE svc[c].s2c

Received(c, type, p) ==
  /\ svc[c].status \in {"up", "lost"}
  /\ svc[c].c2s # <<>>
  /\ Head(svc[c].c2s).type = type
  /\ Head(svc[c].c2s).pktid = p

\* Mutant of processPublish: the message is queued in front.
processPublish_Front(c, p) ==
  LET m == Head(svc[c].c2s).msg IN
  /\ Received(c, "PUBLISH", p)
  /\ store' = IF svc[c].db THEN [store EXCEPT ![p] = m] ELSE store
  /\ svc' = [svc EXCEPT
       ![c].c2s = Tail(@),
       ![c].queue = IF Waiting(@, p) THEN @
                    ELSE <<[pktid |-> p, msg |-> m, rel |-> FALSE]>> \o @,
       ![c].s2c = Answered(c, "PUBREC", p)]
  /\ UNCHANGED <<cur, clientUp, flight, sentOn, released, completed, published>>

\* Mutant of processPublish: Wait returns after the inflow record.
processPublish_RecordOnly(c, p) ==
  /\ Received(c, "PUBLISH", p)
  /\ store' = IF svc[c].db THEN [store EXCEPT ![p] = Head(svc[c].c2s).msg] ELSE store
  /\ svc' = [svc EXCEPT ![c].c2s = Tail(@), ![c].s2c = Answered(c, "PUBREC", p)]
  /\ UNCHANGED <<cur, clientUp, flight, sentOn, released, completed, published>>

\* processPublish for QoS 2: Pub2in.Wait writes the inflow record, then queues the
\* message unless its packet id is waiting; PUBREC is sent in any case.
processPublish(c, p) ==
  LET m == Head(svc[c].c2s).msg IN
  /\ Received(c, "PUBLISH", p)
  /\ store' = IF svc[c].db THEN [store EXCEPT ![p] = m] ELSE store
  /\ svc' = [svc EXCEPT
       ![c].c2s = Tail(@),
       ![c].queue = IF Waiting(@, p) THEN @
                    ELSE Append(@, [pktid |-> p, msg |-> m, rel |-> FALSE]),
       ![c].s2c = Answered(c, "PUBREC", p)]
  /\ UNCHANGED <<cur, clientUp, flight, sentOn, released, completed, published>>

\* Mutant of Acknowledged: every waiting message is marked.
Acknowledged_All(q, p) == [k \in DOMAIN q |-> [q[k] EXCEPT !.rel = TRUE]]

\* Pub2in.Ack: the message with this packet id is marked as released.
Acknowledged(q, p) == [k \in DOMAIN q |-> IF q[k].pktid = p THEN [q[k] EXCEPT !.rel = TRUE] ELSE q[k]]

\* Pub2in.Acked: how many messages from the head on are released.
AckedLen(q) ==
  CHOOSE n \in 0..Len(q) :
    (\A k \in 1..n : q[k].rel) /\ (n < Len(q) => ~q[n + 1].rel)

\* Mutant of processPubrel: what was handed out stays in the queue.
processPubrel_KeepQueue(c, p) ==
  LET q == Acknowledged(svc[c].queue, p) IN
  /\ Received(c, "PUBREL", p)
  /\ svc[c].db => store[p] # None
  /\ store' = IF svc[c].db THEN [store EXCEPT ![p] = None] ELSE store
  /\ published' = published \o [k \in 1..AckedLen(q) |-> [msg |-> q[k].msg, conn |-> c]]
  /\ svc' = [svc EXCEPT
       ![c].c2s = Tail(@),
       ![c].queue = q,
       ![c].s2c = Answered(c, "PUBCOMP", p)]
  /\ UNCHANGED <<cur, clientUp, flight, sentOn, released, completed>>

\* PUBREL: the inflow record is deleted, the message marked, what is complete goes to
\* onPublish, PUBCOMP is sent.
processPubrel(c, p) ==
  LET q == Acknowledged(svc[c].queue, p)
      n == AckedLen(q)
  IN
  /\ Received(c, "PUBREL", p)
  /\ svc[c].db => store[p] # None
  /\ store' = IF svc[c].db THEN [store EXCEPT ![p] = None] ELSE store
  /\ published' = published \o [k \in 1..n |-> [msg |-> q[k].msg, conn |-> c]]
  /\ svc' = [svc EXCEPT
       ![c].c2s = Tail(@),
       ![c].queue = SubSeq(q, n + 1, Len(q)),
       ![c].s2c = Answered(c, "PUBCOMP", p)]
  /\ UNCHANGED <<cur, clientUp, flight, sentOn, released, completed>>

\* PUBREL without an inflow record: ReleaseInflowMsg fails and processor returns.
processPubrelFails(c, p) ==
  /\ Received(c, "PUBREL", p)
  /\ svc[c].db /\ store[p] = None
  /\ svc' = [svc EXCEPT ![c].status = "stopping"]
  /\ UNCHANGED <<cur, clientUp, flight, sentOn, released, completed, store, published>>

\* stop: the service of a broken connection, or one that met an error, ends; its
\* queue goes with the session, and ClearSession leaves the inflow records.
stop(c) ==
  /\ svc[c].status \in {"lost", "stopping"}
  /\ svc' = [svc EXCEPT ![c].status = "gone", ![c].queue = <<>>, ![c].c2s = <<>>]
  /\ UNCHANGED <<cur, clientUp, flight, sentOn, released, completed, store, published>>

Next ==
  \/ \E p \in PktIds : ClientPublish(p) \/ ClientPubrec(p) \/ ClientPubcomp(p)
  \/ LoseConnection
  \/ \E clean \in BOOLEAN, db \in BOOLEAN : Connect(clean, db)
  \/ \E c \in Conns, p \in PktIds :
       processPublish(c, p) \/ processPubrel(c, p) \/ processPubrelFails(c, p)
  \/ \E c \in Conns : stop(c)

Spec == Init /\ [][Next]_vars

-----------------------------------------------------------------------------
Messages == 1..MaxMsgs

\* The states of client and broker: records hold messages, services packets.
TypeOK ==
  /\ cur \in 0..MaxConns
  /\ clientUp \in BOOLEAN
  /\ flight \in [PktIds -> [phase : {"idle", "publish", "pubrel"}, msg : Messages \cup {None}]]
  /\ sentOn \in Seq(Conns)
  /\ released \subseteq Messages /\ completed \subseteq Messages
  /\ store \in [PktIds -> Messages \cup {None}]
  /\ published \in Seq([msg : Messages, conn : Conns])
  /\ \A c \in Conns : svc[c].queue \in Seq([pktid : PktIds, msg : Messages, rel : BOOLEAN])

\* No message reaches the subscribers twice, unless through a session that began with
\* records of an earlier one: also when the services of two connections overlap.
AtMostOnce ==
  \A i, j \in DOMAIN published :
    /\ published[i].msg = published[j].msg
    /\ ~svc[published[i].conn].restored /\ ~svc[published[j].conn].restored
    => i = j

\* One connection's messages are published in the order the client sent them.
SentOrder ==
  \A i, j \in DOMAIN published :
    i < j /\ published[i].conn = published[j].conn /\ ~svc[published[i].conn].restored
      => published[i].msg < published[j].msg

\* A message whose PUBCOMP the client has got was published, unless the session
\* began with records of an earlier one.
CompletedPublished ==
  \A m \in completed :
    \/ svc[sentOn[m]].restored
    \/ \E i \in DOMAIN published : published[i].msg = m

\* Only what the client released is published, unless the session began with records
\* of an earlier one.
OnlyReleased ==
  \A i \in DOMAIN published :
    published[i].msg \in released \/ svc[published[i].conn].restored

\* getSession's comment on a clean start: the state of a session "must never be
\* reused in any subsequent session".  So what a session that was started clean
\* publishes was sent to it.
CleanStartIsClean ==
  \A i \in DOMAIN published :
    svc[published[i].conn].clean => sentOn[published[i].msg] = published[i].conn
=============================================================================
