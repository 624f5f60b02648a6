------------------------------ MODULE OutFlow -------------------------------
(***************************************************************************)
(* Messages from the broker to one subscribing client, over several        *)
(* connections: the onpub closure of service.go start, service.go publish, *)
(* the send quota of pipiline.go, db_ackqueue.go and mem_ackqueue.go for   *)
(* Pub1ack and Pub2out, process.go processIncoming for PUBACK, PUBREC and  *)
(* PUBCOMP, the retained messages of process.go processSubscribe,          *)
(* db_session.go Init and mem_session_store.go for the outflow records.    *)
(*                                                                         *)
(* onpub of one connection is called by the processor goroutines of all    *)
(* the clients that publish (Publishers), so its steps interleave with     *)
(* each other, with the processor of the connection and with its end: a    *)
(* publisher that found the subscription may still be in onpub when the    *)
(* client is back on a new connection.  The processor of the connection    *)
(* calls publish itself for the retained messages of a SUBSCRIBE, without  *)
(* onpub, that is without quota and with the packet id of whoever          *)
(* published them.  A step of a caller is one access to the state it       *)
(* shares with the others.                                                 *)
(*                                                                         *)
(* The nth message for the client is the number n.  The client obeys MQTT: *)
(* it answers every packet, in order, and on a new connection it forgets   *)
(* what it had, since CONNACK reports no session.  (One that begins while  *)
(* the old service is between SetStatus and Del of stop is told that its   *)
(* session was kept, server.go:601-608: stop is one step here, so that     *)
(* this is left out; Sessions has it.)                                     *)
(* Messages with QoS 0 are left out: onpub only writes them.               *)
(***************************************************************************)
EXTENDS Integers, Sequences, FiniteSets, SequencesExt

CONSTANTS
  Publishers,   \* goroutines that may call onpub of this client's service
  QosOf,        \* the QoS of each message after it was lowered to the subscription's
  NoLocalMsgs,  \* messages that match a NoLocal subscription of the client
  RetainedId,   \* for the messages that may be retained ones, the packet id they have
  Quota,        \* the send quota, 100000 in NewSign
  MaxId,        \* max of start: four fifths of 65535
  MaxConns,     \* bound: connections the client makes
  PubrecCodes   \* reason codes the client puts into its PUBRECs

QosFailure == 128     \* 0x80, message.go

Messages == DOMAIN QosOf
Conns    == 1..MaxConns
None     == 0

\* Who calls publish: a publisher in onpub, or the processor of connection c, named c.
Callers == Publishers \cup Conns

\* A publisher that takes an id between AddUint32 and StoreUint32 of another one gets
\* an id beyond the maximum.
Ids == 2..(MaxId + Cardinality(Publishers)) \cup {RetainedId[m] : m \in DOMAIN RetainedId}

ASSUME OutFlowAssumption ==
  /\ IsFiniteSet(Publishers)
  /\ QosOf \in Seq(1..2)
  /\ Publishers \cap Conns = {}
  /\ NoLocalMsgs \subseteq Messages
  /\ DOMAIN RetainedId \subseteq Messages
  /\ \A m \in DOMAIN RetainedId : RetainedId[m] \in Nat \ {0}
  /\ Quota \in Nat \ {0}
  /\ MaxId \in Nat \ {0, 1}
  /\ MaxConns \in Nat \ {0}
  /\ PubrecCodes \subseteq 0..255

VARIABLES
  svc,      \* the service of every connection
  cur,      \* number of the client's latest connection
  pub,      \* where each caller is in onpub or publish, for which connection and message
  out,      \* sendCache of this client: the outflow record of each packet id
  sec,      \* secTwoCache of this client: packet ids between PUBREC and PUBCOMP
  msg       \* for each message: its connection, packet id and how far it got

vars == <<svc, cur, pub, out, sec, msg>>

NoService == [status |-> "none", db |-> FALSE, currQuota |-> Quota, beyondQuota |-> FALSE,
              pkid |-> 1, pub1ack |-> <<>>, pub2out |-> <<>>, proc |-> "top",
              s2c |-> <<>>, c2s |-> <<>>, restored |-> FALSE, refused |-> FALSE]

Idle  == [pc |-> "idle", conn |-> None, msg |-> None]
Fresh == [conn |-> None, id |-> None, phase |-> "new", open |-> FALSE, retained |-> FALSE]

Init ==
  /\ svc = [c \in Conns |-> NoService]
  /\ cur = 0
  /\ pub = [p \in Callers |-> Idle]
  /\ out = [i \in Ids |-> None]
  /\ sec = {}
  /\ msg = [m \in Messages |-> Fresh]

\* A packet; msg is the message it is about, which is not on the wire.
Packet(type, id, m, code) == [type |-> type, id |-> id, msg |-> m, code |-> code]

Up(c)      == svc[c].status = "up"
ClientUp   == cur > 0 /\ Up(cur)
Running(c) == svc[c].status \in {"up", "lost"}
At(p, pc)  == pub[p].pc = pc
Goto(p, pc) == pub' = [pub EXCEPT ![p].pc = pc]
Done(p)    == pub' = [pub EXCEPT ![p] = Idle]

\* m is the next message for the client.
IsNext(m) == msg[m] = Fresh /\ \A n \in 1..(m - 1) : msg[n] # Fresh

-----------------------------------------------------------------------------
(* A publisher's call of onpub up to publish.                              *)

\* lookSend: a publisher found the subscription of connection c and is about to call
\* its onpub.  Subscriptions last until stop.
lookSend(p, c) ==
  /\ At(p, "idle")
  /\ Running(c)
  /\ \E m \in Messages :
       /\ IsNext(m)
       /\ msg' = [msg EXCEPT ![m].conn = c]
       /\ pub' = [pub EXCEPT ![p] = [pc |-> "quota", conn |-> c, msg |-> m]]
  /\ UNCHANGED <<svc, cur, out, sec>>

\* ReqQuota tests beyondQuota; a refused message is dropped and onpub returns nil.
ReqQuota(p) ==
  LET c == pub[p].conn IN
  /\ At(p, "quota")
  /\ \/ /\ svc[c].beyondQuota
        /\ svc' = [svc EXCEPT ![c].refused = TRUE]
        /\ Done(p)
     \/ /\ ~svc[c].beyondQuota
        /\ Goto(p, "take")
        /\ UNCHANGED svc
  /\ UNCHANGED <<cur, out, sec, msg>>

\* Mutant of TakeQuota: the counter may reach -1 before a message is refused.
TakeQuota_OffByOne(p) ==
  LET c == pub[p].conn
      granted == svc[c].currQuota - 1 >= -1
  IN
  /\ At(p, "take")
  /\ svc' = [svc EXCEPT ![c].currQuota = @ - 1, ![c].refused = @ \/ ~granted]
  /\ msg' = IF granted THEN [msg EXCEPT ![pub[p].msg].phase = "granted"] ELSE msg
  /\ Goto(p, IF granted THEN "id" ELSE "over")
  /\ UNCHANGED <<cur, out, sec>>

\* ReqQuota decrements the counter and is refused when the result is negative.
TakeQuota(p) ==
  LET c == pub[p].conn
      granted == svc[c].currQuota - 1 >= 0
  IN
  /\ At(p, "take")
  /\ svc' = [svc EXCEPT ![c].currQuota = @ - 1, ![c].refused = @ \/ ~granted]
  /\ msg' = IF granted THEN [msg EXCEPT ![pub[p].msg].phase = "granted"] ELSE msg
  /\ Goto(p, IF granted THEN "id" ELSE "over")
  /\ UNCHANGED <<cur, out, sec>>

\* The refused ReqQuota raises the signal ...
SetBeyondQuota(p) ==
  /\ At(p, "over")
  /\ svc' = [svc EXCEPT ![pub[p].conn].beyondQuota = TRUE]
  /\ Goto(p, "zero")
  /\ UNCHANGED <<cur, out, sec, msg>>

\* ... and swaps 0 into the counter, whatever it holds by now.
ZeroQuota(p) ==
  /\ At(p, "zero")
  /\ svc' = [svc EXCEPT ![pub[p].conn].currQuota = 0]
  /\ Done(p)
  /\ UNCHANGED <<cur, out, sec, msg>>

\* The NoLocal test comes after the quota was taken: a message from this client itself
\* is dropped, one from another client takes a packet id, also the first one beyond
\* MaxId.
TakeId(p) ==
  LET c  == pub[p].conn
      m  == pub[p].msg
      id == svc[c].pkid + 1
  IN
  /\ At(p, "id")
  /\ \/ /\ m \in NoLocalMsgs
        /\ msg' = [msg EXCEPT ![m].phase = "dropped"]
        /\ Done(p)
        /\ UNCHANGED svc
     \/ /\ svc' = [svc EXCEPT ![c].pkid = id]
        /\ msg' = [msg EXCEPT ![m].id = id]
        /\ Goto(p, IF id > MaxId THEN "wrap" ELSE "cache")
  /\ UNCHANGED <<cur, out, sec>>

\* StoreUint32(&pkid, 1), after other publishers may have taken ids too.
WrapId(p) ==
  /\ At(p, "wrap")
  /\ svc' = [svc EXCEPT ![pub[p].conn].pkid = 1]
  /\ Goto(p, "cache")
  /\ UNCHANGED <<cur, out, sec, msg>>

onpub(p) ==
  \/ ReqQuota(p) \/ TakeQuota(p) \/ SetBeyondQuota(p) \/ ZeroQuota(p)
  \/ TakeId(p) \/ WrapId(p)

-----------------------------------------------------------------------------
(* publish, which onpub and the processor call.                            *)

\* Wait of a db queue first writes the record, over the one that is there; a queue of a
\* session without expiry is in memory only.
CacheOutflowMsg(p) ==
  LET m == pub[p].msg IN
  /\ At(p, "cache")
  /\ out' = IF svc[pub[p].conn].db THEN [out EXCEPT ![msg[m].id] = m] ELSE out
  /\ msg' = [msg EXCEPT ![m].phase = "cached"]
  /\ Goto(p, "wait")
  /\ UNCHANGED <<svc, cur, sec>>

Entry(m, id) == [id |-> id, msg |-> m, state |-> "RESERVED"]

\* insert of the ack queue: a packet id that is waiting is dropped.
insert(q, m, id) ==
  IF \E k \in DOMAIN q : q[k].id = id THEN q ELSE Append(q, Entry(m, id))

\* Wait then queues the message.
Wait(p) ==
  LET c == pub[p].conn
      m == pub[p].msg
  IN
  /\ At(p, "wait")
  /\ svc' = IF QosOf[m] = 1
            THEN [svc EXCEPT ![c].pub1ack = insert(@, m, msg[m].id)]
            ELSE [svc EXCEPT ![c].pub2out = insert(@, m, msg[m].id)]
  /\ Goto(p, "write")
  /\ UNCHANGED <<cur, out, sec, msg>>

\* writeMessage: publish ignores its error, so that the message just waits if the
\* connection is gone.
writeMessage(p) ==
  LET c == pub[p].conn
      m == pub[p].msg
  IN
  /\ At(p, "write")
  /\ svc' = IF Up(c) THEN [svc EXCEPT ![c].s2c = Append(@, Packet("PUBLISH", msg[m].id, m, 0))]
            ELSE svc
  /\ msg' = [msg EXCEPT ![m].open = Up(c)]
  /\ Done(p)
  /\ UNCHANGED <<cur, out, sec>>

publish(p) == CacheOutflowMsg(p) \/ Wait(p) \/ writeMessage(p)

-----------------------------------------------------------------------------
(* The client.                                                             *)

Answers(pkt) ==
  CASE pkt.type = "PUBREL"      -> {Packet("PUBCOMP", pkt.id, pkt.msg, 0)}
    [] QosOf[pkt.msg] = 1       -> {Packet("PUBACK", pkt.id, pkt.msg, 0)}
    [] OTHER                    -> {Packet("PUBREC", pkt.id, pkt.msg, r) : r \in PubrecCodes}

Final == {"PUBACK", "PUBCOMP"}

\* The client takes the next packet and answers it.
ClientAnswer ==
  /\ ClientUp
  /\ svc[cur].s2c # <<>>
  /\ LET pkt == Head(svc[cur].s2c) IN
     \E a \in Answers(pkt) :
       /\ svc' = [svc EXCEPT ![cur].s2c = Tail(@), ![cur].c2s = Append(@, a)]
       /\ msg' = [msg EXCEPT ![pkt.msg].open = @ /\ a.type \notin Final /\ a.code < QosFailure]
  /\ UNCHANGED <<cur, pub, out, sec>>

\* The connection breaks: what the broker has not received yet is lost.
LoseConnection ==
  /\ ClientUp
  /\ \E n \in 0..Len(svc[cur].c2s) :
       /\ svc[cur].proc \in {"clear", "ack"} => n > 0
       /\ svc' = [svc EXCEPT ![cur].status = "lost", ![cur].c2s = SubSeq(@, 1, n), ![cur].s2c = <<>>]
  /\ UNCHANGED <<cur, pub, out, sec, msg>>

-----------------------------------------------------------------------------
(* The processor goroutine of a connection.                                *)

\* processSubscribe calls publish for the next retained message, after SUBACK; the ones
\* with QoS 0 are left out.
SendRetained(c) ==
  /\ Running(c)
  /\ svc[c].proc \in {"peek", "subscribe"}
  /\ At(c, "idle")
  /\ \E m \in DOMAIN RetainedId :
       /\ IsNext(m)
       /\ msg' = [msg EXCEPT ![m].conn = c, ![m].id = RetainedId[m], ![m].retained = TRUE]
       /\ pub' = [pub EXCEPT ![c] = [pc |-> "cache", conn |-> c, msg |-> m]]
  /\ svc' = [svc EXCEPT ![c].proc = "subscribe"]
  /\ UNCHANGED <<cur, out, sec>>

\* processSubscribe returns after the last one.
processSubscribe(c) ==
  /\ svc[c].proc = "subscribe"
  /\ At(c, "idle")
  /\ svc' = [svc EXCEPT ![c].proc = "top"]
  /\ UNCHANGED <<cur, pub, out, sec, msg>>

\* streamController, at the top of the loop and before the next packet is there.
streamController(c) ==
  /\ Running(c)
  /\ svc[c].proc = "top"
  /\ \/ /\ svc[c].beyondQuota
        /\ svc' = [svc EXCEPT ![c].status = "gone", ![c].c2s = <<>>, ![c].s2c = <<>>]
     \/ /\ ~svc[c].beyondQuota
        /\ svc' = [svc EXCEPT ![c].proc = "peek"]
  /\ UNCHANGED <<cur, pub, out, sec, msg>>

\* Mutant of AddsQuota: every PUBREC returns a unit.
AddsQuota_Pubrec(pkt) == pkt.type \in Final \cup {"PUBREC"}

\* Does processIncoming call AddQuota for this packet?
AddsQuota(pkt) == pkt.type \in Final \/ (pkt.type = "PUBREC" /\ pkt.code > QosFailure)

\* AddQuota counts up, and will clear the signal if the result is positive.
AddQuota(c) ==
  /\ Running(c)
  /\ svc[c].proc = "peek"
  /\ svc[c].c2s # <<>>
  /\ LET adds == AddsQuota(Head(svc[c].c2s)) IN
     svc' = [svc EXCEPT ![c].currQuota = IF adds THEN @ + 1 ELSE @,
                        ![c].proc = IF adds /\ svc[c].currQuota + 1 > 0 THEN "clear" ELSE "ack"]
  /\ UNCHANGED <<cur, pub, out, sec, msg>>

Cleared(c) == svc[c].beyondQuota /\ svc[c].proc # "clear"

\* The next packet is of this type, and AddQuota was called for it if it had to be.
Handles(c, type) ==
  /\ Running(c)
  /\ svc[c].proc \in {"clear", "ack"}
  /\ Head(svc[c].c2s).type = type

\* Ack of the ack queue.
Marked(q, id, type) ==
  [k \in DOMAIN q |-> IF q[k].id = id THEN [q[k] EXCEPT !.state = type] ELSE q[k]]

\* Mutant of Acked: one message is handed out at most.
Acked_One(q) == IF q # <<>> /\ Head(q).state \in Final THEN Tail(q) ELSE q

\* What Acked leaves in the queue: what follows the first message that still waits.
Acked(q) ==
  LET waits == {k \in DOMAIN q : q[k].state \notin Final} IN
  IF waits = {} THEN <<>>
  ELSE SubSeq(q, CHOOSE k \in waits : \A j \in waits : k <= j, Len(q))

\* ReleaseOutflowMsg finds no record: the processor ends the connection.
NoRecord(c, id) == svc[c].db /\ out[id] = None

AckFails(c) ==
  /\ Handles(c, "PUBACK") \/ Handles(c, "PUBREC")
  /\ NoRecord(c, Head(svc[c].c2s).id)
  /\ svc' = [svc EXCEPT ![c].status = "failed", ![c].s2c = <<>>, ![c].beyondQuota = Cleared(c)]
  /\ UNCHANGED <<cur, pub, out, sec, msg>>

\* Mutant of Released: the map of the client goes, not the one record.
Released_All(c, id) == IF svc[c].db THEN [i \in Ids |-> None] ELSE out

\* ReleaseOutflowMsg of a db session.
Released(c, id) == IF svc[c].db THEN [out EXCEPT ![id] = None] ELSE out

processPuback(c) ==
  LET a == Head(svc[c].c2s) IN
  /\ Handles(c, "PUBACK")
  /\ ~NoRecord(c, a.id)
  /\ out' = Released(c, a.id)
  /\ msg' = [msg EXCEPT ![a.msg].phase = "done"]
  /\ svc' = [svc EXCEPT ![c].c2s = Tail(@), ![c].proc = "top", ![c].beyondQuota = Cleared(c),
                        ![c].pub1ack = Acked(Marked(@, a.id, "PUBACK"))]
  /\ UNCHANGED <<cur, pub, sec>>

\* Mutant of processPubrec: the packet id is not kept.
processPubrec_NoSec(c) ==
  LET a == Head(svc[c].c2s) IN
  /\ Handles(c, "PUBREC")
  /\ ~NoRecord(c, a.id)
  /\ out' = Released(c, a.id)
  /\ msg' = [msg EXCEPT ![a.msg].phase = "received"]
  /\ svc' = [svc EXCEPT ![c].c2s = Tail(@), ![c].proc = "top", ![c].beyondQuota = Cleared(c),
                        ![c].pub2out = Marked(@, a.id, "PUBREC"),
                        ![c].s2c = IF Up(c) THEN Append(@, Packet("PUBREL", a.id, a.msg, 0)) ELSE @]
  /\ UNCHANGED <<cur, pub, sec>>

\* PUBREC: the record gives way to the bare packet id; PUBREL is sent whatever the
\* reason code.
processPubrec(c) ==
  LET a == Head(svc[c].c2s) IN
  /\ Handles(c, "PUBREC")
  /\ ~NoRecord(c, a.id)
  /\ out' = Released(c, a.id)
  /\ sec' = IF svc[c].db THEN sec \cup {a.id} ELSE sec
  /\ msg' = [msg EXCEPT ![a.msg].phase = "received"]
  /\ svc' = [svc EXCEPT ![c].c2s = Tail(@), ![c].proc = "top", ![c].beyondQuota = Cleared(c),
                        ![c].pub2out = Marked(@, a.id, "PUBREC"),
                        ![c].s2c = IF Up(c) THEN Append(@, Packet("PUBREL", a.id, a.msg, 0)) ELSE @]
  /\ UNCHANGED <<cur, pub>>

\* PUBCOMP: secTwoCache has an entry for the client since the PUBREC before it.
processPubcomp(c) ==
  LET a == Head(svc[c].c2s) IN
  /\ Handles(c, "PUBCOMP")
  /\ sec' = IF svc[c].db THEN sec \ {a.id} ELSE sec
  /\ msg' = [msg EXCEPT ![a.msg].phase = "done"]
  /\ svc' = [svc EXCEPT ![c].c2s = Tail(@), ![c].proc = "top", ![c].beyondQuota = Cleared(c),
                        ![c].pub2out = Acked(Marked(@, a.id, "PUBCOMP"))]
  /\ UNCHANGED <<cur, pub, out>>

\* stop waits for the processor; the service ends, its subscriptions are taken back; the
\* records stay.
stop(c) ==
  /\ svc[c].status = "lost"
  /\ svc[c].proc \in {"top", "peek"}
  /\ svc' = [svc EXCEPT ![c].status = "gone", ![c].c2s = <<>>]
  /\ UNCHANGED <<cur, pub, out, sec, msg>>

\* The records of one QoS, as dbSession.Init queues them: in the order of a Go map.
Restorable(two) == {Entry(out[i], i) : i \in {j \in Ids : out[j] # None /\ (QosOf[out[j]] = 2) = two}}

\* getSession and start: a new session, with the records of the earlier ones if it has
\* an expiry interval.  The ids in sec are restored as QoS 0 messages, which Wait
\* refuses.  Packet ids and the quota start anew, nothing is sent again.
Connect(db) ==
  /\ ~ClientUp
  /\ cur < MaxConns
  /\ cur' = cur + 1
  /\ \E q1 \in SetToSeqs(IF db THEN Restorable(FALSE) ELSE {}),
        q2 \in SetToSeqs(IF db THEN Restorable(TRUE) ELSE {}) :
       svc' = [svc EXCEPT ![cur + 1] = [NoService EXCEPT !.status = "up", !.db = db,
                                          !.pub1ack = q1, !.pub2out = q2,
                                          !.restored = (q1 \o q2) # <<>>]]
  /\ UNCHANGED <<pub, out, sec, msg>>

Next ==
  \/ \E p \in Publishers : onpub(p) \/ \E c \in Conns : lookSend(p, c)
  \/ \E p \in Callers : publish(p)
  \/ ClientAnswer \/ LoseConnection
  \/ \E c \in Conns :
       \/ streamController(c) \/ AddQuota(c)
       \/ SendRetained(c) \/ processSubscribe(c)
       \/ AckFails(c) \/ processPuback(c) \/ processPubrec(c) \/ processPubcomp(c)
       \/ stop(c)
  \/ \E db \in BOOLEAN : Connect(db)

Spec == Init /\ [][Next]_vars

-----------------------------------------------------------------------------
Phases == {"new", "granted", "dropped", "cached", "received", "done"}

\* The states of the services, the publishers, the store and the messages.
TypeOK ==
  /\ cur \in 0..MaxConns
  /\ \A c \in Conns :
       /\ svc[c].status \in {"none", "up", "lost", "failed", "gone"}
       /\ svc[c].currQuota \in Int
       /\ svc[c].pkid \in 1..(MaxId + Cardinality(Publishers))
       /\ \A k \in DOMAIN svc[c].pub1ack : QosOf[svc[c].pub1ack[k].msg] = 1
       /\ \A k \in DOMAIN svc[c].pub2out : QosOf[svc[c].pub2out[k].msg] = 2
  /\ \A p \in Callers : pub[p].conn \in Conns \cup {None} /\ pub[p].msg \in Messages \cup {None}
  /\ out \in [Ids -> Messages \cup {None}]
  /\ sec \subseteq Ids
  /\ msg \in [Messages -> [conn : Conns \cup {None}, id : Ids \cup {None}, phase : Phases,
                           open : BOOLEAN, retained : BOOLEAN]]

\* Retained messages of a connection, and those of them whose final acknowledgement gave
\* the quota a unit they never took.
Retained(c) == {m \in Messages : msg[m].conn = c /\ msg[m].retained}

\* The final acknowledgement of message m is being handled: AddQuota was called for it.
Acknowledging(m, c) ==
  svc[c].proc \in {"clear", "ack"} /\ Head(svc[c].c2s).type \in Final /\ Head(svc[c].c2s).msg = m

Returned(c) == {m \in Retained(c) : msg[m].phase = "done" \/ Acknowledging(m, c)}

\* The client is never given more unanswered messages than the quota and the retained
\* messages of the connection, however the publishers' and the processor's accesses to
\* currQuota and beyondQuota interleave.  The quota alone is no bound: a retained message
\* takes no unit of it, and once acknowledged has added one.  It holds while no PUBREC has
\* a reason above 0x80: for such a one the PUBREC returns a unit and, since PUBREL is sent
\* all the same, its PUBCOMP returns it again.
InFlightBounded ==
  \A c \in Conns : Cardinality({m \in Messages : msg[m].conn = c /\ msg[m].open})
                   <= Quota + Cardinality(Retained(c))

\* Messages of a connection that hold a unit of its quota; the one whose final
\* acknowledgement is being handled has given it back.
Holding(c) ==
  {m \in Messages :
     /\ msg[m].conn = c /\ ~msg[m].retained
     /\ msg[m].phase \in {"granted", "dropped", "cached", "received"}
     /\ ~Acknowledging(m, c)}

\* AddQuota and ReqQuota keep count: no unit is given out twice, but for those that
\* acknowledged retained messages added, and as long as no message was refused on the
\* connection none is lost (one that NoLocal drops keeps its unit for good; Swap of 0
\* loses what was returned since the decrement).
QuotaAccounted ==
  \A c \in Conns : Running(c) =>
    LET units == Quota + Cardinality(Returned(c)) - Cardinality(Holding(c)) IN
    /\ svc[c].currQuota <= units
    /\ ~svc[c].refused => svc[c].currQuota = units

InStore(m) == svc[msg[m].conn].db /\ msg[m].phase \in {"cached", "received", "done"}

\* Another message of a session with a store has the same packet id: pkid wraps around,
\* starts at 1 on every connection, and a retained message keeps its publisher's id.
Reused(m) == \E n \in Messages \ {m} : msg[n].id = msg[m].id /\ msg[n].conn # None /\ InStore(n)

\* A message that waits for the client has its record in the store, first itself, then
\* its packet id, also after its connection is gone, unless its packet id was reused.
Recorded ==
  \A m \in Messages : msg[m].conn # None /\ InStore(m) /\ ~Reused(m) =>
    /\ msg[m].phase = "cached"   => out[msg[m].id] = m
    /\ msg[m].phase = "received" => out[msg[m].id] = None /\ msg[m].id \in sec
    /\ msg[m].phase = "done"     => out[msg[m].id] = None /\ msg[m].id \notin sec

\* The broker ends a connection for an acknowledgement it has no record of only when
\* the packet id was reused: never because its own steps overtook each other.
AckFindsRecord ==
  \A c \in Conns : svc[c].status = "failed" => Reused(Head(svc[c].c2s).msg)

Distinct(c) ==
  \A m, n \in Messages : m # n /\ msg[m].conn = c /\ msg[n].conn = c /\ msg[m].id # None
                         => msg[m].id # msg[n].id

\* The ack queues of a connection that began without records are empty once all its
\* messages are acknowledged, in whatever order they were queued and written.
Drained ==
  \A c \in Conns :
    /\ Running(c) /\ ~svc[c].restored /\ Distinct(c)
    /\ \A m \in Messages : msg[m].conn = c => msg[m].phase \notin {"cached", "received"}
    => svc[c].pub1ack = <<>> /\ svc[c].pub2out = <<>>
=============================================================================
