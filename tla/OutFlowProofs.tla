--------------------------- MODULE OutFlowProofs ----------------------------
(***************************************************************************)
(* Proofs about OutFlow, for every set of publishers, every number of      *)
(* messages and connections, every quota and every range of packet ids.    *)
(***************************************************************************)
EXTENDS OutFlow, SequenceTheorems, FiniteSetTheorems, WellFoundedInduction, TLAPS

(* What a step leaves of a sequence and what it adds.                      *)

\* s2 is the part of s that begins after its first d elements.
Part(s2, s, d) ==
  /\ DOMAIN s2 \subseteq Nat \ {0} /\ DOMAIN s \subseteq Nat \ {0} /\ d \in Nat
  /\ \A k \in DOMAIN s2 : k + d \in DOMAIN s /\ s2[k] = s[k + d]

\* s2 is s with e behind it, at position n.
Added(s2, s, e, n) ==
  /\ DOMAIN s2 = DOMAIN s \cup {n} /\ DOMAIN s \subseteq Nat \ {0} /\ n \in Nat \ {0}
  /\ \A k \in DOMAIN s : s2[k] = s[k] /\ k < n
  /\ s2[n] = e

\* Tail, SubSeq from the first element on, and the sequence itself are parts.
LEMMA Parts ==
  ASSUME NEW S, NEW s \in Seq(S)
  PROVE  /\ Part(s, s, 0)
         /\ Part(<<>>, s, 0)
         /\ s # <<>> => /\ Part(Tail(s), s, 1) /\ Tail(s) \in Seq(S)
                        /\ 1 \in DOMAIN s /\ Head(s) = s[1] /\ s[1] \in S
                        /\ \A j \in DOMAIN s : j # 1 => j - 1 \in DOMAIN Tail(s) /\ (j - 1) + 1 = j
         /\ \A n \in 0..Len(s) : Part(SubSeq(s, 1, n), s, 0) /\ SubSeq(s, 1, n) \in Seq(S)
  <1>1. DOMAIN s = 1..Len(s) /\ Len(s) \in Nat /\ \A k \in DOMAIN s : s[k] \in S
    BY ElementOfSeq, LenProperties
  <1>2. Part(s, s, 0) /\ Part(<<>>, s, 0)
    BY <1>1 DEF Part
  <1>3. ASSUME s # <<>>
        PROVE  /\ Part(Tail(s), s, 1) /\ Tail(s) \in Seq(S)
               /\ 1 \in DOMAIN s /\ Head(s) = s[1] /\ s[1] \in S
               /\ \A j \in DOMAIN s : j # 1 => j - 1 \in DOMAIN Tail(s) /\ (j - 1) + 1 = j
    <2>1. /\ Head(s) \in S /\ Tail(s) \in Seq(S) /\ Len(Tail(s)) = Len(s) - 1
          /\ \A i \in 1..Len(Tail(s)) : Tail(s)[i] = s[i + 1]
      BY <1>3, HeadTailProperties
    <2>2. Len(s) # 0
      BY <1>3, EmptySeq
    <2>3. DOMAIN Tail(s) = 1..(Len(s) - 1)
      BY <2>1, LenProperties
    <2> QED
      BY <1>1, <2>1, <2>2, <2>3 DEF Part
  <1>4. ASSUME NEW n \in 0..Len(s)
        PROVE  Part(SubSeq(s, 1, n), s, 0) /\ SubSeq(s, 1, n) \in Seq(S)
    <2>1. \A i \in 1..n : s[i] \in S
      BY <1>1
    <2>2. /\ SubSeq(s, 1, n) \in Seq(S)
          /\ Len(SubSeq(s, 1, n)) = IF 1 <= n THEN n - 1 + 1 ELSE 0
          /\ \A i \in 1..(n - 1 + 1) : SubSeq(s, 1, n)[i] = s[1 + i - 1]
      BY <1>1, <2>1, SubSeqProperties
    <2>3. DOMAIN SubSeq(s, 1, n) = 1..n
      BY <1>1, <2>2, LenProperties
    <2> QED
      BY <1>1, <2>2, <2>3 DEF Part
  <1> QED
    BY <1>2, <1>3, <1>4

\* Append adds one element.
LEMMA Appended ==
  ASSUME NEW S, NEW s \in Seq(S), NEW e \in S
  PROVE  Append(s, e) \in Seq(S) /\ Added(Append(s, e), s, e, Len(s) + 1)
  <1>1. DOMAIN s = 1..Len(s) /\ Len(s) \in Nat
    BY LenProperties
  <1>2. /\ Append(s, e) \in Seq(S)
        /\ Len(Append(s, e)) = Len(s) + 1
        /\ \A i \in 1..Len(s) : Append(s, e)[i] = s[i]
        /\ Append(s, e)[Len(s) + 1] = e
    BY AppendProperties
  <1>3. DOMAIN Append(s, e) = 1..(Len(s) + 1)
    BY <1>2, LenProperties
  <1> QED
    BY <1>1, <1>2, <1>3 DEF Added

\* A set of numbers that is not empty has a least element.
LEMMA Minimum ==
  ASSUME NEW T, T \subseteq Nat, T # {}
  PROVE  \E x \in T : \A y \in T : x <= y
  <1>1. PICK x \in T : \A y \in T : ~ (<<y, x>> \in OpToRel(<, Nat))
    BY WFMin, NatLessThanWellFounded, Zenon
  <1>2. \A y \in T : y < x => <<y, x>> \in OpToRel(<, Nat)
    BY Zenon DEF OpToRel
  <1>3. \A y \in T : ~(y < x)
    BY <1>1, <1>2
  <1> QED
    BY <1>3

\* What is left when the end is cut off begins as before.
LEMMA Prefix ==
  ASSUME NEW S, NEW s \in Seq(S), NEW n \in 1..Len(s)
  PROVE  SubSeq(s, 1, n) # <<>> /\ Head(SubSeq(s, 1, n)) = Head(s)
  <1>1. Len(s) \in Nat /\ \A i \in 1..n : s[i] \in S
    BY ElementOfSeq, LenProperties
  <1>2. /\ SubSeq(s, 1, n) \in Seq(S)
        /\ Len(SubSeq(s, 1, n)) = IF 1 <= n THEN n - 1 + 1 ELSE 0
        /\ \A i \in 1..(n - 1 + 1) : SubSeq(s, 1, n)[i] = s[1 + i - 1]
    BY <1>1, SubSeqProperties
  <1>3. Len(SubSeq(s, 1, n)) = n /\ SubSeq(s, 1, n)[1] = s[1]
    BY <1>1, <1>2
  <1>4. SubSeq(s, 1, n) # <<>> /\ s # <<>>
    BY <1>1, <1>2, <1>3, EmptySeq
  <1> QED
    BY <1>2, <1>3, <1>4, Parts

-----------------------------------------------------------------------------
OfQos(q) == {m \in Messages : QosOf[m] = q}

Entries(q) == [id : Ids, msg : OfQos(q), state : {"RESERVED", "PUBACK", "PUBREC", "PUBCOMP"}]

ToClient   == [type : {"PUBLISH", "PUBREL"}, id : Ids, msg : Messages, code : 0..255]
FromClient == [type : {"PUBACK", "PUBREC", "PUBCOMP"}, id : Ids, msg : Messages, code : 0..255]

Services == [status : {"none", "up", "lost", "failed", "gone"}, db : BOOLEAN, currQuota : Int,
             beyondQuota : BOOLEAN, pkid : 1..(MaxId + Cardinality(Publishers)),
             pub1ack : Seq(Entries(1)), pub2out : Seq(Entries(2)),
             proc : {"top", "peek", "subscribe", "clear", "ack"}, s2c : Seq(ToClient), c2s : Seq(FromClient),
             restored : BOOLEAN, refused : BOOLEAN]

Calls == [pc : {"idle", "quota", "take", "over", "zero", "id", "wrap", "cache", "wait", "write"},
          conn : Conns \cup {None}, msg : Messages \cup {None}]

States == [conn : Conns \cup {None}, id : Ids \cup {None}, phase : Phases, open : BOOLEAN,
           retained : BOOLEAN]

\* The variables are of the declared kinds.
TypesOK ==
  /\ cur \in 0..MaxConns
  /\ svc \in [Conns -> Services]
  /\ pub \in [Callers -> Calls]
  /\ out \in [Ids -> Messages \cup {None}]
  /\ sec \subseteq Ids
  /\ msg \in [Messages -> States]

\* A connection that has not begun has nothing, only the last one can be up, and the
\* packet that is being handled is there.
ConnOK(c, k, s) ==
  /\ c > k => s = NoService
  /\ s.status = "up" => c = k
  /\ s.status \in {"up", "lost"} /\ s.proc \in {"clear", "ack"} => s.c2s # <<>>
  /\ s.status = "failed" => s.c2s # <<>>

ConnsOK == \A c \in Conns : ConnOK(c, cur, svc[c])

Stored == {"cached", "received", "done"}

\* Where a message can be, seen from itself, when k connections were made ...
MsgOK(k, s) ==
  /\ s.conn <= k
  /\ s.conn = None => s = Fresh
  /\ s.phase \in Stored => s.id \in Ids
  /\ s.open => s.phase \in {"cached", "received"}

MsgsOK == \A m \in Messages : MsgOK(cur, msg[m])

\* ... and from the publisher that brings it.
CallOK(ms, b) ==
  IF b.pc = "idle" THEN b = Idle
  ELSE /\ b.conn \in Conns /\ b.msg \in Messages
       /\ ms[b.msg].conn = b.conn /\ ~ms[b.msg].open
       /\ b.pc \in {"quota", "take", "over", "zero", "id"} => ms[b.msg].id = None /\ ~ms[b.msg].retained
       /\ b.pc \in {"quota", "take", "over", "zero"} => ms[b.msg].phase = "new"
       /\ b.pc = "id" => ms[b.msg].phase = "granted"
       /\ b.pc \in {"wrap", "cache"} =>
            /\ ms[b.msg].phase = IF ms[b.msg].retained THEN "new" ELSE "granted"
            /\ ms[b.msg].id \in Ids
       /\ b.pc \in {"wait", "write"} => ms[b.msg].phase = "cached"

CallsOK ==
  /\ \A p \in Callers : CallOK(msg, pub[p])
  /\ \A p, r \in Callers : p # r /\ pub[p].msg # None => pub[p].msg # pub[r].msg

\* A packet to the client and one from it, on connection c.
SentOK(ms, c, e) ==
  /\ ms[e.msg].conn = c /\ ms[e.msg].id = e.id
  /\ e.type = "PUBLISH" => ms[e.msg].phase = "cached"
  /\ e.type = "PUBREL" => ms[e.msg].phase = "received" /\ QosOf[e.msg] = 2

AnswerOK(ms, c, e) ==
  /\ ms[e.msg].conn = c /\ ms[e.msg].id = e.id
  /\ e.type \in Final => ~ms[e.msg].open
  /\ e.type = "PUBACK" => ms[e.msg].phase = "cached" /\ QosOf[e.msg] = 1
  /\ e.type = "PUBREC" => ms[e.msg].phase = "cached" /\ QosOf[e.msg] = 2 /\ e.code \in PubrecCodes
  /\ e.type = "PUBCOMP" => ms[e.msg].phase = "received" /\ QosOf[e.msg] = 2

OnePacket(o, i) ==
  /\ \A j, k \in DOMAIN o : o[j].msg = o[k].msg => j = k
  /\ \A j, k \in DOMAIN i : i[j].msg = i[k].msg => j = k
  /\ \A j \in DOMAIN o : \A k \in DOMAIN i : o[j].msg # i[k].msg

\* The packets to the client, o, and from it, i, are at most one for each message, the
\* one its state calls for.
Carried(ms, c, o, i) ==
  /\ \A k \in DOMAIN o : SentOK(ms, c, o[k])
  /\ \A k \in DOMAIN i : AnswerOK(ms, c, i[k])
  /\ OnePacket(o, i)

\* No packet in o or i is about message m.
NoPacket(m, o, i) ==
  /\ \A k \in DOMAIN o : o[k].msg # m
  /\ \A k \in DOMAIN i : i[k].msg # m

WiresOK ==
  \A c \in Conns :
    /\ Carried(msg, c, svc[c].s2c, svc[c].c2s)
    /\ \A p \in Callers : pub[p].msg # None => NoPacket(pub[p].msg, svc[c].s2c, svc[c].c2s)

\* Callers that took an id beyond the maximum and have not set pkid back: each of
\* them took it a step further at most.
Wrapping(pb, c) == {p \in Publishers : pb[p].pc = "wrap" /\ pb[p].conn = c}

IdsOK == \A c \in Conns : svc[c].pkid <= MaxId + Cardinality(Wrapping(pub, c))

Open(ms, c) == {m \in Messages : ms[m].conn = c /\ ms[m].open}

\* Retained(c) of messages ms.
Unpaid(ms, c) == {m \in Messages : ms[m].conn = c /\ ms[m].retained}

\* Acknowledging(m, c) of a service s.
Acking(s, m) == s.proc \in {"clear", "ack"} /\ Head(s.c2s).type \in Final /\ Head(s.c2s).msg = m

\* Message n of connection c has been granted a unit.
Holds(ms, c, n) ==
  ms[n].conn = c /\ ~ms[n].retained /\ ms[n].phase \in {"granted", "dropped", "cached", "received"}

\* Holding(c) and Returned(c) of a service s.
Held(ms, c, s) == {m \in Messages : Holds(ms, c, m) /\ ~Acking(s, m)}
Back(ms, c, s) == {m \in Unpaid(ms, c) : ms[m].phase = "done" \/ Acking(s, m)}

Ledger(ms, c, s) == <<Held(ms, c, s), Back(ms, c, s)>>

\* The units there are: the quota and those that acknowledged retained messages added.
Units(ms, c, s) == Quota + Cardinality(Back(ms, c, s))

Account(ms, c, s) ==
  /\ Cardinality(Held(ms, c, s)) <= Units(ms, c, s)
  /\ s.currQuota <= Units(ms, c, s) - Cardinality(Held(ms, c, s))
  /\ ~s.refused => s.currQuota = Units(ms, c, s) - Cardinality(Held(ms, c, s))

Bounded(ms, c) == Cardinality(Open(ms, c)) <= Quota + Cardinality(Unpaid(ms, c))

\* The quota is accounted for; who is about to set it to 0 was refused.
QuotaOK ==
  \A c \in Conns :
    /\ svc[c].status \in {"up", "lost"} => Account(msg, c, svc[c])
    /\ \A p \in Callers : pub[p].pc \in {"over", "zero"} /\ pub[p].conn = c => svc[c].refused
    /\ Bounded(msg, c)

\* InStore and Reused of messages ms on services sv.
Kept(sv, ms, m) == ms[m].conn # None /\ sv[ms[m].conn].db /\ ms[m].phase \in Stored

Again(sv, ms, m) == \E n \in Messages \ {m} : ms[n].id = ms[m].id /\ Kept(sv, ms, n)

RecordOK(sv, ms, o, s, m) ==
  Kept(sv, ms, m) /\ ~Again(sv, ms, m) =>
    /\ ms[m].phase = "cached"   => o[ms[m].id] = m
    /\ ms[m].phase = "received" => o[ms[m].id] = None /\ ms[m].id \in s
    /\ ms[m].phase = "done"     => o[ms[m].id] = None /\ ms[m].id \notin s

\* The store: the records, and where the bare packet ids come from.
StoreOK ==
  /\ \A m \in Messages : RecordOK(svc, msg, out, sec, m)
  /\ \A i \in sec : \E n \in Messages : /\ Kept(svc, msg, n) /\ msg[n].id = i
                                        /\ msg[n].phase \in {"received", "done"}
  /\ \A c \in Conns : svc[c].status = "failed" => Again(svc, msg, Head(svc[c].c2s).msg)

Unlike(ms, c) ==
  \A m, n \in Messages : m # n /\ ms[m].conn = c /\ ms[n].conn = c /\ ms[m].id # None
                         => ms[m].id # ms[n].id

\* A queue q of connection c has messages of the connection under their packet ids; those
\* that are not acknowledged for good wait for the client, and one of them is the head.
QueueOK(ms, c, q) ==
  /\ \A k \in DOMAIN q :
       /\ ms[q[k].msg].conn = c /\ ms[q[k].msg].id = q[k].id
       /\ q[k].state \notin Final => ms[q[k].msg].phase \in {"cached", "received"}
  /\ 1 \in DOMAIN q => q[1].state \notin Final

QueuesOK ==
  \A c \in Conns : ~svc[c].restored /\ Unlike(msg, c) =>
    QueueOK(msg, c, svc[c].pub1ack) /\ QueueOK(msg, c, svc[c].pub2out)

IndInv ==
  /\ TypesOK /\ ConnsOK /\ MsgsOK /\ CallsOK /\ WiresOK /\ IdsOK
  /\ StoreOK /\ QueuesOK

\* No PUBREC has a reason code for which AddQuota is called.
PubrecsPlain == \A r \in PubrecCodes : r <= QosFailure

-----------------------------------------------------------------------------
\* Messages, connections and packet ids are told apart from None.
LEMMA Numbers ==
  /\ Messages \subseteq Nat \ {0} /\ IsFiniteSet(Messages) /\ \A m \in Messages : QosOf[m] \in {1, 2}
  /\ Conns \subseteq Nat \ {0}
  /\ Ids \subseteq Nat \ {0} /\ Cardinality(Publishers) \in Nat
  /\ None \notin Messages /\ None \notin Conns /\ None \notin Ids
  /\ Publishers \subseteq Callers /\ Conns \subseteq Callers
  <1>1. QosOf \in Seq(1..2) /\ IsFiniteSet(Publishers) /\ MaxConns \in Nat /\ MaxId \in Nat
    BY OutFlowAssumption
  <1>2. DOMAIN QosOf = 1..Len(QosOf) /\ Len(QosOf) \in Nat /\ \A m \in DOMAIN QosOf : QosOf[m] \in 1..2
    BY <1>1, ElementOfSeq, LenProperties
  <1>3. IsFiniteSet(1..Len(QosOf))
    BY <1>2, FS_Interval
  <1>4. Cardinality(Publishers) \in Nat
    BY <1>1, FS_CardinalityType
  <1>5. Messages = 1..Len(QosOf)
    BY <1>2 DEF Messages
  <1>6. Ids \subseteq Nat \ {0}
    BY <1>1, <1>4, OutFlowAssumption DEF Ids
  <1> QED
    BY <1>1, <1>2, <1>3, <1>4, <1>5, <1>6 DEF Messages, Conns, Callers, None

-----------------------------------------------------------------------------
(* Packets on their way.                                                   *)

\* What is left of the packets is carried as before when their messages are as before.
LEMMA CarriedPart ==
  ASSUME NEW ms, NEW ms2, NEW c, NEW o, NEW i, NEW o2, NEW i2, NEW d, NEW e,
         Carried(ms, c, o, i), Part(o2, o, d), Part(i2, i, e),
         \A k \in DOMAIN o2 : ms2[o2[k].msg] = ms[o2[k].msg],
         \A k \in DOMAIN i2 : ms2[i2[k].msg] = ms[i2[k].msg]
  PROVE  Carried(ms2, c, o2, i2)
  <1>1. \A k \in DOMAIN o2 : SentOK(ms2, c, o2[k])
    BY DEF Carried, Part, SentOK
  <1>2. \A k \in DOMAIN i2 : AnswerOK(ms2, c, i2[k])
    BY DEF Carried, Part, AnswerOK
  <1>3. OnePacket(o2, i2)
    BY DEF Carried, Part, OnePacket
  <1> QED
    BY <1>1, <1>2, <1>3 DEF Carried

\* A packet for a message that has none is put behind the ones to the client ...
LEMMA CarriedOut ==
  ASSUME NEW ms, NEW c, NEW o, NEW i, NEW o2, NEW x, NEW n,
         Carried(ms, c, o, i), Added(o2, o, x, n), SentOK(ms, c, x), NoPacket(x.msg, o, i)
  PROVE  Carried(ms, c, o2, i)
  <1>1. \A k \in DOMAIN o2 : SentOK(ms, c, o2[k])
    BY DEF Carried, Added
  <1>3. OnePacket(o2, i)
    BY DEF Carried, Added, OnePacket, NoPacket
  <1> QED
    BY <1>1, <1>3 DEF Carried

\* ... or behind the ones from it.
LEMMA CarriedIn ==
  ASSUME NEW ms, NEW c, NEW o, NEW i, NEW i2, NEW x, NEW n,
         Carried(ms, c, o, i), Added(i2, i, x, n), AnswerOK(ms, c, x), NoPacket(x.msg, o, i)
  PROVE  Carried(ms, c, o, i2)
  <1>1. \A k \in DOMAIN i2 : AnswerOK(ms, c, i2[k])
    BY DEF Carried, Added
  <1>3. OnePacket(o, i2)
    BY DEF Carried, Added, OnePacket, NoPacket
  <1> QED
    BY <1>1, <1>3 DEF Carried

\* A message without packets has none in what is left of them.
LEMMA NoPacketPart ==
  ASSUME NEW m, NEW o, NEW i, NEW o2, NEW i2, NEW d, NEW e,
         NoPacket(m, o, i), Part(o2, o, d), Part(i2, i, e)
  PROVE  NoPacket(m, o2, i2)
  BY DEF NoPacket, Part

\* Nor does it have one when packets of other messages are added.
LEMMA NoPacketAdded ==
  ASSUME NEW m, NEW o, NEW i, NoPacket(m, o, i)
  PROVE  /\ \A o2, x, n : Added(o2, o, x, n) /\ x.msg # m => NoPacket(m, o2, i)
         /\ \A i2, x, n : Added(i2, i, x, n) /\ x.msg # m => NoPacket(m, o, i2)
  BY DEF NoPacket, Added

\* The message of the first packet has no other one.
LEMMA FirstPacket ==
  ASSUME NEW ms, NEW c, NEW o, NEW i, Carried(ms, c, o, i)
  PROVE  /\ \A o2 : 1 \in DOMAIN o /\ Part(o2, o, 1) => NoPacket(o[1].msg, o2, i)
         /\ \A i2 : 1 \in DOMAIN i /\ Part(i2, i, 1) => NoPacket(i[1].msg, o, i2)
  <1>1. ASSUME NEW o2, 1 \in DOMAIN o, Part(o2, o, 1) PROVE NoPacket(o[1].msg, o2, i)
    BY <1>1 DEF Carried, OnePacket, NoPacket, Part
  <1>2. ASSUME NEW i2, 1 \in DOMAIN i, Part(i2, i, 1) PROVE NoPacket(i[1].msg, o, i2)
    BY <1>2 DEF Carried, OnePacket, NoPacket, Part
  <1> QED
    BY <1>1, <1>2

-----------------------------------------------------------------------------
(* The ack queues.                                                         *)

\* Messages ms2 have what messages ms have of connection and packet id.
Grown(ms2, ms) ==
  \A n \in Messages : /\ ms[n].conn # None => ms2[n].conn = ms[n].conn
                      /\ ms[n].id # None => ms2[n].id = ms[n].id

\* Packet ids that differ now differed before.
LEMMA UnlikeBefore ==
  ASSUME NEW ms, NEW ms2, NEW c \in Conns, Grown(ms2, ms), Unlike(ms2, c)
  PROVE  Unlike(ms, c)
  <1>1. c # None
    BY DEF Conns, None
  <1> SUFFICES ASSUME NEW m \in Messages, NEW n \in Messages, m # n,
                      ms[m].conn = c, ms[n].conn = c, ms[m].id # None, ms[m].id = ms[n].id
               PROVE  FALSE
    BY DEF Unlike
  <1>2. ms2[m].conn = c /\ ms2[n].conn = c /\ ms2[m].id = ms[m].id /\ ms2[n].id = ms[n].id
    BY <1>1 DEF Grown
  <1> QED
    BY <1>2 DEF Unlike

\* What a queue holds.
LEMMA EntryFacts ==
  ASSUME NEW S, NEW q \in Seq(Entries(S)), NEW k \in DOMAIN q
  PROVE  q[k].msg \in Messages /\ QosOf[q[k].msg] = S /\ q[k].id \in Ids
  <1>1. q[k] \in Entries(S)
    BY ElementOfSeq
  <1> QED
    BY <1>1 DEF Entries, OfQos

\* A queue stays in order when no message that waits for the client changes its phase.
LEMMA QueueKept ==
  ASSUME NEW ms, NEW ms2, NEW c \in Conns, NEW S, NEW q \in Seq(Entries(S)),
         Grown(ms2, ms), QueueOK(ms, c, q),
         \A n \in Messages : ms[n].phase \in {"cached", "received"} => ms2[n].phase \in {"cached", "received"}
  PROVE  QueueOK(ms2, c, q)
  <1>1. c # None
    BY DEF Conns, None
  <1>3. \A k \in DOMAIN q : q[k].msg \in Messages /\ q[k].id \in Ids
    BY EntryFacts
  <1>4. \A i \in Ids : i # None
    BY Numbers
  <1> QED
    BY <1>1, <1>3, <1>4 DEF Grown, QueueOK

\* The same when the step is about a message that is not in the queue.
LEMMA QueueOther ==
  ASSUME NEW ms, NEW ms2, NEW c, NEW q, QueueOK(ms, c, q),
         \A k \in DOMAIN q : ms2[q[k].msg] = ms[q[k].msg]
  PROVE  QueueOK(ms2, c, q)
  BY DEF QueueOK

\* A message that waits for the client joins the queue, unless its packet id is there.
LEMMA QueueInsert ==
  ASSUME NEW S, NEW q \in Seq(Entries(S)), NEW m \in OfQos(S), NEW id \in Ids
  PROVE  /\ insert(q, m, id) \in Seq(Entries(S))
         /\ \A ms, c : QueueOK(ms, c, q) /\ ms[m].conn = c /\ ms[m].id = id /\ ms[m].phase = "cached"
                       => QueueOK(ms, c, insert(q, m, id))
  <1>1. CASE \E k \in DOMAIN q : q[k].id = id
    BY <1>1 DEF insert
  <1>2. CASE ~ \E k \in DOMAIN q : q[k].id = id
    <2> DEFINE e == Entry(m, id)
    <2>1. e \in Entries(S) /\ e.id = id /\ e.msg = m /\ e.state = "RESERVED"
      BY DEF Entry, Entries
    <2>2. insert(q, m, id) = Append(q, e)
      BY <1>2 DEF insert
    <2> HIDE DEF e
    <2>3. insert(q, m, id) \in Seq(Entries(S)) /\ Added(insert(q, m, id), q, e, Len(q) + 1)
      BY <2>1, <2>2, Appended
    <2>4. 1 \in DOMAIN insert(q, m, id) => 1 \in DOMAIN q \/ insert(q, m, id)[1] = e
      BY <2>3 DEF Added
    <2>5. ASSUME NEW ms, NEW c, QueueOK(ms, c, q), ms[m].conn = c, ms[m].id = id, ms[m].phase = "cached"
          PROVE  QueueOK(ms, c, insert(q, m, id))
      <3>1. \A k \in DOMAIN q : insert(q, m, id)[k] = q[k]
        BY <2>3 DEF Added
      <3>2. \A k \in DOMAIN insert(q, m, id) : k \in DOMAIN q \/ insert(q, m, id)[k] = e
        BY <2>3 DEF Added
      <3> QED
        BY <2>1, <2>4, <2>5, <3>1, <3>2 DEF QueueOK, Final
    <2> QED
      BY <2>3, <2>5
  <1> QED
    BY <1>1, <1>2

\* The loop of Acked ends at the first message that still waits.
LEMMA AckedFacts ==
  ASSUME NEW S, NEW q \in Seq(S)
  PROVE  /\ Acked(q) \in Seq(S)
         /\ \E d \in Nat : Part(Acked(q), q, d)
         /\ 1 \in DOMAIN Acked(q) => Acked(q)[1].state \notin Final
  <1> DEFINE waits == {k \in DOMAIN q : q[k].state \notin Final}
             first == CHOOSE k \in waits : \A j \in waits : k <= j
  <1>0. DOMAIN q = 1..Len(q) /\ Len(q) \in Nat
    BY LenProperties
  <1>1. CASE waits = {}
    <2>1. Acked(q) = <<>>
      BY <1>1 DEF Acked
    <2> QED
      BY <2>1, Parts
  <1>2. CASE waits # {}
    <2>1. waits \subseteq Nat
      BY <1>0
    <2>2. \E k \in waits : \A j \in waits : k <= j
      BY <1>2, <2>1, Minimum
    <2>3. first \in waits
      BY <2>2
    <2>4. Acked(q) = SubSeq(q, first, Len(q))
      BY <1>2 DEF Acked
    <2>5. first \in 1..Len(q) /\ q[first].state \notin Final
      BY <2>3, <1>0
    <2> HIDE DEF first, waits
    <2>6. \A k \in first..Len(q) : q[k] \in S
      BY <1>0, <2>5, ElementOfSeq
    <2>7. /\ SubSeq(q, first, Len(q)) \in Seq(S)
          /\ Len(SubSeq(q, first, Len(q))) = IF first <= Len(q) THEN Len(q) - first + 1 ELSE 0
          /\ \A k \in 1..(Len(q) - first + 1) : SubSeq(q, first, Len(q))[k] = q[first + k - 1]
      BY <1>0, <2>5, <2>6, SubSeqProperties
    <2>8. DOMAIN Acked(q) = 1..(Len(q) - first + 1)
      BY <1>0, <2>4, <2>5, <2>7, LenProperties
    <2>9. Part(Acked(q), q, first - 1)
      BY <1>0, <2>4, <2>5, <2>7, <2>8 DEF Part
    <2>10. 1 \in DOMAIN Acked(q) => Acked(q)[1] = q[first]
      BY <1>0, <2>4, <2>5, <2>7, <2>8
    <2> QED
      BY <2>4, <2>5, <2>7, <2>9, <2>10
  <1> QED
    BY <1>1, <1>2

\* Ack changes the state of the messages with the packet id, and nothing else.
LEMMA MarkedFacts ==
  ASSUME NEW S, NEW q \in Seq(Entries(S)), NEW id, NEW type \in {"PUBACK", "PUBREC", "PUBCOMP"}
  PROVE  /\ Marked(q, id, type) \in Seq(Entries(S))
         /\ DOMAIN Marked(q, id, type) = DOMAIN q
         /\ \A k \in DOMAIN q :
              /\ Marked(q, id, type)[k].id = q[k].id
              /\ Marked(q, id, type)[k].msg = q[k].msg
              /\ Marked(q, id, type)[k].state = IF q[k].id = id THEN type ELSE q[k].state
  <1>0. DOMAIN q = 1..Len(q) /\ Len(q) \in Nat /\ \A k \in DOMAIN q : q[k] \in Entries(S)
    BY ElementOfSeq, LenProperties
  <1>1. DOMAIN Marked(q, id, type) = DOMAIN q
    BY DEF Marked
  <1>2. ASSUME NEW k \in DOMAIN q
        PROVE  /\ Marked(q, id, type)[k] \in Entries(S)
               /\ Marked(q, id, type)[k].id = q[k].id
               /\ Marked(q, id, type)[k].msg = q[k].msg
               /\ Marked(q, id, type)[k].state = IF q[k].id = id THEN type ELSE q[k].state
    <2>1. Marked(q, id, type)[k] = IF q[k].id = id THEN [q[k] EXCEPT !.state = type] ELSE q[k]
      BY DEF Marked
    <2>2. q[k] \in Entries(S)
      BY <1>0
    <2> QED
      BY <2>1, <2>2 DEF Entries
  <1>3. Marked(q, id, type) \in [1..Len(q) -> Entries(S)]
    BY <1>0, <1>1, <1>2 DEF Marked
  <1>4. Marked(q, id, type) \in Seq(Entries(S))
    BY <1>0, <1>3, IsASeq
  <1> QED
    BY <1>1, <1>2, <1>4

\* A final acknowledgement of message x, which is done then.
LEMMA QueueFinal ==
  ASSUME NEW ms, NEW ms2, NEW c \in Conns, NEW S, NEW q \in Seq(Entries(S)),
         NEW x \in Messages, NEW id \in Ids, NEW type \in Final,
         QueueOK(ms, c, q), Unlike(ms, c), ms[x].conn = c, ms[x].id = id,
         \A n \in Messages \ {x} : ms2[n] = ms[n], ms2[x].conn = c, ms2[x].id = id
  PROVE  /\ Acked(Marked(q, id, type)) \in Seq(Entries(S))
         /\ QueueOK(ms2, c, Acked(Marked(q, id, type)))
  <1> DEFINE r == Marked(q, id, type)
             a == Acked(r)
  <1>1. /\ r \in Seq(Entries(S)) /\ DOMAIN r = DOMAIN q
        /\ \A k \in DOMAIN q : /\ r[k].id = q[k].id /\ r[k].msg = q[k].msg
                               /\ r[k].state = IF q[k].id = id THEN type ELSE q[k].state
    BY MarkedFacts DEF Final
  <1>2. \A k \in DOMAIN q : q[k].msg \in Messages /\ q[k].id \in Ids
    BY EntryFacts
  <1>3. \A i \in Ids : i # None
    BY Numbers
  <1>4. \A k \in DOMAIN q : q[k].msg = x \/ q[k].id # id
    BY <1>2, <1>3 DEF QueueOK, Unlike
  <1>5. \A k \in DOMAIN q : q[k].msg = x => q[k].id = id
    BY DEF QueueOK
  <1> HIDE DEF r
  <1>6. \A k \in DOMAIN r : /\ ms2[r[k].msg].conn = c /\ ms2[r[k].msg].id = r[k].id
                            /\ r[k].state \notin Final => ms2[r[k].msg].phase \in {"cached", "received"}
    BY <1>1, <1>2, <1>4, <1>5 DEF QueueOK
  <1>7. /\ a \in Seq(Entries(S)) /\ \E d \in Nat : Part(a, r, d)
        /\ 1 \in DOMAIN a => a[1].state \notin Final
    BY <1>1, AckedFacts
  <1> HIDE DEF a
  <1>8. QueueOK(ms2, c, a)
    <2>1. PICK d \in Nat : Part(a, r, d)
      BY <1>7
    <2>2. \A k \in DOMAIN a : k + d \in DOMAIN r /\ a[k] = r[k + d]
      BY <2>1 DEF Part
    <2> QED
      BY <1>6, <1>7, <2>2 DEF QueueOK
  <1> QED
    BY <1>7, <1>8 DEF a, r

\* A PUBREC for message x.
LEMMA QueueReceived ==
  ASSUME NEW ms, NEW ms2, NEW c \in Conns, NEW S, NEW q \in Seq(Entries(S)),
         NEW x \in Messages, NEW id \in Ids,
         QueueOK(ms, c, q), Unlike(ms, c), ms[x].conn = c, ms[x].id = id,
         \A n \in Messages \ {x} : ms2[n] = ms[n],
         ms2[x].conn = c, ms2[x].id = id, ms2[x].phase = "received"
  PROVE  QueueOK(ms2, c, Marked(q, id, "PUBREC"))
  <1> DEFINE r == Marked(q, id, "PUBREC")
  <1>1. /\ DOMAIN r = DOMAIN q
        /\ \A k \in DOMAIN q : /\ r[k].id = q[k].id /\ r[k].msg = q[k].msg
                               /\ r[k].state = IF q[k].id = id THEN "PUBREC" ELSE q[k].state
    BY MarkedFacts
  <1>2. \A k \in DOMAIN q : q[k].msg \in Messages /\ q[k].id \in Ids
    BY EntryFacts
  <1>3. \A i \in Ids : i # None
    BY Numbers
  <1>4. \A k \in DOMAIN q : q[k].msg = x \/ q[k].id # id
    BY <1>2, <1>3 DEF QueueOK, Unlike
  <1> HIDE DEF r
  <1>5. QueueOK(ms2, c, r)
    BY <1>1, <1>2, <1>4 DEF QueueOK, Final
  <1> QED
    BY <1>5 DEF r

-----------------------------------------------------------------------------
(* The store.                                                              *)

\* What is in the store stays there, and what was received stays received.
Later(sv2, ms2, sv, ms) ==
  \A n \in Messages : Kept(sv, ms, n) =>
    /\ Kept(sv2, ms2, n) /\ ms2[n].id = ms[n].id
    /\ ms[n].phase \in {"received", "done"} => ms2[n].phase \in {"received", "done"}

\* Only messages that are not in the store change more than whether they are open.
Early(ms2, ms) ==
  \A n \in Messages :
    \/ ms2[n].conn = ms[n].conn /\ ms2[n].id = ms[n].id /\ ms2[n].phase = ms[n].phase
    \/ ms[n].phase \notin Stored /\ ms2[n].phase \notin Stored

SameDb(sv2, sv, ms) == \A n \in Messages : ms[n].conn # None => sv2[ms[n].conn].db = sv[ms[n].conn].db

\* A packet id that was reused stays so.
LEMMA AgainLater ==
  ASSUME NEW sv, NEW ms, NEW sv2, NEW ms2, NEW m \in Messages,
         Later(sv2, ms2, sv, ms), ms2[m].id = ms[m].id, Again(sv, ms, m)
  PROVE  Again(sv2, ms2, m)
  BY DEF Again, Later

\* The records when nothing in the store changes.
LEMMA RecordsFrame ==
  ASSUME NEW sv, NEW ms, NEW sv2, NEW ms2, NEW o, NEW s, SameDb(sv2, sv, ms), Early(ms2, ms),
         \A m \in Messages : RecordOK(sv, ms, o, s, m)
  PROVE  /\ Later(sv2, ms2, sv, ms)
         /\ \A m \in Messages : RecordOK(sv2, ms2, o, s, m)
  <1>1. \A n \in Messages : Kept(sv2, ms2, n) <=> Kept(sv, ms, n)
    BY DEF Kept, Early, SameDb
  <1>2. \A n \in Messages : Kept(sv, ms, n) => ms2[n].id = ms[n].id /\ ms2[n].phase = ms[n].phase
    BY DEF Kept, Early
  <1>3. Later(sv2, ms2, sv, ms)
    BY <1>1, <1>2 DEF Later
  <1>4. ASSUME NEW m \in Messages PROVE RecordOK(sv2, ms2, o, s, m)
    <2>1. Kept(sv, ms, m) /\ Again(sv, ms, m) => Again(sv2, ms2, m)
      BY <1>2, <1>3, AgainLater
    <2> QED
      BY <1>1, <1>2, <2>1 DEF RecordOK
  <1> QED
    BY <1>3, <1>4

\* The records when message x goes on and only the record of its packet id changes.
LEMMA RecordsStep ==
  ASSUME NEW sv, NEW ms, NEW sv2, NEW ms2, NEW o, NEW s, NEW o2, NEW s2, NEW x \in Messages,
         SameDb(sv2, sv, ms), \A n \in Messages \ {x} : ms2[n] = ms[n],
         Later(sv2, ms2, sv, ms),
         \A m \in Messages : RecordOK(sv, ms, o, s, m),
         \/ o2 = o /\ s2 = s
         \/ /\ Kept(sv2, ms2, x)
            /\ \A i \in Ids : i # ms2[x].id => o2[i] = o[i] /\ (i \in s2 <=> i \in s),
         \A n \in Messages : ms[n].phase \in Stored => ms[n].id \in Ids,
         RecordOK(sv2, ms2, o2, s2, x)
  PROVE  \A m \in Messages : RecordOK(sv2, ms2, o2, s2, m)
  <1> SUFFICES ASSUME NEW m \in Messages \ {x}, Kept(sv2, ms2, m), ~Again(sv2, ms2, m)
               PROVE  RecordOK(sv2, ms2, o2, s2, m)
    BY DEF RecordOK
  <1>1. ms2[m] = ms[m]
    OBVIOUS
  <1>2. Kept(sv, ms, m)
    BY <1>1 DEF Kept, SameDb
  <1>3. ~Again(sv, ms, m)
    BY <1>1, AgainLater
  <1>4. ms[m].id \in Ids
    BY <1>2 DEF Kept
  <1>5. Kept(sv2, ms2, x) => ms2[x].id # ms[m].id
    BY <1>1 DEF Again
  <1>6. o2[ms[m].id] = o[ms[m].id] /\ (ms[m].id \in s2 <=> ms[m].id \in s)
    BY <1>4, <1>5
  <1>7. RecordOK(sv, ms, o, s, m)
    OBVIOUS
  <1> QED
    BY <1>1, <1>2, <1>3, <1>6, <1>7 DEF RecordOK

-----------------------------------------------------------------------------
(* What a step leaves alone.                                               *)

\* The messages of a connection's packets.
LEMMA PacketFacts ==
  ASSUME TypesOK, WiresOK, NEW c \in Conns
  PROVE  /\ svc[c] \in Services
         /\ svc[c].s2c \in Seq(ToClient) /\ svc[c].c2s \in Seq(FromClient)
         /\ svc[c].pub1ack \in Seq(Entries(1)) /\ svc[c].pub2out \in Seq(Entries(2))
         /\ \A k \in DOMAIN svc[c].s2c : /\ svc[c].s2c[k] \in ToClient
                                         /\ SentOK(msg, c, svc[c].s2c[k])
         /\ \A k \in DOMAIN svc[c].c2s : /\ svc[c].c2s[k] \in FromClient
                                         /\ AnswerOK(msg, c, svc[c].c2s[k])
         /\ Carried(msg, c, svc[c].s2c, svc[c].c2s)
  <1>1. svc[c] \in Services
    BY DEF TypesOK
  <1>2. /\ svc[c].s2c \in Seq(ToClient) /\ svc[c].c2s \in Seq(FromClient)
        /\ svc[c].pub1ack \in Seq(Entries(1)) /\ svc[c].pub2out \in Seq(Entries(2))
    BY <1>1 DEF Services
  <1>3. Carried(msg, c, svc[c].s2c, svc[c].c2s)
    BY DEF WiresOK
  <1>4. \A k \in DOMAIN svc[c].s2c : svc[c].s2c[k] \in ToClient
    BY <1>2, ElementOfSeq
  <1>5. \A k \in DOMAIN svc[c].c2s : svc[c].c2s[k] \in FromClient
    BY <1>2, ElementOfSeq
  <1> QED
    BY <1>1, <1>2, <1>3, <1>4, <1>5 DEF Carried

\* Packets on the wire are about messages of their connection.
LEMMA WireMessages ==
  ASSUME TypesOK, WiresOK, NEW c \in Conns
  PROVE  /\ \A k \in DOMAIN svc[c].s2c : svc[c].s2c[k].msg \in Messages /\ msg[svc[c].s2c[k].msg].conn = c
         /\ \A k \in DOMAIN svc[c].c2s : svc[c].c2s[k].msg \in Messages /\ msg[svc[c].c2s[k].msg].conn = c
  <1>1. ASSUME NEW k \in DOMAIN svc[c].s2c
        PROVE  svc[c].s2c[k].msg \in Messages /\ msg[svc[c].s2c[k].msg].conn = c
    <2>1. svc[c].s2c[k] \in ToClient /\ SentOK(msg, c, svc[c].s2c[k])
      BY PacketFacts
    <2> QED
      BY <2>1 DEF SentOK, ToClient
  <1>2. ASSUME NEW k \in DOMAIN svc[c].c2s
        PROVE  svc[c].c2s[k].msg \in Messages /\ msg[svc[c].c2s[k].msg].conn = c
    <2>1. svc[c].c2s[k] \in FromClient /\ AnswerOK(msg, c, svc[c].c2s[k])
      BY PacketFacts
    <2> QED
      BY <2>1 DEF AnswerOK, FromClient
  <1> QED
    BY <1>1, <1>2

\* The first packet from the client.
LEMMA HeadFacts ==
  ASSUME TypesOK, WiresOK, NEW c \in Conns, svc[c].c2s # <<>>
  PROVE  LET a == Head(svc[c].c2s) IN
         /\ a \in FromClient /\ AnswerOK(msg, c, a)
         /\ 1 \in DOMAIN svc[c].c2s /\ a = svc[c].c2s[1]
         /\ msg[a.msg].phase \in {"cached", "received"}
  <1>1. svc[c].c2s \in Seq(FromClient)
    BY PacketFacts
  <1>2. 1 \in DOMAIN svc[c].c2s /\ Head(svc[c].c2s) = svc[c].c2s[1]
    BY <1>1, Parts
  <1>3. svc[c].c2s[1] \in FromClient /\ AnswerOK(msg, c, svc[c].c2s[1])
    BY <1>2, PacketFacts
  <1> QED
    BY <1>2, <1>3 DEF AnswerOK, FromClient

\* A step of one connection.
LEMMA ConnsFrame ==
  ASSUME ConnsOK, cur' = cur, NEW c \in Conns,
         \A d \in Conns \ {c} : svc'[d] = svc[d], ConnOK(c, cur, svc'[c])
  PROVE  ConnsOK'
  BY DEF ConnsOK

\* A step of one message.
LEMMA MsgsFrame ==
  ASSUME MsgsOK, cur' = cur, NEW m,
         \A n \in Messages \ {m} : msg'[n] = msg[n], MsgOK(cur, msg'[m])
  PROVE  MsgsOK'
  BY DEF MsgsOK

\* A step of a publisher with its message.
LEMMA CallsFrame ==
  ASSUME TypesOK, CallsOK, NEW p \in Callers, pub[p].pc # "idle",
         \A r \in Callers \ {p} : pub'[r] = pub[r],
         \A n \in Messages \ {pub[p].msg} : msg'[n] = msg[n],
         CallOK(msg', pub'[p]), pub'[p].msg \in {None, pub[p].msg}
  PROVE  CallsOK'
  <1>1. pub[p].msg \in Messages /\ pub[p].msg # None
    BY Numbers DEF CallsOK, CallOK
  <1>2. ASSUME NEW r \in Callers PROVE CallOK(msg', pub'[r])
    <2>1. CASE r = p
      BY <2>1
    <2>2. CASE r # p
      <3>1. pub'[r] = pub[r] /\ pub[r].msg # pub[p].msg /\ CallOK(msg, pub[r])
        BY <1>1, <2>2 DEF CallsOK
      <3>2. pub[r].pc # "idle" => pub[r].msg \in Messages /\ msg'[pub[r].msg] = msg[pub[r].msg]
        BY <3>1 DEF CallOK
      <3> QED
        BY <3>1, <3>2 DEF CallOK
    <2> QED
      BY <2>1, <2>2
  <1>3. ASSUME NEW q \in Callers, NEW r \in Callers, q # r, pub'[q].msg # None
        PROVE  pub'[q].msg # pub'[r].msg
    BY <1>1, <1>3 DEF CallsOK
  <1> QED
    BY <1>2, <1>3 DEF CallsOK

\* A step that changes no message a publisher brings.
LEMMA CallsKept ==
  ASSUME CallsOK, pub' = pub, NEW x,
         \A n \in Messages \ {x} : msg'[n] = msg[n],
         \A p \in Callers : pub[p].msg # None => pub[p].msg # x
  PROVE  CallsOK'
  <1>1. ASSUME NEW r \in Callers PROVE CallOK(msg', pub[r])
    <2>1. CallOK(msg, pub[r])
      BY DEF CallsOK
    <2>2. pub[r].pc # "idle" => pub[r].msg \in Messages /\ msg'[pub[r].msg] = msg[pub[r].msg]
      BY <2>1, Numbers DEF CallOK
    <2> QED
      BY <2>1, <2>2 DEF CallOK
  <1> QED
    BY <1>1 DEF CallsOK

\* A publisher's step that leaves the packets alone.
LEMMA WiresFrame ==
  ASSUME TypesOK, CallsOK, WiresOK, NEW p \in Callers, pub[p].pc # "idle",
         \A r \in Callers \ {p} : pub'[r] = pub[r],
         \A n \in Messages \ {pub[p].msg} : msg'[n] = msg[n],
         pub'[p].msg \in {None, pub[p].msg},
         \A c \in Conns : svc'[c].s2c = svc[c].s2c /\ svc'[c].c2s = svc[c].c2s
  PROVE  WiresOK'
  <1>1. pub[p].msg \in Messages /\ pub[p].msg # None
    BY Numbers DEF CallsOK, CallOK
  <1> SUFFICES ASSUME NEW c \in Conns
               PROVE  /\ Carried(msg', c, svc[c].s2c, svc[c].c2s)
                      /\ \A r \in Callers : pub'[r].msg # None => NoPacket(pub'[r].msg, svc[c].s2c, svc[c].c2s)
    BY DEF WiresOK
  <1>2. NoPacket(pub[p].msg, svc[c].s2c, svc[c].c2s)
    BY <1>1 DEF WiresOK
  <1>3. \A r \in Callers : pub'[r].msg # None => NoPacket(pub'[r].msg, svc[c].s2c, svc[c].c2s)
    BY <1>2 DEF WiresOK
  <1>4. Part(svc[c].s2c, svc[c].s2c, 0) /\ Part(svc[c].c2s, svc[c].c2s, 0)
    BY PacketFacts, Parts
  <1>5. \A k \in DOMAIN svc[c].s2c : msg'[svc[c].s2c[k].msg] = msg[svc[c].s2c[k].msg]
    BY <1>2, PacketFacts DEF NoPacket, ToClient
  <1>6. \A k \in DOMAIN svc[c].c2s : msg'[svc[c].c2s[k].msg] = msg[svc[c].c2s[k].msg]
    BY <1>2, PacketFacts DEF NoPacket, FromClient
  <1>7. Carried(msg', c, svc[c].s2c, svc[c].c2s)
    BY <1>4, <1>5, <1>6, PacketFacts, CarriedPart
  <1> QED
    BY <1>3, <1>7

\* A step that keeps the store and what fails a connection.
LEMMA StoreFrame ==
  ASSUME TypesOK, WiresOK, ConnsOK, StoreOK, Early(msg', msg), out' = out, sec' = sec,
         \A c \in Conns : /\ svc'[c].db = svc[c].db
                          /\ svc'[c].status = "failed" => svc[c].status = "failed" /\ svc'[c].c2s = svc[c].c2s
  PROVE  StoreOK'
  <1>1. SameDb(svc', svc, msg)
    BY DEF SameDb, TypesOK, States
  <1>2. \A m \in Messages : RecordOK(svc, msg, out, sec, m)
    BY DEF StoreOK
  <1>3. Later(svc', msg', svc, msg) /\ \A m \in Messages : RecordOK(svc', msg', out, sec, m)
    BY <1>1, <1>2, RecordsFrame
  <1>4. ASSUME NEW i \in sec
        PROVE  \E n \in Messages : Kept(svc', msg', n) /\ msg'[n].id = i /\ msg'[n].phase \in {"received", "done"}
    BY <1>3 DEF StoreOK, Later
  <1>5. ASSUME NEW c \in Conns, svc'[c].status = "failed"
        PROVE  Again(svc', msg', Head(svc'[c].c2s).msg)
    <2>1. svc[c].status = "failed" /\ svc'[c].c2s = svc[c].c2s /\ svc[c].c2s # <<>>
      BY <1>5 DEF ConnsOK, ConnOK
    <2> DEFINE x == Head(svc[c].c2s).msg
    <2>2. x \in Messages /\ msg[x].phase \in {"cached", "received"}
      BY <2>1, HeadFacts DEF FromClient
    <2>3. Again(svc, msg, x)
      BY <2>1 DEF StoreOK
    <2> HIDE DEF x
    <2>4. msg'[x].id = msg[x].id
      BY <2>2 DEF Early, Stored
    <2>5. Again(svc', msg', x)
      BY <1>3, <2>2, <2>3, <2>4, AgainLater
    <2> QED
      BY <2>1, <2>5 DEF x
  <1> QED
    BY <1>3, <1>4, <1>5 DEF StoreOK

\* A step of message x that may change the record of its packet id.
LEMMA StoreStep ==
  ASSUME TypesOK, WiresOK, ConnsOK, MsgsOK, StoreOK, NEW x \in Messages,
         \A n \in Messages \ {x} : msg'[n] = msg[n],
         msg'[x].conn = msg[x].conn, msg'[x].id = msg[x].id,
         Kept(svc, msg, x) => /\ msg'[x].phase \in Stored
                              /\ msg[x].phase # "cached" => msg'[x].phase # "cached",
         \/ out' = out /\ sec' = sec
         \/ /\ Kept(svc', msg', x)
            /\ \A i \in Ids : i # msg'[x].id => out'[i] = out[i] /\ (i \in sec' <=> i \in sec),
         sec' \subseteq sec \cup {msg'[x].id},
         msg'[x].id \in sec' => \/ msg'[x].id \in sec
                                \/ Kept(svc', msg', x) /\ msg'[x].phase \in {"received", "done"},
         RecordOK(svc', msg', out', sec', x),
         \A c \in Conns : /\ svc'[c].db = svc[c].db
                          /\ svc'[c].status = "failed" => svc[c].status = "failed" /\ svc'[c].c2s = svc[c].c2s
  PROVE  StoreOK'
  <1>1. SameDb(svc', svc, msg)
    BY DEF SameDb, TypesOK, States
  <1>2. /\ \A m \in Messages : RecordOK(svc, msg, out, sec, m)
        /\ \A n \in Messages : msg[n].phase \in Stored => msg[n].id \in Ids
    BY DEF StoreOK, MsgsOK, MsgOK
  <1>3. Later(svc', msg', svc, msg)
    <2> SUFFICES ASSUME NEW n \in Messages, Kept(svc, msg, n)
                 PROVE  /\ Kept(svc', msg', n) /\ msg'[n].id = msg[n].id
                        /\ msg[n].phase \in {"received", "done"} => msg'[n].phase \in {"received", "done"}
      BY DEF Later
    <2>1. CASE n = x
      BY <1>1, <2>1 DEF Kept, Stored, SameDb
    <2>2. CASE n # x
      BY <1>1, <2>2 DEF Kept, SameDb
    <2> QED
      BY <2>1, <2>2
  <1>4. \A m \in Messages : RecordOK(svc', msg', out', sec', m)
    BY <1>1, <1>2, <1>3, RecordsStep
  <1>5. ASSUME NEW i \in sec'
        PROVE  \E n \in Messages : Kept(svc', msg', n) /\ msg'[n].id = i /\ msg'[n].phase \in {"received", "done"}
    <2>1. CASE i \in sec
      BY <1>3, <2>1 DEF StoreOK, Later
    <2>2. CASE i \notin sec
      BY <2>2
    <2> QED
      BY <2>1, <2>2
  <1>6. ASSUME NEW c \in Conns, svc'[c].status = "failed"
        PROVE  Again(svc', msg', Head(svc'[c].c2s).msg)
    <2>1. svc[c].status = "failed" /\ svc'[c].c2s = svc[c].c2s /\ svc[c].c2s # <<>>
      BY <1>6 DEF ConnsOK, ConnOK
    <2> DEFINE y == Head(svc[c].c2s).msg
    <2>2. y \in Messages
      BY <2>1, HeadFacts DEF FromClient
    <2>3. Again(svc, msg, y)
      BY <2>1 DEF StoreOK
    <2> HIDE DEF y
    <2>4. msg'[y].id = msg[y].id
      BY <2>2
    <2>5. Again(svc', msg', y)
      BY <1>3, <2>2, <2>3, <2>4, AgainLater
    <2> QED
      BY <2>1, <2>5 DEF y
  <1> QED
    BY <1>4, <1>5, <1>6 DEF StoreOK

\* A step that leaves the queues alone.
LEMMA QueuesFrame ==
  ASSUME TypesOK, QueuesOK, Grown(msg', msg),
         \A n \in Messages : msg[n].phase \in {"cached", "received"} => msg'[n].phase \in {"cached", "received"},
         \A c \in Conns : /\ svc'[c].restored = svc[c].restored
                          /\ svc'[c].pub1ack = svc[c].pub1ack /\ svc'[c].pub2out = svc[c].pub2out
  PROVE  QueuesOK'
  <1> SUFFICES ASSUME NEW c \in Conns, ~svc[c].restored, Unlike(msg', c)
               PROVE  QueueOK(msg', c, svc[c].pub1ack) /\ QueueOK(msg', c, svc[c].pub2out)
    BY DEF QueuesOK
  <1>1. Unlike(msg, c)
    BY UnlikeBefore
  <1>2. QueueOK(msg, c, svc[c].pub1ack) /\ QueueOK(msg, c, svc[c].pub2out)
    BY <1>1 DEF QueuesOK
  <1>3. svc[c].pub1ack \in Seq(Entries(1)) /\ svc[c].pub2out \in Seq(Entries(2))
    BY DEF TypesOK, Services
  <1> QED
    BY <1>2, <1>3, QueueKept

\* Nothing but the quota and pkid of the service changes.
Quiet(s2, s) ==
  /\ s2.status = s.status /\ s2.db = s.db /\ s2.proc = s.proc
  /\ s2.pub1ack = s.pub1ack /\ s2.pub2out = s.pub2out
  /\ s2.s2c = s.s2c /\ s2.c2s = s.c2s /\ s2.restored = s.restored

-----------------------------------------------------------------------------
(* The quota.                                                              *)

\* Message n of connection c holds a unit, is retained and is done in ms2 as in ms.
Same(ms2, ms, c, n) ==
  /\ Holds(ms2, c, n) <=> Holds(ms, c, n)
  /\ n \in Unpaid(ms2, c) <=> n \in Unpaid(ms, c)
  /\ n \in Unpaid(ms, c) => (ms2[n].phase = "done" <=> ms[n].phase = "done")

\* Messages ms2 of connection c are not open unless they were, and retained if they were.
Closes(ms2, ms, c) == Open(ms2, c) \subseteq Open(ms, c) /\ Unpaid(ms, c) \subseteq Unpaid(ms2, c)

\* The sets the account is about are finite.
LEMMA Finite ==
  ASSUME NEW ms, NEW c, NEW s
  PROVE  /\ IsFiniteSet(Held(ms, c, s)) /\ Cardinality(Held(ms, c, s)) \in Nat
         /\ IsFiniteSet(Back(ms, c, s)) /\ Cardinality(Back(ms, c, s)) \in Nat
         /\ IsFiniteSet(Unpaid(ms, c)) /\ Cardinality(Unpaid(ms, c)) \in Nat
         /\ IsFiniteSet(Open(ms, c)) /\ Cardinality(Open(ms, c)) \in Nat
         /\ Quota \in Nat
  <1>1. /\ Held(ms, c, s) \subseteq Messages /\ Back(ms, c, s) \subseteq Messages
        /\ Unpaid(ms, c) \subseteq Messages /\ Open(ms, c) \subseteq Messages
    BY DEF Held, Back, Unpaid, Open
  <1>2. IsFiniteSet(Messages)
    BY Numbers
  <1>3. \A T : T \subseteq Messages => IsFiniteSet(T) /\ Cardinality(T) \in Nat
    BY <1>2, FS_Subset, FS_CardinalityType
  <1> QED
    BY <1>1, <1>3, OutFlowAssumption

\* The same messages hold a unit, and the same have added one, when the messages and the
\* packet being handled are the same for that.
LEMMA LedgerSame ==
  ASSUME NEW ms, NEW ms2, NEW c, NEW s, NEW s2, s2.proc = s.proc, s2.c2s = s.c2s,
         \A n \in Messages : Same(ms2, ms, c, n)
  PROVE  Ledger(ms2, c, s2) = Ledger(ms, c, s)
  <1>1. \A n : Acking(s2, n) <=> Acking(s, n)
    BY DEF Acking
  <1>2. Held(ms2, c, s2) = Held(ms, c, s)
    BY <1>1 DEF Held, Same
  <1>3. Back(ms2, c, s2) = Back(ms, c, s)
    <2>1. \A n \in Messages : n \in Back(ms2, c, s2) <=> n \in Back(ms, c, s)
      BY <1>1 DEF Back, Same
    <2>2. Back(ms2, c, s2) \subseteq Messages /\ Back(ms, c, s) \subseteq Messages
      BY DEF Back, Unpaid
    <2> QED
      BY <2>1, <2>2
  <1> QED
    BY <1>2, <1>3 DEF Ledger

\* Of the packets from the client only the one being handled matters for that.
LEMMA LedgerHead ==
  ASSUME NEW ms, NEW c, NEW s, NEW s2,
         s2.proc \in {"clear", "ack"} <=> s.proc \in {"clear", "ack"},
         s.proc \in {"clear", "ack"} => Head(s2.c2s) = Head(s.c2s)
  PROVE  Ledger(ms, c, s2) = Ledger(ms, c, s)
  <1>1. \A n : Acking(s2, n) <=> Acking(s, n)
    BY DEF Acking
  <1> QED
    BY <1>1 DEF Ledger, Held, Back

\* The account balances as before when the ledger and the counter stand.
LEMMA AccountSame ==
  ASSUME NEW ms, NEW ms2, NEW c, NEW s, NEW s2, Account(ms, c, s), Ledger(ms2, c, s2) = Ledger(ms, c, s),
         s2.currQuota = s.currQuota, s.refused => s2.refused
  PROVE  Account(ms2, c, s2)
  <1>1. Held(ms2, c, s2) = Held(ms, c, s) /\ Units(ms2, c, s2) = Units(ms, c, s)
    BY DEF Ledger, Units
  <1> QED
    BY <1>1 DEF Account

\* Fewer open messages are within the bound too.
LEMMA OpenFewer ==
  ASSUME NEW ms, NEW ms2, NEW c, Bounded(ms, c), Closes(ms2, ms, c)
  PROVE  Bounded(ms2, c)
  <1>1. /\ Cardinality(Open(ms2, c)) <= Cardinality(Open(ms, c))
        /\ Cardinality(Unpaid(ms, c)) <= Cardinality(Unpaid(ms2, c))
    BY Finite, FS_Subset DEF Closes
  <1> QED
    BY <1>1, Finite DEF Bounded

\* A counter that is set to 0 after a refusal.
LEMMA ZeroAccount ==
  ASSUME NEW ms, NEW ms2, NEW c, NEW s, NEW s2, Account(ms, c, s), Ledger(ms2, c, s2) = Ledger(ms, c, s),
         s2.currQuota = 0, s2.refused
  PROVE  Account(ms2, c, s2)
  <1>1. Held(ms2, c, s2) = Held(ms, c, s) /\ Units(ms2, c, s2) = Units(ms, c, s)
    BY DEF Ledger, Units
  <1> QED
    BY <1>1, Finite DEF Account, Units

\* A unit that is taken, one that is refused, one that is given back and one that is added.
LEMMA TakeAccount ==
  ASSUME NEW ms, NEW ms2, NEW c, NEW s, NEW s2, NEW m, Account(ms, c, s), s.currQuota \in Int
  PROVE  /\ /\ m \notin Held(ms, c, s) /\ Held(ms2, c, s2) = Held(ms, c, s) \cup {m}
            /\ Back(ms2, c, s2) = Back(ms, c, s)
            /\ s.currQuota - 1 >= 0 /\ s2.currQuota = s.currQuota - 1 /\ s2.refused = s.refused
            => Account(ms2, c, s2)
         /\ /\ Ledger(ms2, c, s2) = Ledger(ms, c, s)
            /\ s2.currQuota = s.currQuota - 1 /\ s2.refused
            => Account(ms2, c, s2)
         /\ /\ m \in Held(ms, c, s) /\ Held(ms2, c, s2) = Held(ms, c, s) \ {m}
            /\ Back(ms2, c, s2) = Back(ms, c, s)
            /\ s2.currQuota = s.currQuota + 1 /\ s2.refused = s.refused
            => Account(ms2, c, s2)
         /\ /\ m \notin Back(ms, c, s) /\ Back(ms2, c, s2) = Back(ms, c, s) \cup {m}
            /\ Held(ms2, c, s2) = Held(ms, c, s)
            /\ s2.currQuota = s.currQuota + 1 /\ s2.refused = s.refused
            => Account(ms2, c, s2)
  <1> DEFINE H == Held(ms, c, s)
             B == Back(ms, c, s)
  <1>1. /\ Cardinality(H) \in Nat /\ Cardinality(B) \in Nat /\ Quota \in Nat
        /\ m \notin H => Cardinality(H \cup {m}) = Cardinality(H) + 1
        /\ m \in H => Cardinality(H \ {m}) = Cardinality(H) - 1
        /\ m \notin B => Cardinality(B \cup {m}) = Cardinality(B) + 1
    BY Finite, FS_AddElement, FS_RemoveElement
  <1>2. /\ Cardinality(H) <= Quota + Cardinality(B)
        /\ s.currQuota <= Quota + Cardinality(B) - Cardinality(H)
        /\ ~s.refused => s.currQuota = Quota + Cardinality(B) - Cardinality(H)
    BY <1>1 DEF Account, Units
  <1>3. Ledger(ms2, c, s2) = Ledger(ms, c, s) => Held(ms2, c, s2) = H /\ Back(ms2, c, s2) = B
    BY DEF Ledger
  <1> HIDE DEF H, B
  <1>4. ASSUME m \notin H, Held(ms2, c, s2) = H \cup {m}, Back(ms2, c, s2) = B,
               s.currQuota - 1 >= 0, s2.currQuota = s.currQuota - 1, s2.refused = s.refused
        PROVE  Account(ms2, c, s2)
    <2>1. Cardinality(Held(ms2, c, s2)) = Cardinality(H) + 1 /\ Cardinality(Back(ms2, c, s2)) = Cardinality(B)
      BY <1>1, <1>4
    <2> QED
      BY <1>1, <1>2, <1>4, <2>1 DEF Account, Units
  <1>5. ASSUME Held(ms2, c, s2) = H, Back(ms2, c, s2) = B, s2.currQuota = s.currQuota - 1, s2.refused
        PROVE  Account(ms2, c, s2)
    BY <1>1, <1>2, <1>5 DEF Account, Units
  <1>6. ASSUME m \in H, Held(ms2, c, s2) = H \ {m}, Back(ms2, c, s2) = B,
               s2.currQuota = s.currQuota + 1, s2.refused = s.refused
        PROVE  Account(ms2, c, s2)
    <2>1. Cardinality(Held(ms2, c, s2)) = Cardinality(H) - 1 /\ Cardinality(Back(ms2, c, s2)) = Cardinality(B)
      BY <1>1, <1>6
    <2> QED
      BY <1>1, <1>2, <1>6, <2>1 DEF Account, Units
  <1>7. ASSUME m \notin B, Held(ms2, c, s2) = H, Back(ms2, c, s2) = B \cup {m},
               s2.currQuota = s.currQuota + 1, s2.refused = s.refused
        PROVE  Account(ms2, c, s2)
    <2>1. Cardinality(Held(ms2, c, s2)) = Cardinality(H) /\ Cardinality(Back(ms2, c, s2)) = Cardinality(B) + 1
      BY <1>1, <1>7
    <2> QED
      BY <1>1, <1>2, <1>7, <2>1 DEF Account, Units
  <1> QED
    BY <1>3, <1>4, <1>5, <1>6, <1>7 DEF H, B

\* What is open holds a unit, or is a retained message that has added none yet.
LEMMA OpenHeld ==
  ASSUME NEW ms, NEW k, NEW c, NEW s, Account(ms, c, s), \A n \in Messages : MsgOK(k, ms[n]),
         s.proc \in {"clear", "ack"} => AnswerOK(ms, c, Head(s.c2s))
  PROVE  Bounded(ms, c)
  <1> DEFINE H == Held(ms, c, s)
             B == Back(ms, c, s)
             R == Unpaid(ms, c)
             O == Open(ms, c)
  <1>1. O \subseteq H \cup (R \ B)
    BY DEF Open, Unpaid, Held, Back, Holds, Acking, MsgOK, AnswerOK
  <1>2. B \subseteq R
    BY DEF Back
  <1>3. /\ IsFiniteSet(H) /\ IsFiniteSet(B) /\ IsFiniteSet(R) /\ IsFiniteSet(O)
        /\ Cardinality(H) \in Nat /\ Cardinality(B) \in Nat /\ Cardinality(R) \in Nat
        /\ Cardinality(O) \in Nat /\ Quota \in Nat
    BY Finite
  <1>4. Cardinality(H) <= Quota + Cardinality(B)
    BY DEF Account, Units
  <1> HIDE DEF H, B, R, O
  <1>5. IsFiniteSet(R \ B) /\ Cardinality(R \ B) = Cardinality(R) - Cardinality(R \cap B)
    BY <1>3, FS_Difference
  <1>6. R \cap B = B
    BY <1>2
  <1>7. /\ IsFiniteSet(H \cup (R \ B))
        /\ Cardinality(H \cup (R \ B)) = Cardinality(H) + Cardinality(R \ B) - Cardinality(H \cap (R \ B))
        /\ Cardinality(H \cap (R \ B)) \in Nat
    <2>1. IsFiniteSet(H \cap (R \ B))
      BY <1>3, FS_Subset
    <2> QED
      BY <1>3, <1>5, <2>1, FS_Union, FS_CardinalityType
  <1>8. Cardinality(O) <= Cardinality(H \cup (R \ B))
    BY <1>1, <1>7, FS_Subset
  <1>9. Cardinality(O) <= Quota + Cardinality(R)
    <2>1. \A h \in Nat, b \in Nat, r \in Nat, x \in Nat, o \in Nat :
            h <= Quota + b /\ o <= h + (r - b) - x => o <= Quota + r
      BY <1>3
    <2>2. Cardinality(O) <= Cardinality(H) + (Cardinality(R) - Cardinality(B)) - Cardinality(H \cap (R \ B))
      BY <1>5, <1>6, <1>7, <1>8
    <2> QED
      BY <1>3, <1>4, <1>7, <2>1, <2>2
  <1> QED
    BY <1>9 DEF Bounded, O, R

\* A step that grants nothing, returns nothing and opens no message.
LEMMA QuotaFrame ==
  ASSUME QuotaOK,
         \A c \in Conns : svc[c].refused => svc'[c].refused,
         \A c \in Conns : svc'[c].status \in {"up", "lost"} =>
                            /\ svc[c].status \in {"up", "lost"}
                            /\ Ledger(msg', c, svc'[c]) = Ledger(msg, c, svc[c])
                            /\ svc'[c].currQuota = svc[c].currQuota,
         \A p \in Callers : pub'[p].pc \in {"over", "zero"} =>
                                 pub[p].pc \in {"over", "zero"} /\ pub'[p].conn = pub[p].conn,
         \A c \in Conns : Closes(msg', msg, c)
  PROVE  QuotaOK'
  <1> SUFFICES ASSUME NEW c \in Conns
               PROVE  /\ svc'[c].status \in {"up", "lost"} => Account(msg', c, svc'[c])
                      /\ \A p \in Callers : pub'[p].pc \in {"over", "zero"} /\ pub'[p].conn = c => svc'[c].refused
                      /\ Bounded(msg', c)
    BY DEF QuotaOK
  <1>1. ASSUME svc'[c].status \in {"up", "lost"} PROVE Account(msg', c, svc'[c])
    <2>1. /\ Account(msg, c, svc[c]) /\ Ledger(msg', c, svc'[c]) = Ledger(msg, c, svc[c])
          /\ svc'[c].currQuota = svc[c].currQuota /\ (svc[c].refused => svc'[c].refused)
      BY <1>1 DEF QuotaOK
    <2> QED
      BY <2>1, AccountSame
  <1>2. \A p \in Callers : pub'[p].pc \in {"over", "zero"} /\ pub'[p].conn = c => svc'[c].refused
    BY DEF QuotaOK
  <1>3. Bounded(msg', c)
    <2>1. Bounded(msg, c) /\ Closes(msg', msg, c)
      BY DEF QuotaOK
    <2> QED
      BY <2>1, OpenFewer
  <1> QED
    BY <1>1, <1>2, <1>3

\* The steps of a publisher that neither take nor lose a unit.
LEMMA PublisherQuota ==
  ASSUME QuotaOK, NEW p \in Callers, NEW m,
         \A c \in Conns : /\ svc'[c].status = svc[c].status /\ svc'[c].proc = svc[c].proc
                          /\ svc'[c].c2s = svc[c].c2s
                          /\ svc'[c].currQuota = svc[c].currQuota
                          /\ svc[c].refused => svc'[c].refused,
         \A r \in Callers \ {p} : pub'[r] = pub[r],
         pub'[p].pc \in {"over", "zero"} => pub[p].pc \in {"over", "zero"} /\ pub'[p].conn = pub[p].conn,
         \A n \in Messages \ {m} : msg'[n] = msg[n],
         ~msg'[m].open, \A c \in Conns : Same(msg', msg, c, m)
  PROVE  QuotaOK'
  <1>1. \A c \in Conns, n \in Messages : Same(msg', msg, c, n)
    BY DEF Same, Holds, Unpaid
  <1>2. \A c \in Conns : Ledger(msg', c, svc'[c]) = Ledger(msg, c, svc[c])
    BY <1>1, LedgerSame
  <1>3. \A c \in Conns : Closes(msg', msg, c)
    <2>1. \A c \in Conns : Open(msg', c) \subseteq Open(msg, c)
      BY DEF Open
    <2>2. \A c \in Conns : Unpaid(msg, c) \subseteq Messages
      BY DEF Unpaid
    <2> QED
      BY <1>1, <2>1, <2>2 DEF Closes, Same
  <1> QED
    BY <1>2, <1>3, QuotaFrame

-----------------------------------------------------------------------------
(* The steps of a publisher.                                               *)

\* A service whose quota or packet id is set.
LEMMA ServiceSet ==
  ASSUME NEW s \in Services
  PROVE  /\ \A q \in Int : LET t == [s EXCEPT !.currQuota = q] IN
              /\ t \in Services /\ Quiet(t, s) /\ t.pkid = s.pkid
              /\ t.currQuota = q /\ t.refused = s.refused
         /\ \A k \in 1..(MaxId + Cardinality(Publishers)) : LET t == [s EXCEPT !.pkid = k] IN
              /\ t \in Services /\ Quiet(t, s) /\ t.pkid = k
              /\ t.currQuota = s.currQuota /\ t.refused = s.refused
  <1>1. ASSUME NEW q \in Int
        PROVE  LET t == [s EXCEPT !.currQuota = q] IN
              /\ t \in Services /\ Quiet(t, s) /\ t.pkid = s.pkid
              /\ t.currQuota = q /\ t.refused = s.refused
    BY DEF Services, Quiet
  <1>3. ASSUME NEW k \in 1..(MaxId + Cardinality(Publishers))
        PROVE  LET t == [s EXCEPT !.pkid = k] IN
              /\ t \in Services /\ Quiet(t, s) /\ t.pkid = k
              /\ t.currQuota = s.currQuota /\ t.refused = s.refused
    BY DEF Services, Quiet
  <1> QED
    BY <1>1, <1>3

\* A packet id that a publisher takes, when W are those that have not set pkid back.
LEMMA TakeRange ==
  ASSUME NEW W, W \subseteq Publishers, NEW p \in Publishers \ W,
         NEW k \in 1..(MaxId + Cardinality(Publishers)), k <= MaxId + Cardinality(W)
  PROVE  /\ k + 1 \in 1..(MaxId + Cardinality(Publishers)) /\ k + 1 \in Ids
         /\ k + 1 <= MaxId + Cardinality(W \cup {p})
         /\ k + 1 <= MaxId => k + 1 <= MaxId + Cardinality(W)
  <1>1. IsFiniteSet(W) /\ IsFiniteSet(Publishers) /\ W \cup {p} \subseteq Publishers
    BY FS_Subset, OutFlowAssumption
  <1>2. Cardinality(W \cup {p}) = Cardinality(W) + 1 /\ Cardinality(W) \in Nat
    BY <1>1, FS_AddElement, FS_CardinalityType
  <1>3. Cardinality(W \cup {p}) <= Cardinality(Publishers) /\ Cardinality(Publishers) \in Nat
    BY <1>1, FS_Subset, FS_CardinalityType
  <1>4. MaxId \in Nat
    BY OutFlowAssumption
  <1> QED
    BY <1>2, <1>3, <1>4 DEF Ids

\* Where a publisher that is in onpub is.
LEMMA CallFacts ==
  ASSUME IndInv, NEW p \in Callers, pub[p].pc # "idle"
  PROVE  /\ pub[p] \in Calls /\ pub[p].conn \in Conns /\ pub[p].conn <= cur
         /\ pub[p].msg \in Messages /\ pub[p].msg # None
         /\ svc[pub[p].conn] \in Services /\ msg[pub[p].msg] \in States
         /\ msg[pub[p].msg].conn = pub[p].conn /\ ~msg[pub[p].msg].open
         /\ CallOK(msg, pub[p]) /\ MsgOK(cur, msg[pub[p].msg])
         /\ ConnOK(pub[p].conn, cur, svc[pub[p].conn])
  <1>1. CallOK(msg, pub[p])
    BY DEF IndInv, CallsOK
  <1>2. /\ pub[p].conn \in Conns /\ pub[p].msg \in Messages /\ pub[p].msg # None
        /\ msg[pub[p].msg].conn = pub[p].conn /\ ~msg[pub[p].msg].open
    BY <1>1, Numbers DEF CallOK
  <1>3. MsgOK(cur, msg[pub[p].msg]) /\ ConnOK(pub[p].conn, cur, svc[pub[p].conn])
    BY <1>2 DEF IndInv, MsgsOK, ConnsOK
  <1>4. pub[p].conn <= cur
    BY <1>2, <1>3 DEF MsgOK
  <1>5. pub[p] \in Calls /\ svc[pub[p].conn] \in Services /\ msg[pub[p].msg] \in States
    BY <1>2 DEF IndInv, TypesOK
  <1> QED
    BY <1>1, <1>2, <1>3, <1>4, <1>5

\* What the steps of a publisher before it stores the message have in common.
LEMMA PublisherFrame ==
  ASSUME IndInv, NEW p \in Callers, pub[p].pc # "idle",
         cur' = cur, out' = out, sec' = sec,
         \A d \in Conns \ {pub[p].conn} : svc'[d] = svc[d],
         Quiet(svc'[pub[p].conn], svc[pub[p].conn]),
         \A r \in Callers \ {p} : pub'[r] = pub[r],
         CallOK(msg', pub'[p]), pub'[p].msg \in {None, pub[p].msg},
         \A n \in Messages \ {pub[p].msg} : msg'[n] = msg[n],
         MsgOK(cur, msg'[pub[p].msg]),
         msg'[pub[p].msg].conn = msg[pub[p].msg].conn,
         msg[pub[p].msg].id # None => msg'[pub[p].msg].id = msg[pub[p].msg].id,
         msg[pub[p].msg].phase \notin Stored, msg'[pub[p].msg].phase \notin Stored
  PROVE  ConnsOK' /\ MsgsOK' /\ CallsOK' /\ WiresOK' /\ StoreOK' /\ QueuesOK'
  <1> DEFINE c == pub[p].conn
             m == pub[p].msg
  <1>0. /\ TypesOK /\ ConnsOK /\ MsgsOK /\ CallsOK /\ WiresOK /\ StoreOK /\ QueuesOK
        /\ c \in Conns /\ m \in Messages /\ c <= cur /\ ConnOK(c, cur, svc[c])
    BY CallFacts DEF IndInv
  <1>1. \A d \in Conns : Quiet(svc'[d], svc[d])
    BY DEF Quiet
  <1>2. ConnOK(c, cur, svc'[c])
    <2>1. ~(c > cur)
      BY <1>0 DEF Conns, TypesOK
    <2> QED
      BY <1>0, <2>1 DEF ConnOK, Quiet
  <1>3. ConnsOK'
    BY <1>0, <1>2, ConnsFrame
  <1>4. MsgsOK'
    BY <1>0, MsgsFrame
  <1>5. CallsOK'
    BY <1>0, CallsFrame
  <1>6. \A d \in Conns : svc'[d].s2c = svc[d].s2c /\ svc'[d].c2s = svc[d].c2s
    BY <1>1 DEF Quiet
  <1>7. WiresOK'
    BY <1>0, <1>6, WiresFrame
  <1>8. Early(msg', msg) /\ Grown(msg', msg)
    BY DEF Early, Grown
  <1>9. \A d \in Conns : /\ svc'[d].db = svc[d].db
                         /\ svc'[d].status = "failed" => svc[d].status = "failed" /\ svc'[d].c2s = svc[d].c2s
    BY <1>1 DEF Quiet
  <1>10. StoreOK'
    BY <1>0, <1>8, <1>9, StoreFrame
  <1>11. \A n \in Messages : msg[n].phase \in {"cached", "received"} => msg'[n].phase \in {"cached", "received"}
    BY DEF Stored
  <1>12. \A d \in Conns : /\ svc'[d].restored = svc[d].restored
                          /\ svc'[d].pub1ack = svc[d].pub1ack /\ svc'[d].pub2out = svc[d].pub2out
    BY <1>1 DEF Quiet
  <1>13. QueuesOK'
    BY <1>0, <1>8, <1>11, <1>12, QueuesFrame
  <1> QED
    BY <1>3, <1>4, <1>5, <1>7, <1>10, <1>13

\* pkid when no publisher takes a packet id or sets it back.
LEMMA IdsFrame ==
  ASSUME IdsOK, \A c \in Conns : svc'[c].pkid = svc[c].pkid,
         \A r \in Callers, c \in Conns :
           pub'[r].pc = "wrap" /\ pub'[r].conn = c <=> pub[r].pc = "wrap" /\ pub[r].conn = c
  PROVE  IdsOK'
  <1>1. \A c \in Conns : Wrapping(pub', c) = Wrapping(pub, c)
    BY Numbers DEF Wrapping
  <1> QED
    BY <1>1 DEF IdsOK

\* What every action is shown to do.
StepOK == IndInv' /\ (PubrecsPlain /\ QuotaOK => QuotaOK')

\* ReqQuota's test keeps the invariant.
LEMMA ReqQuotaStep ==
  ASSUME IndInv, NEW p \in Callers, ReqQuota(p)
  PROVE  StepOK
  <1> DEFINE c == pub[p].conn
             m == pub[p].msg
  <1>0. /\ TypesOK /\ IdsOK /\ pub[p].pc = "quota"
        /\ cur' = cur /\ out' = out /\ sec' = sec /\ msg' = msg
    BY DEF IndInv, ReqQuota, At
  <1>1. /\ c \in Conns /\ m \in Messages /\ m # None /\ svc[c] \in Services /\ pub[p] \in Calls
        /\ CallOK(msg, pub[p]) /\ MsgOK(cur, msg[m])
    BY <1>0, CallFacts
  <1>2. /\ svc' \in [Conns -> Services]
        /\ \A d \in Conns \ {c} : svc'[d] = svc[d]
        /\ Quiet(svc'[c], svc[c]) /\ svc'[c].pkid = svc[c].pkid
        /\ svc'[c].currQuota = svc[c].currQuota /\ (svc[c].refused => svc'[c].refused)
    <2> DEFINE s == [svc[c] EXCEPT !.refused = TRUE]
    <2>1. /\ s \in Services /\ Quiet(s, svc[c]) /\ s.pkid = svc[c].pkid
          /\ s.currQuota = svc[c].currQuota /\ s.refused
      BY <1>1 DEF Services, Quiet
    <2>2. svc' = svc \/ svc' = [svc EXCEPT ![c] = s]
      BY DEF ReqQuota
    <2> HIDE DEF s
    <2> QED
      BY <1>0, <1>1, <2>1, <2>2 DEF TypesOK, Quiet
  <1>3. /\ pub' \in [Callers -> Calls]
        /\ \A r \in Callers \ {p} : pub'[r] = pub[r]
        /\ pub'[p] = Idle \/ pub'[p] = [pub[p] EXCEPT !.pc = "take"]
    BY <1>0, <1>1 DEF ReqQuota, TypesOK, Calls, Done, Goto, Idle
  <1>4. /\ CallOK(msg', pub'[p]) /\ pub'[p].msg \in {None, m}
        /\ pub'[p].pc \notin {"wrap", "over", "zero"}
    BY <1>0, <1>1, <1>3 DEF CallOK, Idle, Calls
  <1>5. msg[m].phase \notin Stored
    BY <1>0, <1>1 DEF CallOK, Stored
  <1>6. ConnsOK' /\ MsgsOK' /\ CallsOK' /\ WiresOK' /\ StoreOK' /\ QueuesOK'
    BY <1>0, <1>1, <1>2, <1>3, <1>4, <1>5, PublisherFrame
  <1>7. IdsOK'
    <2>1. \A d \in Conns : svc'[d].pkid = svc[d].pkid
      BY <1>2
    <2>2. \A r \in Callers, d \in Conns :
            pub'[r].pc = "wrap" /\ pub'[r].conn = d <=> pub[r].pc = "wrap" /\ pub[r].conn = d
      BY <1>0, <1>3, <1>4
    <2> QED
      BY <1>0, <2>1, <2>2, IdsFrame
  <1>8. TypesOK'
    BY <1>0, <1>2, <1>3 DEF TypesOK
  <1>9. QuotaOK => QuotaOK'
    <2>1. \A d \in Conns : /\ svc'[d].status = svc[d].status /\ svc'[d].proc = svc[d].proc
                           /\ svc'[d].c2s = svc[d].c2s
                           /\ svc'[d].currQuota = svc[d].currQuota
                           /\ svc[d].refused => svc'[d].refused
      BY <1>2 DEF Quiet
    <2>2. ~msg[m].open
      BY <1>0, CallFacts
    <2> QED
      BY <1>0, <1>3, <1>4, <2>1, <2>2, PublisherQuota DEF Same
  <1> QED
    BY <1>6, <1>7, <1>8, <1>9 DEF IndInv, StepOK

\* Raising the signal keeps the invariant.
LEMMA SetBeyondQuotaStep ==
  ASSUME IndInv, NEW p \in Callers, SetBeyondQuota(p)
  PROVE  StepOK
  <1> DEFINE c == pub[p].conn
             m == pub[p].msg
  <1>0. /\ TypesOK /\ IdsOK /\ pub[p].pc = "over"
        /\ cur' = cur /\ out' = out /\ sec' = sec /\ msg' = msg
    BY DEF IndInv, SetBeyondQuota, At
  <1>1. /\ c \in Conns /\ m \in Messages /\ m # None /\ svc[c] \in Services /\ pub[p] \in Calls
        /\ CallOK(msg, pub[p]) /\ MsgOK(cur, msg[m])
    BY <1>0, CallFacts
  <1>2. /\ svc' \in [Conns -> Services]
        /\ \A d \in Conns \ {c} : svc'[d] = svc[d]
        /\ Quiet(svc'[c], svc[c]) /\ svc'[c].pkid = svc[c].pkid
        /\ svc'[c].currQuota = svc[c].currQuota /\ svc[c].refused = svc'[c].refused
    <2> DEFINE s == [svc[c] EXCEPT !.beyondQuota = TRUE]
    <2>1. /\ s \in Services /\ Quiet(s, svc[c]) /\ s.pkid = svc[c].pkid
          /\ s.currQuota = svc[c].currQuota /\ s.refused = svc[c].refused
      BY <1>1 DEF Services, Quiet
    <2>2. svc' = [svc EXCEPT ![c] = s]
      BY DEF SetBeyondQuota
    <2> HIDE DEF s
    <2> QED
      BY <1>0, <1>1, <2>1, <2>2 DEF TypesOK
  <1>3. /\ pub' \in [Callers -> Calls]
        /\ \A r \in Callers \ {p} : pub'[r] = pub[r]
        /\ pub'[p] = [pub[p] EXCEPT !.pc = "zero"]
    BY <1>0, <1>1 DEF SetBeyondQuota, TypesOK, Calls, Goto
  <1>4. /\ CallOK(msg', pub'[p]) /\ pub'[p].msg \in {None, m}
        /\ pub'[p].pc = "zero" /\ pub'[p].conn = c
    BY <1>0, <1>1, <1>3 DEF CallOK, Calls
  <1>5. msg[m].phase \notin Stored
    BY <1>0, <1>1 DEF CallOK, Stored
  <1>6. ConnsOK' /\ MsgsOK' /\ CallsOK' /\ WiresOK' /\ StoreOK' /\ QueuesOK'
    BY <1>0, <1>1, <1>2, <1>3, <1>4, <1>5, PublisherFrame
  <1>7. IdsOK'
    <2>1. \A d \in Conns : svc'[d].pkid = svc[d].pkid
      BY <1>2
    <2>2. \A r \in Callers, d \in Conns :
            pub'[r].pc = "wrap" /\ pub'[r].conn = d <=> pub[r].pc = "wrap" /\ pub[r].conn = d
      BY <1>0, <1>3, <1>4
    <2> QED
      BY <1>0, <2>1, <2>2, IdsFrame
  <1>8. TypesOK'
    BY <1>0, <1>2, <1>3 DEF TypesOK
  <1>9. QuotaOK => QuotaOK'
    <2>1. \A d \in Conns : /\ svc'[d].status = svc[d].status /\ svc'[d].proc = svc[d].proc
                           /\ svc'[d].c2s = svc[d].c2s
                           /\ svc'[d].currQuota = svc[d].currQuota
                           /\ svc[d].refused => svc'[d].refused
      BY <1>2 DEF Quiet
    <2>2. ~msg[m].open
      BY <1>0, CallFacts
    <2> QED
      BY <1>0, <1>3, <1>4, <2>1, <2>2, PublisherQuota DEF Same
  <1> QED
    BY <1>6, <1>7, <1>8, <1>9 DEF IndInv, StepOK

\* Swapping 0 into the counter keeps it: no unit appears, since no more than Quota are held.
LEMMA ZeroQuotaStep ==
  ASSUME IndInv, NEW p \in Callers, ZeroQuota(p)
  PROVE  StepOK
  <1> DEFINE c == pub[p].conn
             m == pub[p].msg
  <1>0. /\ TypesOK /\ IdsOK /\ pub[p].pc = "zero"
        /\ cur' = cur /\ out' = out /\ sec' = sec /\ msg' = msg
    BY DEF IndInv, ZeroQuota, At
  <1>1. /\ c \in Conns /\ m \in Messages /\ m # None /\ svc[c] \in Services /\ pub[p] \in Calls
        /\ CallOK(msg, pub[p]) /\ MsgOK(cur, msg[m])
    BY <1>0, CallFacts
  <1>2. /\ svc' \in [Conns -> Services]
        /\ \A d \in Conns \ {c} : svc'[d] = svc[d]
        /\ Quiet(svc'[c], svc[c]) /\ svc'[c].pkid = svc[c].pkid
        /\ svc'[c].currQuota = 0 /\ svc[c].refused = svc'[c].refused
    <2> DEFINE s == [svc[c] EXCEPT !.currQuota = 0]
    <2>1. /\ s \in Services /\ Quiet(s, svc[c]) /\ s.pkid = svc[c].pkid
          /\ s.currQuota = 0 /\ s.refused = svc[c].refused
      BY <1>1, 0 \in Int, ServiceSet
    <2>2. svc' = [svc EXCEPT ![c] = s]
      BY DEF ZeroQuota
    <2> HIDE DEF s
    <2> QED
      BY <1>0, <1>1, <2>1, <2>2 DEF TypesOK
  <1>3. /\ pub' \in [Callers -> Calls]
        /\ \A r \in Callers \ {p} : pub'[r] = pub[r]
        /\ pub'[p] = Idle
    BY <1>0, <1>1 DEF ZeroQuota, TypesOK, Calls, Done, Idle
  <1>4. /\ CallOK(msg', pub'[p]) /\ pub'[p].msg \in {None, m}
        /\ pub'[p].pc = "idle"
    BY <1>0, <1>1, <1>3 DEF CallOK, Idle
  <1>5. msg[m].phase \notin Stored
    BY <1>0, <1>1 DEF CallOK, Stored
  <1>6. ConnsOK' /\ MsgsOK' /\ CallsOK' /\ WiresOK' /\ StoreOK' /\ QueuesOK'
    BY <1>0, <1>1, <1>2, <1>3, <1>4, <1>5, PublisherFrame
  <1>7. IdsOK'
    <2>1. \A d \in Conns : svc'[d].pkid = svc[d].pkid
      BY <1>2
    <2>2. \A r \in Callers, d \in Conns :
            pub'[r].pc = "wrap" /\ pub'[r].conn = d <=> pub[r].pc = "wrap" /\ pub[r].conn = d
      BY <1>0, <1>3, <1>4
    <2> QED
      BY <1>0, <2>1, <2>2, IdsFrame
  <1>8. TypesOK'
    BY <1>0, <1>2, <1>3 DEF TypesOK
  <1>9. ASSUME QuotaOK PROVE QuotaOK'
    <2>1. \A d \in Conns : Ledger(msg', d, svc'[d]) = Ledger(msg, d, svc[d])
      <3>1. \A d \in Conns : svc'[d].proc = svc[d].proc /\ svc'[d].c2s = svc[d].c2s
        BY <1>2 DEF Quiet
      <3>2. \A d \in Conns, n \in Messages : Same(msg', msg, d, n)
        BY <1>0 DEF Same
      <3> QED
        BY <3>1, <3>2, LedgerSame
    <2>2. svc[c].refused
      BY <1>0, <1>1, <1>9 DEF QuotaOK
    <2>3. ASSUME NEW d \in Conns, svc'[d].status \in {"up", "lost"} PROVE Account(msg', d, svc'[d])
      <3>1. svc'[d].status = svc[d].status
        BY <1>2 DEF Quiet
      <3>2. Account(msg, d, svc[d])
        BY <1>9, <2>3, <3>1 DEF QuotaOK
      <3>3. CASE d # c
        BY <1>0, <1>2, <3>2, <3>3
      <3>4. CASE d = c
        BY <1>2, <2>1, <2>2, <3>2, <3>4, ZeroAccount
      <3> QED
        BY <3>3, <3>4
    <2>4. \A d \in Conns : svc[d].refused => svc'[d].refused
      BY <1>2
    <2> QED
      BY <1>0, <1>3, <1>4, <1>9, <2>3, <2>4 DEF QuotaOK
  <1> QED
    BY <1>6, <1>7, <1>8, <1>9 DEF IndInv, StepOK

\* Taking a unit keeps the account of the units.
LEMMA TakeQuotaStep ==
  ASSUME IndInv, NEW p \in Callers, TakeQuota(p)
  PROVE  StepOK
  <1> DEFINE c == pub[p].conn
             m == pub[p].msg
             granted == svc[c].currQuota - 1 >= 0
  <1>0. /\ TypesOK /\ IdsOK /\ WiresOK /\ pub[p].pc = "take"
        /\ cur' = cur /\ out' = out /\ sec' = sec
    BY DEF IndInv, TakeQuota, At
  <1>1. /\ c \in Conns /\ m \in Messages /\ m # None /\ svc[c] \in Services /\ pub[p] \in Calls
        /\ CallOK(msg, pub[p]) /\ MsgOK(cur, msg[m]) /\ msg[m] \in States /\ ~msg[m].open
        /\ msg[m].conn = c /\ ConnOK(c, cur, svc[c])
    BY <1>0, CallFacts
  <1>2. /\ svc' \in [Conns -> Services]
        /\ \A d \in Conns \ {c} : svc'[d] = svc[d]
        /\ Quiet(svc'[c], svc[c]) /\ svc'[c].pkid = svc[c].pkid
        /\ svc'[c].currQuota = svc[c].currQuota - 1 /\ svc[c].currQuota \in Int
        /\ svc'[c].refused = (svc[c].refused \/ ~granted)
    <2> DEFINE q == svc[c].currQuota - 1
               r == svc[c].refused \/ ~granted
               s == [svc[c] EXCEPT !.currQuota = q, !.refused = r]
    <2>1. q \in Int /\ r \in BOOLEAN /\ svc[c].currQuota \in Int
      BY <1>1 DEF Services
    <2>3. svc' = [svc EXCEPT ![c] = s]
      BY DEF TakeQuota
    <2> HIDE DEF q, r
    <2>2. /\ s \in Services /\ Quiet(s, svc[c]) /\ s.pkid = svc[c].pkid
          /\ s.currQuota = q /\ s.refused = r
      BY <1>1, <2>1 DEF Services, Quiet
    <2> HIDE DEF s
    <2>4. /\ svc' \in [Conns -> Services] /\ svc'[c] = s
          /\ \A d \in Conns \ {c} : svc'[d] = svc[d]
      BY <1>0, <1>1, <2>2, <2>3 DEF TypesOK
    <2> QED
      BY <2>1, <2>2, <2>4 DEF q, r
  <1>3. /\ pub' \in [Callers -> Calls]
        /\ \A r \in Callers \ {p} : pub'[r] = pub[r]
        /\ pub'[p] = [pub[p] EXCEPT !.pc = IF granted THEN "id" ELSE "over"]
    BY <1>0, <1>1 DEF TakeQuota, TypesOK, Calls, Goto
  <1>4. /\ msg' \in [Messages -> States]
        /\ \A n \in Messages \ {m} : msg'[n] = msg[n]
        /\ msg'[m].conn = c /\ msg'[m].id = msg[m].id /\ ~msg'[m].open
        /\ msg'[m].retained = msg[m].retained
        /\ granted => msg'[m].phase = "granted"
        /\ ~granted => msg'[m] = msg[m]
    <2> DEFINE s == [msg[m] EXCEPT !.phase = "granted"]
    <2>1. /\ s \in States /\ s.conn = msg[m].conn /\ s.id = msg[m].id /\ s.open = msg[m].open
          /\ s.phase = "granted" /\ s.retained = msg[m].retained
      BY <1>1 DEF States, Phases
    <2>2. msg' = IF granted THEN [msg EXCEPT ![m] = s] ELSE msg
      BY DEF TakeQuota
    <2> HIDE DEF s, granted
    <2> QED
      BY <1>0, <1>1, <2>1, <2>2 DEF TypesOK
  <1>5. /\ pub'[p].msg = m /\ pub'[p].conn = c
        /\ pub'[p].pc = IF granted THEN "id" ELSE "over"
    BY <1>1, <1>3 DEF Calls
  <1>6. /\ msg[m].phase = "new" /\ msg[m].id = None /\ ~msg[m].retained
        /\ msg[m].phase \notin Stored /\ msg'[m].phase \notin Stored
    BY <1>0, <1>1, <1>4 DEF CallOK, Stored
  <1> HIDE DEF granted
  <1>7. CallOK(msg', pub'[p])
    BY <1>0, <1>1, <1>4, <1>5, <1>6 DEF CallOK
  <1>8. MsgOK(cur, msg'[m])
    BY <1>1, <1>4, <1>6, Numbers DEF MsgOK, Stored
  <1>9. ConnsOK' /\ MsgsOK' /\ CallsOK' /\ WiresOK' /\ StoreOK' /\ QueuesOK'
    BY <1>0, <1>1, <1>2, <1>3, <1>4, <1>5, <1>6, <1>7, <1>8, PublisherFrame
  <1>10. IdsOK'
    <2>1. \A d \in Conns : svc'[d].pkid = svc[d].pkid
      BY <1>2
    <2>2. \A r \in Callers, d \in Conns :
            pub'[r].pc = "wrap" /\ pub'[r].conn = d <=> pub[r].pc = "wrap" /\ pub[r].conn = d
      BY <1>0, <1>3, <1>5
    <2> QED
      BY <1>0, <2>1, <2>2, IdsFrame
  <1>11. TypesOK'
    BY <1>0, <1>2, <1>3, <1>4 DEF TypesOK
  <1>12. ASSUME QuotaOK PROVE QuotaOK'
    <2>1. \A d \in Conns : Quiet(svc'[d], svc[d]) /\ (svc[d].refused => svc'[d].refused)
      BY <1>2 DEF Quiet
    <2>2. ASSUME NEW d \in Conns, d # c \/ ~granted PROVE Ledger(msg', d, svc'[d]) = Ledger(msg, d, svc[d])
      <3>1. \A n \in Messages : Same(msg', msg, d, n)
        BY <1>1, <1>4, <2>2 DEF Same, Holds, Unpaid
      <3> QED
        BY <2>1, <3>1, LedgerSame DEF Quiet
    <2>3. m \notin Held(msg, c, svc[c])
      BY <1>6 DEF Held, Holds
    <2>4. ASSUME svc[c].status \in {"up", "lost"}, granted
          PROVE  /\ Held(msg', c, svc'[c]) = Held(msg, c, svc[c]) \cup {m}
                 /\ Back(msg', c, svc'[c]) = Back(msg, c, svc[c])
      <3>1. \A n : Acking(svc'[c], n) <=> Acking(svc[c], n)
        BY <1>2 DEF Quiet, Acking
      <3>2. ~Acking(svc[c], m)
        <4>1. svc[c].proc \in {"clear", "ack"} => svc[c].c2s # <<>>
          BY <1>1, <2>4 DEF ConnOK
        <4>2. NoPacket(m, svc[c].s2c, svc[c].c2s)
          BY <1>0, <1>1 DEF WiresOK
        <4> QED
          BY <1>0, <1>1, <4>1, <4>2, HeadFacts DEF NoPacket, Acking
      <3>3. Holds(msg', c, m)
        BY <1>4, <1>6, <2>4 DEF Holds
      <3>4. \A n \in Messages \ {m} : Holds(msg', c, n) <=> Holds(msg, c, n)
        BY <1>4 DEF Holds
      <3>5. Held(msg', c, svc'[c]) = Held(msg, c, svc[c]) \cup {m}
        BY <1>1, <3>1, <3>2, <3>3, <3>4 DEF Held
      <3>6. Unpaid(msg', c) = Unpaid(msg, c) /\ m \notin Unpaid(msg, c)
        BY <1>4, <1>6 DEF Unpaid
      <3>7. \A n \in Unpaid(msg, c) : msg'[n] = msg[n]
        BY <1>4, <3>6 DEF Unpaid
      <3>8. Back(msg', c, svc'[c]) = Back(msg, c, svc[c])
        BY <3>1, <3>6, <3>7 DEF Back
      <3> QED
        BY <3>5, <3>8
    <2>5. ASSUME NEW d \in Conns, svc'[d].status \in {"up", "lost"} PROVE Account(msg', d, svc'[d])
      <3>1. svc[d].status \in {"up", "lost"} /\ Account(msg, d, svc[d])
        BY <1>12, <2>1, <2>5 DEF QuotaOK, Quiet
      <3>2. CASE d # c
        BY <1>2, <2>2, <3>1, <3>2, AccountSame
      <3>3. CASE d = c /\ granted
        <4>1. Account(msg, c, svc[c]) /\ svc[c].status \in {"up", "lost"}
          BY <3>1, <3>3
        <4>2. svc[c].currQuota - 1 >= 0
          BY <3>3 DEF granted
        <4>3. svc'[c].refused = svc[c].refused
          BY <1>1, <1>2, <3>3 DEF Services
        <4>4. Account(msg', c, svc'[c])
          BY <1>2, <2>3, <2>4, <3>3, <4>1, <4>2, <4>3, TakeAccount
        <4> QED
          BY <3>3, <4>4
      <3>4. CASE d = c /\ ~granted
        BY <1>2, <2>2, <3>1, <3>4, TakeAccount
      <3> QED
        BY <3>2, <3>3, <3>4
    <2>6. ASSUME NEW d \in Conns PROVE Bounded(msg', d)
      <3>1. Closes(msg', msg, d)
        BY <1>1, <1>4 DEF Closes, Open, Unpaid
      <3> QED
        BY <1>12, <3>1, OpenFewer DEF QuotaOK
    <2>7. ASSUME NEW r \in Callers, NEW d \in Conns, pub'[r].pc \in {"over", "zero"}, pub'[r].conn = d
          PROVE  svc'[d].refused
      <3>1. CASE r = p
        BY <1>2, <1>5, <2>7, <3>1
      <3>2. CASE r # p
        BY <1>3, <1>12, <2>1, <2>7, <3>2 DEF QuotaOK
      <3> QED
        BY <3>1, <3>2
    <2> QED
      BY <2>5, <2>6, <2>7 DEF QuotaOK
  <1> QED
    BY <1>9, <1>10, <1>11, <1>12 DEF IndInv, StepOK

\* Taking a packet id, or dropping the message, keeps the invariant.
LEMMA TakeIdStep ==
  ASSUME IndInv, NEW p \in Publishers, TakeId(p)
  PROVE  StepOK
  <1> DEFINE c == pub[p].conn
             m == pub[p].msg
             id == svc[c].pkid + 1
             W == Wrapping(pub, c)
  <1>0. /\ TypesOK /\ IdsOK /\ pub[p].pc = "id" /\ p \in Callers
        /\ cur' = cur /\ out' = out /\ sec' = sec
    BY Numbers DEF IndInv, TakeId, At
  <1>1. /\ c \in Conns /\ m \in Messages /\ m # None /\ svc[c] \in Services /\ pub[p] \in Calls
        /\ CallOK(msg, pub[p]) /\ MsgOK(cur, msg[m]) /\ msg[m] \in States /\ ~msg[m].open
        /\ msg[m].conn = c
    BY <1>0, CallFacts
  <1>2. /\ id \in 1..(MaxId + Cardinality(Publishers)) /\ id \in Ids
        /\ id <= MaxId + Cardinality(W \cup {p})
        /\ id <= MaxId => id <= MaxId + Cardinality(W)
    <2>1. W \subseteq Publishers /\ p \in Publishers \ W
      BY <1>0 DEF Wrapping
    <2>2. svc[c].pkid \in 1..(MaxId + Cardinality(Publishers)) /\ svc[c].pkid <= MaxId + Cardinality(W)
      BY <1>0, <1>1 DEF Services, IdsOK
    <2> HIDE DEF W
    <2> QED
      BY <2>1, <2>2, TakeRange
  <1> DEFINE drops == /\ svc' = svc /\ pub' = [pub EXCEPT ![p] = Idle]
                      /\ msg' = [msg EXCEPT ![m].phase = "dropped"]
             takes == /\ svc' = [svc EXCEPT ![c].pkid = id]
                      /\ pub' = [pub EXCEPT ![p].pc = IF id > MaxId THEN "wrap" ELSE "cache"]
                      /\ msg' = [msg EXCEPT ![m].id = id]
  <1>3. drops \/ takes
    BY DEF TakeId, Done, Goto
  <1> HIDE DEF id, W
  <1>4. /\ svc' \in [Conns -> Services]
        /\ \A d \in Conns \ {c} : svc'[d] = svc[d]
        /\ Quiet(svc'[c], svc[c])
        /\ svc'[c].currQuota = svc[c].currQuota /\ svc'[c].refused = svc[c].refused
        /\ svc'[c].pkid = IF takes THEN id ELSE svc[c].pkid
    <2>1. CASE takes
      <3> DEFINE s == [svc[c] EXCEPT !.pkid = id]
      <3>1. /\ s \in Services /\ Quiet(s, svc[c]) /\ s.pkid = id
            /\ s.currQuota = svc[c].currQuota /\ s.refused = svc[c].refused
        BY <1>1, <1>2, ServiceSet
      <3>2. svc' = [svc EXCEPT ![c] = s]
        BY <2>1
      <3> HIDE DEF s, takes
      <3> QED
        BY <1>0, <1>1, <2>1, <3>1, <3>2 DEF TypesOK
    <2>2. CASE ~takes
      <3>1. svc' = svc
        BY <1>3, <2>2
      <3> HIDE DEF takes
      <3> QED
        BY <1>0, <1>1, <2>2, <3>1 DEF TypesOK, Quiet
    <2> QED
      BY <2>1, <2>2
  <1>5. /\ pub' \in [Callers -> Calls]
        /\ \A r \in Callers \ {p} : pub'[r] = pub[r]
        /\ takes => /\ pub'[p].conn = c /\ pub'[p].msg = m
                    /\ pub'[p].pc = IF id > MaxId THEN "wrap" ELSE "cache"
        /\ ~takes => pub'[p] = Idle
    <2>1. CASE takes
      BY <1>0, <1>1, <2>1 DEF TypesOK, Calls
    <2>2. CASE ~takes
      <3>1. pub' = [pub EXCEPT ![p] = Idle]
        BY <1>3, <2>2
      <3> HIDE DEF takes
      <3> QED
        BY <1>0, <2>2, <3>1 DEF TypesOK, Calls, Idle
    <2> QED
      BY <2>1, <2>2
  <1>6. /\ msg' \in [Messages -> States]
        /\ \A n \in Messages \ {m} : msg'[n] = msg[n]
        /\ msg'[m].conn = c /\ ~msg'[m].open /\ msg'[m].retained = msg[m].retained
        /\ takes => msg'[m].id = id /\ msg'[m].phase = msg[m].phase
        /\ ~takes => msg'[m].id = msg[m].id /\ msg'[m].phase = "dropped"
    <2>1. CASE takes
      <3> DEFINE s == [msg[m] EXCEPT !.id = id]
      <3>1. /\ s \in States /\ s.conn = msg[m].conn /\ s.open = msg[m].open
            /\ s.phase = msg[m].phase /\ s.id = id /\ s.retained = msg[m].retained
        BY <1>1, <1>2 DEF States
      <3>2. msg' = [msg EXCEPT ![m] = s]
        BY <2>1
      <3> HIDE DEF s, takes
      <3> QED
        BY <1>0, <1>1, <2>1, <3>1, <3>2 DEF TypesOK
    <2>2. CASE ~takes
      <3> DEFINE s == [msg[m] EXCEPT !.phase = "dropped"]
      <3>1. /\ s \in States /\ s.conn = msg[m].conn /\ s.open = msg[m].open
            /\ s.id = msg[m].id /\ s.phase = "dropped" /\ s.retained = msg[m].retained
        BY <1>1 DEF States, Phases
      <3>2. msg' = [msg EXCEPT ![m] = s]
        BY <1>3, <2>2
      <3> HIDE DEF s, takes
      <3> QED
        BY <1>0, <1>1, <2>2, <3>1, <3>2 DEF TypesOK
    <2> QED
      BY <2>1, <2>2
  <1> HIDE DEF takes, drops
  <1>7. /\ msg[m].phase = "granted" /\ msg[m].id = None /\ ~msg[m].retained
        /\ msg[m].phase \notin Stored /\ msg'[m].phase \notin Stored
    BY <1>0, <1>1, <1>6 DEF CallOK, Stored
  <1>8. CallOK(msg', pub'[p]) /\ pub'[p].msg \in {None, m} /\ pub'[p].pc \notin {"over", "zero"}
    BY <1>1, <1>2, <1>5, <1>6, <1>7 DEF CallOK, Idle
  <1>9. MsgOK(cur, msg'[m])
    BY <1>1, <1>6, <1>7, Numbers DEF MsgOK
  <1>10. ConnsOK' /\ MsgsOK' /\ CallsOK' /\ WiresOK' /\ StoreOK' /\ QueuesOK'
    BY <1>0, <1>1, <1>4, <1>5, <1>6, <1>7, <1>8, <1>9, PublisherFrame
  <1>11. TypesOK'
    BY <1>0, <1>4, <1>5, <1>6 DEF TypesOK
  <1>12. IdsOK'
    <2> SUFFICES ASSUME NEW d \in Conns PROVE svc'[d].pkid <= MaxId + Cardinality(Wrapping(pub', d))
      BY DEF IdsOK
    <2>1. CASE d # c \/ ~takes
      <3>1. Wrapping(pub', d) = Wrapping(pub, d)
        BY <1>0, <1>5, <2>1 DEF Wrapping, Idle, Callers
      <3>2. svc'[d].pkid = svc[d].pkid
        BY <1>4, <2>1
      <3> QED
        BY <1>0, <3>1, <3>2 DEF IdsOK
    <2>2. CASE d = c /\ takes /\ id > MaxId
      <3>1. Wrapping(pub', c) = W \cup {p}
        BY <1>0, <1>5, Numbers, <2>2 DEF Wrapping, W
      <3> QED
        BY <1>2, <1>4, <2>2, <3>1
    <2>3. CASE d = c /\ takes /\ ~(id > MaxId)
      <3>1. Wrapping(pub', c) = W
        BY <1>0, <1>5, Numbers, <2>3 DEF Wrapping, W
      <3>2. id <= MaxId
        BY <1>2, <2>3, OutFlowAssumption DEF Ids
      <3> QED
        BY <1>2, <1>4, <2>3, <3>1, <3>2
    <2> QED
      BY <2>1, <2>2, <2>3
  <1>13. QuotaOK => QuotaOK'
    <2>1. \A d \in Conns : /\ svc'[d].status = svc[d].status /\ svc'[d].proc = svc[d].proc
                           /\ svc'[d].c2s = svc[d].c2s
                           /\ svc'[d].currQuota = svc[d].currQuota
                           /\ svc[d].refused => svc'[d].refused
      BY <1>4 DEF Quiet
    <2>2. \A d \in Conns : Same(msg', msg, d, m)
      BY <1>1, <1>6, <1>7 DEF Same, Holds, Unpaid
    <2> QED
      BY <1>0, <1>5, <1>6, <1>8, <2>1, <2>2, PublisherQuota
  <1> QED
    BY <1>10, <1>11, <1>12, <1>13 DEF IndInv, StepOK

\* Setting pkid back keeps the invariant.
LEMMA WrapIdStep ==
  ASSUME IndInv, NEW p \in Callers, WrapId(p)
  PROVE  StepOK
  <1> DEFINE c == pub[p].conn
             m == pub[p].msg
  <1>0. /\ TypesOK /\ IdsOK /\ pub[p].pc = "wrap"
        /\ cur' = cur /\ out' = out /\ sec' = sec /\ msg' = msg
    BY DEF IndInv, WrapId, At
  <1>1. /\ c \in Conns /\ m \in Messages /\ m # None /\ svc[c] \in Services /\ pub[p] \in Calls
        /\ CallOK(msg, pub[p]) /\ MsgOK(cur, msg[m]) /\ ~msg[m].open
    BY <1>0, CallFacts
  <1>2. /\ svc' \in [Conns -> Services]
        /\ \A d \in Conns \ {c} : svc'[d] = svc[d]
        /\ Quiet(svc'[c], svc[c]) /\ svc'[c].pkid = 1
        /\ svc'[c].currQuota = svc[c].currQuota /\ svc[c].refused = svc'[c].refused
    <2> DEFINE s == [svc[c] EXCEPT !.pkid = 1]
    <2>1. 1 \in 1..(MaxId + Cardinality(Publishers))
      BY OutFlowAssumption, Numbers
    <2>2. /\ s \in Services /\ Quiet(s, svc[c]) /\ s.pkid = 1
          /\ s.currQuota = svc[c].currQuota /\ s.refused = svc[c].refused
      BY <1>1, <2>1, ServiceSet
    <2>3. svc' = [svc EXCEPT ![c] = s]
      BY DEF WrapId
    <2> HIDE DEF s
    <2> QED
      BY <1>0, <1>1, <2>2, <2>3 DEF TypesOK
  <1>3. /\ pub' \in [Callers -> Calls]
        /\ \A r \in Callers \ {p} : pub'[r] = pub[r]
        /\ pub'[p].conn = c /\ pub'[p].msg = m /\ pub'[p].pc = "cache"
    BY <1>0, <1>1 DEF WrapId, TypesOK, Calls, Goto
  <1>4. CallOK(msg', pub'[p])
    BY <1>0, <1>1, <1>3 DEF CallOK
  <1>5. msg[m].phase \notin Stored
    BY <1>0, <1>1 DEF CallOK, Stored
  <1>6. ConnsOK' /\ MsgsOK' /\ CallsOK' /\ WiresOK' /\ StoreOK' /\ QueuesOK'
    BY <1>0, <1>1, <1>2, <1>3, <1>4, <1>5, PublisherFrame
  <1>7. IdsOK'
    <2> SUFFICES ASSUME NEW d \in Conns PROVE svc'[d].pkid <= MaxId + Cardinality(Wrapping(pub', d))
      BY DEF IdsOK
    <2>1. CASE d # c
      <3>1. Wrapping(pub', d) = Wrapping(pub, d)
        BY <1>0, <1>3, <2>1, Numbers DEF Wrapping
      <3> QED
        BY <1>0, <1>2, <2>1, <3>1 DEF IdsOK
    <2>2. CASE d = c
      <3>1. Cardinality(Wrapping(pub', d)) \in Nat
        BY FS_Subset, FS_CardinalityType, OutFlowAssumption DEF Wrapping
      <3>2. MaxId \in Nat \ {0}
        BY OutFlowAssumption
      <3> QED
        BY <1>2, <2>2, <3>1, <3>2
    <2> QED
      BY <2>1, <2>2
  <1>8. TypesOK'
    BY <1>0, <1>2, <1>3 DEF TypesOK
  <1>9. QuotaOK => QuotaOK'
    <2>1. \A d \in Conns : /\ svc'[d].status = svc[d].status /\ svc'[d].proc = svc[d].proc
                           /\ svc'[d].c2s = svc[d].c2s
                           /\ svc'[d].currQuota = svc[d].currQuota
                           /\ svc[d].refused => svc'[d].refused
      BY <1>2 DEF Quiet
    <2> QED
      BY <1>0, <1>1, <1>3, <2>1, PublisherQuota DEF Same
  <1> QED
    BY <1>6, <1>7, <1>8, <1>9 DEF IndInv, StepOK

\* Writing the record keeps the invariant.
LEMMA CacheOutflowMsgStep ==
  ASSUME IndInv, NEW p \in Callers, CacheOutflowMsg(p)
  PROVE  StepOK
  <1> DEFINE c == pub[p].conn
             m == pub[p].msg
  <1>0. /\ TypesOK /\ IdsOK /\ WiresOK /\ ConnsOK /\ MsgsOK /\ CallsOK /\ StoreOK /\ QueuesOK
        /\ pub[p].pc = "cache" /\ cur' = cur /\ svc' = svc /\ sec' = sec
    BY DEF IndInv, CacheOutflowMsg, At
  <1>1. /\ c \in Conns /\ m \in Messages /\ m # None /\ svc[c] \in Services /\ pub[p] \in Calls
        /\ CallOK(msg, pub[p]) /\ MsgOK(cur, msg[m]) /\ msg[m] \in States /\ ~msg[m].open
        /\ msg[m].conn = c
    BY <1>0, CallFacts
  <1>2. msg[m].phase = (IF msg[m].retained THEN "new" ELSE "granted") /\ msg[m].id \in Ids
    BY <1>0, <1>1 DEF CallOK
  <1>3. /\ pub' \in [Callers -> Calls]
        /\ \A r \in Callers \ {p} : pub'[r] = pub[r]
        /\ pub'[p].conn = c /\ pub'[p].msg = m /\ pub'[p].pc = "wait"
    BY <1>0, <1>1 DEF CacheOutflowMsg, TypesOK, Calls, Goto
  <1>4. /\ msg' \in [Messages -> States]
        /\ \A n \in Messages \ {m} : msg'[n] = msg[n]
        /\ msg'[m].conn = c /\ msg'[m].id = msg[m].id /\ ~msg'[m].open /\ msg'[m].phase = "cached"
        /\ msg'[m].retained = msg[m].retained
    <2> DEFINE s == [msg[m] EXCEPT !.phase = "cached"]
    <2>1. /\ s \in States /\ s.conn = msg[m].conn /\ s.open = msg[m].open
          /\ s.id = msg[m].id /\ s.phase = "cached" /\ s.retained = msg[m].retained
      BY <1>1 DEF States, Phases
    <2>2. msg' = [msg EXCEPT ![m] = s]
      BY DEF CacheOutflowMsg
    <2> HIDE DEF s
    <2> QED
      BY <1>0, <1>1, <2>1, <2>2 DEF TypesOK
  <1>5. /\ out' \in [Ids -> Messages \cup {None}]
        /\ svc[c].db => out'[msg[m].id] = m /\ \A i \in Ids : i # msg[m].id => out'[i] = out[i]
        /\ ~svc[c].db => out' = out
    BY <1>0, <1>1, <1>2 DEF CacheOutflowMsg, TypesOK
  <1>6. CallOK(msg', pub'[p])
    BY <1>1, <1>3, <1>4 DEF CallOK
  <1>7. MsgOK(cur, msg'[m])
    BY <1>1, <1>2, <1>4, Numbers DEF MsgOK
  <1>8. ConnsOK' /\ MsgsOK' /\ CallsOK' /\ WiresOK'
    <2>1. ConnsOK'
      BY <1>0 DEF ConnsOK
    <2>2. MsgsOK'
      BY <1>0, <1>4, <1>7, MsgsFrame
    <2>3. CallsOK'
      BY <1>0, <1>3, <1>4, <1>6, CallsFrame
    <2>4. WiresOK'
      BY <1>0, <1>3, <1>4, WiresFrame
    <2> QED
      BY <2>1, <2>2, <2>3, <2>4
  <1>9. StoreOK'
    <2>1. Kept(svc', msg', m) <=> svc[c].db
      BY <1>0, <1>1, <1>4, Numbers DEF Kept, Stored
    <2>2. ~Kept(svc, msg, m)
      BY <1>2 DEF Kept, Stored
    <2>3. RecordOK(svc', msg', out', sec', m)
      BY <1>4, <1>5, <2>1 DEF RecordOK
    <2>4. \/ out' = out /\ sec' = sec
          \/ /\ Kept(svc', msg', m)
             /\ \A i \in Ids : i # msg'[m].id => out'[i] = out[i] /\ (i \in sec' <=> i \in sec)
      BY <1>0, <1>4, <1>5, <2>1
    <2>5. /\ sec' \subseteq sec \cup {msg'[m].id}
          /\ msg'[m].id \in sec' => \/ msg'[m].id \in sec
                                    \/ Kept(svc', msg', m) /\ msg'[m].phase \in {"received", "done"}
          /\ msg'[m].conn = msg[m].conn
          /\ \A d \in Conns : /\ svc'[d].db = svc[d].db
                              /\ svc'[d].status = "failed" => svc[d].status = "failed" /\ svc'[d].c2s = svc[d].c2s
      BY <1>0, <1>1, <1>4
    <2>6. Kept(svc, msg, m) => /\ msg'[m].phase \in Stored
                               /\ msg[m].phase # "cached" => msg'[m].phase # "cached"
      BY <2>2
    <2> QED
      BY <1>0, <1>1, <1>4, <2>3, <2>4, <2>5, <2>6, StoreStep
  <1>10. QueuesOK'
    <2>1. Grown(msg', msg)
      BY <1>1, <1>4 DEF Grown
    <2>2. \A n \in Messages : msg[n].phase \in {"cached", "received"} => msg'[n].phase \in {"cached", "received"}
      BY <1>4
    <2> QED
      BY <1>0, <2>1, <2>2, QueuesFrame
  <1>11. IdsOK'
    <2>1. \A r \in Callers, d \in Conns :
            pub'[r].pc = "wrap" /\ pub'[r].conn = d <=> pub[r].pc = "wrap" /\ pub[r].conn = d
      BY <1>0, <1>3
    <2> QED
      BY <1>0, <2>1, IdsFrame
  <1>12. TypesOK'
    BY <1>0, <1>3, <1>4, <1>5 DEF TypesOK
  <1>13. QuotaOK => QuotaOK'
    <2>1. \A d \in Conns : Same(msg', msg, d, m)
      BY <1>1, <1>2, <1>4 DEF Same, Holds, Unpaid
    <2> QED
      BY <1>0, <1>3, <1>4, <2>1, PublisherQuota
  <1> QED
    BY <1>8, <1>9, <1>10, <1>11, <1>12, <1>13 DEF IndInv, StepOK

\* Queueing the message keeps the invariant.
LEMMA WaitStep ==
  ASSUME IndInv, NEW p \in Callers, Wait(p)
  PROVE  StepOK
  <1> DEFINE c == pub[p].conn
             m == pub[p].msg
             id == msg[m].id
  <1>0. /\ TypesOK /\ IdsOK /\ WiresOK /\ ConnsOK /\ MsgsOK /\ CallsOK /\ StoreOK /\ QueuesOK
        /\ pub[p].pc = "wait" /\ cur' = cur /\ msg' = msg /\ out' = out /\ sec' = sec
    BY DEF IndInv, Wait, At
  <1>1. /\ c \in Conns /\ c <= cur /\ m \in Messages /\ m # None /\ svc[c] \in Services /\ pub[p] \in Calls
        /\ CallOK(msg, pub[p]) /\ MsgOK(cur, msg[m]) /\ ~msg[m].open
        /\ msg[m].conn = c /\ ConnOK(c, cur, svc[c])
    BY <1>0, CallFacts
  <1>2. msg[m].phase = "cached" /\ id \in Ids
    BY <1>0, <1>1 DEF CallOK, MsgOK, Stored
  <1>3. /\ pub' \in [Callers -> Calls]
        /\ \A r \in Callers \ {p} : pub'[r] = pub[r]
        /\ pub'[p].conn = c /\ pub'[p].msg = m /\ pub'[p].pc = "write"
    BY <1>0, <1>1 DEF Wait, TypesOK, Calls, Goto
  <1> DEFINE q1 == IF QosOf[m] = 1 THEN insert(svc[c].pub1ack, m, id) ELSE svc[c].pub1ack
             q2 == IF QosOf[m] = 1 THEN svc[c].pub2out ELSE insert(svc[c].pub2out, m, id)
  <1>4. /\ q1 \in Seq(Entries(1)) /\ q2 \in Seq(Entries(2))
        /\ QueueOK(msg, c, svc[c].pub1ack) => QueueOK(msg, c, q1)
        /\ QueueOK(msg, c, svc[c].pub2out) => QueueOK(msg, c, q2)
    <2>1. svc[c].pub1ack \in Seq(Entries(1)) /\ svc[c].pub2out \in Seq(Entries(2))
      BY <1>0, <1>1, PacketFacts
    <2>2. CASE QosOf[m] = 1
      <3>1. m \in OfQos(1)
        BY <1>1, <2>2 DEF OfQos
      <3> QED
        BY <1>1, <1>2, <2>1, <2>2, <3>1, QueueInsert
    <2>3. CASE QosOf[m] # 1
      <3>1. m \in OfQos(2)
        BY <1>1, <2>3, Numbers DEF OfQos
      <3> QED
        BY <1>1, <1>2, <2>1, <2>3, <3>1, QueueInsert
    <2> QED
      BY <2>2, <2>3
  <1>5. /\ svc' \in [Conns -> Services]
        /\ \A d \in Conns \ {c} : svc'[d] = svc[d]
        /\ svc'[c].pub1ack = q1 /\ svc'[c].pub2out = q2
        /\ svc'[c].status = svc[c].status /\ svc'[c].db = svc[c].db /\ svc'[c].proc = svc[c].proc
        /\ svc'[c].s2c = svc[c].s2c /\ svc'[c].c2s = svc[c].c2s
        /\ svc'[c].restored = svc[c].restored /\ svc'[c].refused = svc[c].refused
        /\ svc'[c].currQuota = svc[c].currQuota /\ svc'[c].pkid = svc[c].pkid
    <2>1. svc' = IF QosOf[m] = 1 THEN [svc EXCEPT ![c].pub1ack = q1] ELSE [svc EXCEPT ![c].pub2out = q2]
      BY DEF Wait
    <2>2. QosOf[m] = 1 => q2 = svc[c].pub2out
      OBVIOUS
    <2>3. QosOf[m] # 1 => q1 = svc[c].pub1ack
      OBVIOUS
    <2> HIDE DEF q1, q2
    <2>4. CASE QosOf[m] = 1
      <3> DEFINE s == [svc[c] EXCEPT !.pub1ack = q1]
      <3>1. /\ s \in Services /\ s.pub1ack = q1 /\ s.pub2out = svc[c].pub2out
            /\ s.status = svc[c].status /\ s.db = svc[c].db /\ s.proc = svc[c].proc
            /\ s.s2c = svc[c].s2c /\ s.c2s = svc[c].c2s
            /\ s.restored = svc[c].restored /\ s.refused = svc[c].refused
            /\ s.currQuota = svc[c].currQuota /\ s.pkid = svc[c].pkid
        BY <1>1, <1>4 DEF Services
      <3>2. svc' = [svc EXCEPT ![c] = s]
        BY <2>1, <2>4
      <3> HIDE DEF s
      <3> QED
        BY <1>0, <1>1, <2>2, <2>4, <3>1, <3>2 DEF TypesOK
    <2>5. CASE QosOf[m] # 1
      <3> DEFINE s == [svc[c] EXCEPT !.pub2out = q2]
      <3>1. /\ s \in Services /\ s.pub1ack = svc[c].pub1ack /\ s.pub2out = q2
            /\ s.status = svc[c].status /\ s.db = svc[c].db /\ s.proc = svc[c].proc
            /\ s.s2c = svc[c].s2c /\ s.c2s = svc[c].c2s
            /\ s.restored = svc[c].restored /\ s.refused = svc[c].refused
            /\ s.currQuota = svc[c].currQuota /\ s.pkid = svc[c].pkid
        BY <1>1, <1>4 DEF Services
      <3>2. svc' = [svc EXCEPT ![c] = s]
        BY <2>1, <2>5
      <3> HIDE DEF s
      <3> QED
        BY <1>0, <1>1, <2>3, <2>5, <3>1, <3>2 DEF TypesOK
    <2> QED
      BY <2>4, <2>5
  <1> HIDE DEF q1, q2
  <1>6. ConnsOK'
    <2>1. ~(c > cur)
      BY <1>0, <1>1 DEF Conns, TypesOK
    <2>2. ConnOK(c, cur, svc'[c])
      BY <1>1, <1>5, <2>1 DEF ConnOK
    <2> QED
      BY <1>0, <1>1, <1>5, <2>2, ConnsFrame
  <1>7. MsgsOK' /\ CallsOK' /\ WiresOK'
    <2>1. CallOK(msg', pub'[p])
      BY <1>0, <1>1, <1>2, <1>3 DEF CallOK
    <2>2. CallsOK'
      BY <1>0, <1>3, <2>1, CallsFrame
    <2>3. WiresOK'
      BY <1>0, <1>3, <1>5, WiresFrame
    <2> QED
      BY <1>0, <2>2, <2>3 DEF MsgsOK
  <1>8. StoreOK'
    <2>1. Early(msg', msg)
      BY <1>0 DEF Early
    <2>2. \A d \in Conns : /\ svc'[d].db = svc[d].db
                           /\ svc'[d].status = "failed" => svc[d].status = "failed" /\ svc'[d].c2s = svc[d].c2s
      BY <1>5
    <2> QED
      BY <1>0, <2>1, <2>2, StoreFrame
  <1>9. QueuesOK'
    <2> SUFFICES ASSUME NEW d \in Conns, ~svc'[d].restored, Unlike(msg, d)
                 PROVE  QueueOK(msg, d, svc'[d].pub1ack) /\ QueueOK(msg, d, svc'[d].pub2out)
      BY <1>0 DEF QueuesOK
    <2>1. QueueOK(msg, d, svc[d].pub1ack) /\ QueueOK(msg, d, svc[d].pub2out)
      BY <1>0, <1>5 DEF QueuesOK
    <2> QED
      BY <1>4, <1>5, <2>1
  <1>10. IdsOK'
    <2>1. \A r \in Callers, d \in Conns :
            pub'[r].pc = "wrap" /\ pub'[r].conn = d <=> pub[r].pc = "wrap" /\ pub[r].conn = d
      BY <1>0, <1>3
    <2>2. \A d \in Conns : svc'[d].pkid = svc[d].pkid
      BY <1>5
    <2> QED
      BY <1>0, <2>1, <2>2, IdsFrame
  <1>11. TypesOK'
    BY <1>0, <1>3, <1>5 DEF TypesOK
  <1>12. QuotaOK => QuotaOK'
    <2>1. \A d \in Conns : /\ svc'[d].status = svc[d].status /\ svc'[d].proc = svc[d].proc
                           /\ svc'[d].c2s = svc[d].c2s
                           /\ svc'[d].currQuota = svc[d].currQuota
                           /\ svc[d].refused => svc'[d].refused
      BY <1>5
    <2> QED
      BY <1>0, <1>1, <1>3, <2>1, PublisherQuota DEF Same
  <1> QED
    BY <1>6, <1>7, <1>8, <1>9, <1>10, <1>11, <1>12 DEF IndInv, StepOK

\* Writing the message to the connection keeps the invariant.
LEMMA writeMessageStep ==
  ASSUME IndInv, NEW p \in Callers, writeMessage(p)
  PROVE  StepOK
  <1> DEFINE c == pub[p].conn
             m == pub[p].msg
             e == Packet("PUBLISH", msg[m].id, m, 0)
             up == Up(c)
  <1>0. /\ TypesOK /\ IdsOK /\ WiresOK /\ ConnsOK /\ MsgsOK /\ CallsOK /\ StoreOK /\ QueuesOK
        /\ pub[p].pc = "write" /\ cur' = cur /\ out' = out /\ sec' = sec
    BY DEF IndInv, writeMessage, At
  <1>1. /\ c \in Conns /\ c <= cur /\ m \in Messages /\ m # None /\ svc[c] \in Services /\ pub[p] \in Calls
        /\ CallOK(msg, pub[p]) /\ MsgOK(cur, msg[m]) /\ msg[m] \in States /\ ~msg[m].open
        /\ msg[m].conn = c /\ ConnOK(c, cur, svc[c])
    BY <1>0, CallFacts
  <1>2. msg[m].phase = "cached" /\ msg[m].id \in Ids
    BY <1>0, <1>1 DEF CallOK, MsgOK, Stored
  <1>3. e \in ToClient /\ e.type = "PUBLISH" /\ e.id = msg[m].id /\ e.msg = m
    BY <1>1, <1>2 DEF Packet, ToClient
  <1>4. /\ pub' \in [Callers -> Calls]
        /\ \A r \in Callers \ {p} : pub'[r] = pub[r]
        /\ pub'[p] = Idle /\ Idle.pc = "idle" /\ Idle.msg = None /\ Idle.conn = None
    BY <1>0 DEF writeMessage, TypesOK, Calls, Done, Idle
  <1>5. /\ msg' \in [Messages -> States]
        /\ \A n \in Messages \ {m} : msg'[n] = msg[n]
        /\ msg'[m].conn = c /\ msg'[m].id = msg[m].id /\ msg'[m].phase = "cached" /\ msg'[m].open = up
        /\ msg'[m].retained = msg[m].retained
    <2> DEFINE s == [msg[m] EXCEPT !.open = up]
    <2>1. /\ s \in States /\ s.conn = msg[m].conn /\ s.id = msg[m].id /\ s.phase = msg[m].phase
          /\ s.open = up /\ s.retained = msg[m].retained
      BY <1>1 DEF States, Up
    <2>2. msg' = [msg EXCEPT ![m] = s]
      BY DEF writeMessage
    <2> HIDE DEF s
    <2> QED
      BY <1>0, <1>1, <1>2, <2>1, <2>2 DEF TypesOK
  <1> HIDE DEF e
  <1> DEFINE o == IF up THEN Append(svc[c].s2c, e) ELSE svc[c].s2c
  <1>6. /\ svc[c].s2c \in Seq(ToClient) /\ o \in Seq(ToClient)
        /\ up => Added(o, svc[c].s2c, e, Len(svc[c].s2c) + 1)
    BY <1>0, <1>1, <1>3, PacketFacts, Appended
  <1>7. /\ svc' \in [Conns -> Services]
        /\ \A d \in Conns \ {c} : svc'[d] = svc[d]
        /\ svc'[c].s2c = o
        /\ svc'[c].pub1ack = svc[c].pub1ack /\ svc'[c].pub2out = svc[c].pub2out
        /\ svc'[c].status = svc[c].status /\ svc'[c].db = svc[c].db /\ svc'[c].proc = svc[c].proc
        /\ svc'[c].c2s = svc[c].c2s
        /\ svc'[c].restored = svc[c].restored /\ svc'[c].refused = svc[c].refused
        /\ svc'[c].currQuota = svc[c].currQuota /\ svc'[c].pkid = svc[c].pkid
    <2>1. CASE ~up
      <3>1. svc' = svc /\ o = svc[c].s2c
        BY <2>1 DEF writeMessage
      <3> HIDE DEF o
      <3> QED
        BY <1>0, <3>1 DEF TypesOK
    <2>2. CASE up
      <3> DEFINE s == [svc[c] EXCEPT !.s2c = o]
      <3>1. svc' = [svc EXCEPT ![c] = s]
        BY <2>2 DEF writeMessage, e
      <3> HIDE DEF o
      <3>2. /\ s \in Services /\ s.pub1ack = svc[c].pub1ack /\ s.pub2out = svc[c].pub2out
            /\ s.status = svc[c].status /\ s.db = svc[c].db /\ s.proc = svc[c].proc
            /\ s.s2c = o /\ s.c2s = svc[c].c2s
            /\ s.restored = svc[c].restored /\ s.refused = svc[c].refused
            /\ s.currQuota = svc[c].currQuota /\ s.pkid = svc[c].pkid
        BY <1>1, <1>6 DEF Services
      <3> HIDE DEF s
      <3> QED
        BY <1>0, <1>1, <3>1, <3>2 DEF TypesOK
    <2> QED
      BY <2>1, <2>2
  <1>8. ConnsOK'
    <2>1. ~(c > cur)
      BY <1>0, <1>1 DEF Conns, TypesOK
    <2>2. ConnOK(c, cur, svc'[c])
      BY <1>1, <1>7, <2>1 DEF ConnOK
    <2> QED
      BY <1>0, <1>1, <1>7, <2>2, ConnsFrame
  <1>9. MsgsOK' /\ CallsOK'
    <2>1. CallOK(msg', pub'[p])
      BY <1>4 DEF CallOK
    <2>2. CallsOK'
      BY <1>0, <1>4, <1>5, <2>1, CallsFrame
    <2>3. MsgOK(cur, msg'[m])
      BY <1>1, <1>2, <1>5, Numbers DEF MsgOK
    <2>4. MsgsOK'
      BY <1>0, <1>5, <2>3, MsgsFrame
    <2> QED
      BY <2>2, <2>4
  <1>10. WiresOK'
    <2> SUFFICES ASSUME NEW d \in Conns
                 PROVE  /\ Carried(msg', d, svc'[d].s2c, svc'[d].c2s)
                        /\ \A r \in Callers : pub'[r].msg # None => NoPacket(pub'[r].msg, svc'[d].s2c, svc'[d].c2s)
      BY DEF WiresOK
    <2>1. /\ NoPacket(m, svc[d].s2c, svc[d].c2s)
          /\ \A r \in Callers : pub[r].msg # None => NoPacket(pub[r].msg, svc[d].s2c, svc[d].c2s)
      BY <1>0, <1>1 DEF WiresOK
    <2>2. Part(svc[d].s2c, svc[d].s2c, 0) /\ Part(svc[d].c2s, svc[d].c2s, 0)
      BY <1>0, PacketFacts, Parts
    <2>3. /\ \A k \in DOMAIN svc[d].s2c : msg'[svc[d].s2c[k].msg] = msg[svc[d].s2c[k].msg]
          /\ \A k \in DOMAIN svc[d].c2s : msg'[svc[d].c2s[k].msg] = msg[svc[d].c2s[k].msg]
      <3>1. /\ \A k \in DOMAIN svc[d].s2c : svc[d].s2c[k].msg \in Messages \ {m}
            /\ \A k \in DOMAIN svc[d].c2s : svc[d].c2s[k].msg \in Messages \ {m}
        BY <1>0, <2>1, WireMessages DEF NoPacket
      <3> QED
        BY <1>5, <3>1
    <2>4. Carried(msg', d, svc[d].s2c, svc[d].c2s)
      BY <1>0, <2>2, <2>3, PacketFacts, CarriedPart
    <2>5. \A r \in Callers : pub'[r].msg # None =>
             pub'[r].msg # m /\ NoPacket(pub'[r].msg, svc[d].s2c, svc[d].c2s)
      BY <1>0, <1>1, <1>4, <2>1 DEF CallsOK
    <2>6. CASE d # c \/ ~up
      BY <1>7, <2>4, <2>5, <2>6
    <2>7. CASE d = c /\ up
      <3>1. SentOK(msg', c, e)
        BY <1>3, <1>5 DEF SentOK
      <3>2. Added(svc'[c].s2c, svc[c].s2c, e, Len(svc[c].s2c) + 1)
        BY <1>6, <1>7, <2>7
      <3>3. Carried(msg', c, svc'[c].s2c, svc[c].c2s)
        BY <1>3, <2>1, <2>4, <2>7, <3>1, <3>2, CarriedOut
      <3>4. \A r \in Callers : pub'[r].msg # None => NoPacket(pub'[r].msg, svc'[c].s2c, svc[c].c2s)
        BY <1>3, <2>5, <2>7, <3>2, NoPacketAdded
      <3> QED
        BY <1>7, <2>7, <3>3, <3>4
    <2> QED
      BY <2>6, <2>7
  <1>11. StoreOK'
    <2>1. Early(msg', msg)
      BY <1>1, <1>2, <1>5 DEF Early
    <2>2. \A d \in Conns : /\ svc'[d].db = svc[d].db
                           /\ svc'[d].status = "failed" => svc[d].status = "failed" /\ svc'[d].c2s = svc[d].c2s
      BY <1>7
    <2> QED
      BY <1>0, <2>1, <2>2, StoreFrame
  <1>12. QueuesOK'
    <2>1. Grown(msg', msg)
      BY <1>1, <1>5 DEF Grown
    <2>2. \A n \in Messages : msg[n].phase \in {"cached", "received"} => msg'[n].phase \in {"cached", "received"}
      BY <1>5
    <2>3. \A d \in Conns : /\ svc'[d].restored = svc[d].restored
                           /\ svc'[d].pub1ack = svc[d].pub1ack /\ svc'[d].pub2out = svc[d].pub2out
      BY <1>7
    <2> QED
      BY <1>0, <2>1, <2>2, <2>3, QueuesFrame
  <1>13. IdsOK'
    <2>1. \A r \in Callers, d \in Conns :
            pub'[r].pc = "wrap" /\ pub'[r].conn = d <=> pub[r].pc = "wrap" /\ pub[r].conn = d
      BY <1>0, <1>4
    <2>2. \A d \in Conns : svc'[d].pkid = svc[d].pkid
      BY <1>7
    <2> QED
      BY <1>0, <2>1, <2>2, IdsFrame
  <1>14. TypesOK'
    BY <1>0, <1>4, <1>5, <1>7 DEF TypesOK
  <1>15. ASSUME QuotaOK PROVE QuotaOK'
    <2>1. \A d \in Conns, n \in Messages : Same(msg', msg, d, n)
      BY <1>1, <1>2, <1>5 DEF Same, Holds, Unpaid
    <2>2. \A d \in Conns : svc'[d].proc = svc[d].proc /\ svc'[d].c2s = svc[d].c2s
      BY <1>7
    <2>3. \A d \in Conns : Ledger(msg', d, svc'[d]) = Ledger(msg, d, svc[d])
      BY <2>1, <2>2, LedgerSame
    <2>4. ASSUME NEW d \in Conns, svc'[d].status \in {"up", "lost"} PROVE Account(msg', d, svc'[d])
      <3>1. /\ svc'[d].status = svc[d].status /\ svc'[d].currQuota = svc[d].currQuota
            /\ svc'[d].refused = svc[d].refused
        BY <1>7
      <3>2. Account(msg, d, svc[d])
        BY <1>15, <2>4, <3>1 DEF QuotaOK
      <3> QED
        BY <2>3, <3>1, <3>2, AccountSame
    <2>5. ASSUME NEW d \in Conns PROVE Bounded(msg', d)
      <3>1. CASE d = c /\ up
        <4>1. svc[c].status = "up"
          BY <3>1 DEF Up
        <4>2. Account(msg', c, svc'[c])
          BY <1>1, <1>7, <2>4, <4>1
        <4>3. \A n \in Messages : MsgOK(cur, msg'[n])
          BY <1>0, <1>9 DEF MsgsOK
        <4>4. svc'[c].proc \in {"clear", "ack"} => AnswerOK(msg', c, Head(svc'[c].c2s))
          <5> SUFFICES ASSUME svc[c].proc \in {"clear", "ack"} PROVE AnswerOK(msg', c, Head(svc[c].c2s))
            BY <1>7
          <5>1. svc[c].c2s # <<>>
            BY <1>1, <4>1 DEF ConnOK
          <5>2. 1 \in DOMAIN svc[c].c2s /\ Head(svc[c].c2s) = svc[c].c2s[1]
            BY <1>0, <1>1, <5>1, HeadFacts
          <5>3. Carried(msg', c, svc'[c].s2c, svc[c].c2s)
            BY <1>1, <1>7, <1>10 DEF WiresOK
          <5> QED
            BY <5>2, <5>3 DEF Carried
        <4> QED
          BY <3>1, <4>2, <4>3, <4>4, OpenHeld
      <3>2. CASE d # c \/ ~up
        <4>1. Closes(msg', msg, d)
          BY <1>1, <1>5, <3>2 DEF Closes, Open, Unpaid
        <4> QED
          BY <1>15, <4>1, OpenFewer DEF QuotaOK
      <3> QED
        BY <3>1, <3>2
    <2>6. \A r \in Callers, d \in Conns :
            pub'[r].pc \in {"over", "zero"} /\ pub'[r].conn = d => svc'[d].refused
      BY <1>4, <1>7, <1>15 DEF QuotaOK
    <2> QED
      BY <2>4, <2>5, <2>6 DEF QuotaOK
  <1> QED
    BY <1>8, <1>9, <1>10, <1>11, <1>12, <1>13, <1>14, <1>15 DEF IndInv, StepOK

\* A publisher that finds the subscription keeps the invariant.
LEMMA lookSendStep ==
  ASSUME IndInv, NEW p \in Callers, NEW c \in Conns, lookSend(p, c)
  PROVE  StepOK
  <1>0. /\ TypesOK /\ IdsOK /\ WiresOK /\ ConnsOK /\ MsgsOK /\ CallsOK /\ StoreOK /\ QueuesOK
        /\ pub[p].pc = "idle" /\ svc[c].status \in {"up", "lost"}
        /\ cur' = cur /\ svc' = svc /\ out' = out /\ sec' = sec
    BY DEF IndInv, lookSend, At, Running
  <1>1. PICK m \in Messages : /\ msg[m] = Fresh
                              /\ msg' = [msg EXCEPT ![m].conn = c]
                              /\ pub' = [pub EXCEPT ![p] = [pc |-> "quota", conn |-> c, msg |-> m]]
    BY DEF lookSend, IsNext
  <1>2. /\ msg[m].conn = None /\ msg[m].id = None /\ msg[m].phase = "new" /\ ~msg[m].open
        /\ ~msg[m].retained /\ msg[m] \in States /\ m # None /\ c # None
    <2>1. Fresh.conn = None /\ Fresh.id = None /\ Fresh.phase = "new" /\ ~Fresh.open /\ ~Fresh.retained
      BY DEF Fresh
    <2>2. msg[m] \in States
      BY <1>0 DEF TypesOK
    <2> QED
      BY <1>1, <2>1, <2>2, Numbers
  <1>3. /\ msg' \in [Messages -> States]
        /\ \A n \in Messages \ {m} : msg'[n] = msg[n]
        /\ msg'[m].conn = c /\ msg'[m].id = None /\ msg'[m].phase = "new" /\ ~msg'[m].open
        /\ ~msg'[m].retained
    <2> DEFINE s == [msg[m] EXCEPT !.conn = c]
    <2>1. s \in States /\ s.conn = c /\ s.id = None /\ s.phase = "new" /\ ~s.open /\ ~s.retained
      BY <1>2 DEF States
    <2>2. msg' = [msg EXCEPT ![m] = s]
      BY <1>1
    <2> HIDE DEF s
    <2> QED
      BY <1>0, <2>1, <2>2 DEF TypesOK
  <1>4. /\ pub' \in [Callers -> Calls]
        /\ \A r \in Callers \ {p} : pub'[r] = pub[r]
        /\ pub'[p].pc = "quota" /\ pub'[p].conn = c /\ pub'[p].msg = m
    BY <1>0, <1>1 DEF TypesOK, Calls
  <1>5. \A r \in Callers : pub[r].msg # m
    BY <1>0, <1>2, Numbers DEF CallsOK, CallOK, Idle
  <1>6. MsgsOK'
    <2>1. c <= cur
      BY <1>0 DEF ConnsOK, ConnOK, NoService, TypesOK, Conns
    <2>2. MsgOK(cur, msg'[m])
      BY <1>2, <1>3, <2>1 DEF MsgOK, Stored
    <2> QED
      BY <1>0, <1>3, <2>2, MsgsFrame
  <1>7. CallsOK'
    <2>1. ASSUME NEW r \in Callers PROVE CallOK(msg', pub'[r])
      <3>1. CASE r = p
        BY <1>3, <1>4, <3>1 DEF CallOK
      <3>2. CASE r # p
        <4>1. CallOK(msg, pub[r]) /\ pub'[r] = pub[r] /\ pub[r].msg # m
          BY <1>0, <1>4, <1>5, <3>2 DEF CallsOK
        <4> QED
          BY <1>3, <4>1 DEF CallOK
      <3> QED
        BY <3>1, <3>2
    <2>2. ASSUME NEW q \in Callers, NEW r \in Callers, q # r, pub'[q].msg # None
          PROVE  pub'[q].msg # pub'[r].msg
      BY <1>0, <1>4, <1>5, <2>2 DEF CallsOK
    <2> QED
      BY <2>1, <2>2 DEF CallsOK
  <1>8. WiresOK'
    <2> SUFFICES ASSUME NEW d \in Conns
                 PROVE  /\ Carried(msg', d, svc[d].s2c, svc[d].c2s)
                        /\ \A r \in Callers : pub'[r].msg # None => NoPacket(pub'[r].msg, svc[d].s2c, svc[d].c2s)
      BY <1>0 DEF WiresOK
    <2>1. NoPacket(m, svc[d].s2c, svc[d].c2s)
      <3>1. /\ \A k \in DOMAIN svc[d].s2c : msg[svc[d].s2c[k].msg].conn = d
            /\ \A k \in DOMAIN svc[d].c2s : msg[svc[d].c2s[k].msg].conn = d
        BY <1>0, PacketFacts DEF SentOK, AnswerOK
      <3> QED
        BY <1>2, <3>1, Numbers DEF NoPacket
    <2>2. Part(svc[d].s2c, svc[d].s2c, 0) /\ Part(svc[d].c2s, svc[d].c2s, 0)
      BY <1>0, PacketFacts, Parts
    <2>3. /\ \A k \in DOMAIN svc[d].s2c : msg'[svc[d].s2c[k].msg] = msg[svc[d].s2c[k].msg]
          /\ \A k \in DOMAIN svc[d].c2s : msg'[svc[d].c2s[k].msg] = msg[svc[d].c2s[k].msg]
      <3>1. /\ \A k \in DOMAIN svc[d].s2c : svc[d].s2c[k].msg \in Messages \ {m}
            /\ \A k \in DOMAIN svc[d].c2s : svc[d].c2s[k].msg \in Messages \ {m}
        BY <1>0, <2>1, WireMessages DEF NoPacket
      <3> QED
        BY <1>3, <3>1
    <2>4. Carried(msg', d, svc[d].s2c, svc[d].c2s)
      <3>1. Carried(msg, d, svc[d].s2c, svc[d].c2s)
        BY <1>0 DEF WiresOK
      <3> QED
        BY <2>2, <2>3, <3>1, CarriedPart
    <2>5. \A r \in Callers : pub'[r].msg # None => NoPacket(pub'[r].msg, svc[d].s2c, svc[d].c2s)
      BY <1>0, <1>4, <2>1 DEF WiresOK
    <2> QED
      BY <2>4, <2>5
  <1>9. StoreOK'
    <2>1. Early(msg', msg)
      BY <1>2, <1>3 DEF Early, Stored
    <2> QED
      BY <1>0, <2>1, StoreFrame
  <1>10. QueuesOK'
    <2>1. Grown(msg', msg)
      BY <1>2, <1>3 DEF Grown
    <2>2. \A n \in Messages : msg[n].phase \in {"cached", "received"} => msg'[n].phase \in {"cached", "received"}
      BY <1>2, <1>3
    <2> QED
      BY <1>0, <2>1, <2>2, QueuesFrame
  <1>11. IdsOK'
    <2>1. \A r \in Callers, d \in Conns :
            pub'[r].pc = "wrap" /\ pub'[r].conn = d <=> pub[r].pc = "wrap" /\ pub[r].conn = d
      BY <1>0, <1>4
    <2> QED
      BY <1>0, <2>1, IdsFrame
  <1>12. ConnsOK' /\ TypesOK'
    BY <1>0, <1>3, <1>4 DEF TypesOK, ConnsOK
  <1>13. QuotaOK => QuotaOK'
    <2>1. \A d \in Conns : Same(msg', msg, d, m)
      BY <1>2, <1>3 DEF Same, Holds, Unpaid
    <2> QED
      BY <1>0, <1>3, <1>4, <2>1, PublisherQuota
  <1> QED
    BY <1>6, <1>7, <1>8, <1>9, <1>10, <1>11, <1>12, <1>13 DEF IndInv, StepOK

-----------------------------------------------------------------------------
(* The steps of the client and of a connection.                            *)

\* What the steps of connection c that change no message have in common: o and i are
\* what is left of the packets.
LEMMA ServiceFrame ==
  ASSUME IndInv, NEW c \in Conns, cur' = cur, pub' = pub, out' = out, sec' = sec, msg' = msg,
         svc' \in [Conns -> Services], \A d \in Conns \ {c} : svc'[d] = svc[d],
         ConnOK(c, cur, svc'[c]),
         Part(svc'[c].s2c, svc[c].s2c, 0), Part(svc'[c].c2s, svc[c].c2s, 0),
         svc'[c].pub1ack = svc[c].pub1ack, svc'[c].pub2out = svc[c].pub2out,
         svc'[c].db = svc[c].db, svc'[c].restored = svc[c].restored, svc'[c].pkid = svc[c].pkid,
         svc'[c].status = "failed" => \/ svc[c].status = "failed" /\ svc'[c].c2s = svc[c].c2s
                                      \/ Again(svc, msg, Head(svc'[c].c2s).msg)
  PROVE  IndInv'
  <1>0. TypesOK /\ IdsOK /\ WiresOK /\ ConnsOK /\ MsgsOK /\ CallsOK /\ StoreOK /\ QueuesOK
    BY DEF IndInv
  <1>1. TypesOK' /\ MsgsOK' /\ CallsOK'
    BY <1>0 DEF TypesOK, MsgsOK, CallsOK
  <1>2. ConnsOK'
    BY <1>0, ConnsFrame
  <1>3. WiresOK'
    <2> SUFFICES ASSUME NEW d \in Conns
                 PROVE  /\ Carried(msg, d, svc'[d].s2c, svc'[d].c2s)
                        /\ \A r \in Callers : pub[r].msg # None => NoPacket(pub[r].msg, svc'[d].s2c, svc'[d].c2s)
      BY DEF WiresOK
    <2>1. CASE d # c
      BY <1>0, <2>1 DEF WiresOK
    <2>2. CASE d = c
      <3>1. Carried(msg, c, svc'[c].s2c, svc'[c].c2s)
        BY <1>0, PacketFacts, CarriedPart
      <3>2. \A r \in Callers : pub[r].msg # None => NoPacket(pub[r].msg, svc'[c].s2c, svc'[c].c2s)
        BY <1>0, NoPacketPart DEF WiresOK
      <3> QED
        BY <2>2, <3>1, <3>2
    <2> QED
      BY <2>1, <2>2
  <1>4. IdsOK'
    BY <1>0, IdsFrame
  <1>5. StoreOK'
    <2>1. Early(msg', msg) /\ SameDb(svc', svc, msg)
      BY <1>0 DEF Early, SameDb, TypesOK, States
    <2>2. \A m \in Messages : RecordOK(svc, msg, out, sec, m)
      BY <1>0 DEF StoreOK
    <2>3. Later(svc', msg, svc, msg) /\ \A m \in Messages : RecordOK(svc', msg, out, sec, m)
      BY <2>1, <2>2, RecordsFrame
    <2>4. \A i \in sec : \E n \in Messages : /\ Kept(svc', msg, n) /\ msg[n].id = i
                                             /\ msg[n].phase \in {"received", "done"}
      BY <1>0, <2>3 DEF StoreOK, Later
    <2>5. ASSUME NEW d \in Conns, svc'[d].status = "failed"
          PROVE  Again(svc', msg, Head(svc'[d].c2s).msg)
      <3>1. Again(svc, msg, Head(svc'[d].c2s).msg)
        BY <1>0, <2>5 DEF StoreOK
      <3> QED
        BY <2>3, <3>1 DEF Again, Later
    <2> QED
      BY <2>3, <2>4, <2>5 DEF StoreOK
  <1>6. QueuesOK'
    <2>1. Grown(msg', msg)
      BY DEF Grown
    <2> QED
      BY <1>0, <2>1, QueuesFrame
  <1> QED
    BY <1>1, <1>2, <1>3, <1>4, <1>5, <1>6 DEF IndInv

\* A connection that has begun, and one that is served.
LEMMA ConnFacts ==
  ASSUME IndInv, NEW c \in Conns
  PROVE  /\ svc[c] \in Services /\ ConnOK(c, cur, svc[c]) /\ DOMAIN svc = Conns
         /\ svc[c].status \in {"up", "lost"} => ~(c > cur)
         /\ Part(svc[c].s2c, svc[c].s2c, 0) /\ Part(svc[c].c2s, svc[c].c2s, 0)
         /\ Part(<<>>, svc[c].s2c, 0) /\ Part(<<>>, svc[c].c2s, 0)
         /\ <<>> \in Seq(ToClient) /\ <<>> \in Seq(FromClient)
  <1>1. TypesOK /\ WiresOK /\ ConnsOK
    BY DEF IndInv
  <1>2. svc[c].s2c \in Seq(ToClient) /\ svc[c].c2s \in Seq(FromClient) /\ svc[c] \in Services
    BY <1>1, PacketFacts
  <1>3. ConnOK(c, cur, svc[c]) /\ DOMAIN svc = Conns
    BY <1>1 DEF ConnsOK, TypesOK
  <1>4. svc[c].status \in {"up", "lost"} => ~(c > cur)
    BY <1>3 DEF ConnOK, NoService
  <1>5. <<>> \in Seq(ToClient) /\ <<>> \in Seq(FromClient)
    BY EmptySeq
  <1> QED
    BY <1>2, <1>3, <1>4, <1>5, Parts

\* The connection breaks.
LEMMA LoseConnectionStep ==
  ASSUME IndInv, LoseConnection
  PROVE  StepOK
  <1> DEFINE c == cur
  <1>0. /\ c \in Conns /\ svc[c].status = "up"
        /\ cur' = cur /\ pub' = pub /\ out' = out /\ sec' = sec /\ msg' = msg
    BY DEF LoseConnection, ClientUp, Up, IndInv, TypesOK, Conns
  <1>1. PICK n \in 0..Len(svc[c].c2s) :
          /\ svc[c].proc \in {"clear", "ack"} => n > 0
          /\ svc' = [svc EXCEPT ![c].status = "lost", ![c].c2s = SubSeq(@, 1, n), ![c].s2c = <<>>]
    BY DEF LoseConnection
  <1>2. /\ svc[c] \in Services /\ ConnOK(c, cur, svc[c]) /\ DOMAIN svc = Conns
        /\ ~(c > cur)
        /\ Part(<<>>, svc[c].s2c, 0) /\ <<>> \in Seq(ToClient)
    BY <1>0, ConnFacts
  <1> DEFINE i == SubSeq(svc[c].c2s, 1, n)
  <1>3. svc[c].c2s \in Seq(FromClient) /\ i \in Seq(FromClient) /\ Part(i, svc[c].c2s, 0)
    <2>1. svc[c].c2s \in Seq(FromClient)
      BY <1>2 DEF Services
    <2> QED
      BY <2>1, Parts
  <1>4. svc[c].proc \in {"clear", "ack"} => i # <<>> /\ Head(i) = Head(svc[c].c2s)
    <2>1. svc[c].proc \in {"clear", "ack"} => n \in 1..Len(svc[c].c2s)
      BY <1>1
    <2> QED
      BY <1>3, <2>1, Prefix
  <1> DEFINE s == [svc[c] EXCEPT !.status = "lost", !.c2s = i, !.s2c = <<>>]
  <1>5. svc' = [svc EXCEPT ![c] = s]
    BY <1>1
  <1> HIDE DEF i
  <1>6. /\ s \in Services /\ s.status = "lost" /\ s.c2s = i /\ s.s2c = <<>>
        /\ s.pub1ack = svc[c].pub1ack /\ s.pub2out = svc[c].pub2out
        /\ s.db = svc[c].db /\ s.proc = svc[c].proc
        /\ s.restored = svc[c].restored /\ s.refused = svc[c].refused
        /\ s.currQuota = svc[c].currQuota /\ s.pkid = svc[c].pkid
    BY <1>2, <1>3 DEF Services
  <1> HIDE DEF s
  <1>7. svc' \in [Conns -> Services] /\ svc'[c] = s /\ \A d \in Conns \ {c} : svc'[d] = svc[d]
    BY <1>0, <1>5, <1>6 DEF IndInv, TypesOK
  <1>8. IndInv'
    <2>1. ConnOK(c, cur, svc'[c])
      BY <1>2, <1>4, <1>6, <1>7 DEF ConnOK
    <2> QED
      BY <1>0, <1>2, <1>3, <1>6, <1>7, <2>1, ServiceFrame
  <1>9. QuotaOK => QuotaOK'
    <2>1. Ledger(msg', c, svc'[c]) = Ledger(msg, c, svc[c])
      BY <1>0, <1>4, <1>6, <1>7, LedgerHead
    <2>2. \A d \in Conns : /\ Ledger(msg', d, svc'[d]) = Ledger(msg, d, svc[d])
                           /\ svc'[d].currQuota = svc[d].currQuota
                           /\ svc'[d].status \in {"up", "lost"} => svc[d].status \in {"up", "lost"}
      BY <1>0, <1>6, <1>7, <2>1
    <2>3. \A d \in Conns : Closes(msg', msg, d) /\ (svc[d].refused => svc'[d].refused)
      BY <1>0, <1>6, <1>7 DEF Closes
    <2> QED
      BY <1>0, <2>2, <2>3, QuotaFrame
  <1> QED
    BY <1>8, <1>9 DEF StepOK

\* The processor looks at the signal before the next packet.
LEMMA streamControllerStep ==
  ASSUME IndInv, NEW c \in Conns, streamController(c)
  PROVE  StepOK
  <1>0. /\ svc[c].status \in {"up", "lost"} /\ svc[c].proc = "top"
        /\ cur' = cur /\ pub' = pub /\ out' = out /\ sec' = sec /\ msg' = msg
    BY DEF streamController, Running
  <1>1. /\ svc[c] \in Services /\ ConnOK(c, cur, svc[c]) /\ DOMAIN svc = Conns /\ ~(c > cur)
        /\ Part(svc[c].s2c, svc[c].s2c, 0) /\ Part(svc[c].c2s, svc[c].c2s, 0)
        /\ Part(<<>>, svc[c].s2c, 0) /\ Part(<<>>, svc[c].c2s, 0)
        /\ <<>> \in Seq(ToClient) /\ <<>> \in Seq(FromClient)
    BY <1>0, ConnFacts
  <1> DEFINE g == [svc[c] EXCEPT !.status = "gone", !.c2s = <<>>, !.s2c = <<>>]
             k == [svc[c] EXCEPT !.proc = "peek"]
  <1>2. svc' = [svc EXCEPT ![c] = g] \/ svc' = [svc EXCEPT ![c] = k]
    BY DEF streamController
  <1>3. /\ g \in Services /\ g.status = "gone" /\ g.c2s = <<>> /\ g.s2c = <<>>
        /\ g.pub1ack = svc[c].pub1ack /\ g.pub2out = svc[c].pub2out
        /\ g.db = svc[c].db /\ g.proc = svc[c].proc
        /\ g.restored = svc[c].restored /\ g.refused = svc[c].refused
        /\ g.currQuota = svc[c].currQuota /\ g.pkid = svc[c].pkid
    BY <1>1 DEF Services
  <1>4. /\ k \in Services /\ k.status = svc[c].status /\ k.c2s = svc[c].c2s /\ k.s2c = svc[c].s2c
        /\ k.pub1ack = svc[c].pub1ack /\ k.pub2out = svc[c].pub2out
        /\ k.db = svc[c].db /\ k.proc = "peek"
        /\ k.restored = svc[c].restored /\ k.refused = svc[c].refused
        /\ k.currQuota = svc[c].currQuota /\ k.pkid = svc[c].pkid
    BY <1>1 DEF Services
  <1> HIDE DEF g, k
  <1>5. /\ svc' \in [Conns -> Services] /\ \A d \in Conns \ {c} : svc'[d] = svc[d]
        /\ svc'[c] = g \/ svc'[c] = k
    BY <1>2, <1>3, <1>4 DEF IndInv, TypesOK
  <1>6. IndInv'
    <2>1. ConnOK(c, cur, svc'[c])
      BY <1>0, <1>1, <1>3, <1>4, <1>5 DEF ConnOK
    <2>2. svc'[c].status # "failed"
      BY <1>0, <1>3, <1>4, <1>5
    <2>3. Part(svc'[c].s2c, svc[c].s2c, 0) /\ Part(svc'[c].c2s, svc[c].c2s, 0)
      BY <1>1, <1>3, <1>4, <1>5
    <2>4. /\ svc'[c].pub1ack = svc[c].pub1ack /\ svc'[c].pub2out = svc[c].pub2out
          /\ svc'[c].db = svc[c].db /\ svc'[c].restored = svc[c].restored /\ svc'[c].pkid = svc[c].pkid
      BY <1>3, <1>4, <1>5
    <2> QED
      BY <1>0, <1>5, <2>1, <2>2, <2>3, <2>4, ServiceFrame
  <1>7. QuotaOK => QuotaOK'
    <2>1. svc'[c] = k => Ledger(msg, c, svc'[c]) = Ledger(msg, c, svc[c])
      BY <1>0, <1>4, LedgerHead
    <2>2. \A d \in Conns : svc'[d].status \in {"up", "lost"} =>
                           /\ svc[d].status \in {"up", "lost"}
                           /\ Ledger(msg', d, svc'[d]) = Ledger(msg, d, svc[d])
                           /\ svc'[d].currQuota = svc[d].currQuota
      BY <1>0, <1>3, <1>4, <1>5, <2>1
    <2>3. \A d \in Conns : Closes(msg', msg, d) /\ (svc[d].refused => svc'[d].refused)
      BY <1>0, <1>3, <1>4, <1>5 DEF Closes
    <2> QED
      BY <1>0, <2>2, <2>3, QuotaFrame
  <1> QED
    BY <1>6, <1>7 DEF StepOK

\* processSubscribe returns.
LEMMA processSubscribeStep ==
  ASSUME IndInv, NEW c \in Conns, processSubscribe(c)
  PROVE  StepOK
  <1> DEFINE s == [svc[c] EXCEPT !.proc = "top"]
  <1>0. /\ svc[c].proc = "subscribe" /\ svc' = [svc EXCEPT ![c] = s]
        /\ cur' = cur /\ pub' = pub /\ out' = out /\ sec' = sec /\ msg' = msg
    BY DEF processSubscribe
  <1>1. /\ svc[c] \in Services /\ ConnOK(c, cur, svc[c]) /\ DOMAIN svc = Conns
        /\ Part(svc[c].s2c, svc[c].s2c, 0) /\ Part(svc[c].c2s, svc[c].c2s, 0)
    BY ConnFacts
  <1>2. ~(c > cur)
    BY <1>0, <1>1 DEF ConnOK, NoService
  <1>3. /\ s \in Services /\ s.status = svc[c].status /\ s.c2s = svc[c].c2s /\ s.s2c = svc[c].s2c
        /\ s.pub1ack = svc[c].pub1ack /\ s.pub2out = svc[c].pub2out
        /\ s.db = svc[c].db /\ s.proc = "top"
        /\ s.restored = svc[c].restored /\ s.refused = svc[c].refused
        /\ s.currQuota = svc[c].currQuota /\ s.pkid = svc[c].pkid
    BY <1>1 DEF Services
  <1> HIDE DEF s
  <1>4. svc' \in [Conns -> Services] /\ svc'[c] = s /\ \A d \in Conns \ {c} : svc'[d] = svc[d]
    BY <1>0, <1>3 DEF IndInv, TypesOK
  <1>5. IndInv'
    <2>1. ConnOK(c, cur, svc'[c])
      BY <1>1, <1>2, <1>3, <1>4 DEF ConnOK
    <2>2. svc'[c].status = "failed" => svc[c].status = "failed" /\ svc'[c].c2s = svc[c].c2s
      BY <1>3, <1>4
    <2> QED
      BY <1>0, <1>1, <1>3, <1>4, <2>1, <2>2, ServiceFrame
  <1>6. QuotaOK => QuotaOK'
    <2>1. Ledger(msg', c, svc'[c]) = Ledger(msg, c, svc[c])
      BY <1>0, <1>3, <1>4, LedgerHead
    <2>2. \A d \in Conns : /\ Ledger(msg', d, svc'[d]) = Ledger(msg, d, svc[d])
                           /\ svc'[d].currQuota = svc[d].currQuota
                           /\ svc'[d].status \in {"up", "lost"} => svc[d].status \in {"up", "lost"}
      BY <1>0, <1>3, <1>4, <2>1
    <2>3. \A d \in Conns : Closes(msg', msg, d) /\ (svc[d].refused => svc'[d].refused)
      BY <1>0, <1>3, <1>4 DEF Closes
    <2> QED
      BY <1>0, <2>2, <2>3, QuotaFrame
  <1> QED
    BY <1>5, <1>6 DEF StepOK

\* A retained message that the processor begins to send keeps the invariant: it takes no
\* unit.
LEMMA SendRetainedStep ==
  ASSUME IndInv, NEW c \in Conns, SendRetained(c)
  PROVE  StepOK
  <1> DEFINE s == [svc[c] EXCEPT !.proc = "subscribe"]
  <1>0. /\ TypesOK /\ IdsOK /\ WiresOK /\ ConnsOK /\ MsgsOK /\ CallsOK /\ StoreOK /\ QueuesOK
        /\ pub[c].pc = "idle" /\ svc[c].status \in {"up", "lost"} /\ svc[c].proc \in {"peek", "subscribe"}
        /\ cur' = cur /\ out' = out /\ sec' = sec /\ svc' = [svc EXCEPT ![c] = s] /\ c \in Callers
    BY Numbers DEF IndInv, SendRetained, At, Running
  <1>1. PICK m \in DOMAIN RetainedId :
          /\ msg[m] = Fresh
          /\ msg' = [msg EXCEPT ![m].conn = c, ![m].id = RetainedId[m], ![m].retained = TRUE]
          /\ pub' = [pub EXCEPT ![c] = [pc |-> "cache", conn |-> c, msg |-> m]]
    BY DEF SendRetained, IsNext
  <1>2. m \in Messages /\ RetainedId[m] \in Ids
    BY OutFlowAssumption DEF Ids
  <1>3. /\ msg[m].conn = None /\ msg[m].id = None /\ msg[m].phase = "new" /\ ~msg[m].open
        /\ ~msg[m].retained /\ msg[m] \in States /\ m # None /\ c # None
    <2>1. Fresh.conn = None /\ Fresh.id = None /\ Fresh.phase = "new" /\ ~Fresh.open /\ ~Fresh.retained
      BY DEF Fresh
    <2>2. msg[m] \in States
      BY <1>0, <1>2 DEF TypesOK
    <2> QED
      BY <1>1, <1>2, <2>1, <2>2, Numbers
  <1>4. /\ msg' \in [Messages -> States]
        /\ \A n \in Messages \ {m} : msg'[n] = msg[n]
        /\ msg'[m].conn = c /\ msg'[m].id \in Ids /\ msg'[m].phase = "new" /\ ~msg'[m].open
        /\ msg'[m].retained
    <2> DEFINE t == [msg[m] EXCEPT !.conn = c, !.id = RetainedId[m], !.retained = TRUE]
    <2>1. t \in States /\ t.conn = c /\ t.id \in Ids /\ t.phase = "new" /\ ~t.open /\ t.retained
      BY <1>2, <1>3 DEF States
    <2>2. msg' = [msg EXCEPT ![m] = t]
      BY <1>1
    <2> HIDE DEF t
    <2> QED
      BY <1>0, <1>2, <2>1, <2>2 DEF TypesOK
  <1>5. /\ pub' \in [Callers -> Calls]
        /\ \A r \in Callers \ {c} : pub'[r] = pub[r]
        /\ pub'[c].pc = "cache" /\ pub'[c].conn = c /\ pub'[c].msg = m
    BY <1>0, <1>1, <1>2 DEF TypesOK, Calls
  <1>6. /\ svc[c] \in Services /\ ConnOK(c, cur, svc[c]) /\ ~(c > cur) /\ c <= cur
        /\ s \in Services /\ s.status = svc[c].status /\ s.c2s = svc[c].c2s /\ s.s2c = svc[c].s2c
        /\ s.pub1ack = svc[c].pub1ack /\ s.pub2out = svc[c].pub2out
        /\ s.db = svc[c].db /\ s.proc = "subscribe"
        /\ s.restored = svc[c].restored /\ s.refused = svc[c].refused
        /\ s.currQuota = svc[c].currQuota /\ s.pkid = svc[c].pkid
    <2>1. svc[c] \in Services /\ ConnOK(c, cur, svc[c]) /\ ~(c > cur)
      BY <1>0, ConnFacts
    <2>2. c <= cur
      BY <1>0, <2>1 DEF TypesOK, Conns
    <2> QED
      BY <2>1, <2>2 DEF Services
  <1> HIDE DEF s
  <1>7. svc' \in [Conns -> Services] /\ svc'[c] = s /\ \A d \in Conns \ {c} : svc'[d] = svc[d]
    BY <1>0, <1>6 DEF TypesOK
  <1>8. \A d \in Conns : /\ svc'[d].s2c = svc[d].s2c /\ svc'[d].c2s = svc[d].c2s
                         /\ svc'[d].pub1ack = svc[d].pub1ack /\ svc'[d].pub2out = svc[d].pub2out
                         /\ svc'[d].status = svc[d].status /\ svc'[d].db = svc[d].db
                         /\ svc'[d].restored = svc[d].restored /\ svc'[d].refused = svc[d].refused
                         /\ svc'[d].currQuota = svc[d].currQuota /\ svc'[d].pkid = svc[d].pkid
    BY <1>6, <1>7
  <1>9. \A r \in Callers : pub[r].msg # m
    BY <1>0, <1>3, Numbers DEF CallsOK, CallOK, Idle
  <1>10. TypesOK' /\ ConnsOK'
    <2>1. ConnOK(c, cur, svc'[c])
      BY <1>6, <1>7 DEF ConnOK
    <2>2. ConnsOK'
      BY <1>0, <1>7, <2>1, ConnsFrame
    <2> QED
      BY <1>0, <1>4, <1>5, <1>7, <2>2 DEF TypesOK
  <1>11. MsgsOK'
    <2>1. MsgOK(cur, msg'[m])
      BY <1>3, <1>4, <1>6 DEF MsgOK, Stored
    <2> QED
      BY <1>0, <1>4, <2>1, MsgsFrame
  <1>12. CallsOK'
    <2>1. ASSUME NEW r \in Callers PROVE CallOK(msg', pub'[r])
      <3>1. CASE r = c
        BY <1>2, <1>4, <1>5, <3>1 DEF CallOK
      <3>2. CASE r # c
        <4>1. CallOK(msg, pub[r]) /\ pub'[r] = pub[r] /\ pub[r].msg # m
          BY <1>0, <1>5, <1>9, <3>2 DEF CallsOK
        <4> QED
          BY <1>4, <4>1 DEF CallOK
      <3> QED
        BY <3>1, <3>2
    <2>2. ASSUME NEW q \in Callers, NEW r \in Callers, q # r, pub'[q].msg # None
          PROVE  pub'[q].msg # pub'[r].msg
      BY <1>0, <1>5, <1>9, <2>2 DEF CallsOK
    <2> QED
      BY <2>1, <2>2 DEF CallsOK
  <1>13. WiresOK'
    <2> SUFFICES ASSUME NEW d \in Conns
                 PROVE  /\ Carried(msg', d, svc[d].s2c, svc[d].c2s)
                        /\ \A r \in Callers : pub'[r].msg # None => NoPacket(pub'[r].msg, svc[d].s2c, svc[d].c2s)
      BY <1>8 DEF WiresOK
    <2>1. NoPacket(m, svc[d].s2c, svc[d].c2s)
      BY <1>0, <1>3, Numbers, WireMessages DEF NoPacket
    <2>2. Part(svc[d].s2c, svc[d].s2c, 0) /\ Part(svc[d].c2s, svc[d].c2s, 0)
      BY <1>0, PacketFacts, Parts
    <2>3. /\ \A k \in DOMAIN svc[d].s2c : msg'[svc[d].s2c[k].msg] = msg[svc[d].s2c[k].msg]
          /\ \A k \in DOMAIN svc[d].c2s : msg'[svc[d].c2s[k].msg] = msg[svc[d].c2s[k].msg]
      <3>1. /\ \A k \in DOMAIN svc[d].s2c : svc[d].s2c[k].msg \in Messages \ {m}
            /\ \A k \in DOMAIN svc[d].c2s : svc[d].c2s[k].msg \in Messages \ {m}
        BY <1>0, <2>1, WireMessages DEF NoPacket
      <3> QED
        BY <1>4, <3>1
    <2>4. Carried(msg', d, svc[d].s2c, svc[d].c2s)
      <3>1. Carried(msg, d, svc[d].s2c, svc[d].c2s)
        BY <1>0 DEF WiresOK
      <3> QED
        BY <2>2, <2>3, <3>1, CarriedPart
    <2>5. \A r \in Callers : pub'[r].msg # None => NoPacket(pub'[r].msg, svc[d].s2c, svc[d].c2s)
      BY <1>0, <1>5, <2>1 DEF WiresOK
    <2> QED
      BY <2>4, <2>5
  <1>14. StoreOK'
    <2>1. Early(msg', msg)
      BY <1>3, <1>4 DEF Early, Stored
    <2>2. \A d \in Conns : /\ svc'[d].db = svc[d].db
                           /\ svc'[d].status = "failed" => svc[d].status = "failed" /\ svc'[d].c2s = svc[d].c2s
      BY <1>8
    <2> QED
      BY <1>0, <2>1, <2>2, StoreFrame
  <1>15. QueuesOK'
    <2>1. Grown(msg', msg)
      BY <1>3, <1>4 DEF Grown
    <2>2. \A n \in Messages : msg[n].phase \in {"cached", "received"} => msg'[n].phase \in {"cached", "received"}
      BY <1>3, <1>4
    <2> QED
      BY <1>0, <1>8, <2>1, <2>2, QueuesFrame
  <1>16. IdsOK'
    <2>1. \A r \in Callers, d \in Conns :
            pub'[r].pc = "wrap" /\ pub'[r].conn = d <=> pub[r].pc = "wrap" /\ pub[r].conn = d
      BY <1>0, <1>5
    <2>2. \A d \in Conns : svc'[d].pkid = svc[d].pkid
      BY <1>8
    <2> QED
      BY <1>0, <2>1, <2>2, IdsFrame
  <1>17. QuotaOK => QuotaOK'
    <2>1. \A d \in Conns : \A n : Acking(svc'[d], n) <=> Acking(svc[d], n)
      BY <1>0, <1>6, <1>7 DEF Acking
    <2>2. ~Acking(svc[c], m)
      BY <1>0 DEF Acking
    <2>3. \A d \in Conns : Held(msg', d, svc'[d]) = Held(msg, d, svc[d])
      BY <1>2, <1>3, <1>4, <2>1 DEF Held, Holds
    <2>4. \A d \in Conns : Back(msg', d, svc'[d]) = Back(msg, d, svc[d])
      <3>1. \A d \in Conns, n \in Messages : n \in Back(msg', d, svc'[d]) <=> n \in Back(msg, d, svc[d])
        BY <1>2, <1>3, <1>4, <2>1, <2>2 DEF Back, Unpaid
      <3>2. \A d \in Conns : Back(msg', d, svc'[d]) \subseteq Messages /\ Back(msg, d, svc[d]) \subseteq Messages
        BY DEF Back, Unpaid
      <3> QED
        BY <3>1, <3>2
    <2>5. \A d \in Conns : /\ Ledger(msg', d, svc'[d]) = Ledger(msg, d, svc[d])
                           /\ svc'[d].currQuota = svc[d].currQuota
                           /\ svc'[d].status = svc[d].status
                           /\ svc[d].refused => svc'[d].refused
      BY <1>8, <2>3, <2>4 DEF Ledger
    <2>6. \A d \in Conns : Closes(msg', msg, d)
      BY <1>2, <1>3, <1>4 DEF Closes, Open, Unpaid
    <2>7. \A r \in Callers : pub'[r].pc \in {"over", "zero"} =>
                               pub[r].pc \in {"over", "zero"} /\ pub'[r].conn = pub[r].conn
      BY <1>5
    <2> QED
      BY <2>5, <2>6, <2>7, QuotaFrame
  <1> QED
    BY <1>10, <1>11, <1>12, <1>13, <1>14, <1>15, <1>16, <1>17 DEF IndInv, StepOK

\* A final acknowledgement returns a unit, no other packet does.
LEMMA AddQuotaStep ==
  ASSUME IndInv, NEW c \in Conns, AddQuota(c)
  PROVE  StepOK
  <1> DEFINE a == Head(svc[c].c2s)
             adds == AddsQuota(a)
             q == IF adds THEN svc[c].currQuota + 1 ELSE svc[c].currQuota
             x == IF adds /\ svc[c].currQuota + 1 > 0 THEN "clear" ELSE "ack"
             s == [svc[c] EXCEPT !.currQuota = q, !.proc = x]
  <1>0. /\ svc[c].status \in {"up", "lost"} /\ svc[c].proc = "peek" /\ svc[c].c2s # <<>>
        /\ cur' = cur /\ pub' = pub /\ out' = out /\ sec' = sec /\ msg' = msg
        /\ svc' = [svc EXCEPT ![c] = s]
    BY DEF AddQuota, Running
  <1>1. /\ svc[c] \in Services /\ ConnOK(c, cur, svc[c]) /\ DOMAIN svc = Conns /\ ~(c > cur)
        /\ Part(svc[c].s2c, svc[c].s2c, 0) /\ Part(svc[c].c2s, svc[c].c2s, 0)
    BY <1>0, ConnFacts
  <1>2. q \in Int /\ svc[c].currQuota \in Int /\ x \in {"clear", "ack"}
    BY <1>1 DEF Services
  <1> HIDE DEF q, x
  <1>3. /\ s \in Services /\ s.status = svc[c].status /\ s.c2s = svc[c].c2s /\ s.s2c = svc[c].s2c
        /\ s.pub1ack = svc[c].pub1ack /\ s.pub2out = svc[c].pub2out
        /\ s.db = svc[c].db /\ s.proc = x
        /\ s.restored = svc[c].restored /\ s.refused = svc[c].refused
        /\ s.currQuota = q /\ s.pkid = svc[c].pkid
    BY <1>1, <1>2 DEF Services
  <1> HIDE DEF s
  <1>4. svc' \in [Conns -> Services] /\ svc'[c] = s /\ \A d \in Conns \ {c} : svc'[d] = svc[d]
    BY <1>0, <1>3 DEF IndInv, TypesOK
  <1>5. IndInv'
    <2>1. ConnOK(c, cur, svc'[c])
      BY <1>0, <1>1, <1>3, <1>4 DEF ConnOK
    <2> QED
      BY <1>0, <1>1, <1>3, <1>4, <2>1, ServiceFrame
  <1>6. ASSUME PubrecsPlain, QuotaOK PROVE QuotaOK'
    <2>1. a \in FromClient /\ AnswerOK(msg, c, a) /\ msg[a.msg].phase \in {"cached", "received"}
      BY <1>0, HeadFacts DEF IndInv
    <2>2. a.code \in Int /\ a.type \in {"PUBACK", "PUBREC", "PUBCOMP"} /\ a.msg \in Messages
      <3>1. \A e \in FromClient :
              e.code \in Int /\ e.type \in {"PUBACK", "PUBREC", "PUBCOMP"} /\ e.msg \in Messages
        BY DEF FromClient
      <3> HIDE DEF a
      <3> QED
        BY <2>1, <3>1
    <2>3. a.type = "PUBREC" => ~(a.code > QosFailure)
      BY <1>6, <2>1, <2>2 DEF AnswerOK, PubrecsPlain, QosFailure
    <2>4. adds <=> a.type \in Final
      BY <2>2, <2>3 DEF AddsQuota, Final
    <2> HIDE DEF adds
    <2>5. Account(msg, c, svc[c])
      BY <1>0, <1>6 DEF QuotaOK
    <2>6. Account(msg', c, svc'[c])
      <3>1. CASE adds
        <4>1. /\ \A n : Acking(svc'[c], n) <=> n = a.msg
              /\ \A n : ~Acking(svc[c], n)
          BY <1>0, <1>2, <1>3, <1>4, <2>4, <3>1 DEF Acking
        <4>2. svc'[c].currQuota = svc[c].currQuota + 1 /\ svc'[c].refused = svc[c].refused
          BY <1>3, <1>4, <3>1 DEF q
        <4>3. msg[a.msg].conn = c
          BY <2>1 DEF AnswerOK
        <4>4. CASE ~msg[a.msg].retained
          <5>1. a.msg \in Held(msg, c, svc[c]) /\ a.msg \notin Unpaid(msg, c)
            BY <2>1, <2>2, <4>1, <4>3, <4>4 DEF Held, Holds, Unpaid
          <5>2. Held(msg', c, svc'[c]) = Held(msg, c, svc[c]) \ {a.msg}
            BY <1>0, <4>1 DEF Held
          <5>3. Back(msg', c, svc'[c]) = Back(msg, c, svc[c])
            BY <1>0, <4>1, <5>1 DEF Back
          <5> HIDE DEF a
          <5> QED
            BY <1>2, <2>5, <4>2, <5>1, <5>2, <5>3, TakeAccount
        <4>5. CASE msg[a.msg].retained
          <5>1. a.msg \in Unpaid(msg, c) /\ a.msg \notin Back(msg, c, svc[c]) /\ ~Holds(msg, c, a.msg)
            BY <2>1, <2>2, <4>1, <4>3, <4>5 DEF Back, Holds, Unpaid
          <5>2. Held(msg', c, svc'[c]) = Held(msg, c, svc[c])
            BY <1>0, <4>1, <5>1 DEF Held
          <5>3. Back(msg', c, svc'[c]) = Back(msg, c, svc[c]) \cup {a.msg}
            BY <1>0, <4>1, <5>1 DEF Back
          <5> HIDE DEF a
          <5> QED
            BY <1>2, <2>5, <4>2, <5>1, <5>2, <5>3, TakeAccount
        <4> QED
          BY <4>4, <4>5
      <3>2. CASE ~adds
        <4>1. Ledger(msg', c, svc'[c]) = Ledger(msg, c, svc[c])
          <5>1. \A n : ~Acking(svc'[c], n) /\ ~Acking(svc[c], n)
            BY <1>0, <1>2, <1>3, <1>4, <2>4, <3>2 DEF Acking
          <5> QED
            BY <1>0, <5>1 DEF Ledger, Held, Back
        <4>2. svc'[c].currQuota = svc[c].currQuota /\ svc'[c].refused = svc[c].refused
          BY <1>3, <1>4, <3>2 DEF q
        <4> QED
          BY <2>5, <4>1, <4>2, AccountSame
      <3> QED
        BY <3>1, <3>2
    <2>7. \A d \in Conns : svc'[d].status \in {"up", "lost"} => Account(msg', d, svc'[d])
      BY <1>0, <1>4, <1>6, <2>6 DEF QuotaOK
    <2>8. \A d \in Conns : svc'[d].refused = svc[d].refused
      BY <1>3, <1>4
    <2> QED
      BY <1>0, <1>6, <2>7, <2>8 DEF QuotaOK
  <1> QED
    BY <1>5, <1>6 DEF StepOK

\* An acknowledgement without a record: its packet id was reused, since the record of a
\* message that waits is there otherwise.
LEMMA AckFailsStep ==
  ASSUME IndInv, NEW c \in Conns, AckFails(c)
  PROVE  StepOK
  <1> DEFINE a == Head(svc[c].c2s)
             b == Cleared(c)
             s == [svc[c] EXCEPT !.status = "failed", !.s2c = <<>>, !.beyondQuota = b]
  <1>0. /\ svc[c].status \in {"up", "lost"} /\ svc[c].proc \in {"clear", "ack"}
        /\ a.type \in {"PUBACK", "PUBREC"} /\ svc[c].db /\ out[a.id] = None
        /\ cur' = cur /\ pub' = pub /\ out' = out /\ sec' = sec /\ msg' = msg
        /\ svc' = [svc EXCEPT ![c] = s]
    BY DEF AckFails, Handles, Running, NoRecord
  <1>1. /\ svc[c] \in Services /\ ConnOK(c, cur, svc[c]) /\ DOMAIN svc = Conns /\ ~(c > cur)
        /\ Part(svc[c].c2s, svc[c].c2s, 0) /\ Part(<<>>, svc[c].s2c, 0) /\ <<>> \in Seq(ToClient)
    BY <1>0, ConnFacts
  <1>2. svc[c].c2s # <<>> /\ b \in BOOLEAN
    BY <1>0, <1>1 DEF ConnOK, Cleared
  <1> HIDE DEF b
  <1>3. /\ s \in Services /\ s.status = "failed" /\ s.c2s = svc[c].c2s /\ s.s2c = <<>>
        /\ s.pub1ack = svc[c].pub1ack /\ s.pub2out = svc[c].pub2out
        /\ s.db = svc[c].db
        /\ s.restored = svc[c].restored /\ s.refused = svc[c].refused /\ s.pkid = svc[c].pkid
    BY <1>1, <1>2 DEF Services
  <1> HIDE DEF s
  <1>4. svc' \in [Conns -> Services] /\ svc'[c] = s /\ \A d \in Conns \ {c} : svc'[d] = svc[d]
    BY <1>0, <1>3 DEF IndInv, TypesOK
  <1>5. Again(svc, msg, a.msg)
    <2>1. a \in FromClient /\ AnswerOK(msg, c, a)
      BY <1>2, HeadFacts DEF IndInv
    <2>2. a.msg \in Messages /\ msg[a.msg].conn = c /\ msg[a.msg].id = a.id /\ msg[a.msg].phase = "cached"
      BY <1>0, <2>1 DEF AnswerOK, FromClient
    <2>3. Kept(svc, msg, a.msg)
      BY <1>0, <2>2, Numbers DEF Kept, Stored
    <2>4. RecordOK(svc, msg, out, sec, a.msg)
      BY <2>2 DEF IndInv, StoreOK
    <2> QED
      BY <1>0, <2>2, <2>3, <2>4, Numbers DEF RecordOK
  <1>6. IndInv'
    <2>1. ConnOK(c, cur, svc'[c])
      BY <1>1, <1>2, <1>3, <1>4 DEF ConnOK
    <2> QED
      BY <1>0, <1>1, <1>3, <1>4, <1>5, <2>1, ServiceFrame
  <1>7. QuotaOK => QuotaOK'
    <2>1. \A d \in Conns : svc'[d].status \in {"up", "lost"} =>
                           /\ svc[d].status \in {"up", "lost"}
                           /\ Ledger(msg', d, svc'[d]) = Ledger(msg, d, svc[d])
                           /\ svc'[d].currQuota = svc[d].currQuota
      BY <1>0, <1>3, <1>4
    <2>2. \A d \in Conns : Closes(msg', msg, d) /\ (svc[d].refused => svc'[d].refused)
      BY <1>0, <1>3, <1>4 DEF Closes
    <2> QED
      BY <1>0, <2>1, <2>2, QuotaFrame
  <1> QED
    BY <1>6, <1>7 DEF StepOK

\* The service ends.
LEMMA stopStep ==
  ASSUME IndInv, NEW c \in Conns, stop(c)
  PROVE  StepOK
  <1> DEFINE s == [svc[c] EXCEPT !.status = "gone", !.c2s = <<>>]
  <1>0. /\ svc[c].status = "lost"
        /\ cur' = cur /\ pub' = pub /\ out' = out /\ sec' = sec /\ msg' = msg
        /\ svc' = [svc EXCEPT ![c] = s]
    BY DEF stop
  <1>1. /\ svc[c] \in Services /\ ConnOK(c, cur, svc[c]) /\ DOMAIN svc = Conns /\ ~(c > cur)
        /\ Part(svc[c].s2c, svc[c].s2c, 0) /\ Part(<<>>, svc[c].c2s, 0) /\ <<>> \in Seq(FromClient)
    BY <1>0, ConnFacts
  <1>3. /\ s \in Services /\ s.status = "gone" /\ s.c2s = <<>> /\ s.s2c = svc[c].s2c
        /\ s.pub1ack = svc[c].pub1ack /\ s.pub2out = svc[c].pub2out
        /\ s.db = svc[c].db
        /\ s.restored = svc[c].restored /\ s.refused = svc[c].refused /\ s.pkid = svc[c].pkid
    BY <1>1 DEF Services
  <1> HIDE DEF s
  <1>4. svc' \in [Conns -> Services] /\ svc'[c] = s /\ \A d \in Conns \ {c} : svc'[d] = svc[d]
    BY <1>0, <1>3 DEF IndInv, TypesOK
  <1>5. IndInv'
    <2>1. ConnOK(c, cur, svc'[c])
      BY <1>1, <1>3, <1>4 DEF ConnOK
    <2> QED
      BY <1>0, <1>1, <1>3, <1>4, <2>1, ServiceFrame
  <1>6. QuotaOK => QuotaOK'
    <2>1. \A d \in Conns : svc'[d].status \in {"up", "lost"} =>
                           /\ svc[d].status \in {"up", "lost"}
                           /\ Ledger(msg', d, svc'[d]) = Ledger(msg, d, svc[d])
                           /\ svc'[d].currQuota = svc[d].currQuota
      BY <1>0, <1>3, <1>4
    <2>2. \A d \in Conns : Closes(msg', msg, d) /\ (svc[d].refused => svc'[d].refused)
      BY <1>0, <1>3, <1>4 DEF Closes
    <2> QED
      BY <1>0, <2>1, <2>2, QuotaFrame
  <1> QED
    BY <1>5, <1>6 DEF StepOK

\* What the steps of connection c with message x have in common.
LEMMA MessageFrame ==
  ASSUME IndInv, NEW c \in Conns, NEW x \in Messages, cur' = cur, pub' = pub,
         svc' \in [Conns -> Services], \A d \in Conns \ {c} : svc'[d] = svc[d],
         msg' \in [Messages -> States], \A n \in Messages \ {x} : msg'[n] = msg[n],
         msg[x].conn = c, \A p \in Callers : pub[p].msg # None => pub[p].msg # x,
         ConnOK(c, cur, svc'[c]), MsgOK(cur, msg'[x]), svc'[c].pkid = svc[c].pkid,
         Carried(msg', c, svc'[c].s2c, svc'[c].c2s),
         \A p \in Callers : pub[p].msg # None => NoPacket(pub[p].msg, svc'[c].s2c, svc'[c].c2s)
  PROVE  ConnsOK' /\ MsgsOK' /\ CallsOK' /\ WiresOK' /\ IdsOK'
  <1>0. TypesOK /\ IdsOK /\ WiresOK /\ ConnsOK /\ MsgsOK /\ CallsOK
    BY DEF IndInv
  <1>1. ConnsOK' /\ MsgsOK'
    BY <1>0, ConnsFrame, MsgsFrame
  <1>2. CallsOK'
    BY <1>0, CallsKept
  <1>3. WiresOK'
    <2> SUFFICES ASSUME NEW d \in Conns
                 PROVE  /\ Carried(msg', d, svc'[d].s2c, svc'[d].c2s)
                        /\ \A r \in Callers : pub[r].msg # None => NoPacket(pub[r].msg, svc'[d].s2c, svc'[d].c2s)
      BY DEF WiresOK
    <2>1. CASE d # c
      <3>1. svc'[d] = svc[d]
        BY <2>1
      <3>2. /\ \A k \in DOMAIN svc[d].s2c : msg'[svc[d].s2c[k].msg] = msg[svc[d].s2c[k].msg]
            /\ \A k \in DOMAIN svc[d].c2s : msg'[svc[d].c2s[k].msg] = msg[svc[d].c2s[k].msg]
        <4>1. /\ \A k \in DOMAIN svc[d].s2c : svc[d].s2c[k].msg \in Messages /\ msg[svc[d].s2c[k].msg].conn = d
              /\ \A k \in DOMAIN svc[d].c2s : svc[d].c2s[k].msg \in Messages /\ msg[svc[d].c2s[k].msg].conn = d
          BY <1>0, WireMessages
        <4> QED
          BY <2>1, <4>1
      <3>3. Part(svc[d].s2c, svc[d].s2c, 0) /\ Part(svc[d].c2s, svc[d].c2s, 0)
        BY <1>0, PacketFacts, Parts
      <3>4. Carried(msg, d, svc[d].s2c, svc[d].c2s)
        BY <1>0 DEF WiresOK
      <3>5. Carried(msg', d, svc[d].s2c, svc[d].c2s)
        BY <3>2, <3>3, <3>4, CarriedPart
      <3> QED
        BY <1>0, <3>1, <3>5 DEF WiresOK
    <2>2. CASE d = c
      BY <2>2
    <2> QED
      BY <2>1, <2>2
  <1>4. IdsOK'
    BY <1>0, IdsFrame
  <1> QED
    BY <1>1, <1>2, <1>3, <1>4

\* The queues when only those of connection c change, for its message x.
LEMMA QueuesStep ==
  ASSUME TypesOK, QueuesOK, NEW c \in Conns, NEW x \in Messages,
         \A d \in Conns \ {c} : svc'[d] = svc[d], svc'[c].restored = svc[c].restored,
         \A n \in Messages \ {x} : msg'[n] = msg[n],
         msg[x].conn = c, msg'[x].conn = c, msg'[x].id = msg[x].id,
         /\ Unlike(msg, c) /\ QueueOK(msg, c, svc[c].pub1ack) /\ QueueOK(msg, c, svc[c].pub2out)
         => QueueOK(msg', c, svc'[c].pub1ack) /\ QueueOK(msg', c, svc'[c].pub2out)
  PROVE  QueuesOK'
  <1>1. Grown(msg', msg)
    BY DEF Grown
  <1> SUFFICES ASSUME NEW d \in Conns, ~svc'[d].restored, Unlike(msg', d)
               PROVE  QueueOK(msg', d, svc'[d].pub1ack) /\ QueueOK(msg', d, svc'[d].pub2out)
    BY DEF QueuesOK
  <1>2. Unlike(msg, d) /\ ~svc[d].restored
    BY <1>1, UnlikeBefore
  <1>3. QueueOK(msg, d, svc[d].pub1ack) /\ QueueOK(msg, d, svc[d].pub2out)
    BY <1>2 DEF QueuesOK
  <1>4. CASE d = c
    BY <1>2, <1>3, <1>4
  <1>5. CASE d # c
    <2>1. svc[d].pub1ack \in Seq(Entries(1)) /\ svc[d].pub2out \in Seq(Entries(2))
      BY DEF TypesOK, Services
    <2>2. /\ \A k \in DOMAIN svc[d].pub1ack : msg'[svc[d].pub1ack[k].msg] = msg[svc[d].pub1ack[k].msg]
          /\ \A k \in DOMAIN svc[d].pub2out : msg'[svc[d].pub2out[k].msg] = msg[svc[d].pub2out[k].msg]
      <3>1. /\ \A k \in DOMAIN svc[d].pub1ack : svc[d].pub1ack[k].msg \in Messages
            /\ \A k \in DOMAIN svc[d].pub2out : svc[d].pub2out[k].msg \in Messages
        BY <2>1, EntryFacts
      <3>2. /\ \A k \in DOMAIN svc[d].pub1ack : msg[svc[d].pub1ack[k].msg].conn = d
            /\ \A k \in DOMAIN svc[d].pub2out : msg[svc[d].pub2out[k].msg].conn = d
        BY <1>3 DEF QueueOK
      <3> QED
        BY <1>5, <3>1, <3>2
    <2>3. QueueOK(msg', d, svc[d].pub1ack) /\ QueueOK(msg', d, svc[d].pub2out)
      BY <1>3, <2>2, QueueOther
    <2> QED
      BY <1>5, <2>3
  <1> QED
    BY <1>4, <1>5

\* The client takes a packet and answers it.
LEMMA ClientAnswerStep ==
  ASSUME IndInv, ClientAnswer
  PROVE  StepOK
  <1> DEFINE c == cur
             pkt == Head(svc[c].s2c)
             x == pkt.msg
  <1>0. /\ TypesOK /\ IdsOK /\ WiresOK /\ ConnsOK /\ MsgsOK /\ CallsOK /\ StoreOK /\ QueuesOK
        /\ c \in Conns /\ svc[c].status = "up" /\ svc[c].s2c # <<>>
        /\ cur' = cur /\ pub' = pub /\ out' = out /\ sec' = sec
    BY DEF ClientAnswer, ClientUp, Up, IndInv, TypesOK, Conns
  <1>1. PICK a \in Answers(pkt) :
          /\ svc' = [svc EXCEPT ![c].s2c = Tail(@), ![c].c2s = Append(@, a)]
          /\ msg' = [msg EXCEPT ![x].open = @ /\ a.type \notin Final /\ a.code < QosFailure]
    BY DEF ClientAnswer
  <1>2. /\ svc[c] \in Services /\ ConnOK(c, cur, svc[c]) /\ ~(c > cur)
        /\ svc[c].s2c \in Seq(ToClient) /\ svc[c].c2s \in Seq(FromClient)
        /\ Carried(msg, c, svc[c].s2c, svc[c].c2s)
    BY <1>0, ConnFacts, PacketFacts
  <1>3. /\ 1 \in DOMAIN svc[c].s2c /\ pkt = svc[c].s2c[1] /\ pkt \in ToClient
        /\ Tail(svc[c].s2c) \in Seq(ToClient) /\ Part(Tail(svc[c].s2c), svc[c].s2c, 1)
        /\ Part(svc[c].c2s, svc[c].c2s, 0)
    BY <1>0, <1>2, Parts
  <1>4. SentOK(msg, c, pkt)
    BY <1>2, <1>3 DEF Carried
  <1> HIDE DEF pkt
  <1>5. x \in Messages /\ msg[x].conn = c /\ msg[x].id = pkt.id /\ msg[x] \in States /\ pkt.id \in Ids
    BY <1>0, <1>3, <1>4 DEF ToClient, SentOK, TypesOK
  <1>6. /\ a \in FromClient /\ a.msg = x /\ a.id = pkt.id
        /\ a.type = "PUBACK" => msg[x].phase = "cached" /\ QosOf[x] = 1
        /\ a.type = "PUBREC" => msg[x].phase = "cached" /\ QosOf[x] = 2 /\ a.code \in PubrecCodes
        /\ a.type = "PUBCOMP" => msg[x].phase = "received" /\ QosOf[x] = 2
    <2>1. pkt.type = "PUBREL" \/ pkt.type = "PUBLISH"
      BY <1>3 DEF ToClient
    <2>2. PubrecCodes \subseteq 0..255 /\ 0 \in 0..255
      BY OutFlowAssumption
    <2>3. CASE pkt.type = "PUBREL"
      <3>1. a = Packet("PUBCOMP", pkt.id, x, 0)
        <4>1. Answers(pkt) = {Packet("PUBCOMP", pkt.id, x, 0)}
          <5>1. QosOf[x] # 1
            BY <1>4, <2>3 DEF SentOK
          <5> QED
            BY <2>3, <5>1 DEF Answers
        <4> QED
          BY <4>1
      <3> QED
        BY <1>4, <1>5, <2>2, <2>3, <3>1 DEF Packet, FromClient, SentOK
    <2>4. CASE pkt.type = "PUBLISH" /\ QosOf[x] = 1
      <3>1. a = Packet("PUBACK", pkt.id, x, 0)
        BY <2>4 DEF Answers
      <3> QED
        BY <1>4, <1>5, <2>2, <2>4, <3>1 DEF Packet, FromClient, SentOK
    <2>5. CASE pkt.type = "PUBLISH" /\ QosOf[x] # 1
      <3>1. Answers(pkt) = {Packet("PUBREC", pkt.id, x, r) : r \in PubrecCodes}
        BY <2>5 DEF Answers
      <3>2. PICK r \in PubrecCodes : a = Packet("PUBREC", pkt.id, x, r)
        BY <3>1
      <3> QED
        BY <1>4, <1>5, <2>2, <2>5, <3>2, Numbers DEF Packet, FromClient, SentOK
    <2> QED
      BY <2>1, <2>3, <2>4, <2>5
  <1>7. /\ msg' \in [Messages -> States]
        /\ \A n \in Messages \ {x} : msg'[n] = msg[n]
        /\ msg'[x].conn = c /\ msg'[x].id = msg[x].id /\ msg'[x].phase = msg[x].phase
        /\ msg'[x].retained = msg[x].retained
        /\ msg'[x].open => msg[x].open /\ a.type \notin Final
    <2> DEFINE b == msg[x].open /\ a.type \notin Final /\ a.code < QosFailure
               s == [msg[x] EXCEPT !.open = b]
    <2>1. msg' = [msg EXCEPT ![x] = s] /\ b \in BOOLEAN /\ (b => msg[x].open /\ a.type \notin Final)
      BY <1>1
    <2> HIDE DEF b
    <2>2. /\ s \in States /\ s.conn = msg[x].conn /\ s.id = msg[x].id /\ s.phase = msg[x].phase
          /\ s.open = b /\ s.retained = msg[x].retained
      BY <1>5, <2>1 DEF States
    <2> HIDE DEF s
    <2> QED
      BY <1>0, <1>5, <2>1, <2>2 DEF TypesOK
  <1> DEFINE o2 == Tail(svc[c].s2c)
             i2 == Append(svc[c].c2s, a)
             s == [svc[c] EXCEPT !.s2c = o2, !.c2s = i2]
  <1>8. i2 \in Seq(FromClient) /\ Added(i2, svc[c].c2s, a, Len(svc[c].c2s) + 1)
    BY <1>2, <1>6, Appended
  <1>9. svc' = [svc EXCEPT ![c] = s]
    BY <1>1
  <1>10. svc[c].c2s # <<>> => Head(i2) = Head(svc[c].c2s) /\ i2 # <<>>
    <2>1. svc[c].c2s # <<>> => 1 \in DOMAIN svc[c].c2s /\ Head(svc[c].c2s) = svc[c].c2s[1]
      BY <1>2, Parts
    <2>2. i2 # <<>>
      BY <1>2, <1>6, <1>8, AppendProperties, EmptySeq, LenProperties
    <2>3. Head(i2) = i2[1]
      BY <1>8, <2>2, Parts
    <2> QED
      BY <1>8, <2>1, <2>2, <2>3 DEF Added
  <1> HIDE DEF o2, i2
  <1>11. /\ s \in Services /\ s.status = svc[c].status /\ s.c2s = i2 /\ s.s2c = o2
         /\ s.pub1ack = svc[c].pub1ack /\ s.pub2out = svc[c].pub2out
         /\ s.db = svc[c].db /\ s.proc = svc[c].proc
         /\ s.restored = svc[c].restored /\ s.refused = svc[c].refused
         /\ s.currQuota = svc[c].currQuota /\ s.pkid = svc[c].pkid
    BY <1>2, <1>3, <1>8 DEF Services, o2
  <1> HIDE DEF s
  <1>12. svc' \in [Conns -> Services] /\ svc'[c] = s /\ \A d \in Conns \ {c} : svc'[d] = svc[d]
    BY <1>0, <1>9, <1>11 DEF TypesOK
  <1>13. ConnOK(c, cur, svc'[c])
    BY <1>0, <1>2, <1>10, <1>11, <1>12 DEF ConnOK
  <1>14. MsgOK(cur, msg'[x])
    <2>1. MsgOK(cur, msg[x])
      BY <1>0, <1>5 DEF MsgsOK
    <2> QED
      BY <1>0, <1>5, <1>7, <2>1, Numbers DEF MsgOK
  <1>15. Carried(msg', c, o2, i2)
    <2>1. NoPacket(x, o2, svc[c].c2s)
      BY <1>2, <1>3, FirstPacket DEF o2
    <2>2. Part(o2, svc[c].s2c, 1) /\ o2 \in Seq(ToClient)
      BY <1>3 DEF o2
    <2>3. /\ \A k \in DOMAIN o2 : msg'[o2[k].msg] = msg[o2[k].msg]
          /\ \A k \in DOMAIN svc[c].c2s : msg'[svc[c].c2s[k].msg] = msg[svc[c].c2s[k].msg]
      <3>1. \A k \in DOMAIN o2 : o2[k] \in ToClient
        BY <2>2, ElementOfSeq
      <3>2. \A k \in DOMAIN svc[c].c2s : svc[c].c2s[k] \in FromClient
        BY <1>2, ElementOfSeq
      <3> QED
        BY <1>7, <2>1, <3>1, <3>2 DEF NoPacket, ToClient, FromClient
    <2>4. Carried(msg', c, o2, svc[c].c2s)
      BY <1>2, <1>3, <2>2, <2>3, CarriedPart
    <2>5. AnswerOK(msg', c, a)
      BY <1>5, <1>6, <1>7 DEF AnswerOK
    <2> QED
      BY <1>6, <1>8, <2>1, <2>4, <2>5, CarriedIn
  <1>16. ASSUME NEW p \in Callers, pub[p].msg # None
         PROVE  pub[p].msg # x /\ NoPacket(pub[p].msg, o2, i2)
    <2>1. NoPacket(pub[p].msg, svc[c].s2c, svc[c].c2s)
      BY <1>0, <1>16 DEF WiresOK
    <2>2. pub[p].msg # x
      BY <1>3, <2>1 DEF NoPacket
    <2>3. NoPacket(pub[p].msg, o2, svc[c].c2s)
      BY <1>3, <2>1, NoPacketPart DEF o2
    <2> QED
      BY <1>6, <1>8, <2>2, <2>3, NoPacketAdded
  <1>17. ConnsOK' /\ MsgsOK' /\ CallsOK' /\ WiresOK' /\ IdsOK'
    BY <1>0, <1>5, <1>7, <1>11, <1>12, <1>13, <1>14, <1>15, <1>16, MessageFrame
  <1>18. StoreOK'
    <2>1. Early(msg', msg)
      BY <1>5, <1>7 DEF Early
    <2>2. \A d \in Conns : /\ svc'[d].db = svc[d].db
                           /\ svc'[d].status = "failed" => svc[d].status = "failed" /\ svc'[d].c2s = svc[d].c2s
      BY <1>0, <1>11, <1>12
    <2> QED
      BY <1>0, <2>1, <2>2, StoreFrame
  <1>19. QueuesOK'
    <2>1. Grown(msg', msg)
      BY <1>5, <1>7 DEF Grown
    <2>2. \A n \in Messages : msg[n].phase \in {"cached", "received"} => msg'[n].phase \in {"cached", "received"}
      BY <1>7
    <2>3. \A d \in Conns : /\ svc'[d].restored = svc[d].restored
                           /\ svc'[d].pub1ack = svc[d].pub1ack /\ svc'[d].pub2out = svc[d].pub2out
      BY <1>11, <1>12
    <2> QED
      BY <1>0, <2>1, <2>2, <2>3, QueuesFrame
  <1>20. TypesOK'
    BY <1>0, <1>7, <1>12 DEF TypesOK
  <1>21. QuotaOK => QuotaOK'
    <2>1. \A d \in Conns, n \in Messages : Same(msg', msg, d, n)
      BY <1>5, <1>7 DEF Same, Holds, Unpaid
    <2>2. Ledger(msg', c, svc'[c]) = Ledger(msg', c, svc[c])
      BY <1>0, <1>2, <1>10, <1>11, <1>12, LedgerHead DEF ConnOK
    <2>3. \A d \in Conns : Ledger(msg', d, svc[d]) = Ledger(msg, d, svc[d])
      BY <2>1, LedgerSame
    <2>4. \A d \in Conns : /\ Ledger(msg', d, svc'[d]) = Ledger(msg, d, svc[d])
                           /\ svc'[d].currQuota = svc[d].currQuota
                           /\ svc'[d].status = svc[d].status
                           /\ svc[d].refused => svc'[d].refused
      BY <1>11, <1>12, <2>2, <2>3
    <2>5. \A d \in Conns : Closes(msg', msg, d)
      BY <1>5, <1>7 DEF Closes, Open, Unpaid
    <2> QED
      BY <1>0, <2>4, <2>5, QuotaFrame
  <1> QED
    BY <1>17, <1>18, <1>19, <1>20, <1>21 DEF IndInv, StepOK

\* The packet that is handled.
LEMMA HandleFacts ==
  ASSUME IndInv, NEW c \in Conns, NEW type, Handles(c, type), NEW a, a = Head(svc[c].c2s)
  PROVE  /\ svc[c].status \in {"up", "lost"} /\ svc[c].proc \in {"clear", "ack"} /\ ~(c > cur)
         /\ svc[c] \in Services /\ ConnOK(c, cur, svc[c])
         /\ a.type = type /\ AnswerOK(msg, c, a) /\ a.msg \in Messages /\ a.id \in Ids
         /\ msg[a.msg].conn = c /\ msg[a.msg].id = a.id /\ msg[a.msg] \in States
         /\ msg[a.msg].phase \in {"cached", "received"} /\ MsgOK(cur, msg[a.msg])
         /\ svc[c].s2c \in Seq(ToClient) /\ Tail(svc[c].c2s) \in Seq(FromClient)
         /\ NoPacket(a.msg, svc[c].s2c, Tail(svc[c].c2s))
         /\ \A p \in Callers : pub[p].msg # None =>
              pub[p].msg # a.msg /\ NoPacket(pub[p].msg, svc[c].s2c, Tail(svc[c].c2s))
         /\ \A ms2 : (\A n \in Messages \ {a.msg} : ms2[n] = msg[n])
                     => Carried(ms2, c, svc[c].s2c, Tail(svc[c].c2s))
  <1> DEFINE o == svc[c].s2c
             i == svc[c].c2s
             i2 == Tail(svc[c].c2s)
  <1>0. TypesOK /\ WiresOK /\ MsgsOK
    BY DEF IndInv
  <1>1. svc[c].status \in {"up", "lost"} /\ svc[c].proc \in {"clear", "ack"} /\ a.type = type
    BY DEF Handles, Running
  <1>2. svc[c] \in Services /\ ConnOK(c, cur, svc[c]) /\ ~(c > cur)
    BY <1>1, ConnFacts
  <1>3. i # <<>>
    BY <1>1, <1>2 DEF ConnOK
  <1>4. o \in Seq(ToClient) /\ i \in Seq(FromClient) /\ Carried(msg, c, o, i)
    BY <1>0, PacketFacts
  <1>5. /\ a \in FromClient /\ AnswerOK(msg, c, a) /\ 1 \in DOMAIN i /\ a = i[1]
        /\ msg[a.msg].phase \in {"cached", "received"}
    BY <1>0, <1>3, HeadFacts
  <1>6. a.msg \in Messages /\ a.id \in Ids /\ msg[a.msg].conn = c /\ msg[a.msg].id = a.id
    BY <1>5 DEF AnswerOK, FromClient
  <1>7. msg[a.msg] \in States /\ MsgOK(cur, msg[a.msg])
    BY <1>0, <1>6 DEF TypesOK, MsgsOK
  <1>8. i2 \in Seq(FromClient) /\ Part(i2, i, 1) /\ Part(o, o, 0)
    BY <1>3, <1>4, Parts
  <1> HIDE DEF i2
  <1>9. NoPacket(a.msg, o, i2)
    BY <1>4, <1>5, <1>8, FirstPacket
  <1>10. ASSUME NEW p \in Callers, pub[p].msg # None
         PROVE  pub[p].msg # a.msg /\ NoPacket(pub[p].msg, o, i2)
    <2>1. NoPacket(pub[p].msg, o, i)
      BY <1>0, <1>10 DEF WiresOK
    <2>2. pub[p].msg # a.msg
      BY <1>5, <2>1 DEF NoPacket
    <2> QED
      BY <1>8, <2>1, <2>2, NoPacketPart
  <1>11. ASSUME NEW ms2, \A n \in Messages \ {a.msg} : ms2[n] = msg[n] PROVE Carried(ms2, c, o, i2)
    <2>1. \A k \in DOMAIN o : o[k] \in ToClient
      BY <1>4, ElementOfSeq
    <2>2. \A k \in DOMAIN i2 : i2[k] \in FromClient
      BY <1>8, ElementOfSeq
    <2>3. /\ \A k \in DOMAIN o : ms2[o[k].msg] = msg[o[k].msg]
          /\ \A k \in DOMAIN i2 : ms2[i2[k].msg] = msg[i2[k].msg]
      BY <1>9, <1>11, <2>1, <2>2 DEF NoPacket, ToClient, FromClient
    <2> QED
      BY <1>4, <1>8, <2>3, CarriedPart
  <1> QED
    BY <1>1, <1>2, <1>4, <1>5, <1>6, <1>7, <1>8, <1>9, <1>10, <1>11 DEF i2

\* Handling a packet changes nothing in the account: AddQuota did so before.
LEMMA ProcessQuota ==
  ASSUME QuotaOK, NEW c \in Conns, NEW a, a = Head(svc[c].c2s), pub' = pub,
         \A d \in Conns \ {c} : svc'[d] = svc[d],
         svc[c].proc \in {"clear", "ack"}, svc'[c].proc = "top",
         svc'[c].status = svc[c].status, svc'[c].refused = svc[c].refused,
         svc'[c].currQuota = svc[c].currQuota,
         a.msg \in Messages, \A n \in Messages \ {a.msg} : msg'[n] = msg[n],
         msg[a.msg].conn = c, msg'[a.msg].conn = c, msg'[a.msg].open => msg[a.msg].open,
         msg'[a.msg].retained = msg[a.msg].retained, msg[a.msg].phase \in {"cached", "received"},
         a.type \in Final => msg'[a.msg].phase = "done",
         a.type \notin Final => msg'[a.msg].phase = "received"
  PROVE  QuotaOK'
  <1>1. Ledger(msg', c, svc'[c]) = Ledger(msg, c, svc[c])
    <2>1. /\ \A n : ~Acking(svc'[c], n)
          /\ \A n : Acking(svc[c], n) <=> a.type \in Final /\ n = a.msg
      BY DEF Acking
    <2>2. Held(msg', c, svc'[c]) = Held(msg, c, svc[c])
      BY <2>1 DEF Held, Holds
    <2>3. Back(msg', c, svc'[c]) = Back(msg, c, svc[c])
      BY <2>1 DEF Back, Unpaid
    <2> QED
      BY <2>2, <2>3 DEF Ledger
  <1>2. ASSUME NEW d \in Conns \ {c} PROVE Ledger(msg', d, svc'[d]) = Ledger(msg, d, svc[d])
    <2>1. \A n \in Messages : Same(msg', msg, d, n)
      BY DEF Same, Holds, Unpaid
    <2> QED
      BY <2>1, LedgerSame
  <1>3. \A d \in Conns : Closes(msg', msg, d)
    BY DEF Closes, Open, Unpaid
  <1>4. \A d \in Conns : /\ Ledger(msg', d, svc'[d]) = Ledger(msg, d, svc[d])
                         /\ svc'[d].currQuota = svc[d].currQuota
                         /\ svc'[d].status = svc[d].status
                         /\ svc[d].refused => svc'[d].refused
    BY <1>1, <1>2
  <1> QED
    BY <1>3, <1>4, QuotaFrame

\* PUBACK.
LEMMA processPubackStep ==
  ASSUME IndInv, NEW c \in Conns, processPuback(c)
  PROVE  StepOK
  <1> DEFINE a == Head(svc[c].c2s)
             x == a.msg
             q == Acked(Marked(svc[c].pub1ack, a.id, "PUBACK"))
             i2 == Tail(svc[c].c2s)
             b == Cleared(c)
             s == [svc[c] EXCEPT !.c2s = i2, !.proc = "top", !.beyondQuota = b, !.pub1ack = q]
  <1>0. /\ TypesOK /\ IdsOK /\ WiresOK /\ ConnsOK /\ MsgsOK /\ CallsOK /\ StoreOK /\ QueuesOK
        /\ Handles(c, "PUBACK") /\ cur' = cur /\ pub' = pub /\ sec' = sec
        /\ out' = Released(c, a.id) /\ msg' = [msg EXCEPT ![x].phase = "done"]
        /\ svc' = [svc EXCEPT ![c] = s]
    BY DEF IndInv, processPuback
  <1>1. /\ svc[c].status \in {"up", "lost"} /\ svc[c].proc \in {"clear", "ack"} /\ ~(c > cur)
        /\ svc[c] \in Services /\ ConnOK(c, cur, svc[c])
        /\ a.type = "PUBACK" /\ AnswerOK(msg, c, a) /\ x \in Messages /\ a.id \in Ids
        /\ msg[x].conn = c /\ msg[x].id = a.id /\ msg[x] \in States
        /\ msg[x].phase \in {"cached", "received"} /\ MsgOK(cur, msg[x])
        /\ i2 \in Seq(FromClient)
        /\ \A p \in Callers : pub[p].msg # None => pub[p].msg # x /\ NoPacket(pub[p].msg, svc[c].s2c, i2)
        /\ \A ms2 : (\A n \in Messages \ {x} : ms2[n] = msg[n]) => Carried(ms2, c, svc[c].s2c, i2)
    <2>1. IndInv /\ Handles(c, "PUBACK")
      BY <1>0
    <2>2. a = Head(svc[c].c2s) /\ x = a.msg /\ i2 = Tail(svc[c].c2s)
      OBVIOUS
    <2> HIDE DEF a, x, i2
    <2> QED
      BY <2>1, <2>2, HandleFacts
  <1> HIDE DEF a, i2
  <1>2. msg[x].phase = "cached" /\ QosOf[x] = 1 /\ ~msg[x].open
    BY <1>1 DEF AnswerOK, Final
  <1>3. svc[c].pub1ack \in Seq(Entries(1)) /\ svc[c].pub2out \in Seq(Entries(2)) /\ b \in BOOLEAN
    BY <1>1 DEF Services, Cleared
  <1>4. q \in Seq(Entries(1))
    BY <1>3, MarkedFacts, AckedFacts
  <1> HIDE DEF q, b
  <1>5. /\ s \in Services /\ s.status = svc[c].status /\ s.c2s = i2 /\ s.s2c = svc[c].s2c
        /\ s.pub1ack = q /\ s.pub2out = svc[c].pub2out
        /\ s.db = svc[c].db /\ s.proc = "top"
        /\ s.restored = svc[c].restored /\ s.refused = svc[c].refused
        /\ s.currQuota = svc[c].currQuota /\ s.pkid = svc[c].pkid
    BY <1>1, <1>3, <1>4 DEF Services
  <1> HIDE DEF s
  <1>6. svc' \in [Conns -> Services] /\ svc'[c] = s /\ \A d \in Conns \ {c} : svc'[d] = svc[d]
    BY <1>0, <1>5 DEF TypesOK
  <1>7. /\ msg' \in [Messages -> States]
        /\ \A n \in Messages \ {x} : msg'[n] = msg[n]
        /\ msg'[x].conn = c /\ msg'[x].id = a.id /\ msg'[x].phase = "done" /\ ~msg'[x].open
        /\ msg'[x].retained = msg[x].retained
    <2> DEFINE t == [msg[x] EXCEPT !.phase = "done"]
    <2>1. /\ t \in States /\ t.conn = c /\ t.id = a.id /\ t.phase = "done" /\ ~t.open
          /\ t.retained = msg[x].retained
      BY <1>1, <1>2 DEF States, Phases
    <2>2. msg' = [msg EXCEPT ![x] = t]
      BY <1>0
    <2> HIDE DEF t
    <2> QED
      BY <1>0, <1>1, <2>1, <2>2 DEF TypesOK
  <1>8. /\ out' \in [Ids -> Messages \cup {None}]
        /\ svc[c].db => out'[a.id] = None /\ \A i \in Ids : i # a.id => out'[i] = out[i]
        /\ ~svc[c].db => out' = out
    BY <1>0, <1>1 DEF Released, TypesOK
  <1>9. ConnsOK' /\ MsgsOK' /\ CallsOK' /\ WiresOK' /\ IdsOK'
    <2>1. ConnOK(c, cur, svc'[c])
      BY <1>1, <1>5, <1>6 DEF ConnOK
    <2>2. MsgOK(cur, msg'[x])
      BY <1>1, <1>7, Numbers DEF MsgOK
    <2>3. Carried(msg', c, svc'[c].s2c, svc'[c].c2s)
      BY <1>1, <1>5, <1>6, <1>7
    <2>4. /\ \A p \in Callers : pub[p].msg # None => pub[p].msg # x
          /\ \A p \in Callers : pub[p].msg # None => NoPacket(pub[p].msg, svc'[c].s2c, svc'[c].c2s)
      BY <1>1, <1>5, <1>6
    <2>5. svc'[c].pkid = svc[c].pkid /\ x \in Messages /\ msg[x].conn = c /\ cur' = cur /\ pub' = pub
      BY <1>0, <1>1, <1>5, <1>6
    <2> HIDE DEF x
    <2> QED
      BY <1>6, <1>7, <2>1, <2>2, <2>3, <2>4, <2>5, MessageFrame
  <1>10. StoreOK'
    <2>1. svc'[c].db = svc[c].db
      BY <1>5, <1>6
    <2>2. (Kept(svc', msg', x) <=> svc[c].db) /\ (Kept(svc, msg, x) <=> svc[c].db)
      BY <1>1, <1>2, <1>7, <2>1, Numbers DEF Kept, Stored
    <2>3. RecordOK(svc', msg', out', sec', x)
      <3> SUFFICES ASSUME Kept(svc', msg', x), ~Again(svc', msg', x)
                   PROVE  out'[a.id] = None /\ a.id \notin sec
        BY <1>0, <1>7 DEF RecordOK
      <3>1. ASSUME a.id \in sec PROVE FALSE
        <4>1. PICK n \in Messages : Kept(svc, msg, n) /\ msg[n].id = a.id /\ msg[n].phase \in {"received", "done"}
          BY <1>0, <3>1 DEF StoreOK
        <4>2. n # x
          BY <1>2, <4>1
        <4>3. Kept(svc', msg', n) /\ msg'[n].id = a.id
          <5>1. msg'[n] = msg[n] /\ msg[n].conn \in Conns
            BY <1>0, <1>7, <4>1, <4>2 DEF Kept, TypesOK, States
          <5>2. svc'[msg[n].conn].db = svc[msg[n].conn].db
            BY <1>6, <2>1, <5>1
          <5> QED
            BY <4>1, <5>1, <5>2 DEF Kept
        <4> QED
          BY <1>7, <4>2, <4>3 DEF Again
      <3> QED
        BY <1>8, <2>2, <3>1
    <2>4. /\ Kept(svc, msg, x) => /\ msg'[x].phase \in Stored
                                  /\ msg[x].phase # "cached" => msg'[x].phase # "cached"
          /\ \/ out' = out /\ sec' = sec
             \/ /\ Kept(svc', msg', x)
                /\ \A i \in Ids : i # msg'[x].id => out'[i] = out[i] /\ (i \in sec' <=> i \in sec)
          /\ sec' \subseteq sec \cup {msg'[x].id}
          /\ msg'[x].id \in sec' => \/ msg'[x].id \in sec
                                    \/ Kept(svc', msg', x) /\ msg'[x].phase \in {"received", "done"}
      BY <1>0, <1>7, <1>8, <2>2 DEF Stored
    <2>5. \A d \in Conns : /\ svc'[d].db = svc[d].db
                           /\ svc'[d].status = "failed" => svc[d].status = "failed" /\ svc'[d].c2s = svc[d].c2s
      BY <1>1, <1>5, <1>6
    <2>6. /\ x \in Messages /\ msg'[x].conn = msg[x].conn /\ msg'[x].id = msg[x].id
          /\ \A n \in Messages \ {x} : msg'[n] = msg[n]
      BY <1>1, <1>7
    <2> HIDE DEF x
    <2> QED
      BY <1>0, <2>3, <2>4, <2>5, <2>6, StoreStep
  <1>11. QueuesOK'
    <2>1. ASSUME Unlike(msg, c), QueueOK(msg, c, svc[c].pub1ack), QueueOK(msg, c, svc[c].pub2out)
          PROVE  QueueOK(msg', c, svc'[c].pub1ack) /\ QueueOK(msg', c, svc'[c].pub2out)
      <3>1. QueueOK(msg', c, q)
        BY <1>1, <1>3, <1>7, <2>1, QueueFinal DEF Final, q
      <3>2. \A k \in DOMAIN svc[c].pub2out : msg'[svc[c].pub2out[k].msg] = msg[svc[c].pub2out[k].msg]
        BY <1>2, <1>3, <1>7, EntryFacts
      <3>3. QueueOK(msg', c, svc[c].pub2out)
        BY <2>1, <3>2, QueueOther
      <3> QED
        BY <1>5, <1>6, <3>1, <3>3
    <2>2. /\ svc'[c].restored = svc[c].restored /\ TypesOK /\ QueuesOK /\ x \in Messages
          /\ msg[x].conn = c /\ msg'[x].conn = c /\ msg'[x].id = msg[x].id
          /\ \A n \in Messages \ {x} : msg'[n] = msg[n]
          /\ \A d \in Conns \ {c} : svc'[d] = svc[d]
      BY <1>0, <1>1, <1>5, <1>6, <1>7
    <2> HIDE DEF x
    <2> QED
      BY <2>1, <2>2, QueuesStep
  <1>12. TypesOK'
    BY <1>0, <1>6, <1>7, <1>8 DEF TypesOK
  <1>13. QuotaOK => QuotaOK'
    BY <1>0, <1>1, <1>2, <1>5, <1>6, <1>7, ProcessQuota DEF Final, a
  <1> QED
    BY <1>9, <1>10, <1>11, <1>12, <1>13 DEF IndInv, StepOK

\* Another message than x is in the store as before, and so x shares its packet id with
\* one as before.
LEMMA OthersKept ==
  ASSUME TypesOK, NEW x \in Messages, \A n \in Messages \ {x} : msg'[n] = msg[n], msg'[x].id = msg[x].id,
         \A d \in Conns : svc'[d].db = svc[d].db
  PROVE  /\ \A n \in Messages \ {x} : Kept(svc', msg', n) <=> Kept(svc, msg, n)
         /\ Again(svc', msg', x) <=> Again(svc, msg, x)
  <1>1. ASSUME NEW n \in Messages \ {x} PROVE Kept(svc', msg', n) <=> Kept(svc, msg, n)
    <2>1. msg[n].conn \in Conns \cup {None}
      BY DEF TypesOK, States
    <2> QED
      BY <2>1 DEF Kept
  <1>2. \A n \in Messages \ {x} : msg'[n].id = msg'[x].id <=> msg[n].id = msg[x].id
    OBVIOUS
  <1> QED
    BY <1>1, <1>2 DEF Again

\* PUBREC.
LEMMA processPubrecStep ==
  ASSUME IndInv, NEW c \in Conns, processPubrec(c)
  PROVE  StepOK
  <1> DEFINE a == Head(svc[c].c2s)
             x == a.msg
             q == Marked(svc[c].pub2out, a.id, "PUBREC")
             i2 == Tail(svc[c].c2s)
             e == Packet("PUBREL", a.id, a.msg, 0)
             o2 == IF Up(c) THEN Append(svc[c].s2c, e) ELSE svc[c].s2c
             b == Cleared(c)
             s == [svc[c] EXCEPT !.c2s = i2, !.proc = "top", !.beyondQuota = b, !.pub2out = q, !.s2c = o2]
  <1>0. /\ TypesOK /\ IdsOK /\ WiresOK /\ ConnsOK /\ MsgsOK /\ CallsOK /\ StoreOK /\ QueuesOK
        /\ Handles(c, "PUBREC") /\ cur' = cur /\ pub' = pub
        /\ sec' = IF svc[c].db THEN sec \cup {a.id} ELSE sec
        /\ out' = Released(c, a.id) /\ msg' = [msg EXCEPT ![x].phase = "received"]
        /\ svc' = [svc EXCEPT ![c] = s]
    BY DEF IndInv, processPubrec
  <1>1. /\ svc[c].status \in {"up", "lost"} /\ svc[c].proc \in {"clear", "ack"} /\ ~(c > cur)
        /\ svc[c] \in Services /\ ConnOK(c, cur, svc[c])
        /\ a.type = "PUBREC" /\ AnswerOK(msg, c, a) /\ x \in Messages /\ a.id \in Ids
        /\ msg[x].conn = c /\ msg[x].id = a.id /\ msg[x] \in States
        /\ msg[x].phase \in {"cached", "received"} /\ MsgOK(cur, msg[x])
        /\ i2 \in Seq(FromClient) /\ svc[c].s2c \in Seq(ToClient) /\ NoPacket(x, svc[c].s2c, i2)
        /\ \A p \in Callers : pub[p].msg # None => pub[p].msg # x /\ NoPacket(pub[p].msg, svc[c].s2c, i2)
        /\ \A ms2 : (\A n \in Messages \ {x} : ms2[n] = msg[n]) => Carried(ms2, c, svc[c].s2c, i2)
    <2>1. IndInv /\ Handles(c, "PUBREC")
      BY <1>0
    <2>2. a = Head(svc[c].c2s) /\ x = a.msg /\ i2 = Tail(svc[c].c2s)
      OBVIOUS
    <2> HIDE DEF a, x, i2
    <2> QED
      BY <2>1, <2>2, HandleFacts
  <1> HIDE DEF a, i2
  <1>2. msg[x].phase = "cached" /\ QosOf[x] = 2
    BY <1>1 DEF AnswerOK
  <1>3. svc[c].pub1ack \in Seq(Entries(1)) /\ svc[c].pub2out \in Seq(Entries(2)) /\ b \in BOOLEAN
    BY <1>1 DEF Services, Cleared
  <1>4. q \in Seq(Entries(2))
    BY <1>3, MarkedFacts
  <1>5. /\ e \in ToClient /\ e.type = "PUBREL" /\ e.id = a.id /\ e.msg = x
        /\ o2 \in Seq(ToClient)
        /\ o2 = svc[c].s2c \/ Added(o2, svc[c].s2c, e, Len(svc[c].s2c) + 1)
    <2>1. e \in ToClient /\ e.type = "PUBREL" /\ e.id = a.id /\ e.msg = x
      BY <1>1 DEF Packet, ToClient
    <2> HIDE DEF e
    <2> QED
      BY <1>1, <2>1, Appended
  <1> HIDE DEF q, b, e, o2
  <1>6. /\ s \in Services /\ s.status = svc[c].status /\ s.c2s = i2 /\ s.s2c = o2
        /\ s.pub2out = q /\ s.pub1ack = svc[c].pub1ack
        /\ s.db = svc[c].db /\ s.proc = "top"
        /\ s.restored = svc[c].restored /\ s.refused = svc[c].refused
        /\ s.currQuota = svc[c].currQuota /\ s.pkid = svc[c].pkid
    BY <1>1, <1>3, <1>4, <1>5 DEF Services
  <1> HIDE DEF s
  <1>7. svc' \in [Conns -> Services] /\ svc'[c] = s /\ \A d \in Conns \ {c} : svc'[d] = svc[d]
    BY <1>0, <1>6 DEF TypesOK
  <1>8. /\ msg' \in [Messages -> States]
        /\ \A n \in Messages \ {x} : msg'[n] = msg[n]
        /\ msg'[x].conn = c /\ msg'[x].id = a.id /\ msg'[x].phase = "received"
        /\ msg'[x].retained = msg[x].retained
        /\ msg'[x].open = msg[x].open
    <2> DEFINE t == [msg[x] EXCEPT !.phase = "received"]
    <2>1. /\ t \in States /\ t.conn = c /\ t.id = a.id /\ t.phase = "received" /\ t.open = msg[x].open
          /\ t.retained = msg[x].retained
      BY <1>1, <1>2 DEF States, Phases
    <2>2. msg' = [msg EXCEPT ![x] = t]
      BY <1>0
    <2> HIDE DEF t
    <2> QED
      BY <1>0, <1>1, <2>1, <2>2 DEF TypesOK
  <1>9. /\ out' \in [Ids -> Messages \cup {None}] /\ sec' \subseteq Ids
        /\ svc[c].db => /\ out'[a.id] = None /\ \A i \in Ids : i # a.id => out'[i] = out[i]
                        /\ sec' = sec \cup {a.id}
        /\ ~svc[c].db => out' = out /\ sec' = sec
    BY <1>0, <1>1 DEF Released, TypesOK
  <1>10. ConnsOK' /\ MsgsOK' /\ CallsOK' /\ WiresOK' /\ IdsOK'
    <2>1. ConnOK(c, cur, svc'[c])
      BY <1>1, <1>6, <1>7 DEF ConnOK
    <2>2. MsgOK(cur, msg'[x])
      BY <1>1, <1>8, Numbers DEF MsgOK
    <2>3. Carried(msg', c, svc'[c].s2c, svc'[c].c2s)
      <3>1. Carried(msg', c, svc[c].s2c, i2)
        BY <1>1, <1>8
      <3>2. SentOK(msg', c, e)
        BY <1>2, <1>5, <1>8 DEF SentOK
      <3>3. Carried(msg', c, o2, i2)
        BY <1>1, <1>5, <3>1, <3>2, CarriedOut
      <3> QED
        BY <1>6, <1>7, <3>3
    <2>4. /\ \A p \in Callers : pub[p].msg # None => pub[p].msg # x
          /\ \A p \in Callers : pub[p].msg # None => NoPacket(pub[p].msg, svc'[c].s2c, svc'[c].c2s)
      <3>1. ASSUME NEW p \in Callers, pub[p].msg # None
            PROVE  pub[p].msg # x /\ NoPacket(pub[p].msg, o2, i2)
        <4>1. pub[p].msg # x /\ NoPacket(pub[p].msg, svc[c].s2c, i2)
          BY <1>1, <3>1
        <4> QED
          BY <1>5, <4>1, NoPacketAdded
      <3> QED
        BY <1>6, <1>7, <3>1
    <2>5. svc'[c].pkid = svc[c].pkid /\ x \in Messages /\ msg[x].conn = c /\ cur' = cur /\ pub' = pub
      BY <1>0, <1>1, <1>6, <1>7
    <2> HIDE DEF x
    <2> QED
      BY <1>7, <1>8, <2>1, <2>2, <2>3, <2>4, <2>5, MessageFrame
  <1>11. StoreOK'
    <2>1. svc'[c].db = svc[c].db
      BY <1>6, <1>7
    <2>2. (Kept(svc', msg', x) <=> svc[c].db) /\ (Kept(svc, msg, x) <=> svc[c].db)
      BY <1>1, <1>2, <1>8, <2>1, Numbers DEF Kept, Stored
    <2>3. RecordOK(svc', msg', out', sec', x)
      BY <1>8, <1>9, <2>2 DEF RecordOK
    <2>4. /\ Kept(svc, msg, x) => /\ msg'[x].phase \in Stored
                                  /\ msg[x].phase # "cached" => msg'[x].phase # "cached"
          /\ \/ out' = out /\ sec' = sec
             \/ /\ Kept(svc', msg', x)
                /\ \A i \in Ids : i # msg'[x].id => out'[i] = out[i] /\ (i \in sec' <=> i \in sec)
          /\ sec' \subseteq sec \cup {msg'[x].id}
          /\ msg'[x].id \in sec' => \/ msg'[x].id \in sec
                                    \/ Kept(svc', msg', x) /\ msg'[x].phase \in {"received", "done"}
      BY <1>8, <1>9, <2>2 DEF Stored
    <2>5. \A d \in Conns : /\ svc'[d].db = svc[d].db
                           /\ svc'[d].status = "failed" => svc[d].status = "failed" /\ svc'[d].c2s = svc[d].c2s
      BY <1>1, <1>6, <1>7
    <2>6. /\ x \in Messages /\ msg'[x].conn = msg[x].conn /\ msg'[x].id = msg[x].id
          /\ \A n \in Messages \ {x} : msg'[n] = msg[n]
      BY <1>1, <1>8
    <2> HIDE DEF x
    <2> QED
      BY <1>0, <2>3, <2>4, <2>5, <2>6, StoreStep
  <1>12. QueuesOK'
    <2>1. ASSUME Unlike(msg, c), QueueOK(msg, c, svc[c].pub1ack), QueueOK(msg, c, svc[c].pub2out)
          PROVE  QueueOK(msg', c, svc'[c].pub1ack) /\ QueueOK(msg', c, svc'[c].pub2out)
      <3>1. QueueOK(msg', c, q)
        BY <1>1, <1>3, <1>8, <2>1, QueueReceived DEF q
      <3>2. \A k \in DOMAIN svc[c].pub1ack : msg'[svc[c].pub1ack[k].msg] = msg[svc[c].pub1ack[k].msg]
        BY <1>2, <1>3, <1>8, EntryFacts
      <3>3. QueueOK(msg', c, svc[c].pub1ack)
        BY <2>1, <3>2, QueueOther
      <3> QED
        BY <1>6, <1>7, <3>1, <3>3
    <2>2. /\ svc'[c].restored = svc[c].restored /\ TypesOK /\ QueuesOK /\ x \in Messages
          /\ msg[x].conn = c /\ msg'[x].conn = c /\ msg'[x].id = msg[x].id
          /\ \A n \in Messages \ {x} : msg'[n] = msg[n]
          /\ \A d \in Conns \ {c} : svc'[d] = svc[d]
      BY <1>0, <1>1, <1>6, <1>7, <1>8
    <2> HIDE DEF x
    <2> QED
      BY <2>1, <2>2, QueuesStep
  <1>13. TypesOK'
    BY <1>0, <1>7, <1>8, <1>9 DEF TypesOK
  <1>14. QuotaOK => QuotaOK'
    <2>1. /\ svc'[c].proc = "top" /\ svc'[c].status = svc[c].status /\ svc'[c].refused = svc[c].refused
          /\ svc'[c].currQuota = svc[c].currQuota
      BY <1>6, <1>7
    <2>2. /\ svc[c].proc \in {"clear", "ack"} /\ a.msg \in Messages /\ msg[a.msg].conn = c /\ pub' = pub
          /\ msg[a.msg].phase = "cached" /\ a.type \notin Final /\ a = Head(svc[c].c2s)
      BY <1>0, <1>1, <1>2 DEF Final, a
    <2> QED
      BY <1>7, <1>8, <2>1, <2>2, ProcessQuota
  <1> QED
    BY <1>10, <1>11, <1>12, <1>13, <1>14 DEF IndInv, StepOK

\* PUBCOMP.
LEMMA processPubcompStep ==
  ASSUME IndInv, NEW c \in Conns, processPubcomp(c)
  PROVE  StepOK
  <1> DEFINE a == Head(svc[c].c2s)
             x == a.msg
             q == Acked(Marked(svc[c].pub2out, a.id, "PUBCOMP"))
             i2 == Tail(svc[c].c2s)
             b == Cleared(c)
             s == [svc[c] EXCEPT !.c2s = i2, !.proc = "top", !.beyondQuota = b, !.pub2out = q]
  <1>0. /\ TypesOK /\ IdsOK /\ WiresOK /\ ConnsOK /\ MsgsOK /\ CallsOK /\ StoreOK /\ QueuesOK
        /\ Handles(c, "PUBCOMP") /\ cur' = cur /\ pub' = pub /\ out' = out
        /\ sec' = IF svc[c].db THEN sec \ {a.id} ELSE sec
        /\ msg' = [msg EXCEPT ![x].phase = "done"]
        /\ svc' = [svc EXCEPT ![c] = s]
    BY DEF IndInv, processPubcomp
  <1>1. /\ svc[c].status \in {"up", "lost"} /\ svc[c].proc \in {"clear", "ack"} /\ ~(c > cur)
        /\ svc[c] \in Services /\ ConnOK(c, cur, svc[c])
        /\ a.type = "PUBCOMP" /\ AnswerOK(msg, c, a) /\ x \in Messages /\ a.id \in Ids
        /\ msg[x].conn = c /\ msg[x].id = a.id /\ msg[x] \in States
        /\ msg[x].phase \in {"cached", "received"} /\ MsgOK(cur, msg[x])
        /\ i2 \in Seq(FromClient)
        /\ \A p \in Callers : pub[p].msg # None => pub[p].msg # x /\ NoPacket(pub[p].msg, svc[c].s2c, i2)
        /\ \A ms2 : (\A n \in Messages \ {x} : ms2[n] = msg[n]) => Carried(ms2, c, svc[c].s2c, i2)
    <2>1. IndInv /\ Handles(c, "PUBCOMP")
      BY <1>0
    <2>2. a = Head(svc[c].c2s) /\ x = a.msg /\ i2 = Tail(svc[c].c2s)
      OBVIOUS
    <2> HIDE DEF a, x, i2
    <2> QED
      BY <2>1, <2>2, HandleFacts
  <1> HIDE DEF a, i2
  <1>2. msg[x].phase = "received" /\ QosOf[x] = 2 /\ ~msg[x].open
    BY <1>1 DEF AnswerOK, Final
  <1>3. svc[c].pub1ack \in Seq(Entries(1)) /\ svc[c].pub2out \in Seq(Entries(2)) /\ b \in BOOLEAN
    BY <1>1 DEF Services, Cleared
  <1>4. q \in Seq(Entries(2))
    BY <1>3, MarkedFacts, AckedFacts
  <1> HIDE DEF q, b
  <1>5. /\ s \in Services /\ s.status = svc[c].status /\ s.c2s = i2 /\ s.s2c = svc[c].s2c
        /\ s.pub2out = q /\ s.pub1ack = svc[c].pub1ack
        /\ s.db = svc[c].db /\ s.proc = "top"
        /\ s.restored = svc[c].restored /\ s.refused = svc[c].refused
        /\ s.currQuota = svc[c].currQuota /\ s.pkid = svc[c].pkid
    BY <1>1, <1>3, <1>4 DEF Services
  <1> HIDE DEF s
  <1>6. svc' \in [Conns -> Services] /\ svc'[c] = s /\ \A d \in Conns \ {c} : svc'[d] = svc[d]
    BY <1>0, <1>5 DEF TypesOK
  <1>7. /\ msg' \in [Messages -> States]
        /\ \A n \in Messages \ {x} : msg'[n] = msg[n]
        /\ msg'[x].conn = c /\ msg'[x].id = a.id /\ msg'[x].phase = "done" /\ ~msg'[x].open
        /\ msg'[x].retained = msg[x].retained
    <2> DEFINE t == [msg[x] EXCEPT !.phase = "done"]
    <2>1. /\ t \in States /\ t.conn = c /\ t.id = a.id /\ t.phase = "done" /\ ~t.open
          /\ t.retained = msg[x].retained
      BY <1>1, <1>2 DEF States, Phases
    <2>2. msg' = [msg EXCEPT ![x] = t]
      BY <1>0
    <2> HIDE DEF t
    <2> QED
      BY <1>0, <1>1, <2>1, <2>2 DEF TypesOK
  <1>8. /\ sec' \subseteq Ids
        /\ svc[c].db => sec' = sec \ {a.id}
        /\ ~svc[c].db => sec' = sec
    BY <1>0, <1>1 DEF TypesOK
  <1>9. ConnsOK' /\ MsgsOK' /\ CallsOK' /\ WiresOK' /\ IdsOK'
    <2>1. ConnOK(c, cur, svc'[c])
      BY <1>1, <1>5, <1>6 DEF ConnOK
    <2>2. MsgOK(cur, msg'[x])
      BY <1>1, <1>7, Numbers DEF MsgOK
    <2>3. Carried(msg', c, svc'[c].s2c, svc'[c].c2s)
      BY <1>1, <1>5, <1>6, <1>7
    <2>4. /\ \A p \in Callers : pub[p].msg # None => pub[p].msg # x
          /\ \A p \in Callers : pub[p].msg # None => NoPacket(pub[p].msg, svc'[c].s2c, svc'[c].c2s)
      BY <1>1, <1>5, <1>6
    <2>5. svc'[c].pkid = svc[c].pkid /\ x \in Messages /\ msg[x].conn = c /\ cur' = cur /\ pub' = pub
      BY <1>0, <1>1, <1>5, <1>6
    <2> HIDE DEF x
    <2> QED
      BY <1>6, <1>7, <2>1, <2>2, <2>3, <2>4, <2>5, MessageFrame
  <1>10. StoreOK'
    <2>1. \A d \in Conns : /\ svc'[d].db = svc[d].db
                           /\ svc'[d].status = "failed" => svc[d].status = "failed" /\ svc'[d].c2s = svc[d].c2s
      BY <1>1, <1>5, <1>6
    <2>2. (Kept(svc', msg', x) <=> svc[c].db) /\ (Kept(svc, msg, x) <=> svc[c].db)
      BY <1>1, <1>2, <1>7, <2>1, Numbers DEF Kept, Stored
    <2>3. RecordOK(svc', msg', out', sec', x)
      <3> SUFFICES ASSUME Kept(svc', msg', x), ~Again(svc', msg', x)
                   PROVE  out'[a.id] = None /\ a.id \notin sec'
        BY <1>7 DEF RecordOK
      <3>1. ~Again(svc, msg, x)
        BY <1>0, <1>1, <1>7, <2>1, OthersKept
      <3>2. RecordOK(svc, msg, out, sec, x)
        BY <1>0, <1>1 DEF StoreOK
      <3>3. out[a.id] = None
        BY <1>1, <1>2, <2>2, <3>1, <3>2 DEF RecordOK
      <3> QED
        BY <1>0, <1>8, <2>2, <3>3
    <2>4. /\ Kept(svc, msg, x) => /\ msg'[x].phase \in Stored
                                  /\ msg[x].phase # "cached" => msg'[x].phase # "cached"
          /\ \/ out' = out /\ sec' = sec
             \/ /\ Kept(svc', msg', x)
                /\ \A i \in Ids : i # msg'[x].id => out'[i] = out[i] /\ (i \in sec' <=> i \in sec)
          /\ sec' \subseteq sec \cup {msg'[x].id}
          /\ msg'[x].id \in sec' => \/ msg'[x].id \in sec
                                    \/ Kept(svc', msg', x) /\ msg'[x].phase \in {"received", "done"}
      BY <1>0, <1>7, <1>8, <2>2 DEF Stored
    <2>6. /\ x \in Messages /\ msg'[x].conn = msg[x].conn /\ msg'[x].id = msg[x].id
          /\ \A n \in Messages \ {x} : msg'[n] = msg[n]
      BY <1>1, <1>7
    <2> HIDE DEF x
    <2> QED
      BY <1>0, <2>1, <2>3, <2>4, <2>6, StoreStep
  <1>11. QueuesOK'
    <2>1. ASSUME Unlike(msg, c), QueueOK(msg, c, svc[c].pub1ack), QueueOK(msg, c, svc[c].pub2out)
          PROVE  QueueOK(msg', c, svc'[c].pub1ack) /\ QueueOK(msg', c, svc'[c].pub2out)
      <3>1. QueueOK(msg', c, q)
        BY <1>1, <1>3, <1>7, <2>1, QueueFinal DEF Final, q
      <3>2. \A k \in DOMAIN svc[c].pub1ack : msg'[svc[c].pub1ack[k].msg] = msg[svc[c].pub1ack[k].msg]
        BY <1>2, <1>3, <1>7, EntryFacts
      <3>3. QueueOK(msg', c, svc[c].pub1ack)
        BY <2>1, <3>2, QueueOther
      <3> QED
        BY <1>5, <1>6, <3>1, <3>3
    <2>2. /\ svc'[c].restored = svc[c].restored /\ TypesOK /\ QueuesOK /\ x \in Messages
          /\ msg[x].conn = c /\ msg'[x].conn = c /\ msg'[x].id = msg[x].id
          /\ \A n \in Messages \ {x} : msg'[n] = msg[n]
          /\ \A d \in Conns \ {c} : svc'[d] = svc[d]
      BY <1>0, <1>1, <1>5, <1>6, <1>7
    <2> HIDE DEF x
    <2> QED
      BY <2>1, <2>2, QueuesStep
  <1>12. TypesOK'
    BY <1>0, <1>6, <1>7, <1>8 DEF TypesOK
  <1>13. QuotaOK => QuotaOK'
    BY <1>0, <1>1, <1>2, <1>5, <1>6, <1>7, ProcessQuota DEF Final, a
  <1> QED
    BY <1>9, <1>10, <1>11, <1>12, <1>13 DEF IndInv, StepOK

\* The records of one QoS make up a queue, whatever the order they are taken in.
LEMMA RestoredQueue ==
  ASSUME TypesOK, NEW two \in BOOLEAN, NEW S, S \subseteq Restorable(two), NEW q \in SetToSeqs(S)
  PROVE  q \in Seq(Entries(IF two THEN 2 ELSE 1))
  <1> DEFINE E == Entries(IF two THEN 2 ELSE 1)
             f == [e \in S |-> e.id]
  <1>1. \A e \in Restorable(two) :
          \E i \in Ids : e = Entry(out[i], i) /\ out[i] # None /\ (QosOf[out[i]] = 2) = two
    BY DEF Restorable
  <1>2. ASSUME NEW e \in S PROVE e \in E /\ e.id \in Ids /\ e = Entry(out[e.id], e.id)
    <2>1. PICK i \in Ids : e = Entry(out[i], i) /\ out[i] # None /\ (QosOf[out[i]] = 2) = two
      BY <1>1
    <2>2. e.id = i /\ e.msg = out[i] /\ e.state = "RESERVED" /\ e = [id |-> i, msg |-> out[i], state |-> "RESERVED"]
      BY <2>1 DEF Entry
    <2>3. out[i] \in Messages
      BY <2>1 DEF TypesOK
    <2>4. out[i] \in OfQos(IF two THEN 2 ELSE 1)
      BY <2>1, <2>3, Numbers DEF OfQos
    <2> QED
      BY <2>1, <2>2, <2>4 DEF Entries
  <1>3. f \in Injection(S, Ids)
    BY <1>2 DEF Injection, IsInjective
  <1>4. IsFiniteSet(Ids)
    <2> DEFINE T == {RetainedId[m] : m \in DOMAIN RetainedId}
               g == [m \in DOMAIN RetainedId |-> RetainedId[m]]
    <2>1. 2 \in Int /\ MaxId + Cardinality(Publishers) \in Int
      BY Numbers, OutFlowAssumption
    <2>2. IsFiniteSet(DOMAIN RetainedId)
      BY Numbers, OutFlowAssumption, FS_Subset
    <2>3. g \in Surjection(DOMAIN RetainedId, T)
      BY DEF Surjection
    <2> HIDE DEF g
    <2>4. IsFiniteSet(T)
      BY <2>2, <2>3, FS_Surjection
    <2>5. IsFiniteSet(2..(MaxId + Cardinality(Publishers)))
      BY <2>1, FS_Interval
    <2> QED
      BY <2>4, <2>5, FS_Union DEF Ids
  <1>5. IsFiniteSet(S)
    BY <1>3, <1>4, FS_Injection
  <1>6. Cardinality(S) \in Nat
    BY <1>5, FS_CardinalityType
  <1>7. q \in [1..Cardinality(S) -> S]
    BY DEF SetToSeqs
  <1>8. q \in [1..Cardinality(S) -> E]
    BY <1>2, <1>7
  <1> QED
    BY <1>6, <1>8, IsASeq

\* No message is of a connection that has not begun, and no publisher calls its onpub.
LEMMA Unbegun ==
  ASSUME TypesOK, MsgsOK, CallsOK, NEW c, c = cur + 1
  PROVE  /\ \A n \in Messages : msg[n].conn # c
         /\ \A p \in Callers : pub[p].pc # "idle" => pub[p].conn # c
  <1>1. ASSUME NEW n \in Messages PROVE msg[n].conn # c
    <2>1. msg[n].conn <= cur /\ msg[n].conn \in Conns \cup {None} /\ cur \in 0..MaxConns /\ MaxConns \in Nat
      BY OutFlowAssumption DEF MsgsOK, MsgOK, TypesOK, States
    <2> QED
      BY <2>1 DEF Conns, None
  <1>2. ASSUME NEW p \in Callers, pub[p].pc # "idle" PROVE pub[p].conn # c
    <2>1. pub[p].msg \in Messages /\ msg[pub[p].msg].conn = pub[p].conn
      BY <1>2 DEF CallsOK, CallOK
    <2> QED
      BY <1>1, <2>1
  <1> QED
    BY <1>1, <1>2

\* A new connection.
LEMMA ConnectStep ==
  ASSUME IndInv, NEW db \in BOOLEAN, Connect(db)
  PROVE  StepOK
  <1> DEFINE c == cur + 1
  <1>0. /\ TypesOK /\ IdsOK /\ WiresOK /\ ConnsOK /\ MsgsOK /\ CallsOK /\ StoreOK /\ QueuesOK
        /\ ~ClientUp /\ cur < MaxConns /\ cur' = c /\ pub' = pub /\ out' = out /\ sec' = sec /\ msg' = msg
    BY DEF IndInv, Connect
  <1>1. PICK q1 \in SetToSeqs(IF db THEN Restorable(FALSE) ELSE {}),
             q2 \in SetToSeqs(IF db THEN Restorable(TRUE) ELSE {}) :
          svc' = [svc EXCEPT ![c] = [NoService EXCEPT !.status = "up", !.db = db,
                                       !.pub1ack = q1, !.pub2out = q2,
                                       !.restored = (q1 \o q2) # <<>>]]
    BY DEF Connect
  <1>2. c \in Conns /\ cur \in 0..MaxConns /\ c \in 0..MaxConns /\ MaxConns \in Nat
    BY <1>0, OutFlowAssumption DEF TypesOK, Conns
  <1>3. q1 \in Seq(Entries(1)) /\ q2 \in Seq(Entries(2))
    <2>1. (IF db THEN Restorable(FALSE) ELSE {}) \subseteq Restorable(FALSE)
      OBVIOUS
    <2>2. (IF db THEN Restorable(TRUE) ELSE {}) \subseteq Restorable(TRUE)
      OBVIOUS
    <2>3. q1 \in Seq(Entries(1))
      BY <1>0, <2>1, RestoredQueue
    <2>4. q2 \in Seq(Entries(2))
      BY <1>0, <2>2, RestoredQueue
    <2> QED
      BY <2>3, <2>4
  <1> DEFINE r == (q1 \o q2) # <<>>
             s == [NoService EXCEPT !.status = "up", !.db = db, !.pub1ack = q1, !.pub2out = q2,
                                    !.restored = r]
  <1>4. ~r => q1 = <<>> /\ q2 = <<>>
    <2>1. q1 \in Seq(Entries(1) \cup Entries(2)) /\ q2 \in Seq(Entries(1) \cup Entries(2))
      BY <1>3
    <2> QED
      BY <2>1, ConcatEqualIffEmpty
  <1>5. svc' = [svc EXCEPT ![c] = s] /\ r \in BOOLEAN
    BY <1>1
  <1> HIDE DEF r
  <1>6. /\ s \in Services /\ s.status = "up" /\ s.c2s = <<>> /\ s.s2c = <<>>
        /\ s.pub1ack = q1 /\ s.pub2out = q2 /\ s.db = db /\ s.proc = "top"
        /\ s.restored = r /\ s.refused = FALSE /\ s.currQuota = Quota /\ s.pkid = 1
    <2>1. /\ 1 \in 1..(MaxId + Cardinality(Publishers)) /\ Quota \in Int
          /\ <<>> \in Seq(ToClient) /\ <<>> \in Seq(FromClient)
      BY Numbers, OutFlowAssumption, EmptySeq
    <2> QED
      BY <1>3, <1>5, <2>1 DEF Services, NoService
  <1> HIDE DEF s, c
  <1>7. svc' \in [Conns -> Services] /\ svc'[c] = s /\ \A d \in Conns \ {c} : svc'[d] = svc[d]
    BY <1>0, <1>2, <1>5, <1>6 DEF TypesOK
  <1>8. /\ \A n \in Messages : msg[n].conn # c
        /\ \A p \in Callers : pub[p].pc # "idle" => pub[p].conn # c
    BY <1>0, Unbegun DEF c
  <1>9. TypesOK' /\ CallsOK'
    BY <1>0, <1>2, <1>7 DEF TypesOK, CallsOK
  <1>10. ConnsOK'
    <2> SUFFICES ASSUME NEW d \in Conns PROVE ConnOK(d, c, svc'[d])
      BY <1>0 DEF ConnsOK
    <2>1. CASE d = c
      BY <1>2, <1>6, <1>7, <2>1 DEF ConnOK
    <2>2. CASE d # c
      <3>1. svc'[d] = svc[d] /\ ConnOK(d, cur, svc[d])
        BY <1>0, <1>7, <2>2 DEF ConnsOK
      <3>2. d > c => d > cur
        BY <1>2 DEF c, Conns
      <3>3. svc[d].status # "up"
        <4>1. svc[d].status = "up" => d = cur /\ cur > 0
          BY <3>1 DEF ConnOK, Conns
        <4> QED
          BY <1>0, <4>1 DEF ClientUp, Up
      <3> QED
        BY <3>1, <3>2, <3>3 DEF ConnOK
    <2> QED
      BY <2>1, <2>2
  <1>11. MsgsOK'
    <2> SUFFICES ASSUME NEW n \in Messages PROVE MsgOK(c, msg[n])
      BY <1>0 DEF MsgsOK
    <2>1. MsgOK(cur, msg[n]) /\ msg[n].conn \in Conns \cup {None}
      BY <1>0 DEF MsgsOK, TypesOK, States
    <2>2. msg[n].conn <= c
      BY <1>2, <2>1 DEF MsgOK, Conns, None, c
    <2> QED
      BY <2>1, <2>2 DEF MsgOK
  <1>12. WiresOK'
    <2> SUFFICES ASSUME NEW d \in Conns
                 PROVE  /\ Carried(msg, d, svc'[d].s2c, svc'[d].c2s)
                        /\ \A p \in Callers : pub[p].msg # None => NoPacket(pub[p].msg, svc'[d].s2c, svc'[d].c2s)
      BY <1>0 DEF WiresOK
    <2>1. CASE d = c
      <3>1. svc'[d].s2c = <<>> /\ svc'[d].c2s = <<>>
        BY <1>6, <1>7, <2>1
      <3> QED
        BY <3>1 DEF Carried, OnePacket, NoPacket
    <2>2. CASE d # c
      BY <1>0, <1>7, <2>2 DEF WiresOK
    <2> QED
      BY <2>1, <2>2
  <1>13. IdsOK'
    <2> SUFFICES ASSUME NEW d \in Conns PROVE svc'[d].pkid <= MaxId + Cardinality(Wrapping(pub, d))
      BY <1>0 DEF IdsOK
    <2>1. CASE d = c
      <3>1. IsFiniteSet(Publishers) /\ Wrapping(pub, d) \in SUBSET Publishers /\ MaxId \in Nat \ {0, 1}
        BY OutFlowAssumption DEF Wrapping
      <3>2. Cardinality(Wrapping(pub, d)) \in Nat
        BY <3>1, FS_Subset, FS_CardinalityType
      <3> QED
        BY <1>6, <1>7, <2>1, <3>1, <3>2
    <2>2. CASE d # c
      BY <1>0, <1>7, <2>2 DEF IdsOK
    <2> QED
      BY <2>1, <2>2
  <1>14. StoreOK'
    <2>1. Early(msg, msg) /\ SameDb(svc', svc, msg)
      <3>1. \A n \in Messages : msg[n].conn # None => msg[n].conn \in Conns \ {c}
        BY <1>0, <1>8 DEF TypesOK, States
      <3> QED
        BY <1>7, <3>1 DEF Early, SameDb
    <2>2. \A m \in Messages : RecordOK(svc, msg, out, sec, m)
      BY <1>0 DEF StoreOK
    <2>3. Later(svc', msg, svc, msg) /\ \A m \in Messages : RecordOK(svc', msg, out, sec, m)
      BY <2>1, <2>2, RecordsFrame
    <2>4. \A i \in sec : \E n \in Messages : /\ Kept(svc', msg, n) /\ msg[n].id = i
                                             /\ msg[n].phase \in {"received", "done"}
      BY <1>0, <2>3 DEF StoreOK, Later
    <2>5. ASSUME NEW d \in Conns, svc'[d].status = "failed"
          PROVE  Again(svc', msg, Head(svc'[d].c2s).msg)
      <3>1. d # c
        BY <1>6, <1>7, <2>5
      <3>2. Again(svc, msg, Head(svc'[d].c2s).msg)
        BY <1>0, <1>7, <2>5, <3>1 DEF StoreOK
      <3> QED
        BY <2>3, <3>2 DEF Again, Later
    <2> QED
      BY <1>0, <2>3, <2>4, <2>5 DEF StoreOK
  <1>15. QueuesOK'
    <2> SUFFICES ASSUME NEW d \in Conns, ~svc'[d].restored, Unlike(msg, d)
                 PROVE  QueueOK(msg, d, svc'[d].pub1ack) /\ QueueOK(msg, d, svc'[d].pub2out)
      BY <1>0 DEF QueuesOK
    <2>1. CASE d = c
      <3>1. svc'[d].pub1ack = <<>> /\ svc'[d].pub2out = <<>>
        BY <1>4, <1>6, <1>7, <2>1
      <3> QED
        BY <3>1 DEF QueueOK
    <2>2. CASE d # c
      BY <1>0, <1>7, <2>2 DEF QueuesOK
    <2> QED
      BY <2>1, <2>2
  <1>16. ASSUME QuotaOK PROVE QuotaOK'
    <2>1. /\ Held(msg, c, svc'[c]) = {} /\ Back(msg, c, svc'[c]) = {}
          /\ Open(msg, c) = {} /\ Unpaid(msg, c) = {} /\ Cardinality({}) = 0 /\ Quota \in Nat
      BY <1>8, FS_EmptySet, OutFlowAssumption DEF Held, Holds, Back, Open, Unpaid
    <2>2. Account(msg, c, svc'[c]) /\ Bounded(msg, c)
      BY <1>6, <1>7, <2>1 DEF Account, Units, Bounded
    <2> SUFFICES ASSUME NEW d \in Conns
                 PROVE  /\ svc'[d].status \in {"up", "lost"} => Account(msg, d, svc'[d])
                        /\ \A p \in Callers : pub[p].pc \in {"over", "zero"} /\ pub[p].conn = d => svc'[d].refused
                        /\ Bounded(msg, d)
      BY <1>0 DEF QuotaOK
    <2>3. CASE d = c
      BY <1>8, <2>2, <2>3
    <2>4. CASE d # c
      BY <1>7, <1>16, <2>4 DEF QuotaOK
    <2> QED
      BY <2>3, <2>4
  <1> QED
    BY <1>9, <1>10, <1>11, <1>12, <1>13, <1>14, <1>15, <1>16 DEF IndInv, StepOK

-----------------------------------------------------------------------------
\* The invariant holds at first.
LEMMA InitInv == Init => IndInv /\ QuotaOK
  <1> SUFFICES ASSUME Init PROVE IndInv /\ QuotaOK
    OBVIOUS
  <1>0. /\ svc = [c \in Conns |-> NoService] /\ cur = 0 /\ pub = [p \in Callers |-> Idle]
        /\ out = [i \in Ids |-> None] /\ sec = {} /\ msg = [m \in Messages |-> Fresh]
    BY DEF Init
  <1>1. \A c \in Conns : svc[c] = NoService
    BY <1>0
  <1>2. /\ NoService \in Services /\ NoService.status = "none" /\ NoService.s2c = <<>> /\ NoService.c2s = <<>>
        /\ NoService.pub1ack = <<>> /\ NoService.pub2out = <<>> /\ NoService.pkid = 1
    <2>1. /\ 1 \in 1..(MaxId + Cardinality(Publishers)) /\ Quota \in Int
          /\ <<>> \in Seq(ToClient) /\ <<>> \in Seq(FromClient)
          /\ <<>> \in Seq(Entries(1)) /\ <<>> \in Seq(Entries(2))
      BY Numbers, OutFlowAssumption, EmptySeq
    <2> QED
      BY <2>1 DEF Services, NoService
  <1>3. /\ \A m \in Messages : msg[m] = Fresh
        /\ Fresh \in States /\ Fresh.conn = None /\ Fresh.phase = "new" /\ Fresh.open = FALSE
        /\ Fresh.retained = FALSE
    BY <1>0 DEF Fresh, States, Phases
  <1>4. /\ \A p \in Callers : pub[p] = Idle
        /\ Idle \in Calls /\ Idle.pc = "idle" /\ Idle.conn = None /\ Idle.msg = None
    BY <1>0 DEF Idle, Calls
  <1>5. TypesOK
    <2>1. 0 \in 0..MaxConns
      BY OutFlowAssumption
    <2> QED
      BY <1>0, <1>2, <1>3, <1>4, <2>1 DEF TypesOK
  <1>6. ConnsOK
    BY <1>1, <1>2 DEF ConnsOK, ConnOK
  <1>7. MsgsOK
    BY <1>0, <1>3 DEF MsgsOK, MsgOK, None, Stored
  <1>8. CallsOK
    BY <1>4 DEF CallsOK, CallOK
  <1>9. WiresOK
    BY <1>1, <1>2, <1>4 DEF WiresOK, Carried, OnePacket, NoPacket
  <1>10. IdsOK
    <2> SUFFICES ASSUME NEW d \in Conns PROVE svc[d].pkid <= MaxId + Cardinality(Wrapping(pub, d))
      BY DEF IdsOK
    <2>1. IsFiniteSet(Publishers) /\ Wrapping(pub, d) \in SUBSET Publishers /\ MaxId \in Nat \ {0, 1}
      BY OutFlowAssumption DEF Wrapping
    <2>2. Cardinality(Wrapping(pub, d)) \in Nat
      BY <2>1, FS_Subset, FS_CardinalityType
    <2> QED
      BY <1>1, <1>2, <2>1, <2>2
  <1>11. StoreOK
    BY <1>0, <1>1, <1>2, <1>3 DEF StoreOK, RecordOK, Kept
  <1>12. QueuesOK
    BY <1>1, <1>2 DEF QueuesOK, QueueOK
  <1>13. QuotaOK
    <2> SUFFICES ASSUME NEW d \in Conns PROVE Bounded(msg, d)
      BY <1>1, <1>2, <1>4 DEF QuotaOK
    <2>1. Open(msg, d) = {} /\ Unpaid(msg, d) = {} /\ Cardinality({}) = 0 /\ Quota \in Nat
      BY <1>3, FS_EmptySet, OutFlowAssumption DEF Open, Unpaid
    <2> QED
      BY <2>1 DEF Bounded
  <1> QED
    BY <1>5, <1>6, <1>7, <1>8, <1>9, <1>10, <1>11, <1>12, <1>13 DEF IndInv

\* Every step keeps the invariant.
LEMMA NextInv == IndInv /\ [Next]_vars => StepOK
  <1> SUFFICES ASSUME IndInv, [Next]_vars PROVE StepOK
    OBVIOUS
  <1>1. CASE \E p \in Publishers : onpub(p)
    <2>1. PICK p \in Publishers : onpub(p)
      BY <1>1
    <2> QED
      BY <2>1, ReqQuotaStep, TakeQuotaStep, SetBeyondQuotaStep, ZeroQuotaStep, TakeIdStep,
         WrapIdStep, Numbers DEF onpub
  <1>2. CASE \E p \in Publishers, c \in Conns : lookSend(p, c)
    BY <1>2, lookSendStep, Numbers
  <1>3. CASE ClientAnswer
    BY <1>3, ClientAnswerStep
  <1>4. CASE LoseConnection
    BY <1>4, LoseConnectionStep
  <1>5. CASE \E c \in Conns : streamController(c) \/ AddQuota(c) \/ AckFails(c) \/ stop(c)
    BY <1>5, streamControllerStep, AddQuotaStep, AckFailsStep, stopStep
  <1>6. CASE \E c \in Conns : processPuback(c) \/ processPubrec(c) \/ processPubcomp(c)
    BY <1>6, processPubackStep, processPubrecStep, processPubcompStep
  <1>7. CASE \E db \in BOOLEAN : Connect(db)
    BY <1>7, ConnectStep
  <1>8. CASE \E p \in Callers : publish(p)
    BY <1>8, CacheOutflowMsgStep, WaitStep, writeMessageStep DEF publish
  <1>9. CASE \E c \in Conns : SendRetained(c) \/ processSubscribe(c)
    BY <1>9, SendRetainedStep, processSubscribeStep
  <1>10. CASE UNCHANGED vars
    <2>1. svc' = svc /\ cur' = cur /\ pub' = pub /\ out' = out /\ sec' = sec /\ msg' = msg
      BY <1>10 DEF vars
    <2>2. TypesOK' /\ ConnsOK' /\ MsgsOK' /\ CallsOK'
      BY <2>1 DEF IndInv, TypesOK, ConnsOK, MsgsOK, CallsOK
    <2>3. WiresOK' /\ IdsOK'
      BY <2>1 DEF IndInv, WiresOK, IdsOK
    <2>4. StoreOK' /\ QueuesOK'
      BY <2>1 DEF IndInv, StoreOK, QueuesOK
    <2>5. QuotaOK => QuotaOK'
      BY <2>1 DEF QuotaOK
    <2> QED
      BY <2>2, <2>3, <2>4, <2>5 DEF IndInv, StepOK
  <1> QED
    BY <1>1, <1>2, <1>3, <1>4, <1>5, <1>6, <1>7, <1>8, <1>9, <1>10 DEF Next

\* The inductive invariant holds in every state ...
LEMMA Invariance == Spec => []IndInv
  <1>1. Init => IndInv
    BY InitInv
  <1>2. IndInv /\ [Next]_vars => IndInv'
    BY NextInv DEF StepOK
  <1> QED
    BY <1>1, <1>2, PTL DEF Spec

\* ... and the account balances in every state if no PUBREC returns a unit.
LEMMA QuotaInvariance == ASSUME PubrecsPlain PROVE Spec => [](IndInv /\ QuotaOK)
  <1>1. Init => IndInv /\ QuotaOK
    BY InitInv
  <1>2. (IndInv /\ QuotaOK) /\ [Next]_vars => (IndInv /\ QuotaOK)'
    BY NextInv DEF StepOK
  <1> QED
    BY <1>1, <1>2, PTL DEF Spec

-----------------------------------------------------------------------------
\* The states of the services, the publishers, the store and the messages: pkid is never
\* beyond what the publishers between AddUint32 and StoreUint32 can take it to, and each
\* ack queue has messages of its QoS only.
THEOREM TypeCorrect == Spec => []TypeOK
  <1>1. ASSUME IndInv PROVE TypeOK
    <2>0. TypesOK /\ WiresOK
      BY <1>1 DEF IndInv
    <2>1. ASSUME NEW c \in Conns
          PROVE  /\ svc[c].status \in {"none", "up", "lost", "failed", "gone"}
                 /\ svc[c].currQuota \in Int
                 /\ svc[c].pkid \in 1..(MaxId + Cardinality(Publishers))
                 /\ \A k \in DOMAIN svc[c].pub1ack : QosOf[svc[c].pub1ack[k].msg] = 1
                 /\ \A k \in DOMAIN svc[c].pub2out : QosOf[svc[c].pub2out[k].msg] = 2
      <3>1. /\ svc[c] \in Services
            /\ svc[c].pub1ack \in Seq(Entries(1)) /\ svc[c].pub2out \in Seq(Entries(2))
        BY <2>0, PacketFacts
      <3>2. /\ svc[c].status \in {"none", "up", "lost", "failed", "gone"}
            /\ svc[c].currQuota \in Int
            /\ svc[c].pkid \in 1..(MaxId + Cardinality(Publishers))
        BY <3>1 DEF Services
      <3>3. \A k \in DOMAIN svc[c].pub1ack : QosOf[svc[c].pub1ack[k].msg] = 1
        BY <3>1, EntryFacts
      <3>4. \A k \in DOMAIN svc[c].pub2out : QosOf[svc[c].pub2out[k].msg] = 2
        BY <3>1, EntryFacts
      <3> QED
        BY <3>2, <3>3, <3>4
    <2>2. \A p \in Callers : pub[p].conn \in Conns \cup {None} /\ pub[p].msg \in Messages \cup {None}
      BY <2>0 DEF TypesOK, Calls
    <2> QED
      BY <2>0, <2>1, <2>2 DEF TypeOK, TypesOK, States
  <1> QED
    BY <1>1, Invariance, PTL

\* A message that waits for the client has its record, also after its connection is gone
\* and while publishers of an older connection still run, unless its packet id was reused.
THEOREM RecordsCorrect == Spec => []Recorded
  <1>1. ASSUME IndInv PROVE Recorded
    <2> SUFFICES ASSUME NEW m \in Messages, msg[m].conn # None, InStore(m), ~Reused(m)
                 PROVE  /\ msg[m].phase = "cached"   => out[msg[m].id] = m
                        /\ msg[m].phase = "received" => out[msg[m].id] = None /\ msg[m].id \in sec
                        /\ msg[m].phase = "done"     => out[msg[m].id] = None /\ msg[m].id \notin sec
      BY DEF Recorded
    <2>1. RecordOK(svc, msg, out, sec, m)
      BY <1>1 DEF IndInv, StoreOK
    <2>2. Kept(svc, msg, m)
      BY DEF InStore, Kept, Stored
    <2>3. ~Again(svc, msg, m)
      BY DEF Again, Reused, Kept, InStore, Stored
    <2> QED
      BY <2>1, <2>2, <2>3 DEF RecordOK
  <1> QED
    BY <1>1, Invariance, PTL

\* The broker ends a connection for want of a record only when the packet id was reused,
\* never because its own steps overtook each other.
THEOREM AckCorrect == Spec => []AckFindsRecord
  <1>1. ASSUME IndInv PROVE AckFindsRecord
    <2> SUFFICES ASSUME NEW c \in Conns, svc[c].status = "failed"
                 PROVE  Reused(Head(svc[c].c2s).msg)
      BY DEF AckFindsRecord
    <2>1. Again(svc, msg, Head(svc[c].c2s).msg)
      BY <1>1 DEF IndInv, StoreOK
    <2> QED
      BY <2>1 DEF Again, Reused, Kept, InStore, Stored
  <1> QED
    BY <1>1, Invariance, PTL

\* When all messages of a connection are acknowledged nothing is left in its ack queues,
\* in whatever order the publishers queued and wrote them.
THEOREM DrainCorrect == Spec => []Drained
  <1>1. ASSUME IndInv PROVE Drained
    <2> SUFFICES ASSUME NEW c \in Conns, ~svc[c].restored, Distinct(c),
                        \A m \in Messages : msg[m].conn = c => msg[m].phase \notin {"cached", "received"}
                 PROVE  svc[c].pub1ack = <<>> /\ svc[c].pub2out = <<>>
      BY DEF Drained
    <2>1. Unlike(msg, c)
      BY DEF Distinct, Unlike
    <2>2. QueueOK(msg, c, svc[c].pub1ack) /\ QueueOK(msg, c, svc[c].pub2out)
      BY <1>1, <2>1 DEF IndInv, QueuesOK
    <2>3. svc[c].pub1ack \in Seq(Entries(1)) /\ svc[c].pub2out \in Seq(Entries(2))
      BY <1>1, PacketFacts DEF IndInv
    <2>4. ASSUME NEW S, NEW q \in Seq(Entries(S)), QueueOK(msg, c, q) PROVE q = <<>>
      <3> SUFFICES ASSUME q # <<>> PROVE FALSE
        OBVIOUS
      <3>1. 1 \in DOMAIN q
        BY Parts
      <3>2. q[1].msg \in Messages
        BY <3>1, EntryFacts
      <3> QED
        BY <2>4, <3>1, <3>2 DEF QueueOK
    <2> QED
      BY <2>2, <2>3, <2>4
  <1> QED
    BY <1>1, Invariance, PTL

\* However the publishers' and the processor's accesses to the counter and to the signal
\* interleave, the client is never given more unanswered messages than the quota and the
\* retained messages of its SUBSCRIBEs, which take no unit of it and add one each, if no
\* PUBREC has a reason code above 0x80.
THEOREM InFlightCorrect == ASSUME PubrecsPlain PROVE Spec => []InFlightBounded
  <1>1. QuotaOK => InFlightBounded
    BY DEF QuotaOK, InFlightBounded, Bounded, Open, Unpaid, Retained
  <1> QED
    BY <1>1, QuotaInvariance, PTL

\* No unit is given out twice, but for those that acknowledged retained messages added to
\* the quota, and none is lost before a message is refused, if no PUBREC has a reason code
\* above 0x80.
THEOREM QuotaCorrect == ASSUME PubrecsPlain PROVE Spec => []QuotaAccounted
  <1>1. ASSUME QuotaOK PROVE QuotaAccounted
    <2> SUFFICES ASSUME NEW c \in Conns, Running(c)
                 PROVE  LET units == Quota + Cardinality(Returned(c)) - Cardinality(Holding(c)) IN
                        /\ svc[c].currQuota <= units
                        /\ ~svc[c].refused => svc[c].currQuota = units
      BY DEF QuotaAccounted
    <2>1. Account(msg, c, svc[c])
      BY <1>1 DEF QuotaOK, Running
    <2>2. Holding(c) = Held(msg, c, svc[c])
      BY DEF Holding, Held, Holds, Acking, Acknowledging
    <2>3. Returned(c) = Back(msg, c, svc[c])
      BY DEF Returned, Retained, Back, Unpaid, Acking, Acknowledging
    <2>4. /\ Cardinality(Holding(c)) \in Nat /\ Cardinality(Returned(c)) \in Nat /\ Quota \in Nat
      BY <2>2, <2>3, Finite
    <2> QED
      BY <2>1, <2>2, <2>3, <2>4 DEF Account, Units
  <1> QED
    BY <1>1, QuotaInvariance, PTL
=============================================================================
