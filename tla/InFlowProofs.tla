---------------------------- MODULE InFlowProofs ----------------------------
(***************************************************************************)
(* Proofs about InFlow, for every set of packet ids and every number of    *)
(* messages and connections.                                               *)
(***************************************************************************)
EXTENDS InFlow, SequenceTheorems, WellFoundedInduction, TLAPS

(* What a step leaves of a sequence and what it adds.                      *)

\* s2 is the part of s that begins after its first d elements.
Part(s2, s, d) ==
  /\ DOMAIN s2 \subseteq Nat \ {0} /\ DOMAIN s \subseteq Nat \ {0} /\ d \in Nat
  /\ \A k \in DOMAIN s2 : k + d \in DOMAIN s /\ s2[k] = s[k + d]

\* s2 is s with e behind it, at position n.
Added(s2, s, e, n) ==
  /\ DOMAIN s2 = DOMAIN s \cup {n} /\ DOMAIN s \subseteq Nat \ {0} /\ n \in Nat \ {0}
  /\ \A k \in DOMAIN s : s2[k] = s[k] /\ k < n
  /\ s2[n] = e

\* Tail, SubSeq from the first element on, and the sequence itself are parts.
LEMMA Parts ==
  ASSUME NEW S, NEW s \in Seq(S)
  PROVE  /\ Part(s, s, 0)
         /\ Part(<<>>, s, 0)
         /\ s # <<>> => /\ Part(Tail(s), s, 1) /\ Tail(s) \in Seq(S)
                        /\ 1 \in DOMAIN s /\ Head(s) = s[1] /\ s[1] \in S
                        /\ \A j \in DOMAIN s : j # 1 => j - 1 \in DOMAIN Tail(s) /\ (j - 1) + 1 = j
         /\ \A n \in 0..Len(s) : Part(SubSeq(s, 1, n), s, 0) /\ SubSeq(s, 1, n) \in Seq(S)
  <1>1. DOMAIN s = 1..Len(s) /\ Len(s) \in Nat /\ \A k \in DOMAIN s : s[k] \in S
    BY ElementOfSeq, LenProperties
  <1>2. Part(s, s, 0) /\ Part(<<>>, s, 0)
    BY <1>1 DEF Part
  <1>3. ASSUME s # <<>>
        PROVE  /\ Part(Tail(s), s, 1) /\ Tail(s) \in Seq(S)
               /\ 1 \in DOMAIN s /\ Head(s) = s[1] /\ s[1] \in S
               /\ \A j \in DOMAIN s : j # 1 => j - 1 \in DOMAIN Tail(s) /\ (j - 1) + 1 = j
    <2>1. /\ Head(s) \in S /\ Tail(s) \in Seq(S) /\ Len(Tail(s)) = Len(s) - 1
          /\ \A i \in 1..Len(Tail(s)) : Tail(s)[i] = s[i + 1]
      BY <1>3, HeadTailProperties
    <2>2. Len(s) # 0
      BY <1>3, EmptySeq
    <2>3. DOMAIN Tail(s) = 1..(Len(s) - 1)
      BY <2>1, LenProperties
    <2> QED
      BY <1>1, <2>1, <2>2, <2>3 DEF Part
  <1>4. ASSUME NEW n \in 0..Len(s)
        PROVE  Part(SubSeq(s, 1, n), s, 0) /\ SubSeq(s, 1, n) \in Seq(S)
    <2>1. \A i \in 1..n : s[i] \in S
      BY <1>1
    <2>2. /\ SubSeq(s, 1, n) \in Seq(S)
          /\ Len(SubSeq(s, 1, n)) = IF 1 <= n THEN n - 1 + 1 ELSE 0
          /\ \A i \in 1..(n - 1 + 1) : SubSeq(s, 1, n)[i] = s[1 + i - 1]
      BY <1>1, <2>1, SubSeqProperties
    <2>3. DOMAIN SubSeq(s, 1, n) = 1..n
      BY <1>1, <2>2, LenProperties
    <2> QED
      BY <1>1, <2>2, <2>3 DEF Part
  <1> QED
    BY <1>2, <1>3, <1>4

\* Append adds one element.
LEMMA Appended ==
  ASSUME NEW S, NEW s \in Seq(S), NEW e \in S
  PROVE  Append(s, e) \in Seq(S) /\ Added(Append(s, e), s, e, Len(s) + 1)
  <1>1. DOMAIN s = 1..Len(s) /\ Len(s) \in Nat
    BY LenProperties
  <1>2. /\ Append(s, e) \in Seq(S)
        /\ Len(Append(s, e)) = Len(s) + 1
        /\ \A i \in 1..Len(s) : Append(s, e)[i] = s[i]
        /\ Append(s, e)[Len(s) + 1] = e
    BY AppendProperties
  <1>3. DOMAIN Append(s, e) = 1..(Len(s) + 1)
    BY <1>2, LenProperties
  <1> QED
    BY <1>1, <1>2, <1>3 DEF Added

\* A set of numbers that is not empty has a least element.
LEMMA Minimum ==
  ASSUME NEW T, T \subseteq Nat, T # {}
  PROVE  \E x \in T : \A y \in T : x <= y
  <1>1. PICK x \in T : \A y \in T : ~ (<<y, x>> \in OpToRel(<, Nat))
    BY WFMin, NatLessThanWellFounded, Zenon
  <1>2. \A y \in T : y < x => <<y, x>> \in OpToRel(<, Nat)
    BY Zenon DEF OpToRel
  <1>3. \A y \in T : ~(y < x)
    BY <1>1, <1>2
  <1> QED
    BY <1>3

-----------------------------------------------------------------------------
Entries == [pktid : PktIds, msg : Messages, rel : BOOLEAN]
Packets == [type : {"PUBLISH", "PUBREL"}, pktid : PktIds, msg : Messages \cup {None}]
Answers == [type : {"PUBREC", "PUBCOMP"}, pktid : PktIds]

Services == [status : {"none", "up", "lost", "stopping", "gone"}, clean : BOOLEAN,
             db : BOOLEAN, restored : BOOLEAN, queue : Seq(Entries), c2s : Seq(Packets),
             s2c : Seq(Answers)]

IsPublish(i, k) == k \in DOMAIN i /\ i[k].type = "PUBLISH"
IsPubrel(i, k)  == k \in DOMAIN i /\ i[k].type = "PUBREL"
IsPubrec(o, k)  == k \in DOMAIN o /\ o[k].type = "PUBREC"
IsPubcomp(o, k) == k \in DOMAIN o /\ o[k].type = "PUBCOMP"

\* The services are records of the declared kind; a connection that has not begun has
\* nothing, and only the last one can be up.
ServicesOK ==
  /\ svc \in [Conns -> Services]
  /\ \A c \in Conns : c > cur => svc[c] = NoService
  /\ \A c \in Conns : svc[c].status = "up" => clientUp /\ c = cur
  /\ clientUp => cur \in Conns /\ svc[cur].status # "lost"

\* The messages of a queue q and of the packets i after it, in the order they were sent.
InOrder(q, i) ==
  /\ \A j, k \in DOMAIN q : j < k => q[j].msg < q[k].msg
  /\ \A j, k \in DOMAIN i : j < k /\ IsPublish(i, j) /\ IsPublish(i, k) => i[j].msg < i[k].msg
  /\ \A j \in DOMAIN q, k \in DOMAIN i : IsPublish(i, k) => q[j].msg < i[k].msg

\* What connection c has published comes before what waits in q or is in i.
Before(pb, c, q, i) ==
  \A n \in DOMAIN pb : pb[n].conn = c =>
    /\ \A j \in DOMAIN q : pb[n].msg < q[j].msg
    /\ \A k \in DOMAIN i : IsPublish(i, k) => pb[n].msg < i[k].msg

\* Messages sent on connection c, given on which one each was sent.
Sent(on, c, m) == m \in DOMAIN on /\ on[m] = c

\* The messages a connection has come from the client, on this connection.
OwnMessages ==
  \A c \in Conns :
    /\ \A k \in DOMAIN svc[c].c2s : IsPublish(svc[c].c2s, k) => Sent(sentOn, c, svc[c].c2s[k].msg)
    /\ ~svc[c].restored => \A k \in DOMAIN svc[c].queue : Sent(sentOn, c, svc[c].queue[k].msg)

OwnPublished ==
  \A n \in DOMAIN published :
    /\ published[n].conn <= cur
    /\ ~svc[published[n].conn].restored => Sent(sentOn, published[n].conn, published[n].msg)

QueuesOrdered ==
  \A c \in Conns : ~svc[c].restored =>
    InOrder(svc[c].queue, svc[c].c2s) /\ Before(published, c, svc[c].queue, svc[c].c2s)

\* Each packet id is on its way once.
OneEach(i) == \A j, k \in DOMAIN i : i[j].pktid = i[k].pktid => j = k

\* A packet on its way is the one the state of its packet id at the client calls for.
Tokens(f, i, o) ==
  /\ OneEach(i) /\ OneEach(o)
  /\ \A j \in DOMAIN i, k \in DOMAIN o : i[j].pktid # o[k].pktid
  /\ \A k \in DOMAIN i : /\ IsPublish(i, k) => f[i[k].pktid].phase = "publish" /\ f[i[k].pktid].msg = i[k].msg
                         /\ IsPubrel(i, k) => f[i[k].pktid].phase = "pubrel"
  /\ \A k \in DOMAIN o : /\ IsPubrec(o, k) => f[o[k].pktid].phase = "publish"
                         /\ IsPubcomp(o, k) => f[o[k].pktid].phase = "pubrel"

\* The client's side of the protocol.
ClientOK ==
  /\ \A c \in Conns : OneEach(svc[c].c2s)
  /\ clientUp => Tokens(flight, svc[cur].c2s, svc[cur].s2c)
  /\ clientUp => \A p \in PktIds : flight[p].phase # "idle" =>
                   flight[p].msg \in Messages /\ Sent(sentOn, cur, flight[p].msg)
  /\ \A p \in PktIds : flight[p].phase = "pubrel" => flight[p].msg \in released
  /\ \A p \in PktIds : flight[p].phase = "idle" => flight[p].msg = None
  /\ completed \subseteq DOMAIN sentOn

\* A message is marked only after the client released it, and a PUBREL on its way is
\* for a message the client released.
ReleasedOK(rel, q, i) ==
  /\ \A k \in DOMAIN q : q[k].rel => q[k].msg \in rel
  /\ \A k \in DOMAIN q, j \in DOMAIN i : IsPubrel(i, j) /\ i[j].pktid = q[k].pktid => q[k].msg \in rel

MarksReleased ==
  /\ \A c \in Conns : ~svc[c].restored => ReleasedOK(released, svc[c].queue, svc[c].c2s)
  /\ clientUp /\ ~svc[cur].restored =>
       \A k \in DOMAIN svc[cur].queue :
         LET e == svc[cur].queue[k] IN e.msg \in released \/ e.msg = flight[e.pktid].msg

\* While the connection is up the queue has, in order, the messages that PUBRELs and
\* then PUBRECs are on their way for: so a PUBREL finds its message at the head.
Lockstep(f, q, i, o) ==
  /\ \A k \in DOMAIN q :
       /\ ~q[k].rel
       /\ f[q[k].pktid].msg = q[k].msg
       /\ \/ \E j \in DOMAIN i : IsPubrel(i, j) /\ i[j].pktid = q[k].pktid
          \/ \E j \in DOMAIN o : IsPubrec(o, j) /\ o[j].pktid = q[k].pktid
  /\ \A j \in DOMAIN i : IsPubrel(i, j) => \E k \in DOMAIN q : q[k].pktid = i[j].pktid
  /\ \A j \in DOMAIN o : IsPubrec(o, j) => \E k \in DOMAIN q : q[k].pktid = o[j].pktid
  /\ \A a, b \in DOMAIN i, k, l \in DOMAIN q :
       a < b /\ IsPubrel(i, a) /\ IsPubrel(i, b) /\ i[a].pktid = q[k].pktid /\ i[b].pktid = q[l].pktid
       => k < l
  /\ \A a, b \in DOMAIN o, k, l \in DOMAIN q :
       a < b /\ IsPubrec(o, a) /\ IsPubrec(o, b) /\ o[a].pktid = q[k].pktid /\ o[b].pktid = q[l].pktid
       => k < l
  /\ \A a \in DOMAIN i, b \in DOMAIN o, k, l \in DOMAIN q :
       IsPubrel(i, a) /\ IsPubrec(o, b) /\ i[a].pktid = q[k].pktid /\ o[b].pktid = q[l].pktid
       => k < l

\* The broker completes what it has published.
CompletesPublished(f, pb, o) ==
  \A k \in DOMAIN o : IsPubcomp(o, k) => \E n \in DOMAIN pb : pb[n].msg = f[o[k].pktid].msg

InStep ==
  clientUp /\ ~svc[cur].restored =>
    /\ svc[cur].status = "up" => Lockstep(flight, svc[cur].queue, svc[cur].c2s, svc[cur].s2c)
    /\ CompletesPublished(flight, published, svc[cur].s2c)

IndInv ==
  /\ TypeOK
  /\ ServicesOK
  /\ OwnMessages /\ OwnPublished /\ QueuesOrdered /\ SentOrder
  /\ ClientOK
  /\ MarksReleased /\ OnlyReleased
  /\ InStep /\ CompletedPublished

-----------------------------------------------------------------------------
\* The loop of Acked ends: AckedLen is the length of the longest released prefix.
LEMMA AckedLenFacts ==
  ASSUME NEW q \in Seq(Entries)
  PROVE  /\ AckedLen(q) \in 0..Len(q)
         /\ \A k \in 1..AckedLen(q) : q[k].rel
         /\ AckedLen(q) < Len(q) => ~q[AckedLen(q) + 1].rel
  <1>1. \E n \in 0..Len(q) : (\A k \in 1..n : q[k].rel) /\ (n < Len(q) => ~q[n + 1].rel)
    <2> DEFINE waits == {n \in 0..Len(q) : n < Len(q) => ~q[n + 1].rel}
    <2>0. Len(q) \in Nat
      BY LenProperties
    <2>1. waits \subseteq Nat /\ Len(q) \in waits
      BY <2>0
    <2>2. PICK n \in waits : \A y \in waits : n <= y
      BY <2>1, Minimum
    <2>3. \A k \in 1..n : q[k].rel
      <3> TAKE k \in 1..n
      <3>1. k - 1 \in 0..Len(q) /\ k - 1 < n /\ k - 1 < Len(q) /\ (k - 1) + 1 = k /\ n \in Nat
        BY <2>0, <2>1
      <3>2. k - 1 \notin waits
        BY <2>2, <3>1
      <3> QED
        BY <3>1, <3>2
    <2> QED
      BY <2>2, <2>3
  <1> DEFINE P(n) == (\A k \in 1..n : q[k].rel) /\ (n < Len(q) => ~q[n + 1].rel)
  <1>2. AckedLen(q) \in 0..Len(q) /\ P(AckedLen(q))
    BY <1>1 DEF AckedLen
  <1> QED
    BY <1>2


-----------------------------------------------------------------------------
(* The order of the messages of one connection.                            *)

\* q2 has the messages of the queue q that come after its first d ones.
Rest(q2, q, d) ==
  /\ DOMAIN q2 \subseteq Nat \ {0} /\ DOMAIN q \subseteq Nat \ {0} /\ d \in Nat
  /\ \A k \in DOMAIN q2 : k + d \in DOMAIN q /\ q2[k].pktid = q[k + d].pktid /\ q2[k].msg = q[k + d].msg

\* A part of a queue has its messages.
LEMMA PartIsRest ==
  ASSUME NEW q, NEW q2, NEW d, Part(q2, q, d)
  PROVE  Rest(q2, q, d)
  BY DEF Part, Rest

\* Taking messages or packets away from the front keeps the order.
LEMMA OrderRest ==
  ASSUME NEW q, NEW i, NEW q2, NEW i2, NEW d, NEW e,
         InOrder(q, i), Rest(q2, q, d), Part(i2, i, e)
  PROVE  InOrder(q2, i2)
  <1>1. \A j, k \in DOMAIN q2 : j < k => q2[j].msg < q2[k].msg
    BY DEF InOrder, Rest
  <1>2. \A j, k \in DOMAIN i2 : j < k /\ IsPublish(i2, j) /\ IsPublish(i2, k) => i2[j].msg < i2[k].msg
    BY DEF InOrder, Part, IsPublish
  <1>3. \A j \in DOMAIN q2, k \in DOMAIN i2 : IsPublish(i2, k) => q2[j].msg < i2[k].msg
    BY DEF InOrder, Rest, Part, IsPublish
  <1> QED
    BY <1>1, <1>2, <1>3 DEF InOrder

\* A PUBLISH that goes from the head of the connection to the end of the queue keeps it.
LEMMA OrderQueued ==
  ASSUME NEW q, NEW i, NEW q2, NEW i2, NEW n, NEW e,
         InOrder(q, i), Added(q2, q, e, n), Part(i2, i, 1), IsPublish(i, 1), e.msg = i[1].msg
  PROVE  InOrder(q2, i2)
  <1>1. \A j, k \in DOMAIN q2 : j < k => q2[j].msg < q2[k].msg
    BY DEF InOrder, Added, IsPublish
  <1>2. \A j, k \in DOMAIN i2 : j < k /\ IsPublish(i2, j) /\ IsPublish(i2, k) => i2[j].msg < i2[k].msg
    BY DEF InOrder, Part, IsPublish
  <1>3. \A j \in DOMAIN q2, k \in DOMAIN i2 : IsPublish(i2, k) => q2[j].msg < i2[k].msg
    <2> SUFFICES ASSUME NEW j \in DOMAIN q2, NEW k \in DOMAIN i2, IsPublish(i2, k)
                 PROVE  q2[j].msg < i2[k].msg
      OBVIOUS
    <2>1. k + 1 \in DOMAIN i /\ i2[k] = i[k + 1] /\ 1 < k + 1 /\ 1 \in DOMAIN i /\ IsPublish(i, k + 1)
      BY DEF Part, IsPublish
    <2>2. CASE j \in DOMAIN q
      BY <2>1, <2>2 DEF InOrder, Added
    <2>3. CASE j = n
      BY <2>1, <2>3 DEF InOrder, Added
    <2> QED
      BY <2>2, <2>3 DEF Added
  <1> QED
    BY <1>1, <1>2, <1>3 DEF InOrder

\* So does a packet that the client sends, when it is a new message or no PUBLISH.
LEMMA OrderSent ==
  ASSUME NEW q, NEW i, NEW i2, NEW n, NEW e,
         InOrder(q, i), Added(i2, i, e, n),
         \/ e.type # "PUBLISH"
         \/ /\ \A k \in DOMAIN q : q[k].msg < e.msg
            /\ \A k \in DOMAIN i : IsPublish(i, k) => i[k].msg < e.msg
  PROVE  InOrder(q, i2)
  <1>1. \A j, k \in DOMAIN q : j < k => q[j].msg < q[k].msg
    BY DEF InOrder
  <1>2. \A j, k \in DOMAIN i2 : j < k /\ IsPublish(i2, j) /\ IsPublish(i2, k) => i2[j].msg < i2[k].msg
    BY DEF InOrder, Added, IsPublish
  <1>3. \A j \in DOMAIN q, k \in DOMAIN i2 : IsPublish(i2, k) => q[j].msg < i2[k].msg
    BY DEF InOrder, Added, IsPublish
  <1> QED
    BY <1>1, <1>2, <1>3 DEF InOrder

\* What was published stays before what is left.
LEMMA BeforeRest ==
  ASSUME NEW pb, NEW c, NEW q, NEW i, NEW q2, NEW i2, NEW d, NEW e,
         Before(pb, c, q, i), Rest(q2, q, d), Part(i2, i, e)
  PROVE  Before(pb, c, q2, i2)
  BY DEF Before, Rest, Part, IsPublish

\* It stays before a PUBLISH that goes from the connection to the queue.
LEMMA BeforeQueued ==
  ASSUME NEW pb, NEW c, NEW q, NEW i, NEW q2, NEW i2, NEW n, NEW e,
         Before(pb, c, q, i), Added(q2, q, e, n), Part(i2, i, 1), IsPublish(i, 1),
         e.msg = i[1].msg
  PROVE  Before(pb, c, q2, i2)
  BY DEF Before, Added, Part, IsPublish

\* It is before a packet that the client sends.
LEMMA BeforeSent ==
  ASSUME NEW pb, NEW c, NEW q, NEW i, NEW i2, NEW n, NEW e,
         Before(pb, c, q, i), Added(i2, i, e, n),
         \/ e.type # "PUBLISH"
         \/ \A k \in DOMAIN pb : pb[k].conn = c => pb[k].msg < e.msg
  PROVE  Before(pb, c, q, i2)
  BY DEF Before, Added, IsPublish

\* pb2 is pb with the first n messages of the queue q of connection c behind it.
Handed(pb2, pb, c, q, n) ==
  /\ n \in Nat /\ 1..n \subseteq DOMAIN q
  /\ Len(pb) \in Nat /\ DOMAIN pb = 1..Len(pb) /\ DOMAIN pb2 = 1..(Len(pb) + n)
  /\ \A x \in DOMAIN pb : pb2[x] = pb[x]
  /\ \A k \in 1..n : pb2[Len(pb) + k].msg = q[k].msg /\ pb2[Len(pb) + k].conn = c

\* What is published comes from before or from the queue.
LEMMA HandedFrom ==
  ASSUME NEW pb, NEW pb2, NEW c, NEW q, NEW n, Handed(pb2, pb, c, q, n), NEW x \in DOMAIN pb2
  PROVE  \/ x \in DOMAIN pb /\ pb2[x] = pb[x]
         \/ \E k \in 1..n : /\ x = Len(pb) + k /\ k \in DOMAIN q
                            /\ pb2[x].msg = q[k].msg /\ pb2[x].conn = c
  <1>1. CASE x \in DOMAIN pb
    BY <1>1 DEF Handed
  <1>2. CASE x \notin DOMAIN pb
    <2>1. x - Len(pb) \in 1..n /\ x = Len(pb) + (x - Len(pb))
      BY <1>2 DEF Handed
    <2> QED
      BY <2>1 DEF Handed
  <1> QED
    BY <1>1, <1>2

\* Publishing the first messages of the queue keeps the order with the rest.
LEMMA BeforeHanded ==
  ASSUME NEW pb, NEW pb2, NEW c, NEW q, NEW i, NEW q2, NEW i2, NEW n, NEW e,
         Before(pb, c, q, i), InOrder(q, i), Handed(pb2, pb, c, q, n),
         Rest(q2, q, n), Part(i2, i, e)
  PROVE  Before(pb2, c, q2, i2)
  <1> SUFFICES ASSUME NEW x \in DOMAIN pb2, pb2[x].conn = c
               PROVE  /\ \A j \in DOMAIN q2 : pb2[x].msg < q2[j].msg
                      /\ \A k \in DOMAIN i2 : IsPublish(i2, k) => pb2[x].msg < i2[k].msg
    BY DEF Before
  <1>1. CASE x \in DOMAIN pb /\ pb2[x] = pb[x]
    BY <1>1 DEF Before, Rest, Part, IsPublish
  <1>2. ASSUME NEW k \in 1..n, k \in DOMAIN q, pb2[x].msg = q[k].msg
        PROVE  /\ \A j \in DOMAIN q2 : pb2[x].msg < q2[j].msg
               /\ \A l \in DOMAIN i2 : IsPublish(i2, l) => pb2[x].msg < i2[l].msg
    <2>1. \A j \in DOMAIN q2 : j + n \in DOMAIN q /\ k < j + n /\ q2[j].msg = q[j + n].msg
      BY DEF Rest
    <2> QED
      BY <1>2, <2>1 DEF InOrder, Part, IsPublish
  <1> QED
    BY <1>1, <1>2, HandedFrom

\* The other connections' messages stay as they are.
LEMMA BeforeOthers ==
  ASSUME NEW pb, NEW pb2, NEW c, NEW d, NEW q, NEW n, NEW q2, NEW i2,
         Handed(pb2, pb, c, q, n), d # c, Before(pb, d, q2, i2)
  PROVE  Before(pb2, d, q2, i2)
  BY HandedFrom DEF Before


-----------------------------------------------------------------------------
(* The packets on their way.                                               *)

\* Packets are of the types client and broker send.
Kinds(i, o) ==
  /\ \A k \in DOMAIN i : i[k].type \in {"PUBLISH", "PUBREL"}
  /\ \A k \in DOMAIN o : o[k].type \in {"PUBREC", "PUBCOMP"}

\* No packet is on its way for a packet id the client does not use.
LEMMA IdleHasNone ==
  ASSUME NEW f, NEW i, NEW o, NEW p, Tokens(f, i, o), Kinds(i, o), f[p].phase = "idle"
  PROVE  /\ \A k \in DOMAIN i : i[k].pktid # p
         /\ \A k \in DOMAIN o : o[k].pktid # p
  <1>1. \A k \in DOMAIN i : IsPublish(i, k) => f[i[k].pktid].phase = "publish"
    BY DEF Tokens
  <1>2. \A k \in DOMAIN i : IsPubrel(i, k) => f[i[k].pktid].phase = "pubrel"
    BY DEF Tokens
  <1>3. \A k \in DOMAIN o : IsPubrec(o, k) => f[o[k].pktid].phase = "publish"
    BY DEF Tokens
  <1>4. \A k \in DOMAIN o : IsPubcomp(o, k) => f[o[k].pktid].phase = "pubrel"
    BY DEF Tokens
  <1>5. \A k \in DOMAIN i : IsPublish(i, k) \/ IsPubrel(i, k)
    BY DEF Kinds, IsPublish, IsPubrel
  <1>6. \A k \in DOMAIN o : IsPubrec(o, k) \/ IsPubcomp(o, k)
    BY DEF Kinds, IsPubrec, IsPubcomp
  <1> QED
    BY <1>1, <1>2, <1>3, <1>4, <1>5, <1>6

\* A packet id that is on its way once still is after others have arrived.
LEMMA OneEachPart ==
  ASSUME NEW i, NEW i2, NEW d, OneEach(i), Part(i2, i, d)
  PROVE  OneEach(i2)
  BY DEF OneEach, Part

\* Packets that are lost leave what the others say true.
LEMMA TokensPart ==
  ASSUME NEW f, NEW i, NEW o, NEW i2, NEW o2, NEW d, NEW e,
         Tokens(f, i, o), Part(i2, i, d), Part(o2, o, e)
  PROVE  Tokens(f, i2, o2)
  <1>1. OneEach(i2) /\ OneEach(o2)
    BY DEF Tokens, OneEach, Part
  <1>2. \A j \in DOMAIN i2, k \in DOMAIN o2 : i2[j].pktid # o2[k].pktid
    BY DEF Tokens, Part
  <1>3. \A k \in DOMAIN i2 :
          /\ IsPublish(i2, k) => f[i2[k].pktid].phase = "publish" /\ f[i2[k].pktid].msg = i2[k].msg
          /\ IsPubrel(i2, k) => f[i2[k].pktid].phase = "pubrel"
    BY DEF Tokens, Part, IsPublish, IsPubrel
  <1>4. \A k \in DOMAIN o2 : /\ IsPubrec(o2, k) => f[o2[k].pktid].phase = "publish"
                             /\ IsPubcomp(o2, k) => f[o2[k].pktid].phase = "pubrel"
    BY DEF Tokens, Part, IsPubrec, IsPubcomp
  <1> QED
    BY <1>1, <1>2, <1>3, <1>4 DEF Tokens

\* The client publishes with a packet id that is free.
LEMMA TokensPublish ==
  ASSUME NEW f, NEW f2, NEW i, NEW o, NEW i2, NEW n, NEW e, NEW p,
         Tokens(f, i, o), Kinds(i, o), Added(i2, i, e, n),
         f[p].phase = "idle", e.type = "PUBLISH", e.pktid = p,
         f2[p].phase = "publish", f2[p].msg = e.msg,
         \A x : x # p => f2[x] = f[x]
  PROVE  Tokens(f2, i2, o)
  <1>0. /\ \A k \in DOMAIN i : i[k].pktid # p
        /\ \A k \in DOMAIN o : o[k].pktid # p
    BY IdleHasNone
  <1>1. OneEach(i2) /\ OneEach(o)
    BY <1>0 DEF Tokens, OneEach, Added
  <1>2. \A j \in DOMAIN i2, k \in DOMAIN o : i2[j].pktid # o[k].pktid
    BY <1>0 DEF Tokens, Added
  <1>3. \A k \in DOMAIN i2 :
          /\ IsPublish(i2, k) => f2[i2[k].pktid].phase = "publish" /\ f2[i2[k].pktid].msg = i2[k].msg
          /\ IsPubrel(i2, k) => f2[i2[k].pktid].phase = "pubrel"
    BY <1>0 DEF Tokens, Added, IsPublish, IsPubrel
  <1>4. \A k \in DOMAIN o : /\ IsPubrec(o, k) => f2[o[k].pktid].phase = "publish"
                            /\ IsPubcomp(o, k) => f2[o[k].pktid].phase = "pubrel"
    BY <1>0 DEF Tokens, IsPubrec, IsPubcomp
  <1> QED
    BY <1>1, <1>2, <1>3, <1>4 DEF Tokens

\* The client answers PUBREC with PUBREL.
LEMMA TokensPubrec ==
  ASSUME NEW f, NEW f2, NEW i, NEW o, NEW i2, NEW o2, NEW n, NEW e, NEW p,
         Tokens(f, i, o), Added(i2, i, e, n), Part(o2, o, 1), IsPubrec(o, 1), o[1].pktid = p,
         e.type = "PUBREL", e.pktid = p,
         f2[p].phase = "pubrel", \A x : x # p => f2[x] = f[x]
  PROVE  Tokens(f2, i2, o2)
  <1>0. /\ \A k \in DOMAIN i : i[k].pktid # p
        /\ \A k \in DOMAIN o2 : o2[k].pktid # p
    BY DEF Tokens, OneEach, Part, IsPubrec
  <1>1. OneEach(i2) /\ OneEach(o2)
    BY <1>0 DEF Tokens, OneEach, Added, Part
  <1>2. \A j \in DOMAIN i2, k \in DOMAIN o2 : i2[j].pktid # o2[k].pktid
    BY <1>0 DEF Tokens, Added, Part
  <1>3. \A k \in DOMAIN i2 :
          /\ IsPublish(i2, k) => f2[i2[k].pktid].phase = "publish" /\ f2[i2[k].pktid].msg = i2[k].msg
          /\ IsPubrel(i2, k) => f2[i2[k].pktid].phase = "pubrel"
    BY <1>0 DEF Tokens, Added, IsPublish, IsPubrel
  <1>4. \A k \in DOMAIN o2 : /\ IsPubrec(o2, k) => f2[o2[k].pktid].phase = "publish"
                             /\ IsPubcomp(o2, k) => f2[o2[k].pktid].phase = "pubrel"
    BY <1>0 DEF Tokens, Part, IsPubrec, IsPubcomp
  <1> QED
    BY <1>1, <1>2, <1>3, <1>4 DEF Tokens

\* The client takes PUBCOMP and gives the packet id free.
LEMMA TokensPubcomp ==
  ASSUME NEW f, NEW f2, NEW i, NEW o, NEW o2, NEW p,
         Tokens(f, i, o), Part(o2, o, 1), IsPubcomp(o, 1), o[1].pktid = p,
         \A x : x # p => f2[x] = f[x]
  PROVE  Tokens(f2, i, o2)
  <1>0. /\ \A k \in DOMAIN i : i[k].pktid # p
        /\ \A k \in DOMAIN o2 : o2[k].pktid # p
    BY DEF Tokens, OneEach, Part, IsPubcomp
  <1>1. OneEach(i) /\ OneEach(o2)
    BY <1>0 DEF Tokens, OneEach, Part
  <1>2. \A j \in DOMAIN i, k \in DOMAIN o2 : i[j].pktid # o2[k].pktid
    BY <1>0 DEF Tokens, Part
  <1>3. \A k \in DOMAIN i :
          /\ IsPublish(i, k) => f2[i[k].pktid].phase = "publish" /\ f2[i[k].pktid].msg = i[k].msg
          /\ IsPubrel(i, k) => f2[i[k].pktid].phase = "pubrel"
    BY <1>0 DEF Tokens, IsPublish, IsPubrel
  <1>4. \A k \in DOMAIN o2 : /\ IsPubrec(o2, k) => f2[o2[k].pktid].phase = "publish"
                             /\ IsPubcomp(o2, k) => f2[o2[k].pktid].phase = "pubrel"
    BY <1>0 DEF Tokens, Part, IsPubrec, IsPubcomp
  <1> QED
    BY <1>1, <1>2, <1>3, <1>4 DEF Tokens

\* The broker answers the packet at the head.
LEMMA TokensAnswer ==
  ASSUME NEW f, NEW i, NEW o, NEW i2, NEW o2, NEW n, NEW e,
         Tokens(f, i, o), Part(i2, i, 1), Added(o2, o, e, n), 1 \in DOMAIN i, e.pktid = i[1].pktid,
         \/ IsPublish(i, 1) /\ e.type = "PUBREC"
         \/ IsPubrel(i, 1) /\ e.type = "PUBCOMP"
  PROVE  Tokens(f, i2, o2)
  <1>0. /\ \A k \in DOMAIN i2 : i2[k].pktid # e.pktid
        /\ \A k \in DOMAIN o : o[k].pktid # e.pktid
    BY DEF Tokens, OneEach, Part
  <1>1. OneEach(i2) /\ OneEach(o2)
    BY <1>0 DEF Tokens, OneEach, Added, Part
  <1>2. \A j \in DOMAIN i2, k \in DOMAIN o2 : i2[j].pktid # o2[k].pktid
    BY <1>0 DEF Tokens, Added, Part
  <1>3. \A k \in DOMAIN i2 :
          /\ IsPublish(i2, k) => f[i2[k].pktid].phase = "publish" /\ f[i2[k].pktid].msg = i2[k].msg
          /\ IsPubrel(i2, k) => f[i2[k].pktid].phase = "pubrel"
    BY DEF Tokens, Part, IsPublish, IsPubrel
  <1>4. \A k \in DOMAIN o2 : /\ IsPubrec(o2, k) => f[o2[k].pktid].phase = "publish"
                             /\ IsPubcomp(o2, k) => f[o2[k].pktid].phase = "pubrel"
    <2>1. IsPublish(i, 1) => f[i[1].pktid].phase = "publish"
      BY DEF Tokens
    <2>2. IsPubrel(i, 1) => f[i[1].pktid].phase = "pubrel"
      BY DEF Tokens
    <2>3. \A k \in DOMAIN o : /\ IsPubrec(o, k) => f[o[k].pktid].phase = "publish"
                              /\ IsPubcomp(o, k) => f[o[k].pktid].phase = "pubrel"
      BY DEF Tokens
    <2> QED
      BY <2>1, <2>2, <2>3 DEF Added, IsPubrec, IsPubcomp
  <1> QED
    BY <1>1, <1>2, <1>3, <1>4 DEF Tokens

-----------------------------------------------------------------------------
(* Released messages.                                                      *)

\* Packets and messages are lost.
LEMMA ReleasedPart ==
  ASSUME NEW rel, NEW q, NEW q2, NEW i, NEW i2, NEW d, NEW e,
         ReleasedOK(rel, q, i), Part(q2, q, d), Part(i2, i, e)
  PROVE  ReleasedOK(rel, q2, i2)
  BY DEF ReleasedOK, Part, IsPubrel

\* The client sends a packet: a PUBREL only for messages it released.
LEMMA ReleasedSent ==
  ASSUME NEW rel, NEW rel2, NEW q, NEW i, NEW i2, NEW n, NEW e,
         ReleasedOK(rel, q, i), rel \subseteq rel2, Added(i2, i, e, n),
         \/ e.type # "PUBREL"
         \/ \A k \in DOMAIN q : q[k].pktid = e.pktid => q[k].msg \in rel2
  PROVE  ReleasedOK(rel2, q, i2)
  BY DEF ReleasedOK, Added, IsPubrel

\* A PUBLISH is queued: no PUBREL for it can be behind it already.
LEMMA ReleasedQueued ==
  ASSUME NEW rel, NEW q, NEW i, NEW q2, NEW i2, NEW n, NEW e,
         ReleasedOK(rel, q, i), OneEach(i), Added(q2, q, e, n), Part(i2, i, 1), 1 \in DOMAIN i,
         ~e.rel, e.pktid = i[1].pktid
  PROVE  ReleasedOK(rel, q2, i2)
  <1>1. \A k \in DOMAIN i2 : i2[k].pktid # e.pktid
    BY DEF OneEach, Part
  <1>2. \A k \in DOMAIN q2 : q2[k].rel => q2[k].msg \in rel
    BY DEF ReleasedOK, Added
  <1>3. \A k \in DOMAIN q2, j \in DOMAIN i2 :
          IsPubrel(i2, j) /\ i2[j].pktid = q2[k].pktid => q2[k].msg \in rel
    BY <1>1 DEF ReleasedOK, Added, Part, IsPubrel
  <1> QED
    BY <1>2, <1>3 DEF ReleasedOK

\* A PUBREL marks the message it is for, and messages leave the queue.
LEMMA ReleasedMarked ==
  ASSUME NEW rel, NEW q, NEW i, NEW q2, NEW i2, NEW n,
         ReleasedOK(rel, q, i), Rest(q2, q, n), Part(i2, i, 1), IsPubrel(i, 1),
         \A k \in DOMAIN q2 : q2[k].rel => q[k + n].rel \/ q2[k].pktid = i[1].pktid
  PROVE  ReleasedOK(rel, q2, i2)
  <1>1. \A k \in DOMAIN q2 : q2[k].rel => q2[k].msg \in rel
    BY DEF ReleasedOK, Rest, IsPubrel
  <1>2. \A k \in DOMAIN q2, j \in DOMAIN i2 :
          IsPubrel(i2, j) /\ i2[j].pktid = q2[k].pktid => q2[k].msg \in rel
    BY DEF ReleasedOK, Rest, Part, IsPubrel
  <1> QED
    BY <1>1, <1>2 DEF ReleasedOK


-----------------------------------------------------------------------------
(* Queue and packets in lockstep.                                          *)

\* The client publishes: no message waits under a packet id that is free.
LEMMA LockstepPublish ==
  ASSUME NEW f, NEW f2, NEW q, NEW i, NEW o, NEW i2, NEW n, NEW e, NEW p,
         Lockstep(f, q, i, o), Tokens(f, i, o), Kinds(i, o), Added(i2, i, e, n),
         f[p].phase = "idle", e.type = "PUBLISH", \A x : x # p => f2[x] = f[x]
  PROVE  Lockstep(f2, q, i2, o)
  <1>0. /\ \A k \in DOMAIN i : i[k].pktid # p
        /\ \A k \in DOMAIN o : o[k].pktid # p
    BY IdleHasNone
  <1>1. \A k \in DOMAIN q : q[k].pktid # p
    BY <1>0 DEF Lockstep
  <1>2. \A j : IsPubrel(i2, j) <=> IsPubrel(i, j)
    BY DEF Added, IsPubrel
  <1>3. \A j : IsPubrel(i, j) => j \in DOMAIN i /\ i2[j] = i[j] /\ j \in DOMAIN i2
    BY DEF Added, IsPubrel
  <1>4. \A k \in DOMAIN q :
          /\ ~q[k].rel
          /\ f2[q[k].pktid].msg = q[k].msg
          /\ \/ \E j \in DOMAIN i2 : IsPubrel(i2, j) /\ i2[j].pktid = q[k].pktid
             \/ \E j \in DOMAIN o : IsPubrec(o, j) /\ o[j].pktid = q[k].pktid
    BY <1>1, <1>2, <1>3 DEF Lockstep
  <1>5. \A j \in DOMAIN i2 : IsPubrel(i2, j) => \E k \in DOMAIN q : q[k].pktid = i2[j].pktid
    BY <1>2, <1>3 DEF Lockstep
  <1>6. \A a, b \in DOMAIN i2, k, l \in DOMAIN q :
          a < b /\ IsPubrel(i2, a) /\ IsPubrel(i2, b) /\ i2[a].pktid = q[k].pktid
          /\ i2[b].pktid = q[l].pktid
          => k < l
    BY <1>2, <1>3 DEF Lockstep
  <1>7. \A a \in DOMAIN i2, b \in DOMAIN o, k, l \in DOMAIN q :
          IsPubrel(i2, a) /\ IsPubrec(o, b) /\ i2[a].pktid = q[k].pktid /\ o[b].pktid = q[l].pktid
          => k < l
    BY <1>2, <1>3 DEF Lockstep
  <1> QED
    BY <1>4, <1>5, <1>6, <1>7 DEF Lockstep

\* The client answers the first PUBREC, which is for the first message that has no PUBREL.
LEMMA LockstepPubrec ==
  ASSUME NEW f, NEW f2, NEW q, NEW i, NEW o, NEW i2, NEW o2, NEW n, NEW e, NEW p,
         Lockstep(f, q, i, o), Added(i2, i, e, n), Part(o2, o, 1),
         IsPubrec(o, 1), o[1].pktid = p, e.type = "PUBREL", e.pktid = p,
         f2[p].msg = f[p].msg, \A x : x # p => f2[x] = f[x],
         \A j \in DOMAIN o : j # 1 => j - 1 \in DOMAIN o2 /\ (j - 1) + 1 = j
  PROVE  Lockstep(f2, q, i2, o2)
  <1>1. IsPubrel(i2, n) /\ i2[n].pktid = p /\ n \in DOMAIN i2
    BY DEF Added, IsPubrel
  <1>2. \A j : IsPubrel(i2, j) /\ j # n <=> IsPubrel(i, j)
    BY DEF Added, IsPubrel
  <1>3. \A j : IsPubrel(i, j) => j \in DOMAIN i /\ i2[j] = i[j] /\ j \in DOMAIN i2 /\ j < n
    BY DEF Added, IsPubrel
  <1>4. \A j : IsPubrec(o2, j) => IsPubrec(o, j + 1) /\ o2[j] = o[j + 1] /\ j + 1 \in DOMAIN o /\ 1 < j + 1
    BY DEF Part, IsPubrec
  <1>5. \A j \in DOMAIN o : IsPubrec(o, j) /\ j # 1 =>
          j - 1 \in DOMAIN o2 /\ IsPubrec(o2, j - 1) /\ o2[j - 1] = o[j]
    BY DEF Part, IsPubrec
  <1>6. \A k \in DOMAIN q :
          /\ ~q[k].rel
          /\ f2[q[k].pktid].msg = q[k].msg
          /\ \/ \E j \in DOMAIN i2 : IsPubrel(i2, j) /\ i2[j].pktid = q[k].pktid
             \/ \E j \in DOMAIN o2 : IsPubrec(o2, j) /\ o2[j].pktid = q[k].pktid
    <2> TAKE k \in DOMAIN q
    <2>1. ~q[k].rel /\ f2[q[k].pktid].msg = q[k].msg
      BY DEF Lockstep
    <2>2. \/ \E j \in DOMAIN i : IsPubrel(i, j) /\ i[j].pktid = q[k].pktid
          \/ \E j \in DOMAIN o : IsPubrec(o, j) /\ o[j].pktid = q[k].pktid
      BY DEF Lockstep
    <2>3. ASSUME NEW j \in DOMAIN o, IsPubrec(o, j), o[j].pktid = q[k].pktid
          PROVE  \/ \E l \in DOMAIN i2 : IsPubrel(i2, l) /\ i2[l].pktid = q[k].pktid
                 \/ \E l \in DOMAIN o2 : IsPubrec(o2, l) /\ o2[l].pktid = q[k].pktid
      <3>1. CASE j = 1
        BY <1>1, <2>3, <3>1
      <3>2. CASE j # 1
        BY <1>5, <2>3, <3>2
      <3> QED
        BY <3>1, <3>2
    <2> QED
      BY <1>2, <1>3, <2>1, <2>2, <2>3
  <1>7. \A j \in DOMAIN i2 : IsPubrel(i2, j) => \E k \in DOMAIN q : q[k].pktid = i2[j].pktid
    <2>1. \E k \in DOMAIN q : q[k].pktid = p
      BY DEF Lockstep, IsPubrec
    <2> QED
      BY <1>1, <1>2, <1>3, <2>1 DEF Lockstep
  <1>8. \A j \in DOMAIN o2 : IsPubrec(o2, j) => \E k \in DOMAIN q : q[k].pktid = o2[j].pktid
    BY <1>4 DEF Lockstep
  <1>9. \A a, b \in DOMAIN i2, k, l \in DOMAIN q :
          a < b /\ IsPubrel(i2, a) /\ IsPubrel(i2, b) /\ i2[a].pktid = q[k].pktid
          /\ i2[b].pktid = q[l].pktid
          => k < l
    <2> SUFFICES ASSUME NEW a \in DOMAIN i2, NEW b \in DOMAIN i2, NEW k \in DOMAIN q, NEW l \in DOMAIN q,
                        a < b, IsPubrel(i2, a), IsPubrel(i2, b), i2[a].pktid = q[k].pktid,
                        i2[b].pktid = q[l].pktid
                 PROVE  k < l
      OBVIOUS
    <2>1. a # n /\ IsPubrel(i, a) /\ i[a].pktid = q[k].pktid /\ a \in DOMAIN i
      <3>1. b = n \/ b < n
        BY <1>2, <1>3
      <3>2. a # n
        BY <3>1 DEF Added
      <3> QED
        BY <1>2, <1>3, <3>2
    <2>2. CASE b = n
      <3>1. o[1].pktid = q[l].pktid /\ 1 \in DOMAIN o
        BY <1>1, <2>2 DEF IsPubrec
      <3> QED
        BY <2>1, <3>1 DEF Lockstep
    <2>3. CASE b # n
      <3>1. IsPubrel(i, b) /\ i[b].pktid = q[l].pktid /\ b \in DOMAIN i
        BY <1>2, <1>3, <2>3
      <3> QED
        BY <2>1, <3>1 DEF Lockstep
    <2> QED
      BY <2>2, <2>3
  <1>10. \A a, b \in DOMAIN o2, k, l \in DOMAIN q :
          a < b /\ IsPubrec(o2, a) /\ IsPubrec(o2, b) /\ o2[a].pktid = q[k].pktid
          /\ o2[b].pktid = q[l].pktid
          => k < l
    <2>1. \A a, b \in DOMAIN o2 : a < b => a + 1 < b + 1
      BY DEF Part
    <2> QED
      BY <1>4, <2>1 DEF Lockstep
  <1>11. \A a \in DOMAIN i2, b \in DOMAIN o2, k, l \in DOMAIN q :
          IsPubrel(i2, a) /\ IsPubrec(o2, b) /\ i2[a].pktid = q[k].pktid /\ o2[b].pktid = q[l].pktid
          => k < l
    <2> SUFFICES ASSUME NEW a \in DOMAIN i2, NEW b \in DOMAIN o2, NEW k \in DOMAIN q, NEW l \in DOMAIN q,
                        IsPubrel(i2, a), IsPubrec(o2, b), i2[a].pktid = q[k].pktid,
                        o2[b].pktid = q[l].pktid
                 PROVE  k < l
      OBVIOUS
    <2>1. IsPubrec(o, b + 1) /\ o[b + 1].pktid = q[l].pktid /\ b + 1 \in DOMAIN o /\ 1 < b + 1
      BY <1>4
    <2>2. CASE a = n
      <3>1. o[1].pktid = q[k].pktid /\ 1 \in DOMAIN o
        BY <1>1, <2>2 DEF IsPubrec
      <3> QED
        BY <2>1, <3>1 DEF Lockstep
    <2>3. CASE a # n
      <3>1. IsPubrel(i, a) /\ i[a].pktid = q[k].pktid /\ a \in DOMAIN i
        BY <1>2, <1>3, <2>3
      <3> QED
        BY <2>1, <3>1 DEF Lockstep
    <2> QED
      BY <2>2, <2>3
  <1> QED
    BY <1>6, <1>7, <1>8, <1>9, <1>10, <1>11 DEF Lockstep


\* The client takes a PUBCOMP, whose message is no longer in the queue.
LEMMA LockstepPubcomp ==
  ASSUME NEW f, NEW f2, NEW q, NEW i, NEW o, NEW o2, NEW p,
         Lockstep(f, q, i, o), Tokens(f, i, o), Part(o2, o, 1),
         IsPubcomp(o, 1), o[1].pktid = p, \A x : x # p => f2[x] = f[x],
         \A j \in DOMAIN o : j # 1 => j - 1 \in DOMAIN o2 /\ (j - 1) + 1 = j
  PROVE  Lockstep(f2, q, i, o2)
  <1>0. /\ \A k \in DOMAIN i : i[k].pktid # p
        /\ \A k \in DOMAIN o : IsPubrec(o, k) => o[k].pktid # p
    BY DEF Tokens, OneEach, IsPubcomp, IsPubrec
  <1>1. \A k \in DOMAIN q : q[k].pktid # p
    BY <1>0 DEF Lockstep
  <1>4. \A j : IsPubrec(o2, j) => IsPubrec(o, j + 1) /\ o2[j] = o[j + 1] /\ j + 1 \in DOMAIN o /\ 1 < j + 1
    BY DEF Part, IsPubrec
  <1>5. \A j \in DOMAIN o : IsPubrec(o, j) =>
          j - 1 \in DOMAIN o2 /\ IsPubrec(o2, j - 1) /\ o2[j - 1] = o[j]
    BY DEF Part, IsPubrec, IsPubcomp
  <1>6. \A k \in DOMAIN q :
          /\ ~q[k].rel
          /\ f2[q[k].pktid].msg = q[k].msg
          /\ \/ \E j \in DOMAIN i : IsPubrel(i, j) /\ i[j].pktid = q[k].pktid
             \/ \E j \in DOMAIN o2 : IsPubrec(o2, j) /\ o2[j].pktid = q[k].pktid
    BY <1>1, <1>5 DEF Lockstep
  <1>8. \A j \in DOMAIN o2 : IsPubrec(o2, j) => \E k \in DOMAIN q : q[k].pktid = o2[j].pktid
    BY <1>4 DEF Lockstep
  <1>10. \A a, b \in DOMAIN o2, k, l \in DOMAIN q :
          a < b /\ IsPubrec(o2, a) /\ IsPubrec(o2, b) /\ o2[a].pktid = q[k].pktid
          /\ o2[b].pktid = q[l].pktid
          => k < l
    <2>1. \A a, b \in DOMAIN o2 : a < b => a + 1 < b + 1
      BY DEF Part
    <2> QED
      BY <1>4, <2>1 DEF Lockstep
  <1>11. \A a \in DOMAIN i, b \in DOMAIN o2, k, l \in DOMAIN q :
          IsPubrel(i, a) /\ IsPubrec(o2, b) /\ i[a].pktid = q[k].pktid /\ o2[b].pktid = q[l].pktid
          => k < l
    BY <1>4 DEF Lockstep
  <1> QED
    BY <1>6, <1>8, <1>10, <1>11 DEF Lockstep

\* No message waits under the packet id of a PUBLISH on its way.
LEMMA PublishIsNew ==
  ASSUME NEW f, NEW q, NEW i, NEW o, Lockstep(f, q, i, o), Tokens(f, i, o), IsPublish(i, 1)
  PROVE  \A k \in DOMAIN q : q[k].pktid # i[1].pktid
  <1>1. \A j \in DOMAIN i : IsPubrel(i, j) => i[j].pktid # i[1].pktid
    BY DEF Tokens, OneEach, IsPublish, IsPubrel
  <1>2. \A j \in DOMAIN o : o[j].pktid # i[1].pktid
    BY DEF Tokens, IsPublish
  <1> QED
    BY <1>1, <1>2 DEF Lockstep

\* The broker queues a PUBLISH and answers it.
LEMMA LockstepQueued ==
  ASSUME NEW f, NEW q, NEW i, NEW o, NEW q2, NEW i2, NEW o2, NEW n, NEW m, NEW e, NEW r,
         Lockstep(f, q, i, o), Tokens(f, i, o), Part(i2, i, 1), IsPublish(i, 1),
         Added(q2, q, e, n), e.pktid = i[1].pktid, e.msg = i[1].msg, ~e.rel,
         Added(o2, o, r, m), r.type = "PUBREC", r.pktid = i[1].pktid,
         \A j \in DOMAIN i : j # 1 => j - 1 \in DOMAIN i2 /\ (j - 1) + 1 = j
  PROVE  Lockstep(f, q2, i2, o2)
  <1>0. /\ \A k \in DOMAIN q : q[k].pktid # e.pktid
        /\ \A k \in DOMAIN o : o[k].pktid # e.pktid
        /\ \A k \in DOMAIN i2 : i2[k].pktid # e.pktid
        /\ f[e.pktid].msg = e.msg
    <2>1. \A k \in DOMAIN q : q[k].pktid # e.pktid
      BY PublishIsNew
    <2>2. \A k \in DOMAIN o : o[k].pktid # e.pktid
      BY DEF Tokens, IsPublish
    <2>3. \A k \in DOMAIN i2 : i2[k].pktid # e.pktid
      BY DEF Tokens, OneEach, Part, IsPublish
    <2>4. f[e.pktid].msg = e.msg
      BY DEF Tokens, IsPublish
    <2> QED
      BY <2>1, <2>2, <2>3, <2>4
  <1>1. /\ IsPubrec(o2, m) /\ o2[m].pktid = e.pktid /\ m \in DOMAIN o2
        /\ q2[n] = e /\ n \in DOMAIN q2
        /\ \A k \in DOMAIN q : k \in DOMAIN q2 /\ q2[k] = q[k] /\ k < n
        /\ \A k \in DOMAIN q2 : k # n => k \in DOMAIN q
    BY DEF Added, IsPubrec
  <1>2. \A j : IsPubrel(i2, j) => IsPubrel(i, j + 1) /\ i2[j] = i[j + 1] /\ j + 1 \in DOMAIN i /\ 1 < j + 1
    BY DEF Part, IsPubrel
  <1>3. \A j \in DOMAIN i : IsPubrel(i, j) =>
          j - 1 \in DOMAIN i2 /\ IsPubrel(i2, j - 1) /\ i2[j - 1] = i[j]
    BY DEF Part, IsPubrel, IsPublish
  <1>4. \A j : IsPubrec(o2, j) /\ j # m => IsPubrec(o, j) /\ o2[j] = o[j] /\ j \in DOMAIN o
    BY DEF Added, IsPubrec
  <1>5. \A j \in DOMAIN o : IsPubrec(o, j) => IsPubrec(o2, j) /\ o2[j] = o[j] /\ j \in DOMAIN o2 /\ j < m
    BY DEF Added, IsPubrec
  <1>6. \A k \in DOMAIN q2 :
          /\ ~q2[k].rel
          /\ f[q2[k].pktid].msg = q2[k].msg
          /\ \/ \E j \in DOMAIN i2 : IsPubrel(i2, j) /\ i2[j].pktid = q2[k].pktid
             \/ \E j \in DOMAIN o2 : IsPubrec(o2, j) /\ o2[j].pktid = q2[k].pktid
    <2> TAKE k \in DOMAIN q2
    <2>1. CASE k = n
      BY <1>0, <1>1, <2>1
    <2>2. CASE k # n
      <3>1. k \in DOMAIN q /\ q2[k] = q[k]
        BY <1>1, <2>2
      <3> QED
        BY <3>1, <1>3, <1>5 DEF Lockstep
    <2> QED
      BY <2>1, <2>2
  <1>7. \A j \in DOMAIN i2 : IsPubrel(i2, j) => \E k \in DOMAIN q2 : q2[k].pktid = i2[j].pktid
    BY <1>1, <1>2 DEF Lockstep
  <1>8. \A j \in DOMAIN o2 : IsPubrec(o2, j) => \E k \in DOMAIN q2 : q2[k].pktid = o2[j].pktid
    BY <1>1, <1>4 DEF Lockstep
  <1>9. \A a, b \in DOMAIN i2, k, l \in DOMAIN q2 :
          a < b /\ IsPubrel(i2, a) /\ IsPubrel(i2, b) /\ i2[a].pktid = q2[k].pktid
          /\ i2[b].pktid = q2[l].pktid
          => k < l
    <2>1. \A a, b \in DOMAIN i2 : a < b => a + 1 < b + 1
      BY DEF Part
    <2>2. \A a \in DOMAIN i2, k \in DOMAIN q2 : i2[a].pktid = q2[k].pktid =>
            k \in DOMAIN q /\ q2[k] = q[k]
      BY <1>0, <1>1
    <2> QED
      BY <1>2, <2>1, <2>2 DEF Lockstep
  <1>10. \A a, b \in DOMAIN o2, k, l \in DOMAIN q2 :
          a < b /\ IsPubrec(o2, a) /\ IsPubrec(o2, b) /\ o2[a].pktid = q2[k].pktid
          /\ o2[b].pktid = q2[l].pktid
          => k < l
    <2> SUFFICES ASSUME NEW a \in DOMAIN o2, NEW b \in DOMAIN o2, NEW k \in DOMAIN q2, NEW l \in DOMAIN q2,
                        a < b, IsPubrec(o2, a), IsPubrec(o2, b), o2[a].pktid = q2[k].pktid,
                        o2[b].pktid = q2[l].pktid
                 PROVE  k < l
      OBVIOUS
    <2>1. a # m /\ IsPubrec(o, a) /\ o2[a] = o[a] /\ a \in DOMAIN o
      <3>1. b = m \/ b < m
        BY <1>4, <1>5
      <3>2. a # m
        BY <3>1 DEF Added
      <3> QED
        BY <1>4, <3>2
    <2>2. k \in DOMAIN q /\ q2[k] = q[k] /\ k < n
      BY <1>0, <1>1, <2>1
    <2>3. CASE b = m
      <3>1. l = n
        BY <1>0, <1>1, <2>3
      <3> QED
        BY <2>2, <3>1
    <2>4. CASE b # m
      <3>1. IsPubrec(o, b) /\ o2[b] = o[b] /\ b \in DOMAIN o
        BY <1>4, <2>4
      <3>2. l \in DOMAIN q /\ q2[l] = q[l]
        BY <1>0, <1>1, <3>1
      <3> QED
        BY <2>1, <2>2, <3>1, <3>2 DEF Lockstep
    <2> QED
      BY <2>3, <2>4
  <1>11. \A a \in DOMAIN i2, b \in DOMAIN o2, k, l \in DOMAIN q2 :
          IsPubrel(i2, a) /\ IsPubrec(o2, b) /\ i2[a].pktid = q2[k].pktid /\ o2[b].pktid = q2[l].pktid
          => k < l
    <2> SUFFICES ASSUME NEW a \in DOMAIN i2, NEW b \in DOMAIN o2, NEW k \in DOMAIN q2, NEW l \in DOMAIN q2,
                        IsPubrel(i2, a), IsPubrec(o2, b), i2[a].pktid = q2[k].pktid,
                        o2[b].pktid = q2[l].pktid
                 PROVE  k < l
      OBVIOUS
    <2>1. IsPubrel(i, a + 1) /\ i2[a] = i[a + 1] /\ a + 1 \in DOMAIN i
      BY <1>2
    <2>2. k \in DOMAIN q /\ q2[k] = q[k] /\ k < n
      BY <1>0, <1>1
    <2>3. CASE b = m
      <3>1. l = n
        BY <1>0, <1>1, <2>3
      <3> QED
        BY <2>2, <3>1
    <2>4. CASE b # m
      <3>1. IsPubrec(o, b) /\ o2[b] = o[b] /\ b \in DOMAIN o
        BY <1>4, <2>4
      <3>2. l \in DOMAIN q /\ q2[l] = q[l]
        BY <1>0, <1>1, <3>1
      <3> QED
        BY <2>1, <2>2, <3>1, <3>2 DEF Lockstep
    <2> QED
      BY <2>3, <2>4
  <1> QED
    BY <1>6, <1>7, <1>8, <1>9, <1>10, <1>11 DEF Lockstep


\* A PUBREL at the head of the connection is for the message at the head of the queue,
\* and for no other.
LEMMA HeadReleased ==
  ASSUME NEW f, NEW q, NEW i, NEW o, NEW l \in Nat, DOMAIN q = 1..l, DOMAIN i \subseteq Nat \ {0},
         \A k \in DOMAIN q : q[k].msg \in Nat,
         Lockstep(f, q, i, o), InOrder(q, i), IsPubrel(i, 1)
  PROVE  /\ 1 \in DOMAIN q /\ q[1].pktid = i[1].pktid
         /\ \A k \in DOMAIN q : q[k].pktid = i[1].pktid => k = 1
  <1>1. \A j, k \in DOMAIN q : q[j].pktid = q[k].pktid => j = k
    <2> SUFFICES ASSUME NEW j \in DOMAIN q, NEW k \in DOMAIN q, q[j].pktid = q[k].pktid
                 PROVE  j = k
      OBVIOUS
    <2>1. q[j].msg = q[k].msg
      BY DEF Lockstep
    <2>2. ~(j < k) /\ ~(k < j)
      BY <2>1 DEF InOrder
    <2> QED
      BY <2>2
  <1>2. 1 \in DOMAIN i
    BY DEF IsPubrel
  <1>3. PICK k \in DOMAIN q : q[k].pktid = i[1].pktid
    BY <1>2 DEF Lockstep
  <1>4. 1 \in DOMAIN q /\ ~(k < 1)
    BY <1>3
  <1>5. q[1].pktid = i[1].pktid
    <2>1. CASE \E j \in DOMAIN i : IsPubrel(i, j) /\ i[j].pktid = q[1].pktid
      <3>1. PICK j \in DOMAIN i : IsPubrel(i, j) /\ i[j].pktid = q[1].pktid
        BY <2>1
      <3>2. ~(1 < j)
        BY <1>2, <1>3, <1>4, <3>1 DEF Lockstep
      <3>3. j = 1
        BY <3>2
      <3> QED
        BY <3>1, <3>3
    <2>2. CASE \E j \in DOMAIN o : IsPubrec(o, j) /\ o[j].pktid = q[1].pktid
      <3>1. PICK j \in DOMAIN o : IsPubrec(o, j) /\ o[j].pktid = q[1].pktid
        BY <2>2
      <3>2. k < 1
        BY <1>2, <1>3, <1>4, <3>1 DEF Lockstep
      <3> QED
        BY <1>4, <3>2
    <2> QED
      BY <1>4, <2>1, <2>2 DEF Lockstep
  <1> QED
    BY <1>1, <1>4, <1>5

\* That message leaves the queue and the PUBREL is answered.
LEMMA LockstepPubrel ==
  ASSUME NEW f, NEW q, NEW i, NEW o, NEW q2, NEW i2, NEW o2, NEW m, NEW r,
         Lockstep(f, q, i, o), Part(i2, i, 1), IsPubrel(i, 1), Part(q2, q, 1),
         q[1].pktid = i[1].pktid, \A k \in DOMAIN q : q[k].pktid = i[1].pktid => k = 1,
         Added(o2, o, r, m), r.type = "PUBCOMP", OneEach(i),
         \A j \in DOMAIN q : j # 1 => j - 1 \in DOMAIN q2 /\ (j - 1) + 1 = j,
         \A j \in DOMAIN i : j # 1 => j - 1 \in DOMAIN i2 /\ (j - 1) + 1 = j
  PROVE  Lockstep(f, q2, i2, o2)
  <1>1. \A j : IsPubrel(i2, j) =>
          /\ IsPubrel(i, j + 1) /\ i2[j] = i[j + 1] /\ j + 1 \in DOMAIN i /\ 1 < j + 1
          /\ i[j + 1].pktid # i[1].pktid
    BY DEF Part, IsPubrel, OneEach
  <1>2. \A j \in DOMAIN i : IsPubrel(i, j) /\ j # 1 =>
          j - 1 \in DOMAIN i2 /\ IsPubrel(i2, j - 1) /\ i2[j - 1] = i[j]
    BY DEF Part, IsPubrel
  <1>3. \A j : IsPubrec(o2, j) <=> IsPubrec(o, j)
    BY DEF Added, IsPubrec
  <1>4. \A j : IsPubrec(o, j) => j \in DOMAIN o /\ j \in DOMAIN o2 /\ o2[j] = o[j]
    BY DEF Added, IsPubrec
  <1>5. \A k \in DOMAIN q2 : k \in Nat /\ k + 1 \in DOMAIN q /\ q2[k] = q[k + 1] /\ q2[k].pktid # i[1].pktid
    BY DEF Part
  <1>6. \A k \in DOMAIN q : q[k].pktid # i[1].pktid => k - 1 \in DOMAIN q2 /\ q2[k - 1] = q[k]
    BY DEF Part
  <1>7. \A j \in DOMAIN o : IsPubrec(o, j) => o[j].pktid # i[1].pktid
    <2> SUFFICES ASSUME NEW j \in DOMAIN o, IsPubrec(o, j), o[j].pktid = i[1].pktid
                 PROVE  FALSE
      OBVIOUS
    <2>1. 1 \in DOMAIN i
      BY DEF IsPubrel
    <2>2. PICK k \in DOMAIN q : q[k].pktid = i[1].pktid
      BY <2>1 DEF Lockstep
    <2>3. k < k /\ k = 1
      BY <2>1, <2>2 DEF Lockstep
    <2> QED
      BY <2>3
  <1>8. \A k \in DOMAIN q2 :
          /\ ~q2[k].rel
          /\ f[q2[k].pktid].msg = q2[k].msg
          /\ \/ \E j \in DOMAIN i2 : IsPubrel(i2, j) /\ i2[j].pktid = q2[k].pktid
             \/ \E j \in DOMAIN o2 : IsPubrec(o2, j) /\ o2[j].pktid = q2[k].pktid
    <2> TAKE k \in DOMAIN q2
    <2>1. k + 1 \in DOMAIN q /\ q2[k] = q[k + 1] /\ q2[k].pktid # i[1].pktid
      BY <1>5
    <2>2. ~q2[k].rel /\ f[q2[k].pktid].msg = q2[k].msg
      BY <2>1 DEF Lockstep
    <2>3. \/ \E j \in DOMAIN i : IsPubrel(i, j) /\ i[j].pktid = q2[k].pktid
          \/ \E j \in DOMAIN o : IsPubrec(o, j) /\ o[j].pktid = q2[k].pktid
      BY <2>1 DEF Lockstep
    <2> QED
      BY <1>2, <1>3, <1>4, <2>1, <2>2, <2>3
  <1>9. \A j \in DOMAIN i2 : IsPubrel(i2, j) => \E k \in DOMAIN q2 : q2[k].pktid = i2[j].pktid
    <2> SUFFICES ASSUME NEW j \in DOMAIN i2, IsPubrel(i2, j)
                 PROVE  \E k \in DOMAIN q2 : q2[k].pktid = i2[j].pktid
      OBVIOUS
    <2>1. PICK k \in DOMAIN q : q[k].pktid = i2[j].pktid
      BY <1>1 DEF Lockstep
    <2> QED
      BY <1>1, <1>6, <2>1
  <1>10. \A j \in DOMAIN o2 : IsPubrec(o2, j) => \E k \in DOMAIN q2 : q2[k].pktid = o2[j].pktid
    <2> SUFFICES ASSUME NEW j \in DOMAIN o2, IsPubrec(o2, j)
                 PROVE  \E k \in DOMAIN q2 : q2[k].pktid = o2[j].pktid
      OBVIOUS
    <2>1. IsPubrec(o, j) /\ j \in DOMAIN o /\ o2[j] = o[j]
      BY <1>3, <1>4
    <2>2. PICK k \in DOMAIN q : q[k].pktid = o2[j].pktid
      BY <2>1 DEF Lockstep
    <2> QED
      BY <1>6, <1>7, <2>1, <2>2
  <1>11. \A k, l \in DOMAIN q2 : k + 1 < l + 1 => k < l
    BY <1>5
  <1>12. \A a, b \in DOMAIN i2, k, l \in DOMAIN q2 :
          a < b /\ IsPubrel(i2, a) /\ IsPubrel(i2, b) /\ i2[a].pktid = q2[k].pktid
          /\ i2[b].pktid = q2[l].pktid
          => k < l
    <2>1. \A a, b \in DOMAIN i2 : a < b => a + 1 < b + 1
      BY DEF Part
    <2> SUFFICES ASSUME NEW a \in DOMAIN i2, NEW b \in DOMAIN i2, NEW k \in DOMAIN q2, NEW l \in DOMAIN q2,
                        a < b, IsPubrel(i2, a), IsPubrel(i2, b), i2[a].pktid = q2[k].pktid,
                        i2[b].pktid = q2[l].pktid
                 PROVE  k + 1 < l + 1
      BY <1>11
    <2>2. /\ a + 1 \in DOMAIN i /\ b + 1 \in DOMAIN i /\ IsPubrel(i, a + 1) /\ IsPubrel(i, b + 1)
          /\ i[a + 1].pktid = q[k + 1].pktid /\ i[b + 1].pktid = q[l + 1].pktid
          /\ a + 1 < b + 1 /\ k + 1 \in DOMAIN q /\ l + 1 \in DOMAIN q
      BY <1>1, <1>5, <2>1
    <2> QED
      BY <2>2 DEF Lockstep
  <1>13. \A a, b \in DOMAIN o2, k, l \in DOMAIN q2 :
          a < b /\ IsPubrec(o2, a) /\ IsPubrec(o2, b) /\ o2[a].pktid = q2[k].pktid
          /\ o2[b].pktid = q2[l].pktid
          => k < l
    <2> SUFFICES ASSUME NEW a \in DOMAIN o2, NEW b \in DOMAIN o2, NEW k \in DOMAIN q2, NEW l \in DOMAIN q2,
                        a < b, IsPubrec(o2, a), IsPubrec(o2, b), o2[a].pktid = q2[k].pktid,
                        o2[b].pktid = q2[l].pktid
                 PROVE  k + 1 < l + 1
      BY <1>11
    <2>2. /\ a \in DOMAIN o /\ b \in DOMAIN o /\ IsPubrec(o, a) /\ IsPubrec(o, b)
          /\ o[a].pktid = q[k + 1].pktid /\ o[b].pktid = q[l + 1].pktid
          /\ k + 1 \in DOMAIN q /\ l + 1 \in DOMAIN q
      BY <1>3, <1>4, <1>5
    <2> QED
      BY <2>2 DEF Lockstep
  <1>14. \A a \in DOMAIN i2, b \in DOMAIN o2, k, l \in DOMAIN q2 :
          IsPubrel(i2, a) /\ IsPubrec(o2, b) /\ i2[a].pktid = q2[k].pktid /\ o2[b].pktid = q2[l].pktid
          => k < l
    <2> SUFFICES ASSUME NEW a \in DOMAIN i2, NEW b \in DOMAIN o2, NEW k \in DOMAIN q2, NEW l \in DOMAIN q2,
                        IsPubrel(i2, a), IsPubrec(o2, b), i2[a].pktid = q2[k].pktid,
                        o2[b].pktid = q2[l].pktid
                 PROVE  k + 1 < l + 1
      BY <1>11
    <2>2. /\ a + 1 \in DOMAIN i /\ b \in DOMAIN o /\ IsPubrel(i, a + 1) /\ IsPubrec(o, b)
          /\ i[a + 1].pktid = q[k + 1].pktid /\ o[b].pktid = q[l + 1].pktid
          /\ k + 1 \in DOMAIN q /\ l + 1 \in DOMAIN q
      BY <1>1, <1>3, <1>4, <1>5
    <2> QED
      BY <2>2 DEF Lockstep
  <1> QED
    BY <1>8, <1>9, <1>10, <1>12, <1>13, <1>14 DEF Lockstep

\* The PUBCOMPs on their way are for published messages: also when some are lost and
\* the client changes the state of other packet ids,
LEMMA CompletesPart ==
  ASSUME NEW f, NEW f2, NEW pb, NEW o, NEW o2, NEW d,
         CompletesPublished(f, pb, o), Part(o2, o, d),
         \A k \in DOMAIN o2 : IsPubcomp(o2, k) => f2[o2[k].pktid].msg = f[o2[k].pktid].msg
  PROVE  CompletesPublished(f2, pb, o2)
  BY DEF CompletesPublished, Part, IsPubcomp

\* and when the broker answers.
LEMMA CompletesAnswer ==
  ASSUME NEW f, NEW pb, NEW pb2, NEW o, NEW o2, NEW m, NEW r,
         CompletesPublished(f, pb, o), Added(o2, o, r, m),
         DOMAIN pb \subseteq DOMAIN pb2, \A x \in DOMAIN pb : pb2[x] = pb[x],
         r.type # "PUBCOMP" \/ \E x \in DOMAIN pb2 : pb2[x].msg = f[r.pktid].msg
  PROVE  CompletesPublished(f, pb2, o2)
  <1> SUFFICES ASSUME NEW k \in DOMAIN o2, IsPubcomp(o2, k)
               PROVE  \E x \in DOMAIN pb2 : pb2[x].msg = f[o2[k].pktid].msg
    BY DEF CompletesPublished
  <1>1. CASE k = m
    BY <1>1 DEF Added, IsPubcomp
  <1>2. CASE k # m
    <2>1. k \in DOMAIN o /\ o2[k] = o[k] /\ IsPubcomp(o, k)
      BY <1>2 DEF Added, IsPubcomp
    <2> QED
      BY <2>1 DEF CompletesPublished
  <1> QED
    BY <1>1, <1>2


-----------------------------------------------------------------------------
(* The steps of the client.                                                *)

\* The invariant holds initially.
LEMMA InitIndInv == Init => IndInv
  <1> SUFFICES ASSUME Init PROVE IndInv
    OBVIOUS
  <1>0. /\ \A c \in Conns : svc[c] = NoService
        /\ NoService \in Services
        /\ NoService.queue = <<>> /\ NoService.c2s = <<>> /\ NoService.status = "none"
    BY DEF Init, NoService, Services
  <1>1. TypeOK
    <2>0. clientUp \in BOOLEAN
      BY DEF Init
    <2>1. cur \in 0..MaxConns
      BY InFlowAssumption DEF Init
    <2>2. flight \in [PktIds -> [phase : {"idle", "publish", "pubrel"}, msg : Messages \cup {None}]]
      BY DEF Init, Idle
    <2>3. sentOn \in Seq(Conns) /\ published \in Seq([msg : Messages, conn : Conns])
      BY DEF Init
    <2>4. store \in [PktIds -> Messages \cup {None}]
      BY DEF Init
    <2>5. \A c \in Conns : svc[c].queue \in Seq([pktid : PktIds, msg : Messages, rel : BOOLEAN])
      <3>1. <<>> \in Seq([pktid : PktIds, msg : Messages, rel : BOOLEAN])
        BY EmptySeq
      <3> QED
        BY <1>0, <3>1
    <2> QED
      BY <2>0, <2>1, <2>2, <2>3, <2>4, <2>5 DEF Init, TypeOK
  <1>2. ServicesOK
    BY <1>0 DEF Init, ServicesOK
  <1>3. OwnMessages /\ OwnPublished /\ QueuesOrdered /\ SentOrder
    BY <1>0 DEF Init, OwnMessages, OwnPublished, QueuesOrdered, SentOrder, InOrder, Before
  <1>4. ClientOK
    BY <1>0 DEF Init, ClientOK, Idle, OneEach
  <1>5. MarksReleased /\ OnlyReleased /\ InStep /\ CompletedPublished
    BY <1>0 DEF Init, MarksReleased, ReleasedOK, OnlyReleased, InStep, CompletedPublished
  <1> QED
    BY <1>1, <1>2, <1>3, <1>4, <1>5 DEF IndInv

\* What was published are messages of connections.
LEMMA PublishedFacts ==
  ASSUME TypeOK
  PROVE  /\ Len(published) \in Nat /\ DOMAIN published = 1..Len(published)
         /\ \A x \in DOMAIN published : published[x].conn \in Conns /\ published[x].msg \in Messages
  <1>1. published \in Seq([msg : Messages, conn : Conns])
    BY DEF TypeOK
  <1>2. Len(published) \in Nat /\ DOMAIN published = 1..Len(published)
    BY <1>1, LenProperties
  <1>3. \A x \in DOMAIN published : published[x] \in [msg : Messages, conn : Conns]
    BY <1>1, <1>2, ElementOfSeq
  <1> QED
    BY <1>2, <1>3

\* What a service keeps is made of sequences.
LEMMA ServiceFacts ==
  ASSUME svc \in [Conns -> Services], NEW c \in Conns
  PROVE  /\ svc[c].queue \in Seq(Entries) /\ svc[c].c2s \in Seq(Packets) /\ svc[c].s2c \in Seq(Answers)
         /\ Kinds(svc[c].c2s, svc[c].s2c)
         /\ \A k \in DOMAIN svc[c].queue : svc[c].queue[k] \in Entries
         /\ \A k \in DOMAIN svc[c].c2s : svc[c].c2s[k] \in Packets
         /\ \A k \in DOMAIN svc[c].s2c : svc[c].s2c[k] \in Answers
  <1>1. svc[c].queue \in Seq(Entries) /\ svc[c].c2s \in Seq(Packets) /\ svc[c].s2c \in Seq(Answers)
    BY DEF Services
  <1>2. \A k \in DOMAIN svc[c].c2s : svc[c].c2s[k] \in Packets
    BY <1>1, ElementOfSeq, LenProperties
  <1>3. \A k \in DOMAIN svc[c].s2c : svc[c].s2c[k] \in Answers
    BY <1>1, ElementOfSeq, LenProperties
  <1>4. \A k \in DOMAIN svc[c].queue : svc[c].queue[k] \in Entries
    BY <1>1, ElementOfSeq, LenProperties
  <1> QED
    BY <1>1, <1>2, <1>3, <1>4 DEF Kinds, Packets, Answers

\* The client publishes.
LEMMA PublishKeeps ==
  ASSUME IndInv, NEW p \in PktIds, ClientPublish(p)
  PROVE  IndInv'
  <1> DEFINE m == Len(sentOn) + 1
             e == [type |-> "PUBLISH", pktid |-> p, msg |-> m]
             n == Len(svc[cur].c2s) + 1
  <1>1. /\ cur \in Conns /\ clientUp /\ flight[p] = Idle /\ flight[p].phase = "idle" /\ flight[p].msg = None
        /\ svc \in [Conns -> Services] /\ svc[cur].status # "lost"
    BY DEF IndInv, ServicesOK, ClientPublish, Idle
  <1>2. /\ Len(sentOn) \in Nat /\ DOMAIN sentOn = 1..Len(sentOn)
        /\ m \in Messages /\ m \in Nat
    BY LenProperties DEF IndInv, TypeOK, ClientPublish, Messages
  <1>3. e \in Packets
    BY <1>2 DEF Packets
  <1>4. /\ svc' \in [Conns -> Services]
        /\ \A d \in Conns : d # cur => svc'[d] = svc[d]
        /\ svc'[cur].c2s = Append(svc[cur].c2s, e)
        /\ \A d \in Conns : /\ svc'[d].queue = svc[d].queue /\ svc'[d].s2c = svc[d].s2c
                            /\ svc'[d].restored = svc[d].restored /\ svc'[d].status = svc[d].status
    <2>1. svc' = [svc EXCEPT ![cur].c2s = Append(@, e)]
      BY DEF ClientPublish
    <2>2. Append(svc[cur].c2s, e) \in Seq(Packets)
      BY <1>1, <1>3, ServiceFacts, AppendProperties
    <2>3. svc[cur] \in Services
      BY <1>1
    <2>4. [svc[cur] EXCEPT !.c2s = Append(@, e)] \in Services
      BY <2>2, <2>3 DEF Services
    <2>5. svc'[cur] = [svc[cur] EXCEPT !.c2s = Append(@, e)]
      BY <1>1, <2>1
    <2>6. \A d \in Conns : d # cur => svc'[d] = svc[d]
      BY <1>1, <2>1
    <2>7. svc' \in [Conns -> Services]
      BY <1>1, <2>1, <2>4
    <2> QED
      BY <2>3, <2>5, <2>6, <2>7 DEF Services
  <1>5. Added(svc'[cur].c2s, svc[cur].c2s, e, n)
    BY <1>1, <1>3, <1>4, ServiceFacts, Appended
  <1>6. /\ sentOn' \in Seq(Conns) /\ DOMAIN sentOn' = 1..m
        /\ \A c, x : Sent(sentOn, c, x) => Sent(sentOn', c, x) /\ x < m
        /\ Sent(sentOn', cur, m)
    <2>1. sentOn \in Seq(Conns) /\ sentOn' = Append(sentOn, cur)
      BY DEF IndInv, TypeOK, ClientPublish
    <2>2. /\ sentOn' \in Seq(Conns) /\ Len(sentOn') = Len(sentOn) + 1
          /\ \A k \in 1..Len(sentOn) : sentOn'[k] = sentOn[k]
          /\ sentOn'[Len(sentOn) + 1] = cur
      BY <1>1, <2>1, AppendProperties
    <2>3. DOMAIN sentOn' = 1..m
      BY <2>2, LenProperties
    <2> QED
      BY <1>2, <2>2, <2>3 DEF Sent
  <1>7. /\ flight'[p].phase = "publish" /\ flight'[p].msg = m
        /\ \A x : x # p => flight'[x] = flight[x]
        /\ flight' \in [PktIds -> [phase : {"idle", "publish", "pubrel"}, msg : Messages \cup {None}]]
    BY <1>2 DEF IndInv, TypeOK, ClientPublish
  <1> HIDE DEF m, e, n
  <1>8. /\ cur' = cur /\ clientUp' = clientUp /\ released' = released /\ completed' = completed
        /\ store' = store /\ published' = published
    BY DEF ClientPublish
  <1>9. e.type = "PUBLISH" /\ e.pktid = p /\ e.msg = m
    BY DEF e
  <1>a. TypeOK'
    BY <1>4, <1>6, <1>7, <1>8, ServiceFacts DEF IndInv, TypeOK, Entries
  <1>b. ServicesOK'
    <2>1. \A c \in Conns : c > cur => svc'[c] = NoService
      BY <1>1, <1>4 DEF IndInv, ServicesOK, Conns
    <2>2. \A c \in Conns : svc'[c].status = "up" => clientUp /\ c = cur
      BY <1>4 DEF IndInv, ServicesOK
    <2> QED
      BY <1>1, <1>4, <1>8, <2>1, <2>2 DEF ServicesOK
  <1>c. OwnMessages'
    <2>1. \A d \in Conns : \A k \in DOMAIN svc'[d].c2s :
            IsPublish(svc'[d].c2s, k) => Sent(sentOn', d, svc'[d].c2s[k].msg)
      <3> SUFFICES ASSUME NEW d \in Conns, NEW k \in DOMAIN svc'[d].c2s, IsPublish(svc'[d].c2s, k)
                   PROVE  Sent(sentOn', d, svc'[d].c2s[k].msg)
        OBVIOUS
      <3>1. CASE d = cur /\ k = n
        BY <1>5, <1>6, <1>9, <3>1 DEF Added
      <3>2. CASE d = cur /\ k # n
        BY <1>5, <1>6, <3>2 DEF Added, IndInv, OwnMessages, IsPublish
      <3>3. CASE d # cur
        BY <1>4, <1>6, <3>3 DEF IndInv, OwnMessages
      <3> QED
        BY <3>1, <3>2, <3>3
    <2>2. \A d \in Conns : ~svc'[d].restored =>
            \A k \in DOMAIN svc'[d].queue : Sent(sentOn', d, svc'[d].queue[k].msg)
      BY <1>4, <1>6 DEF IndInv, OwnMessages
    <2> QED
      BY <2>1, <2>2 DEF OwnMessages
  <1>d. OwnPublished'
    <2>1. \A x \in DOMAIN published : published[x].conn \in Conns
      BY PublishedFacts DEF IndInv
    <2> QED
      BY <1>4, <1>6, <1>8, <2>1 DEF IndInv, OwnPublished
  <1>e. QueuesOrdered'
    <2> SUFFICES ASSUME NEW d \in Conns, ~svc'[d].restored
                 PROVE  /\ InOrder(svc'[d].queue, svc'[d].c2s)
                        /\ Before(published', d, svc'[d].queue, svc'[d].c2s)
      BY DEF QueuesOrdered
    <2>0. InOrder(svc[d].queue, svc[d].c2s) /\ Before(published, d, svc[d].queue, svc[d].c2s)
      BY <1>4 DEF IndInv, QueuesOrdered
    <2>1. CASE d = cur
      <3>1. /\ \A k \in DOMAIN svc[cur].queue : svc[cur].queue[k].msg < e.msg
            /\ \A k \in DOMAIN svc[cur].c2s : IsPublish(svc[cur].c2s, k) => svc[cur].c2s[k].msg < e.msg
        BY <1>4, <1>6, <1>9, <2>1 DEF IndInv, OwnMessages
      <3>2. \A x \in DOMAIN published : published[x].conn = cur => published[x].msg < e.msg
        BY <1>4, <1>6, <1>9, <2>1 DEF IndInv, OwnPublished
      <3>3. InOrder(svc[cur].queue, svc'[cur].c2s)
        BY <1>5, <2>0, <2>1, <3>1, OrderSent
      <3>4. Before(published, cur, svc[cur].queue, svc'[cur].c2s)
        BY <1>5, <2>0, <2>1, <3>2, BeforeSent
      <3> QED
        BY <1>4, <1>8, <2>1, <3>3, <3>4
    <2>2. CASE d # cur
      BY <1>4, <1>8, <2>0, <2>2
    <2> QED
      BY <2>1, <2>2
  <1>f. SentOrder'
    <2>1. \A x \in DOMAIN published : published[x].conn \in Conns
      BY PublishedFacts DEF IndInv
    <2> QED
      BY <1>4, <1>8, <2>1 DEF IndInv, SentOrder
  <1>g. Tokens(flight', svc'[cur].c2s, svc'[cur].s2c)
    <2>1. Tokens(flight, svc[cur].c2s, svc[cur].s2c) /\ Kinds(svc[cur].c2s, svc[cur].s2c)
      BY <1>1, ServiceFacts DEF IndInv, ClientOK
    <2>2. Tokens(flight', svc'[cur].c2s, svc[cur].s2c)
      BY <1>1, <1>5, <1>7, <1>9, <2>1, TokensPublish
    <2> QED
      BY <1>1, <1>4, <2>2
  <1>h. ClientOK'
    <2>1. \A d \in Conns : OneEach(svc'[d].c2s)
      BY <1>4, <1>g DEF IndInv, ClientOK, Tokens
    <2>2. \A x \in PktIds : flight'[x].phase # "idle" =>
            flight'[x].msg \in Messages /\ Sent(sentOn', cur, flight'[x].msg)
      <3> TAKE x \in PktIds
      <3>1. CASE x = p
        BY <1>2, <1>6, <1>7, <3>1
      <3>2. CASE x # p
        BY <1>1, <1>6, <1>7, <3>2 DEF IndInv, ClientOK
      <3> QED
        BY <3>1, <3>2
    <2>3. \A x \in PktIds : flight'[x].phase = "pubrel" => flight'[x].msg \in released'
      BY <1>7, <1>8 DEF IndInv, ClientOK
    <2>4. \A x \in PktIds : flight'[x].phase = "idle" => flight'[x].msg = None
      BY <1>7 DEF IndInv, ClientOK
    <2>5. completed' \subseteq DOMAIN sentOn'
      BY <1>2, <1>6, <1>8 DEF IndInv, ClientOK, Sent
    <2> QED
      BY <1>8, <1>g, <2>1, <2>2, <2>3, <2>4, <2>5 DEF ClientOK
  <1>i. MarksReleased'
    <2>1. \A d \in Conns : ~svc'[d].restored => ReleasedOK(released', svc'[d].queue, svc'[d].c2s)
      <3> SUFFICES ASSUME NEW d \in Conns, ~svc'[d].restored
                   PROVE  ReleasedOK(released, svc'[d].queue, svc'[d].c2s)
        BY <1>8
      <3>0. ReleasedOK(released, svc[d].queue, svc[d].c2s)
        BY <1>4 DEF IndInv, MarksReleased
      <3>1. CASE d = cur
        <4>1. ReleasedOK(released, svc[cur].queue, svc'[cur].c2s)
          BY <1>5, <1>9, <3>0, <3>1, ReleasedSent
        <4> QED
          BY <1>4, <3>1, <4>1
      <3>2. CASE d # cur
        BY <1>4, <3>0, <3>2
      <3> QED
        BY <3>1, <3>2
    <2>2. ASSUME ~svc'[cur].restored, NEW k \in DOMAIN svc'[cur].queue
          PROVE  \/ svc'[cur].queue[k].msg \in released
                 \/ svc'[cur].queue[k].msg = flight'[svc'[cur].queue[k].pktid].msg
      <3>1. svc'[cur].queue[k] \in Entries /\ svc'[cur].queue = svc[cur].queue
        BY <1>1, <1>4, <2>2, ServiceFacts
      <3>2. svc'[cur].queue[k].msg # None
        BY <3>1 DEF Entries, Messages, None
      <3>3. \/ svc[cur].queue[k].msg \in released
            \/ svc[cur].queue[k].msg = flight[svc[cur].queue[k].pktid].msg
        BY <1>1, <1>4, <2>2 DEF IndInv, MarksReleased
      <3> QED
        BY <1>1, <1>7, <3>1, <3>2, <3>3
    <2> QED
      BY <1>8, <2>1, <2>2 DEF MarksReleased
  <1>j. OnlyReleased'
    <2>1. \A x \in DOMAIN published : published[x].conn \in Conns
      BY PublishedFacts DEF IndInv
    <2> QED
      BY <1>4, <1>8, <2>1 DEF IndInv, OnlyReleased
  <1>k. InStep'
    <2> SUFFICES ASSUME ~svc'[cur].restored
                 PROVE  /\ svc'[cur].status = "up" =>
                             Lockstep(flight', svc'[cur].queue, svc'[cur].c2s, svc'[cur].s2c)
                        /\ CompletesPublished(flight', published', svc'[cur].s2c)
      BY <1>8 DEF InStep
    <2>0. /\ svc[cur].status = "up" => Lockstep(flight, svc[cur].queue, svc[cur].c2s, svc[cur].s2c)
          /\ CompletesPublished(flight, published, svc[cur].s2c)
      BY <1>1, <1>4 DEF IndInv, InStep
    <2>1. Tokens(flight, svc[cur].c2s, svc[cur].s2c) /\ Kinds(svc[cur].c2s, svc[cur].s2c)
      BY <1>1, ServiceFacts DEF IndInv, ClientOK
    <2>2. ASSUME svc[cur].status = "up"
          PROVE  Lockstep(flight', svc[cur].queue, svc'[cur].c2s, svc[cur].s2c)
      BY <1>1, <1>5, <1>7, <1>9, <2>0, <2>1, <2>2, LockstepPublish
    <2>3. CompletesPublished(flight', published, svc[cur].s2c)
      <3>1. \A k \in DOMAIN svc[cur].s2c : svc[cur].s2c[k].pktid # p
        BY <1>1, <2>1, IdleHasNone
      <3>2. Part(svc[cur].s2c, svc[cur].s2c, 0)
        BY <1>1, ServiceFacts, Parts
      <3> QED
        BY <1>7, <2>0, <3>1, <3>2, CompletesPart
    <2> QED
      BY <1>1, <1>4, <1>8, <2>2, <2>3
  <1>l. CompletedPublished'
    <2> SUFFICES ASSUME NEW x \in completed
                 PROVE  \/ svc'[sentOn'[x]].restored
                        \/ \E k \in DOMAIN published : published[k].msg = x
      BY <1>8 DEF CompletedPublished
    <2>1. x \in DOMAIN sentOn /\ sentOn[x] \in Conns
      BY ElementOfSeq, <1>2 DEF IndInv, ClientOK, TypeOK
    <2>2. sentOn'[x] = sentOn[x]
      BY <1>6, <2>1 DEF Sent
    <2> QED
      BY <1>4, <2>1, <2>2 DEF IndInv, CompletedPublished
  <1> QED
    BY <1>a, <1>b, <1>c, <1>d, <1>e, <1>f, <1>h, <1>i, <1>j, <1>k, <1>l DEF IndInv


\* The client answers PUBREC with PUBREL.
LEMMA PubrecKeeps ==
  ASSUME IndInv, NEW p \in PktIds, ClientPubrec(p)
  PROVE  IndInv'
  <1> DEFINE e == [type |-> "PUBREL", pktid |-> p, msg |-> None]
             n == Len(svc[cur].c2s) + 1
  <1>1. /\ cur \in Conns /\ clientUp /\ svc \in [Conns -> Services] /\ svc[cur].status # "lost"
        /\ svc[cur].s2c # <<>> /\ Head(svc[cur].s2c) = [type |-> "PUBREC", pktid |-> p]
    BY DEF IndInv, ServicesOK, ClientPubrec
  <1>2. /\ Part(Tail(svc[cur].s2c), svc[cur].s2c, 1) /\ Tail(svc[cur].s2c) \in Seq(Answers)
        /\ IsPubrec(svc[cur].s2c, 1) /\ svc[cur].s2c[1].pktid = p /\ 1 \in DOMAIN svc[cur].s2c
        /\ \A j \in DOMAIN svc[cur].s2c : j # 1 => j - 1 \in DOMAIN Tail(svc[cur].s2c) /\ (j - 1) + 1 = j
    BY <1>1, ServiceFacts, Parts DEF IsPubrec
  <1>3. e \in Packets
    BY DEF Packets
  <1>4. /\ svc' \in [Conns -> Services]
        /\ \A d \in Conns : d # cur => svc'[d] = svc[d]
        /\ svc'[cur].c2s = Append(svc[cur].c2s, e) /\ svc'[cur].s2c = Tail(svc[cur].s2c)
        /\ \A d \in Conns : /\ svc'[d].queue = svc[d].queue /\ svc'[d].restored = svc[d].restored
                            /\ svc'[d].status = svc[d].status
    <2> DEFINE r == [svc[cur] EXCEPT !.s2c = Tail(@), !.c2s = Append(@, e)]
    <2>1. svc' = [svc EXCEPT ![cur].s2c = Tail(@), ![cur].c2s = Append(@, e)]
      BY DEF ClientPubrec
    <2>2. Append(svc[cur].c2s, e) \in Seq(Packets)
      BY <1>1, <1>3, ServiceFacts, AppendProperties
    <2>3. svc[cur] \in Services
      BY <1>1
    <2>4. r \in Services
      BY <1>2, <2>2, <2>3 DEF Services
    <2>5. svc'[cur] = r
      BY <1>1, <2>1, <2>3 DEF Services
    <2>6. \A d \in Conns : d # cur => svc'[d] = svc[d]
      BY <1>1, <2>1
    <2>7. DOMAIN svc' = Conns /\ svc' = [d \in Conns |-> svc'[d]]
      BY <1>1, <2>1
    <2>8. svc' \in [Conns -> Services]
      BY <1>1, <2>4, <2>5, <2>6, <2>7
    <2> QED
      BY <2>3, <2>5, <2>6, <2>8 DEF Services
  <1>5. Added(svc'[cur].c2s, svc[cur].c2s, e, n)
    BY <1>1, <1>3, <1>4, ServiceFacts, Appended
  <1>6. Tokens(flight, svc[cur].c2s, svc[cur].s2c) /\ flight[p].phase = "publish"
    <2>1. Tokens(flight, svc[cur].c2s, svc[cur].s2c)
      BY <1>1 DEF IndInv, ClientOK
    <2> QED
      BY <1>2, <2>1 DEF Tokens
  <1>7. /\ flight'[p].phase = "pubrel" /\ flight'[p].msg = flight[p].msg
        /\ \A x : x # p => flight'[x] = flight[x]
        /\ flight' \in [PktIds -> [phase : {"idle", "publish", "pubrel"}, msg : Messages \cup {None}]]
    <2>1. flight \in [PktIds -> [phase : {"idle", "publish", "pubrel"}, msg : Messages \cup {None}]]
      BY DEF IndInv, TypeOK
    <2>2. flight[p] \in [phase : {"idle", "publish", "pubrel"}, msg : Messages \cup {None}]
      BY <2>1
    <2>3. flight' = [flight EXCEPT ![p] = [flight[p] EXCEPT !.phase = "pubrel"]]
      BY DEF ClientPubrec
    <2>4. /\ [flight[p] EXCEPT !.phase = "pubrel"].phase = "pubrel"
          /\ [flight[p] EXCEPT !.phase = "pubrel"].msg = flight[p].msg
          /\ [flight[p] EXCEPT !.phase = "pubrel"]
                \in [phase : {"idle", "publish", "pubrel"}, msg : Messages \cup {None}]
      BY <2>2
    <2> QED
      BY <2>1, <2>3, <2>4
  <1>8. flight[p].msg \in Messages /\ Sent(sentOn, cur, flight[p].msg)
    BY <1>1, <1>6 DEF IndInv, ClientOK
  <1> HIDE DEF e, n
  <1>9. /\ cur' = cur /\ clientUp' = clientUp /\ sentOn' = sentOn /\ completed' = completed
        /\ store' = store /\ published' = published
        /\ released' = released \cup {flight[p].msg}
    BY DEF ClientPubrec
  <1>12. /\ Part(svc'[cur].s2c, svc[cur].s2c, 1)
         /\ \A j \in DOMAIN svc[cur].s2c : j # 1 => j - 1 \in DOMAIN svc'[cur].s2c /\ (j - 1) + 1 = j
    BY <1>2, <1>4
  <1>10. e.type = "PUBREL" /\ e.pktid = p
    BY DEF e
  <1>11. \A x \in DOMAIN published : published[x].conn \in Conns
    BY PublishedFacts DEF IndInv
  <1>a. TypeOK'
    BY <1>4, <1>7, <1>8, <1>9, ServiceFacts DEF IndInv, TypeOK, Entries
  <1>b. ServicesOK'
    <2>1. \A c \in Conns : c > cur => svc'[c] = NoService
      BY <1>1, <1>4 DEF IndInv, ServicesOK, Conns
    <2>2. \A c \in Conns : svc'[c].status = "up" => clientUp /\ c = cur
      BY <1>4 DEF IndInv, ServicesOK
    <2> QED
      BY <1>1, <1>4, <1>9, <2>1, <2>2 DEF ServicesOK
  <1>c. OwnMessages'
    <2>1. \A d \in Conns : \A k \in DOMAIN svc'[d].c2s :
            IsPublish(svc'[d].c2s, k) => Sent(sentOn, d, svc'[d].c2s[k].msg)
      <3> SUFFICES ASSUME NEW d \in Conns, NEW k \in DOMAIN svc'[d].c2s, IsPublish(svc'[d].c2s, k)
                   PROVE  Sent(sentOn, d, svc'[d].c2s[k].msg)
        OBVIOUS
      <3>1. CASE d = cur
        BY <1>5, <1>10, <3>1 DEF Added, IndInv, OwnMessages, IsPublish
      <3>2. CASE d # cur
        BY <1>4, <3>2 DEF IndInv, OwnMessages
      <3> QED
        BY <3>1, <3>2
    <2>2. \A d \in Conns : ~svc'[d].restored =>
            \A k \in DOMAIN svc'[d].queue : Sent(sentOn, d, svc'[d].queue[k].msg)
      BY <1>4 DEF IndInv, OwnMessages
    <2> QED
      BY <1>9, <2>1, <2>2 DEF OwnMessages
  <1>d. OwnPublished' /\ SentOrder'
    BY <1>4, <1>9, <1>11 DEF IndInv, OwnPublished, SentOrder
  <1>e. QueuesOrdered'
    <2> SUFFICES ASSUME NEW d \in Conns, ~svc'[d].restored
                 PROVE  /\ InOrder(svc'[d].queue, svc'[d].c2s)
                        /\ Before(published', d, svc'[d].queue, svc'[d].c2s)
      BY DEF QueuesOrdered
    <2>0. InOrder(svc[d].queue, svc[d].c2s) /\ Before(published, d, svc[d].queue, svc[d].c2s)
      BY <1>4 DEF IndInv, QueuesOrdered
    <2>1. CASE d = cur
      <3>1. InOrder(svc[cur].queue, svc'[cur].c2s)
        BY <1>5, <1>10, <2>0, <2>1, OrderSent
      <3>2. Before(published, cur, svc[cur].queue, svc'[cur].c2s)
        BY <1>5, <1>10, <2>0, <2>1, BeforeSent
      <3> QED
        BY <1>4, <1>9, <2>1, <3>1, <3>2
    <2>2. CASE d # cur
      BY <1>4, <1>9, <2>0, <2>2
    <2> QED
      BY <2>1, <2>2
  <1>f. Tokens(flight', svc'[cur].c2s, svc'[cur].s2c)
    BY <1>2, <1>4, <1>5, <1>6, <1>7, <1>10, TokensPubrec
  <1>g. ClientOK'
    <2>1. \A d \in Conns : OneEach(svc'[d].c2s)
      BY <1>4, <1>f DEF IndInv, ClientOK, Tokens
    <2>2. \A x \in PktIds : flight'[x].phase # "idle" =>
            flight'[x].msg \in Messages /\ Sent(sentOn, cur, flight'[x].msg)
      BY <1>1, <1>7, <1>8 DEF IndInv, ClientOK
    <2>3. \A x \in PktIds : flight'[x].phase = "pubrel" => flight'[x].msg \in released'
      BY <1>7, <1>9 DEF IndInv, ClientOK
    <2>4. \A x \in PktIds : flight'[x].phase = "idle" => flight'[x].msg = None
      BY <1>7 DEF IndInv, ClientOK
    <2>5. completed' \subseteq DOMAIN sentOn'
      BY <1>9 DEF IndInv, ClientOK
    <2> QED
      BY <1>9, <1>f, <2>1, <2>2, <2>3, <2>4, <2>5 DEF ClientOK
  <1>h. MarksReleased'
    <2>0. ~svc[cur].restored => \A k \in DOMAIN svc[cur].queue :
            \/ svc[cur].queue[k].msg \in released
            \/ svc[cur].queue[k].msg = flight[svc[cur].queue[k].pktid].msg
      BY <1>1 DEF IndInv, MarksReleased
    <2>1. \A d \in Conns : ~svc'[d].restored => ReleasedOK(released', svc'[d].queue, svc'[d].c2s)
      <3> SUFFICES ASSUME NEW d \in Conns, ~svc'[d].restored
                   PROVE  ReleasedOK(released', svc'[d].queue, svc'[d].c2s)
        OBVIOUS
      <3>0. ReleasedOK(released, svc[d].queue, svc[d].c2s) /\ released \subseteq released'
        BY <1>4, <1>9 DEF IndInv, MarksReleased
      <3>1. CASE d = cur
        <4>1. \A k \in DOMAIN svc[cur].queue :
                svc[cur].queue[k].pktid = e.pktid => svc[cur].queue[k].msg \in released'
          BY <1>4, <1>9, <1>10, <2>0, <3>1
        <4>2. ReleasedOK(released', svc[cur].queue, svc'[cur].c2s)
          BY <1>5, <3>0, <3>1, <4>1, ReleasedSent
        <4> QED
          BY <1>4, <3>1, <4>2
      <3>2. CASE d # cur
        BY <1>4, <3>0, <3>2 DEF ReleasedOK
      <3> QED
        BY <3>1, <3>2
    <2>2. ASSUME ~svc'[cur].restored, NEW k \in DOMAIN svc'[cur].queue
          PROVE  \/ svc'[cur].queue[k].msg \in released'
                 \/ svc'[cur].queue[k].msg = flight'[svc'[cur].queue[k].pktid].msg
      <3>1. \A x : flight'[x].msg = flight[x].msg
        BY <1>7
      <3> QED
        BY <1>1, <1>4, <1>9, <2>0, <2>2, <3>1
    <2> QED
      BY <1>9, <2>1, <2>2 DEF MarksReleased
  <1>i. OnlyReleased'
    BY <1>4, <1>9, <1>11 DEF IndInv, OnlyReleased
  <1>j. InStep'
    <2> SUFFICES ASSUME ~svc'[cur].restored
                 PROVE  /\ svc'[cur].status = "up" =>
                             Lockstep(flight', svc'[cur].queue, svc'[cur].c2s, svc'[cur].s2c)
                        /\ CompletesPublished(flight', published', svc'[cur].s2c)
      BY <1>9 DEF InStep
    <2>0. /\ svc[cur].status = "up" => Lockstep(flight, svc[cur].queue, svc[cur].c2s, svc[cur].s2c)
          /\ CompletesPublished(flight, published, svc[cur].s2c)
      BY <1>1, <1>4 DEF IndInv, InStep
    <2>1. ASSUME svc[cur].status = "up"
          PROVE  Lockstep(flight', svc[cur].queue, svc'[cur].c2s, svc'[cur].s2c)
      BY <1>2, <1>5, <1>7, <1>10, <1>12, <2>0, <2>1, LockstepPubrec
    <2>2. CompletesPublished(flight', published, svc'[cur].s2c)
      <3>1. \A k \in DOMAIN svc'[cur].s2c :
              flight'[svc'[cur].s2c[k].pktid].msg = flight[svc'[cur].s2c[k].pktid].msg
        BY <1>7
      <3> QED
        BY <1>12, <2>0, <3>1, CompletesPart
    <2> QED
      BY <1>1, <1>4, <1>9, <2>1, <2>2
  <1>k. CompletedPublished'
    <2> SUFFICES ASSUME NEW x \in completed
                 PROVE  \/ svc'[sentOn[x]].restored
                        \/ \E k \in DOMAIN published : published[k].msg = x
      BY <1>9 DEF CompletedPublished
    <2>1. sentOn[x] \in Conns
      BY ElementOfSeq, LenProperties DEF IndInv, ClientOK, TypeOK
    <2> QED
      BY <1>4, <2>1 DEF IndInv, CompletedPublished
  <1> QED
    BY <1>a, <1>b, <1>c, <1>d, <1>e, <1>g, <1>h, <1>i, <1>j, <1>k DEF IndInv


\* The client takes PUBCOMP.
LEMMA PubcompKeeps ==
  ASSUME IndInv, NEW p \in PktIds, ClientPubcomp(p)
  PROVE  IndInv'
  <1>1. /\ cur \in Conns /\ clientUp /\ svc \in [Conns -> Services] /\ svc[cur].status # "lost"
        /\ svc[cur].s2c # <<>> /\ Head(svc[cur].s2c) = [type |-> "PUBCOMP", pktid |-> p]
    BY DEF IndInv, ServicesOK, ClientPubcomp
  <1>2. /\ Part(Tail(svc[cur].s2c), svc[cur].s2c, 1) /\ Tail(svc[cur].s2c) \in Seq(Answers)
        /\ IsPubcomp(svc[cur].s2c, 1) /\ svc[cur].s2c[1].pktid = p /\ 1 \in DOMAIN svc[cur].s2c
        /\ \A j \in DOMAIN svc[cur].s2c : j # 1 => j - 1 \in DOMAIN Tail(svc[cur].s2c) /\ (j - 1) + 1 = j
    BY <1>1, ServiceFacts, Parts DEF IsPubcomp
  <1>3. /\ svc' \in [Conns -> Services]
        /\ \A d \in Conns : d # cur => svc'[d] = svc[d]
        /\ svc'[cur].s2c = Tail(svc[cur].s2c)
        /\ \A d \in Conns : /\ svc'[d].queue = svc[d].queue /\ svc'[d].restored = svc[d].restored
                            /\ svc'[d].status = svc[d].status /\ svc'[d].c2s = svc[d].c2s
    <2> DEFINE r == [svc[cur] EXCEPT !.s2c = Tail(@)]
    <2>1. svc' = [svc EXCEPT ![cur].s2c = Tail(@)]
      BY DEF ClientPubcomp
    <2>2. svc[cur] \in Services
      BY <1>1
    <2>3. r \in Services
      BY <1>2, <2>2 DEF Services
    <2>4. svc'[cur] = r
      BY <1>1, <2>1
    <2>5. \A d \in Conns : d # cur => svc'[d] = svc[d]
      BY <1>1, <2>1
    <2>6. svc' \in [Conns -> Services]
      BY <1>1, <2>1, <2>3
    <2> QED
      BY <2>2, <2>4, <2>5, <2>6 DEF Services
  <1>4. /\ Part(svc'[cur].s2c, svc[cur].s2c, 1)
        /\ \A j \in DOMAIN svc[cur].s2c : j # 1 => j - 1 \in DOMAIN svc'[cur].s2c /\ (j - 1) + 1 = j
    BY <1>2, <1>3
  <1>5. Tokens(flight, svc[cur].c2s, svc[cur].s2c) /\ flight[p].phase = "pubrel"
    <2>1. Tokens(flight, svc[cur].c2s, svc[cur].s2c)
      BY <1>1 DEF IndInv, ClientOK
    <2> QED
      BY <1>2, <2>1 DEF Tokens
  <1>6. /\ flight'[p].phase = "idle" /\ flight'[p].msg = None
        /\ \A x : x # p => flight'[x] = flight[x]
        /\ flight' \in [PktIds -> [phase : {"idle", "publish", "pubrel"}, msg : Messages \cup {None}]]
    BY DEF IndInv, TypeOK, ClientPubcomp, Idle
  <1>7. flight[p].msg \in Messages /\ Sent(sentOn, cur, flight[p].msg) /\ flight[p].msg \in released
    BY <1>1, <1>5 DEF IndInv, ClientOK
  <1>8. /\ cur' = cur /\ clientUp' = clientUp /\ sentOn' = sentOn /\ released' = released
        /\ store' = store /\ published' = published
        /\ completed' = completed \cup {flight[p].msg}
    BY DEF ClientPubcomp
  <1>9. \A x \in DOMAIN published : published[x].conn \in Conns
    BY PublishedFacts DEF IndInv
  <1>a. TypeOK'
    BY <1>3, <1>6, <1>7, <1>8, ServiceFacts DEF IndInv, TypeOK, Entries
  <1>b. ServicesOK'
    <2>1. \A c \in Conns : c > cur => svc'[c] = NoService
      BY <1>1, <1>3 DEF IndInv, ServicesOK, Conns
    <2>2. \A c \in Conns : svc'[c].status = "up" => clientUp /\ c = cur
      BY <1>3 DEF IndInv, ServicesOK
    <2> QED
      BY <1>1, <1>3, <1>8, <2>1, <2>2 DEF ServicesOK
  <1>c. OwnMessages' /\ QueuesOrdered'
    BY <1>3, <1>8 DEF IndInv, OwnMessages, QueuesOrdered
  <1>d. OwnPublished' /\ SentOrder' /\ OnlyReleased'
    BY <1>3, <1>8, <1>9 DEF IndInv, OwnPublished, SentOrder, OnlyReleased
  <1>e. ClientOK'
    <2>1. \A d \in Conns : OneEach(svc'[d].c2s)
      BY <1>3 DEF IndInv, ClientOK
    <2>2. Tokens(flight', svc'[cur].c2s, svc'[cur].s2c)
      <3>1. Tokens(flight', svc[cur].c2s, svc'[cur].s2c)
        BY <1>2, <1>4, <1>5, <1>6, TokensPubcomp
      <3> QED
        BY <1>1, <1>3, <3>1
    <2>3. \A x \in PktIds : flight'[x].phase # "idle" =>
            flight'[x].msg \in Messages /\ Sent(sentOn, cur, flight'[x].msg)
      BY <1>1, <1>6 DEF IndInv, ClientOK
    <2>4. \A x \in PktIds : flight'[x].phase = "pubrel" => flight'[x].msg \in released'
      BY <1>6, <1>8 DEF IndInv, ClientOK
    <2>5. \A x \in PktIds : flight'[x].phase = "idle" => flight'[x].msg = None
      BY <1>6 DEF IndInv, ClientOK
    <2>6. completed' \subseteq DOMAIN sentOn'
      BY <1>7, <1>8 DEF IndInv, ClientOK, Sent
    <2> QED
      BY <1>8, <2>1, <2>2, <2>3, <2>4, <2>5, <2>6 DEF ClientOK
  <1>f. MarksReleased'
    <2>1. \A d \in Conns : ~svc'[d].restored => ReleasedOK(released', svc'[d].queue, svc'[d].c2s)
      BY <1>3, <1>8 DEF IndInv, MarksReleased
    <2>2. ASSUME ~svc'[cur].restored, NEW k \in DOMAIN svc'[cur].queue
          PROVE  \/ svc'[cur].queue[k].msg \in released'
                 \/ svc'[cur].queue[k].msg = flight'[svc'[cur].queue[k].pktid].msg
      <3>1. \/ svc[cur].queue[k].msg \in released
            \/ svc[cur].queue[k].msg = flight[svc[cur].queue[k].pktid].msg
        BY <1>1, <1>3, <2>2 DEF IndInv, MarksReleased
      <3>2. svc'[cur].queue = svc[cur].queue
        BY <1>1, <1>3
      <3> QED
        BY <1>6, <1>7, <1>8, <3>1, <3>2
    <2> QED
      BY <1>8, <2>1, <2>2 DEF MarksReleased
  <1>g. InStep'
    <2> SUFFICES ASSUME ~svc'[cur].restored
                 PROVE  /\ svc'[cur].status = "up" =>
                             Lockstep(flight', svc'[cur].queue, svc'[cur].c2s, svc'[cur].s2c)
                        /\ CompletesPublished(flight', published', svc'[cur].s2c)
      BY <1>8 DEF InStep
    <2>0. /\ svc[cur].status = "up" => Lockstep(flight, svc[cur].queue, svc[cur].c2s, svc[cur].s2c)
          /\ CompletesPublished(flight, published, svc[cur].s2c)
      BY <1>1, <1>3 DEF IndInv, InStep
    <2>1. ASSUME svc[cur].status = "up"
          PROVE  Lockstep(flight', svc[cur].queue, svc[cur].c2s, svc'[cur].s2c)
      BY <1>2, <1>4, <1>5, <1>6, <2>0, <2>1, LockstepPubcomp
    <2>2. CompletesPublished(flight', published, svc'[cur].s2c)
      <3>1. \A k \in DOMAIN svc'[cur].s2c : svc'[cur].s2c[k].pktid # p
        <4>1. OneEach(svc[cur].s2c)
          BY <1>5 DEF Tokens
        <4>2. \A k \in DOMAIN svc'[cur].s2c :
                k + 1 \in DOMAIN svc[cur].s2c /\ k + 1 # 1 /\ svc'[cur].s2c[k] = svc[cur].s2c[k + 1]
          BY <1>4 DEF Part
        <4> QED
          BY SMTT(30), <1>2, <4>1, <4>2 DEF OneEach
      <3> QED
        BY <1>4, <1>6, <2>0, <3>1, CompletesPart
    <2> QED
      BY <1>1, <1>3, <1>8, <2>1, <2>2
  <1>h. CompletedPublished'
    <2> SUFFICES ASSUME NEW x \in completed'
                 PROVE  \/ svc'[sentOn[x]].restored
                        \/ \E k \in DOMAIN published : published[k].msg = x
      BY <1>8 DEF CompletedPublished
    <2>1. CASE x \in completed
      <3>1. sentOn[x] \in Conns
        BY <2>1, ElementOfSeq, LenProperties DEF IndInv, ClientOK, TypeOK
      <3> QED
        BY <1>3, <2>1, <3>1 DEF IndInv, CompletedPublished
    <2>2. CASE x = flight[p].msg
      <3>1. sentOn[x] = cur
        BY <1>7, <2>2 DEF Sent
      <3>2. ~svc[cur].restored => \E k \in DOMAIN published : published[k].msg = x
        BY <1>1, <1>2, <2>2 DEF IndInv, InStep, CompletesPublished
      <3> QED
        BY <1>1, <1>3, <3>1, <3>2
    <2> QED
      BY <1>8, <2>1, <2>2
  <1> QED
    BY <1>a, <1>b, <1>c, <1>d, <1>e, <1>f, <1>g, <1>h DEF IndInv

\* Any step that only takes packets and messages away from a connection that is not up
\* afterwards keeps the invariant.
LEMMA LossKeeps ==
  ASSUME IndInv, NEW c \in Conns, c <= cur,
         UNCHANGED <<cur, flight, sentOn, released, completed, store, published>>,
         clientUp' = clientUp \/ (c = cur /\ clientUp' = FALSE),
         svc' \in [Conns -> Services],
         \A d \in Conns : d # c => svc'[d] = svc[d],
         svc'[c].restored = svc[c].restored,
         svc'[c].status # "up", clientUp' => svc'[c].status # "lost",
         Part(svc'[c].c2s, svc[c].c2s, 0), Part(svc'[c].s2c, svc[c].s2c, 0),
         Part(svc'[c].queue, svc[c].queue, 0)
  PROVE  IndInv'
  <1>0. svc \in [Conns -> Services] /\ cur \in 0..MaxConns
    BY DEF IndInv, TypeOK, ServicesOK
  <1>1. \A x \in DOMAIN published : published[x].conn \in Conns
    BY PublishedFacts DEF IndInv
  <1>2. \A d \in Conns : svc'[d].restored = svc[d].restored
    OBVIOUS
  <1>3. \A d \in Conns : /\ Part(svc'[d].c2s, svc[d].c2s, 0) /\ Part(svc'[d].s2c, svc[d].s2c, 0)
                         /\ Part(svc'[d].queue, svc[d].queue, 0)
    <2> TAKE d \in Conns
    <2>1. CASE d = c
      BY <2>1
    <2>2. CASE d # c
      BY <1>0, <2>2, ServiceFacts, Parts
    <2> QED
      BY <2>1, <2>2
  <1>a. TypeOK'
    <2>1. clientUp' \in BOOLEAN
      BY DEF IndInv, TypeOK
    <2>2. \A d \in Conns : svc'[d].queue \in Seq(Entries)
      BY DEF Services
    <2> QED
      BY <2>1, <2>2 DEF IndInv, TypeOK, Entries
  <1>b. ServicesOK'
    <2>1. \A d \in Conns : d > cur => svc'[d] = NoService
      BY <1>0 DEF IndInv, ServicesOK, Conns
    <2>2. \A d \in Conns : svc'[d].status = "up" => clientUp' /\ d = cur
      BY DEF IndInv, ServicesOK
    <2>3. clientUp' => cur \in Conns /\ svc'[cur].status # "lost"
      BY DEF IndInv, ServicesOK
    <2> QED
      BY <2>1, <2>2, <2>3 DEF ServicesOK
  <1>c. OwnMessages'
    <2>1. \A d \in Conns : \A k \in DOMAIN svc'[d].c2s :
            IsPublish(svc'[d].c2s, k) => Sent(sentOn, d, svc'[d].c2s[k].msg)
      BY <1>3 DEF IndInv, OwnMessages, Part, IsPublish
    <2>2. \A d \in Conns : ~svc'[d].restored =>
            \A k \in DOMAIN svc'[d].queue : Sent(sentOn, d, svc'[d].queue[k].msg)
      BY <1>2, <1>3 DEF IndInv, OwnMessages, Part
    <2> QED
      BY <2>1, <2>2 DEF OwnMessages
  <1>d. OwnPublished' /\ SentOrder' /\ OnlyReleased'
    BY <1>1, <1>2 DEF IndInv, OwnPublished, SentOrder, OnlyReleased
  <1>e. QueuesOrdered'
    <2> SUFFICES ASSUME NEW d \in Conns, ~svc'[d].restored
                 PROVE  /\ InOrder(svc'[d].queue, svc'[d].c2s)
                        /\ Before(published, d, svc'[d].queue, svc'[d].c2s)
      BY DEF QueuesOrdered
    <2>0. InOrder(svc[d].queue, svc[d].c2s) /\ Before(published, d, svc[d].queue, svc[d].c2s)
      BY <1>2 DEF IndInv, QueuesOrdered
    <2>1. Rest(svc'[d].queue, svc[d].queue, 0)
      BY <1>3, PartIsRest
    <2>2. InOrder(svc'[d].queue, svc'[d].c2s)
      BY <1>3, <2>0, <2>1, OrderRest
    <2>3. Before(published, d, svc'[d].queue, svc'[d].c2s)
      BY <1>3, <2>0, <2>1, BeforeRest
    <2> QED
      BY <2>2, <2>3
  <1>f. ClientOK'
    <2>1. \A d \in Conns : OneEach(svc'[d].c2s)
      BY <1>3 DEF IndInv, ClientOK, OneEach, Part
    <2>2. clientUp' => Tokens(flight, svc'[cur].c2s, svc'[cur].s2c)
      <3>1. ASSUME clientUp'
            PROVE  Tokens(flight, svc'[cur].c2s, svc'[cur].s2c)
        <4>1. clientUp /\ cur \in Conns
          BY <3>1 DEF IndInv, ServicesOK
        <4>2. Tokens(flight, svc[cur].c2s, svc[cur].s2c)
          BY <4>1 DEF IndInv, ClientOK
        <4> QED
          BY <1>3, <4>1, <4>2, TokensPart
      <3> QED
        BY <3>1
    <2>3. clientUp' => \A x \in PktIds : flight[x].phase # "idle" =>
            flight[x].msg \in Messages /\ Sent(sentOn, cur, flight[x].msg)
      BY DEF IndInv, ClientOK
    <2> QED
      BY <2>1, <2>2, <2>3 DEF IndInv, ClientOK
  <1>g. MarksReleased'
    <2>1. \A d \in Conns : ~svc'[d].restored => ReleasedOK(released, svc'[d].queue, svc'[d].c2s)
      <3> SUFFICES ASSUME NEW d \in Conns, ~svc'[d].restored
                   PROVE  ReleasedOK(released, svc'[d].queue, svc'[d].c2s)
        OBVIOUS
      <3>1. ReleasedOK(released, svc[d].queue, svc[d].c2s)
        BY <1>2 DEF IndInv, MarksReleased
      <3> QED
        BY <1>3, <3>1, ReleasedPart
    <2>2. ASSUME clientUp', ~svc'[cur].restored, NEW k \in DOMAIN svc'[cur].queue
          PROVE  \/ svc'[cur].queue[k].msg \in released
                 \/ svc'[cur].queue[k].msg = flight[svc'[cur].queue[k].pktid].msg
      <3>1. clientUp /\ cur \in Conns
        BY <2>2 DEF IndInv, ServicesOK
      <3> QED
        BY <1>2, <1>3, <2>2, <3>1 DEF IndInv, MarksReleased, Part
    <2> QED
      BY <2>1, <2>2 DEF MarksReleased
  <1>h. InStep'
    <2> SUFFICES ASSUME clientUp', ~svc'[cur].restored
                 PROVE  /\ svc'[cur].status = "up" =>
                             Lockstep(flight, svc'[cur].queue, svc'[cur].c2s, svc'[cur].s2c)
                        /\ CompletesPublished(flight, published, svc'[cur].s2c)
      BY DEF InStep
    <2>1. clientUp /\ cur \in Conns
      BY DEF IndInv, ServicesOK
    <2>2. /\ svc[cur].status = "up" => Lockstep(flight, svc[cur].queue, svc[cur].c2s, svc[cur].s2c)
          /\ CompletesPublished(flight, published, svc[cur].s2c)
      BY <1>2, <2>1 DEF IndInv, InStep
    <2>3. CompletesPublished(flight, published, svc'[cur].s2c)
      BY <1>3, <2>1, <2>2, CompletesPart
    <2> QED
      BY <2>1, <2>2, <2>3
  <1>i. CompletedPublished'
    <2>1. \A x \in completed : sentOn[x] \in Conns
      BY ElementOfSeq, LenProperties DEF IndInv, ClientOK, TypeOK
    <2> QED
      BY <1>2, <2>1 DEF IndInv, CompletedPublished
  <1> QED
    BY <1>a, <1>b, <1>c, <1>d, <1>e, <1>f, <1>g, <1>h, <1>i DEF IndInv


\* The connection breaks.
LEMMA LoseKeeps ==
  ASSUME IndInv, LoseConnection
  PROVE  IndInv'
  <1>1. cur \in Conns /\ clientUp /\ svc \in [Conns -> Services] /\ cur <= cur
    BY DEF IndInv, ServicesOK, LoseConnection, Conns
  <1>2. PICK n \in 0..Len(svc[cur].c2s) :
          svc' = [svc EXCEPT ![cur].status = IF @ = "up" THEN "lost" ELSE @,
                             ![cur].c2s = SubSeq(@, 1, n),
                             ![cur].s2c = <<>>]
    BY DEF LoseConnection
  <1>3. /\ svc[cur].queue \in Seq(Entries) /\ svc[cur].c2s \in Seq(Packets) /\ svc[cur].s2c \in Seq(Answers)
        /\ svc[cur] \in Services
    BY <1>1, ServiceFacts
  <1>4. Part(SubSeq(svc[cur].c2s, 1, n), svc[cur].c2s, 0) /\ SubSeq(svc[cur].c2s, 1, n) \in Seq(Packets)
    BY <1>3, Parts
  <1>5. Part(<<>>, svc[cur].s2c, 0) /\ <<>> \in Seq(Answers) /\ Part(svc[cur].queue, svc[cur].queue, 0)
    BY <1>3, Parts, EmptySeq
  <1> DEFINE st == IF svc[cur].status = "up" THEN "lost" ELSE svc[cur].status
             i == SubSeq(svc[cur].c2s, 1, n)
             r == [svc[cur] EXCEPT !.status = st, !.c2s = i, !.s2c = <<>>]
  <1>6. st \in {"none", "up", "lost", "stopping", "gone"} /\ st # "up"
    BY <1>3 DEF Services
  <1>7. svc'[cur] = r /\ DOMAIN svc' = Conns /\ \A d \in Conns : d # cur => svc'[d] = svc[d]
    BY <1>1, <1>2, <1>3 DEF Services
  <1> HIDE DEF i, st
  <1>8. /\ r \in Services /\ r.status = st /\ r.c2s = i /\ r.s2c = <<>>
        /\ r.queue = svc[cur].queue /\ r.restored = svc[cur].restored
    BY <1>3, <1>4, <1>5, <1>6 DEF Services, i
  <1> HIDE DEF r
  <1>9. svc' \in [Conns -> Services]
    <2>1. \A d \in Conns : svc'[d] \in Services
      BY <1>1, <1>7, <1>8
    <2>2. svc' = [d \in Conns |-> svc'[d]]
      BY <1>2, <1>1
    <2> QED
      BY <2>1, <2>2
  <1>10. clientUp' = FALSE /\ UNCHANGED <<cur, flight, sentOn, released, completed, store, published>>
    BY DEF LoseConnection
  <1>11. /\ Part(svc'[cur].c2s, svc[cur].c2s, 0) /\ Part(svc'[cur].s2c, svc[cur].s2c, 0)
         /\ Part(svc'[cur].queue, svc[cur].queue, 0)
         /\ svc'[cur].status # "up" /\ svc'[cur].restored = svc[cur].restored
    BY <1>4, <1>5, <1>6, <1>7, <1>8 DEF i
  <1> QED
    BY <1>1, <1>7, <1>9, <1>10, <1>11, LossKeeps

\* A PUBREL without a record ends the processor.
LEMMA FailsKeeps ==
  ASSUME IndInv, NEW c \in Conns, NEW p \in PktIds, processPubrelFails(c, p)
  PROVE  IndInv'
  <1>1. svc \in [Conns -> Services] /\ svc[c] \in Services /\ svc[c].status \in {"up", "lost"}
    BY DEF IndInv, ServicesOK, processPubrelFails, Received
  <1>2. c <= cur
    BY <1>1 DEF IndInv, TypeOK, ServicesOK, NoService, Conns
  <1>3. /\ svc' = [svc EXCEPT ![c].status = "stopping"]
        /\ clientUp' = clientUp
        /\ UNCHANGED <<cur, flight, sentOn, released, completed, store, published>>
    BY DEF processPubrelFails
  <1> DEFINE r == [svc[c] EXCEPT !.status = "stopping"]
  <1>4. /\ r \in Services /\ r.status = "stopping" /\ r.c2s = svc[c].c2s /\ r.s2c = svc[c].s2c
        /\ r.queue = svc[c].queue /\ r.restored = svc[c].restored
    BY <1>1 DEF Services
  <1>5. svc'[c] = r /\ svc' \in [Conns -> Services] /\ \A d \in Conns : d # c => svc'[d] = svc[d]
    BY <1>1, <1>3, <1>4
  <1> HIDE DEF r
  <1>6. /\ Part(svc[c].c2s, svc[c].c2s, 0) /\ Part(svc[c].s2c, svc[c].s2c, 0)
        /\ Part(svc[c].queue, svc[c].queue, 0)
    BY <1>1, ServiceFacts, Parts
  <1> QED
    BY <1>2, <1>3, <1>4, <1>5, <1>6, LossKeeps

\* A service stops.
LEMMA StopKeeps ==
  ASSUME IndInv, NEW c \in Conns, stop(c)
  PROVE  IndInv'
  <1>1. svc \in [Conns -> Services] /\ svc[c] \in Services /\ svc[c].status \in {"lost", "stopping"}
    BY DEF IndInv, ServicesOK, stop
  <1>2. c <= cur
    BY <1>1 DEF IndInv, TypeOK, ServicesOK, NoService, Conns
  <1>3. /\ svc' = [svc EXCEPT ![c].status = "gone", ![c].queue = <<>>, ![c].c2s = <<>>]
        /\ clientUp' = clientUp
        /\ UNCHANGED <<cur, flight, sentOn, released, completed, store, published>>
    BY DEF stop
  <1> DEFINE r == [svc[c] EXCEPT !.status = "gone", !.queue = <<>>, !.c2s = <<>>]
  <1>4. /\ r \in Services /\ r.status = "gone" /\ r.c2s = <<>> /\ r.s2c = svc[c].s2c
        /\ r.queue = <<>> /\ r.restored = svc[c].restored
    <2>1. <<>> \in Seq(Entries) /\ <<>> \in Seq(Packets)
      BY EmptySeq
    <2> QED
      BY <1>1, <2>1 DEF Services
  <1>5. svc'[c] = r /\ DOMAIN svc' = Conns /\ \A d \in Conns : d # c => svc'[d] = svc[d]
    BY <1>1, <1>3 DEF Services
  <1> HIDE DEF r
  <1>6. svc' \in [Conns -> Services]
    <2>1. \A d \in Conns : svc'[d] \in Services
      BY <1>1, <1>4, <1>5
    <2>2. svc' = [d \in Conns |-> svc'[d]]
      BY <1>1, <1>3
    <2> QED
      BY <2>1, <2>2
  <1>7. /\ Part(<<>>, svc[c].c2s, 0) /\ Part(svc[c].s2c, svc[c].s2c, 0)
        /\ Part(<<>>, svc[c].queue, 0)
    BY <1>1, ServiceFacts, Parts
  <1> QED
    BY <1>2, <1>3, <1>4, <1>5, <1>6, <1>7, LossKeeps

\* The client connects: a session that is not restored begins with an empty queue.
LEMMA ConnectKeeps ==
  ASSUME IndInv, NEW clean \in BOOLEAN, NEW db \in BOOLEAN, Connect(clean, db)
  PROVE  IndInv'
  <1> DEFINE c == cur + 1
  <1>1. /\ ~clientUp /\ cur \in Nat /\ c \in Conns /\ cur < c /\ svc \in [Conns -> Services]
        /\ svc[c] = NoService
    BY InFlowAssumption DEF IndInv, TypeOK, ServicesOK, Connect, Conns
  <1>2. PICK q \in Queues :
          svc' = [svc EXCEPT ![c] = [NoService EXCEPT !.status = "up", !.clean = clean, !.db = db,
                                                      !.queue = q, !.restored = q # <<>>]]
    BY DEF Connect
  <1>3. q \in Seq(Entries)
    <2>1. Records \subseteq Entries
      <3>1. \A x \in PktIds : store[x] # None => store[x] \in Messages
        BY DEF IndInv, TypeOK
      <3> SUFFICES ASSUME NEW x \in Records PROVE x \in Entries
        OBVIOUS
      <3>2. PICK y \in PktIds : store[y] # None /\ x = [pktid |-> y, msg |-> store[y], rel |-> FALSE]
        BY DEF Records
      <3> QED
        BY <3>1, <3>2 DEF Entries
    <2>3. PICK n \in 0..Cardinality(Records) : q \in [1..n -> Records]
      BY DEF Queues
    <2>4. q \in [1..n -> Entries] /\ n \in Nat
      BY <2>1, <2>3
    <2> QED
      BY <2>4, SeqDef
  <1> DEFINE r == [NoService EXCEPT !.status = "up", !.clean = clean, !.db = db,
                                    !.queue = q, !.restored = q # <<>>]
  <1>4. /\ r \in Services /\ r.status = "up" /\ r.queue = q /\ r.c2s = <<>> /\ r.s2c = <<>>
        /\ ~r.restored => q = <<>>
    <2>1. <<>> \in Seq(Packets) /\ <<>> \in Seq(Answers)
      BY EmptySeq
    <2>2. NoService \in Services /\ NoService.c2s = <<>> /\ NoService.s2c = <<>>
      BY EmptySeq DEF NoService, Services
    <2>3. (q # <<>>) \in BOOLEAN
      OBVIOUS
    <2> QED
      BY <1>3, <2>1, <2>2, <2>3 DEF Services
  <1>5. svc'[c] = r /\ svc' \in [Conns -> Services] /\ \A d \in Conns : d # c => svc'[d] = svc[d]
    BY <1>1, <1>2, <1>4
  <1>6. /\ cur' = c /\ clientUp' = TRUE /\ flight' = [p \in PktIds |-> Idle]
        /\ UNCHANGED <<sentOn, released, completed, store, published>>
    BY DEF Connect
  <1> HIDE DEF r, c
  <1>7. \A x \in DOMAIN published : published[x].conn \in Conns /\ published[x].conn <= cur
                                    /\ published[x].conn # c
    BY <1>1, PublishedFacts DEF IndInv, OwnPublished, Conns
  <1>8. \A d \in Conns : svc[d].restored => svc'[d].restored
    BY <1>1, <1>5 DEF NoService
  <1>9. /\ \A p \in PktIds : flight'[p].phase = "idle" /\ flight'[p].msg = None
        /\ flight' \in [PktIds -> [phase : {"idle", "publish", "pubrel"}, msg : Messages \cup {None}]]
    BY <1>6 DEF Idle
  <1>a. TypeOK'
    <2>1. \A d \in Conns : svc'[d].queue \in Seq(Entries)
      BY <1>5 DEF Services
    <2>2. cur' \in 0..MaxConns
      BY <1>1, <1>6 DEF Conns
    <2> QED
      BY <1>6, <1>9, <2>1, <2>2 DEF IndInv, TypeOK, Entries
  <1>b. ServicesOK'
    <2>1. \A d \in Conns : d > c => svc'[d] = NoService
      BY <1>1, <1>5 DEF IndInv, ServicesOK, Conns
    <2>2. \A d \in Conns : svc'[d].status = "up" => d = c
      BY <1>1, <1>5 DEF IndInv, ServicesOK
    <2>3. svc'[c].status # "lost"
      BY <1>4, <1>5
    <2> QED
      BY <1>1, <1>5, <1>6, <2>1, <2>2, <2>3 DEF ServicesOK
  <1>c. OwnMessages'
    <2> SUFFICES ASSUME NEW d \in Conns
                 PROVE  /\ \A k \in DOMAIN svc'[d].c2s :
                             IsPublish(svc'[d].c2s, k) => Sent(sentOn, d, svc'[d].c2s[k].msg)
                        /\ ~svc'[d].restored =>
                             \A k \in DOMAIN svc'[d].queue : Sent(sentOn, d, svc'[d].queue[k].msg)
      BY <1>6 DEF OwnMessages
    <2>1. CASE d = c
      BY <1>4, <1>5, <2>1
    <2>2. CASE d # c
      BY <1>5, <2>2 DEF IndInv, OwnMessages
    <2> QED
      BY <2>1, <2>2
  <1>d. OwnPublished'
    <2>1. \A x \in DOMAIN published : published[x].conn <= c
      BY <1>1, <1>7 DEF Conns
    <2> QED
      BY <1>5, <1>6, <1>7, <2>1 DEF IndInv, OwnPublished
  <1>e. SentOrder' /\ OnlyReleased'
    BY <1>5, <1>6, <1>7 DEF IndInv, SentOrder, OnlyReleased
  <1>f. QueuesOrdered'
    <2> SUFFICES ASSUME NEW d \in Conns, ~svc'[d].restored
                 PROVE  /\ InOrder(svc'[d].queue, svc'[d].c2s)
                        /\ Before(published, d, svc'[d].queue, svc'[d].c2s)
      BY <1>6 DEF QueuesOrdered
    <2>1. CASE d = c
      BY <1>4, <1>5, <2>1 DEF InOrder, Before
    <2>2. CASE d # c
      BY <1>5, <2>2 DEF IndInv, QueuesOrdered
    <2> QED
      BY <2>1, <2>2
  <1>g. ClientOK'
    <2>1. \A d \in Conns : OneEach(svc'[d].c2s)
      <3> TAKE d \in Conns
      <3>1. CASE d = c
        BY <1>4, <1>5, <3>1 DEF OneEach
      <3>2. CASE d # c
        BY <1>5, <3>2 DEF IndInv, ClientOK
      <3> QED
        BY <3>1, <3>2
    <2>2. Tokens(flight', svc'[c].c2s, svc'[c].s2c)
      BY <1>4, <1>5 DEF Tokens, OneEach
    <2>3. completed \subseteq DOMAIN sentOn
      BY DEF IndInv, ClientOK
    <2> QED
      BY <1>6, <1>9, <2>1, <2>2, <2>3 DEF ClientOK
  <1>h. MarksReleased'
    <2>1. \A d \in Conns : ~svc'[d].restored => ReleasedOK(released, svc'[d].queue, svc'[d].c2s)
      <3> TAKE d \in Conns
      <3>1. CASE d = c
        BY <1>4, <1>5, <3>1 DEF ReleasedOK
      <3>2. CASE d # c
        BY <1>5, <3>2 DEF IndInv, MarksReleased
      <3> QED
        BY <3>1, <3>2
    <2>2. ~svc'[c].restored => svc'[c].queue = <<>>
      BY <1>4, <1>5
    <2> QED
      BY <1>6, <2>1, <2>2 DEF MarksReleased
  <1>i. InStep'
    <2>1. ~svc'[c].restored => svc'[c].queue = <<>> /\ svc'[c].c2s = <<>> /\ svc'[c].s2c = <<>>
      BY <1>4, <1>5
    <2> QED
      BY <1>6, <2>1 DEF InStep, Lockstep, CompletesPublished
  <1>j. CompletedPublished'
    <2>1. \A x \in completed : sentOn[x] \in Conns
      BY ElementOfSeq, LenProperties DEF IndInv, ClientOK, TypeOK
    <2> QED
      BY <1>6, <1>8, <2>1 DEF IndInv, CompletedPublished
  <1> QED
    BY <1>a, <1>b, <1>c, <1>d, <1>e, <1>f, <1>g, <1>h, <1>i, <1>j DEF IndInv


-----------------------------------------------------------------------------
(* The steps of the broker.                                                *)

\* The broker answers what it received: the packet leaves the connection, and the
\* answer goes to the client if the connection is up.
Answering(c, p, from, to, e) ==
  /\ c <= cur /\ svc[c].status \in {"up", "lost"}
  /\ svc' \in [Conns -> Services]
  /\ \A d \in Conns : d # c => svc'[d] = svc[d]
  /\ svc'[c].restored = svc[c].restored /\ svc'[c].status = svc[c].status
  /\ svc[c].c2s \in Seq(Packets) /\ svc[c].queue \in Seq(Entries) /\ svc[c].s2c \in Seq(Answers)
  /\ 1 \in DOMAIN svc[c].c2s /\ svc[c].c2s[1].type = from /\ svc[c].c2s[1].pktid = p
  /\ Part(svc'[c].c2s, svc[c].c2s, 1)
  /\ \A j \in DOMAIN svc[c].c2s : j # 1 => j - 1 \in DOMAIN svc'[c].c2s /\ (j - 1) + 1 = j
  /\ e.type = to /\ e.pktid = p
  /\ svc[c].status = "up" => Added(svc'[c].s2c, svc[c].s2c, e, Len(svc[c].s2c) + 1)
  /\ svc[c].status # "up" => svc'[c].s2c = svc[c].s2c

\* Both handlers of the broker answer in this way.
LEMMA HandlersAnswer ==
  ASSUME IndInv, NEW c \in Conns, NEW p \in PktIds,
         NEW from, NEW to \in {"PUBREC", "PUBCOMP"}, NEW q2 \in Seq(Entries),
         Received(c, from, p),
         svc' = [svc EXCEPT ![c].c2s = Tail(@), ![c].queue = q2, ![c].s2c = Answered(c, to, p)]
  PROVE  Answering(c, p, from, to, [type |-> to, pktid |-> p]) /\ svc'[c].queue = q2
  <1> DEFINE e == [type |-> to, pktid |-> p]
  <1>1. /\ svc \in [Conns -> Services] /\ svc[c] \in Services /\ svc[c].status \in {"up", "lost"}
        /\ svc[c].c2s # <<>> /\ Head(svc[c].c2s).type = from /\ Head(svc[c].c2s).pktid = p
    BY DEF IndInv, ServicesOK, Received
  <1>2. c <= cur
    BY <1>1 DEF IndInv, TypeOK, ServicesOK, NoService, Conns
  <1>3. /\ svc[c].queue \in Seq(Entries) /\ svc[c].c2s \in Seq(Packets) /\ svc[c].s2c \in Seq(Answers)
    BY <1>1, ServiceFacts
  <1>4. /\ Part(Tail(svc[c].c2s), svc[c].c2s, 1) /\ Tail(svc[c].c2s) \in Seq(Packets)
        /\ 1 \in DOMAIN svc[c].c2s /\ Head(svc[c].c2s) = svc[c].c2s[1]
        /\ \A j \in DOMAIN svc[c].c2s : j # 1 => j - 1 \in DOMAIN Tail(svc[c].c2s) /\ (j - 1) + 1 = j
    BY <1>1, <1>3, Parts
  <1>5. e \in Answers
    BY DEF Answers
  <1> DEFINE o2 == Answered(c, to, p)
             i2 == Tail(svc[c].c2s)
             r == [svc[c] EXCEPT !.c2s = i2, !.queue = q2, !.s2c = o2]
  <1>6. /\ o2 \in Seq(Answers)
        /\ svc[c].status = "up" => Added(o2, svc[c].s2c, e, Len(svc[c].s2c) + 1)
        /\ svc[c].status # "up" => o2 = svc[c].s2c
    BY <1>3, <1>5, Appended DEF Answered
  <1> HIDE DEF o2, e
  <1>7. svc'[c] = r /\ DOMAIN svc' = Conns /\ \A d \in Conns : d # c => svc'[d] = svc[d]
    BY <1>1 DEF Services, o2
  <1> HIDE DEF i2
  <1>8. /\ r \in Services /\ r.c2s = i2 /\ r.queue = q2 /\ r.s2c = o2
        /\ r.restored = svc[c].restored /\ r.status = svc[c].status
    BY <1>1, <1>4, <1>6 DEF Services, i2
  <1> HIDE DEF r
  <1>9. svc' \in [Conns -> Services]
    <2>1. \A d \in Conns : svc'[d] \in Services
      BY <1>1, <1>7, <1>8
    <2>2. svc' = [d \in Conns |-> svc'[d]]
      BY <1>1
    <2> QED
      BY <2>1, <2>2
  <1>10. e.type = to /\ e.pktid = p
    BY DEF e
  <1>11. /\ Part(svc'[c].c2s, svc[c].c2s, 1)
         /\ \A j \in DOMAIN svc[c].c2s : j # 1 => j - 1 \in DOMAIN svc'[c].c2s /\ (j - 1) + 1 = j
    BY <1>4, <1>7, <1>8 DEF i2
  <1>12. Answering(c, p, from, to, e)
    BY <1>1, <1>2, <1>3, <1>4, <1>6, <1>7, <1>8, <1>9, <1>10, <1>11 DEF Answering
  <1> QED
    BY <1>7, <1>8, <1>12 DEF e

\* The broker takes a PUBLISH.
LEMMA ProcessPublishKeeps ==
  ASSUME IndInv, NEW c \in Conns, NEW p \in PktIds, processPublish(c, p)
  PROVE  IndInv'
  <1> DEFINE m == Head(svc[c].c2s).msg
             en == [pktid |-> p, msg |-> m, rel |-> FALSE]
             q == svc[c].queue
             q2 == IF Waiting(q, p) THEN q ELSE Append(q, en)
             e == [type |-> "PUBREC", pktid |-> p]
             n == Len(q) + 1
  <1>1. /\ svc \in [Conns -> Services] /\ q \in Seq(Entries) /\ svc[c].c2s \in Seq(Packets)
        /\ svc[c].c2s # <<>> /\ Head(svc[c].c2s).type = "PUBLISH" /\ Received(c, "PUBLISH", p)
    BY ServiceFacts DEF IndInv, ServicesOK, processPublish, Received
  <1>2. /\ 1 \in DOMAIN svc[c].c2s /\ Head(svc[c].c2s) = svc[c].c2s[1] /\ svc[c].c2s[1] \in Packets
        /\ IsPublish(svc[c].c2s, 1) /\ svc[c].c2s[1].msg = m
    BY <1>1, Parts DEF IsPublish
  <1>3. Sent(sentOn, c, m) /\ m \in Messages
    <2>1. Sent(sentOn, c, m)
      BY <1>2 DEF IndInv, OwnMessages
    <2>2. m \in Nat /\ m # 0
      BY <2>1, LenProperties DEF Sent, IndInv, TypeOK
    <2> QED
      BY <1>2, <2>1, <2>2 DEF Packets, None
  <1>4. /\ en \in Entries /\ en.pktid = p /\ en.msg = m /\ ~en.rel
    BY <1>3 DEF Entries
  <1>5. q2 \in Seq(Entries) /\ (~Waiting(q, p) => Added(q2, q, en, n)) /\ (Waiting(q, p) => q2 = q)
    BY <1>1, <1>4, Appended
  <1>6. svc' = [svc EXCEPT ![c].c2s = Tail(@), ![c].queue = q2, ![c].s2c = Answered(c, "PUBREC", p)]
    BY DEF processPublish
  <1> HIDE DEF q2, en, m, n
  <1>7. Answering(c, p, "PUBLISH", "PUBREC", e) /\ svc'[c].queue = q2
    BY <1>1, <1>5, <1>6, HandlersAnswer
  <1>8. /\ UNCHANGED <<cur, clientUp, flight, sentOn, released, completed, published>>
        /\ store' \in [PktIds -> Messages \cup {None}]
    <2>1. store \in [PktIds -> Messages \cup {None}]
      BY DEF IndInv, TypeOK
    <2> QED
      BY <1>3, <2>1 DEF processPublish, m
  <1> HIDE DEF e, q
  <1>9. \A x \in DOMAIN published : published[x].conn \in Conns
    BY PublishedFacts DEF IndInv
  <1>10. \A d \in Conns : svc'[d].restored = svc[d].restored /\ svc'[d].status = svc[d].status
    BY <1>7 DEF Answering
  <1>11. Part(q, q, 0) /\ Rest(q, q, 0)
    BY <1>1, Parts, PartIsRest
  <1>12. IsPublish(svc[c].c2s, 1) /\ svc[c].c2s[1].pktid = p /\ 1 \in DOMAIN svc[c].c2s
    BY <1>2, <1>7 DEF Answering
  <1>13. clientUp /\ c = cur => svc[c].status = "up"
    BY <1>7 DEF IndInv, ServicesOK, Answering
  <1>14. clientUp => cur \in Conns
    BY DEF IndInv, ServicesOK
  <1>a. TypeOK'
    <2>1. \A d \in Conns : svc'[d].queue \in Seq(Entries)
      BY <1>7 DEF Answering, Services
    <2> QED
      BY <1>8, <2>1 DEF IndInv, TypeOK, Entries
  <1>b. ServicesOK'
    <2>1. \A d \in Conns : d > cur => svc'[d] = NoService
      <3>1. cur \in Nat
        BY DEF IndInv, TypeOK
      <3> QED
        BY <1>7, <3>1 DEF IndInv, ServicesOK, Answering, Conns
    <2>2. \A d \in Conns : svc'[d].status = "up" => clientUp /\ d = cur
      BY <1>10 DEF IndInv, ServicesOK
    <2>3. clientUp => cur \in Conns /\ svc'[cur].status # "lost"
      BY <1>10 DEF IndInv, ServicesOK
    <2> QED
      BY <1>7, <1>8, <2>1, <2>2, <2>3 DEF ServicesOK, Answering
  <1>c. OwnMessages'
    <2>1. \A d \in Conns : \A k \in DOMAIN svc'[d].c2s :
            IsPublish(svc'[d].c2s, k) => Sent(sentOn, d, svc'[d].c2s[k].msg)
      BY <1>7 DEF Answering, IndInv, OwnMessages, Part, IsPublish
    <2>2. \A d \in Conns : ~svc'[d].restored =>
            \A k \in DOMAIN svc'[d].queue : Sent(sentOn, d, svc'[d].queue[k].msg)
      <3> SUFFICES ASSUME NEW d \in Conns, ~svc'[d].restored, NEW k \in DOMAIN svc'[d].queue
                   PROVE  Sent(sentOn, d, svc'[d].queue[k].msg)
        OBVIOUS
      <3>1. CASE d = c /\ Waiting(q, p)
        BY <1>5, <1>7, <1>10, <3>1 DEF IndInv, OwnMessages, q
      <3>2. CASE d = c /\ ~Waiting(q, p)
        BY <1>3, <1>4, <1>5, <1>7, <1>10, <3>2 DEF IndInv, OwnMessages, q, Added
      <3>3. CASE d # c
        BY <1>7, <3>3 DEF Answering, IndInv, OwnMessages
      <3> QED
        BY <3>1, <3>2, <3>3
    <2> QED
      BY <1>8, <2>1, <2>2 DEF OwnMessages
  <1>d. OwnPublished' /\ SentOrder' /\ OnlyReleased'
    BY <1>8, <1>9, <1>10 DEF IndInv, OwnPublished, SentOrder, OnlyReleased
  <1>e. QueuesOrdered'
    <2> SUFFICES ASSUME NEW d \in Conns, ~svc'[d].restored
                 PROVE  /\ InOrder(svc'[d].queue, svc'[d].c2s)
                        /\ Before(published, d, svc'[d].queue, svc'[d].c2s)
      BY <1>8 DEF QueuesOrdered
    <2>0. InOrder(svc[d].queue, svc[d].c2s) /\ Before(published, d, svc[d].queue, svc[d].c2s)
      BY <1>10 DEF IndInv, QueuesOrdered
    <2>1. CASE d = c
      <3>1. Part(svc'[c].c2s, svc[c].c2s, 1) /\ InOrder(q, svc[c].c2s) /\ Before(published, c, q, svc[c].c2s)
        BY <1>7, <2>0, <2>1 DEF Answering, q
      <3>2. CASE Waiting(q, p)
        <4>1. InOrder(q, svc'[c].c2s) /\ Before(published, c, q, svc'[c].c2s)
          BY <1>11, <3>1, OrderRest, BeforeRest
        <4> QED
          BY <1>5, <1>7, <2>1, <3>2, <4>1
      <3>3. CASE ~Waiting(q, p)
        <4>1. en.msg = svc[c].c2s[1].msg /\ Added(q2, q, en, n)
          BY <1>2, <1>4, <1>5, <3>3
        <4>2. InOrder(q2, svc'[c].c2s)
          BY <1>2, <3>1, <4>1, OrderQueued
        <4>3. Before(published, c, q2, svc'[c].c2s)
          BY <1>2, <3>1, <4>1, BeforeQueued
        <4> QED
          BY <1>7, <2>1, <4>2, <4>3
      <3> QED
        BY <3>2, <3>3
    <2>2. CASE d # c
      BY <1>7, <2>0, <2>2 DEF Answering
    <2> QED
      BY <2>1, <2>2
  <1>f. clientUp /\ c = cur =>
          /\ Tokens(flight, svc[c].c2s, svc[c].s2c) /\ Tokens(flight, svc'[c].c2s, svc'[c].s2c)
          /\ Added(svc'[c].s2c, svc[c].s2c, e, Len(svc[c].s2c) + 1)
          /\ Part(svc'[c].c2s, svc[c].c2s, 1) /\ e.type = "PUBREC" /\ e.pktid = svc[c].c2s[1].pktid
    <2> SUFFICES ASSUME clientUp, c = cur
                 PROVE  /\ Tokens(flight, svc[c].c2s, svc[c].s2c) /\ Tokens(flight, svc'[c].c2s, svc'[c].s2c)
                        /\ Added(svc'[c].s2c, svc[c].s2c, e, Len(svc[c].s2c) + 1)
                        /\ Part(svc'[c].c2s, svc[c].c2s, 1) /\ e.type = "PUBREC" /\ e.pktid = svc[c].c2s[1].pktid
      OBVIOUS
    <2>1. Tokens(flight, svc[c].c2s, svc[c].s2c)
      BY DEF IndInv, ClientOK
    <2>2. /\ Added(svc'[c].s2c, svc[c].s2c, e, Len(svc[c].s2c) + 1)
          /\ Part(svc'[c].c2s, svc[c].c2s, 1) /\ e.type = "PUBREC" /\ e.pktid = svc[c].c2s[1].pktid
      BY <1>7, <1>12, <1>13 DEF Answering
    <2>3. Tokens(flight, svc'[c].c2s, svc'[c].s2c)
      BY <1>12, <2>1, <2>2, TokensAnswer
    <2> QED
      BY <2>1, <2>2, <2>3
  <1>g. ClientOK'
    <2>1. \A d \in Conns : OneEach(svc'[d].c2s)
      <3> TAKE d \in Conns
      <3>1. OneEach(svc[d].c2s)
        BY DEF IndInv, ClientOK
      <3>2. Part(svc'[c].c2s, svc[c].c2s, 1)
        BY <1>7 DEF Answering
      <3>3. CASE d = c
        BY <3>1, <3>2, <3>3, OneEachPart
      <3>4. CASE d # c
        BY <1>7, <3>1, <3>4 DEF Answering
      <3> QED
        BY <3>3, <3>4
    <2>2. clientUp => Tokens(flight, svc'[cur].c2s, svc'[cur].s2c)
      BY <1>7, <1>f, <1>14 DEF Answering, IndInv, ClientOK
    <2> QED
      BY <1>8, <2>1, <2>2 DEF IndInv, ClientOK
  <1>h. MarksReleased'
    <2>1. \A d \in Conns : ~svc'[d].restored => ReleasedOK(released, svc'[d].queue, svc'[d].c2s)
      <3> SUFFICES ASSUME NEW d \in Conns, ~svc'[d].restored
                   PROVE  ReleasedOK(released, svc'[d].queue, svc'[d].c2s)
        OBVIOUS
      <3>0. ReleasedOK(released, svc[d].queue, svc[d].c2s)
        BY <1>10 DEF IndInv, MarksReleased
      <3>1. CASE d = c
        <4>1. /\ Part(svc'[c].c2s, svc[c].c2s, 1) /\ ReleasedOK(released, q, svc[c].c2s)
              /\ OneEach(svc[c].c2s)
          BY <1>7, <3>0, <3>1 DEF Answering, q, IndInv, ClientOK
        <4>2. CASE Waiting(q, p)
          <5>1. ReleasedOK(released, q, svc'[c].c2s)
            BY <1>11, <4>1, ReleasedPart
          <5> QED
            BY <1>5, <1>7, <3>1, <4>2, <5>1
        <4>3. CASE ~Waiting(q, p)
          <5>1. ReleasedOK(released, q2, svc'[c].c2s)
            BY <1>4, <1>5, <1>12, <4>1, <4>3, ReleasedQueued
          <5> QED
            BY <1>7, <3>1, <5>1
        <4> QED
          BY <4>2, <4>3
      <3>2. CASE d # c
        BY <1>7, <3>0, <3>2 DEF Answering
      <3> QED
        BY <3>1, <3>2
    <2>2. ASSUME clientUp, ~svc'[cur].restored, NEW k \in DOMAIN svc'[cur].queue
          PROVE  \/ svc'[cur].queue[k].msg \in released
                 \/ svc'[cur].queue[k].msg = flight[svc'[cur].queue[k].pktid].msg
      <3>0. \A j \in DOMAIN svc[cur].queue :
              \/ svc[cur].queue[j].msg \in released
              \/ svc[cur].queue[j].msg = flight[svc[cur].queue[j].pktid].msg
        BY <1>10, <1>14, <2>2 DEF IndInv, MarksReleased
      <3>1. CASE c # cur
        BY <1>7, <1>14, <2>2, <3>0, <3>1 DEF Answering
      <3>2. CASE c = cur /\ Waiting(q, p)
        BY <1>5, <1>7, <2>2, <3>0, <3>2 DEF q
      <3>3. CASE c = cur /\ ~Waiting(q, p)
        <4>1. flight[p].msg = m
          BY <1>2, <1>12, <1>f, <2>2, <3>3 DEF Tokens
        <4>2. svc'[cur].queue = q2 /\ Added(q2, q, en, n) /\ q = svc[cur].queue
          BY <1>5, <1>7, <3>3 DEF q
        <4> QED
          BY <1>4, <2>2, <3>0, <4>1, <4>2 DEF Added
      <3> QED
        BY <3>1, <3>2, <3>3
    <2> QED
      BY <1>8, <2>1, <2>2 DEF MarksReleased
  <1>i. InStep'
    <2> SUFFICES ASSUME clientUp, ~svc'[cur].restored
                 PROVE  /\ svc'[cur].status = "up" =>
                             Lockstep(flight, svc'[cur].queue, svc'[cur].c2s, svc'[cur].s2c)
                        /\ CompletesPublished(flight, published, svc'[cur].s2c)
      BY <1>8 DEF InStep
    <2>0. /\ svc[cur].status = "up" => Lockstep(flight, svc[cur].queue, svc[cur].c2s, svc[cur].s2c)
          /\ CompletesPublished(flight, published, svc[cur].s2c)
      BY <1>10, <1>14 DEF IndInv, InStep
    <2>1. CASE c # cur
      BY <1>7, <1>14, <2>0, <2>1 DEF Answering
    <2>2. CASE c = cur
      <3>1. Lockstep(flight, q, svc[c].c2s, svc[c].s2c)
        BY <1>13, <2>0, <2>2 DEF q
      <3>2. \A k \in DOMAIN q : q[k].pktid # svc[c].c2s[1].pktid
        BY <1>12, <1>f, <2>2, <3>1, PublishIsNew
      <3>3. ~Waiting(q, p) /\ Added(q2, q, en, n)
        BY <1>5, <1>12, <3>2 DEF Waiting
      <3>4. \A j \in DOMAIN svc[c].c2s : j # 1 => j - 1 \in DOMAIN svc'[c].c2s /\ (j - 1) + 1 = j
        BY <1>7 DEF Answering
      <3>5. Lockstep(flight, q2, svc'[c].c2s, svc'[c].s2c)
        BY <1>2, <1>4, <1>12, <1>f, <2>2, <3>1, <3>3, <3>4, LockstepQueued
      <3>6. CompletesPublished(flight, published, svc'[c].s2c)
        BY <1>f, <2>0, <2>2, CompletesAnswer
      <3> QED
        BY <1>7, <2>2, <3>5, <3>6
    <2> QED
      BY <2>1, <2>2
  <1>j. CompletedPublished'
    <2>1. \A x \in completed : sentOn[x] \in Conns
      BY ElementOfSeq, LenProperties DEF IndInv, ClientOK, TypeOK
    <2> QED
      BY <1>8, <1>10, <2>1 DEF IndInv, CompletedPublished
  <1> QED
    BY <1>a, <1>b, <1>c, <1>d, <1>e, <1>g, <1>h, <1>i, <1>j DEF IndInv


\* What a PUBREL does to the queue q of connection c: the messages of its packet id p are
\* marked, which gives a, and the n marked from the head on are published, which leaves q2.
Releasing(c, p, q, a, n, q2, pb2) ==
  /\ a = Acknowledged(q, p) /\ n = AckedLen(a)
  /\ q2 = SubSeq(a, n + 1, Len(a))
  /\ pb2 = published \o [k \in 1..n |-> [msg |-> a[k].msg, conn |-> c]]

\* It marks no other message, and publishes exactly the longest marked prefix.
LEMMA PubrelEffect ==
  ASSUME TypeOK, NEW c \in Conns, NEW p \in PktIds, NEW q \in Seq(Entries),
         NEW a, NEW n, NEW q2, NEW pb2, Releasing(c, p, q, a, n, q2, pb2)
  PROVE  /\ n \in 0..Len(q) /\ q2 \in Seq(Entries) /\ Rest(q2, q, n)
         /\ \A k \in DOMAIN q2 : k + n \in DOMAIN q /\ q2[k] = a[k + n]
         /\ \A k \in DOMAIN q : n < k => k - n \in DOMAIN q2 /\ (k - n) + n = k
         /\ \A k \in DOMAIN q : IF q[k].pktid = p THEN a[k].rel ELSE a[k] = q[k]
         /\ \A k \in 1..n : a[k].rel
         /\ n < Len(q) => ~a[n + 1].rel
         /\ Handed(pb2, published, c, q, n)
         /\ pb2 \in Seq([msg : Messages, conn : Conns])
  <1> DEFINE h == [k \in 1..n |-> [msg |-> a[k].msg, conn |-> c]]
  <1>1. /\ DOMAIN q = 1..Len(q) /\ Len(q) \in Nat
        /\ \A k \in DOMAIN q : q[k] \in Entries
    BY ElementOfSeq, LenProperties
  <1>2. /\ DOMAIN a = DOMAIN q
        /\ \A k \in DOMAIN q : /\ IF q[k].pktid = p THEN a[k].rel ELSE a[k] = q[k]
                               /\ a[k] \in Entries /\ a[k].pktid = q[k].pktid /\ a[k].msg = q[k].msg
    BY <1>1 DEF Releasing, Acknowledged, Entries
  <1>3. a \in Seq(Entries) /\ Len(a) = Len(q)
    <2>1. a \in [1..Len(q) -> Entries]
      <3>1. a = [k \in 1..Len(q) |-> a[k]]
        BY <1>1 DEF Releasing, Acknowledged
      <3> QED
        BY <1>1, <1>2, <3>1
    <2>2. a \in Seq(Entries)
      BY <1>1, <2>1, SeqDef
    <2> QED
      BY <1>1, <1>2, <2>2, LenProperties
  <1>4. n \in 0..Len(q) /\ (\A k \in 1..n : a[k].rel) /\ (n < Len(q) => ~a[n + 1].rel)
    <2>1. n = AckedLen(a)
      BY DEF Releasing
    <2> QED
      BY <1>3, <2>1, AckedLenFacts
  <1>5. /\ q2 \in Seq(Entries) /\ DOMAIN q2 = 1..(Len(q) - n)
        /\ \A k \in DOMAIN q2 : k + n \in DOMAIN q /\ q2[k] = a[k + n]
    <2>1. \A k \in (n + 1)..Len(q) : a[k] \in Entries
      BY <1>1, <1>2, <1>4
    <2>2. /\ q2 \in Seq(Entries)
          /\ Len(q2) = IF n + 1 <= Len(q) THEN Len(q) - (n + 1) + 1 ELSE 0
          /\ \A k \in 1..(Len(q) - (n + 1) + 1) : q2[k] = a[n + 1 + k - 1]
      <3>1. q2 = SubSeq(a, n + 1, Len(q))
        BY <1>3 DEF Releasing
      <3> QED
        BY <1>1, <1>3, <1>4, <2>1, <3>1, SubSeqProperties
    <2>3. DOMAIN q2 = 1..(Len(q) - n)
      <3>1. Len(q2) = Len(q) - n
        <4>1. n \in Nat /\ n <= Len(q) /\ Len(q) \in Nat
          BY <1>1, <1>4
        <4>2. CASE n + 1 <= Len(q)
          BY <2>2, <4>1, <4>2
        <4>3. CASE ~(n + 1 <= Len(q))
          BY <2>2, <4>1, <4>3
        <4> QED
          BY <4>2, <4>3
      <3>2. DOMAIN q2 = 1..Len(q2)
        BY <2>2, LenProperties
      <3> QED
        BY <3>1, <3>2
    <2>4. \A k \in DOMAIN q2 : k + n \in DOMAIN q /\ n + 1 + k - 1 = k + n /\ k \in 1..(Len(q) - (n + 1) + 1)
      <3> SUFFICES ASSUME NEW k \in 1..(Len(q) - n)
                   PROVE  k + n \in 1..Len(q) /\ n + 1 + k - 1 = k + n /\ k \in 1..(Len(q) - (n + 1) + 1)
        BY <1>1, <2>3
      <3> QED
        BY <1>1, <1>4
    <2> QED
      BY <2>2, <2>3, <2>4
  <1>6. Rest(q2, q, n)
    BY <1>1, <1>2, <1>4, <1>5 DEF Rest
  <1>7. \A k \in DOMAIN q : n < k => k - n \in DOMAIN q2 /\ (k - n) + n = k
    BY <1>1, <1>4, <1>5
  <1>8. h \in Seq([msg : Messages, conn : Conns]) /\ Len(h) = n /\ DOMAIN h = 1..n
    <2>1. \A k \in 1..n : a[k] \in Entries
      BY <1>1, <1>2, <1>4
    <2>2. h \in [1..n -> [msg : Messages, conn : Conns]] /\ n \in Nat
      BY <1>4, <2>1 DEF Entries
    <2>3. h \in Seq([msg : Messages, conn : Conns])
      BY <2>2, SeqDef
    <2> QED
      BY <2>2, <2>3, LenProperties
  <1>9. \A k \in 1..n : h[k].msg = q[k].msg /\ h[k].conn = c
    BY <1>1, <1>2, <1>4
  <1>10. /\ Len(published) \in Nat /\ DOMAIN published = 1..Len(published)
         /\ published \in Seq([msg : Messages, conn : Conns])
    BY PublishedFacts DEF TypeOK
  <1> HIDE DEF h
  <1>11. pb2 = published \o h
    BY DEF h, Releasing
  <1>12. /\ pb2 \in Seq([msg : Messages, conn : Conns]) /\ Len(pb2) = Len(published) + n
         /\ \A k \in 1..(Len(published) + n) :
              pb2[k] = IF k <= Len(published) THEN published[k] ELSE h[k - Len(published)]
    <2>1. /\ published \o h \in Seq([msg : Messages, conn : Conns])
          /\ Len(published \o h) = Len(published) + Len(h)
          /\ \A k \in 1..(Len(published) + Len(h)) : (published \o h)[k] =
               IF k <= Len(published) THEN published[k] ELSE h[k - Len(published)]
      BY <1>8, <1>10, ConcatProperties
    <2> QED
      BY <1>8, <1>11, <2>1, Zenon
  <1>13. DOMAIN pb2 = 1..(Len(published) + n)
    BY <1>12, LenProperties
  <1>14. Handed(pb2, published, c, q, n)
    <2>1. n \in Nat /\ 1..n \subseteq DOMAIN q
      BY <1>1, <1>4
    <2>2. \A x \in DOMAIN published : pb2[x] = published[x]
      BY <1>10, <1>12, <2>1
    <2>3. ASSUME NEW k \in 1..n
          PROVE  pb2[Len(published) + k].msg = q[k].msg /\ pb2[Len(published) + k].conn = c
      <3>1. /\ Len(published) + k \in 1..(Len(published) + n) /\ ~(Len(published) + k <= Len(published))
            /\ (Len(published) + k) - Len(published) = k
        BY <1>10, <2>1
      <3>2. pb2[Len(published) + k] = h[k]
        BY <1>12, <3>1
      <3> QED
        BY <1>9, <3>2
    <2> QED
      BY <1>10, <1>13, <2>1, <2>2, <2>3 DEF Handed
  <1> QED
    BY <1>2, <1>4, <1>5, <1>6, <1>7, <1>12, <1>14


\* The broker takes a PUBREL.
LEMMA ProcessPubrelKeeps ==
  ASSUME IndInv, NEW c \in Conns, NEW p \in PktIds, processPubrel(c, p)
  PROVE  IndInv'
  <1> DEFINE q  == svc[c].queue
             a  == Acknowledged(q, p)
             n  == AckedLen(a)
             q2 == SubSeq(a, n + 1, Len(a))
             e  == [type |-> "PUBCOMP", pktid |-> p]
  <1>1. svc \in [Conns -> Services] /\ TypeOK /\ Received(c, "PUBREL", p)
    BY DEF IndInv, ServicesOK, processPubrel
  <1>2. q \in Seq(Entries) /\ Len(q) \in Nat /\ DOMAIN q = 1..Len(q) /\ \A k \in DOMAIN q : q[k] \in Entries
    BY <1>1, ServiceFacts, LenProperties
  <1>3. /\ published' = published \o [k \in 1..n |-> [msg |-> a[k].msg, conn |-> c]]
        /\ Releasing(c, p, q, a, n, q2, published')
    BY DEF processPubrel, Releasing
  <1>4. svc' = [svc EXCEPT ![c].c2s = Tail(@), ![c].queue = q2, ![c].s2c = Answered(c, "PUBCOMP", p)]
    BY DEF processPubrel
  <1> HIDE DEF q, q2, n, a
  <1>5. /\ n \in 0..Len(q) /\ q2 \in Seq(Entries) /\ Rest(q2, q, n)
        /\ \A k \in DOMAIN q2 : k + n \in DOMAIN q /\ q2[k] = a[k + n]
        /\ \A k \in DOMAIN q : n < k => k - n \in DOMAIN q2 /\ (k - n) + n = k
        /\ \A k \in DOMAIN q : IF q[k].pktid = p THEN a[k].rel ELSE a[k] = q[k]
        /\ \A k \in 1..n : a[k].rel
        /\ n < Len(q) => ~a[n + 1].rel
        /\ Handed(published', published, c, q, n)
        /\ published' \in Seq([msg : Messages, conn : Conns])
    <2>1. Releasing(c, p, q, a, n, q2, published') /\ q \in Seq(Entries) /\ TypeOK
      BY <1>1, <1>2, <1>3
    <2> QED
      BY <2>1, PubrelEffect, Zenon
  <1>6. Answering(c, p, "PUBREL", "PUBCOMP", e) /\ svc'[c].queue = q2
    <2>1. q2 \in Seq(Entries)
      BY <1>5
    <2> QED
      BY <1>1, <1>4, <2>1, HandlersAnswer
  <1>7. /\ UNCHANGED <<cur, clientUp, flight, sentOn, released, completed>>
        /\ store' \in [PktIds -> Messages \cup {None}]
    <2>1. store \in [PktIds -> Messages \cup {None}]
      BY DEF IndInv, TypeOK
    <2> QED
      BY <2>1 DEF processPubrel
  <1> HIDE DEF e
  <1>8. IsPubrel(svc[c].c2s, 1) /\ svc[c].c2s[1].pktid = p /\ 1 \in DOMAIN svc[c].c2s
    BY <1>6 DEF Answering, IsPubrel
  <1>9. \A x \in DOMAIN published : published[x].conn \in Conns
    BY PublishedFacts DEF IndInv
  <1>10. \A d \in Conns : svc'[d].restored = svc[d].restored /\ svc'[d].status = svc[d].status
    BY <1>6 DEF Answering
  <1>11. \A x \in DOMAIN published' :
           \/ x \in DOMAIN published /\ published'[x] = published[x]
           \/ \E k \in 1..n : /\ x = Len(published) + k /\ k \in DOMAIN q
                              /\ published'[x].msg = q[k].msg /\ published'[x].conn = c
    <2>1. Handed(published', published, c, q, n)
      BY <1>5
    <2> QED
      BY <2>1, HandedFrom
  <1>12. Len(published) \in Nat /\ DOMAIN published = 1..Len(published)
    BY PublishedFacts DEF IndInv
  <1>13. clientUp /\ c = cur => svc[c].status = "up"
    BY <1>6 DEF IndInv, ServicesOK, Answering
  <1>14. clientUp => cur \in Conns
    BY DEF IndInv, ServicesOK
  <1>15. DOMAIN published \subseteq DOMAIN published' /\ \A x \in DOMAIN published : published'[x] = published[x]
    BY <1>5, <1>12 DEF Handed
  <1>a. TypeOK'
    <2>1. \A d \in Conns : svc'[d].queue \in Seq(Entries)
      BY <1>6 DEF Answering, Services
    <2> QED
      BY <1>5, <1>7, <2>1 DEF IndInv, TypeOK, Entries
  <1>b. ServicesOK'
    <2>1. \A d \in Conns : d > cur => svc'[d] = NoService
      <3>1. cur \in Nat
        BY DEF IndInv, TypeOK
      <3> QED
        BY <1>6, <3>1 DEF IndInv, ServicesOK, Answering, Conns
    <2>2. \A d \in Conns : svc'[d].status = "up" => clientUp /\ d = cur
      BY <1>10 DEF IndInv, ServicesOK
    <2>3. clientUp => cur \in Conns /\ svc'[cur].status # "lost"
      BY <1>10 DEF IndInv, ServicesOK
    <2> QED
      BY <1>6, <1>7, <2>1, <2>2, <2>3 DEF ServicesOK, Answering
  <1>c. OwnMessages'
    <2>1. \A d \in Conns : \A k \in DOMAIN svc'[d].c2s :
            IsPublish(svc'[d].c2s, k) => Sent(sentOn, d, svc'[d].c2s[k].msg)
      BY SMTT(30), <1>6 DEF Answering, IndInv, OwnMessages, Part, IsPublish
    <2>2. \A d \in Conns : ~svc'[d].restored =>
            \A k \in DOMAIN svc'[d].queue : Sent(sentOn, d, svc'[d].queue[k].msg)
      <3> SUFFICES ASSUME NEW d \in Conns, ~svc'[d].restored, NEW k \in DOMAIN svc'[d].queue
                   PROVE  Sent(sentOn, d, svc'[d].queue[k].msg)
        OBVIOUS
      <3>1. CASE d = c
        BY <1>5, <1>6, <1>10, <3>1 DEF IndInv, OwnMessages, q, Rest
      <3>2. CASE d # c
        BY <1>6, <3>2 DEF Answering, IndInv, OwnMessages
      <3> QED
        BY <3>1, <3>2
    <2> QED
      BY <1>7, <2>1, <2>2 DEF OwnMessages
  <1>d. OwnPublished'
    <2> SUFFICES ASSUME NEW x \in DOMAIN published'
                 PROVE  /\ published'[x].conn <= cur
                        /\ ~svc'[published'[x].conn].restored => Sent(sentOn, published'[x].conn, published'[x].msg)
      BY <1>7 DEF OwnPublished
    <2>1. CASE x \in DOMAIN published /\ published'[x] = published[x]
      BY <1>9, <1>10, <2>1 DEF IndInv, OwnPublished
    <2>2. CASE \E k \in 1..n : k \in DOMAIN q /\ published'[x].msg = q[k].msg /\ published'[x].conn = c
      BY <1>6, <1>10, <2>2 DEF IndInv, OwnMessages, q, Answering
    <2> QED
      BY <1>11, <2>1, <2>2
  <1>e. QueuesOrdered'
    <2> SUFFICES ASSUME NEW d \in Conns, ~svc'[d].restored
                 PROVE  /\ InOrder(svc'[d].queue, svc'[d].c2s)
                        /\ Before(published', d, svc'[d].queue, svc'[d].c2s)
      BY DEF QueuesOrdered
    <2>0. InOrder(svc[d].queue, svc[d].c2s) /\ Before(published, d, svc[d].queue, svc[d].c2s)
      BY <1>10 DEF IndInv, QueuesOrdered
    <2>1. CASE d = c
      <3>1. Part(svc'[c].c2s, svc[c].c2s, 1) /\ InOrder(q, svc[c].c2s) /\ Before(published, c, q, svc[c].c2s)
        BY <1>6, <2>0, <2>1 DEF Answering, q
      <3>2. InOrder(q2, svc'[c].c2s)
        BY <1>5, <3>1, OrderRest
      <3>3. Before(published', c, q2, svc'[c].c2s)
        BY <1>5, <3>1, BeforeHanded
      <3> QED
        BY <1>6, <2>1, <3>2, <3>3
    <2>2. CASE d # c
      <3>1. Before(published', d, svc[d].queue, svc[d].c2s)
        BY <1>5, <2>0, <2>2, BeforeOthers
      <3> QED
        BY <1>6, <2>0, <2>2, <3>1 DEF Answering
    <2> QED
      BY <2>1, <2>2
  <1>f. SentOrder'
    <2> SUFFICES ASSUME NEW x \in DOMAIN published', NEW y \in DOMAIN published', x < y,
                        published'[x].conn = published'[y].conn, ~svc'[published'[x].conn].restored
                 PROVE  published'[x].msg < published'[y].msg
      BY DEF SentOrder
    <2>1. CASE y \in DOMAIN published /\ published'[y] = published[y]
      <3>1. x \in DOMAIN published /\ published'[x] = published[x]
        BY <1>11, <1>12, <2>1
      <3> QED
        BY <1>9, <1>10, <2>1, <3>1 DEF IndInv, SentOrder
    <2>2. ASSUME NEW k \in 1..n, y = Len(published) + k, k \in DOMAIN q,
                 published'[y].msg = q[k].msg, published'[y].conn = c
          PROVE  published'[x].msg < published'[y].msg
      <3>0. ~svc[c].restored
        BY <1>10, <2>2
      <3>1. CASE x \in DOMAIN published /\ published'[x] = published[x]
        BY <2>2, <3>0, <3>1 DEF IndInv, QueuesOrdered, Before, q
      <3>2. ASSUME NEW j \in 1..n, x = Len(published) + j, j \in DOMAIN q, published'[x].msg = q[j].msg
            PROVE  published'[x].msg < published'[y].msg
        <4>1. j < k
          BY <1>5, <1>12, <2>2, <3>2
        <4> QED
          BY <2>2, <3>0, <3>2, <4>1 DEF IndInv, QueuesOrdered, InOrder, q
      <3> QED
        BY <1>11, <3>1, <3>2
    <2> QED
      BY <1>11, <2>1, <2>2
  <1>g. clientUp /\ c = cur =>
          /\ Tokens(flight, svc[c].c2s, svc[c].s2c) /\ Tokens(flight, svc'[c].c2s, svc'[c].s2c)
          /\ Added(svc'[c].s2c, svc[c].s2c, e, Len(svc[c].s2c) + 1)
          /\ Part(svc'[c].c2s, svc[c].c2s, 1) /\ e.type = "PUBCOMP" /\ e.pktid = svc[c].c2s[1].pktid
    <2> SUFFICES ASSUME clientUp, c = cur
                 PROVE  /\ Tokens(flight, svc[c].c2s, svc[c].s2c) /\ Tokens(flight, svc'[c].c2s, svc'[c].s2c)
                        /\ Added(svc'[c].s2c, svc[c].s2c, e, Len(svc[c].s2c) + 1)
                        /\ Part(svc'[c].c2s, svc[c].c2s, 1) /\ e.type = "PUBCOMP" /\ e.pktid = svc[c].c2s[1].pktid
      OBVIOUS
    <2>1. Tokens(flight, svc[c].c2s, svc[c].s2c)
      BY DEF IndInv, ClientOK
    <2>2. /\ Added(svc'[c].s2c, svc[c].s2c, e, Len(svc[c].s2c) + 1)
          /\ Part(svc'[c].c2s, svc[c].c2s, 1) /\ e.type = "PUBCOMP" /\ e.pktid = svc[c].c2s[1].pktid
      BY <1>6, <1>8, <1>13 DEF Answering
    <2>3. Tokens(flight, svc'[c].c2s, svc'[c].s2c)
      BY <1>8, <2>1, <2>2, TokensAnswer
    <2> QED
      BY <2>1, <2>2, <2>3
  <1>h. ClientOK'
    <2>1. \A d \in Conns : OneEach(svc'[d].c2s)
      <3> TAKE d \in Conns
      <3>1. OneEach(svc[d].c2s)
        BY DEF IndInv, ClientOK
      <3>2. Part(svc'[c].c2s, svc[c].c2s, 1)
        BY <1>6 DEF Answering
      <3>3. CASE d = c
        BY <3>1, <3>2, <3>3, OneEachPart
      <3>4. CASE d # c
        BY <1>6, <3>1, <3>4 DEF Answering
      <3> QED
        BY <3>3, <3>4
    <2>2. clientUp => Tokens(flight, svc'[cur].c2s, svc'[cur].s2c)
      BY <1>6, <1>g, <1>14 DEF Answering, IndInv, ClientOK
    <2> QED
      BY <1>7, <2>1, <2>2 DEF IndInv, ClientOK
  <1>i. ~svc[c].restored => ReleasedOK(released, q, svc[c].c2s)
    BY DEF IndInv, MarksReleased, q
  <1>j. MarksReleased'
    <2>1. \A d \in Conns : ~svc'[d].restored => ReleasedOK(released, svc'[d].queue, svc'[d].c2s)
      <3> SUFFICES ASSUME NEW d \in Conns, ~svc'[d].restored
                   PROVE  ReleasedOK(released, svc'[d].queue, svc'[d].c2s)
        OBVIOUS
      <3>1. CASE d = c
        <4>1. Part(svc'[c].c2s, svc[c].c2s, 1) /\ ReleasedOK(released, q, svc[c].c2s)
          BY <1>6, <1>10, <1>i, <3>1 DEF Answering
        <4>2. \A k \in DOMAIN q2 : q2[k].rel => q[k + n].rel \/ q2[k].pktid = svc[c].c2s[1].pktid
          BY SMTT(30), <1>5, <1>8 DEF Rest
        <4>3. ReleasedOK(released, q2, svc'[c].c2s)
          BY SMTT(30), <1>5, <1>8, <4>1, <4>2, ReleasedMarked
        <4> QED
          BY <1>6, <3>1, <4>3
      <3>2. CASE d # c
        BY <1>6, <1>10, <3>2 DEF Answering, IndInv, MarksReleased
      <3> QED
        BY <3>1, <3>2
    <2>2. ASSUME clientUp, ~svc'[cur].restored, NEW k \in DOMAIN svc'[cur].queue
          PROVE  \/ svc'[cur].queue[k].msg \in released
                 \/ svc'[cur].queue[k].msg = flight[svc'[cur].queue[k].pktid].msg
      <3>0. \A j \in DOMAIN svc[cur].queue :
              \/ svc[cur].queue[j].msg \in released
              \/ svc[cur].queue[j].msg = flight[svc[cur].queue[j].pktid].msg
        BY <1>10, <1>14, <2>2 DEF IndInv, MarksReleased
      <3>1. CASE c # cur
        BY <1>6, <1>14, <2>2, <3>0, <3>1 DEF Answering
      <3>2. CASE c = cur
        <4>1. svc'[cur].queue = q2 /\ q = svc[cur].queue /\ Rest(q2, q, n)
          BY <1>5, <1>6, <3>2 DEF q
        <4>2. /\ k + n \in DOMAIN q /\ svc'[cur].queue[k].msg = q[k + n].msg
              /\ svc'[cur].queue[k].pktid = q[k + n].pktid
          BY <2>2, <4>1 DEF Rest
        <4> QED
          BY <3>0, <4>1, <4>2
      <3> QED
        BY <3>1, <3>2
    <2> QED
      BY <1>7, <2>1, <2>2 DEF MarksReleased
  <1>k. OnlyReleased'
    <2> SUFFICES ASSUME NEW x \in DOMAIN published'
                 PROVE  published'[x].msg \in released \/ svc'[published'[x].conn].restored
      BY <1>7 DEF OnlyReleased
    <2>1. CASE x \in DOMAIN published /\ published'[x] = published[x]
      BY <1>9, <1>10, <2>1 DEF IndInv, OnlyReleased
    <2>2. ASSUME NEW k \in 1..n, k \in DOMAIN q, published'[x].msg = q[k].msg, published'[x].conn = c
          PROVE  published'[x].msg \in released \/ svc'[published'[x].conn].restored
      <3>1. q[k].rel \/ q[k].pktid = svc[c].c2s[1].pktid
        BY <1>5, <1>8, <2>2
      <3> QED
        BY <1>8, <1>10, <1>i, <2>2, <3>1 DEF ReleasedOK
    <2> QED
      BY <1>11, <2>1, <2>2
  <1>l. InStep'
    <2> SUFFICES ASSUME clientUp, ~svc'[cur].restored
                 PROVE  /\ svc'[cur].status = "up" =>
                             Lockstep(flight, svc'[cur].queue, svc'[cur].c2s, svc'[cur].s2c)
                        /\ CompletesPublished(flight, published', svc'[cur].s2c)
      BY <1>7 DEF InStep
    <2>0. /\ svc[cur].status = "up" => Lockstep(flight, svc[cur].queue, svc[cur].c2s, svc[cur].s2c)
          /\ CompletesPublished(flight, published, svc[cur].s2c)
      BY <1>10, <1>14 DEF IndInv, InStep
    <2>1. CASE c # cur
      BY <1>6, <1>14, <1>15, <2>0, <2>1 DEF Answering, CompletesPublished
    <2>2. CASE c = cur
      <3>1. Lockstep(flight, q, svc[c].c2s, svc[c].s2c) /\ InOrder(q, svc[c].c2s)
        BY <1>10, <1>13, <2>0, <2>2 DEF q, IndInv, QueuesOrdered
      <3>2. DOMAIN svc[c].c2s \subseteq Nat \ {0} /\ \A k \in DOMAIN q : q[k].msg \in Nat
        BY <1>2, <1>6 DEF Answering, Part, Entries, Messages
      <3>3. /\ 1 \in DOMAIN q /\ q[1].pktid = p
            /\ \A k \in DOMAIN q : q[k].pktid = p => k = 1
        BY <1>2, <1>8, <3>1, <3>2, HeadReleased
      <3>4. n = 1
        <4>1. a[1].rel
          BY <1>5, <3>3
        <4>2. n # 0
          BY <1>2, <1>5, <3>3, <4>1
        <4>3. ~(2 <= n)
          <5> SUFFICES ASSUME 2 <= n PROVE FALSE
            OBVIOUS
          <5>1. 2 \in 1..n /\ 2 \in DOMAIN q
            BY <1>2, <1>5
          <5>2. a[2] = q[2] /\ ~q[2].rel
            BY <1>5, <3>1, <3>3, <5>1 DEF Lockstep
          <5> QED
            BY <1>5, <5>1, <5>2
        <4> QED
          BY <1>5, <4>2, <4>3
      <3>5. Part(q2, q, 1) /\ \A j \in DOMAIN q : j # 1 => j - 1 \in DOMAIN q2 /\ (j - 1) + 1 = j
        <4>1. \A k \in DOMAIN q2 : k \in Nat \ {0} /\ k + 1 \in DOMAIN q /\ q2[k] = a[k + 1]
          BY <1>5, <3>4 DEF Rest
        <4>2. \A k \in DOMAIN q2 : q2[k] = q[k + 1]
          <5> TAKE k \in DOMAIN q2
          <5>1. k + 1 \in DOMAIN q /\ k + 1 # 1 /\ q2[k] = a[k + 1]
            BY <4>1
          <5>2. q[k + 1].pktid # p
            BY <3>3, <5>1
          <5>3. a[k + 1] = q[k + 1]
            BY <1>5, <5>1, <5>2
          <5> QED
            BY <5>1, <5>3
        <4>3. \A j \in DOMAIN q : j # 1 => j - 1 \in DOMAIN q2 /\ (j - 1) + 1 = j
          BY <1>2, <1>5, <3>4
        <4> QED
          BY <1>2, <4>1, <4>2, <4>3 DEF Part
      <3>6. \A j \in DOMAIN svc[c].c2s : j # 1 => j - 1 \in DOMAIN svc'[c].c2s /\ (j - 1) + 1 = j
        BY <1>6 DEF Answering
      <3>7. OneEach(svc[c].c2s)
        BY DEF IndInv, ClientOK
      <3>8. Lockstep(flight, q2, svc'[c].c2s, svc'[c].s2c)
        BY <1>8, <1>g, <2>2, <3>1, <3>3, <3>5, <3>6, <3>7, LockstepPubrel
      <3>9. \E x \in DOMAIN published' : published'[x].msg = flight[e.pktid].msg
        <4>1. q[1].msg = flight[p].msg
          BY <3>1, <3>3 DEF Lockstep
        <4>2. Len(published) + 1 \in DOMAIN published' /\ published'[Len(published) + 1].msg = q[1].msg
          BY <1>5, <1>12, <3>4 DEF Handed
        <4> QED
          BY <1>8, <1>g, <2>2, <4>1, <4>2
      <3>10. CompletesPublished(flight, published', svc'[c].s2c)
        BY <1>15, <1>g, <2>0, <2>2, <3>9, CompletesAnswer
      <3> QED
        BY <1>6, <2>2, <3>8, <3>10
    <2> QED
      BY <2>1, <2>2
  <1>m. CompletedPublished'
    <2>1. \A x \in completed : sentOn[x] \in Conns
      BY ElementOfSeq, LenProperties DEF IndInv, ClientOK, TypeOK
    <2> QED
      BY <1>7, <1>10, <1>15, <2>1 DEF IndInv, CompletedPublished
  <1> QED
    BY <1>a, <1>b, <1>c, <1>d, <1>e, <1>f, <1>h, <1>j, <1>k, <1>l, <1>m DEF IndInv

\* Every step keeps the invariant.
LEMMA NextIndInv == IndInv /\ [Next]_vars => IndInv'
  <1> SUFFICES ASSUME IndInv, [Next]_vars PROVE IndInv'
    OBVIOUS
  <1>1. CASE UNCHANGED vars
    BY <1>1 DEF vars, IndInv, TypeOK, ServicesOK, OwnMessages, OwnPublished, QueuesOrdered,
       SentOrder, ClientOK, MarksReleased, OnlyReleased, InStep, CompletedPublished
  <1>2. CASE Next
    BY <1>2, PublishKeeps, PubrecKeeps, PubcompKeeps, LoseKeeps, ConnectKeeps,
       ProcessPublishKeeps, ProcessPubrelKeeps, FailsKeeps, StopKeeps DEF Next
  <1> QED
    BY <1>1, <1>2

\* So it holds in every state.
LEMMA Invariance == Spec => []IndInv
  BY InitIndInv, NextIndInv, PTL DEF Spec

-----------------------------------------------------------------------------
(* Theorems.                                                               *)

\* TypeOK, for any number of packet ids, messages and connections: records hold messages,
\* services packets.
THEOREM TypeCorrect == Spec => []TypeOK
  BY Invariance, PTL DEF IndInv

\* SentOrder: messages of one connection reach onPublish in the order in which the client
\* sent them, whatever connection breaks and whichever old service still runs.
THEOREM OrderCorrect == Spec => []SentOrder
  BY Invariance, PTL DEF IndInv

\* AtMostOnce: no message is published twice by sessions that began empty, also when the
\* services of two connections overlap.
THEOREM OnceCorrect == Spec => []AtMostOnce
  <1>1. IndInv => AtMostOnce
    <2> SUFFICES ASSUME IndInv, NEW i \in DOMAIN published, NEW j \in DOMAIN published,
                        published[i].msg = published[j].msg,
                        ~svc[published[i].conn].restored, ~svc[published[j].conn].restored
                 PROVE  i = j
      BY DEF AtMostOnce
    <2>1. published[i].conn = published[j].conn
      BY DEF IndInv, OwnPublished, Sent
    <2>2. i \in Nat /\ j \in Nat /\ published[i].msg \in Nat
      BY PublishedFacts DEF IndInv, Messages
    <2>3. ~(i < j) /\ ~(j < i)
      BY <2>1, <2>2 DEF IndInv, SentOrder
    <2> QED
      BY <2>2, <2>3
  <1> QED
    BY Invariance, <1>1, PTL

\* OnlyReleased: PUBREL comes before onPublish, except for what a session was restored with.
THEOREM ReleaseCorrect == Spec => []OnlyReleased
  BY Invariance, PTL DEF IndInv

\* CompletedPublished: a PUBCOMP the client got means its message went to onPublish,
\* except for a session that began with records of an earlier one.
THEOREM CompleteCorrect == Spec => []CompletedPublished
  BY Invariance, PTL DEF IndInv
=============================================================================
