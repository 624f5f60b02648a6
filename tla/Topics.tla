------------------------------- MODULE Topics -------------------------------
(***************************************************************************)
(* Routing: the subscription tree and the tree of retained messages of     *)
(* corev5/v2/topics/impl/memtopics.go, and the connections that use them   *)
(* (process.go processSubscribe, processUnsubscribe, onPublish, pubFn;     *)
(* service.go stop).                                                       *)
(*                                                                         *)
(* A topic name or filter is the sequence of its levels; "" is an empty    *)
(* level, as in "/a" = <<"", "a">>.  A tree is a function from the paths   *)
(* of its nodes to what they hold.  Each tree has a lock, so a call of a   *)
(* tree is one step; the handlers of a connection make several such calls  *)
(* and those of other connections come between them.                       *)
(*                                                                         *)
(* The nth retained message is the number n.  rinsert decodes into the     *)
(* message object that its node has, or a new one, and Retained hands out  *)
(* the objects themselves, so objects have names: the first message that   *)
(* was put into one.  Messages are published with QoS PubQos and retain.   *)
(*                                                                         *)
(* Sessions are of the kind kept in memory; $share and $sys filters have   *)
(* trees of their own; neither is modelled here.                           *)
(***************************************************************************)
EXTENDS Integers, Sequences, FiniteSets

CONSTANTS
  Clients,     \* connections; each subscribes and publishes
  Levels,      \* what may stand between two "/" of a topic
  Packets,     \* SUBSCRIBE packets: sequences of topic, qos and retain handling
  TopicNames,  \* topics that clients publish to
  PubQos,      \* the QoS of published messages
  MaxMsgs      \* bound: messages published that are not empty

\* The level between two "/" with nothing between them.
Empty == ""

\* Topic names and filters: one level or more.
Topic == Seq(Levels) \ {<<>>}

Filters == UNION {{p[i].topic : i \in DOMAIN p} : p \in Packets}

ASSUME TopicsAssumption ==
  /\ {Empty, "+", "#"} \subseteq Levels
  /\ Packets \subseteq Seq([topic : Topic, qos : 0..2, handling : 0..2]) \ {<<>>}
  /\ TopicNames \subseteq Topic
  /\ \A t \in TopicNames : \A i \in DOMAIN t : t[i] \notin {"+", "#"}
  /\ PubQos \in 0..2
  /\ MaxMsgs \in Nat

VARIABLES
  snodes,      \* sroot: path -> QoS of each subscriber at that node
  rnodes,      \* rroot: path -> message object of that node
  rmsg,        \* message object -> the message in it and its QoS
  rstore,      \* the message store's retained message of each topic
  topics,      \* the session of each client: filter -> subscription
  at,          \* what each connection is in the middle of
  nmsg,        \* messages published
  delivered    \* messages handed to each client since it connected

vars == <<snodes, rnodes, rmsg, rstore, topics, at, nmsg, delivered>>
trees == <<snodes, rnodes, rmsg, rstore>>

NoQos == -1
NoMsg == 0
NoSub == [qos |-> NoQos, handling |-> 0]
Nobody == [c \in Clients |-> NoQos]
NoTopics == [f \in Filters |-> NoSub]

\* A connection between two packets.
Idle == [step |-> "idle", packet |-> <<>>, i |-> 0, rmsgs |-> {}, old |-> NoQos,
         topic |-> <<>>, msg |-> NoMsg, subs |-> {}]
Offline == [Idle EXCEPT !.step = "offline"]

Init ==
  /\ snodes = [n \in {<<>>} |-> Nobody]
  /\ rnodes = [n \in {<<>>} |-> NoMsg]
  /\ rmsg = [o \in 1..MaxMsgs |-> [msg |-> NoMsg, qos |-> 0]]
  /\ rstore = [t \in TopicNames |-> NoMsg]
  /\ topics = [c \in Clients |-> NoTopics]
  /\ at = [c \in Clients |-> Offline]
  /\ nmsg = 0
  /\ delivered = [c \in Clients |-> {}]

-----------------------------------------------------------------------------
(* Topic levels.                                                           *)

\* How nextTopicLevel names a level: an empty one, before a "/", is "+".
Level(l) == IF l = Empty THEN "+" ELSE l

\* An empty last level is not a level at all: the "/" before it ends the topic.
path(t) ==
  [i \in 1..(IF t[Len(t)] = Empty THEN Len(t) - 1 ELSE Len(t)) |-> Level(t[i])]

\* nextTopicLevel refuses a "#" with more levels behind it; the levels before that.
GoodLevels(f) ==
  LET bad == {i \in 1..(Len(f) - 1) : f[i] = "#"} IN
  IF bad = {} THEN Len(f) ELSE (CHOOSE i \in bad : \A j \in bad : i <= j) - 1

Refused(f) == GoodLevels(f) < Len(f)

Prefixes(p) == {SubSeq(p, 1, n) : n \in 0..Len(p)}

\* The nodes of a tree at p and below, and the children of p.
Below(nodes, p) == {n \in nodes : Len(n) >= Len(p) /\ SubSeq(n, 1, Len(p)) = p}
Children(nodes, p) == {n \in Below(nodes, p) : Len(n) = Len(p) + 1}

-----------------------------------------------------------------------------
(* The subscription tree.                                                  *)

\* sinsert, down to the node p: the nodes on the way are made.
Way(p) ==
  [n \in DOMAIN snodes \cup Prefixes(p) |-> IF n \in DOMAIN snodes THEN snodes[n] ELSE Nobody]

\* sinsert: a refused filter leaves the nodes on the way to the level that is wrong;
\* a subscriber that is in the list is updated.
sinsert(f, c, q) ==
  IF Refused(f) THEN Way(SubSeq(path(f), 1, GoodLevels(f)))
  ELSE [Way(path(f)) EXCEPT ![path(f)][c] = q]

\* Mutant of sremove: empty nodes stay.
sremove_NoPrune(f, c) ==
  LET p == path(f) IN
  IF p \notin DOMAIN snodes THEN snodes ELSE [snodes EXCEPT ![p][c] = NoQos]

\* sremove: nothing changes for a client that is not in the list; otherwise, on the
\* way back, a node without subscribers and children is deleted.
sremove(f, c) ==
  LET p == path(f) IN
  IF p \notin DOMAIN snodes THEN snodes
  ELSE IF snodes[p][c] = NoQos THEN snodes
  ELSE LET left == [snodes EXCEPT ![p][c] = NoQos]
           gone == {n \in Prefixes(p) \ {<<>>} :
                      /\ Below(DOMAIN left, n) \subseteq Prefixes(p)
                      /\ \A d \in Below(DOMAIN left, n) : left[d] = Nobody}
       IN  [n \in DOMAIN left \ gone |-> left[n]]

\* Mutant of smatch: "#" does not include its parent.
smatch_NoParent(t) ==
  LET m[i \in 1..Len(t)] ==
        LET follow(d) ==
              LET k == d[Len(d)] IN
              IF k = "#" THEN {d}
              ELSE IF k \notin {"+", Level(t[i])} THEN {}
              ELSE IF i < Len(t) THEN m[i + 1][d]
              ELSE {d}
        IN  [n \in DOMAIN snodes |-> UNION {follow(d) : d \in Children(DOMAIN snodes, n)}]
  IN  m[1][<<>>]

\* smatch: the nodes whose subscribers get a message for topic t.  m[i][n] is the
\* call at node n with the levels from i on left.
smatch(t) ==
  LET m[i \in 1..Len(t)] ==
        LET follow(d) ==
              LET k == d[Len(d)] IN
              IF k = "#" THEN {d}
              ELSE IF k \notin {"+", Level(t[i])} THEN {}
              ELSE IF i < Len(t) THEN m[i + 1][d]
              ELSE {d, Append(d, "#")} \cap DOMAIN snodes
        IN  [n \in DOMAIN snodes |->
               IF i > 1 /\ i = Len(t) /\ t[i] = Empty
               THEN {n, Append(n, "#"), Append(n, "+")} \cap DOMAIN snodes
               ELSE UNION {follow(d) : d \in Children(DOMAIN snodes, n)}]
  IN  m[1][<<>>]

\* matchQos: the lower of the QoS of the message and of the subscription.
matchQos(q, granted) == IF q <= granted THEN q ELSE granted

\* Subscribers: one entry for each subscription that matches.
SubscribersOf(t) ==
  UNION {{[node |-> n, sub |-> c, qos |-> matchQos(PubQos, snodes[n][c])] :
            c \in {d \in Clients : snodes[n][d] # NoQos}} : n \in smatch(t)}

-----------------------------------------------------------------------------
(* The tree of retained messages.                                          *)

\* rinsert: the nodes on the way are made; a node without a message gets a new one.
rinsert(t, m) ==
  LET p   == path(t)
      has == p \in DOMAIN rnodes /\ rnodes[p] # NoMsg
      o   == IF has THEN rnodes[p] ELSE m
  IN  /\ rnodes' = [n \in DOMAIN rnodes \cup Prefixes(p) |->
                      IF n = p THEN o ELSE IF n \in DOMAIN rnodes THEN rnodes[n] ELSE NoMsg]
      /\ rmsg' = [rmsg EXCEPT ![o] = [msg |-> m, qos |-> PubQos]]

\* Mutant of rremove: a node that has children keeps its message.
rremove_KeepInner(t) ==
  LET p == path(t) IN
  IF p \notin DOMAIN rnodes \/ Children(DOMAIN rnodes, p) # {} THEN rnodes
  ELSE LET gone == {n \in Prefixes(p) \ {<<>>} : Below(DOMAIN rnodes, n) \subseteq Prefixes(p)}
       IN  [n \in DOMAIN rnodes \ gone |-> rnodes[n]]

\* Mutant of rremove: the node is deleted with its children.
rremove_DropNode(t) == [n \in DOMAIN rnodes \ {path(t)} |-> rnodes[n]]

\* rremove: on the way back, a node without children is deleted, with its message.
rremove(t) ==
  LET p == path(t) IN
  IF p \notin DOMAIN rnodes THEN rnodes
  ELSE LET left == [rnodes EXCEPT ![p] = NoMsg]
           gone == {n \in Prefixes(p) \ {<<>>} : Below(DOMAIN left, n) \subseteq Prefixes(p)}
       IN  [n \in DOMAIN left \ gone |-> left[n]]

\* rmatch and allRetained: the message objects that a filter reaches.
rmatch(f) ==
  LET m[i \in 1..(Len(f) + 1)] ==
        [n \in DOMAIN rnodes |->
           IF i > Len(f) \/ (i > 1 /\ i = Len(f) /\ f[i] = Empty) THEN {n}
           ELSE IF f[i] = "#" THEN Below(DOMAIN rnodes, n)
           ELSE UNION {m[i + 1][d] : d \in {e \in Children(DOMAIN rnodes, n) :
                                              Level(f[i]) \in {"+", e[Len(e)]}}}]
  IN  {rnodes[n] : n \in m[1][<<>>]} \ {NoMsg}

-----------------------------------------------------------------------------
(* SUBSCRIBE.                                                              *)

\* The subscription that a connection is at.
sub(c) == at[c].packet[at[c].i]

\* topicsMgr.Subscribe for the ith filter of a packet, the first when the packet is
\* received; an error ends the connection.
Subscribe(c, p, i) ==
  /\ \/ at[c].step = "idle" /\ i = 1
     \/ at[c].step = "subscribe" /\ p = at[c].packet /\ i = at[c].i
  /\ snodes' = sinsert(p[i].topic, c, p[i].qos)
  /\ at' = [at EXCEPT ![c] = IF Refused(p[i].topic)
                             THEN [Idle EXCEPT !.step = "stop"]
                             ELSE [@ EXCEPT !.step = "retained", !.packet = p, !.i = i]]
  /\ UNCHANGED <<rnodes, rmsg, rstore, topics, nmsg, delivered>>

\* What is sent for a subscription, by its retain handling.  AddTopic was called
\* before, so that a subscription that must be new for it to be sent never is.
Found(c, tps) ==
  IF sub(c).handling = 0 \/ (sub(c).handling = 1 /\ tps[sub(c).topic] = NoSub)
  THEN {<<at[c].i, o>> : o \in rmatch(sub(c).topic)}
  ELSE {}

\* The handler is done when there is nothing left to send.
Sending(w) == IF w.rmsgs = {} THEN Idle ELSE [w EXCEPT !.step = "lower", !.old = NoQos]

\* AddTopic, Retained, and on to the next subscription or, after SUBACK, to what was found.
AddTopicRetained(c) ==
  LET w == [at[c] EXCEPT !.rmsgs = @ \cup Found(c, topics'[c])] IN
  /\ at[c].step = "retained"
  /\ topics' = [topics EXCEPT ![c][sub(c).topic] = [qos |-> sub(c).qos, handling |-> sub(c).handling]]
  /\ at' = [at EXCEPT ![c] = IF w.i < Len(w.packet)
                             THEN [w EXCEPT !.step = "subscribe", !.i = @ + 1]
                             ELSE Sending(w)]
  /\ UNCHANGED <<trees, nmsg, delivered>>

\* The next of svc.rmsgs, in the order of the subscriptions.
First(c, x) == x \in at[c].rmsgs /\ \A y \in at[c].rmsgs : x[1] <= y[1]

\* The message object, which others may use, is given the QoS of the first
\* subscription; the one at work is moved to the front.
LowerQos(c) ==
  /\ at[c].step = "lower"
  /\ \E x \in at[c].rmsgs :
       /\ First(c, x)
       /\ rmsg' = [rmsg EXCEPT ![x[2]].qos = matchQos(@, at[c].packet[1].qos)]
       /\ at' = [at EXCEPT ![c].step = "send", ![c].rmsgs = (@ \ {x}) \cup {<<0, x[2]>>},
                           ![c].old = rmsg[x[2]].qos]
  /\ UNCHANGED <<snodes, rnodes, rstore, topics, nmsg, delivered>>

SendRetained(c) ==
  /\ at[c].step = "send"
  /\ \E x \in at[c].rmsgs :
       /\ First(c, x)
       /\ delivered' = [delivered EXCEPT ![c] = @ \cup {rmsg[x[2]].msg}]
  /\ at' = [at EXCEPT ![c].step = "restore"]
  /\ UNCHANGED <<trees, topics, nmsg>>

\* The object gets back the QoS that was read before it was lowered.
RestoreQos(c) ==
  /\ at[c].step = "restore"
  /\ \E x \in at[c].rmsgs :
       /\ First(c, x)
       /\ rmsg' = [rmsg EXCEPT ![x[2]].qos = at[c].old]
       /\ at' = [at EXCEPT ![c] = Sending([at[c] EXCEPT !.rmsgs = @ \ {x}])]
  /\ UNCHANGED <<snodes, rnodes, rstore, topics, nmsg, delivered>>

-----------------------------------------------------------------------------
(* UNSUBSCRIBE, PUBLISH, and the end of a connection.                      *)

\* processUnsubscribe, for one of its filters: the error of Unsubscribe is ignored.
processUnsubscribe(c, f) ==
  /\ at[c].step = "idle"
  /\ snodes' = sremove(f, c)
  /\ topics' = [topics EXCEPT ![c][f] = NoSub]
  /\ UNCHANGED <<rnodes, rmsg, rstore, at, nmsg, delivered>>

\* Retain: the store first, then the tree; a message without payload clears.
Retain(t, m) ==
  /\ rstore' = [rstore EXCEPT ![t] = m]
  /\ IF m = NoMsg THEN rnodes' = rremove(t) /\ rmsg' = rmsg ELSE rinsert(t, m)

\* pubFn: who gets the message; they are sent to once the tree is unlocked.
Match(t) == {s.sub : s \in SubscribersOf(t)}

Deliver(cs, m) ==
  delivered' = [d \in Clients |-> IF d \in cs /\ m # NoMsg THEN delivered[d] \cup {m} ELSE delivered[d]]

\* Mutant of onPublish: the subscribers are looked up before the message is retained.
onPublish_MatchFirst(c) ==
  \/ \E t \in TopicNames, clear \in BOOLEAN :
       LET m == IF clear THEN NoMsg ELSE nmsg + 1 IN
       /\ at[c].step = "idle"
       /\ m <= MaxMsgs
       /\ nmsg' = IF clear THEN nmsg ELSE m
       /\ at' = [at EXCEPT ![c] = [Idle EXCEPT !.step = "match", !.topic = t, !.msg = m,
                                               !.subs = Match(t)]]
       /\ UNCHANGED <<trees, topics, delivered>>
  \/ /\ at[c].step = "match"
     /\ Retain(at[c].topic, at[c].msg)
     /\ Deliver(at[c].subs, at[c].msg)
     /\ at' = [at EXCEPT ![c] = Idle]
     /\ UNCHANGED <<snodes, topics, nmsg>>

\* onPublish: Retain, then pubFn, then lookSend.
onPublish(c) ==
  \/ \E t \in TopicNames, clear \in BOOLEAN :
       LET m == IF clear THEN NoMsg ELSE nmsg + 1 IN
       /\ at[c].step = "idle"
       /\ m <= MaxMsgs
       /\ nmsg' = IF clear THEN nmsg ELSE m
       /\ Retain(t, m)
       /\ at' = [at EXCEPT ![c] = [Idle EXCEPT !.step = "match", !.topic = t, !.msg = m]]
       /\ UNCHANGED <<snodes, topics, delivered>>
  \/ /\ at[c].step = "match"
     /\ at' = [at EXCEPT ![c].step = "lookSend", ![c].subs = Match(at[c].topic)]
     /\ UNCHANGED <<trees, topics, nmsg, delivered>>
  \/ /\ at[c].step = "lookSend"
     /\ Deliver(at[c].subs, at[c].msg)
     /\ at' = [at EXCEPT ![c] = Idle]
     /\ UNCHANGED <<trees, topics, nmsg>>

\* The client or the network ends the connection; stop waits for the handler.
Disconnect(c) ==
  /\ at[c].step = "idle"
  /\ at' = [at EXCEPT ![c] = [Idle EXCEPT !.step = "stop"]]
  /\ UNCHANGED <<trees, topics, nmsg, delivered>>

\* stop: unSubAll goes through the session's filters; then the session is dropped.
unSubAll(c) ==
  /\ at[c].step = "stop"
  /\ \/ \E f \in Filters :
          /\ topics[c][f] # NoSub
          /\ snodes' = sremove(f, c)
          /\ topics' = [topics EXCEPT ![c][f] = NoSub]
          /\ UNCHANGED at
     \/ /\ topics[c] = NoTopics
        /\ at' = [at EXCEPT ![c] = Offline]
        /\ UNCHANGED <<snodes, topics>>
  /\ UNCHANGED <<rnodes, rmsg, rstore, nmsg, delivered>>

\* start, with a new session.
Connect(c) ==
  /\ at[c].step = "offline"
  /\ at' = [at EXCEPT ![c] = Idle]
  /\ delivered' = [delivered EXCEPT ![c] = {}]
  /\ UNCHANGED <<trees, topics, nmsg>>

Next ==
  \E c \in Clients :
    \/ \E p \in Packets : \E i \in DOMAIN p : Subscribe(c, p, i)
    \/ AddTopicRetained(c)
    \/ LowerQos(c) \/ SendRetained(c) \/ RestoreQos(c)
    \/ \E f \in Filters : processUnsubscribe(c, f)
    \/ onPublish(c)
    \/ Disconnect(c) \/ unSubAll(c) \/ Connect(c)

Spec == Init /\ [][Next]_vars

-----------------------------------------------------------------------------
(* Properties.                                                             *)

Steps == {"idle", "offline", "subscribe", "retained", "lower", "send", "restore",
          "match", "lookSend", "stop"}

\* Type invariant: a node's parent is a node (the trees of memtopics.go are trees),
\* message objects are named by messages, and every connection is at some step.
TypeOK ==
  /\ \A n \in DOMAIN snodes : Prefixes(n) \subseteq DOMAIN snodes
  /\ \A n \in DOMAIN snodes : snodes[n] \in [Clients -> {NoQos} \cup 0..2]
  /\ \A n \in DOMAIN rnodes : Prefixes(n) \subseteq DOMAIN rnodes
  /\ \A n \in DOMAIN rnodes : rnodes[n] \in 0..MaxMsgs
  /\ rmsg \in [1..MaxMsgs -> [msg : 0..MaxMsgs, qos : 0..2]]
  /\ rstore \in [TopicNames -> 0..MaxMsgs]
  /\ topics \in [Clients -> [Filters -> [qos : {NoQos} \cup 0..2, handling : 0..2]]]
  /\ \A c \in Clients : at[c].step \in Steps /\ at[c].subs \subseteq Clients
  /\ nmsg \in 0..MaxMsgs
  /\ delivered \in [Clients -> SUBSET (1..MaxMsgs)]

\* What MQTT means by a filter that matches a topic, where no level is empty.
Matches(f, t) ==
  LET n == IF f[Len(f)] = "#" THEN Len(f) - 1 ELSE Len(f) IN
  /\ IF n < Len(f) THEN Len(t) >= n ELSE Len(t) = n
  /\ \A i \in 1..n : f[i] \in {"+", t[i]}

\* smatch over the tree that sinsert and sremove left finds, for every topic, exactly
\* the subscriptions that match among those in the sessions of the clients, each once
\* and with the lower QoS: none is lost when another is removed, and none outlives its
\* connection, whether that ended normally or over a refused filter.
Routed ==
  \A c \in Clients, t \in TopicNames :
    at[c].step # "retained" =>
      {<<s.node, s.qos>> : s \in {r \in SubscribersOf(t) : r.sub = c}}
        = {<<f, IF topics[c][f].qos < PubQos THEN topics[c][f].qos ELSE PubQos>> :
             f \in {g \in Filters : topics[c][g] # NoSub /\ Matches(g, t)}}

\* sremove leaves no dead branches: every node has a subscriber at it or below, or is
\* on the way to the wrong level of a filter that sinsert refused.
NoDeadBranches ==
  \A n \in DOMAIN snodes \ {<<>>} :
    \/ \E d \in Below(DOMAIN snodes, n) : snodes[d] # Nobody
    \/ \E f \in Filters : Refused(f) /\ n \in Prefixes(SubSeq(path(f), 1, GoodLevels(f)))

\* Topics with no topic below them.
Leaves == {t \in TopicNames : \A u \in TopicNames : t \in Prefixes(u) => u = t}

\* rmatch gives a filter the messages that the store holds for the topics it matches:
\* never an older or a cleared one, and, for topics with no topic below them, all.
RetainedAgrees ==
  \A f \in {g \in Filters : ~Refused(g)} :
    LET found == {rmsg[o].msg : o \in rmatch(f)} IN
    /\ found \subseteq {rstore[t] : t \in {u \in TopicNames : Matches(f, u)}}
    /\ \A t \in Leaves : rstore[t] # NoMsg /\ Matches(f, t) => rstore[t] \in found

\* A client that subscribed with retain handling 0 has, once all handlers are done,
\* the current retained message of every topic that its filter matches, however
\* processSubscribe interleaved with the onPublish of others: live or as retained.
RetainedOrLive ==
  (\A c \in Clients : at[c].step \in {"idle", "offline"}) =>
    \A c \in Clients, t \in Leaves :
      (rstore[t] # NoMsg
         /\ \E f \in Filters : topics[c][f] # NoSub /\ topics[c][f].handling = 0 /\ Matches(f, t))
        => rstore[t] \in delivered[c]
=============================================================================
