------------------------------- MODULE Share --------------------------------
(***************************************************************************)
(* Shared subscriptions ($share/group/filter) in a cluster connected by    *)
(* getty sessions: the tree of shared subscriptions of a node              *)
(* (topics/share/memtopics.go), the nodes that serve a group and their     *)
(* weights (topic_map_node/tmn.go, cluster_share_topic.go), the handlers   *)
(* that keep both (process.go processSubscribe, processUnsubscribe,        *)
(* processToCluster), the way of a message to one member of each group     *)
(* (sendShareToCluster, ClusterInToPubShare) and the messages between the  *)
(* nodes (static_getty).                                                   *)
(*                                                                         *)
(* A node sends in goroutines of one pool, over several sessions, and      *)
(* handles what arrives in goroutines of another: messages between two     *)
(* nodes overtake each other, and one whose session is closed is dropped.  *)
(*                                                                         *)
(* Every message published has the same topic, and every filter of Filters *)
(* matches it; which filters match is the subject of Topics.               *)
(***************************************************************************)
EXTENDS Integers, FiniteSets, Bags

CONSTANTS
  Nodes,        \* nodes of the cluster
  Clients,      \* subscribing clients
  NodeOf,       \* the node each client connects to
  Persistent,   \* clients whose sessions have an expiry interval
  Filters,      \* topic filters that match the published topic
  Groups,       \* share names
  Messages,     \* messages that may be published
  MaxOps        \* bound: SUBSCRIBE and UNSUBSCRIBE packets

ASSUME ShareAssumption ==
  /\ NodeOf \in [Clients -> Nodes]
  /\ Persistent \subseteq Clients
  /\ IsFiniteSet(Clients) /\ IsFiniteSet(Nodes)
  /\ MaxOps \in Nat

Subs == Filters \X Groups

VARIABLES
  clusterOpen,  \* service.clusterOpen, a setting of the cluster
  conn,         \* conn[c]: "down", "up", "announce" (between the answer and
                \* processToCluster of the packet in op[c]) or "failed"
  op,           \* op[c]: the packet the client's processor is at
  sess,         \* sess[c]: the shared topics of the client's session
  tree,         \* tree[s]: subscribers of s in the trees of their nodes
  tmn,          \* tmn[n][s][k]: the weight of node k for s as node n knows it, 0 if absent
  net,          \* bag of SUBSCRIBEs and UNSUBSCRIBEs between nodes
  shared,       \* messages on the way to a node: for one group each
  published,    \* messages published so far
  delivered,    \* who was given which message, for which subscription
  ops,          \* number of packets so far
  unknown       \* has a node missed a SUBSCRIBE, or was one taken back that was never made

vars == <<clusterOpen, conn, op, sess, tree, tmn, net, shared, published, delivered, ops,
          unknown>>

NoOp == [type |-> "none", sub |-> <<>>]

Init ==
  /\ clusterOpen \in BOOLEAN
  /\ conn = [c \in Clients |-> "down"]
  /\ op = [c \in Clients |-> NoOp]
  /\ sess = [c \in Clients |-> {}]
  /\ tree = [s \in Subs |-> {}]
  /\ tmn = [n \in Nodes |-> [s \in Subs |-> [k \in Nodes |-> 0]]]
  /\ net = EmptyBag
  /\ shared = {} /\ published = {} /\ delivered = {}
  /\ ops = 0
  /\ unknown = FALSE

msgVars == <<shared, published, delivered>>

-----------------------------------------------------------------------------
(* The weights of the nodes.                                               *)

\* sinsert of tmn.go, with num = 1: one more for node k.
AddTopicMapNode(w, s, k) == [w EXCEPT ![s][k] = @ + 1]

\* Mutant of RemoveTopicMapNode: the node goes whatever its weight.
RemoveTopicMapNode_Node(w, s, k) == [w EXCEPT ![s][k] = 0]

\* sremove of tmn.go: one less, and at 0 the node leaves the list; a node that is not
\* in the list is an error the callers only log.
RemoveTopicMapNode(w, s, k) == [w EXCEPT ![s][k] = IF @ = 0 THEN 0 ELSE @ - 1]

Counted(w, type, s, k) ==
  IF type = "sub" THEN AddTopicMapNode(w, s, k) ELSE RemoveTopicMapNode(w, s, k)

\* Nodes that matchNode of node n may pick for s: the draw is weighted, so any of them.
matchNode(n, s) == {k \in Nodes : tmn[n][s][k] > 0}

Served(n) == {s \in Subs : matchNode(n, s) # {}}

\* Mutant of GetShareNames: the node of each subscription, not of each share name.
GetShareNames_PerFilter(n) ==
  {{<<s[2], r[s]>> : s \in Served(n)} : r \in {f \in [Served(n) -> Nodes] :
                                                 \A s \in Served(n) : f[s] \in matchNode(n, s)}}

\* What GetShareNames may return: a map from share name to node.  When several filters
\* of a share name match, the one the trees' iteration came to last decides.
GetShareNames(n) ==
  LET names == {s[2] : s \in Served(n)}
  IN  {{<<g, r[g]>> : g \in names} :
         r \in {f \in [names -> Nodes] :
                  \A g \in names : \E s \in Served(n) : s[2] = g /\ f[g] \in matchNode(n, s)}}

-----------------------------------------------------------------------------
(* The subscribing clients.                                                *)

\* sinsert and sremove of the share tree: a subscriber once, however often it comes.
sinsert(t, c, subs) == [s \in Subs |-> IF s \in subs THEN t[s] \cup {c} ELSE t[s]]
sremove(t, c, subs) == [s \in Subs |-> IF s \in subs THEN t[s] \ {c} ELSE t[s]]

\* A connection starts: what its session has is subscribed on the node, but not
\* announced to the cluster.
Connect(c) ==
  LET kept == IF c \in Persistent THEN sess[c] ELSE {} IN
  /\ conn[c] = "down"
  /\ conn' = [conn EXCEPT ![c] = "up"]
  /\ sess' = [sess EXCEPT ![c] = kept]
  /\ tree' = sinsert(tree, c, kept)
  /\ UNCHANGED <<clusterOpen, op, tmn, net, msgVars, ops, unknown>>

\* SUBSCRIBE, up to its SUBACK.
processSubscribe(c, s) ==
  /\ conn[c] = "up" /\ ops < MaxOps
  /\ tree' = sinsert(tree, c, {s})
  /\ sess' = [sess EXCEPT ![c] = @ \cup {s}]
  /\ op' = [op EXCEPT ![c] = [type |-> "sub", sub |-> s]]
  /\ conn' = [conn EXCEPT ![c] = "announce"]
  /\ ops' = ops + 1
  /\ UNCHANGED <<clusterOpen, tmn, net, msgVars, unknown>>

\* UNSUBSCRIBE, up to its UNSUBACK; one of a topic that is not subscribed goes on too.
processUnsubscribe(c, s) ==
  /\ conn[c] = "up" /\ ops < MaxOps
  /\ tree' = sremove(tree, c, {s})
  /\ sess' = [sess EXCEPT ![c] = @ \ {s}]
  /\ op' = [op EXCEPT ![c] = [type |-> "unsub", sub |-> s]]
  /\ conn' = [conn EXCEPT ![c] = "announce"]
  /\ ops' = ops + 1
  /\ unknown' = (unknown \/ c \notin tree[s])
  /\ UNCHANGED <<clusterOpen, tmn, net, msgVars>>

\* processToCluster counts on the node itself and submits the packet for the others.
processToCluster(c) ==
  LET n == NodeOf[c]
      o == op[c]
  IN
  /\ conn[c] = "announce"
  /\ conn' = [conn EXCEPT ![c] = "up"]
  /\ op' = [op EXCEPT ![c] = NoOp]
  /\ IF clusterOpen
     THEN /\ tmn' = [tmn EXCEPT ![n] = Counted(@, o.type, o.sub, n)]
          /\ net' = net (+) SetToBag({[type |-> o.type, sub |-> o.sub, from |-> n, to |-> k] :
                                        k \in Nodes \ {n}})
     ELSE UNCHANGED <<tmn, net>>
  /\ UNCHANGED <<clusterOpen, sess, tree, msgVars, ops, unknown>>

\* The answer cannot be written: the handler returns before processToCluster, though
\* tree and session are changed, and the service stops.
AnswerFails(c) ==
  /\ conn[c] = "announce"
  /\ conn' = [conn EXCEPT ![c] = "failed"]
  /\ op' = [op EXCEPT ![c] = NoOp]
  /\ unknown' = (unknown \/ (op[c].type = "sub" /\ c \in Persistent))
  /\ UNCHANGED <<clusterOpen, sess, tree, tmn, net, msgVars, ops>>

\* The connection ends and unSubAll takes the client out of the tree of its node; the
\* weights are not touched.
stop(c) ==
  /\ conn[c] \in {"up", "failed"}
  /\ conn' = [conn EXCEPT ![c] = "down"]
  /\ tree' = sremove(tree, c, sess[c])
  /\ UNCHANGED <<clusterOpen, op, sess, tmn, net, msgVars, ops, unknown>>

-----------------------------------------------------------------------------
(* Between the nodes.                                                      *)

\* OnMessage of a SUBSCRIBE or UNSUBSCRIBE of another node.
OnMessage(e) ==
  /\ BagIn(e, net)
  /\ net' = net (-) SetToBag({e})
  /\ tmn' = [tmn EXCEPT ![e.to] = Counted(@, e.type, e.sub, e.from)]
  /\ UNCHANGED <<clusterOpen, conn, op, sess, tree, msgVars, ops, unknown>>

\* The session SendAllNode took from the pool is closed: the message is dropped.
SendFails(e) ==
  /\ BagIn(e, net)
  /\ net' = net (-) SetToBag({e})
  /\ unknown' = (unknown \/ e.type = "sub")
  /\ UNCHANGED <<clusterOpen, conn, op, sess, tree, tmn, msgVars, ops>>

-----------------------------------------------------------------------------
(* A message goes to one member of each group.                             *)

\* Members of s on node n.
Members(n, s) == {c \in tree[s] : NodeOf[c] = n}

\* Whom smatch and matchQos of node n may pick for a share name: of each filter one.
matchQos(n, g) ==
  LET here == {s \in Subs : s[2] = g /\ Members(n, s) # {}}
  IN  {r \in [here -> Clients] : \A s \in here : r[s] \in Members(n, s)}

\* What the deliveries of pick add to delivered.
Given(m, pick) == {<<m, s, pick[s]>> : s \in DOMAIN pick}

\* A client of node n publishes m: without a cluster pubFnPlus serves all the groups of
\* the node, with one the share names are looked up and m sent to one node for each.
sendShareToCluster(n, m) ==
  /\ m \notin published
  /\ published' = published \cup {m}
  /\ \/ /\ ~clusterOpen
        /\ \E pick \in [Groups -> UNION {matchQos(n, g) : g \in Groups}] :
             /\ \A g \in Groups : pick[g] \in matchQos(n, g)
             /\ delivered' = delivered \cup UNION {Given(m, pick[g]) : g \in Groups}
        /\ UNCHANGED shared
     \/ /\ clusterOpen
        /\ \E names \in GetShareNames(n) :
             shared' = shared \cup {[msg |-> m, group |-> e[1], node |-> e[2]] : e \in names}
        /\ UNCHANGED delivered
  /\ UNCHANGED <<clusterOpen, conn, op, sess, tree, tmn, net, ops, unknown>>

\* The node chosen serves the group: pubFn at home, ClusterInToPubShare on another node.
pubFn(d) ==
  /\ d \in shared
  /\ shared' = shared \ {d}
  /\ \E pick \in matchQos(d.node, d.group) : delivered' = delivered \cup Given(d.msg, pick)
  /\ UNCHANGED <<clusterOpen, conn, op, sess, tree, tmn, net, published, ops, unknown>>

\* SendOneNode finds its session closed: the message is dropped.
SendOneFails(d) ==
  /\ d \in shared
  /\ shared' = shared \ {d}
  /\ UNCHANGED <<clusterOpen, conn, op, sess, tree, tmn, net, published, delivered, ops,
                 unknown>>

Next ==
  \/ \E c \in Clients :
       \/ Connect(c) \/ processToCluster(c) \/ AnswerFails(c) \/ stop(c)
       \/ \E s \in Subs : processSubscribe(c, s) \/ processUnsubscribe(c, s)
  \/ \E e \in BagToSet(net) : OnMessage(e) \/ SendFails(e)
  \/ \E n \in Nodes, m \in Messages : sendShareToCluster(n, m)
  \/ \E d \in shared : pubFn(d) \/ SendOneFails(d)

Spec == Init /\ [][Next]_vars

-----------------------------------------------------------------------------
\* A shared subscription is there to give each message to one of its members: however
\* the nodes' weights, trees and messages stand to each other, and when the share name
\* has several filters, no subscription is served twice.
GroupOnce ==
  \A d, e \in delivered : d[1] = e[1] /\ d[2] = e[2] => d[3] = e[3]

Quiet == net = EmptyBag /\ \A c \in Clients : conn[c] \notin {"announce", "failed"}

\* Once all announcements have arrived every node knows of all the subscribers there
\* are, and draws their node with at least their number: over reordered messages,
\* repeated SUBSCRIBEs and clients that come and go.  Left out are a SUBSCRIBE that was
\* dropped, or not announced because its SUBACK failed while the session keeps it, and
\* an UNSUBSCRIBE of what was not subscribed.
SubscribersKnown ==
  clusterOpen /\ Quiet /\ ~unknown =>
    \A n, k \in Nodes, s \in Subs : tmn[n][s][k] >= Cardinality(Members(k, s))
=============================================================================
