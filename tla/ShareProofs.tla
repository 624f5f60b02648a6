---------------------------- MODULE ShareProofs ----------------------------
(***************************************************************************)
(* Proofs about Share, for every cluster, set of clients and filters.      *)
(*                                                                         *)
(* That a subscription is served once does not depend on what the nodes    *)
(* know of each other: a message goes to one node for each share name, and *)
(* what is on its way has not been delivered yet (OnTheWay).               *)
(*                                                                         *)
(* That all nodes know of all subscribers is a matter of counting: what a  *)
(* node has counted, what is on its way to it and what is about to be      *)
(* announced make up for the subscriptions that last (Balance).            *)
(***************************************************************************)
EXTENDS Share, FiniteSetTheorems, TLAPS

\* A message is on its way to one node for each share name, and no subscription under
\* that share name was served with it.
OnTheWay ==
  /\ \A d \in shared : d.msg \in published
  /\ \A d, e \in shared : d.msg = e.msg /\ d.group = e.group => d = e
  /\ \A d \in shared, t \in delivered : t[1] = d.msg => t[2][2] # d.group

\* Only what was published is delivered.
OnlyPublished == \A t \in delivered : t[1] \in published

IndInv ==
  /\ OnTheWay
  /\ OnlyPublished
  /\ GroupOnce

-----------------------------------------------------------------------------
\* The picks of one share name serve only its subscriptions, each once.
LEMMA GivenFacts ==
  ASSUME NEW n, NEW g, NEW m, NEW pick \in matchQos(n, g)
  PROVE  /\ \A t \in Given(m, pick) : t[1] = m /\ t[2][2] = g
         /\ \A t, u \in Given(m, pick) : t[2] = u[2] => t[3] = u[3]
  <1>1. \A s \in DOMAIN pick : s[2] = g
    BY DEF matchQos
  <1>2. \A t \in Given(m, pick) : \E s \in DOMAIN pick : t = <<m, s, pick[s]>>
    BY DEF Given
  <1> QED
    BY <1>1, <1>2

\* A step that leaves the messages alone.
LEMMA Frame == ASSUME IndInv, UNCHANGED msgVars PROVE IndInv'
  BY DEF IndInv, OnTheWay, OnlyPublished, GroupOnce, msgVars

\* Publishing without a cluster: each share name is served on the node itself.
LEMMA PublishAlone ==
  ASSUME IndInv, NEW n \in Nodes, NEW m \in Messages, sendShareToCluster(n, m), ~clusterOpen
  PROVE  IndInv'
  <1>1. m \notin published /\ published' = published \cup {m} /\ shared' = shared
    BY DEF sendShareToCluster
  <1>2. PICK pick \in [Groups -> UNION {matchQos(n, g) : g \in Groups}] :
          /\ \A g \in Groups : pick[g] \in matchQos(n, g)
          /\ delivered' = delivered \cup UNION {Given(m, pick[g]) : g \in Groups}
    BY DEF sendShareToCluster
  <1> DEFINE new == UNION {Given(m, pick[g]) : g \in Groups}
  <1>3. \A t \in new : \E g \in Groups : t \in Given(m, pick[g]) /\ t[1] = m /\ t[2][2] = g
    BY <1>2, GivenFacts
  <1>4. \A t, u \in new : t[2] = u[2] => t[3] = u[3]
    <2> SUFFICES ASSUME NEW t \in new, NEW u \in new, t[2] = u[2] PROVE t[3] = u[3]
      OBVIOUS
    <2>1. PICK g \in Groups : t \in Given(m, pick[g]) /\ t[2][2] = g
      BY <1>3
    <2>2. PICK h \in Groups : u \in Given(m, pick[h]) /\ u[2][2] = h
      BY <1>3
    <2>3. g = h
      BY <2>1, <2>2
    <2> QED
      BY <1>2, <2>1, <2>2, <2>3, GivenFacts
  <1>5. delivered' = delivered \cup new
    BY <1>2
  <1> HIDE DEF new
  <1>6. OnTheWay'
    BY <1>1, <1>3, <1>5 DEF IndInv, OnTheWay
  <1>7. OnlyPublished'
    BY <1>1, <1>3, <1>5 DEF IndInv, OnlyPublished
  <1>8. GroupOnce'
    BY <1>1, <1>3, <1>4, <1>5 DEF IndInv, OnlyPublished, GroupOnce
  <1> QED
    BY <1>6, <1>7, <1>8 DEF IndInv

\* Publishing in a cluster: the message is sent to one node for each share name.
LEMMA PublishCluster ==
  ASSUME IndInv, NEW n \in Nodes, NEW m \in Messages, sendShareToCluster(n, m), clusterOpen
  PROVE  IndInv'
  <1>1. m \notin published /\ published' = published \cup {m} /\ delivered' = delivered
    BY DEF sendShareToCluster
  <1>2. PICK names \in GetShareNames(n) :
          shared' = shared \cup {[msg |-> m, group |-> e[1], node |-> e[2]] : e \in names}
    BY DEF sendShareToCluster
  <1>3. \A e, f \in names : e[1] = f[1] => e = f
    <2> DEFINE G == {s[2] : s \in Served(n)}
    <2>1. PICK r \in [G -> Nodes] : names = {<<g, r[g]>> : g \in G}
      BY DEF GetShareNames
    <2> HIDE DEF G
    <2> QED
      BY <2>1
  <1> DEFINE new == {[msg |-> m, group |-> e[1], node |-> e[2]] : e \in names}
  <1>4. /\ \A d \in new : d.msg = m
        /\ \A d, e \in new : d.group = e.group => d = e
    BY <1>3
  <1>5. shared' = shared \cup new
    BY <1>2
  <1> HIDE DEF new
  <1>6. OnTheWay'
    BY <1>1, <1>4, <1>5 DEF IndInv, OnTheWay, OnlyPublished
  <1>7. OnlyPublished' /\ GroupOnce'
    BY <1>1 DEF IndInv, OnlyPublished, GroupOnce
  <1> QED
    BY <1>6, <1>7 DEF IndInv

\* A node serves a share name: what was on its way is delivered and gone.
LEMMA pubFnStep ==
  ASSUME IndInv, NEW d \in shared, pubFn(d)
  PROVE  IndInv'
  <1>1. shared' = shared \ {d} /\ published' = published
    BY DEF pubFn
  <1>2. PICK pick \in matchQos(d.node, d.group) : delivered' = delivered \cup Given(d.msg, pick)
    BY DEF pubFn
  <1>3. /\ \A t \in Given(d.msg, pick) : t[1] = d.msg /\ t[2][2] = d.group
        /\ \A t, u \in Given(d.msg, pick) : t[2] = u[2] => t[3] = u[3]
    BY GivenFacts
  <1>4. OnTheWay'
    BY <1>1, <1>2, <1>3 DEF IndInv, OnTheWay
  <1>5. OnlyPublished'
    BY <1>1, <1>2, <1>3 DEF IndInv, OnTheWay, OnlyPublished
  <1>6. GroupOnce'
    BY <1>2, <1>3 DEF IndInv, OnTheWay, GroupOnce
  <1> QED
    BY <1>4, <1>5, <1>6 DEF IndInv

\* A message that is dropped on its way is served to nobody.
LEMMA SendOneFailsStep ==
  ASSUME IndInv, NEW d \in shared, SendOneFails(d)
  PROVE  IndInv'
  BY DEF SendOneFails, IndInv, OnTheWay, OnlyPublished, GroupOnce

\* Every step keeps the invariant.
LEMMA NextIndInv == IndInv /\ [Next]_vars => IndInv'
  <1> SUFFICES ASSUME IndInv, [Next]_vars PROVE IndInv'
    OBVIOUS
  <1>1. ASSUME NEW c \in Clients,
               Connect(c) \/ processToCluster(c) \/ AnswerFails(c) \/ stop(c)
        PROVE  IndInv'
    BY <1>1, Frame DEF Connect, processToCluster, AnswerFails, stop
  <1>2. ASSUME NEW c \in Clients, NEW s \in Subs, processSubscribe(c, s) \/ processUnsubscribe(c, s)
        PROVE  IndInv'
    BY <1>2, Frame DEF processSubscribe, processUnsubscribe
  <1>3. ASSUME NEW e \in BagToSet(net), OnMessage(e) \/ SendFails(e) PROVE IndInv'
    BY <1>3, Frame DEF OnMessage, SendFails
  <1>4. ASSUME NEW n \in Nodes, NEW m \in Messages, sendShareToCluster(n, m) PROVE IndInv'
    BY <1>4, PublishAlone, PublishCluster
  <1>5. ASSUME NEW d \in shared, pubFn(d) \/ SendOneFails(d) PROVE IndInv'
    BY <1>5, pubFnStep, SendOneFailsStep
  <1>6. CASE UNCHANGED vars
    BY <1>6, Frame DEF vars, msgVars
  <1> QED
    BY <1>1, <1>2, <1>3, <1>4, <1>5, <1>6 DEF Next

-----------------------------------------------------------------------------
\* A shared subscription gives a message to one of its members, whatever the nodes of
\* the cluster know of each other: GetShareNames asks one node for each share name and
\* matchQos takes one member for each filter.
THEOREM GroupCorrect == Spec => []GroupOnce
  <1>1. Init => IndInv
    BY DEF Init, IndInv, OnTheWay, OnlyPublished, GroupOnce
  <1>2. IndInv => GroupOnce
    BY DEF IndInv
  <1> QED
    BY <1>1, <1>2, NextIndInv, PTL DEF Spec

-----------------------------------------------------------------------------
(* What the nodes know of each other.                                      *)

Announcement == [type : {"sub", "unsub"}, sub : Subs, from : Nodes, to : Nodes]

\* What is on the way from node k to node n about s.
Ann(type, s, k, n) == [type |-> type, sub |-> s, from |-> k, to |-> n]

\* The types; the tree has only what the sessions of connected clients have, and what is
\* about to be announced as subscribed is in the session.
ClientOK(c) ==
  /\ \A s \in Subs : c \in tree[s] => conn[c] # "down" /\ s \in sess[c]
  /\ conn[c] = "announce" => /\ op[c] \in [type : {"sub", "unsub"}, sub : Subs]
                             /\ op[c].type = "sub" => op[c].sub \in sess[c]

TypeInv ==
  /\ conn \in [Clients -> {"down", "up", "announce", "failed"}]
  /\ DOMAIN op = Clients
  /\ sess \in [Clients -> SUBSET Subs]
  /\ tree \in [Subs -> SUBSET Clients]
  /\ tmn \in [Nodes -> [Subs -> [Nodes -> Nat]]]
  /\ IsABag(net) /\ DOMAIN net \subseteq Announcement
  /\ unknown \in BOOLEAN
  /\ \A c \in Clients : ClientOK(c)

\* A subscription lasts as long as the connection or, of a persistent client, the session.
Owned(k, s) ==
  {c \in Clients : NodeOf[c] = k /\ s \in sess[c]
                   /\ (c \in Persistent \/ conn[c] \in {"up", "announce"})}

\* Clients of node k whose packet about s is answered and not yet announced.
Pending(type, k, s) ==
  {c \in Clients : NodeOf[c] = k /\ conn[c] = "announce" /\ op[c].type = type /\ op[c].sub = s}

\* How often e is in a bag.
Copies(b, e) == IF e \in DOMAIN b THEN b[e] ELSE 0

\* What node n knows or will know of the subscribers of s on node k.
Balance(n, k, s) ==
  tmn[n][s][k] + Copies(net, Ann("sub", s, k, n)) + Cardinality(Pending("sub", k, s))
    >= Cardinality(Owned(k, s)) + Copies(net, Ann("unsub", s, k, n))
       + Cardinality(Pending("unsub", k, s))

KnownInv ==
  clusterOpen /\ ~unknown => \A n, k \in Nodes, s \in Subs : Balance(n, k, s)

\* A bag with one more of each element of a set.
LEMMA BagSend ==
  ASSUME NEW b, IsABag(b), NEW S
  PROVE  LET d == b (+) SetToBag(S) IN
         /\ IsABag(d) /\ DOMAIN d = DOMAIN b \cup S
         /\ \A e : Copies(d, e) = Copies(b, e) + (IF e \in S THEN 1 ELSE 0)
  <1> DEFINE a == SetToBag(S)
             d == [e \in DOMAIN b \cup DOMAIN a |->
                     (IF e \in DOMAIN b THEN b[e] ELSE 0) + (IF e \in DOMAIN a THEN a[e] ELSE 0)]
  <1>1. b (+) a = d
    BY Zenon DEF (+)
  <1>2. DOMAIN a = S /\ \A e \in S : a[e] = 1
    BY DEF SetToBag
  <1>3. \A e \in DOMAIN b : b[e] \in Nat /\ b[e] > 0
    BY DEF IsABag
  <1> HIDE DEF a
  <1>4. DOMAIN d = DOMAIN b \cup S
    BY <1>2
  <1>5. \A e \in DOMAIN b \cup S :
          d[e] = (IF e \in DOMAIN b THEN b[e] ELSE 0) + (IF e \in S THEN 1 ELSE 0)
    BY <1>2
  <1>6. d = [e \in DOMAIN d |-> d[e]]
    BY <1>4
  <1> HIDE DEF d
  <1>7. \A e \in DOMAIN d : d[e] \in Nat /\ d[e] > 0
    BY <1>3, <1>4, <1>5
  <1>8. IsABag(d)
    BY <1>6, <1>7 DEF IsABag
  <1>9. \A e : Copies(d, e) = Copies(b, e) + (IF e \in S THEN 1 ELSE 0)
    BY <1>3, <1>4, <1>5 DEF Copies
  <1> QED
    BY <1>1, <1>4, <1>8, <1>9 DEF a

\* A bag with one less of an element.
LEMMA BagTake ==
  ASSUME NEW b, IsABag(b), NEW x \in DOMAIN b
  PROVE  LET d == b (-) SetToBag({x}) IN
         /\ IsABag(d) /\ DOMAIN d \subseteq DOMAIN b
         /\ \A e : Copies(d, e) = Copies(b, e) - (IF e = x THEN 1 ELSE 0)
  <1> DEFINE a == SetToBag({x})
             f == [e \in DOMAIN b |-> IF e \in DOMAIN a THEN b[e] - a[e] ELSE b[e]]
             D == {e \in DOMAIN f : f[e] > 0}
             d == [e \in D |-> f[e]]
  <1>1. b (-) a = d
    BY Zenon DEF (-)
  <1>2. DOMAIN a = {x} /\ a[x] = 1
    BY DEF SetToBag
  <1>3. \A e \in DOMAIN b : b[e] \in Nat /\ b[e] > 0
    BY DEF IsABag
  <1> HIDE DEF a
  <1>4. DOMAIN f = DOMAIN b /\ \A e \in DOMAIN b : f[e] = IF e = x THEN b[e] - 1 ELSE b[e]
    BY <1>2
  <1> HIDE DEF f
  <1>5. /\ D \subseteq DOMAIN b /\ \A e \in DOMAIN b : e \in D <=> f[e] > 0
        /\ \A e \in DOMAIN b : f[e] \in Nat
    BY <1>3, <1>4
  <1> HIDE DEF D
  <1>6. DOMAIN d = D /\ \A e \in D : d[e] = f[e]
    OBVIOUS
  <1>7. IsABag(d)
    BY <1>5 DEF IsABag
  <1> HIDE DEF d
  <1>8. \A e : Copies(d, e) = Copies(b, e) - (IF e = x THEN 1 ELSE 0)
    BY <1>3, <1>4, <1>5, <1>6 DEF Copies
  <1> QED
    BY <1>1, <1>5, <1>6, <1>7, <1>8 DEF a

\* The numbers that are compared.
LEMMA Numbers ==
  ASSUME TypeInv, NEW n \in Nodes, NEW k \in Nodes, NEW s \in Subs
  PROVE  /\ tmn[n][s][k] \in Nat
         /\ \A e : Copies(net, e) \in Nat
         /\ IsFiniteSet(Owned(k, s)) /\ Cardinality(Owned(k, s)) \in Nat
         /\ \A type : /\ IsFiniteSet(Pending(type, k, s))
                      /\ Cardinality(Pending(type, k, s)) \in Nat
  <1>1. tmn[n][s][k] \in Nat
    BY DEF TypeInv
  <1>2. \A e : Copies(net, e) \in Nat
    BY DEF TypeInv, IsABag, Copies
  <1>3. ASSUME NEW S \in SUBSET Clients PROVE IsFiniteSet(S) /\ Cardinality(S) \in Nat
    <2>1. IsFiniteSet(S)
      BY ShareAssumption, FS_Subset
    <2> QED
      BY <2>1, FS_CardinalityType
  <1>4. Owned(k, s) \in SUBSET Clients /\ \A type : Pending(type, k, s) \in SUBSET Clients
    BY DEF Owned, Pending
  <1> QED
    BY <1>1, <1>2, <1>3, <1>4

\* The trees after sinsert and sremove.
LEMMA TreeFacts ==
  ASSUME NEW t \in [Subs -> SUBSET Clients], NEW c \in Clients, NEW S
  PROVE  /\ sinsert(t, c, S) \in [Subs -> SUBSET Clients]
         /\ sremove(t, c, S) \in [Subs -> SUBSET Clients]
         /\ \A s \in Subs : \A d : d \in sinsert(t, c, S)[s] <=> d \in t[s] \/ (d = c /\ s \in S)
         /\ \A s \in Subs : \A d : d \in sremove(t, c, S)[s] <=> d \in t[s] /\ ~(d = c /\ s \in S)
  BY DEF sinsert, sremove

\* The step of one client leaves the others in order.
LEMMA OneClient ==
  ASSUME TypeInv, NEW c \in Clients, ClientOK(c)',
         \A d \in Clients : d # c => /\ conn'[d] = conn[d] /\ op'[d] = op[d] /\ sess'[d] = sess[d]
                                     /\ \A s \in Subs : d \in tree'[s] => d \in tree[s]
  PROVE  \A d \in Clients : ClientOK(d)'
  <1>1. ASSUME NEW d \in Clients, d # c PROVE ClientOK(d)'
    <2>1. /\ conn'[d] = conn[d] /\ op'[d] = op[d] /\ sess'[d] = sess[d]
          /\ \A s \in Subs : d \in tree'[s] => d \in tree[s]
      BY <1>1
    <2>2. ClientOK(d)
      BY DEF TypeInv
    <2> QED
      BY <2>1, <2>2 DEF ClientOK
  <1> QED
    BY <1>1

\* What is counted stays a number.
LEMMA CountedType ==
  ASSUME NEW w \in [Subs -> [Nodes -> Nat]], NEW s \in Subs, NEW k \in Nodes, NEW type
  PROVE  /\ Counted(w, type, s, k) \in [Subs -> [Nodes -> Nat]]
         /\ \A r \in Subs, j \in Nodes :
              ~(r = s /\ j = k) => Counted(w, type, s, k)[r][j] = w[r][j]
         /\ type = "sub" => Counted(w, type, s, k)[s][k] = w[s][k] + 1
         /\ type # "sub" => Counted(w, type, s, k)[s][k] >= w[s][k] - 1
  <1> DEFINE a == AddTopicMapNode(w, s, k)
             q == IF w[s][k] = 0 THEN 0 ELSE w[s][k] - 1
             r == RemoveTopicMapNode(w, s, k)
  <1>1. a = [w EXCEPT ![s][k] = w[s][k] + 1]
    BY DEF AddTopicMapNode
  <1>2. r = [w EXCEPT ![s][k] = q]
    BY DEF RemoveTopicMapNode
  <1>3. w[s][k] \in Nat
    OBVIOUS
  <1>4. q \in Nat /\ q >= w[s][k] - 1 /\ w[s][k] + 1 \in Nat
    BY <1>3
  <1>5. Counted(w, type, s, k) = IF type = "sub" THEN a ELSE r
    BY DEF Counted
  <1> HIDE DEF a, r, q
  <1>6. /\ a \in [Subs -> [Nodes -> Nat]] /\ a[s][k] = w[s][k] + 1
        /\ \A g \in Subs, j \in Nodes : ~(g = s /\ j = k) => a[g][j] = w[g][j]
    BY <1>1, <1>4
  <1>7. /\ r \in [Subs -> [Nodes -> Nat]] /\ r[s][k] = q
        /\ \A g \in Subs, j \in Nodes : ~(g = s /\ j = k) => r[g][j] = w[g][j]
    BY <1>2, <1>4
  <1> QED
    BY <1>4, <1>5, <1>6, <1>7

\* What processToCluster does to the weights and to the net.
LEMMA ToCluster ==
  ASSUME TypeInv, NEW c \in Clients, processToCluster(c), clusterOpen
  PROVE  /\ conn[c] = "announce" /\ op[c].type \in {"sub", "unsub"} /\ op[c].sub \in Subs
         /\ NodeOf[c] \in Nodes
         /\ tmn' = [tmn EXCEPT ![NodeOf[c]] =
                      Counted(tmn[NodeOf[c]], op[c].type, op[c].sub, NodeOf[c])]
         /\ tmn' \in [Nodes -> [Subs -> [Nodes -> Nat]]]
         /\ IsABag(net') /\ DOMAIN net' \subseteq Announcement
         /\ \A type, s, k, n :
              Copies(net', Ann(type, s, k, n)) =
                Copies(net, Ann(type, s, k, n))
                + (IF /\ type = op[c].type /\ s = op[c].sub /\ k = NodeOf[c]
                      /\ n \in Nodes \ {NodeOf[c]} THEN 1 ELSE 0)
  <1> DEFINE n0 == NodeOf[c]
             y == op[c].type
             z == op[c].sub
             S == {Ann(y, z, n0, k) : k \in Nodes \ {n0}}
  <1>1. /\ conn[c] = "announce" /\ tmn' = [tmn EXCEPT ![n0] = Counted(@, y, z, n0)]
        /\ net' = net (+) SetToBag(S)
    BY DEF processToCluster, Ann
  <1>2. op[c] \in [type : {"sub", "unsub"}, sub : Subs]
    BY <1>1 DEF TypeInv, ClientOK
  <1>3. y \in {"sub", "unsub"} /\ z \in Subs /\ n0 \in Nodes
    BY <1>2, ShareAssumption
  <1>4. /\ tmn \in [Nodes -> [Subs -> [Nodes -> Nat]]]
        /\ IsABag(net) /\ DOMAIN net \subseteq Announcement
    BY DEF TypeInv
  <1> HIDE DEF n0, y, z
  <1>5. Counted(tmn[n0], y, z, n0) \in [Subs -> [Nodes -> Nat]]
    BY <1>3, <1>4, CountedType
  <1>6. tmn' \in [Nodes -> [Subs -> [Nodes -> Nat]]]
    BY <1>1, <1>4, <1>5
  <1>7. S \subseteq Announcement
    BY <1>3 DEF Ann, Announcement
  <1>8. \A type, s, k, n : Ann(type, s, k, n) \in S <=>
          type = y /\ s = z /\ k = n0 /\ n \in Nodes \ {n0}
    BY DEF Ann
  <1> HIDE DEF S
  <1>9. /\ IsABag(net') /\ DOMAIN net' = DOMAIN net \cup S
        /\ \A e : Copies(net', e) = Copies(net, e) + (IF e \in S THEN 1 ELSE 0)
    <2> DEFINE d == net (+) SetToBag(S)
    <2>1. /\ IsABag(d) /\ DOMAIN d = DOMAIN net \cup S
          /\ \A e : Copies(d, e) = Copies(net, e) + (IF e \in S THEN 1 ELSE 0)
      BY <1>4, BagSend, Zenon
    <2>2. net' = d
      BY <1>1
    <2> HIDE DEF d
    <2> QED
      BY <2>1, <2>2
  <1>10. \A type, s, k, n :
           Copies(net', Ann(type, s, k, n)) =
             Copies(net, Ann(type, s, k, n))
             + (IF type = y /\ s = z /\ k = n0 /\ n \in Nodes \ {n0} THEN 1 ELSE 0)
    BY <1>8, <1>9
  <1> QED
    BY <1>1, <1>3, <1>4, <1>6, <1>7, <1>9, <1>10 DEF n0, y, z

\* What an announcement that arrives, or is dropped, does to the net.
LEMMA Arrives ==
  ASSUME TypeInv, NEW e \in BagToSet(net), net' = net (-) SetToBag({e})
  PROVE  /\ IsABag(net') /\ DOMAIN net' \subseteq Announcement
         /\ e \in Announcement /\ e = Ann(e.type, e.sub, e.from, e.to)
         /\ \A type, s, k, n :
              Copies(net', Ann(type, s, k, n)) =
                Copies(net, Ann(type, s, k, n))
                - (IF type = e.type /\ s = e.sub /\ k = e.from /\ n = e.to THEN 1 ELSE 0)
  <1>1. e \in DOMAIN net /\ e \in Announcement /\ IsABag(net) /\ DOMAIN net \subseteq Announcement
    BY DEF BagToSet, TypeInv
  <1>2. e = Ann(e.type, e.sub, e.from, e.to)
    BY <1>1 DEF Announcement, Ann
  <1>3. \A type, s, k, n : Ann(type, s, k, n) = e <=>
          type = e.type /\ s = e.sub /\ k = e.from /\ n = e.to
    BY <1>2 DEF Ann
  <1>4. /\ IsABag(net') /\ DOMAIN net' \subseteq DOMAIN net
        /\ \A d : Copies(net', d) = Copies(net, d) - (IF d = e THEN 1 ELSE 0)
    BY <1>1, BagTake
  <1>5. \A type, s, k, n :
          Copies(net', Ann(type, s, k, n)) =
            Copies(net, Ann(type, s, k, n))
            - (IF type = e.type /\ s = e.sub /\ k = e.from /\ n = e.to THEN 1 ELSE 0)
    BY <1>3, <1>4
  <1> QED
    BY <1>1, <1>2, <1>4, <1>5

\* Steps that only touch messages.
LEMMA TypeFrame ==
  ASSUME TypeInv, UNCHANGED <<conn, op, sess, tree, tmn, net, unknown>>
  PROVE  TypeInv'
  BY Zenon DEF TypeInv, ClientOK, IsABag

\* What the handlers of a client do to its state.
LEMMA ClientSteps ==
  ASSUME TypeInv, NEW c \in Clients
  PROVE  /\ Connect(c) \/ AnswerFails(c) \/ stop(c) => UNCHANGED <<tmn, net>>
         /\ \A s \in Subs : processSubscribe(c, s) \/ processUnsubscribe(c, s) => UNCHANGED <<tmn, net>>
         /\ processToCluster(c) => /\ tmn' \in [Nodes -> [Subs -> [Nodes -> Nat]]]
                                   /\ IsABag(net') /\ DOMAIN net' \subseteq Announcement
  <1>1. processToCluster(c) => /\ tmn' \in [Nodes -> [Subs -> [Nodes -> Nat]]]
                               /\ IsABag(net') /\ DOMAIN net' \subseteq Announcement
    <2>1. CASE clusterOpen
      BY <2>1, ToCluster
    <2>2. CASE ~clusterOpen
      <3> SUFFICES ASSUME processToCluster(c)
                   PROVE  /\ tmn' \in [Nodes -> [Subs -> [Nodes -> Nat]]]
                          /\ IsABag(net') /\ DOMAIN net' \subseteq Announcement
        OBVIOUS
      <3>1. tmn' = tmn /\ net' = net
        BY <2>2 DEF processToCluster
      <3> QED
        BY <3>1 DEF TypeInv
    <2> QED
      BY <2>1, <2>2
  <1>2. Connect(c) \/ AnswerFails(c) \/ stop(c) => UNCHANGED <<tmn, net>>
    BY DEF Connect, AnswerFails, stop
  <1>3. \A s \in Subs : processSubscribe(c, s) \/ processUnsubscribe(c, s) => UNCHANGED <<tmn, net>>
    BY DEF processSubscribe, processUnsubscribe
  <1> QED
    BY <1>1, <1>2, <1>3

\* The step of a client keeps the types.
LEMMA ClientType ==
  ASSUME TypeInv, NEW c \in Clients,
         tmn' \in [Nodes -> [Subs -> [Nodes -> Nat]]],
         IsABag(net'), DOMAIN net' \subseteq Announcement, unknown' \in BOOLEAN,
         conn' \in [Clients -> {"down", "up", "announce", "failed"}],
         DOMAIN op' = Clients, sess' \in [Clients -> SUBSET Subs],
         tree' \in [Subs -> SUBSET Clients],
         \A d \in Clients : d # c => conn'[d] = conn[d] /\ op'[d] = op[d] /\ sess'[d] = sess[d],
         \A s \in Subs : \A d \in Clients : d # c /\ d \in tree'[s] => d \in tree[s],
         \A s \in Subs : c \in tree'[s] => conn'[c] # "down" /\ s \in sess'[c],
         conn'[c] = "announce" => /\ op'[c] \in [type : {"sub", "unsub"}, sub : Subs]
                                  /\ op'[c].type = "sub" => op'[c].sub \in sess'[c]
  PROVE  TypeInv'
  <1>1. ClientOK(c)'
    BY DEF ClientOK
  <1>2. \A d \in Clients : ClientOK(d)'
    BY <1>1, OneClient
  <1> QED
    BY <1>2 DEF TypeInv

\* How the sets of clients that are counted change with the step of one client.
LEMMA CountChange ==
  ASSUME TypeInv, NEW c \in Clients, NEW k \in Nodes, NEW s \in Subs,
         \A d \in Clients : d # c => conn'[d] = conn[d] /\ op'[d] = op[d] /\ sess'[d] = sess[d]
  PROVE  /\ \A type : Cardinality(Pending(type, k, s)') =
                        Cardinality(Pending(type, k, s))
                        + (IF c \in Pending(type, k, s)' THEN 1 ELSE 0)
                        - (IF c \in Pending(type, k, s) THEN 1 ELSE 0)
         /\ Cardinality(Owned(k, s)') =
              Cardinality(Owned(k, s)) + (IF c \in Owned(k, s)' THEN 1 ELSE 0)
                                       - (IF c \in Owned(k, s) THEN 1 ELSE 0)
  <1>1. ASSUME NEW A \in SUBSET Clients, NEW B \in SUBSET Clients,
               \A d \in Clients : d # c => (d \in B <=> d \in A)
        PROVE  Cardinality(B) = Cardinality(A) + (IF c \in B THEN 1 ELSE 0)
                                               - (IF c \in A THEN 1 ELSE 0)
    <2>1. IsFiniteSet(A) /\ IsFiniteSet(B)
      BY ShareAssumption, FS_Subset
    <2>2. Cardinality(A) \in Nat /\ Cardinality(B) \in Nat
      BY <2>1, FS_CardinalityType
    <2>3. CASE c \in B
      <3>1. B = A \cup {c}
        BY <1>1, <2>3
      <3> QED
        BY <2>1, <2>2, <2>3, <3>1, FS_AddElement
    <2>4. CASE c \notin B
      <3>1. B = A \ {c}
        BY <1>1, <2>4
      <3> QED
        BY <2>1, <2>2, <2>4, <3>1, FS_RemoveElement
    <2> QED
      BY <2>3, <2>4
  <1>2. ASSUME NEW type
        PROVE  /\ Pending(type, k, s) \in SUBSET Clients /\ Pending(type, k, s)' \in SUBSET Clients
               /\ \A d \in Clients : d # c => (d \in Pending(type, k, s)' <=> d \in Pending(type, k, s))
    BY DEF Pending
  <1>3. /\ Owned(k, s) \in SUBSET Clients /\ Owned(k, s)' \in SUBSET Clients
        /\ \A d \in Clients : d # c => (d \in Owned(k, s)' <=> d \in Owned(k, s))
    BY DEF Owned
  <1> QED
    BY <1>1, <1>2, <1>3

\* The handlers, one by one: what becomes of the client, and that the types stay.
LEMMA ConnectFacts ==
  ASSUME TypeInv, NEW c \in Clients, Connect(c)
  PROVE  /\ TypeInv' /\ conn[c] = "down" /\ conn'[c] = "up"
         /\ sess'[c] = IF c \in Persistent THEN sess[c] ELSE {}
         /\ \A d \in Clients : d # c => conn'[d] = conn[d] /\ op'[d] = op[d] /\ sess'[d] = sess[d]
  <1> DEFINE S == IF c \in Persistent THEN sess[c] ELSE {}
  <1>0. /\ conn \in [Clients -> {"down", "up", "announce", "failed"}]
        /\ sess \in [Clients -> SUBSET Subs]
    BY DEF TypeInv
  <1>1. /\ conn[c] = "down" /\ conn' = [conn EXCEPT ![c] = "up"] /\ op' = op
        /\ sess' = [sess EXCEPT ![c] = S] /\ tree' = sinsert(tree, c, S) /\ unknown' = unknown
        /\ tmn' = tmn /\ net' = net
    BY DEF Connect
  <1>2. /\ S \in SUBSET Subs /\ DOMAIN op = Clients /\ tree \in [Subs -> SUBSET Clients]
        /\ tmn \in [Nodes -> [Subs -> [Nodes -> Nat]]] /\ unknown \in BOOLEAN
        /\ IsABag(net) /\ DOMAIN net \subseteq Announcement
    BY DEF TypeInv
  <1>3. \A s \in Subs : c \notin tree[s]
    BY <1>1 DEF TypeInv, ClientOK
  <1> HIDE DEF S
  <1>4. /\ tree' \in [Subs -> SUBSET Clients]
        /\ \A s \in Subs : \A d : d \in tree'[s] <=> d \in tree[s] \/ (d = c /\ s \in S)
    BY <1>1, <1>2, TreeFacts
  <1>5. /\ tmn' \in [Nodes -> [Subs -> [Nodes -> Nat]]] /\ unknown' \in BOOLEAN
        /\ IsABag(net') /\ DOMAIN net' \subseteq Announcement
        /\ DOMAIN op' = Clients /\ op'[c] = op[c] /\ \A d \in Clients : d # c => op'[d] = op[d]
    BY <1>1, <1>2
  <1>6. /\ \A s \in Subs : c \in tree'[s] => s \in S
        /\ \A s \in Subs : \A d \in Clients : d # c /\ d \in tree'[s] => d \in tree[s]
    BY <1>3, <1>4
  <1>7. /\ conn' \in [Clients -> {"down", "up", "announce", "failed"}]
        /\ sess' \in [Clients -> SUBSET Subs]
        /\ conn'[c] = "up" /\ op'[c] = op[c] /\ sess'[c] = S
        /\ \A d \in Clients : d # c => conn'[d] = conn[d] /\ op'[d] = op[d] /\ sess'[d] = sess[d]
    BY <1>1, <1>2, <1>0
  <1>8. TypeInv'
    BY <1>1, <1>2, <1>4, <1>5, <1>6, <1>7, ClientType
  <1> QED
    BY <1>1, <1>7, <1>8 DEF S

\* SUBSCRIBE.
LEMMA SubscribeFacts ==
  ASSUME TypeInv, NEW c \in Clients, NEW t \in Subs, processSubscribe(c, t)
  PROVE  /\ TypeInv' /\ conn[c] = "up" /\ conn'[c] = "announce"
         /\ op'[c] = [type |-> "sub", sub |-> t] /\ sess'[c] = sess[c] \cup {t}
         /\ \A d \in Clients : d # c => conn'[d] = conn[d] /\ op'[d] = op[d] /\ sess'[d] = sess[d]
  <1> DEFINE S == sess[c] \cup {t}
             o == [type |-> "sub", sub |-> t]
  <1>0. /\ conn \in [Clients -> {"down", "up", "announce", "failed"}]
        /\ sess \in [Clients -> SUBSET Subs]
    BY DEF TypeInv
  <1>1. /\ conn[c] = "up" /\ conn' = [conn EXCEPT ![c] = "announce"] /\ op' = [op EXCEPT ![c] = o]
        /\ sess' = [sess EXCEPT ![c] = S] /\ tree' = sinsert(tree, c, {t}) /\ unknown' = unknown
        /\ tmn' = tmn /\ net' = net
    BY DEF processSubscribe
  <1>2. /\ S \in SUBSET Subs /\ DOMAIN op = Clients /\ tree \in [Subs -> SUBSET Clients]
        /\ tmn \in [Nodes -> [Subs -> [Nodes -> Nat]]] /\ unknown \in BOOLEAN
        /\ IsABag(net) /\ DOMAIN net \subseteq Announcement
    BY DEF TypeInv
  <1>3. \A s \in Subs : c \in tree[s] => s \in S
    BY DEF TypeInv, ClientOK
  <1>4. o \in [type : {"sub", "unsub"}, sub : Subs] /\ o.sub \in S
    OBVIOUS
  <1>5. t \in S
    OBVIOUS
  <1> HIDE DEF S, o
  <1>6. /\ tree' \in [Subs -> SUBSET Clients]
        /\ \A s \in Subs : \A d : d \in tree'[s] <=> d \in tree[s] \/ (d = c /\ s \in {t})
    BY <1>1, <1>2, TreeFacts
  <1>7. /\ IsABag(net') /\ DOMAIN op' = Clients /\ op'[c] = o
        /\ \A d \in Clients : d # c => op'[d] = op[d]
    BY <1>1, <1>2
  <1>8. /\ \A s \in Subs : c \in tree'[s] => s \in S
        /\ \A s \in Subs : \A d \in Clients : d # c /\ d \in tree'[s] => d \in tree[s]
    BY <1>3, <1>5, <1>6
  <1>9. /\ conn' \in [Clients -> {"down", "up", "announce", "failed"}]
        /\ sess' \in [Clients -> SUBSET Subs]
        /\ conn'[c] = "announce" /\ op'[c] = o /\ sess'[c] = S
        /\ \A d \in Clients : d # c => conn'[d] = conn[d] /\ op'[d] = op[d] /\ sess'[d] = sess[d]
    BY <1>1, <1>2, <1>0
  <1>10. TypeInv'
    BY <1>1, <1>2, <1>4, <1>6, <1>7, <1>8, <1>9, ClientType
  <1> QED
    BY <1>1, <1>9, <1>10 DEF S, o

\* UNSUBSCRIBE.
LEMMA UnsubscribeFacts ==
  ASSUME TypeInv, NEW c \in Clients, NEW t \in Subs, processUnsubscribe(c, t)
  PROVE  /\ TypeInv' /\ conn[c] = "up" /\ conn'[c] = "announce"
         /\ op'[c] = [type |-> "unsub", sub |-> t] /\ sess'[c] = sess[c] \ {t}
         /\ ~unknown' => ~unknown /\ t \in sess[c]
         /\ \A d \in Clients : d # c => conn'[d] = conn[d] /\ op'[d] = op[d] /\ sess'[d] = sess[d]
  <1> DEFINE S == sess[c] \ {t}
             o == [type |-> "unsub", sub |-> t]
  <1>0. /\ conn \in [Clients -> {"down", "up", "announce", "failed"}]
        /\ sess \in [Clients -> SUBSET Subs]
    BY DEF TypeInv
  <1>1. /\ conn[c] = "up" /\ conn' = [conn EXCEPT ![c] = "announce"] /\ op' = [op EXCEPT ![c] = o]
        /\ sess' = [sess EXCEPT ![c] = S] /\ tree' = sremove(tree, c, {t})
        /\ unknown' = (unknown \/ c \notin tree[t])
        /\ tmn' = tmn /\ net' = net
    BY DEF processUnsubscribe
  <1>2. /\ S \in SUBSET Subs /\ DOMAIN op = Clients /\ tree \in [Subs -> SUBSET Clients]
        /\ tmn \in [Nodes -> [Subs -> [Nodes -> Nat]]] /\ unknown \in BOOLEAN
        /\ IsABag(net) /\ DOMAIN net \subseteq Announcement
    BY DEF TypeInv
  <1>3. \A s \in Subs : c \in tree[s] => s \in sess[c]
    BY DEF TypeInv, ClientOK
  <1>4. o \in [type : {"sub", "unsub"}, sub : Subs] /\ o.type # "sub"
    OBVIOUS
  <1>5. \A s : s \in sess[c] /\ s # t => s \in S
    OBVIOUS
  <1> HIDE DEF S, o
  <1>6. /\ tree' \in [Subs -> SUBSET Clients]
        /\ \A s \in Subs : \A d : d \in tree'[s] <=> d \in tree[s] /\ ~(d = c /\ s \in {t})
    BY <1>1, <1>2, TreeFacts
  <1>7. /\ IsABag(net') /\ DOMAIN op' = Clients /\ op'[c] = o
        /\ \A d \in Clients : d # c => op'[d] = op[d]
    BY <1>1, <1>2
  <1>8. unknown' \in BOOLEAN /\ (~unknown' => ~unknown /\ t \in sess[c])
    BY <1>1, <1>3
  <1>9. \A s \in Subs : c \in tree'[s] => s \in S
    BY <1>3, <1>5, <1>6
  <1>10. /\ conn' \in [Clients -> {"down", "up", "announce", "failed"}]
        /\ sess' \in [Clients -> SUBSET Subs]
        /\ conn'[c] = "announce" /\ op'[c] = o /\ sess'[c] = S
        /\ \A d \in Clients : d # c => conn'[d] = conn[d] /\ op'[d] = op[d] /\ sess'[d] = sess[d]
    BY <1>1, <1>2, <1>0
  <1>11. TypeInv'
    BY <1>1, <1>2, <1>4, <1>6, <1>7, <1>8, <1>9, <1>10, ClientType
  <1> QED
    BY <1>1, <1>8, <1>10, <1>11 DEF S, o

\* The answer cannot be written.
LEMMA AnswerFailsFacts ==
  ASSUME TypeInv, NEW c \in Clients, AnswerFails(c)
  PROVE  /\ TypeInv' /\ conn[c] = "announce" /\ conn'[c] = "failed"
         /\ op[c] \in [type : {"sub", "unsub"}, sub : Subs]
         /\ op[c].type = "sub" => op[c].sub \in sess[c]
         /\ sess'[c] = sess[c]
         /\ ~unknown' => ~unknown /\ (op[c].type = "unsub" \/ c \notin Persistent)
         /\ \A d \in Clients : d # c => conn'[d] = conn[d] /\ op'[d] = op[d] /\ sess'[d] = sess[d]
  <1>0. /\ conn \in [Clients -> {"down", "up", "announce", "failed"}]
        /\ sess \in [Clients -> SUBSET Subs]
    BY DEF TypeInv
  <1>1. /\ conn[c] = "announce" /\ conn' = [conn EXCEPT ![c] = "failed"]
        /\ op' = [op EXCEPT ![c] = NoOp] /\ sess' = sess /\ tree' = tree
        /\ unknown' = (unknown \/ (op[c].type = "sub" /\ c \in Persistent))
        /\ tmn' = tmn /\ net' = net
    BY DEF AnswerFails
  <1>2. /\ sess \in [Clients -> SUBSET Subs] /\ DOMAIN op = Clients
        /\ tree \in [Subs -> SUBSET Clients]
        /\ tmn \in [Nodes -> [Subs -> [Nodes -> Nat]]] /\ unknown \in BOOLEAN
        /\ IsABag(net) /\ DOMAIN net \subseteq Announcement
    BY DEF TypeInv
  <1>3. /\ \A s \in Subs : c \in tree[s] => s \in sess[c]
        /\ op[c] \in [type : {"sub", "unsub"}, sub : Subs]
        /\ op[c].type = "sub" => op[c].sub \in sess[c]
    BY <1>1 DEF TypeInv, ClientOK
  <1>4. sess' = [sess EXCEPT ![c] = sess[c]] /\ sess[c] \in SUBSET Subs
    BY <1>1, <1>2
  <1>5. /\ tmn' \in [Nodes -> [Subs -> [Nodes -> Nat]]]
        /\ IsABag(net') /\ DOMAIN net' \subseteq Announcement
        /\ tree' \in [Subs -> SUBSET Clients]
        /\ \A s \in Subs : c \in tree'[s] => s \in sess[c]
        /\ \A s \in Subs : \A d \in Clients : d # c /\ d \in tree'[s] => d \in tree[s]
        /\ DOMAIN op' = Clients /\ op'[c] = NoOp
        /\ \A d \in Clients : d # c => op'[d] = op[d]
    BY <1>1, <1>2, <1>3
  <1>6. /\ unknown' \in BOOLEAN
        /\ ~unknown' => ~unknown /\ (op[c].type = "unsub" \/ c \notin Persistent)
    BY <1>1, <1>3
  <1>7. /\ conn' \in [Clients -> {"down", "up", "announce", "failed"}]
        /\ sess' \in [Clients -> SUBSET Subs]
        /\ conn'[c] = "failed" /\ op'[c] = NoOp /\ sess'[c] = sess[c]
        /\ \A d \in Clients : d # c => conn'[d] = conn[d] /\ op'[d] = op[d] /\ sess'[d] = sess[d]
    BY <1>1, <1>2, <1>0
  <1>8. TypeInv'
    BY <1>1, <1>4, <1>5, <1>6, <1>7, ClientType
  <1> QED
    BY <1>1, <1>3, <1>6, <1>7, <1>8

\* The connection ends.
LEMMA StopFacts ==
  ASSUME TypeInv, NEW c \in Clients, stop(c)
  PROVE  /\ TypeInv' /\ conn[c] \in {"up", "failed"} /\ conn'[c] = "down" /\ sess'[c] = sess[c]
         /\ \A d \in Clients : d # c => conn'[d] = conn[d] /\ op'[d] = op[d] /\ sess'[d] = sess[d]
  <1>0. /\ conn \in [Clients -> {"down", "up", "announce", "failed"}]
        /\ sess \in [Clients -> SUBSET Subs]
    BY DEF TypeInv
  <1>1. /\ conn[c] \in {"up", "failed"} /\ conn' = [conn EXCEPT ![c] = "down"] /\ op' = op
        /\ sess' = sess /\ tree' = sremove(tree, c, sess[c]) /\ unknown' = unknown
        /\ tmn' = tmn /\ net' = net
    BY DEF stop
  <1>2. /\ sess \in [Clients -> SUBSET Subs] /\ DOMAIN op = Clients
        /\ tree \in [Subs -> SUBSET Clients]
        /\ tmn \in [Nodes -> [Subs -> [Nodes -> Nat]]] /\ unknown \in BOOLEAN
        /\ IsABag(net) /\ DOMAIN net \subseteq Announcement
    BY DEF TypeInv
  <1>3. \A s \in Subs : c \in tree[s] => s \in sess[c]
    BY DEF TypeInv, ClientOK
  <1>4. /\ tree' \in [Subs -> SUBSET Clients]
        /\ \A s \in Subs : \A d : d \in tree'[s] <=> d \in tree[s] /\ ~(d = c /\ s \in sess[c])
    BY <1>1, <1>2, TreeFacts
  <1>5. /\ sess' = [sess EXCEPT ![c] = sess[c]] /\ sess[c] \in SUBSET Subs
        /\ tmn' \in [Nodes -> [Subs -> [Nodes -> Nat]]] /\ unknown' \in BOOLEAN
        /\ IsABag(net') /\ DOMAIN net' \subseteq Announcement
        /\ DOMAIN op' = Clients /\ op'[c] = op[c] /\ \A d \in Clients : d # c => op'[d] = op[d]
    BY <1>1, <1>2
  <1>6. /\ \A s \in Subs : c \notin tree'[s]
        /\ \A s \in Subs : \A d \in Clients : d # c /\ d \in tree'[s] => d \in tree[s]
    BY <1>3, <1>4
  <1>7. /\ conn' \in [Clients -> {"down", "up", "announce", "failed"}]
        /\ sess' \in [Clients -> SUBSET Subs]
        /\ conn'[c] = "down" /\ op'[c] = op[c] /\ sess'[c] = sess[c]
        /\ \A d \in Clients : d # c => conn'[d] = conn[d] /\ op'[d] = op[d] /\ sess'[d] = sess[d]
    BY <1>1, <1>2, <1>0
  <1>8. TypeInv'
    BY <1>1, <1>4, <1>5, <1>6, <1>7, ClientType
  <1> QED
    BY <1>1, <1>7, <1>8

\* The packet is announced.
LEMMA AnnounceFacts ==
  ASSUME TypeInv, NEW c \in Clients, processToCluster(c)
  PROVE  /\ TypeInv' /\ conn[c] = "announce" /\ conn'[c] = "up" /\ sess'[c] = sess[c]
         /\ \A d \in Clients : d # c => conn'[d] = conn[d] /\ op'[d] = op[d] /\ sess'[d] = sess[d]
  <1>1. /\ conn[c] = "announce" /\ conn' = [conn EXCEPT ![c] = "up"] /\ op' = [op EXCEPT ![c] = NoOp]
        /\ sess' = sess /\ tree' = tree /\ unknown' = unknown
    BY DEF processToCluster
  <1>2. /\ conn \in [Clients -> {"down", "up", "announce", "failed"}]
        /\ sess \in [Clients -> SUBSET Subs] /\ DOMAIN op = Clients
        /\ tree \in [Subs -> SUBSET Clients] /\ unknown \in BOOLEAN
    BY DEF TypeInv
  <1>3. \A s \in Subs : c \in tree[s] => s \in sess[c]
    BY DEF TypeInv, ClientOK
  <1>4. /\ tmn' \in [Nodes -> [Subs -> [Nodes -> Nat]]]
        /\ IsABag(net') /\ DOMAIN net' \subseteq Announcement
    BY ClientSteps
  <1>5. /\ conn' \in [Clients -> {"down", "up", "announce", "failed"}]
        /\ sess' \in [Clients -> SUBSET Subs] /\ DOMAIN op' = Clients
        /\ tree' \in [Subs -> SUBSET Clients] /\ unknown' \in BOOLEAN
        /\ conn'[c] = "up" /\ sess'[c] = sess[c]
        /\ \A d \in Clients : d # c => conn'[d] = conn[d] /\ op'[d] = op[d] /\ sess'[d] = sess[d]
    BY <1>1, <1>2
  <1>6. /\ \A s \in Subs : c \in tree'[s] => conn'[c] # "down" /\ s \in sess'[c]
        /\ \A s \in Subs : \A d \in Clients : d # c /\ d \in tree'[s] => d \in tree[s]
    BY <1>1, <1>3, <1>5
  <1>7. TypeInv'
    BY <1>4, <1>5, <1>6, ClientType
  <1> QED
    BY <1>1, <1>5, <1>7

\* An announcement arrives: one more or one less for its node.
LEMMA OnMessageFacts ==
  ASSUME TypeInv, NEW e \in BagToSet(net), OnMessage(e)
  PROVE  /\ TypeInv'
         /\ \A n, k \in Nodes, s \in Subs :
              /\ ~(n = e.to /\ k = e.from /\ s = e.sub) => tmn'[n][s][k] = tmn[n][s][k]
              /\ n = e.to /\ k = e.from /\ s = e.sub =>
                   /\ e.type = "sub" => tmn'[n][s][k] = tmn[n][s][k] + 1
                   /\ e.type # "sub" => tmn'[n][s][k] >= tmn[n][s][k] - 1
  <1>1. /\ net' = net (-) SetToBag({e}) /\ UNCHANGED <<conn, op, sess, tree, unknown>>
        /\ tmn' = [tmn EXCEPT ![e.to] = Counted(tmn[e.to], e.type, e.sub, e.from)]
    BY DEF OnMessage
  <1>2. IsABag(net') /\ DOMAIN net' \subseteq Announcement /\ e \in Announcement
    BY <1>1, Arrives
  <1>3. e.to \in Nodes /\ e.from \in Nodes /\ e.sub \in Subs
    BY <1>2 DEF Announcement
  <1> DEFINE w == Counted(tmn[e.to], e.type, e.sub, e.from)
  <1>4. tmn \in [Nodes -> [Subs -> [Nodes -> Nat]]]
    BY DEF TypeInv
  <1>5. /\ w \in [Subs -> [Nodes -> Nat]]
        /\ \A s \in Subs, k \in Nodes : ~(s = e.sub /\ k = e.from) => w[s][k] = tmn[e.to][s][k]
        /\ e.type = "sub" => w[e.sub][e.from] = tmn[e.to][e.sub][e.from] + 1
        /\ e.type # "sub" => w[e.sub][e.from] >= tmn[e.to][e.sub][e.from] - 1
    BY <1>3, <1>4, CountedType
  <1>6. tmn' = [tmn EXCEPT ![e.to] = w]
    BY <1>1
  <1> HIDE DEF w
  <1>7. /\ tmn' \in [Nodes -> [Subs -> [Nodes -> Nat]]] /\ tmn'[e.to] = w
        /\ \A n \in Nodes : n # e.to => tmn'[n] = tmn[n]
    BY <1>3, <1>4, <1>5, <1>6
  <1>8. TypeInv'
    BY <1>1, <1>2, <1>7 DEF TypeInv, ClientOK
  <1>9. ASSUME NEW n \in Nodes, NEW k \in Nodes, NEW s \in Subs
        PROVE  /\ ~(n = e.to /\ k = e.from /\ s = e.sub) => tmn'[n][s][k] = tmn[n][s][k]
               /\ n = e.to /\ k = e.from /\ s = e.sub =>
                    /\ e.type = "sub" => tmn'[n][s][k] = tmn[n][s][k] + 1
                    /\ e.type # "sub" => tmn'[n][s][k] >= tmn[n][s][k] - 1
    <2>1. CASE n = e.to
      BY <1>5, <1>7, <2>1
    <2>2. CASE n # e.to
      BY <1>7, <2>2
    <2> QED
      BY <2>1, <2>2
  <1> QED
    BY <1>8, <1>9

\* A step keeps the types.
LEMMA TypeStep == ASSUME TypeInv, [Next]_vars PROVE TypeInv'
  <1>1. ASSUME NEW c \in Clients,
               \/ Connect(c) \/ processToCluster(c) \/ AnswerFails(c) \/ stop(c)
               \/ \E s \in Subs : processSubscribe(c, s) \/ processUnsubscribe(c, s)
        PROVE  TypeInv'
    BY <1>1, ConnectFacts, AnnounceFacts, AnswerFailsFacts, StopFacts, SubscribeFacts,
       UnsubscribeFacts
  <1>2. ASSUME NEW e \in BagToSet(net), OnMessage(e) PROVE TypeInv'
    BY <1>2, OnMessageFacts
  <1>3. ASSUME NEW e \in BagToSet(net), SendFails(e) PROVE TypeInv'
    <2>1. /\ net' = net (-) SetToBag({e}) /\ UNCHANGED <<conn, op, sess, tree, tmn>>
          /\ unknown' = (unknown \/ e.type = "sub")
      BY <1>3 DEF SendFails
    <2>2. IsABag(net') /\ DOMAIN net' \subseteq Announcement
      BY <2>1, Arrives
    <2> QED
      BY <2>1, <2>2 DEF TypeInv, ClientOK
  <1>4. ASSUME \/ \E n \in Nodes, m \in Messages : sendShareToCluster(n, m)
               \/ \E d \in shared : pubFn(d) \/ SendOneFails(d)
               \/ UNCHANGED vars
        PROVE  TypeInv'
    <2>1. UNCHANGED <<conn, op, sess, tree, tmn, net, unknown>>
      BY <1>4 DEF sendShareToCluster, pubFn, SendOneFails, vars
    <2> QED
      BY <2>1, TypeFrame
  <1> QED
    BY <1>1, <1>2, <1>3, <1>4 DEF Next

-----------------------------------------------------------------------------
\* Balance over a step of client c that announces nothing: it is enough to look at c.
LEMMA ClientBalance ==
  ASSUME TypeInv, NEW c \in Clients, NEW n \in Nodes, NEW k \in Nodes, NEW s \in Subs,
         \A d \in Clients : d # c => conn'[d] = conn[d] /\ op'[d] = op[d] /\ sess'[d] = sess[d],
         tmn' = tmn, net' = net, Balance(n, k, s),
         (IF c \in Pending("sub", k, s) THEN 1 ELSE 0)
           + (IF c \in Owned(k, s)' THEN 1 ELSE 0)
           + (IF c \in Pending("unsub", k, s)' THEN 1 ELSE 0)
         <= (IF c \in Pending("sub", k, s)' THEN 1 ELSE 0)
              + (IF c \in Owned(k, s) THEN 1 ELSE 0)
              + (IF c \in Pending("unsub", k, s) THEN 1 ELSE 0)
  PROVE  Balance(n, k, s)'
  <1>1. /\ tmn[n][s][k] \in Nat /\ \A e : Copies(net, e) \in Nat
        /\ Cardinality(Owned(k, s)) \in Nat
        /\ Cardinality(Pending("sub", k, s)) \in Nat /\ Cardinality(Pending("unsub", k, s)) \in Nat
    BY Numbers
  <1>2. /\ Cardinality(Pending("sub", k, s)') = Cardinality(Pending("sub", k, s))
             + (IF c \in Pending("sub", k, s)' THEN 1 ELSE 0)
             - (IF c \in Pending("sub", k, s) THEN 1 ELSE 0)
        /\ Cardinality(Pending("unsub", k, s)') = Cardinality(Pending("unsub", k, s))
             + (IF c \in Pending("unsub", k, s)' THEN 1 ELSE 0)
             - (IF c \in Pending("unsub", k, s) THEN 1 ELSE 0)
        /\ Cardinality(Owned(k, s)') = Cardinality(Owned(k, s))
             + (IF c \in Owned(k, s)' THEN 1 ELSE 0) - (IF c \in Owned(k, s) THEN 1 ELSE 0)
    BY CountChange
  <1>3. Balance(n, k, s)' <=>
          tmn'[n][s][k] + Copies(net', Ann("sub", s, k, n)) + Cardinality(Pending("sub", k, s)')
            >= Cardinality(Owned(k, s)') + Copies(net', Ann("unsub", s, k, n))
               + Cardinality(Pending("unsub", k, s)')
    BY DEF Balance
  <1> QED
    BY <1>1, <1>2, <1>3 DEF Balance

\* The connections of a client begin and end: nothing is subscribed that was not, and
\* nothing is about to be announced.
LEMMA LifeBalance ==
  ASSUME TypeInv, NEW c \in Clients, Connect(c) \/ stop(c),
         NEW n \in Nodes, NEW k \in Nodes, NEW s \in Subs, Balance(n, k, s)
  PROVE  Balance(n, k, s)'
  <1>1. /\ \A d \in Clients : d # c => conn'[d] = conn[d] /\ op'[d] = op[d] /\ sess'[d] = sess[d]
        /\ conn[c] # "announce" /\ conn'[c] # "announce"
        /\ \/ sess'[c] = IF c \in Persistent THEN sess[c] ELSE {}
           \/ conn'[c] = "down" /\ sess'[c] = sess[c]
    BY ConnectFacts, StopFacts
  <1>2. \A type : c \notin Pending(type, k, s) /\ c \notin Pending(type, k, s)'
    BY <1>1 DEF Pending
  <1>3. c \in Owned(k, s)' => c \in Owned(k, s)
    BY <1>1 DEF Owned
  <1>4. tmn' = tmn /\ net' = net
    BY ClientSteps
  <1> QED
    BY <1>1, <1>2, <1>3, <1>4, ClientBalance

\* A SUBSCRIBE may subscribe once more, and is going to be announced.
LEMMA SubscribeBalance ==
  ASSUME TypeInv, NEW c \in Clients, NEW t \in Subs, processSubscribe(c, t),
         NEW n \in Nodes, NEW k \in Nodes, NEW s \in Subs, Balance(n, k, s)
  PROVE  Balance(n, k, s)'
  <1>1. /\ \A d \in Clients : d # c => conn'[d] = conn[d] /\ op'[d] = op[d] /\ sess'[d] = sess[d]
        /\ conn[c] = "up" /\ conn'[c] = "announce" /\ sess'[c] = sess[c] \cup {t}
        /\ op'[c].type = "sub" /\ op'[c].sub = t
    <2>1. op'[c] = [type |-> "sub", sub |-> t]
      BY SubscribeFacts
    <2> QED
      BY <2>1, SubscribeFacts
  <1>2. \A type : c \notin Pending(type, k, s)
    BY <1>1 DEF Pending
  <1>3. c \notin Pending("unsub", k, s)' /\ (c \in Pending("sub", k, s)' <=> NodeOf[c] = k /\ s = t)
    BY <1>1 DEF Pending
  <1>4. c \in Owned(k, s)' => c \in Owned(k, s) \/ (NodeOf[c] = k /\ s = t)
    BY <1>1 DEF Owned
  <1>5. tmn' = tmn /\ net' = net
    BY ClientSteps
  <1> QED
    BY <1>1, <1>2, <1>3, <1>4, <1>5, ClientBalance

\* An UNSUBSCRIBE takes back one subscription, and is going to be announced.
LEMMA UnsubscribeBalance ==
  ASSUME TypeInv, NEW c \in Clients, NEW t \in Subs, processUnsubscribe(c, t), ~unknown',
         NEW n \in Nodes, NEW k \in Nodes, NEW s \in Subs, Balance(n, k, s)
  PROVE  Balance(n, k, s)'
  <1>1. /\ \A d \in Clients : d # c => conn'[d] = conn[d] /\ op'[d] = op[d] /\ sess'[d] = sess[d]
        /\ conn[c] = "up" /\ conn'[c] = "announce" /\ sess'[c] = sess[c] \ {t} /\ t \in sess[c]
        /\ op'[c].type = "unsub" /\ op'[c].sub = t
    <2>1. op'[c] = [type |-> "unsub", sub |-> t]
      BY UnsubscribeFacts
    <2> QED
      BY <2>1, UnsubscribeFacts
  <1>2. \A type : c \notin Pending(type, k, s)
    BY <1>1 DEF Pending
  <1>3. c \notin Pending("sub", k, s)' /\ (c \in Pending("unsub", k, s)' <=> NodeOf[c] = k /\ s = t)
    BY <1>1 DEF Pending
  <1>4. /\ c \in Owned(k, s)' => c \in Owned(k, s) /\ s # t
        /\ NodeOf[c] = k /\ s = t => c \in Owned(k, s)
    BY <1>1 DEF Owned
  <1>5. tmn' = tmn /\ net' = net
    BY ClientSteps
  <1> QED
    BY <1>1, <1>2, <1>3, <1>4, <1>5, ClientBalance

\* An answer that fails: a SUBSCRIBE that is not announced ends with the connection.
LEMMA AnswerFailsBalance ==
  ASSUME TypeInv, NEW c \in Clients, AnswerFails(c), ~unknown',
         NEW n \in Nodes, NEW k \in Nodes, NEW s \in Subs, Balance(n, k, s)
  PROVE  Balance(n, k, s)'
  <1>1. /\ \A d \in Clients : d # c => conn'[d] = conn[d] /\ op'[d] = op[d] /\ sess'[d] = sess[d]
        /\ conn[c] = "announce" /\ conn'[c] = "failed" /\ sess'[c] = sess[c]
        /\ op[c].type = "sub" => op[c].sub \in sess[c]
        /\ op[c].type = "unsub" \/ c \notin Persistent
    BY AnswerFailsFacts
  <1>2. \A type : c \notin Pending(type, k, s)'
    BY <1>1 DEF Pending
  <1>3. c \in Owned(k, s)' => c \in Owned(k, s) /\ c \in Persistent
    BY <1>1 DEF Owned
  <1>4. c \in Pending("sub", k, s) => c \in Owned(k, s) /\ c \notin Persistent
    BY <1>1 DEF Owned, Pending
  <1>5. tmn' = tmn /\ net' = net
    BY ClientSteps
  <1> QED
    BY <1>1, <1>2, <1>3, <1>4, <1>5, ClientBalance

\* An announcement: the node itself counts it, and it is on its way to every other one.
LEMMA AnnounceBalance ==
  ASSUME TypeInv, NEW c \in Clients, processToCluster(c), clusterOpen,
         NEW n \in Nodes, NEW k \in Nodes, NEW s \in Subs, Balance(n, k, s)
  PROVE  Balance(n, k, s)'
  <1> DEFINE y == op[c].type
             z == op[c].sub
             n0 == NodeOf[c]
             hit == k = n0 /\ s = z
  <1>1. /\ \A d \in Clients : d # c => conn'[d] = conn[d] /\ op'[d] = op[d] /\ sess'[d] = sess[d]
        /\ conn[c] = "announce" /\ conn'[c] = "up" /\ sess'[c] = sess[c]
    BY AnnounceFacts
  <1>2. /\ y \in {"sub", "unsub"} /\ z \in Subs /\ n0 \in Nodes
        /\ tmn' = [tmn EXCEPT ![n0] = Counted(tmn[n0], y, z, n0)]
        /\ \A type, r, j, m : Copies(net', Ann(type, r, j, m)) = Copies(net, Ann(type, r, j, m))
             + (IF type = y /\ r = z /\ j = n0 /\ m \in Nodes \ {n0} THEN 1 ELSE 0)
    BY ToCluster
  <1>3. /\ \A type : c \notin Pending(type, k, s)'
        /\ \A type : c \in Pending(type, k, s) <=> hit /\ type = y
        /\ c \in Owned(k, s)' <=> c \in Owned(k, s)
    BY <1>1 DEF Pending, Owned
  <1> HIDE DEF y, z, n0
  <1>4. /\ tmn[n][s][k] \in Nat /\ \A e : Copies(net, e) \in Nat
        /\ Cardinality(Owned(k, s)) \in Nat
        /\ Cardinality(Pending("sub", k, s)) \in Nat /\ Cardinality(Pending("unsub", k, s)) \in Nat
    BY Numbers
  <1>5. /\ Cardinality(Pending("sub", k, s)') = Cardinality(Pending("sub", k, s))
             - (IF hit /\ y = "sub" THEN 1 ELSE 0)
        /\ Cardinality(Pending("unsub", k, s)') = Cardinality(Pending("unsub", k, s))
             - (IF hit /\ y = "unsub" THEN 1 ELSE 0)
        /\ Cardinality(Owned(k, s)') = Cardinality(Owned(k, s))
    <2>1. /\ \A type : Cardinality(Pending(type, k, s)') = Cardinality(Pending(type, k, s))
               + (IF c \in Pending(type, k, s)' THEN 1 ELSE 0)
               - (IF c \in Pending(type, k, s) THEN 1 ELSE 0)
          /\ Cardinality(Owned(k, s)') = Cardinality(Owned(k, s))
               + (IF c \in Owned(k, s)' THEN 1 ELSE 0) - (IF c \in Owned(k, s) THEN 1 ELSE 0)
      BY <1>1, CountChange
    <2> QED
      BY <1>3, <1>4, <2>1
  <1>6. /\ Copies(net', Ann("sub", s, k, n)) = Copies(net, Ann("sub", s, k, n))
             + (IF hit /\ y = "sub" /\ n # n0 THEN 1 ELSE 0)
        /\ Copies(net', Ann("unsub", s, k, n)) = Copies(net, Ann("unsub", s, k, n))
             + (IF hit /\ y = "unsub" /\ n # n0 THEN 1 ELSE 0)
    BY <1>2
  <1>7. /\ tmn'[n][s][k] \in Int
        /\ ~hit \/ n # n0 => tmn'[n][s][k] = tmn[n][s][k]
        /\ hit /\ n = n0 /\ y = "sub" => tmn'[n][s][k] = tmn[n][s][k] + 1
        /\ hit /\ n = n0 /\ y = "unsub" => tmn'[n][s][k] >= tmn[n][s][k] - 1
    <2> DEFINE w == Counted(tmn[n0], y, z, n0)
    <2>1. tmn \in [Nodes -> [Subs -> [Nodes -> Nat]]]
      BY DEF TypeInv
    <2>2. /\ w \in [Subs -> [Nodes -> Nat]]
          /\ \A r \in Subs, j \in Nodes : ~(r = z /\ j = n0) => w[r][j] = tmn[n0][r][j]
          /\ y = "sub" => w[z][n0] = tmn[n0][z][n0] + 1
          /\ y # "sub" => w[z][n0] >= tmn[n0][z][n0] - 1
      BY <1>2, <2>1, CountedType
    <2>3. tmn' = [tmn EXCEPT ![n0] = w]
      BY <1>2
    <2> HIDE DEF w
    <2>4. tmn'[n0] = w /\ (n # n0 => tmn'[n] = tmn[n])
      BY <1>2, <2>1, <2>3
    <2>5. CASE n = n0
      BY <1>2, <2>2, <2>4, <2>5
    <2>6. CASE n # n0
      BY <1>4, <2>4, <2>6
    <2> QED
      BY <2>5, <2>6
  <1>8. Balance(n, k, s)' <=>
          tmn'[n][s][k] + Copies(net', Ann("sub", s, k, n)) + Cardinality(Pending("sub", k, s)')
            >= Cardinality(Owned(k, s)') + Copies(net', Ann("unsub", s, k, n))
               + Cardinality(Pending("unsub", k, s)')
    BY DEF Balance
  <1> HIDE DEF hit
  <1> QED
    BY <1>2, <1>4, <1>5, <1>6, <1>7, <1>8 DEF Balance

\* An announcement that arrives is counted, and no longer on its way; an UNSUBSCRIBE
\* that is lost leaves the weight higher.
LEMMA MessageBalance ==
  ASSUME TypeInv, NEW e \in BagToSet(net),
         OnMessage(e) \/ (SendFails(e) /\ ~unknown'),
         NEW n \in Nodes, NEW k \in Nodes, NEW s \in Subs, Balance(n, k, s)
  PROVE  Balance(n, k, s)'
  <1> DEFINE hit == n = e.to /\ k = e.from /\ s = e.sub
  <1>1. /\ net' = net (-) SetToBag({e}) /\ UNCHANGED <<conn, op, sess>>
    BY DEF OnMessage, SendFails
  <1>2. /\ e \in Announcement
        /\ \A type, r, j, m : Copies(net', Ann(type, r, j, m)) = Copies(net, Ann(type, r, j, m))
             - (IF type = e.type /\ r = e.sub /\ j = e.from /\ m = e.to THEN 1 ELSE 0)
    BY <1>1, Arrives
  <1>3. e.type \in {"sub", "unsub"}
    BY <1>2 DEF Announcement
  <1>4. /\ tmn[n][s][k] \in Nat /\ \A d : Copies(net, d) \in Nat
        /\ Cardinality(Owned(k, s)) \in Nat
        /\ Cardinality(Pending("sub", k, s)) \in Nat /\ Cardinality(Pending("unsub", k, s)) \in Nat
    BY Numbers
  <1>5. /\ \A type : Pending(type, k, s)' = Pending(type, k, s)
        /\ Owned(k, s)' = Owned(k, s)
    BY <1>1 DEF Pending, Owned
  <1>6. /\ Copies(net', Ann("sub", s, k, n)) = Copies(net, Ann("sub", s, k, n))
             - (IF hit /\ e.type = "sub" THEN 1 ELSE 0)
        /\ Copies(net', Ann("unsub", s, k, n)) = Copies(net, Ann("unsub", s, k, n))
             - (IF hit /\ e.type = "unsub" THEN 1 ELSE 0)
    BY <1>2
  <1>7. /\ tmn'[n][s][k] \in Int
        /\ ~hit => tmn'[n][s][k] = tmn[n][s][k]
        /\ hit /\ e.type = "sub" => tmn'[n][s][k] = tmn[n][s][k] + 1
        /\ hit /\ e.type = "unsub" => tmn'[n][s][k] >= tmn[n][s][k] - 1
    <2>1. CASE OnMessage(e)
      <3>1. TypeInv'
        BY <2>1, OnMessageFacts
      <3>2. tmn'[n][s][k] \in Nat
        BY <3>1 DEF TypeInv
      <3> QED
        BY <2>1, <3>2, OnMessageFacts
    <2>2. CASE SendFails(e) /\ ~unknown'
      <3>1. tmn' = tmn /\ e.type # "sub"
        BY <2>2 DEF SendFails
      <3> QED
        BY <1>4, <3>1
    <2> QED
      BY <2>1, <2>2
  <1>8. Balance(n, k, s)' <=>
          tmn'[n][s][k] + Copies(net', Ann("sub", s, k, n)) + Cardinality(Pending("sub", k, s)')
            >= Cardinality(Owned(k, s)') + Copies(net', Ann("unsub", s, k, n))
               + Cardinality(Pending("unsub", k, s)')
    BY DEF Balance
  <1> HIDE DEF hit
  <1> QED
    BY <1>3, <1>4, <1>5, <1>6, <1>7, <1>8 DEF Balance

\* A step keeps the balance of every node for every subscription.
LEMMA KnownStep == ASSUME TypeInv, KnownInv, [Next]_vars PROVE KnownInv'
  <1> SUFFICES ASSUME clusterOpen', ~unknown', NEW n \in Nodes, NEW k \in Nodes, NEW s \in Subs
               PROVE  Balance(n, k, s)'
    BY DEF KnownInv
  <1>1. clusterOpen /\ ~unknown
    <2>1. ASSUME NEW c \in Clients,
                 \/ Connect(c) \/ processToCluster(c) \/ AnswerFails(c) \/ stop(c)
                 \/ \E t \in Subs : processSubscribe(c, t) \/ processUnsubscribe(c, t)
          PROVE  clusterOpen /\ ~unknown
      <3>1. clusterOpen' = clusterOpen
        BY <2>1 DEF Connect, processSubscribe, processUnsubscribe, processToCluster,
                    AnswerFails, stop
      <3>2. CASE \/ Connect(c) \/ processToCluster(c) \/ stop(c)
                 \/ \E t \in Subs : processSubscribe(c, t)
        <4>1. unknown' = unknown
          BY <3>2 DEF Connect, processToCluster, stop, processSubscribe
        <4> QED
          BY <3>1, <4>1, Zenon
      <3>3. CASE AnswerFails(c) \/ \E t \in Subs : processUnsubscribe(c, t)
        <4>1. ~unknown
          BY <3>3, AnswerFailsFacts, UnsubscribeFacts
        <4> QED
          BY <3>1, <4>1, Zenon
      <3> QED
        BY <2>1, <3>2, <3>3
    <2>2. ASSUME NEW e, OnMessage(e) \/ SendFails(e) PROVE clusterOpen /\ ~unknown
      <3>1. clusterOpen' = clusterOpen
        BY <2>2 DEF OnMessage, SendFails
      <3>2. CASE OnMessage(e)
        <4>1. unknown' = unknown
          BY <3>2 DEF OnMessage
        <4> QED
          BY <3>1, <4>1, Zenon
      <3>3. CASE SendFails(e)
        <4>1. unknown' = (unknown \/ e.type = "sub")
          BY <3>3, Zenon DEF SendFails
        <4>2. ~unknown
          BY <4>1
        <4> QED
          BY <3>1, <4>2, Zenon
      <3> QED
        BY <2>2, <3>2, <3>3
    <2>3. ASSUME \/ \E i \in Nodes, m \in Messages : sendShareToCluster(i, m)
                 \/ \E d \in shared : pubFn(d) \/ SendOneFails(d)
                 \/ UNCHANGED vars
          PROVE  clusterOpen /\ ~unknown
      <3>1. clusterOpen' = clusterOpen /\ unknown' = unknown
        BY <2>3 DEF sendShareToCluster, pubFn, SendOneFails, vars
      <3> QED
        BY <3>1, Zenon
    <2> QED
      BY <2>1, <2>2, <2>3, Zenon DEF Next
  <1>2. Balance(n, k, s)
    BY <1>1 DEF KnownInv
  <1>3. ASSUME NEW c \in Clients,
               \/ Connect(c) \/ processToCluster(c) \/ AnswerFails(c) \/ stop(c)
               \/ \E t \in Subs : processSubscribe(c, t) \/ processUnsubscribe(c, t)
        PROVE  Balance(n, k, s)'
    BY <1>1, <1>2, <1>3, LifeBalance, SubscribeBalance, UnsubscribeBalance, AnnounceBalance,
       AnswerFailsBalance
  <1>4. ASSUME NEW e \in BagToSet(net), OnMessage(e) \/ SendFails(e) PROVE Balance(n, k, s)'
    BY <1>2, <1>4, MessageBalance
  <1>5. ASSUME \/ \E i \in Nodes, m \in Messages : sendShareToCluster(i, m)
               \/ \E d \in shared : pubFn(d) \/ SendOneFails(d)
               \/ UNCHANGED vars
        PROVE  Balance(n, k, s)'
    <2>1. UNCHANGED <<conn, op, sess, tmn, net>>
      BY <1>5 DEF sendShareToCluster, pubFn, SendOneFails, vars
    <2> QED
      BY <1>2, <2>1 DEF Balance, Owned, Pending
  <1> QED
    BY <1>3, <1>4, <1>5 DEF Next

\* In the beginning nobody subscribes and nothing is counted.
LEMMA KnownInit == Init => TypeInv /\ KnownInv
  <1> SUFFICES ASSUME Init PROVE TypeInv /\ KnownInv
    OBVIOUS
  <1>1. /\ conn = [c \in Clients |-> "down"] /\ op = [c \in Clients |-> NoOp]
        /\ sess = [c \in Clients |-> {}] /\ tree = [s \in Subs |-> {}]
        /\ tmn = [n \in Nodes |-> [s \in Subs |-> [k \in Nodes |-> 0]]]
        /\ net = EmptyBag /\ unknown = FALSE
    BY DEF Init
  <1>2. IsABag(net) /\ DOMAIN net = {}
    <2>1. net = [x \in {} |-> 1]
      BY <1>1 DEF EmptyBag, SetToBag
    <2> QED
      BY <2>1 DEF IsABag
  <1>3. TypeInv
    BY <1>1, <1>2 DEF TypeInv, ClientOK
  <1>4. ASSUME NEW n \in Nodes, NEW k \in Nodes, NEW s \in Subs PROVE Balance(n, k, s)
    <2>1. tmn[n][s][k] = 0 /\ \A e : Copies(net, e) = 0
      BY <1>1, <1>2 DEF Copies
    <2>2. Owned(k, s) = {} /\ \A type : Pending(type, k, s) = {}
      BY <1>1 DEF Owned, Pending
    <2> QED
      BY <2>1, <2>2, FS_EmptySet DEF Balance
  <1> QED
    BY <1>3, <1>4 DEF KnownInv

\* When nothing is on its way the balance is what SubscribersKnown says: those in the
\* tree of a node are subscribed in their sessions.
LEMMA KnownEnough == ASSUME TypeInv, KnownInv PROVE SubscribersKnown
  <1> SUFFICES ASSUME clusterOpen, Quiet, ~unknown, NEW n \in Nodes, NEW k \in Nodes, NEW s \in Subs
               PROVE  tmn[n][s][k] >= Cardinality(Members(k, s))
    BY DEF SubscribersKnown
  <1>1. Balance(n, k, s)
    BY DEF KnownInv
  <1>2. DOMAIN net = {}
    BY DEF Quiet, EmptyBag, SetToBag
  <1>3. \A e : Copies(net, e) = 0
    BY <1>2 DEF Copies
  <1>4. \A type : Pending(type, k, s) = {}
    BY DEF Quiet, Pending
  <1>5. Members(k, s) \subseteq Owned(k, s)
    BY DEF Members, Owned, TypeInv, ClientOK, Quiet
  <1>6. /\ tmn[n][s][k] \in Nat
        /\ IsFiniteSet(Owned(k, s)) /\ Cardinality(Owned(k, s)) \in Nat
    BY Numbers
  <1>7. /\ Cardinality(Members(k, s)) \in Nat
        /\ Cardinality(Members(k, s)) <= Cardinality(Owned(k, s))
    <2>1. IsFiniteSet(Members(k, s)) /\ Cardinality(Members(k, s)) <= Cardinality(Owned(k, s))
      BY <1>5, <1>6, FS_Subset
    <2> QED
      BY <2>1, FS_CardinalityType
  <1>8. Cardinality({}) = 0
    BY FS_EmptySet
  <1> QED
    BY <1>1, <1>3, <1>4, <1>6, <1>7, <1>8 DEF Balance

\* Once all announcements have arrived every node draws every other node with at least
\* the number of its subscribers, for any number of nodes and clients and any order of
\* the messages: the weights are counted up by AddTopicMapNode and down by
\* RemoveTopicMapNode, and an UNSUBSCRIBE that overtakes its SUBSCRIBE leaves a weight that
\* is right or too high.
THEOREM KnownCorrect == Spec => []SubscribersKnown
  <1>1. TypeInv /\ KnownInv /\ [Next]_vars => (TypeInv /\ KnownInv)'
    BY TypeStep, KnownStep
  <1>2. TypeInv /\ KnownInv => SubscribersKnown
    BY KnownEnough
  <1> QED
    BY <1>1, <1>2, KnownInit, PTL DEF Spec
=============================================================================
