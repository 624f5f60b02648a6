---------------------------- MODULE TopicsProofs ----------------------------
(***************************************************************************)
(* Proofs about Topics: the trees of subscriptions and retained messages   *)
(* stay trees without dead branches, smatch and rmatch find exactly what   *)
(* MQTT means by a match, and a subscriber gets the retained message of a  *)
(* topic live or as retained.                                              *)
(***************************************************************************)
EXTENDS Topics, SequenceTheorems, WellFoundedInduction, TLAPS

\* A set of numbers that is not empty has a least element.
LEMMA Minimum ==
  ASSUME NEW T, T \subseteq Nat, T # {}
  PROVE  \E x \in T : \A y \in T : x <= y
  <1>1. PICK x \in T : \A y \in T : ~ (<<y, x>> \in OpToRel(<, Nat))
    BY WFMin, NatLessThanWellFounded, Zenon
  <1>2. \A y \in T : y < x => <<y, x>> \in OpToRel(<, Nat)
    BY Zenon DEF OpToRel
  <1>3. \A y \in T : ~(y < x)
    BY <1>1, <1>2
  <1> QED
    BY <1>3

-----------------------------------------------------------------------------
(* Paths.                                                                  *)

\* The paths of nodes.
Path == Seq(Levels)

\* a is the beginning of b, or b itself.
IsPre(a, b) == Len(a) <= Len(b) /\ \A i \in 1..Len(a) : a[i] = b[i]

\* What is known of a sequence of levels.
LEMMA PathFacts ==
  ASSUME NEW p \in Path
  PROVE  /\ DOMAIN p = 1..Len(p) /\ Len(p) \in Nat
         /\ \A i \in 1..Len(p) : p[i] \in Levels
         /\ (p = <<>>) <=> (Len(p) = 0)
         /\ <<>> \in Path /\ Len(<<>>) = 0
  BY ElementOfSeq, LenProperties, EmptySeq DEF Path

\* The first levels of a path are a path.
LEMMA FirstLevels ==
  ASSUME NEW p \in Path, NEW k \in 0..Len(p)
  PROVE  /\ SubSeq(p, 1, k) \in Path
         /\ Len(SubSeq(p, 1, k)) = k
         /\ \A i \in 1..k : SubSeq(p, 1, k)[i] = p[i]
         /\ IsPre(SubSeq(p, 1, k), p)
  <1>1. Len(p) \in Nat /\ \A i \in 1..k : p[i] \in Levels
    BY PathFacts
  <1>2. /\ SubSeq(p, 1, k) \in Seq(Levels)
        /\ Len(SubSeq(p, 1, k)) = IF 1 <= k THEN k - 1 + 1 ELSE 0
        /\ \A i \in 1..(k - 1 + 1) : SubSeq(p, 1, k)[i] = p[1 + i - 1]
    BY <1>1, SubSeqProperties DEF Path
  <1>3. /\ SubSeq(p, 1, k) \in Path /\ Len(SubSeq(p, 1, k)) = k
        /\ \A i \in 1..k : SubSeq(p, 1, k)[i] = p[i]
    BY <1>1, <1>2 DEF Path
  <1> QED
    BY <1>1, <1>3 DEF IsPre

\* Paths of the same length that agree are the same.
LEMMA PathEqual ==
  ASSUME NEW a \in Path, NEW b \in Path, Len(a) = Len(b), \A i \in 1..Len(a) : a[i] = b[i]
  PROVE  a = b
  BY SeqEqual DEF Path

\* The beginnings of a path, and what they are in the tree.
LEMMA PrefixFacts ==
  ASSUME NEW p \in Path, NEW n
  PROVE  (n \in Prefixes(p)) <=> (n \in Path /\ IsPre(n, p))
  <1>1. ASSUME n \in Prefixes(p) PROVE n \in Path /\ IsPre(n, p)
    <2>1. PICK k \in 0..Len(p) : n = SubSeq(p, 1, k)
      BY <1>1 DEF Prefixes
    <2> QED
      BY <2>1, FirstLevels
  <1>2. ASSUME n \in Path, IsPre(n, p) PROVE n \in Prefixes(p)
    <2>1. Len(n) \in 0..Len(p)
      BY <1>2, PathFacts DEF IsPre
    <2>2. /\ SubSeq(p, 1, Len(n)) \in Path /\ Len(SubSeq(p, 1, Len(n))) = Len(n)
          /\ \A i \in 1..Len(n) : SubSeq(p, 1, Len(n))[i] = p[i]
      BY <2>1, FirstLevels
    <2>3. n = SubSeq(p, 1, Len(n))
      BY <1>2, <2>2, PathEqual DEF IsPre
    <2> QED
      BY <2>1, <2>3 DEF Prefixes
  <1> QED
    BY <1>1, <1>2

\* The nodes below a node are those that begin with its path.
LEMMA BelowFacts ==
  ASSUME NEW N, N \subseteq Path, NEW p \in Path, NEW n
  PROVE  (n \in Below(N, p)) <=> (n \in N /\ IsPre(p, n))
  <1>1. ASSUME n \in N
        PROVE  (Len(n) >= Len(p) /\ SubSeq(n, 1, Len(p)) = p) <=> IsPre(p, n)
    <2>1. n \in Path /\ Len(n) \in Nat /\ Len(p) \in Nat
      BY <1>1, PathFacts
    <2>2. ASSUME Len(n) >= Len(p)
          PROVE  /\ SubSeq(n, 1, Len(p)) \in Path /\ Len(SubSeq(n, 1, Len(p))) = Len(p)
                 /\ \A i \in 1..Len(p) : SubSeq(n, 1, Len(p))[i] = n[i]
      <3>1. Len(p) \in 0..Len(n)
        BY <2>1, <2>2
      <3> QED
        BY <2>1, <3>1, FirstLevels
    <2>3. ASSUME Len(n) >= Len(p), SubSeq(n, 1, Len(p)) = p PROVE IsPre(p, n)
      BY <2>1, <2>2, <2>3 DEF IsPre
    <2>4. ASSUME IsPre(p, n) PROVE Len(n) >= Len(p) /\ SubSeq(n, 1, Len(p)) = p
      <3>1. Len(n) >= Len(p)
        BY <2>1, <2>4 DEF IsPre
      <3>2. /\ SubSeq(n, 1, Len(p)) \in Path /\ Len(SubSeq(n, 1, Len(p))) = Len(p)
            /\ \A i \in 1..Len(p) : SubSeq(n, 1, Len(p))[i] = p[i]
        BY <2>2, <2>4, <3>1 DEF IsPre
      <3> QED
        BY <3>1, <3>2, PathEqual
    <2> QED
      BY <2>3, <2>4
  <1> QED
    BY <1>1 DEF Below

\* Being a beginning is an order.
LEMMA PreOrder ==
  ASSUME NEW a \in Path, NEW b \in Path, NEW c \in Path
  PROVE  /\ IsPre(a, a) /\ IsPre(<<>>, a)
         /\ IsPre(a, b) /\ IsPre(b, c) => IsPre(a, c)
         /\ IsPre(a, b) /\ Len(a) = Len(b) => a = b
         /\ IsPre(a, b) /\ b = <<>> => a = <<>>
  <1>1. Len(a) \in Nat /\ Len(b) \in Nat /\ Len(c) \in Nat
    BY PathFacts
  <1>2. IsPre(a, a) /\ IsPre(<<>>, a)
    BY <1>1, PathFacts DEF IsPre
  <1>3. IsPre(a, b) /\ IsPre(b, c) => IsPre(a, c)
    BY <1>1 DEF IsPre
  <1>4. IsPre(a, b) /\ Len(a) = Len(b) => a = b
    BY PathEqual DEF IsPre
  <1>5. IsPre(a, b) /\ b = <<>> => a = <<>>
    BY <1>1, PathFacts DEF IsPre
  <1> QED
    BY <1>2, <1>3, <1>4, <1>5

\* Two beginnings of a path: one is a beginning of the other.
LEMMA PreChain ==
  ASSUME NEW a \in Path, NEW b \in Path, NEW c \in Path,
         IsPre(a, c), IsPre(b, c), Len(a) <= Len(b)
  PROVE  IsPre(a, b)
  <1>1. Len(a) \in Nat /\ Len(b) \in Nat /\ Len(c) \in Nat
    BY PathFacts
  <1> QED
    BY <1>1 DEF IsPre

\* The levels of a topic, as nodes are named by them.
LEMMA TopicPath ==
  ASSUME NEW t \in Topic
  PROVE  /\ t \in Path /\ Len(t) \in Nat \ {0} /\ DOMAIN t = 1..Len(t)
         /\ path(t) \in Path
         /\ Len(path(t)) = IF t[Len(t)] = Empty THEN Len(t) - 1 ELSE Len(t)
         /\ Len(path(t)) \in Nat /\ Len(path(t)) >= Len(t) - 1
         /\ \A i \in 1..Len(path(t)) : path(t)[i] = Level(t[i])
  <1> DEFINE l == IF t[Len(t)] = Empty THEN Len(t) - 1 ELSE Len(t)
  <1>1. t \in Path /\ Len(t) \in Nat \ {0} /\ DOMAIN t = 1..Len(t)
    BY PathFacts DEF Topic, Path
  <1>2. l \in Nat /\ l <= Len(t) /\ l >= Len(t) - 1
    <2>1. CASE t[Len(t)] = Empty
      BY <1>1, <2>1
    <2>2. CASE t[Len(t)] # Empty
      BY <1>1, <2>2
    <2> QED
      BY <2>1, <2>2
  <1> HIDE DEF l
  <1>3. \A i \in 1..l : Level(t[i]) \in Levels
    <2>1. \A i \in 1..l : t[i] \in Levels
      BY <1>1, <1>2, PathFacts
    <2> QED
      BY <2>1, TopicsAssumption DEF Level
  <1>4. path(t) = [i \in 1..l |-> Level(t[i])]
    BY DEF path, l
  <1>5. path(t) \in Seq(Levels) /\ Len(path(t)) = l
    BY <1>2, <1>3, <1>4, IsASeq, LenProperties
  <1>6. l = IF t[Len(t)] = Empty THEN Len(t) - 1 ELSE Len(t)
    BY DEF l
  <1> QED
    BY <1>1, <1>2, <1>4, <1>5, <1>6 DEF Path

\* A wrong level is found where it is.
LEMMA GoodFacts ==
  ASSUME NEW f \in Topic
  PROVE  /\ GoodLevels(f) \in 0..Len(f)
         /\ Refused(f) => GoodLevels(f) \in 0..Len(path(f))
         /\ \A i \in 1..GoodLevels(f) : i < Len(f) => f[i] # "#"
  <1> DEFINE bad == {i \in 1..(Len(f) - 1) : f[i] = "#"}
             g == CHOOSE i \in bad : \A j \in bad : i <= j
  <1>1. Len(f) \in Nat \ {0} /\ Len(path(f)) \in Nat /\ Len(path(f)) >= Len(f) - 1
    BY TopicPath, PathFacts
  <1>2. GoodLevels(f) = IF bad = {} THEN Len(f) ELSE g - 1
    BY DEF GoodLevels
  <1>3. ASSUME bad # {} PROVE g \in bad /\ \A j \in bad : g <= j
    <2>1. bad \subseteq Nat
      BY <1>1
    <2>2. \E i \in bad : \A j \in bad : i <= j
      <3> HIDE DEF bad
      <3> QED BY <1>3, <2>1, Minimum
    <2> HIDE DEF bad
    <2> QED
      BY <2>2
  <1>4. CASE bad = {}
    BY <1>1, <1>2, <1>4 DEF Refused
  <1>5. CASE bad # {}
    <2>1. g \in 1..(Len(f) - 1) /\ GoodLevels(f) = g - 1 /\ \A j \in bad : g <= j
      BY <1>2, <1>3, <1>5
    <2> HIDE DEF g
    <2> QED
      BY <1>1, <2>1
  <1> QED
    BY <1>4, <1>5

\* What a SUBSCRIBE packet holds.
LEMMA PacketFacts ==
  /\ \A p \in Packets : DOMAIN p = 1..Len(p) /\ Len(p) \in Nat \ {0}
  /\ \A p \in Packets : \A i \in DOMAIN p :
       /\ p[i].topic \in Filters /\ p[i].topic \in Topic
       /\ p[i].qos \in 0..2 /\ p[i].handling \in 0..2
  /\ Filters \subseteq Topic
  /\ TopicNames \subseteq Topic /\ <<>> \notin TopicNames
  <1> DEFINE R == [topic : Topic, qos : 0..2, handling : 0..2]
  <1>1. ASSUME NEW p \in Packets
        PROVE  /\ DOMAIN p = 1..Len(p) /\ Len(p) \in Nat \ {0}
               /\ \A i \in DOMAIN p : /\ p[i].topic \in Topic
                                      /\ p[i].qos \in 0..2 /\ p[i].handling \in 0..2
    <2>1. p \in Seq(R) /\ p # <<>>
      BY TopicsAssumption
    <2>2. \A i \in DOMAIN p : p[i] \in R
      <3> HIDE DEF R
      <3> QED BY <2>1, ElementOfSeq, LenProperties
    <2>3. DOMAIN p = 1..Len(p) /\ Len(p) \in Nat \ {0}
      <3> HIDE DEF R
      <3> QED BY <2>1, LenProperties, EmptySeq
    <2> QED
      BY <2>2, <2>3
  <1>2. TopicNames \subseteq Topic
    BY TopicsAssumption
  <1> QED
    BY <1>1, <1>2 DEF Filters, Topic

-----------------------------------------------------------------------------
(* Trees.                                                                  *)

\* A set of paths that is a tree.
Tree(N) ==
  /\ N \subseteq Path /\ <<>> \in N
  /\ \A n \in N, m \in Path : IsPre(m, n) => m \in N

\* The way to a node is added.
LEMMA TreeGrow ==
  ASSUME NEW N, Tree(N), NEW p \in Path
  PROVE  Tree(N \cup Prefixes(p)) /\ p \in Prefixes(p)
  <1>1. \A n \in Prefixes(p) : n \in Path /\ IsPre(n, p)
    BY PrefixFacts
  <1>2. ASSUME NEW n \in Prefixes(p), NEW m \in Path, IsPre(m, n) PROVE m \in Prefixes(p)
    <2>1. IsPre(m, p)
      BY <1>1, <1>2, PreOrder
    <2> QED
      BY <2>1, PrefixFacts
  <1>3. p \in Prefixes(p)
    BY PrefixFacts, PreOrder
  <1> QED
    BY <1>1, <1>2, <1>3 DEF Tree

\* Nodes on the way to p with nothing kept below them go, E being what is kept.
LEMMA TreePrune ==
  ASSUME NEW N, Tree(N), NEW p \in Path, NEW E, NEW gone,
         \A n : n \in gone <=> /\ n \in Prefixes(p) /\ n # <<>>
                               /\ Below(N, n) \subseteq Prefixes(p)
                               /\ \A d \in Below(N, n) : d \notin E
  PROVE  Tree(N \ gone)
  <1>1. <<>> \in N \ gone /\ N \ gone \subseteq Path /\ N \subseteq Path
    BY DEF Tree
  <1>2. ASSUME NEW n \in N \ gone, NEW m \in Path, IsPre(m, n), m \in gone PROVE FALSE
    <2>1. m # <<>> /\ Below(N, m) \subseteq Prefixes(p) /\ \A d \in Below(N, m) : d \notin E
      BY <1>2
    <2>2. n \in Path /\ n \in Below(N, m)
      BY <1>1, <1>2, BelowFacts
    <2>3. n \in Prefixes(p) /\ n # <<>>
      BY <1>2, <2>1, <2>2, PreOrder
    <2>4. Below(N, n) \subseteq Below(N, m)
      <3>1. \A d \in Below(N, n) : d \in N /\ IsPre(n, d)
        BY <1>1, <2>2, BelowFacts
      <3>2. \A d \in Below(N, n) : IsPre(m, d)
        BY <1>1, <1>2, <2>2, <3>1, PreOrder
      <3> QED
        BY <1>1, <3>1, <3>2, BelowFacts
    <2>5. n \in gone
      BY <2>1, <2>3, <2>4
    <2> QED
      BY <1>2, <2>5
  <1> QED
    BY <1>1, <1>2 DEF Tree

\* A recursion over levels, from the last one back, has one result.
LEMMA OneResult ==
  ASSUME NEW L \in Nat, NEW m, NEW w,
         \A i \in 1..L : (i < L => m[i + 1] = w[i + 1]) => m[i] = w[i]
  PROVE  \A i \in 1..L : m[i] = w[i]
  <1> DEFINE T == {k \in Nat : k < L /\ m[L - k] # w[L - k]}
  <1> SUFFICES ASSUME NEW i \in 1..L, m[i] # w[i] PROVE FALSE
    OBVIOUS
  <1>1. L - i \in T
    <2>1. L - (L - i) = i /\ L - i \in Nat /\ L - i < L
      OBVIOUS
    <2> QED
      BY <2>1
  <1>2. PICK k \in T : \A j \in T : k <= j
    <2>1. T \subseteq Nat /\ T # {}
      BY <1>1
    <2> HIDE DEF T
    <2> QED
      BY <2>1, Minimum
  <1>3. k \in Nat /\ k < L /\ m[L - k] # w[L - k] /\ L - k \in 1..L
    BY <1>2
  <1>4. L - k < L /\ m[(L - k) + 1] # w[(L - k) + 1]
    BY <1>3
  <1>5. (L - k) + 1 = L - (k - 1) /\ k - 1 \in Nat /\ k - 1 < L
    BY <1>3, <1>4
  <1>6. k - 1 \in T
    BY <1>4, <1>5
  <1> QED
    BY <1>2, <1>3, <1>6

-----------------------------------------------------------------------------
(* rmatch.                                                                 *)

\* One call of rmatch, m being what the calls below it return.
rbody(f, m, i) ==
  [n \in DOMAIN rnodes |->
     IF i > Len(f) \/ (i > 1 /\ i = Len(f) /\ f[i] = Empty) THEN {n}
     ELSE IF f[i] = "#" THEN Below(DOMAIN rnodes, n)
     ELSE UNION {m[i + 1][d] : d \in {e \in Children(DOMAIN rnodes, n) :
                                        Level(f[i]) \in {"+", e[Len(e)]}}}]

\* The filter ends before level i, or goes on there with a level that is not "#".
End(f, i) == i > Len(f) \/ (i > 1 /\ i = Len(f) /\ f[i] = Empty)
Through(f, i) == ~End(f, i) /\ f[i] # "#"

\* Node d is reached from its level a + 1 on, by the filter's level a + 1 + o on:
\* by way of the levels up to k.
Reached(f, o, a, d, k) ==
  /\ \A p \in (a + 1)..k : Through(f, p + o) /\ Level(f[p + o]) \in {"+", d[p]}
  /\ \/ End(f, k + 1 + o) /\ k = Len(d)
     \/ ~End(f, k + 1 + o) /\ f[k + 1 + o] = "#"

\* What a call of rmatch at node n with level i returns.
RReach(f, i, n) ==
  {d \in DOMAIN rnodes :
     IsPre(n, d) /\ \E k \in Len(n)..Len(d) : Reached(f, i - 1 - Len(n), Len(n), d, k)}

\* A path is reached from a node when it is reached from a child of it.
LEMMA ReachedStep ==
  ASSUME NEW f \in Topic, NEW o \in Int, NEW a \in Nat, NEW d \in Path, NEW k \in Nat,
         a < k, k <= Len(d)
  PROVE  Reached(f, o, a, d, k) <=>
           /\ Through(f, a + 1 + o) /\ Level(f[a + 1 + o]) \in {"+", d[a + 1]}
           /\ Reached(f, o, a + 1, d, k)
  <1> DEFINE P(p) == Through(f, p + o) /\ Level(f[p + o]) \in {"+", d[p]}
  <1>1. (\A p \in (a + 1)..k : P(p)) <=> P(a + 1) /\ \A p \in ((a + 1) + 1)..k : P(p)
    <2> HIDE DEF P
    <2> QED OBVIOUS
  <1> QED
    BY <1>1, Zenon DEF Reached

\* The nodes that are reached satisfy the recursion.
LEMMA RReachStep ==
  ASSUME Tree(DOMAIN rnodes), NEW f \in Topic, NEW i \in 1..(Len(f) + 1), NEW n \in DOMAIN rnodes
  PROVE  RReach(f, i, n) =
           IF End(f, i) THEN {n}
           ELSE IF f[i] = "#" THEN Below(DOMAIN rnodes, n)
           ELSE UNION {RReach(f, i + 1, d) : d \in {e \in Children(DOMAIN rnodes, n) :
                                                      Level(f[i]) \in {"+", e[Len(e)]}}}
  <1> DEFINE D == DOMAIN rnodes
             a == Len(n)
             o == i - 1 - a
  <1>1. D \subseteq Path /\ n \in Path /\ a \in Nat /\ Len(f) \in Nat /\ i \in Nat /\ o \in Int
    BY PathFacts, TopicPath DEF Tree
  <1>2. \A d \in D : IsPre(n, d) => d \in Path /\ Len(d) \in Nat /\ a <= Len(d)
    BY <1>1, PathFacts DEF IsPre
  <1>3. a + 1 + o = i /\ i - 1 - Len(n) = o
    BY <1>1
  <1>4. \A d : d \in RReach(f, i, n) <=>
                 d \in D /\ IsPre(n, d) /\ \E k \in a..Len(d) : Reached(f, o, a, d, k)
    BY DEF RReach
  <1> HIDE DEF D, a, o
  <1>5. CASE End(f, i)
    <2>1. ASSUME NEW d \in RReach(f, i, n) PROVE d = n
      <3>1. PICK k \in a..Len(d) : Reached(f, o, a, d, k)
        BY <1>4, <2>1
      <3>2. d \in Path /\ Len(d) \in Nat /\ IsPre(n, d)
        BY <1>2, <1>4, <2>1
      <3>3. k = a
        <4>1. ASSUME k > a PROVE FALSE
          <5>1. Through(f, a + 1 + o)
            BY <1>1, <3>1, <3>2, <4>1, ReachedStep
          <5> QED
            BY <1>3, <1>5, <5>1 DEF Through
        <4> QED
          BY <1>1, <3>1, <3>2, <4>1
      <3>4. a = Len(d)
        BY <1>3, <1>5, <3>1, <3>3 DEF Reached
      <3> QED
        BY <1>1, <3>2, <3>4, PreOrder DEF a
    <2>2. n \in RReach(f, i, n)
      <3>1. n \in D /\ IsPre(n, n) /\ a \in a..Len(n)
        BY <1>1, PreOrder DEF D, a
      <3>2. Reached(f, o, a, n, a)
        <4>1. (a + 1)..a = {}
          BY <1>1
        <4> QED
          BY <1>3, <1>5, <4>1 DEF Reached, a
      <3> QED
        BY <1>4, <3>1, <3>2
    <2> QED
      BY <1>5, <2>1, <2>2
  <1>6. CASE ~End(f, i) /\ f[i] = "#"
    <2>1. \A d : d \in D /\ IsPre(n, d) => d \in RReach(f, i, n)
      <3>1. (a + 1)..a = {}
        BY <1>1
      <3>2. \A d : Reached(f, o, a, d, a)
        BY <1>3, <1>6, <3>1 DEF Reached
      <3> QED
        BY <1>1, <1>2, <1>4, <3>2
    <2>2. \A d : d \in Below(D, n) <=> d \in D /\ IsPre(n, d)
      BY <1>1, BelowFacts
    <2>3. \A d : d \in RReach(f, i, n) <=> d \in Below(D, n)
      BY <1>4, <2>1, <2>2
    <2> QED
      BY <1>6, <2>3 DEF D
  <1>7. CASE ~End(f, i) /\ f[i] # "#"
    <2> DEFINE C == {e \in Children(D, n) : Level(f[i]) \in {"+", e[Len(e)]}}
    <2>1. \A e : e \in Children(D, n) <=> e \in D /\ IsPre(n, e) /\ Len(e) = a + 1
      BY <1>1, BelowFacts DEF Children, a
    <2>2. \A e \in Children(D, n), d \in D :
            IsPre(e, d) => /\ IsPre(n, d) /\ e[Len(e)] = d[a + 1] /\ a + 1 <= Len(d)
      <3>1. ASSUME NEW e \in Children(D, n), NEW d \in D, IsPre(e, d)
            PROVE  IsPre(n, d) /\ e[Len(e)] = d[a + 1] /\ a + 1 <= Len(d)
        <4>1. e \in Path /\ d \in Path /\ IsPre(n, e) /\ Len(e) = a + 1
          BY <1>1, <2>1, <3>1
        <4> QED
          BY <1>1, <3>1, <4>1, PreOrder DEF IsPre
      <3> QED
        BY <3>1
    <2>3. \A e \in Children(D, n) : \A d : d \in RReach(f, i + 1, e) <=>
            d \in D /\ IsPre(e, d) /\ \E k \in (a + 1)..Len(d) : Reached(f, o, a + 1, d, k)
      <3>1. \A e \in Children(D, n) : Len(e) = a + 1 /\ (i + 1) - 1 - Len(e) = o
        BY <1>1, <2>1 DEF o
      <3> QED
        BY <3>1 DEF RReach, D
    <2>4. ASSUME NEW d \in RReach(f, i, n) PROVE \E e \in C : d \in RReach(f, i + 1, e)
      <3>1. PICK k \in a..Len(d) : Reached(f, o, a, d, k)
        BY <1>4, <2>4
      <3>2. d \in D /\ d \in Path /\ Len(d) \in Nat /\ IsPre(n, d)
        BY <1>2, <1>4, <2>4
      <3>3. k # a
        BY <1>3, <1>7, <3>1 DEF Reached
      <3>4. k \in Nat /\ a < k /\ k <= Len(d) /\ a + 1 \in 0..Len(d) /\ k \in (a + 1)..Len(d)
        BY <1>1, <3>1, <3>2, <3>3
      <3>5. Reached(f, o, a + 1, d, k) /\ Level(f[i]) \in {"+", d[a + 1]}
        BY <1>1, <1>3, <3>1, <3>2, <3>4, ReachedStep
      <3> DEFINE e == SubSeq(d, 1, a + 1)
      <3>6. e \in Path /\ Len(e) = a + 1 /\ e[a + 1] = d[a + 1] /\ IsPre(e, d)
        BY <1>1, <3>2, <3>4, FirstLevels
      <3> HIDE DEF e
      <3>7. e \in D /\ IsPre(n, e)
        BY <1>1, <3>2, <3>4, <3>6, PreChain DEF Tree, D, a
      <3>8. e \in C
        BY <2>1, <3>5, <3>6, <3>7
      <3> QED
        BY <2>3, <3>2, <3>4, <3>5, <3>6, <3>8
    <2>5. ASSUME NEW e \in C, NEW d \in RReach(f, i + 1, e) PROVE d \in RReach(f, i, n)
      <3>1. /\ d \in D /\ IsPre(e, d) /\ e \in Children(D, n)
            /\ \E k \in (a + 1)..Len(d) : Reached(f, o, a + 1, d, k)
        BY <2>3, <2>5
      <3>2. PICK k \in (a + 1)..Len(d) : Reached(f, o, a + 1, d, k)
        BY <3>1
      <3>3. IsPre(n, d) /\ Level(f[i]) \in {"+", d[a + 1]} /\ d \in Path /\ Len(d) \in Nat
        BY <1>2, <2>2, <2>5, <3>1
      <3>4. k \in Nat /\ a < k /\ k <= Len(d) /\ k \in a..Len(d)
        BY <1>1, <3>2, <3>3
      <3>5. Reached(f, o, a, d, k)
        BY <1>1, <1>3, <1>7, <3>2, <3>3, <3>4, ReachedStep DEF Through
      <3> QED
        BY <1>4, <3>1, <3>3, <3>4, <3>5
    <2>6. RReach(f, i, n) = UNION {RReach(f, i + 1, d) : d \in C}
      <3> HIDE DEF C
      <3> QED BY <2>4, <2>5
    <2> QED
      BY <1>7, <2>6 DEF D
  <1> QED
    BY <1>5, <1>6, <1>7

\* rmatch: the objects of the nodes that the filter reaches from the root.
LEMMA RMatch ==
  ASSUME Tree(DOMAIN rnodes), NEW f \in Topic
  PROVE  rmatch(f) = {rnodes[n] : n \in RReach(f, 1, <<>>)} \ {NoMsg}
  <1> DEFINE L == Len(f) + 1
             w == [i \in 1..L |-> [n \in DOMAIN rnodes |-> RReach(f, i, n)]]
             M == CHOOSE m : m = [i \in 1..L |-> rbody(f, m, i)]
  <1>1. L \in Nat /\ Len(f) \in Nat /\ 1 \in 1..L /\ <<>> \in DOMAIN rnodes
    BY TopicPath DEF Tree
  <1>2. w = [i \in 1..L |-> rbody(f, w, i)]
    <2>1. ASSUME NEW i \in 1..L, NEW n \in DOMAIN rnodes
          PROVE  w[i][n] = rbody(f, w, i)[n]
      <3>1. w[i][n] = RReach(f, i, n)
        OBVIOUS
      <3>2. rbody(f, w, i)[n] =
              IF End(f, i) THEN {n}
              ELSE IF f[i] = "#" THEN Below(DOMAIN rnodes, n)
              ELSE UNION {w[i + 1][d] : d \in {e \in Children(DOMAIN rnodes, n) :
                                                 Level(f[i]) \in {"+", e[Len(e)]}}}
        <4> HIDE DEF w
        <4> QED BY Zenon DEF rbody, End
      <3>3. ASSUME ~End(f, i), NEW d \in DOMAIN rnodes PROVE w[i + 1][d] = RReach(f, i + 1, d)
        <4>1. i + 1 \in 1..L
          BY <1>1, <3>3 DEF End
        <4> QED
          BY <4>1, <3>3
      <3>4. Children(DOMAIN rnodes, n) \subseteq DOMAIN rnodes
        BY DEF Children, Below
      <3> DEFINE C == {e \in Children(DOMAIN rnodes, n) : Level(f[i]) \in {"+", e[Len(e)]}}
      <3>5. ASSUME ~End(f, i)
            PROVE  UNION {w[i + 1][d] : d \in C} = UNION {RReach(f, i + 1, d) : d \in C}
        <4>1. \A d \in C : w[i + 1][d] = RReach(f, i + 1, d)
          BY <3>3, <3>4, <3>5
        <4> HIDE DEF w, C
        <4> QED
          BY <4>1
      <3>6. RReach(f, i, n) = 
              IF End(f, i) THEN {n}
              ELSE IF f[i] = "#" THEN Below(DOMAIN rnodes, n)
              ELSE UNION {RReach(f, i + 1, d) : d \in C}
        BY RReachStep
      <3> HIDE DEF w, C
      <3>7. rbody(f, w, i)[n] =
              IF End(f, i) THEN {n}
              ELSE IF f[i] = "#" THEN Below(DOMAIN rnodes, n)
              ELSE UNION {w[i + 1][d] : d \in C}
        BY <3>2 DEF C
      <3> QED
        BY <3>1, <3>5, <3>6, <3>7
    <2>2. \A i \in 1..L : w[i] = rbody(f, w, i)
      <3> SUFFICES ASSUME NEW i \in 1..L PROVE w[i] = rbody(f, w, i)
        OBVIOUS
      <3>1. w[i] = [n \in DOMAIN rnodes |-> w[i][n]]
        OBVIOUS
      <3>2. rbody(f, w, i) = [n \in DOMAIN rnodes |-> rbody(f, w, i)[n]]
        <4> HIDE DEF w
        <4> QED BY DEF rbody
      <3> HIDE DEF w
      <3> QED
        BY <2>1, <3>1, <3>2, Zenon
    <2>3. w = [i \in 1..L |-> w[i]]
      OBVIOUS
    <2> HIDE DEF w
    <2> QED
      BY <2>2, <2>3, Zenon
  <1>3. M = [i \in 1..L |-> rbody(f, M, i)]
    <2> HIDE DEF w, L
    <2> QED BY <1>2, Zenon
  <1>4. rmatch(f) = {rnodes[n] : n \in M[1][<<>>]} \ {NoMsg}
    BY Zenon DEF rmatch, rbody
  <1> HIDE DEF M, w
  <1>5. ASSUME NEW i \in 1..L, i < L => M[i + 1] = w[i + 1] PROVE M[i] = w[i]
    <2>1. M[i] = rbody(f, M, i) /\ w[i] = rbody(f, w, i)
      <3> HIDE DEF L
      <3> QED BY <1>2, <1>3, Zenon
    <2>2. CASE i < L
      <3>1. M[i + 1] = w[i + 1]
        BY <1>5, <2>2
      <3>2. rbody(f, M, i) = rbody(f, w, i)
        BY <3>1 DEF rbody
      <3> QED
        BY <2>1, <3>2
    <2>3. CASE i >= L
      <3>1. i > Len(f)
        BY <1>1, <2>3
      <3> QED
        BY <2>1, <3>1, Zenon DEF rbody
    <2> QED
      BY <1>1, <2>2, <2>3
  <1>6. M[1] = w[1]
    <2>1. \A i \in 1..L : (i < L => M[i + 1] = w[i + 1]) => M[i] = w[i]
      BY <1>5
    <2>2. L \in Nat /\ 1 \in 1..L
      BY <1>1
    <2> HIDE DEF L
    <2>3. \A i \in 1..L : M[i] = w[i]
      BY <2>1, <2>2, OneResult
    <2> QED
      BY <2>2, <2>3
  <1>7. w[1][<<>>] = RReach(f, 1, <<>>)
    BY <1>1 DEF w
  <1> QED
    BY <1>4, <1>6, <1>7

-----------------------------------------------------------------------------
(* The inductive invariants.                                               *)

Granted == {NoQos} \cup 0..2

Working == {"subscribe", "retained", "lower", "send", "restore"}

\* A place in the order and an object.
Pairs == Nat \X (1..MaxMsgs)

\* Their parts.
LEMMA PairFacts ==
  /\ \A x \in Pairs : x[1] \in Nat /\ x[2] \in 1..MaxMsgs /\ x = <<x[1], x[2]>>
  /\ \A a \in Nat, b \in 1..MaxMsgs : <<a, b>> \in Pairs
  /\ \A a, b : <<a, b>>[1] = a /\ <<a, b>>[2] = b
  <1>1. ASSUME NEW S, NEW T
        PROVE  /\ \A x \in S \X T : x[1] \in S /\ x[2] \in T /\ x = <<x[1], x[2]>>
               /\ \A a \in S, b \in T : <<a, b>> \in S \X T
    OBVIOUS
  <1>2. \A S, T : /\ \A x \in S \X T : x[1] \in S /\ x[2] \in T /\ x = <<x[1], x[2]>>
                  /\ \A a \in S, b \in T : <<a, b>> \in S \X T
    BY <1>1
  <1>3. \A a, b : <<a, b>>[1] = a /\ <<a, b>>[2] = b
    OBVIOUS
  <1> QED
    BY <1>2, <1>3, Zenon DEF Pairs

\* What a connection may be in the middle of.
AtRecord ==
  [step : Steps, packet : Packets \cup {<<>>}, i : Nat, rmsgs : SUBSET Pairs,
   old : Granted, topic : TopicNames \cup {<<>>}, msg : 0..MaxMsgs, subs : SUBSET Clients]

\* The subscription tree is a tree.
SubTree == Tree(DOMAIN snodes) /\ snodes \in [DOMAIN snodes -> [Clients -> Granted]]

\* The tree of retained messages is a tree, and its objects have a message.
RetTree ==
  /\ Tree(DOMAIN rnodes) /\ rnodes \in [DOMAIN rnodes -> 0..MaxMsgs]
  /\ rmsg \in [1..MaxMsgs -> [msg : 0..MaxMsgs, qos : 0..2]]
  /\ \A n \in DOMAIN rnodes : rnodes[n] # NoMsg => rmsg[rnodes[n]].msg # NoMsg

\* The rest of the state.
Books ==
  /\ rstore \in [TopicNames -> 0..MaxMsgs]
  /\ topics \in [Clients -> [Filters -> [qos : Granted, handling : 0..2]]]
  /\ nmsg \in 0..MaxMsgs
  /\ delivered \in [Clients -> SUBSET (1..MaxMsgs)]

\* A connection has what its next step takes.
AtOK(c) ==
  /\ at[c].step = "idle" => at[c] = Idle
  /\ at[c].step \in Working => at[c].packet \in Packets /\ at[c].i \in DOMAIN at[c].packet
  /\ at[c].step \in {"send", "restore"} => at[c].old \in 0..2
  /\ at[c].step \in {"match", "lookSend"} => at[c].topic \in TopicNames
  /\ \A x \in at[c].rmsgs : rmsg[x[2]].msg # NoMsg

TypeInv ==
  SubTree /\ RetTree /\ Books /\ at \in [Clients -> AtRecord] /\ \A c \in Clients : AtOK(c)

\* No level is empty.
PlainLevels == \A t \in Filters \cup TopicNames : \A i \in DOMAIN t : t[i] # Empty

\* The QoS that the tree has for a client at a path.
Held(s, n, c) == IF n \in DOMAIN s THEN s[n][c] ELSE NoQos

\* The tree has what the sessions have; of a subscription that the handler has put into
\* the tree and not yet into the session, the new QoS.
Agrees(c, n) ==
  LET s == IF n \in Filters THEN topics[c][n].qos ELSE NoQos IN
  Held(snodes, n, c) = IF at[c].step = "retained" /\ n = sub(c).topic THEN sub(c).qos ELSE s

\* In the session, a subscription without a QoS is none.
SessionOK(c) ==
  /\ \A f \in Filters : topics[c][f].qos = NoQos => topics[c][f] = NoSub
  /\ at[c].step = "offline" => topics[c] = NoTopics

RouteInv == \A c \in Clients : SessionOK(c) /\ \A n \in Path : Agrees(c, n)

\* The tree has the store's messages, of topics with no topic below them all.
NodeOK(n) ==
  rnodes[n] # NoMsg =>
    n \in TopicNames /\ rmsg[rnodes[n]].msg = rstore[n] /\ rnodes[n] <= nmsg
StoreInv ==
  /\ \A n \in DOMAIN rnodes : NodeOK(n)
  /\ \A n, k \in DOMAIN rnodes : rnodes[n] # NoMsg /\ rnodes[n] = rnodes[k] => n = k
  /\ \A t \in Leaves : rstore[t] # NoMsg => t \in DOMAIN rnodes /\ rnodes[t] # NoMsg

\* One message at most is at work, in front; the filter of a subscription that is being
\* added was not refused.
FrontOK(c) ==
  /\ \A x \in at[c].rmsgs :
       x[1] = 0 => /\ at[c].step \in {"send", "restore"}
                   /\ \A y \in at[c].rmsgs : y[1] = 0 => y = x
  /\ at[c].step \in {"send", "restore"} => \E x \in at[c].rmsgs : x[1] = 0
  /\ at[c].step = "retained" => ~Refused(sub(c).topic)

Fronts == \A c \in Clients : FrontOK(c)

\* The publisher d of the message of t has yet to look for subscribers.
ToMatch(d, t) == at[d].step = "match" /\ at[d].topic = t /\ at[d].msg = rstore[t]

\* It has found client c.
ToHand(d, c, t) == at[d].step = "lookSend" /\ at[d].msg = rstore[t] /\ c \in at[d].subs

\* The handler of client c has the object of t and has not yet sent it.
ToSend(c, t) ==
  /\ at[c].step \in Working
  /\ \E x \in at[c].rmsgs : x[2] = rnodes[t] /\ (at[c].step = "restore" => x[1] # 0)

\* The message of topic t is at the client, or will be.
Coming(c, t) ==
  \/ rstore[t] \in delivered[c]
  \/ \E d \in Clients : ToMatch(d, t) \/ ToHand(d, c, t)
  \/ ToSend(c, t)

\* A client whose session asks for the retained message of t.
Asks(c, t) ==
  /\ at[c].step \notin {"stop", "offline"}
  /\ \E f \in Filters : topics[c][f] # NoSub /\ topics[c][f].handling = 0 /\ Matches(f, t)

ComingInv ==
  \A c \in Clients, t \in Leaves : rstore[t] # NoMsg /\ Asks(c, t) => Coming(c, t)

-----------------------------------------------------------------------------
(* What the calls of a tree do.                                            *)

\* The way to p is made, and nothing else changes.
LEMMA WayFacts ==
  ASSUME SubTree, NEW p \in Path
  PROVE  /\ DOMAIN Way(p) = DOMAIN snodes \cup Prefixes(p)
         /\ Tree(DOMAIN Way(p)) /\ Way(p) \in [DOMAIN Way(p) -> [Clients -> Granted]]
         /\ p \in DOMAIN Way(p)
         /\ \A n \in DOMAIN Way(p) : Way(p)[n] = IF n \in DOMAIN snodes THEN snodes[n] ELSE Nobody
  <1>1. Nobody \in [Clients -> Granted]
    BY DEF Nobody, Granted
  <1>2. Way(p) = [n \in DOMAIN snodes \cup Prefixes(p) |->
                    IF n \in DOMAIN snodes THEN snodes[n] ELSE Nobody]
    BY DEF Way
  <1>3. DOMAIN Way(p) = DOMAIN snodes \cup Prefixes(p)
    BY <1>2
  <1>4. \A n \in DOMAIN Way(p) : Way(p)[n] = IF n \in DOMAIN snodes THEN snodes[n] ELSE Nobody
    BY <1>2
  <1>5. Way(p) \in [DOMAIN Way(p) -> [Clients -> Granted]]
    BY <1>1, <1>2 DEF SubTree
  <1>6. Tree(DOMAIN Way(p)) /\ p \in DOMAIN Way(p)
    BY <1>3, TreeGrow DEF SubTree
  <1> QED
    BY <1>3, <1>4, <1>5, <1>6

\* sinsert of a filter that is refused.
LEMMA RefusedInsert ==
  ASSUME SubTree, NEW f \in Topic, NEW c \in Clients, NEW q \in 0..2, Refused(f)
  PROVE  LET s == sinsert(f, c, q)
             p == SubSeq(path(f), 1, GoodLevels(f))
         IN  /\ p \in Path
             /\ Tree(DOMAIN s) /\ s \in [DOMAIN s -> [Clients -> Granted]]
             /\ DOMAIN s = DOMAIN snodes \cup Prefixes(p)
             /\ \A n \in DOMAIN s : s[n] = IF n \in DOMAIN snodes THEN snodes[n] ELSE Nobody
             /\ \A n, d : d \in Clients => Held(s, n, d) = Held(snodes, n, d)
  <1> DEFINE s == sinsert(f, c, q)
             p == SubSeq(path(f), 1, GoodLevels(f))
  <1>1. p \in Path
    BY TopicPath, GoodFacts, FirstLevels
  <1>2. s = Way(p)
    BY DEF sinsert
  <1> HIDE DEF s, p
  <1>3. /\ Tree(DOMAIN s) /\ s \in [DOMAIN s -> [Clients -> Granted]]
        /\ DOMAIN s = DOMAIN snodes \cup Prefixes(p)
        /\ \A n \in DOMAIN s : s[n] = IF n \in DOMAIN snodes THEN snodes[n] ELSE Nobody
    BY <1>1, <1>2, WayFacts
  <1>4. \A n, d : d \in Clients => Held(s, n, d) = Held(snodes, n, d)
    BY <1>3 DEF Held, Nobody
  <1> QED
    BY <1>1, <1>3, <1>4 DEF s, p

\* Tree s is the subscription tree with client c and QoS q at node p.
Inserted(s, p, c, q) ==
  /\ p \in Path
  /\ Tree(DOMAIN s) /\ s \in [DOMAIN s -> [Clients -> Granted]]
  /\ DOMAIN s = DOMAIN snodes \cup Prefixes(p) /\ p \in DOMAIN s
  /\ s[p][c] = q
  /\ \A n \in DOMAIN s : n # p => s[n] = IF n \in DOMAIN snodes THEN snodes[n] ELSE Nobody
  /\ \A d \in Clients : d # c => s[p][d] = Held(snodes, p, d)

\* sinsert of a filter that is not.
LEMMA Insert ==
  ASSUME SubTree, NEW f \in Topic, NEW c \in Clients, NEW q \in 0..2, ~Refused(f)
  PROVE  Inserted(sinsert(f, c, q), path(f), c, q)
  <1> DEFINE s == sinsert(f, c, q)
             p == path(f)
             w == Way(p)
  <1>1. p \in Path
    BY TopicPath
  <1>2. s = [w EXCEPT ![p][c] = q]
    BY DEF sinsert
  <1>3. /\ DOMAIN w = DOMAIN snodes \cup Prefixes(p)
        /\ Tree(DOMAIN w) /\ w \in [DOMAIN w -> [Clients -> Granted]]
        /\ p \in DOMAIN w
        /\ \A n \in DOMAIN w : w[n] = IF n \in DOMAIN snodes THEN snodes[n] ELSE Nobody
    BY <1>1, WayFacts
  <1> HIDE DEF s, p, w
  <1>4. q \in Granted
    BY DEF Granted
  <1>5. DOMAIN s = DOMAIN w /\ s \in [DOMAIN w -> [Clients -> Granted]]
    BY <1>2, <1>3, <1>4
  <1>6. s[p] = [w[p] EXCEPT ![c] = q] /\ \A n \in DOMAIN w : n # p => s[n] = w[n]
    BY <1>2, <1>3
  <1>7. w[p] \in [Clients -> Granted]
    BY <1>3
  <1>8. s[p][c] = q /\ \A d \in Clients : d # c => s[p][d] = w[p][d]
    BY <1>6, <1>7
  <1>9. \A n \in DOMAIN w, d \in Clients : w[n][d] = Held(snodes, n, d)
    BY <1>3 DEF Held, Nobody
  <1>10. \A d \in Clients : d # c => s[p][d] = Held(snodes, p, d)
    BY <1>3, <1>8, <1>9
  <1> QED
    BY <1>1, <1>3, <1>5, <1>6, <1>8, <1>10 DEF s, p, Inserted

\* Only the one subscription changes.
LEMMA InsertHeld ==
  ASSUME SubTree, NEW f \in Topic, NEW c \in Clients, NEW q \in 0..2, ~Refused(f),
         NEW n, NEW d \in Clients
  PROVE  Held(sinsert(f, c, q), n, d) = IF n = path(f) /\ d = c THEN q ELSE Held(snodes, n, d)
  <1> DEFINE s == sinsert(f, c, q)
             p == path(f)
  <1>1. Inserted(s, p, c, q)
    BY Insert
  <1> HIDE DEF s, p
  <1>2. DOMAIN s = DOMAIN snodes \cup Prefixes(p) /\ p \in DOMAIN s
    BY <1>1 DEF Inserted
  <1>3. s[p][c] = q /\ (d # c => s[p][d] = Held(snodes, p, d))
    BY <1>1 DEF Inserted
  <1>4. n \in DOMAIN s /\ n # p => s[n] = IF n \in DOMAIN snodes THEN snodes[n] ELSE Nobody
    BY <1>1 DEF Inserted
  <1>5. ASSUME n = p PROVE Held(s, n, d) = IF d = c THEN q ELSE Held(snodes, n, d)
    BY <1>2, <1>3, <1>5 DEF Held
  <1>6. ASSUME n # p PROVE Held(s, n, d) = Held(snodes, n, d)
    BY <1>2, <1>4, <1>6 DEF Held, Nobody
  <1> QED
    BY <1>5, <1>6 DEF s, p

\* The nodes that sremove deletes.
Gone(p, c) ==
  LET left == [snodes EXCEPT ![p][c] = NoQos] IN
  {n \in Prefixes(p) \ {<<>>} :
     /\ Below(DOMAIN left, n) \subseteq Prefixes(p)
     /\ \A d \in Below(DOMAIN left, n) : left[d] = Nobody}

\* sremove of a client that is in the list: the nodes that go have nobody left.
LEMMA RemoveHeld ==
  ASSUME SubTree, NEW f \in Topic, NEW c \in Clients,
         path(f) \in DOMAIN snodes, snodes[path(f)][c] # NoQos
  PROVE  LET s == sremove(f, c)
             p == path(f)
             left == [snodes EXCEPT ![p][c] = NoQos]
         IN  /\ p \in Path
             /\ left \in [DOMAIN snodes -> [Clients -> Granted]] /\ DOMAIN left = DOMAIN snodes
             /\ left[p][c] = NoQos
             /\ \A n \in DOMAIN snodes, d \in Clients : n # p \/ d # c => left[n][d] = snodes[n][d]
             /\ \A n \in DOMAIN snodes : n # p => left[n] = snodes[n]
             /\ DOMAIN s = DOMAIN snodes \ Gone(p, c)
             /\ \A n \in DOMAIN s : s[n] = left[n]
             /\ \A n : n \in Gone(p, c) <=>
                  /\ n \in Prefixes(p) /\ n # <<>>
                  /\ Below(DOMAIN snodes, n) \subseteq Prefixes(p)
                  /\ \A d \in Below(DOMAIN snodes, n) : left[d] = Nobody
  <1> DEFINE s == sremove(f, c)
             p == path(f)
             left == [snodes EXCEPT ![p][c] = NoQos]
  <1>1. p \in Path
    BY TopicPath
  <1>2. s = [n \in DOMAIN left \ Gone(p, c) |-> left[n]]
    BY DEF sremove, Gone
  <1>3. snodes \in [DOMAIN snodes -> [Clients -> Granted]] /\ p \in DOMAIN snodes /\ NoQos \in Granted
    BY DEF SubTree, Granted
  <1>4. \A n : n \in Gone(p, c) <=>
                  /\ n \in Prefixes(p) /\ n # <<>>
                  /\ Below(DOMAIN left, n) \subseteq Prefixes(p)
                  /\ \A d \in Below(DOMAIN left, n) : left[d] = Nobody
    BY DEF Gone
  <1>5. DOMAIN left = DOMAIN snodes /\ left \in [DOMAIN snodes -> [Clients -> Granted]]
    <2> HIDE DEF p
    <2> QED BY <1>3
  <1>6. left[p] = [snodes[p] EXCEPT ![c] = NoQos] /\ \A n \in DOMAIN snodes : n # p => left[n] = snodes[n]
    <2> HIDE DEF p
    <2> QED BY <1>3
  <1> HIDE DEF s, p, left
  <1>7. snodes[p] \in [Clients -> Granted]
    BY <1>3
  <1>8. left[p][c] = NoQos /\ \A d \in Clients : d # c => left[p][d] = snodes[p][d]
    BY <1>6, <1>7
  <1>9. DOMAIN s = DOMAIN snodes \ Gone(p, c) /\ \A n \in DOMAIN s : s[n] = left[n]
    BY <1>2, <1>5
  <1>10. \A n \in DOMAIN snodes, d \in Clients : n # p \/ d # c => left[n][d] = snodes[n][d]
    BY <1>6, <1>8
  <1> QED
    BY <1>1, <1>4, <1>5, <1>6, <1>8, <1>9, <1>10 DEF s, p, left

\* sremove: the tree stays a tree, and only the one subscription goes.
LEMMA Remove ==
  ASSUME SubTree, NEW f \in Topic, NEW c \in Clients
  PROVE  LET s == sremove(f, c) IN
         /\ Tree(DOMAIN s) /\ s \in [DOMAIN s -> [Clients -> Granted]]
         /\ \A n, d : d \in Clients =>
              Held(s, n, d) = IF n = path(f) /\ d = c THEN NoQos ELSE Held(snodes, n, d)
  <1> DEFINE s == sremove(f, c)
             p == path(f)
             left == [snodes EXCEPT ![p][c] = NoQos]
  <1>1. CASE p \notin DOMAIN snodes \/ snodes[p][c] = NoQos
    <2>1. s = snodes
      BY <1>1 DEF sremove
    <2> QED
      BY <1>1, <2>1 DEF SubTree, Held
  <1>2. CASE p \in DOMAIN snodes /\ snodes[p][c] # NoQos
    <2>1. /\ p \in Path
          /\ left \in [DOMAIN snodes -> [Clients -> Granted]] /\ DOMAIN left = DOMAIN snodes
          /\ left[p][c] = NoQos
          /\ \A n \in DOMAIN snodes, d \in Clients : n # p \/ d # c => left[n][d] = snodes[n][d]
          /\ DOMAIN s = DOMAIN snodes \ Gone(p, c)
          /\ \A n \in DOMAIN s : s[n] = left[n]
          /\ \A n : n \in Gone(p, c) <=>
                  /\ n \in Prefixes(p) /\ n # <<>>
                  /\ Below(DOMAIN snodes, n) \subseteq Prefixes(p)
                  /\ \A d \in Below(DOMAIN snodes, n) : left[d] = Nobody
      BY <1>2, RemoveHeld
    <2>2. s = [n \in DOMAIN left \ Gone(p, c) |-> left[n]]
      BY <1>2 DEF sremove, Gone
    <2> HIDE DEF s, left, p
    <2>3. s \in [DOMAIN s -> [Clients -> Granted]]
      BY <2>1, <2>2
    <2>4. Tree(DOMAIN s)
      <3> DEFINE E == {n \in DOMAIN snodes : left[n] # Nobody}
                 G == Gone(p, c)
      <3>1. \A n : Below(DOMAIN snodes, n) \subseteq DOMAIN snodes
        BY DEF Below
      <3>2. \A n : n \in G <=>
                  /\ n \in Prefixes(p) /\ n # <<>>
                  /\ Below(DOMAIN snodes, n) \subseteq Prefixes(p)
                  /\ \A d \in Below(DOMAIN snodes, n) : d \notin E
        BY <2>1, <3>1
      <3> HIDE DEF E, G
      <3>3. Tree(DOMAIN snodes \ G)
        BY <2>1, <3>2, TreePrune DEF SubTree
      <3> QED
        BY <2>1, <3>3 DEF G
    <2>5. ASSUME NEW n, NEW d \in Clients
          PROVE  Held(s, n, d) = IF n = p /\ d = c THEN NoQos ELSE Held(snodes, n, d)
      <3>1. CASE n \in DOMAIN s
        BY <2>1, <3>1 DEF Held
      <3>2. CASE n \in Gone(p, c) /\ n \in DOMAIN snodes
        <4>1. n \in Path /\ n \in Below(DOMAIN snodes, n)
          BY <3>2, BelowFacts, PreOrder DEF SubTree, Tree
        <4>2. left[n] = Nobody
          BY <2>1, <3>2, <4>1
        <4>3. left[n][d] = NoQos
          BY <4>2 DEF Nobody
        <4>4. n \notin DOMAIN s
          BY <2>1, <3>2
        <4> QED
          BY <2>1, <3>2, <4>3, <4>4 DEF Held
      <3>3. CASE n \notin DOMAIN snodes
        BY <2>1, <3>3 DEF Held
      <3> QED
        BY <2>1, <3>1, <3>2, <3>3
    <2> QED
      BY <2>3, <2>4, <2>5 DEF s, p
  <1> QED
    BY <1>1, <1>2

\* rinsert: one object gets the message, at the topic's node.
LEMMA RInsert ==
  ASSUME RetTree, NEW t \in Topic, NEW m \in 1..MaxMsgs, rinsert(t, m)
  PROVE  LET p == path(t)
             o == IF p \in DOMAIN rnodes /\ rnodes[p] # NoMsg THEN rnodes[p] ELSE m
         IN  /\ p \in Path /\ o \in 1..MaxMsgs
             /\ DOMAIN rnodes' = DOMAIN rnodes \cup Prefixes(p) /\ p \in DOMAIN rnodes'
             /\ rnodes'[p] = o
             /\ \A n \in DOMAIN rnodes' :
                  n # p => rnodes'[n] = IF n \in DOMAIN rnodes THEN rnodes[n] ELSE NoMsg
             /\ DOMAIN rmsg' = 1..MaxMsgs
             /\ rmsg'[o].msg = m
             /\ \A k \in 1..MaxMsgs : k # o => rmsg'[k] = rmsg[k]
             /\ \A k \in 1..MaxMsgs : rmsg[k].msg # NoMsg => rmsg'[k].msg # NoMsg
             /\ RetTree'
  <1> DEFINE p == path(t)
             o == IF p \in DOMAIN rnodes /\ rnodes[p] # NoMsg THEN rnodes[p] ELSE m
             e == [msg |-> m, qos |-> PubQos]
             D == DOMAIN rnodes \cup Prefixes(p)
  <1>1. p \in Path
    BY TopicPath
  <1>2. /\ rnodes' = [n \in D |-> IF n = p THEN o ELSE IF n \in DOMAIN rnodes THEN rnodes[n] ELSE NoMsg]
        /\ rmsg' = [rmsg EXCEPT ![o] = e]
    BY Zenon DEF rinsert
  <1>3. MaxMsgs \in Nat /\ NoMsg = 0 /\ m \in 0..MaxMsgs /\ PubQos \in 0..2 /\ m # NoMsg
    BY TopicsAssumption DEF NoMsg
  <1>4. rnodes \in [DOMAIN rnodes -> 0..MaxMsgs] /\ rmsg \in [1..MaxMsgs -> [msg : 0..MaxMsgs, qos : 0..2]]
    BY DEF RetTree
  <1>5. Tree(D) /\ p \in D
    BY <1>1, TreeGrow DEF RetTree
  <1> HIDE DEF p, D
  <1>6. o \in 1..MaxMsgs
    BY <1>3, <1>4
  <1>7. e \in [msg : 0..MaxMsgs, qos : 0..2] /\ e.msg = m
    BY <1>3
  <1> HIDE DEF o, e
  <1>8. DOMAIN rnodes' = D /\ rnodes'[p] = o
    BY <1>2, <1>5
  <1>9. \A n \in D : n # p => rnodes'[n] = IF n \in DOMAIN rnodes THEN rnodes[n] ELSE NoMsg
    BY <1>2
  <1>10. rnodes' \in [D -> 0..MaxMsgs]
    <2>1. o \in 0..MaxMsgs /\ NoMsg \in 0..MaxMsgs /\ \A n \in DOMAIN rnodes : rnodes[n] \in 0..MaxMsgs
      BY <1>3, <1>4, <1>6
    <2> QED
      BY <1>2, <2>1
  <1>11. /\ rmsg' \in [1..MaxMsgs -> [msg : 0..MaxMsgs, qos : 0..2]] /\ DOMAIN rmsg' = 1..MaxMsgs
         /\ rmsg'[o] = e /\ \A k \in 1..MaxMsgs : k # o => rmsg'[k] = rmsg[k]
    BY <1>2, <1>4, <1>6, <1>7
  <1>12. \A k \in 1..MaxMsgs : rmsg[k].msg # NoMsg => rmsg'[k].msg # NoMsg
    BY <1>3, <1>7, <1>11
  <1>13. ASSUME NEW n \in D, rnodes'[n] # NoMsg PROVE rmsg'[rnodes'[n]].msg # NoMsg
    <2>1. CASE n = p
      BY <1>3, <1>7, <1>8, <1>11, <2>1
    <2>2. CASE n # p
      <3>1. n \in DOMAIN rnodes /\ rnodes'[n] = rnodes[n]
        BY <1>9, <1>13, <2>2
      <3>2. rnodes[n] \in 1..MaxMsgs /\ rmsg[rnodes[n]].msg # NoMsg
        BY <1>3, <1>4, <1>13, <3>1 DEF RetTree
      <3> QED
        BY <1>12, <3>1, <3>2
    <2> QED
      BY <2>1, <2>2
  <1>14. RetTree'
    BY <1>5, <1>8, <1>10, <1>11, <1>13 DEF RetTree
  <1> QED
    BY <1>1, <1>5, <1>6, <1>7, <1>8, <1>9, <1>11, <1>12, <1>14 DEF p, o, D

\* rremove: the topic's message goes, and nodes on the way to it.
LEMMA RRemove ==
  ASSUME RetTree, NEW t \in Topic
  PROVE  LET r == rremove(t) IN
         /\ Tree(DOMAIN r) /\ r \in [DOMAIN r -> 0..MaxMsgs] /\ DOMAIN r \subseteq DOMAIN rnodes
         /\ \A n \in DOMAIN r : r[n] = IF n = path(t) THEN NoMsg ELSE rnodes[n]
         /\ \A n \in DOMAIN rnodes \ DOMAIN r : n \in Prefixes(path(t))
  <1> DEFINE r == rremove(t)
             p == path(t)
             left == [rnodes EXCEPT ![p] = NoMsg]
             G == {n \in Prefixes(p) \ {<<>>} : Below(DOMAIN left, n) \subseteq Prefixes(p)}
  <1>1. p \in Path
    BY TopicPath
  <1>2. CASE p \notin DOMAIN rnodes
    BY <1>2 DEF rremove, RetTree
  <1>3. CASE p \in DOMAIN rnodes
    <2>1. r = [n \in DOMAIN left \ G |-> left[n]]
      BY <1>3 DEF rremove
    <2>2. rnodes \in [DOMAIN rnodes -> 0..MaxMsgs] /\ NoMsg \in 0..MaxMsgs
      BY TopicsAssumption DEF RetTree, NoMsg
    <2>3. /\ DOMAIN left = DOMAIN rnodes /\ left \in [DOMAIN rnodes -> 0..MaxMsgs]
          /\ \A n \in DOMAIN rnodes : left[n] = IF n = p THEN NoMsg ELSE rnodes[n]
      <3> HIDE DEF p
      <3> QED BY <1>3, <2>2
    <2>4. \A n : n \in G <=> /\ n \in Prefixes(p) /\ n # <<>>
                             /\ Below(DOMAIN rnodes, n) \subseteq Prefixes(p)
      BY <2>3
    <2> HIDE DEF r, p, left, G
    <2>5. Tree(DOMAIN rnodes \ G)
      <3> DEFINE E == {}
      <3>1. \A n : n \in G <=> /\ n \in Prefixes(p) /\ n # <<>>
                               /\ Below(DOMAIN rnodes, n) \subseteq Prefixes(p)
                               /\ \A d \in Below(DOMAIN rnodes, n) : d \notin E
        BY <2>4
      <3> HIDE DEF E
      <3> QED
        BY <1>1, <3>1, TreePrune DEF RetTree
    <2>6. DOMAIN r = DOMAIN rnodes \ G /\ \A n \in DOMAIN r : r[n] = left[n]
      BY <2>1, <2>3
    <2>7. r \in [DOMAIN r -> 0..MaxMsgs]
      BY <2>1, <2>3, <2>6
    <2> QED
      BY <2>3, <2>4, <2>5, <2>6, <2>7 DEF r, p
  <1> QED
    BY <1>2, <1>3

\* What rmatch hands out are objects that have a message.
LEMMA RMatchObjects ==
  ASSUME RetTree, NEW f \in Topic
  PROVE  \A o \in rmatch(f) : o \in 1..MaxMsgs /\ rmsg[o].msg # NoMsg
  <1>1. rmatch(f) = {rnodes[n] : n \in RReach(f, 1, <<>>)} \ {NoMsg}
    BY RMatch DEF RetTree
  <1>2. RReach(f, 1, <<>>) \subseteq DOMAIN rnodes
    BY DEF RReach
  <1>3. ASSUME NEW o \in rmatch(f)
        PROVE  \E n \in DOMAIN rnodes : o = rnodes[n] /\ rnodes[n] # NoMsg
    BY <1>1, <1>2, <1>3
  <1>4. \A n \in DOMAIN rnodes : rnodes[n] # NoMsg => rnodes[n] \in 1..MaxMsgs /\ rmsg[rnodes[n]].msg # NoMsg
    BY TopicsAssumption DEF RetTree, NoMsg
  <1> QED
    BY <1>3, <1>4

-----------------------------------------------------------------------------
(* Types.                                                                  *)

\* Objects that have a message keep one.
Kept == \A k \in 1..MaxMsgs : rmsg[k].msg # NoMsg => rmsg'[k].msg # NoMsg

\* A connection with nothing to do.
LEMMA IdleFacts ==
  /\ Idle \in AtRecord /\ Offline \in AtRecord /\ [Idle EXCEPT !.step = "stop"] \in AtRecord
  /\ Idle.step = "idle" /\ Offline.step = "offline" /\ [Idle EXCEPT !.step = "stop"].step = "stop"
  /\ Idle.rmsgs = {} /\ Offline.rmsgs = {} /\ [Idle EXCEPT !.step = "stop"].rmsgs = {}
  <1>1. MaxMsgs \in Nat
    BY TopicsAssumption
  <1> QED
    BY <1>1 DEF Idle, Offline, AtRecord, Steps, Granted, NoQos, NoMsg

\* The step of one connection leaves the others in order.
LEMMA OneAt ==
  ASSUME at \in [Clients -> AtRecord], \A d \in Clients : AtOK(d), Kept,
         NEW c \in Clients, NEW w \in AtRecord, at' = [at EXCEPT ![c] = w],
         w.step = "idle" => w = Idle,
         w.step \in Working => w.packet \in Packets /\ w.i \in DOMAIN w.packet,
         w.step \in {"send", "restore"} => w.old \in 0..2,
         w.step \in {"match", "lookSend"} => w.topic \in TopicNames,
         \A x \in w.rmsgs : rmsg'[x[2]].msg # NoMsg
  PROVE  at' \in [Clients -> AtRecord] /\ \A d \in Clients : AtOK(d)'
  <1>1. at' \in [Clients -> AtRecord] /\ at'[c] = w /\ \A d \in Clients : d # c => at'[d] = at[d]
    OBVIOUS
  <1>2. AtOK(c)'
    BY <1>1, Zenon DEF AtOK
  <1>3. ASSUME NEW d \in Clients, d # c PROVE AtOK(d)'
    <2>1. at'[d] = at[d]
      BY <1>1, <1>3
    <2>2. \A x \in at[d].rmsgs : x[2] \in 1..MaxMsgs
      <3>1. at[d].rmsgs \subseteq Pairs
        BY DEF AtRecord
      <3> QED
        BY <3>1, PairFacts
    <2>3. \A x \in at[d].rmsgs : rmsg'[x[2]].msg # NoMsg
      BY <2>2 DEF AtOK, Kept
    <2> QED
      BY <2>1, <2>3, Zenon DEF AtOK
  <1> QED
    BY <1>1, <1>2, <1>3

\* What a connection at work is at.
LEMMA SubFacts ==
  ASSUME TypeInv, NEW c \in Clients, at[c].step \in Working
  PROVE  /\ at[c].packet \in Packets /\ at[c].i \in DOMAIN at[c].packet
         /\ at[c].i \in Nat \ {0} /\ Len(at[c].packet) \in Nat
         /\ at[c].i < Len(at[c].packet) => at[c].i + 1 \in DOMAIN at[c].packet
         /\ at[c].packet[1].qos \in 0..2
         /\ sub(c).topic \in Filters /\ sub(c).topic \in Topic
         /\ sub(c).qos \in 0..2 /\ sub(c).handling \in 0..2
  <1>1. at[c].packet \in Packets /\ at[c].i \in DOMAIN at[c].packet
    BY DEF TypeInv, AtOK
  <1>2. DOMAIN at[c].packet = 1..Len(at[c].packet) /\ Len(at[c].packet) \in Nat \ {0}
    BY <1>1, PacketFacts
  <1>3. 1 \in DOMAIN at[c].packet
    BY <1>2
  <1> QED
    BY <1>1, <1>2, <1>3, PacketFacts DEF sub

\* Steps that leave the tree of retained messages alone.
LEMMA RetTreeSame ==
  ASSUME RetTree, UNCHANGED <<rnodes, rmsg>>
  PROVE  RetTree' /\ Kept
  BY DEF RetTree, Kept

\* Subscribe keeps the types.
LEMMA SubscribeType ==
  ASSUME TypeInv, NEW c \in Clients, NEW p \in Packets, NEW i \in DOMAIN p, Subscribe(c, p, i)
  PROVE  TypeInv'
  <1> DEFINE w == IF Refused(p[i].topic) THEN [Idle EXCEPT !.step = "stop"]
                  ELSE [at[c] EXCEPT !.step = "retained", !.packet = p, !.i = i]
  <1>1. at' = [at EXCEPT ![c] = w] /\ snodes' = sinsert(p[i].topic, c, p[i].qos)
    BY DEF Subscribe
  <1>2. UNCHANGED <<rnodes, rmsg, rstore, topics, nmsg, delivered>>
    BY DEF Subscribe
  <1>3. p[i].topic \in Topic /\ p[i].qos \in 0..2 /\ i \in Nat
    BY PacketFacts
  <1>4. RetTree' /\ Kept /\ Books'
    BY <1>2, RetTreeSame DEF TypeInv, Books
  <1>5. SubTree'
    <2>1. Tree(DOMAIN sinsert(p[i].topic, c, p[i].qos))
          /\ sinsert(p[i].topic, c, p[i].qos)
               \in [DOMAIN sinsert(p[i].topic, c, p[i].qos) -> [Clients -> Granted]]
      BY <1>3, RefusedInsert, Insert DEF TypeInv, Inserted
    <2> QED
      BY <1>1, <2>1 DEF SubTree
  <1>6. at[c] \in AtRecord /\ \A x \in at[c].rmsgs : rmsg[x[2]].msg # NoMsg
    BY DEF TypeInv, AtOK
  <1>7. CASE Refused(p[i].topic)
    <2>1. w = [Idle EXCEPT !.step = "stop"]
      BY <1>7
    <2> HIDE DEF w
    <2>2. w \in AtRecord /\ w.step = "stop" /\ w.rmsgs = {}
      BY <2>1, IdleFacts
    <2>3. at' \in [Clients -> AtRecord] /\ \A d \in Clients : AtOK(d)'
      BY <1>1, <1>4, <2>2, OneAt DEF TypeInv, Working
    <2> QED
      BY <1>4, <1>5, <2>3 DEF TypeInv
  <1>8. CASE ~Refused(p[i].topic)
    <2>1. w = [at[c] EXCEPT !.step = "retained", !.packet = p, !.i = i]
      BY <1>8
    <2> HIDE DEF w
    <2>2. /\ w \in AtRecord /\ w.step = "retained" /\ w.rmsgs = at[c].rmsgs
          /\ w.packet = p /\ w.i = i
      BY <1>3, <1>6, <2>1 DEF AtRecord, Steps
    <2>3. \A x \in w.rmsgs : rmsg'[x[2]].msg # NoMsg
      BY <1>2, <1>6, <2>2
    <2>4. at' \in [Clients -> AtRecord] /\ \A d \in Clients : AtOK(d)'
      BY <1>1, <1>4, <2>2, <2>3, OneAt DEF TypeInv
    <2> QED
      BY <1>4, <1>5, <2>4 DEF TypeInv
  <1> QED
    BY <1>7, <1>8

\* What AddTopicRetained has found is there.
LEMMA FoundFacts ==
  ASSUME TypeInv, NEW c \in Clients, at[c].step \in Working, NEW tps
  PROVE  \A x \in Found(c, tps) :
           x \in Pairs /\ x[1] = at[c].i /\ x[2] \in 1..MaxMsgs /\ rmsg[x[2]].msg # NoMsg
  <1>1. \A o \in rmatch(sub(c).topic) : o \in 1..MaxMsgs /\ rmsg[o].msg # NoMsg
    BY SubFacts, RMatchObjects DEF TypeInv
  <1>2. at[c].i \in Nat
    BY SubFacts
  <1>3. ASSUME NEW x \in Found(c, tps)
        PROVE  x \in {<<at[c].i, o>> : o \in rmatch(sub(c).topic)}
    <2>1. CASE sub(c).handling = 0 \/ (sub(c).handling = 1 /\ tps[sub(c).topic] = NoSub)
      BY <1>3, <2>1, Zenon DEF Found
    <2>2. CASE ~(sub(c).handling = 0 \/ (sub(c).handling = 1 /\ tps[sub(c).topic] = NoSub))
      <3>1. Found(c, tps) = {}
        BY <2>2, Zenon DEF Found
      <3> QED
        BY <1>3, <3>1
    <2> QED
      BY <2>1, <2>2
  <1>4. ASSUME NEW x \in Found(c, tps)
        PROVE  /\ x \in Pairs /\ x[1] = at[c].i /\ x[2] \in 1..MaxMsgs
               /\ rmsg[x[2]].msg # NoMsg
    <2>1. PICK o \in rmatch(sub(c).topic) : x = <<at[c].i, o>>
      BY <1>3, <1>4
    <2> DEFINE a == at[c].i
    <2>2. x = <<a, o>> /\ a \in Nat /\ o \in 1..MaxMsgs
      BY <1>1, <1>2, <2>1
    <2> HIDE DEF a
    <2>3. x \in Pairs /\ x[1] = a /\ x[2] = o
      BY <2>2, PairFacts
    <2> QED
      BY <1>1, <2>3 DEF a
  <1> QED
    BY <1>4

\* Where a handler goes on with what is left to send.
LEMMA SendingFacts ==
  ASSUME NEW w \in AtRecord
  PROVE  /\ w.rmsgs = {} => Sending(w) = Idle
         /\ w.rmsgs # {} => /\ Sending(w).step = "lower" /\ Sending(w).rmsgs = w.rmsgs
                            /\ Sending(w).packet = w.packet /\ Sending(w).i = w.i
         /\ Sending(w) \in AtRecord
  <1>1. CASE w.rmsgs = {}
    BY <1>1, IdleFacts DEF Sending
  <1>2. CASE w.rmsgs # {}
    <2>1. Sending(w) = [w EXCEPT !.step = "lower", !.old = NoQos]
      BY <1>2 DEF Sending
    <2> QED
      BY <1>2, <2>1 DEF AtRecord, Steps, Granted
  <1> QED
    BY <1>1, <1>2

\* AddTopicRetained keeps the types.
LEMMA AddTopicType ==
  ASSUME TypeInv, NEW c \in Clients, AddTopicRetained(c)
  PROVE  TypeInv'
  <1> DEFINE F == Found(c, topics'[c])
             w == [at[c] EXCEPT !.rmsgs = @ \cup F]
             u == [w EXCEPT !.step = "subscribe", !.i = @ + 1]
             v == IF w.i < Len(w.packet) THEN u ELSE Sending(w)
             e == [qos |-> sub(c).qos, handling |-> sub(c).handling]
  <1>1. at[c].step = "retained" /\ at[c].step \in Working
    BY DEF AddTopicRetained, Working
  <1>2. at' = [at EXCEPT ![c] = v] /\ topics' = [topics EXCEPT ![c][sub(c).topic] = e]
    BY DEF AddTopicRetained
  <1>3. UNCHANGED <<trees, nmsg, delivered>>
    BY DEF AddTopicRetained
  <1>4. /\ at[c].packet \in Packets /\ at[c].i \in DOMAIN at[c].packet
        /\ at[c].i \in Nat
        /\ at[c].i < Len(at[c].packet) => at[c].i + 1 \in DOMAIN at[c].packet
        /\ sub(c).topic \in Filters /\ sub(c).qos \in 0..2 /\ sub(c).handling \in 0..2
    BY <1>1, SubFacts
  <1>5. SubTree' /\ RetTree' /\ Kept
    BY <1>3, RetTreeSame DEF TypeInv, SubTree, trees
  <1>6. Books'
    <2>1. e \in [qos : Granted, handling : 0..2]
      BY <1>4 DEF Granted
    <2> DEFINE f == sub(c).topic
    <2>2. topics' = [topics EXCEPT ![c][f] = e] /\ f \in Filters
      BY <1>2, <1>4
    <2> HIDE DEF e, f
    <2>3. topics \in [Clients -> [Filters -> [qos : Granted, handling : 0..2]]]
      BY DEF TypeInv, Books
    <2>4. topics' \in [Clients -> [Filters -> [qos : Granted, handling : 0..2]]]
      BY <2>1, <2>2, <2>3
    <2> QED
      BY <1>3, <2>4 DEF TypeInv, Books, trees
  <1>7. at[c] \in AtRecord /\ \A x \in at[c].rmsgs : rmsg[x[2]].msg # NoMsg
    BY DEF TypeInv, AtOK
  <1>8. F \subseteq Pairs /\ \A x \in F : rmsg[x[2]].msg # NoMsg
    BY <1>1, FoundFacts
  <1> HIDE DEF F
  <1>9. /\ w \in AtRecord /\ w.rmsgs = at[c].rmsgs \cup F
        /\ w.packet = at[c].packet /\ w.i = at[c].i
    BY <1>7, <1>8 DEF AtRecord
  <1> HIDE DEF w
  <1>10. /\ v \in AtRecord /\ \A x \in v.rmsgs : x \in w.rmsgs
         /\ v.step \in {"idle", "subscribe", "lower"}
         /\ v.step = "idle" => v = Idle
         /\ v.step \in Working => v.packet \in Packets /\ v.i \in DOMAIN v.packet
    <2>1. CASE w.i < Len(w.packet)
      <3>1. v = u
        BY <2>1
      <3>2. /\ u \in AtRecord /\ u.rmsgs = w.rmsgs /\ u.step = "subscribe"
            /\ u.packet = w.packet /\ u.i = w.i + 1
        <4>1. w.i + 1 \in Nat
          BY <1>4, <1>9
        <4> QED
          BY <1>9, <4>1 DEF AtRecord, Steps
      <3> QED
        BY <1>4, <1>9, <2>1, <3>1, <3>2
    <2>2. CASE ~(w.i < Len(w.packet)) /\ w.rmsgs = {}
      BY <1>9, <2>2, SendingFacts, IdleFacts DEF Working
    <2>3. CASE ~(w.i < Len(w.packet)) /\ w.rmsgs # {}
      <3>1. v = Sending(w)
        BY <2>3
      <3>2. /\ v.step = "lower" /\ v.rmsgs = w.rmsgs
            /\ v.packet = w.packet /\ v.i = w.i /\ v \in AtRecord
        BY <1>9, <2>3, <3>1, SendingFacts
      <3> QED
        BY <1>4, <1>9, <3>2
    <2> QED
      BY <2>1, <2>2, <2>3
  <1> HIDE DEF v
  <1>11. \A x \in v.rmsgs : rmsg'[x[2]].msg # NoMsg
    BY <1>3, <1>7, <1>8, <1>9, <1>10 DEF trees
  <1>12. at' \in [Clients -> AtRecord] /\ \A d \in Clients : AtOK(d)'
    BY <1>2, <1>5, <1>10, <1>11, OneAt DEF TypeInv
  <1> QED
    BY <1>5, <1>6, <1>12 DEF TypeInv

\* A change of the QoS of an object leaves its message.
LEMMA QosOnly ==
  ASSUME RetTree, NEW o \in 1..MaxMsgs, NEW q \in 0..2,
         rmsg' = [rmsg EXCEPT ![o].qos = q], UNCHANGED rnodes
  PROVE  /\ RetTree' /\ Kept /\ \A k \in 1..MaxMsgs : rmsg'[k].msg = rmsg[k].msg
  <1>1. rmsg \in [1..MaxMsgs -> [msg : 0..MaxMsgs, qos : 0..2]]
    BY DEF RetTree
  <1>2. /\ rmsg' \in [1..MaxMsgs -> [msg : 0..MaxMsgs, qos : 0..2]]
        /\ \A k \in 1..MaxMsgs : rmsg'[k].msg = rmsg[k].msg
    BY <1>1
  <1>3. \A n \in DOMAIN rnodes : rnodes[n] # NoMsg => rnodes[n] \in 1..MaxMsgs
    BY TopicsAssumption DEF RetTree, NoMsg
  <1> QED
    BY <1>2, <1>3 DEF RetTree, Kept

\* The lower of two levels of QoS is one.
LEMMA LowerFacts ==
  ASSUME NEW a \in 0..2, NEW b \in 0..2
  PROVE  matchQos(a, b) \in 0..2
  BY DEF matchQos

\* LowerQos keeps the types, and the messages of the objects.
LEMMA LowerType ==
  ASSUME TypeInv, NEW c \in Clients, LowerQos(c)
  PROVE  TypeInv' /\ \A k \in 1..MaxMsgs : rmsg'[k].msg = rmsg[k].msg
  <1>1. /\ at[c].step = "lower" /\ at[c].step \in Working
        /\ UNCHANGED <<snodes, rnodes, rstore, topics, nmsg, delivered>>
    BY DEF LowerQos, Working
  <1>2. PICK x \in at[c].rmsgs :
          /\ rmsg' = [rmsg EXCEPT ![x[2]].qos = matchQos(@, at[c].packet[1].qos)]
          /\ at' = [at EXCEPT ![c].step = "send", ![c].rmsgs = (@ \ {x}) \cup {<<0, x[2]>>},
                              ![c].old = rmsg[x[2]].qos]
    BY DEF LowerQos
  <1>3. at[c] \in AtRecord /\ \A y \in at[c].rmsgs : rmsg[y[2]].msg # NoMsg
    BY DEF TypeInv, AtOK
  <1>4. at[c].rmsgs \subseteq Pairs
    BY <1>3 DEF AtRecord
  <1>5. x \in Pairs /\ x[2] \in 1..MaxMsgs /\ <<0, x[2]>> \in Pairs /\ <<0, x[2]>>[2] = x[2]
    BY <1>2, <1>4, PairFacts
  <1>6. rmsg[x[2]].qos \in 0..2
    BY <1>5 DEF TypeInv, RetTree
  <1> DEFINE o == x[2]
             q == matchQos(rmsg[o].qos, at[c].packet[1].qos)
             z == <<0, x[2]>>
             w == [at[c] EXCEPT !.step = "send", !.rmsgs = (at[c].rmsgs \ {x}) \cup {z},
                                !.old = rmsg[o].qos]
  <1>7. q \in 0..2
    BY <1>1, <1>6, SubFacts, LowerFacts
  <1>8. rmsg' = [rmsg EXCEPT ![o].qos = q] /\ at' = [at EXCEPT ![c] = w]
    BY <1>2
  <1> HIDE DEF q, z
  <1>9. RetTree' /\ Kept /\ \A k \in 1..MaxMsgs : rmsg'[k].msg = rmsg[k].msg
    BY <1>1, <1>5, <1>7, <1>8, QosOnly DEF TypeInv
  <1>10. SubTree' /\ Books'
    BY <1>1 DEF TypeInv, SubTree, Books
  <1>11. (at[c].rmsgs \ {x}) \cup {z} \subseteq Pairs
    BY <1>4, <1>5 DEF z
  <1>12. /\ w \in AtRecord /\ w.step = "send" /\ w.rmsgs = (at[c].rmsgs \ {x}) \cup {z}
         /\ w.packet = at[c].packet /\ w.i = at[c].i /\ w.old \in 0..2
    BY <1>3, <1>6, <1>11 DEF AtRecord, Steps, Granted
  <1> HIDE DEF w
  <1>13. \A y \in w.rmsgs : rmsg'[y[2]].msg # NoMsg
    <2>1. \A y \in at[c].rmsgs : rmsg'[y[2]].msg # NoMsg
      BY <1>3, <1>4, <1>9, PairFacts DEF Kept
    <2> QED
      BY <1>5, <1>12, <2>1 DEF z
  <1>14. w.packet \in Packets /\ w.i \in DOMAIN w.packet
    BY <1>1, <1>12, SubFacts
  <1>15. at' \in [Clients -> AtRecord] /\ \A d \in Clients : AtOK(d)'
    BY <1>8, <1>9, <1>12, <1>13, <1>14, OneAt DEF TypeInv
  <1> QED
    BY <1>9, <1>10, <1>15 DEF TypeInv

\* SendRetained keeps the types.
LEMMA SendType ==
  ASSUME TypeInv, NEW c \in Clients, SendRetained(c)
  PROVE  TypeInv'
  <1>1. /\ at[c].step = "send" /\ at[c].step \in Working /\ UNCHANGED <<trees, topics, nmsg>>
        /\ at' = [at EXCEPT ![c].step = "restore"]
    BY DEF SendRetained, Working
  <1>2. PICK x \in at[c].rmsgs : delivered' = [delivered EXCEPT ![c] = @ \cup {rmsg[x[2]].msg}]
    BY DEF SendRetained
  <1>3. /\ at[c] \in AtRecord /\ at[c].old \in 0..2
        /\ \A y \in at[c].rmsgs : rmsg[y[2]].msg # NoMsg
    BY <1>1 DEF TypeInv, AtOK
  <1>4. x[2] \in 1..MaxMsgs
    BY <1>2, <1>3, PairFacts DEF AtRecord
  <1>5. rmsg[x[2]].msg \in 1..MaxMsgs
    <2>1. rmsg[x[2]].msg \in 0..MaxMsgs
      BY <1>4 DEF TypeInv, RetTree
    <2> QED
      BY <1>2, <1>3, <2>1, TopicsAssumption DEF NoMsg
  <1>6. SubTree' /\ RetTree' /\ Kept
    BY <1>1, RetTreeSame DEF TypeInv, SubTree, trees
  <1>7. Books'
    <2>1. delivered' \in [Clients -> SUBSET (1..MaxMsgs)]
      BY <1>2, <1>5 DEF TypeInv, Books
    <2> QED
      BY <1>1, <2>1 DEF TypeInv, Books, trees
  <1> DEFINE w == [at[c] EXCEPT !.step = "restore"]
  <1>8. at' = [at EXCEPT ![c] = w]
    BY <1>1
  <1>9. /\ w \in AtRecord /\ w.step = "restore" /\ w.rmsgs = at[c].rmsgs
        /\ w.packet = at[c].packet /\ w.i = at[c].i /\ w.old = at[c].old
    BY <1>3 DEF AtRecord, Steps
  <1> HIDE DEF w
  <1>10. w.packet \in Packets /\ w.i \in DOMAIN w.packet
    BY <1>1, <1>9, SubFacts
  <1>11. \A y \in w.rmsgs : rmsg'[y[2]].msg # NoMsg
    BY <1>1, <1>3, <1>9 DEF trees
  <1>12. at' \in [Clients -> AtRecord] /\ \A d \in Clients : AtOK(d)'
    BY <1>3, <1>6, <1>8, <1>9, <1>10, <1>11, OneAt DEF TypeInv
  <1> QED
    BY <1>6, <1>7, <1>12 DEF TypeInv

\* RestoreQos keeps the types, and the messages of the objects.
LEMMA RestoreType ==
  ASSUME TypeInv, NEW c \in Clients, RestoreQos(c)
  PROVE  TypeInv' /\ \A k \in 1..MaxMsgs : rmsg'[k].msg = rmsg[k].msg
  <1>1. /\ at[c].step = "restore" /\ at[c].step \in Working
        /\ UNCHANGED <<snodes, rnodes, rstore, topics, nmsg, delivered>>
    BY DEF RestoreQos, Working
  <1>2. PICK x \in at[c].rmsgs :
          /\ rmsg' = [rmsg EXCEPT ![x[2]].qos = at[c].old]
          /\ at' = [at EXCEPT ![c] = Sending([at[c] EXCEPT !.rmsgs = at[c].rmsgs \ {x}])]
    BY DEF RestoreQos
  <1>3. /\ at[c] \in AtRecord /\ at[c].old \in 0..2
        /\ \A y \in at[c].rmsgs : rmsg[y[2]].msg # NoMsg
    BY <1>1 DEF TypeInv, AtOK
  <1>4. at[c].rmsgs \subseteq Pairs /\ x[2] \in 1..MaxMsgs
    BY <1>2, <1>3, PairFacts DEF AtRecord
  <1>5. RetTree' /\ Kept /\ \A k \in 1..MaxMsgs : rmsg'[k].msg = rmsg[k].msg
    BY <1>1, <1>2, <1>3, <1>4, QosOnly DEF TypeInv
  <1>6. SubTree' /\ Books'
    BY <1>1 DEF TypeInv, SubTree, Books
  <1> DEFINE w == [at[c] EXCEPT !.rmsgs = at[c].rmsgs \ {x}]
             v == Sending(w)
  <1>7. at' = [at EXCEPT ![c] = v]
    BY <1>2 DEF Sending
  <1>8. /\ w \in AtRecord /\ w.rmsgs = at[c].rmsgs \ {x}
        /\ w.packet = at[c].packet /\ w.i = at[c].i
    BY <1>3, <1>4 DEF AtRecord
  <1> HIDE DEF w
  <1>9. /\ v \in AtRecord /\ v.rmsgs = w.rmsgs /\ v.step \in {"idle", "lower"}
        /\ v.step = "idle" => v = Idle
        /\ v.step \in Working => v.packet \in Packets /\ v.i \in DOMAIN v.packet
    <2>1. CASE w.rmsgs = {}
      BY <1>8, <2>1, SendingFacts, IdleFacts DEF Working
    <2>2. CASE w.rmsgs # {}
      BY <1>1, <1>8, <2>2, SendingFacts, SubFacts
    <2> QED
      BY <2>1, <2>2
  <1> HIDE DEF v
  <1>10. \A y \in v.rmsgs : rmsg'[y[2]].msg # NoMsg
    BY <1>3, <1>4, <1>5, <1>8, <1>9, PairFacts DEF Kept
  <1>11. at' \in [Clients -> AtRecord] /\ \A d \in Clients : AtOK(d)'
    BY <1>5, <1>7, <1>9, <1>10, OneAt DEF TypeInv
  <1> QED
    BY <1>5, <1>6, <1>11 DEF TypeInv

\* A subscription that is removed, by UNSUBSCRIBE or at the end of a connection.
LEMMA RemoveType ==
  ASSUME TypeInv, NEW c \in Clients, NEW f \in Filters,
         snodes' = sremove(f, c), topics' = [topics EXCEPT ![c][f] = NoSub],
         UNCHANGED <<rnodes, rmsg, rstore, at, nmsg, delivered>>
  PROVE  TypeInv'
  <1>1. f \in Topic
    BY PacketFacts
  <1>2. SubTree'
    BY <1>1, Remove DEF TypeInv, SubTree
  <1>3. RetTree' /\ Kept
    BY RetTreeSame DEF TypeInv
  <1>4. Books'
    <2>1. NoSub \in [qos : Granted, handling : 0..2]
      BY DEF NoSub, Granted
    <2>2. topics' \in [Clients -> [Filters -> [qos : Granted, handling : 0..2]]]
      BY <2>1 DEF TypeInv, Books
    <2> QED
      BY <2>2 DEF TypeInv, Books
  <1>5. at' \in [Clients -> AtRecord] /\ \A d \in Clients : AtOK(d)'
    BY Zenon DEF TypeInv, AtOK
  <1> QED
    BY <1>2, <1>3, <1>4, <1>5 DEF TypeInv

\* Retain, in the tree and in the store.
LEMMA RetainType ==
  ASSUME TypeInv, NEW t \in TopicNames, NEW m \in 0..MaxMsgs, Retain(t, m)
  PROVE  /\ RetTree' /\ Kept /\ rstore' = [rstore EXCEPT ![t] = m]
         /\ rstore' \in [TopicNames -> 0..MaxMsgs]
  <1>1. t \in Topic
    BY PacketFacts
  <1>2. rstore' = [rstore EXCEPT ![t] = m] /\ rstore' \in [TopicNames -> 0..MaxMsgs]
    BY DEF Retain, TypeInv, Books
  <1>3. CASE m = NoMsg
    <2>1. rnodes' = rremove(t) /\ rmsg' = rmsg
      BY <1>3 DEF Retain
    <2> DEFINE r == rremove(t)
    <2>2. /\ Tree(DOMAIN r) /\ r \in [DOMAIN r -> 0..MaxMsgs] /\ DOMAIN r \subseteq DOMAIN rnodes
          /\ \A n \in DOMAIN r : r[n] = IF n = path(t) THEN NoMsg ELSE rnodes[n]
      BY <1>1, RRemove DEF TypeInv
    <2> HIDE DEF r
    <2>3. \A n \in DOMAIN r : r[n] # NoMsg => rmsg[r[n]].msg # NoMsg
      BY <2>2 DEF TypeInv, RetTree
    <2>4. rnodes' = r
      BY <2>1 DEF r
    <2>5. RetTree'
      BY <2>1, <2>2, <2>3, <2>4 DEF TypeInv, RetTree
    <2> QED
      BY <1>2, <2>1, <2>5 DEF Kept
  <1>4. CASE m # NoMsg
    <2>1. rinsert(t, m) /\ m \in 1..MaxMsgs
      BY <1>4, TopicsAssumption DEF Retain, NoMsg
    <2>2. RetTree' /\ Kept
      BY <1>1, <2>1, RInsert DEF TypeInv, Kept
    <2> QED
      BY <1>2, <2>2
  <1> QED
    BY <1>3, <1>4

\* The three steps of onPublish.
Receive(c, t, m) ==
  /\ at[c].step = "idle"
  /\ nmsg' = (IF m = NoMsg THEN nmsg ELSE m)
  /\ m \in 0..MaxMsgs /\ (m = NoMsg \/ m = nmsg + 1)
  /\ Retain(t, m)
  /\ at' = [at EXCEPT ![c] = [Idle EXCEPT !.step = "match", !.topic = t, !.msg = m]]
  /\ UNCHANGED <<snodes, topics, delivered>>
LookUp(c) ==
  /\ at[c].step = "match"
  /\ at' = [at EXCEPT ![c] = [at[c] EXCEPT !.step = "lookSend", !.subs = Match(at[c].topic)]]
  /\ UNCHANGED <<trees, topics, nmsg, delivered>>
Hand(c) ==
  /\ at[c].step = "lookSend"
  /\ Deliver(at[c].subs, at[c].msg)
  /\ at' = [at EXCEPT ![c] = Idle]
  /\ UNCHANGED <<trees, topics, nmsg>>

\* There is no other.
LEMMA PublishSteps ==
  ASSUME TypeInv, NEW c \in Clients, onPublish(c)
  PROVE  (\E t \in TopicNames, m \in 0..MaxMsgs : Receive(c, t, m)) \/ LookUp(c) \/ Hand(c)
  <1> DEFINE A(t, clear) ==
         LET m == IF clear THEN NoMsg ELSE nmsg + 1 IN
         /\ at[c].step = "idle"
         /\ m <= MaxMsgs
         /\ nmsg' = IF clear THEN nmsg ELSE m
         /\ Retain(t, m)
         /\ at' = [at EXCEPT ![c] = [Idle EXCEPT !.step = "match", !.topic = t, !.msg = m]]
         /\ UNCHANGED <<snodes, topics, delivered>>
  <1>1. (\E t \in TopicNames, clear \in BOOLEAN : A(t, clear)) \/ LookUp(c) \/ Hand(c)
    BY DEF onPublish, LookUp, Hand
  <1>2. nmsg \in 0..MaxMsgs /\ MaxMsgs \in Nat /\ NoMsg = 0
    BY TopicsAssumption DEF TypeInv, Books, NoMsg
  <1>3. ASSUME NEW t \in TopicNames, NEW clear \in BOOLEAN, A(t, clear)
        PROVE  \E m \in 0..MaxMsgs : Receive(c, t, m)
    <2>1. CASE clear
      <3>1. Receive(c, t, NoMsg)
        BY <1>2, <1>3, <2>1 DEF Receive
      <3> QED
        BY <1>2, <3>1
    <2>2. CASE ~clear
      <3>1. nmsg + 1 \in 0..MaxMsgs /\ nmsg + 1 # NoMsg
        BY <1>2, <1>3, <2>2
      <3>2. Receive(c, t, nmsg + 1)
        BY <1>3, <2>2, <3>1 DEF Receive
      <3> QED
        BY <3>1, <3>2
    <2> QED
      BY <2>1, <2>2
  <1> QED
    BY <1>1, <1>3

\* Retain, with what onPublish does with it, keeps the types.
LEMMA ReceiveType ==
  ASSUME TypeInv, NEW c \in Clients, NEW t \in TopicNames, NEW m \in 0..MaxMsgs, Receive(c, t, m)
  PROVE  TypeInv'
  <1> DEFINE w == [Idle EXCEPT !.step = "match", !.topic = t, !.msg = m]
  <1>1. at' = [at EXCEPT ![c] = w] /\ UNCHANGED <<snodes, topics, delivered>> /\ Retain(t, m)
    BY DEF Receive
  <1>2. RetTree' /\ Kept /\ rstore' \in [TopicNames -> 0..MaxMsgs]
    BY <1>1, RetainType
  <1>3. nmsg' \in 0..MaxMsgs
    BY DEF Receive, TypeInv, Books
  <1>4. SubTree' /\ Books'
    BY <1>1, <1>2, <1>3 DEF TypeInv, SubTree, Books
  <1>5. w \in AtRecord /\ w.step = "match" /\ w.topic = t /\ w.rmsgs = {}
    BY IdleFacts DEF AtRecord, Steps
  <1> HIDE DEF w
  <1>6. at' \in [Clients -> AtRecord] /\ \A d \in Clients : AtOK(d)'
    BY <1>1, <1>2, <1>5, OneAt DEF TypeInv, Working
  <1> QED
    BY <1>2, <1>4, <1>6 DEF TypeInv

\* Subscribers are clients.
LEMMA MatchClients ==
  ASSUME NEW t
  PROVE  Match(t) = {c \in Clients : \E n \in smatch(t) : snodes[n][c] # NoQos}
  <1> DEFINE N == smatch(t)
             Q(n, c) == matchQos(PubQos, snodes[n][c])
             E(n, c) == [node |-> n, sub |-> c, qos |-> Q(n, c)]
             S(n) == {E(n, c) : c \in {d \in Clients : snodes[n][d] # NoQos}}
  <1>1. SubscribersOf(t) = UNION {S(n) : n \in N}
    BY DEF SubscribersOf
  <1>2. \A n, c : E(n, c).sub = c
    <2> HIDE DEF Q
    <2> QED OBVIOUS
  <1> HIDE DEF N, E
  <1>3. \A s : s \in SubscribersOf(t) <=>
                 \E n \in N, c \in Clients : snodes[n][c] # NoQos /\ s = E(n, c)
    BY <1>1
  <1>4. \A c : c \in Match(t) <=> \E s \in SubscribersOf(t) : c = s.sub
    BY DEF Match
  <1> QED
    BY <1>2, <1>3, <1>4 DEF N

\* So does the look for subscribers.
LEMMA LookUpType ==
  ASSUME TypeInv, NEW c \in Clients, LookUp(c)
  PROVE  TypeInv'
  <1> DEFINE S == Match(at[c].topic)
             w == [at[c] EXCEPT !.step = "lookSend", !.subs = S]
  <1>1. /\ at[c].step = "match" /\ at' = [at EXCEPT ![c] = w]
        /\ UNCHANGED <<trees, topics, nmsg, delivered>>
    BY DEF LookUp
  <1>2. SubTree' /\ RetTree' /\ Kept /\ Books'
    BY <1>1, RetTreeSame DEF TypeInv, SubTree, Books, trees
  <1>3. /\ at[c] \in AtRecord /\ at[c].topic \in TopicNames
        /\ \A x \in at[c].rmsgs : rmsg[x[2]].msg # NoMsg
    BY <1>1 DEF TypeInv, AtOK
  <1>4. S \subseteq Clients
    BY MatchClients
  <1> HIDE DEF S
  <1>5. w \in AtRecord /\ w.step = "lookSend" /\ w.topic = at[c].topic /\ w.rmsgs = at[c].rmsgs
    BY <1>3, <1>4 DEF AtRecord, Steps
  <1> HIDE DEF w
  <1>6. \A x \in w.rmsgs : rmsg'[x[2]].msg # NoMsg
    BY <1>1, <1>3, <1>5 DEF trees
  <1>7. at' \in [Clients -> AtRecord] /\ \A d \in Clients : AtOK(d)'
    BY <1>1, <1>2, <1>3, <1>5, <1>6, OneAt DEF TypeInv, Working
  <1> QED
    BY <1>2, <1>7 DEF TypeInv

\* Steps that only end in a connection that is idle, offline or stops.
LEMMA RestType ==
  ASSUME TypeInv, NEW c \in Clients, UNCHANGED <<trees, topics, nmsg>>,
         delivered' \in [Clients -> SUBSET (1..MaxMsgs)],
         NEW w \in {Idle, Offline, [Idle EXCEPT !.step = "stop"]}, at' = [at EXCEPT ![c] = w]
  PROVE  TypeInv'
  <1>1. SubTree' /\ RetTree' /\ Kept /\ Books'
    BY RetTreeSame DEF TypeInv, SubTree, Books, trees
  <1>2. /\ w \in AtRecord /\ w.step \in {"idle", "offline", "stop"} /\ w.rmsgs = {}
        /\ w.step = "idle" => w = Idle
    BY IdleFacts
  <1>3. at' \in [Clients -> AtRecord] /\ \A d \in Clients : AtOK(d)'
    BY <1>1, <1>2, OneAt DEF TypeInv, Working
  <1> QED
    BY <1>1, <1>3 DEF TypeInv

\* So does handing them the message.
LEMMA HandType ==
  ASSUME TypeInv, NEW c \in Clients, Hand(c)
  PROVE  TypeInv'
  <1>1. at[c].msg \in 0..MaxMsgs
    BY DEF TypeInv, AtRecord
  <1>2. at[c].msg # NoMsg => at[c].msg \in 1..MaxMsgs
    BY <1>1, TopicsAssumption DEF NoMsg
  <1> DEFINE m == at[c].msg
             S == at[c].subs
  <1>3. delivered' = [d \in Clients |-> IF d \in S /\ m # NoMsg THEN delivered[d] \cup {m} ELSE delivered[d]]
    BY DEF Hand, Deliver
  <1>4. delivered \in [Clients -> SUBSET (1..MaxMsgs)] /\ (m # NoMsg => m \in 1..MaxMsgs)
    BY <1>2 DEF TypeInv, Books
  <1> HIDE DEF m, S
  <1>5. delivered' \in [Clients -> SUBSET (1..MaxMsgs)]
    BY <1>3, <1>4
  <1> QED
    BY <1>5, RestType DEF Hand

\* The types at the start.
LEMMA TypeInit ==
  ASSUME Init
  PROVE  TypeInv
  <1>1. MaxMsgs \in Nat /\ NoMsg \in 0..MaxMsgs
    BY TopicsAssumption DEF NoMsg
  <1>2. Tree({<<>>})
    <2>1. <<>> \in Path
      BY EmptySeq DEF Path
    <2> QED
      BY <2>1, PreOrder DEF Tree
  <1>3. SubTree
    <2>1. snodes = [n \in {<<>>} |-> Nobody] /\ Nobody \in [Clients -> Granted]
      BY DEF Init, Nobody, Granted
    <2> QED
      BY <1>2, <2>1 DEF SubTree
  <1>4. RetTree
    <2>1. rnodes = [n \in {<<>>} |-> NoMsg] /\ rmsg = [o \in 1..MaxMsgs |-> [msg |-> NoMsg, qos |-> 0]]
      BY DEF Init
    <2> QED
      BY <1>1, <1>2, <2>1 DEF RetTree
  <1>5. Books
    <2>1. NoTopics \in [Filters -> [qos : Granted, handling : 0..2]]
      BY DEF NoTopics, NoSub, Granted
    <2> QED
      BY <1>1, <2>1 DEF Init, Books
  <1>6. at = [c \in Clients |-> Offline]
    BY DEF Init
  <1>7. at \in [Clients -> AtRecord] /\ \A c \in Clients : AtOK(c)
    BY <1>6, IdleFacts DEF AtOK, Working
  <1> QED
    BY <1>3, <1>4, <1>5, <1>7 DEF TypeInv

\* The parts of unSubAll.
LEMMA UnSubSteps ==
  ASSUME NEW c \in Clients, unSubAll(c)
  PROVE  /\ at[c].step = "stop"
         /\ \/ \E f \in Filters :
                 /\ snodes' = sremove(f, c) /\ topics' = [topics EXCEPT ![c][f] = NoSub]
                 /\ UNCHANGED <<rnodes, rmsg, rstore, at, nmsg, delivered>>
            \/ /\ topics[c] = NoTopics /\ at' = [at EXCEPT ![c] = Offline]
               /\ UNCHANGED <<trees, topics, nmsg, delivered>>
  BY DEF unSubAll, trees

\* Every step keeps the types.
LEMMA TypeStep ==
  ASSUME TypeInv, [Next]_vars
  PROVE  TypeInv'
  <1>1. ASSUME NEW c \in Clients, NEW p \in Packets, NEW i \in DOMAIN p, Subscribe(c, p, i)
        PROVE  TypeInv'
    BY <1>1, SubscribeType
  <1>2. ASSUME NEW c \in Clients, AddTopicRetained(c) PROVE TypeInv'
    BY <1>2, AddTopicType
  <1>3. ASSUME NEW c \in Clients, LowerQos(c) PROVE TypeInv'
    BY <1>3, LowerType
  <1>4. ASSUME NEW c \in Clients, SendRetained(c) PROVE TypeInv'
    BY <1>4, SendType
  <1>5. ASSUME NEW c \in Clients, RestoreQos(c) PROVE TypeInv'
    BY <1>5, RestoreType
  <1>6. ASSUME NEW c \in Clients, NEW f \in Filters, processUnsubscribe(c, f) PROVE TypeInv'
    BY <1>6, RemoveType DEF processUnsubscribe
  <1>7. ASSUME NEW c \in Clients, onPublish(c) PROVE TypeInv'
    BY <1>7, PublishSteps, ReceiveType, LookUpType, HandType
  <1>8. ASSUME NEW c \in Clients, Disconnect(c) PROVE TypeInv'
    <2>1. delivered' \in [Clients -> SUBSET (1..MaxMsgs)]
      BY <1>8 DEF Disconnect, TypeInv, Books
    <2> DEFINE w == [Idle EXCEPT !.step = "stop"]
    <2>2. at' = [at EXCEPT ![c] = w] /\ UNCHANGED <<trees, topics, nmsg>>
          /\ w \in {Idle, Offline, [Idle EXCEPT !.step = "stop"]}
      BY <1>8 DEF Disconnect
    <2> HIDE DEF w
    <2> QED
      BY <2>1, <2>2, RestType
  <1>9. ASSUME NEW c \in Clients, unSubAll(c) PROVE TypeInv'
    <2>1. CASE \E f \in Filters :
                 /\ snodes' = sremove(f, c) /\ topics' = [topics EXCEPT ![c][f] = NoSub]
                 /\ UNCHANGED <<rnodes, rmsg, rstore, at, nmsg, delivered>>
      BY <2>1, RemoveType
    <2>2. CASE /\ at' = [at EXCEPT ![c] = Offline]
               /\ UNCHANGED <<trees, topics, nmsg, delivered>>
      <3>1. delivered' \in [Clients -> SUBSET (1..MaxMsgs)]
        BY <2>2 DEF TypeInv, Books
      <3> QED
        BY <2>2, <3>1, RestType
    <2> QED
      BY <1>9, <2>1, <2>2, UnSubSteps
  <1>10. ASSUME NEW c \in Clients, Connect(c) PROVE TypeInv'
    <2>1. delivered' \in [Clients -> SUBSET (1..MaxMsgs)]
      BY <1>10 DEF Connect, TypeInv, Books
    <2> QED
      BY <1>10, <2>1, RestType DEF Connect
  <1>11. CASE UNCHANGED vars
    <2>1. SubTree' /\ RetTree' /\ Books'
      BY <1>11, RetTreeSame DEF vars, TypeInv, SubTree, Books
    <2>2. at' \in [Clients -> AtRecord] /\ \A d \in Clients : AtOK(d)'
      BY <1>11, Zenon DEF vars, TypeInv, AtOK
    <2> QED
      BY <2>1, <2>2 DEF TypeInv
  <1> QED
    BY <1>1, <1>2, <1>3, <1>4, <1>5, <1>6, <1>7, <1>8, <1>9, <1>10, <1>11 DEF Next

\* A tree has the beginnings of its paths.
LEMMA TreePrefixes ==
  ASSUME NEW N, Tree(N), NEW n \in N
  PROVE  Prefixes(n) \subseteq N
  BY PrefixFacts DEF Tree

\* The types that Topics states.
LEMMA TypeImplies ==
  ASSUME TypeInv
  PROVE  TypeOK
  <1>1. \A n \in DOMAIN snodes : Prefixes(n) \subseteq DOMAIN snodes
    BY TreePrefixes DEF TypeInv, SubTree
  <1>2. \A n \in DOMAIN rnodes : Prefixes(n) \subseteq DOMAIN rnodes
    BY TreePrefixes DEF TypeInv, RetTree
  <1>3. \A n \in DOMAIN snodes : snodes[n] \in [Clients -> {NoQos} \cup 0..2]
    BY DEF TypeInv, SubTree, Granted
  <1>4. \A c \in Clients : at[c].step \in Steps /\ at[c].subs \subseteq Clients
    BY DEF TypeInv, AtRecord
  <1> QED
    BY <1>1, <1>2, <1>3, <1>4 DEF TypeInv, RetTree, Books, Granted, TypeOK

\* Type correctness: the trees of memtopics.go stay trees, every connection has what
\* its next step takes, and what Retained hands out has a message.
THEOREM TypeCorrect == Spec => []TypeOK
  <1>1. Init => TypeInv
    BY TypeInit
  <1>2. TypeInv /\ [Next]_vars => TypeInv'
    BY TypeStep
  <1>3. TypeInv => TypeOK
    BY TypeImplies
  <1> QED
    BY <1>1, <1>2, <1>3, PTL DEF Spec

-----------------------------------------------------------------------------
(* No dead branches.                                                       *)

\* The nodes that a refused filter leaves.
Stub(f) == SubSeq(path(f), 1, GoodLevels(f))

\* A node of tree s has a subscriber at it or below, or is on the way to a stub.
InUse(s, n) ==
  \/ \E d \in DOMAIN s : IsPre(n, d) /\ s[d] # Nobody
  \/ \E f \in Filters : Refused(f) /\ IsPre(n, Stub(f))

Alive(s) == \A n \in DOMAIN s : n # <<>> => InUse(s, n)

\* Subscribers that stay keep their nodes in use.
LEMMA InUseStays ==
  ASSUME NEW s, NEW r, NEW n, InUse(s, n),
         \A d \in DOMAIN s : IsPre(n, d) /\ s[d] # Nobody => d \in DOMAIN r /\ r[d] # Nobody
  PROVE  InUse(r, n)
  BY DEF InUse

\* sinsert leaves no dead branch but that of a refused filter.
LEMMA InsertAlive ==
  ASSUME SubTree, Alive(snodes), NEW f \in Filters, NEW c \in Clients, NEW q \in 0..2
  PROVE  Alive(sinsert(f, c, q))
  <1> DEFINE s == sinsert(f, c, q)
  <1>1. f \in Topic
    BY PacketFacts
  <1>2. CASE Refused(f)
    <2>1. /\ Stub(f) \in Path /\ DOMAIN s = DOMAIN snodes \cup Prefixes(Stub(f))
          /\ \A n \in DOMAIN s : s[n] = IF n \in DOMAIN snodes THEN snodes[n] ELSE Nobody
      BY <1>1, <1>2, RefusedInsert DEF Stub
    <2> HIDE DEF s
    <2>2. ASSUME NEW n \in DOMAIN s, n # <<>> PROVE InUse(s, n)
      <3>1. CASE n \in DOMAIN snodes
        BY <2>1, <2>2, <3>1, InUseStays DEF Alive
      <3>2. CASE n \in Prefixes(Stub(f))
        <4>1. IsPre(n, Stub(f))
          BY <2>1, <3>2, PrefixFacts
        <4> QED
          BY <1>2, <4>1 DEF InUse
      <3> QED
        BY <2>1, <2>2, <3>1, <3>2
    <2> QED
      BY <2>2 DEF Alive, s
  <1>3. CASE ~Refused(f)
    <2> DEFINE p == path(f)
    <2>0. Inserted(s, p, c, q)
      BY <1>1, <1>3, Insert
    <2> HIDE DEF s, p
    <2>1. /\ p \in Path /\ DOMAIN s = DOMAIN snodes \cup Prefixes(p) /\ p \in DOMAIN s
          /\ s[p][c] = q
          /\ \A n \in DOMAIN s : n # p => s[n] = IF n \in DOMAIN snodes THEN snodes[n] ELSE Nobody
      BY <2>0 DEF Inserted
    <2>2. s[p] # Nobody
      <3>1. Nobody[c] = NoQos /\ q # NoQos
        BY DEF Nobody, NoQos
      <3> QED
        BY <2>1, <3>1
    <2>3. ASSUME NEW n \in DOMAIN s, n # <<>> PROVE InUse(s, n)
      <3>1. CASE n \in DOMAIN snodes
        <4>1. \A d \in DOMAIN snodes : snodes[d] # Nobody => d \in DOMAIN s /\ s[d] # Nobody
          BY <2>1, <2>2
        <4> QED
          BY <2>3, <3>1, <4>1, InUseStays DEF Alive
      <3>2. CASE n \in Prefixes(p)
        <4>1. IsPre(n, p)
          BY <2>1, <3>2, PrefixFacts
        <4> QED
          BY <2>1, <2>2, <4>1 DEF InUse
      <3> QED
        BY <2>1, <2>3, <3>1, <3>2
    <2> QED
      BY <2>3 DEF Alive, s
  <1> QED
    BY <1>2, <1>3

\* sremove leaves no dead branch: it deletes what only its subscriber kept.
LEMMA RemoveAlive ==
  ASSUME SubTree, Alive(snodes), NEW f \in Filters, NEW c \in Clients
  PROVE  Alive(sremove(f, c))
  <1> DEFINE s == sremove(f, c)
             p == path(f)
             D == DOMAIN snodes
             left == [snodes EXCEPT ![p][c] = NoQos]
  <1>1. f \in Topic /\ p \in Path /\ D \subseteq Path
    BY PacketFacts, TopicPath DEF SubTree, Tree
  <1>2. CASE p \notin D \/ snodes[p][c] = NoQos
    BY <1>2 DEF sremove
  <1>3. CASE p \in D /\ snodes[p][c] # NoQos
    <2>1. /\ \A n \in D : n # p => left[n] = snodes[n]
          /\ DOMAIN s = D \ Gone(p, c)
          /\ \A n \in DOMAIN s : s[n] = left[n]
          /\ \A n : n \in Gone(p, c) <=>
                  /\ n \in Prefixes(p) /\ n # <<>>
                  /\ Below(D, n) \subseteq Prefixes(p)
                  /\ \A d \in Below(D, n) : left[d] = Nobody
      BY <1>1, <1>3, RemoveHeld
    <2> HIDE DEF s, p, D, left
    <2>2. \A n \in Path : \A d : d \in Below(D, n) <=> d \in D /\ IsPre(n, d)
      BY <1>1, BelowFacts
    <2>3. \A n : n \in Prefixes(p) <=> n \in Path /\ IsPre(n, p)
      BY <1>1, PrefixFacts
    <2>4. p \in Prefixes(p)
      BY <1>1, <2>3, PreOrder
    \* A subscriber off the way stays.
    <2>5. \A d \in D : d \notin Prefixes(p) /\ snodes[d] # Nobody => d \in DOMAIN s /\ s[d] # Nobody
      BY <2>1, <2>4
    \* A subscriber that is left stays.
    <2>6. ASSUME NEW d \in D, left[d] # Nobody PROVE d \in DOMAIN s /\ s[d] # Nobody
      <3>1. d \in Path /\ d \in Below(D, d)
        BY <1>1, <2>2, <2>6, PreOrder
      <3>2. d \notin Gone(p, c)
        BY <2>1, <2>6, <3>1
      <3> QED
        BY <2>1, <2>6, <3>2
    <2>7. ASSUME NEW n \in DOMAIN s, n # <<>> PROVE InUse(s, n)
      <3>1. n \in D /\ n \in Path /\ n \notin Gone(p, c) /\ InUse(snodes, n)
        BY <1>1, <2>1, <2>7 DEF Alive, D
      <3>2. CASE n \notin Prefixes(p)
        <4>1. ASSUME NEW d \in D, IsPre(n, d) PROVE d \notin Prefixes(p)
          <5>1. d \in Path
            BY <1>1, <4>1
          <5> QED
            BY <1>1, <2>3, <3>1, <3>2, <4>1, <5>1, PreOrder
        <4>2. \A d \in DOMAIN snodes :
                IsPre(n, d) /\ snodes[d] # Nobody => d \in DOMAIN s /\ s[d] # Nobody
          BY <2>5, <4>1 DEF D
        <4> QED
          BY <3>1, <4>2, InUseStays
      <3>3. CASE \E d \in Below(D, n) : left[d] # Nobody
        <4>1. PICK d \in Below(D, n) : left[d] # Nobody
          BY <3>3
        <4>2. d \in D /\ IsPre(n, d)
          BY <2>2, <3>1, <4>1
        <4> QED
          BY <2>6, <4>1, <4>2 DEF InUse
      <3>4. CASE \E e \in Below(D, n) : e \notin Prefixes(p)
        <4>1. PICK e \in Below(D, n) : e \notin Prefixes(p)
          BY <3>4
        <4>2. e \in D /\ e \in Path /\ IsPre(n, e) /\ e # <<>>
          BY <1>1, <2>2, <2>7, <3>1, <4>1, PreOrder
        <4>3. InUse(snodes, e)
          BY <4>2 DEF Alive, D
        <4>4. CASE \E d \in D : IsPre(e, d) /\ snodes[d] # Nobody
          <5>1. PICK d \in D : IsPre(e, d) /\ snodes[d] # Nobody
            BY <4>4
          <5>2. d \in Path /\ IsPre(n, d) /\ d \notin Prefixes(p)
            <6>1. d \in Path
              BY <1>1, <5>1
            <6>2. IsPre(n, d)
              BY <3>1, <4>2, <5>1, <6>1, PreOrder
            <6>3. IsPre(d, p) => IsPre(e, p)
              BY <1>1, <4>2, <5>1, <6>1, PreOrder
            <6> QED
              BY <2>3, <4>1, <4>2, <6>1, <6>2, <6>3
          <5> QED
            BY <2>5, <5>1, <5>2 DEF InUse
        <4>5. CASE \E g \in Filters : Refused(g) /\ IsPre(e, Stub(g))
          <5>1. PICK g \in Filters : Refused(g) /\ IsPre(e, Stub(g))
            BY <4>5
          <5>2. Stub(g) \in Path
            BY <5>1, PacketFacts, TopicPath, GoodFacts, FirstLevels DEF Stub
          <5>3. IsPre(n, Stub(g))
            BY <3>1, <4>2, <5>1, <5>2, PreOrder
          <5> QED
            BY <5>1, <5>3 DEF InUse
        <4> QED
          BY <4>3, <4>4, <4>5 DEF InUse, D
      <3> QED
        BY <2>1, <2>7, <3>1, <3>2, <3>3, <3>4
    <2> QED
      BY <2>7 DEF Alive, s
  <1> QED
    BY <1>2, <1>3

\* Every step leaves the branches of the tree in use.
LEMMA AliveStep ==
  ASSUME TypeInv, Alive(snodes), [Next]_vars
  PROVE  Alive(snodes')
  <1>1. ASSUME NEW c \in Clients, NEW p \in Packets, NEW i \in DOMAIN p, Subscribe(c, p, i)
        PROVE  Alive(snodes')
    <2>1. p[i].topic \in Filters /\ p[i].qos \in 0..2
      BY PacketFacts
    <2> QED
      BY <1>1, <2>1, InsertAlive DEF Subscribe, TypeInv
  <1>2. ASSUME NEW c \in Clients, NEW f \in Filters, snodes' = sremove(f, c)
        PROVE  Alive(snodes')
    BY <1>2, RemoveAlive DEF TypeInv
  <1>3. ASSUME NEW c \in Clients, AddTopicRetained(c) \/ LowerQos(c) \/ SendRetained(c) \/ RestoreQos(c)
                 \/ Disconnect(c) \/ Connect(c)
        PROVE  Alive(snodes')
    BY <1>3 DEF AddTopicRetained, LowerQos, SendRetained, RestoreQos, Disconnect, Connect,
                trees
  <1>4. ASSUME NEW c \in Clients, onPublish(c) PROVE Alive(snodes')
    BY <1>4 DEF onPublish, trees
  <1>5. ASSUME NEW c \in Clients, unSubAll(c) PROVE Alive(snodes')
    BY <1>2, <1>5, UnSubSteps DEF trees
  <1>6. ASSUME NEW c \in Clients, NEW f \in Filters, processUnsubscribe(c, f) PROVE Alive(snodes')
    BY <1>2, <1>6 DEF processUnsubscribe
  <1>7. CASE UNCHANGED vars
    BY <1>7 DEF vars
  <1> QED
    BY <1>1, <1>3, <1>4, <1>5, <1>6, <1>7 DEF Next

\* What NoDeadBranches says in terms of the trees.
LEMMA AliveImplies ==
  ASSUME TypeInv, Alive(snodes)
  PROVE  NoDeadBranches
  <1> SUFFICES ASSUME NEW n \in DOMAIN snodes, n # <<>>
               PROVE  \/ \E d \in Below(DOMAIN snodes, n) : snodes[d] # Nobody
                      \/ \E f \in Filters : Refused(f) /\ n \in Prefixes(Stub(f))
    BY DEF NoDeadBranches, Stub
  <1>1. n \in Path /\ DOMAIN snodes \subseteq Path /\ InUse(snodes, n)
    BY DEF TypeInv, SubTree, Tree, Alive
  <1>2. \A d : d \in Below(DOMAIN snodes, n) <=> d \in DOMAIN snodes /\ IsPre(n, d)
    BY <1>1, BelowFacts
  <1>3. \A f \in Filters : Refused(f) => Stub(f) \in Path
    BY PacketFacts, TopicPath, GoodFacts, FirstLevels DEF Stub
  <1>4. \A f \in Filters : Refused(f) /\ IsPre(n, Stub(f)) => n \in Prefixes(Stub(f))
    BY <1>1, <1>3, PrefixFacts
  <1> QED
    BY <1>1, <1>2, <1>4 DEF InUse

\* sremove leaves no dead branches, whatever was inserted, refused and removed before.
THEOREM BranchesCorrect == Spec => []NoDeadBranches
  <1>1. Init => TypeInv /\ Alive(snodes)
    BY TypeInit DEF Init, Alive
  <1>2. TypeInv /\ Alive(snodes) /\ [Next]_vars => TypeInv' /\ Alive(snodes)'
    BY TypeStep, AliveStep
  <1>3. TypeInv /\ Alive(snodes) => NoDeadBranches
    BY AliveImplies
  <1> QED
    BY <1>1, <1>2, <1>3, PTL DEF Spec

-----------------------------------------------------------------------------
(* smatch.                                                                 *)

\* What a call of smatch finds at the child d, and one call, m being what the calls
\* below it return.
sfollow(t, m, i, d) ==
  LET k == d[Len(d)] IN
  IF k = "#" THEN {d}
  ELSE IF k \notin {"+", Level(t[i])} THEN {}
  ELSE IF i < Len(t) THEN m[i + 1][d]
  ELSE {d, Append(d, "#")} \cap DOMAIN snodes
sbody(t, m, i) ==
  [n \in DOMAIN snodes |->
     IF i > 1 /\ i = Len(t) /\ t[i] = Empty
     THEN {n, Append(n, "#"), Append(n, "+")} \cap DOMAIN snodes
     ELSE UNION {sfollow(t, m, i, d) : d \in Children(DOMAIN snodes, n)}]

\* The levels of node d that must match one by one, all but a last "#".
Plain(d) == IF d[Len(d)] = "#" THEN Len(d) - 1 ELSE Len(d)

\* Node d, from its level a + 1 on, matches the topic from its level a + 1 + o on.
Goes(t, o, a, d) ==
  /\ IF Plain(d) < Len(d) THEN Plain(d) + o <= Len(t) ELSE Plain(d) + o = Len(t)
  /\ \A p \in (a + 1)..Plain(d) : d[p] \in {"+", t[p + o]}

\* What a call of smatch at node n with level i returns.
SReach(t, i, n) ==
  {d \in DOMAIN snodes : IsPre(n, d) /\ Len(d) > Len(n) /\ Goes(t, i - 1 - Len(n), Len(n), d)}

\* All calls.
SCalls(t) == [i \in 1..Len(t) |-> [n \in DOMAIN snodes |-> SReach(t, i, n)]]

\* A topic that is published to has no wildcards and, here, no empty levels.
LEMMA NameFacts ==
  ASSUME PlainLevels, NEW t \in TopicNames
  PROVE  /\ t \in Topic /\ t \in Path /\ Len(t) \in Nat \ {0}
         /\ \A i \in 1..Len(t) : t[i] \notin {"+", "#"} /\ t[i] # Empty /\ Level(t[i]) = t[i]
  <1>1. t \in Topic
    BY PacketFacts
  <1>2. t \in Path /\ Len(t) \in Nat \ {0} /\ DOMAIN t = 1..Len(t)
    BY <1>1, TopicPath
  <1>3. \A i \in 1..Len(t) : t[i] \notin {"+", "#"} /\ t[i] # Empty
    BY <1>2, TopicsAssumption DEF PlainLevels
  <1> QED
    BY <1>1, <1>2, <1>3 DEF Level

\* A child by the name "#".
LEMMA HashChild ==
  ASSUME NEW e \in Path
  PROVE  /\ Append(e, "#") \in Path /\ Len(Append(e, "#")) = Len(e) + 1
         /\ Append(e, "#")[Len(e) + 1] = "#"
         /\ \A i \in 1..Len(e) : Append(e, "#")[i] = e[i]
         /\ IsPre(e, Append(e, "#"))
  <1>1. "#" \in Levels /\ Len(e) \in Nat
    BY TopicsAssumption, PathFacts
  <1>2. /\ Append(e, "#") \in Path /\ Len(Append(e, "#")) = Len(e) + 1
        /\ \A i \in 1..Len(e) : Append(e, "#")[i] = e[i]
        /\ Append(e, "#")[Len(e) + 1] = "#"
    BY <1>1, AppendProperties DEF Path
  <1> QED
    BY <1>1, <1>2 DEF IsPre

\* Matching from a node is matching from its child, where the child's level fits.
LEMMA GoesStep ==
  ASSUME NEW t, NEW o \in Int, NEW a \in Nat, NEW d \in Path, Plain(d) >= a + 1, Plain(d) \in Nat
  PROVE  Goes(t, o, a, d) <=> d[a + 1] \in {"+", t[a + 1 + o]} /\ Goes(t, o, a + 1, d)
  <1> DEFINE P(p) == d[p] \in {"+", t[p + o]}
             k == Plain(d)
  <1>1. (\A p \in (a + 1)..k : P(p)) <=> P(a + 1) /\ \A p \in ((a + 1) + 1)..k : P(p)
    <2>1. k \in Nat /\ k >= a + 1
      OBVIOUS
    <2> HIDE DEF P, k
    <2> QED BY <2>1
  <1> QED
    BY <1>1, Zenon DEF Goes

\* The nodes that match satisfy the recursion.
LEMMA SReachStep ==
  ASSUME PlainLevels, Tree(DOMAIN snodes), NEW t \in TopicNames, NEW i \in 1..Len(t),
         NEW n \in DOMAIN snodes
  PROVE  SReach(t, i, n) = UNION {sfollow(t, SCalls(t), i, d) : d \in Children(DOMAIN snodes, n)}
  <1> DEFINE m == SCalls(t)
             D == DOMAIN snodes
             a == Len(n)
             o == i - 1 - a
  <1>1. D \subseteq Path /\ n \in Path /\ a \in Nat /\ Len(t) \in Nat /\ i \in Nat /\ o \in Int
    BY PathFacts, NameFacts DEF Tree
  <1>2. \A d \in D : d \in Path /\ Len(d) \in Nat
    BY <1>1, PathFacts
  <1>3. a + 1 + o = i /\ i - 1 - Len(n) = o /\ a + o = i - 1 /\ i <= Len(t)
    BY <1>1
  <1>4. t[i] \notin {"+", "#"} /\ Level(t[i]) = t[i]
    BY NameFacts
  <1>5. \A d : d \in SReach(t, i, n) <=> d \in D /\ IsPre(n, d) /\ Len(d) > a /\ Goes(t, o, a, d)
    BY DEF SReach
  <1>6. \A e : e \in Children(D, n) <=> e \in D /\ IsPre(n, e) /\ Len(e) = a + 1
    BY <1>1, BelowFacts DEF Children
  <1>7. \A e \in Children(D, n) : \A d :
          d \in SReach(t, i + 1, e) <=> d \in D /\ IsPre(e, d) /\ Len(d) > a + 1 /\ Goes(t, o, a + 1, d)
    <2>1. \A e \in Children(D, n) : Len(e) = a + 1 /\ (i + 1) - 1 - Len(e) = o
      BY <1>1, <1>6
    <2> QED
      BY <2>1 DEF SReach
  <1>8. \A e \in D : i < Len(t) => m[i + 1][e] = SReach(t, i + 1, e)
    <2>1. i < Len(t) => i + 1 \in 1..Len(t)
      BY <1>1
    <2> QED
      BY <2>1 DEF SCalls
  <1>9. \A e \in Children(D, n) : Children(D, n) \subseteq D
    BY <1>6
  <1> HIDE DEF D, a, o, m
  <1>10. ASSUME NEW e \in Children(D, n), NEW d
         PROVE  d \in sfollow(t, m, i, e) <=>
                  \/ e[a + 1] = "#" /\ d = e
                  \/ e[a + 1] \in {"+", t[i]} /\ i < Len(t) /\ d \in SReach(t, i + 1, e)
                  \/ e[a + 1] \in {"+", t[i]} /\ i = Len(t) /\ d \in D /\ d \in {e, Append(e, "#")}
    <2>1. e \in D /\ Len(e) = a + 1
      BY <1>6, <1>10
    <2> DEFINE k == e[a + 1]
    <2>2. sfollow(t, m, i, e) =
            IF k = "#" THEN {e}
            ELSE IF k \notin {"+", t[i]} THEN {}
            ELSE IF i < Len(t) THEN m[i + 1][e]
            ELSE {e, Append(e, "#")} \cap D
      BY <1>4, <2>1 DEF sfollow, D
    <2>3. i < Len(t) => m[i + 1][e] = SReach(t, i + 1, e)
      BY <1>8, <2>1
    <2>4. ~(i < Len(t)) <=> i = Len(t)
      BY <1>1, <1>3
    <2> HIDE DEF k
    <2>5. k = "#" => k \notin {"+", t[i]}
      BY <1>4
    <2> QED
      BY <2>2, <2>3, <2>4, <2>5 DEF k
  <1>11. ASSUME NEW d \in SReach(t, i, n)
         PROVE  \E e \in Children(D, n) : d \in sfollow(t, m, i, e)
    <2>1. d \in D /\ d \in Path /\ Len(d) \in Nat /\ IsPre(n, d) /\ Len(d) > a /\ Goes(t, o, a, d)
      BY <1>2, <1>5, <1>11
    <2> DEFINE e == SubSeq(d, 1, a + 1)
    <2>2. a + 1 \in 0..Len(d)
      BY <1>1, <2>1
    <2>3. /\ e \in Path /\ Len(e) = a + 1 /\ IsPre(e, d)
          /\ \A j \in 1..(a + 1) : e[j] = d[j]
      BY <2>1, <2>2, FirstLevels
    <2> HIDE DEF e
    <2>4. e[a + 1] = d[a + 1]
      BY <1>1, <2>3
    <2>5. e \in D /\ IsPre(n, e)
      <3>1. e \in D
        BY <2>1, <2>3 DEF Tree, D
      <3>2. Len(n) <= Len(e)
        BY <1>1, <2>3 DEF a
      <3> QED
        BY <1>1, <2>1, <2>3, <3>1, <3>2, PreChain
    <2>6. e \in Children(D, n)
      BY <1>6, <2>3, <2>5
    <2>7. CASE Len(d) = a + 1
      <3>1. d = e
        BY <2>1, <2>3, <2>7, PreOrder
      <3>2. CASE d[a + 1] = "#"
        BY <1>10, <2>4, <2>6, <3>1, <3>2
      <3>3. CASE d[a + 1] # "#"
        <4>1. Plain(d) = a + 1
          BY <2>7, <3>3 DEF Plain
        <4>2. i = Len(t) /\ d[a + 1] \in {"+", t[i]}
          BY <1>1, <1>3, <2>1, <2>7, <4>1, GoesStep DEF Goes
        <4> QED
          BY <1>10, <2>1, <2>4, <2>6, <3>1, <4>2
      <3> QED
        BY <3>2, <3>3
    <2>8. CASE Len(d) > a + 1
      <3>1. Plain(d) \in Nat /\ Plain(d) >= a + 1 /\ Plain(d) \in {Len(d), Len(d) - 1}
        BY <1>1, <2>1, <2>8 DEF Plain
      <3>2. d[a + 1] \in {"+", t[i]} /\ Goes(t, o, a + 1, d)
        BY <1>1, <1>3, <2>1, <3>1, GoesStep
      <3>3. CASE i < Len(t)
        BY <1>7, <1>10, <2>1, <2>3, <2>4, <2>6, <2>8, <3>2, <3>3
      <3>4. CASE i = Len(t)
        <4>1. Plain(d) + o <= Len(t)
          BY <1>1, <2>1, <3>1 DEF Goes
        <4>2. Plain(d) = a + 1 /\ Len(d) = a + 2
          BY <1>1, <1>3, <2>1, <2>8, <3>1, <3>4, <4>1
        <4>3. d[Len(d)] = "#"
          BY <1>1, <4>2 DEF Plain
        <4>4. /\ Append(e, "#") \in Path /\ Len(Append(e, "#")) = a + 2
              /\ Append(e, "#")[a + 2] = "#"
              /\ \A j \in 1..(a + 1) : Append(e, "#")[j] = e[j]
          <5>1. Len(e) + 1 = a + 2
            BY <1>1, <2>3
          <5> QED
            BY <2>3, <5>1, HashChild
        <4>5. \A j \in 1..Len(d) : d[j] = Append(e, "#")[j]
          BY <1>1, <2>3, <4>2, <4>3, <4>4
        <4>6. d = Append(e, "#")
          BY <2>1, <4>2, <4>4, <4>5, PathEqual
        <4> QED
          BY <1>10, <2>1, <2>4, <2>6, <3>2, <3>4, <4>6
      <3> QED
        BY <1>1, <1>3, <3>3, <3>4
    <2> QED
      BY <1>1, <2>1, <2>6, <2>7, <2>8
  <1>12. ASSUME NEW e \in Children(D, n), NEW d \in sfollow(t, m, i, e)
         PROVE  d \in SReach(t, i, n)
    <2>1. e \in D /\ e \in Path /\ IsPre(n, e) /\ Len(e) = a + 1
      BY <1>2, <1>6, <1>12
    <2>2. CASE e[a + 1] = "#" /\ d = e
      <3>1. Plain(d) = a /\ Len(d) = a + 1
        BY <1>1, <2>1, <2>2 DEF Plain
      <3>2. Goes(t, o, a, d)
        <4>1. (a + 1)..a = {}
          BY <1>1
        <4> QED
          BY <1>1, <1>3, <3>1, <4>1 DEF Goes
      <3> QED
        BY <1>1, <1>5, <2>1, <2>2, <3>1, <3>2
    <2>3. ASSUME e[a + 1] \in {"+", t[i]}, d \in D, IsPre(e, d),
                 Plain(d) \in Nat, Plain(d) >= a + 1, Goes(t, o, a + 1, d)
          PROVE  d \in SReach(t, i, n)
      <3>1. d \in Path /\ IsPre(n, d) /\ d[a + 1] = e[a + 1] /\ Len(d) > a
        <4>1. d \in Path /\ Len(d) \in Nat
          BY <1>2, <2>3
        <4>2. IsPre(n, d)
          BY <1>1, <2>1, <2>3, <4>1, PreOrder
        <4> QED
          BY <1>1, <2>1, <2>3, <4>1, <4>2 DEF IsPre
      <3>2. Goes(t, o, a, d)
        BY <1>1, <1>3, <2>3, <3>1, GoesStep
      <3> QED
        BY <1>5, <2>3, <3>1, <3>2
    <2>4. CASE e[a + 1] \in {"+", t[i]} /\ i < Len(t) /\ d \in SReach(t, i + 1, e)
      <3>1. d \in D /\ IsPre(e, d) /\ Len(d) > a + 1 /\ Goes(t, o, a + 1, d) /\ Len(d) \in Nat
        BY <1>2, <1>7, <2>4
      <3>2. Plain(d) \in Nat /\ Plain(d) >= a + 1
        BY <1>1, <3>1 DEF Plain
      <3> QED
        BY <2>3, <2>4, <3>1, <3>2
    <2>5. CASE e[a + 1] \in {"+", t[i]} /\ i = Len(t) /\ d \in D /\ d = e
      <3>1. e[a + 1] # "#"
        BY <1>4, <2>5
      <3>2. Plain(d) = a + 1 /\ Len(d) = a + 1
        BY <2>1, <2>5, <3>1 DEF Plain
      <3>3. Goes(t, o, a + 1, d)
        <4>1. ((a + 1) + 1)..(a + 1) = {}
          BY <1>1
        <4> QED
          BY <1>1, <1>3, <2>5, <3>2, <4>1 DEF Goes
      <3> QED
        BY <1>1, <2>1, <2>3, <2>5, <3>2, <3>3, PreOrder
    <2>6. CASE e[a + 1] \in {"+", t[i]} /\ i = Len(t) /\ d \in D /\ d = Append(e, "#")
      <3>1. /\ Len(d) = (a + 1) + 1 /\ d[(a + 1) + 1] = "#" /\ IsPre(e, d)
        BY <2>1, <2>6, HashChild
      <3>2. Plain(d) = a + 1 /\ Len(d) = a + 2
        BY <1>1, <3>1 DEF Plain
      <3>3. Goes(t, o, a + 1, d)
        <4>1. ((a + 1) + 1)..(a + 1) = {}
          BY <1>1
        <4> QED
          BY <1>1, <1>3, <2>6, <3>2, <4>1 DEF Goes
      <3> QED
        BY <1>1, <2>3, <2>6, <3>1, <3>2, <3>3
    <2> QED
      BY <1>10, <1>12, <2>2, <2>4, <2>5, <2>6
  <1> QED
    BY <1>11, <1>12 DEF D, m

\* smatch finds the nodes whose paths match the topic.
LEMMA SMatch ==
  ASSUME PlainLevels, Tree(DOMAIN snodes), NEW t \in TopicNames
  PROVE  smatch(t) = SReach(t, 1, <<>>)
  <1> DEFINE L == Len(t)
             w == SCalls(t)
             M == CHOOSE m : m = [i \in 1..L |-> sbody(t, m, i)]
  <1>1. L \in Nat /\ 1 \in 1..L /\ <<>> \in DOMAIN snodes
    BY NameFacts DEF Tree
  <1>2. \A i \in 1..L : t[i] # Empty
    BY NameFacts
  <1>3. ASSUME NEW m, NEW i \in 1..L, NEW n \in DOMAIN snodes
        PROVE  sbody(t, m, i)[n] = UNION {sfollow(t, m, i, d) : d \in Children(DOMAIN snodes, n)}
    <2>1. t[i] # Empty
      BY <1>2
    <2> QED
      BY <2>1, Zenon DEF sbody
  <1>4. w = [i \in 1..L |-> sbody(t, w, i)]
    <2>1. ASSUME NEW i \in 1..L, NEW n \in DOMAIN snodes
          PROVE  w[i][n] = sbody(t, w, i)[n]
      <3>1. w[i][n] = SReach(t, i, n)
        BY DEF SCalls
      <3>2. SReach(t, i, n) = UNION {sfollow(t, w, i, d) : d \in Children(DOMAIN snodes, n)}
        BY SReachStep
      <3> QED
        BY <1>3, <3>1, <3>2
    <2>2. \A i \in 1..L : w[i] = sbody(t, w, i)
      <3> SUFFICES ASSUME NEW i \in 1..L PROVE w[i] = sbody(t, w, i)
        OBVIOUS
      <3>1. w[i] = [n \in DOMAIN snodes |-> w[i][n]]
        BY DEF SCalls
      <3>2. sbody(t, w, i) = [n \in DOMAIN snodes |-> sbody(t, w, i)[n]]
        <4> HIDE DEF w
        <4> QED BY DEF sbody
      <3> HIDE DEF w
      <3> QED
        BY <2>1, <3>1, <3>2, Zenon
    <2>3. w = [i \in 1..L |-> w[i]]
      BY DEF SCalls
    <2> HIDE DEF w
    <2> QED
      BY <2>2, <2>3, Zenon
  <1>5. M = [i \in 1..L |-> sbody(t, M, i)]
    <2> HIDE DEF w, L
    <2> QED BY <1>4, Zenon
  <1>6. smatch(t) = M[1][<<>>]
    BY Zenon DEF smatch, sbody, sfollow
  <1> HIDE DEF M, w
  <1>7. ASSUME NEW i \in 1..L, i < L => M[i + 1] = w[i + 1] PROVE M[i] = w[i]
    <2>1. M[i] = sbody(t, M, i) /\ w[i] = sbody(t, w, i)
      <3> HIDE DEF L
      <3> QED BY <1>4, <1>5, Zenon
    <2>2. \A d : sfollow(t, M, i, d) = sfollow(t, w, i, d)
      BY <1>7 DEF sfollow
    <2>3. sbody(t, M, i) = sbody(t, w, i)
      BY <2>2, Zenon DEF sbody
    <2> QED
      BY <2>1, <2>3
  <1>8. M[1] = w[1]
    <2>1. \A i \in 1..L : (i < L => M[i + 1] = w[i + 1]) => M[i] = w[i]
      BY <1>7
    <2>2. L \in Nat /\ 1 \in 1..L
      BY <1>1
    <2> HIDE DEF L
    <2>3. \A i \in 1..L : M[i] = w[i]
      BY <2>1, <2>2, OneResult
    <2> QED
      BY <2>2, <2>3
  <1>9. w[1][<<>>] = SReach(t, 1, <<>>)
    BY <1>1 DEF w, SCalls
  <1> QED
    BY <1>6, <1>8, <1>9

\* That is what MQTT means by a match.
LEMMA SMatchFacts ==
  ASSUME PlainLevels, Tree(DOMAIN snodes), NEW t \in TopicNames, NEW n
  PROVE  n \in smatch(t) <=> n \in DOMAIN snodes /\ n # <<>> /\ Matches(n, t)
  <1>1. n \in smatch(t) <=> /\ n \in DOMAIN snodes /\ IsPre(<<>>, n) /\ Len(n) > Len(<<>>)
                            /\ Goes(t, 1 - 1 - Len(<<>>), Len(<<>>), n)
    BY SMatch DEF SReach
  <1>2. ASSUME NEW e \in Path
        PROVE  Goes(t, 1 - 1 - Len(<<>>), Len(<<>>), e) <=> Matches(e, t)
    <2>1. Len(<<>>) = 0 /\ 1 - 1 - Len(<<>>) = 0 /\ Len(e) \in Nat
      <3> DEFINE z == Len(<<>>)
      <3>1. z = 0
        BY EmptySeq
      <3>2. Len(e) \in Nat
        BY PathFacts
      <3> HIDE DEF z
      <3>3. 1 - 1 - z = 0
        BY <3>1
      <3> QED
        BY <3>1, <3>2, <3>3, Zenon DEF z
    <2> DEFINE k == Plain(e)
    <2>2. k \in Int
      BY <2>1 DEF Plain
    <2>3. Matches(e, t) <=> /\ IF k < Len(e) THEN Len(t) >= k ELSE Len(t) = k
                            /\ \A j \in 1..k : e[j] \in {"+", t[j]}
      BY Zenon DEF Matches, Plain
    <2>4. Goes(t, 0, 0, e) <=> /\ IF k < Len(e) THEN k + 0 <= Len(t) ELSE k + 0 = Len(t)
                               /\ \A p \in (0 + 1)..k : e[p] \in {"+", t[p + 0]}
      BY Zenon DEF Goes
    <2>5. Len(t) \in Nat
      BY NameFacts
    <2> HIDE DEF k
    <2>6. Goes(t, 0, 0, e) <=> Matches(e, t)
      BY <2>1, <2>2, <2>3, <2>4, <2>5
    <2> QED
      BY <2>1, <2>6
  <1>3. n \in DOMAIN snodes => /\ n \in Path /\ IsPre(<<>>, n)
                               /\ (Len(n) > Len(<<>>) <=> n # <<>>)
    BY PathFacts, PreOrder DEF Tree
  <1> QED
    BY <1>1, <1>2, <1>3

\* Where no level is empty, a filter's node has its name.
LEMMA PlainPath ==
  ASSUME PlainLevels, NEW f \in Filters \cup TopicNames
  PROVE  f \in Topic /\ f \in Path /\ f # <<>> /\ path(f) = f /\ Len(f) \in Nat \ {0}
  <1>1. f \in Topic
    BY PacketFacts
  <1>2. f \in Path /\ Len(f) \in Nat \ {0} /\ DOMAIN f = 1..Len(f) /\ path(f) \in Path /\ f # <<>>
    BY <1>1, TopicPath DEF Topic
  <1>3. \A i \in 1..Len(f) : f[i] # Empty /\ Level(f[i]) = f[i]
    BY <1>2 DEF PlainLevels, Level
  <1>4. Len(path(f)) = Len(f)
    BY <1>1, <1>2, <1>3, TopicPath
  <1>5. \A i \in 1..Len(f) : path(f)[i] = f[i]
    BY <1>1, <1>3, <1>4, TopicPath
  <1> QED
    BY <1>1, <1>2, <1>4, <1>5, PathEqual

-----------------------------------------------------------------------------
(* The tree of subscriptions has what the sessions have.                   *)

RouteOK(c) == SessionOK(c) /\ \A n \in Path : Agrees(c, n)

\* A client whose session and place in the tree stay.
LEMMA RouteStays ==
  ASSUME NEW c \in Clients, RouteOK(c), topics'[c] = topics[c],
         \A n \in Path : Held(snodes', n, c) = Held(snodes, n, c),
         \/ at'[c] = at[c]
         \/ at[c].step # "retained" /\ at'[c].step \notin {"retained", "offline"}
  PROVE  RouteOK(c)'
  <1>1. SessionOK(c)'
    BY DEF RouteOK, SessionOK
  <1>2. ASSUME NEW n \in Path PROVE Agrees(c, n)'
    <2>1. Held(snodes', n, c) = Held(snodes, n, c) /\ Agrees(c, n)
      BY <1>2 DEF RouteOK
    <2>2. CASE at'[c] = at[c]
      <3>1. sub(c)' = sub(c)
        BY <2>2 DEF sub
      <3> QED
        BY <2>1, <2>2, <3>1, Zenon DEF Agrees
    <2>3. CASE at[c].step # "retained" /\ at'[c].step # "retained"
      BY <2>1, <2>3, Zenon DEF Agrees
    <2> QED
      BY <2>2, <2>3
  <1> QED
    BY <1>1, <1>2 DEF RouteOK

\* Steps of a connection that leave the sessions and the tree alone.
LEMMA RouteSame ==
  ASSUME RouteInv, TypeInv, UNCHANGED <<snodes, topics>>, NEW c \in Clients, NEW w,
         at' = [at EXCEPT ![c] = w], at[c].step # "retained",
         w.step \notin {"retained", "offline"}
  PROVE  RouteInv'
  <1>1. \A d \in Clients : RouteOK(d)
    BY DEF RouteInv, RouteOK
  <1>2. at'[c] = w /\ \A d \in Clients : d # c => at'[d] = at[d]
    BY DEF TypeInv
  <1>3. ASSUME NEW d \in Clients PROVE RouteOK(d)'
    <2>1. \A n \in Path : Held(snodes', n, d) = Held(snodes, n, d)
      BY DEF Held
    <2>2. topics'[d] = topics[d]
      OBVIOUS
    <2> QED
      BY <1>1, <1>2, <2>1, <2>2, RouteStays
  <1> QED
    BY <1>3 DEF RouteInv, RouteOK

\* Subscribe: the new QoS is in the tree and not yet in the session.
LEMMA SubscribeRoute ==
  ASSUME PlainLevels, TypeInv, RouteInv,
         NEW c \in Clients, NEW p \in Packets, NEW i \in DOMAIN p, Subscribe(c, p, i)
  PROVE  RouteInv'
  <1> DEFINE f == p[i].topic
             q == p[i].qos
             w == IF Refused(f) THEN [Idle EXCEPT !.step = "stop"]
                  ELSE [at[c] EXCEPT !.step = "retained", !.packet = p, !.i = i]
  <1>1. at' = [at EXCEPT ![c] = w] /\ snodes' = sinsert(f, c, q) /\ topics' = topics
    BY DEF Subscribe
  <1>2. at[c].step # "retained"
    BY DEF Subscribe
  <1>3. f \in Filters /\ f \in Topic /\ q \in 0..2 /\ path(f) = f
    BY PacketFacts, PlainPath
  <1>4. \A d \in Clients : RouteOK(d)
    BY DEF RouteInv, RouteOK
  <1>5. at \in [Clients -> AtRecord] /\ SubTree
    BY DEF TypeInv
  <1>6. at'[c] = w /\ \A d \in Clients : d # c => at'[d] = at[d]
    BY <1>1, <1>5
  <1>7. CASE Refused(f)
    <2>1. w.step = "stop"
      BY <1>7, IdleFacts
    <2>2. \A n : \A d \in Clients : Held(snodes', n, d) = Held(snodes, n, d)
      <3> DEFINE s == sinsert(f, c, q)
      <3>1. \A n, d : d \in Clients => Held(s, n, d) = Held(snodes, n, d)
        BY ZenonT(40), <1>3, <1>5, <1>7, RefusedInsert
      <3> HIDE DEF s
      <3>2. snodes' = s
        BY <1>1 DEF s
      <3> QED
        BY <3>1, <3>2
    <2> HIDE DEF w
    <2>3. ASSUME NEW d \in Clients PROVE RouteOK(d)'
      BY <1>1, <1>2, <1>4, <1>6, <2>1, <2>2, RouteStays
    <2> QED
      BY <2>3 DEF RouteInv, RouteOK
  <1>8. CASE ~Refused(f)
    <2>1. \A n : \A d \in Clients :
            Held(snodes', n, d) = IF n = f /\ d = c THEN q ELSE Held(snodes, n, d)
      BY <1>1, <1>3, <1>5, <1>8, InsertHeld
    <2>2. w.step = "retained" /\ w.packet = p /\ w.i = i
      BY <1>5, <1>8 DEF AtRecord
    <2> HIDE DEF w
    <2>3. sub(c)' = p[i] /\ at'[c].step = "retained"
      BY <1>6, <2>2 DEF sub
    <2>4. SessionOK(c)'
      BY <1>1, <1>4, <2>3 DEF RouteOK, SessionOK
    <2>5. ASSUME NEW n \in Path PROVE Agrees(c, n)'
      <3>1. Agrees(c, n)
        BY <1>4 DEF RouteOK
      <3>2. CASE n = f
        <4>1. Held(snodes', n, c) = q
          BY <2>1, <3>2
        <4> QED
          BY <2>3, <3>2, <4>1 DEF Agrees
      <3>3. CASE n # f
        <4>1. Held(snodes', n, c) = Held(snodes, n, c)
          BY <2>1, <3>3
        <4> QED
          BY <1>1, <1>2, <2>3, <3>1, <3>3, <4>1 DEF Agrees
      <3> QED
        BY <3>2, <3>3
    <2>6. ASSUME NEW d \in Clients, d # c PROVE RouteOK(d)'
      <3>1. \A n \in Path : Held(snodes', n, d) = Held(snodes, n, d)
        BY <2>1, <2>6
      <3> QED
        BY <1>1, <1>4, <1>6, <2>6, <3>1, RouteStays
    <2> QED
      BY <2>4, <2>5, <2>6 DEF RouteInv, RouteOK
  <1> QED
    BY <1>7, <1>8

\* The step that AddTopicRetained takes.
LEMMA AddTopicNext ==
  ASSUME TypeInv, NEW c \in Clients, AddTopicRetained(c)
  PROVE  /\ \A d \in Clients : d # c => at'[d] = at[d]
         /\ LET r == at[c].rmsgs \cup Found(c, topics'[c]) IN
            /\ at'[c].rmsgs = r
            /\ at'[c].step \in (IF r = {} THEN {"subscribe", "idle"} ELSE {"subscribe", "lower"})
  <1> DEFINE r == at[c].rmsgs \cup Found(c, topics'[c])
             w == [at[c] EXCEPT !.rmsgs = r]
             u == [w EXCEPT !.step = "subscribe", !.i = @ + 1]
             v == IF w.i < Len(w.packet) THEN u ELSE Sending(w)
  <1>1. at' = [at EXCEPT ![c] = v] /\ at[c].step \in Working
    BY DEF AddTopicRetained, Working
  <1>2. at \in [Clients -> AtRecord] /\ at[c] \in AtRecord
    BY DEF TypeInv
  <1>3. r \subseteq Pairs
    BY <1>1, <1>2, FoundFacts DEF AtRecord
  <1> HIDE DEF r
  <1>4. w \in AtRecord /\ w.rmsgs = r
    BY <1>2, <1>3 DEF AtRecord
  <1>5. at'[c] = v /\ \A d \in Clients : d # c => at'[d] = at[d]
    <2> HIDE DEF v
    <2> QED BY <1>1, <1>2
  <1> HIDE DEF w
  <1>6. u.rmsgs = r /\ u.step = "subscribe"
    BY <1>4 DEF AtRecord
  <1>7. /\ Sending(w).rmsgs = r
        /\ Sending(w).step \in (IF r = {} THEN {"subscribe", "idle"} ELSE {"subscribe", "lower"})
    BY <1>4, SendingFacts, IdleFacts
  <1>8. /\ v.rmsgs = r
        /\ v.step \in (IF r = {} THEN {"subscribe", "idle"} ELSE {"subscribe", "lower"})
    BY <1>6, <1>7
  <1> QED
    BY <1>5, <1>8 DEF r

\* AddTopic: one subscription of one session.
LEMMA TopicChanged ==
  ASSUME TypeInv, NEW c \in Clients, NEW f \in Filters, NEW e,
         topics' = [topics EXCEPT ![c][f] = e]
  PROVE  /\ topics'[c][f] = e
         /\ \A g \in Filters : g # f => topics'[c][g] = topics[c][g]
         /\ \A d \in Clients : d # c => topics'[d] = topics[d]
  BY DEF TypeInv, Books

\* AddTopicRetained: the session has it too.
LEMMA AddTopicRoute ==
  ASSUME PlainLevels, TypeInv, RouteInv, NEW c \in Clients, AddTopicRetained(c)
  PROVE  RouteInv'
  <1> DEFINE f == sub(c).topic
             e == [qos |-> sub(c).qos, handling |-> sub(c).handling]
  <1>1. /\ at[c].step = "retained" /\ at[c].step \in Working /\ snodes' = snodes
        /\ topics' = [topics EXCEPT ![c][f] = e]
    BY DEF AddTopicRetained, Working, trees
  <1>2. f \in Filters /\ sub(c).qos \in 0..2 /\ e.qos = sub(c).qos
    BY <1>1, SubFacts
  <1> HIDE DEF e
  <1>3. /\ at'[c].step \in {"subscribe", "idle", "lower"}
        /\ \A d \in Clients : d # c => at'[d] = at[d]
    BY AddTopicNext
  <1>4. /\ topics'[c][f] = e
        /\ \A g \in Filters : g # f => topics'[c][g] = topics[c][g]
        /\ \A d \in Clients : d # c => topics'[d] = topics[d]
    BY <1>1, <1>2, TopicChanged
  <1>5. \A d \in Clients : RouteOK(d)
    BY DEF RouteInv, RouteOK
  <1>6. \A n, d : Held(snodes', n, d) = Held(snodes, n, d)
    BY <1>1 DEF Held
  <1>7. SessionOK(c)'
    <2>1. e.qos # NoQos
      BY <1>2 DEF NoQos
    <2>2. \A g \in Filters : topics[c][g].qos = NoQos => topics[c][g] = NoSub
      BY <1>5 DEF RouteOK, SessionOK
    <2> QED
      BY <1>3, <1>4, <2>1, <2>2 DEF SessionOK
  <1>8. ASSUME NEW n \in Path PROVE Agrees(c, n)'
    <2>1. Agrees(c, n) /\ Held(snodes', n, c) = Held(snodes, n, c) /\ at'[c].step # "retained"
      BY <1>3, <1>5, <1>6 DEF RouteOK
    <2>2. CASE n = f
      <3>1. Held(snodes, n, c) = sub(c).qos
        BY <1>1, <2>1, <2>2 DEF Agrees
      <3>2. topics'[c][n].qos = sub(c).qos /\ n \in Filters
        BY <1>2, <1>4, <2>2
      <3> QED
        BY <2>1, <3>1, <3>2, Zenon DEF Agrees
    <2>3. CASE n # f
      <3>1. Held(snodes, n, c) = IF n \in Filters THEN topics[c][n].qos ELSE NoQos
        BY <2>1, <2>3 DEF Agrees
      <3>2. n \in Filters => topics'[c][n].qos = topics[c][n].qos
        BY <1>4, <2>3
      <3> QED
        BY <2>1, <3>1, <3>2 DEF Agrees
    <2> QED
      BY <2>2, <2>3
  <1>9. ASSUME NEW d \in Clients, d # c PROVE RouteOK(d)'
    BY <1>3, <1>4, <1>5, <1>6, <1>9, RouteStays
  <1> QED
    BY <1>7, <1>8, <1>9 DEF RouteInv, RouteOK

\* UNSUBSCRIBE and unSubAll take the subscription out of both.
LEMMA RemoveRoute ==
  ASSUME PlainLevels, TypeInv, RouteInv, NEW c \in Clients, NEW f \in Filters,
         at[c].step \in {"idle", "stop"},
         snodes' = sremove(f, c), topics' = [topics EXCEPT ![c][f] = NoSub], at' = at
  PROVE  RouteInv'
  <1>1. f \in Topic /\ path(f) = f
    BY PlainPath
  <1>2. \A n : \A d \in Clients :
          Held(snodes', n, d) = IF n = f /\ d = c THEN NoQos ELSE Held(snodes, n, d)
    BY <1>1, Remove DEF TypeInv
  <1>3. /\ topics'[c][f] = NoSub
        /\ \A g \in Filters : g # f => topics'[c][g] = topics[c][g]
        /\ \A d \in Clients : d # c => topics'[d] = topics[d]
    BY TopicChanged
  <1>4. \A d \in Clients : RouteOK(d)
    BY DEF RouteInv, RouteOK
  <1>5. SessionOK(c)'
    <2>1. \A g \in Filters : topics[c][g].qos = NoQos => topics[c][g] = NoSub
      BY <1>4 DEF RouteOK, SessionOK
    <2> QED
      BY <1>3, <2>1 DEF SessionOK
  <1>6. ASSUME NEW n \in Path PROVE Agrees(c, n)'
    <2>1. Held(snodes, n, c) = IF n \in Filters THEN topics[c][n].qos ELSE NoQos
      BY <1>4 DEF RouteOK, Agrees
    <2>2. Held(snodes', n, c) = IF n = f THEN NoQos ELSE Held(snodes, n, c)
      BY <1>2
    <2>3. NoSub.qos = NoQos
      BY DEF NoSub
    <2>4. Held(snodes', n, c) = IF n \in Filters THEN topics'[c][n].qos ELSE NoQos
      BY <1>3, <2>1, <2>2, <2>3
    <2>5. at'[c].step # "retained"
      OBVIOUS
    <2> QED
      BY <2>4, <2>5 DEF Agrees
  <1>7. ASSUME NEW d \in Clients, d # c PROVE RouteOK(d)'
    <2>1. \A n \in Path : Held(snodes', n, d) = Held(snodes, n, d)
      BY <1>2, <1>7
    <2> QED
      BY <1>3, <1>4, <1>7, <2>1, RouteStays
  <1> QED
    BY <1>5, <1>6, <1>7 DEF RouteInv, RouteOK

\* Every step keeps the tree and the sessions in agreement.
LEMMA RouteStep ==
  ASSUME PlainLevels, TypeInv, RouteInv, [Next]_vars
  PROVE  RouteInv'
  <1>1. ASSUME NEW c \in Clients, NEW p \in Packets, NEW i \in DOMAIN p, Subscribe(c, p, i)
        PROVE  RouteInv'
    BY <1>1, SubscribeRoute
  <1>2. ASSUME NEW c \in Clients, AddTopicRetained(c) PROVE RouteInv'
    BY <1>2, AddTopicRoute
  <1>3. ASSUME NEW c \in Clients, LowerQos(c) PROVE RouteInv'
    <2>1. PICK x \in at[c].rmsgs :
            at' = [at EXCEPT ![c].step = "send", ![c].rmsgs = (@ \ {x}) \cup {<<0, x[2]>>},
                             ![c].old = rmsg[x[2]].qos]
      BY <1>3 DEF LowerQos
    <2> DEFINE w == [at[c] EXCEPT !.step = "send", !.rmsgs = (@ \ {x}) \cup {<<0, x[2]>>},
                                  !.old = rmsg[x[2]].qos]
    <2>2. at' = [at EXCEPT ![c] = w] /\ w.step = "send"
      <3>1. at \in [Clients -> AtRecord] /\ at[c] \in AtRecord
        BY DEF TypeInv
      <3>2. at' = [at EXCEPT ![c] = w]
        BY <2>1, <3>1
      <3>3. w.step = "send"
        BY <3>1 DEF AtRecord
      <3> QED
        BY <3>2, <3>3
    <2> HIDE DEF w
    <2>3. UNCHANGED <<snodes, topics>> /\ at[c].step # "retained"
      BY <1>3 DEF LowerQos
    <2> QED
      BY <2>2, <2>3, RouteSame
  <1>4. ASSUME NEW c \in Clients, SendRetained(c) PROVE RouteInv'
    <2> DEFINE w == [at[c] EXCEPT !.step = "restore"]
    <2>1. at' = [at EXCEPT ![c] = w] /\ w.step = "restore"
      BY <1>4 DEF SendRetained, TypeInv, AtRecord
    <2> HIDE DEF w
    <2>2. UNCHANGED <<snodes, topics>> /\ at[c].step # "retained"
      BY <1>4 DEF SendRetained, trees
    <2> QED
      BY <2>1, <2>2, RouteSame
  <1>5. ASSUME NEW c \in Clients, RestoreQos(c) PROVE RouteInv'
    <2>1. PICK x : at' = [at EXCEPT ![c] = Sending([at[c] EXCEPT !.rmsgs = @ \ {x}])]
      BY <1>5 DEF RestoreQos
    <2> DEFINE w == Sending([at[c] EXCEPT !.rmsgs = @ \ {x}])
    <2>2. w.step \in {"idle", "lower"}
      <3>1. at[c] \in AtRecord
        BY DEF TypeInv
      <3>2. [at[c] EXCEPT !.rmsgs = @ \ {x}] \in AtRecord
        BY <3>1 DEF AtRecord
      <3> QED
        BY <3>2, SendingFacts, IdleFacts
    <2>3. at' = [at EXCEPT ![c] = w]
      BY <2>1
    <2> HIDE DEF w
    <2>4. UNCHANGED <<snodes, topics>> /\ at[c].step # "retained"
      BY <1>5 DEF RestoreQos
    <2> QED
      BY <2>2, <2>3, <2>4, RouteSame
  <1>6. ASSUME NEW c \in Clients, NEW f \in Filters, processUnsubscribe(c, f) PROVE RouteInv'
    BY <1>6, RemoveRoute DEF processUnsubscribe
  <1>7. ASSUME NEW c \in Clients, onPublish(c) PROVE RouteInv'
    <2>1. ASSUME NEW t \in TopicNames, NEW m \in 0..MaxMsgs, Receive(c, t, m) PROVE RouteInv'
      <3> DEFINE w == [Idle EXCEPT !.step = "match", !.topic = t, !.msg = m]
      <3>1. w.step = "match"
        BY DEF Idle
      <3>2. at' = [at EXCEPT ![c] = w] /\ UNCHANGED <<snodes, topics>> /\ at[c].step # "retained"
        BY <2>1 DEF Receive
      <3> HIDE DEF w
      <3> QED
        BY <3>1, <3>2, RouteSame
    <2>2. ASSUME LookUp(c) PROVE RouteInv'
      <3> DEFINE S == Match(at[c].topic)
                 w == [at[c] EXCEPT !.step = "lookSend", !.subs = S]
      <3>1. at' = [at EXCEPT ![c] = w] /\ UNCHANGED <<snodes, topics>> /\ at[c].step # "retained"
        BY <2>2 DEF LookUp, trees
      <3> HIDE DEF S
      <3>2. w.step = "lookSend"
        BY DEF TypeInv, AtRecord
      <3> HIDE DEF w
      <3> QED
        BY <3>1, <3>2, RouteSame
    <2>3. ASSUME Hand(c) PROVE RouteInv'
      <3>1. at' = [at EXCEPT ![c] = Idle] /\ UNCHANGED <<snodes, topics>> /\ at[c].step # "retained"
        BY <2>3 DEF Hand, trees
      <3> QED
        BY <3>1, IdleFacts, RouteSame
    <2> QED
      BY <1>7, <2>1, <2>2, <2>3, PublishSteps
  <1>8. ASSUME NEW c \in Clients, Disconnect(c) PROVE RouteInv'
    <2> DEFINE w == [Idle EXCEPT !.step = "stop"]
    <2>1. w.step = "stop"
      BY IdleFacts
    <2>2. at' = [at EXCEPT ![c] = w] /\ UNCHANGED <<snodes, topics>> /\ at[c].step # "retained"
      BY <1>8 DEF Disconnect, trees
    <2> HIDE DEF w
    <2> QED
      BY <2>1, <2>2, RouteSame
  <1>9. ASSUME NEW c \in Clients, unSubAll(c) PROVE RouteInv'
    <2>1. at[c].step = "stop"
      BY <1>9, UnSubSteps
    <2>2. CASE \E f \in Filters :
                 /\ snodes' = sremove(f, c) /\ topics' = [topics EXCEPT ![c][f] = NoSub]
                 /\ UNCHANGED <<rnodes, rmsg, rstore, at, nmsg, delivered>>
      BY <2>1, <2>2, RemoveRoute
    <2>3. CASE /\ topics[c] = NoTopics /\ at' = [at EXCEPT ![c] = Offline]
               /\ UNCHANGED <<trees, topics, nmsg, delivered>>
      <3>1. \A d \in Clients : RouteOK(d)
        BY DEF RouteInv, RouteOK
      <3>2. UNCHANGED <<snodes, topics>> /\ \A n, d : Held(snodes', n, d) = Held(snodes, n, d)
        BY <2>3 DEF trees, Held
      <3>3. at'[c] = Offline /\ \A d \in Clients : d # c => at'[d] = at[d]
        BY <2>3 DEF TypeInv
      <3>4. at'[c].step = "offline"
        BY <3>3, IdleFacts
      <3>5. \A d \in Clients : d # c => RouteOK(d)'
        BY <3>1, <3>2, <3>3, RouteStays
      <3>6. SessionOK(c)'
        BY <2>3, <3>1, <3>2 DEF RouteOK, SessionOK
      <3>7. ASSUME NEW n \in Path PROVE Agrees(c, n)'
        BY <2>1, <3>1, <3>2, <3>4, <3>7 DEF RouteOK, Agrees
      <3> QED
        BY <3>5, <3>6, <3>7 DEF RouteInv, RouteOK
    <2> QED
      BY <1>9, <2>2, <2>3, UnSubSteps
  <1>10. ASSUME NEW c \in Clients, Connect(c) PROVE RouteInv'
    <2>1. at' = [at EXCEPT ![c] = Idle] /\ UNCHANGED <<snodes, topics>> /\ at[c].step # "retained"
      BY <1>10 DEF Connect, trees
    <2> QED
      BY <2>1, IdleFacts, RouteSame
  <1>11. CASE UNCHANGED vars
    BY <1>11, Zenon DEF vars, RouteInv, SessionOK, Agrees, Held, sub
  <1> QED
    BY <1>1, <1>2, <1>3, <1>4, <1>5, <1>6, <1>7, <1>8, <1>9, <1>10, <1>11 DEF Next

\* No subscription at the start.
LEMMA RouteInit ==
  ASSUME Init
  PROVE  RouteInv
  <1>1. /\ snodes = [n \in {<<>>} |-> Nobody] /\ topics = [c \in Clients |-> NoTopics]
        /\ at = [c \in Clients |-> Offline]
    BY DEF Init
  <1>2. \A n : \A c \in Clients : Held(snodes, n, c) = NoQos
    BY <1>1 DEF Held, Nobody
  <1>3. \A c \in Clients : at[c].step = "offline" /\ topics[c] = NoTopics
    BY <1>1, IdleFacts
  <1>4. \A f \in Filters : NoTopics[f] = NoSub /\ NoTopics[f].qos = NoQos
    BY DEF NoTopics, NoSub
  <1>5. \A c \in Clients : SessionOK(c)
    BY <1>3, <1>4 DEF SessionOK
  <1>6. \A c \in Clients, n \in Path : Agrees(c, n)
    BY <1>2, <1>3, <1>4 DEF Agrees
  <1> QED
    BY <1>5, <1>6 DEF RouteInv

\* Who is found for a topic, and with which QoS.
LEMMA Routes ==
  ASSUME PlainLevels, TypeInv, RouteInv, NEW c \in Clients, NEW t \in TopicNames,
         at[c].step # "retained", NEW n
  PROVE  /\ n \in smatch(t) /\ snodes[n][c] # NoQos
              <=> n \in Filters /\ topics[c][n] # NoSub /\ Matches(n, t)
         /\ n \in smatch(t) => n \in DOMAIN snodes
         /\ n \in smatch(t) /\ snodes[n][c] # NoQos
              => snodes[n][c] = topics[c][n].qos /\ snodes[n][c] \in 0..2
  <1>1. n \in smatch(t) <=> n \in DOMAIN snodes /\ n # <<>> /\ Matches(n, t)
    BY SMatchFacts DEF TypeInv, SubTree
  <1>2. DOMAIN snodes \subseteq Path
    BY DEF TypeInv, SubTree, Tree
  <1>3. n \in Filters => n \in Path /\ n # <<>>
    BY PlainPath
  <1>4. n \in Path => Held(snodes, n, c) = IF n \in Filters THEN topics[c][n].qos ELSE NoQos
    BY DEF RouteInv, Agrees
  <1>5. n \in Filters => (topics[c][n] = NoSub <=> topics[c][n].qos = NoQos)
    BY DEF RouteInv, SessionOK, NoSub
  <1>6. n \in DOMAIN snodes => Held(snodes, n, c) = snodes[n][c] /\ snodes[n][c] \in Granted
    BY DEF Held, TypeInv, SubTree
  <1>7. n \notin DOMAIN snodes => Held(snodes, n, c) = NoQos
    BY DEF Held
  <1>8. n \in DOMAIN snodes /\ snodes[n][c] # NoQos => snodes[n][c] \in 0..2
    BY <1>6 DEF Granted
  <1> QED
    BY <1>1, <1>2, <1>3, <1>4, <1>5, <1>6, <1>7, <1>8

\* What is found for a topic is what the sessions have.
LEMMA RouteImplies ==
  ASSUME PlainLevels, TypeInv, RouteInv
  PROVE  Routed
  <1> SUFFICES ASSUME NEW c \in Clients, NEW t \in TopicNames, at[c].step # "retained"
               PROVE  {<<s.node, s.qos>> : s \in {r \in SubscribersOf(t) : r.sub = c}}
                        = {<<f, IF topics[c][f].qos < PubQos THEN topics[c][f].qos ELSE PubQos>> :
                             f \in {g \in Filters : topics[c][g] # NoSub /\ Matches(g, t)}}
    BY DEF Routed
  <1> DEFINE N == smatch(t)
             Q(n, d) == matchQos(PubQos, snodes[n][d])
             E(n, d) == [node |-> n, sub |-> d, qos |-> Q(n, d)]
             S(n) == {E(n, d) : d \in {b \in Clients : snodes[n][b] # NoQos}}
             G == {g \in Filters : topics[c][g] # NoSub /\ Matches(g, t)}
             P(f) == IF topics[c][f].qos < PubQos THEN topics[c][f].qos ELSE PubQos
             L == {r \in SubscribersOf(t) : r.sub = c}
  <1>1. SubscribersOf(t) = UNION {S(n) : n \in N}
    BY DEF SubscribersOf
  <1>2. \A n, d : E(n, d).sub = d /\ E(n, d).node = n /\ E(n, d).qos = Q(n, d)
    <2> HIDE DEF Q
    <2> QED OBVIOUS
  <1>3. \A n : n \in N /\ snodes[n][c] # NoQos <=> n \in G
    BY Routes
  <1>4. ASSUME NEW n \in G PROVE Q(n, c) = P(n)
    <2>1. snodes[n][c] = topics[c][n].qos /\ snodes[n][c] \in 0..2
      BY <1>3, <1>4, Routes
    <2>2. PubQos \in 0..2
      BY TopicsAssumption
    <2> QED
      BY <2>1, <2>2 DEF matchQos
  <1> HIDE DEF N, E, Q, P, G
  <1>5. \A s : s \in SubscribersOf(t) <=>
                 \E n \in N, d \in Clients : snodes[n][d] # NoQos /\ s = E(n, d)
    BY <1>1
  <1>6. \A s : s \in L <=> \E n \in G : s = E(n, c)
    BY <1>2, <1>3, <1>5
  <1> HIDE DEF L
  <1>7. {<<s.node, s.qos>> : s \in L} = {<<n, P(n)>> : n \in G}
    BY <1>2, <1>4, <1>6
  <1> QED
    BY <1>7 DEF L, P, G

\* Where no level is empty, smatch finds exactly the subscriptions of the sessions that
\* match, for all filters, topics and interleavings.
THEOREM RoutingCorrect == ASSUME PlainLevels PROVE Spec => []Routed
  <1>1. Init => TypeInv /\ RouteInv
    BY TypeInit, RouteInit
  <1>2. TypeInv /\ RouteInv /\ [Next]_vars => TypeInv' /\ RouteInv'
    BY TypeStep, RouteStep
  <1>3. TypeInv /\ RouteInv => Routed
    BY RouteImplies
  <1> QED
    BY <1>1, <1>2, <1>3, PTL DEF Spec

-----------------------------------------------------------------------------
(* The tree of retained messages has what the store has.                   *)

\* Steps that change no message.
LEMMA StoreSame ==
  ASSUME TypeInv, StoreInv, UNCHANGED <<rnodes, rstore, nmsg>>,
         \A k \in 1..MaxMsgs : rmsg'[k].msg = rmsg[k].msg
  PROVE  StoreInv'
  <1>1. \A n \in DOMAIN rnodes : rnodes[n] # NoMsg => rnodes[n] \in 1..MaxMsgs
    BY TopicsAssumption DEF TypeInv, RetTree, NoMsg
  <1>2. \A n \in DOMAIN rnodes : NodeOK(n)'
    BY <1>1 DEF StoreInv, NodeOK
  <1> QED
    BY <1>2, Zenon DEF StoreInv

\* A topic with no topic below it is not on the way to another.
LEMMA LeafFacts ==
  ASSUME PlainLevels, NEW t \in TopicNames, NEW u \in Leaves
  PROVE  u \in TopicNames /\ (u \in Prefixes(path(t)) => u = t)
  BY PlainPath DEF Leaves

\* Retain changes the tree as it changes the store, and no other topic.
LEMMA ReceiveStore ==
  ASSUME PlainLevels, TypeInv, StoreInv,
         NEW c \in Clients, NEW t \in TopicNames, NEW m \in 0..MaxMsgs, Receive(c, t, m)
  PROVE  /\ StoreInv'
         /\ \A u \in Leaves : u # t /\ rstore[u] # NoMsg => rnodes'[u] = rnodes[u]
  <1>1. /\ Retain(t, m) /\ nmsg' = (IF m = NoMsg THEN nmsg ELSE m) /\ (m = NoMsg \/ m = nmsg + 1)
        /\ nmsg \in 0..MaxMsgs /\ MaxMsgs \in Nat /\ NoMsg = 0
    BY TopicsAssumption DEF Receive, TypeInv, Books, NoMsg
  <1>2. rstore' = [rstore EXCEPT ![t] = m] /\ rstore \in [TopicNames -> 0..MaxMsgs]
    BY <1>1, RetainType DEF TypeInv, Books
  <1>3. rstore'[t] = m /\ \A u \in TopicNames : u # t => rstore'[u] = rstore[u]
    BY <1>2
  <1>4. t \in Topic /\ path(t) = t /\ t \in Path
    BY PlainPath
  <1>5. /\ \A n \in DOMAIN rnodes : NodeOK(n)
        /\ \A n, k \in DOMAIN rnodes : rnodes[n] # NoMsg /\ rnodes[n] = rnodes[k] => n = k
        /\ \A u \in Leaves : rstore[u] # NoMsg => u \in DOMAIN rnodes /\ rnodes[u] # NoMsg
    BY Zenon DEF StoreInv
  <1>6. \A n \in DOMAIN rnodes : rnodes[n] # NoMsg => rnodes[n] \in 1..MaxMsgs
    BY TopicsAssumption DEF TypeInv, RetTree, NoMsg
  <1>7. \A u \in Leaves : u \in TopicNames /\ (u \in Prefixes(t) => u = t)
    BY <1>4, LeafFacts
  <1>8. CASE m = NoMsg
    <2> DEFINE r == rremove(t)
    <2>1. rnodes' = r /\ rmsg' = rmsg /\ nmsg' = nmsg
      BY <1>1, <1>8 DEF Retain
    <2>2. /\ DOMAIN r \subseteq DOMAIN rnodes
          /\ \A n \in DOMAIN r : r[n] = IF n = t THEN NoMsg ELSE rnodes[n]
          /\ \A n \in DOMAIN rnodes \ DOMAIN r : n \in Prefixes(t)
      BY <1>4, RRemove DEF TypeInv
    <2> HIDE DEF r
    <2>3. ASSUME NEW n \in DOMAIN rnodes' PROVE NodeOK(n)'
      <3>1. CASE n = t
        BY <2>1, <2>2, <2>3, <3>1 DEF NodeOK
      <3>2. CASE n # t
        <4>1. n \in DOMAIN rnodes /\ rnodes'[n] = rnodes[n] /\ NodeOK(n)
          BY <1>5, <2>1, <2>2, <2>3, <3>2
        <4>2. n \in TopicNames => rstore'[n] = rstore[n]
          BY <1>3, <3>2
        <4> QED
          BY <2>1, <4>1, <4>2 DEF NodeOK
      <3> QED
        BY <3>1, <3>2
    <2>4. \A n, k \in DOMAIN rnodes' : rnodes'[n] # NoMsg /\ rnodes'[n] = rnodes'[k] => n = k
      BY <1>5, <2>1, <2>2
    <2>5. \A u \in Leaves : u # t /\ rstore[u] # NoMsg => u \in DOMAIN rnodes' /\ rnodes'[u] = rnodes[u]
      BY <1>5, <1>7, <2>1, <2>2
    <2>6. \A u \in Leaves : rstore'[u] # NoMsg => u \in DOMAIN rnodes' /\ rnodes'[u] # NoMsg
      BY <1>3, <1>5, <1>7, <1>8, <2>5
    <2> QED
      BY <2>3, <2>4, <2>5, <2>6, Zenon DEF StoreInv
  <1>9. CASE m # NoMsg
    <2>1. rinsert(t, m) /\ m \in 1..MaxMsgs /\ m = nmsg + 1 /\ nmsg' = m
      BY <1>1, <1>9 DEF Retain
    <2> DEFINE o == IF t \in DOMAIN rnodes /\ rnodes[t] # NoMsg THEN rnodes[t] ELSE m
    <2>2. /\ o \in 1..MaxMsgs /\ DOMAIN rnodes' = DOMAIN rnodes \cup Prefixes(t) /\ t \in DOMAIN rnodes'
          /\ rnodes'[t] = o
          /\ \A n \in DOMAIN rnodes' :
               n # t => rnodes'[n] = IF n \in DOMAIN rnodes THEN rnodes[n] ELSE NoMsg
          /\ rmsg'[o].msg = m
          /\ \A k \in 1..MaxMsgs : k # o => rmsg'[k] = rmsg[k]
      <3> DEFINE p == path(t)
                 x == IF p \in DOMAIN rnodes /\ rnodes[p] # NoMsg THEN rnodes[p] ELSE m
      <3>1. RetTree /\ t \in Topic
        BY <1>4 DEF TypeInv
      <3>2. /\ x \in 1..MaxMsgs /\ DOMAIN rnodes' = DOMAIN rnodes \cup Prefixes(p) /\ p \in DOMAIN rnodes'
            /\ rnodes'[p] = x
            /\ \A n \in DOMAIN rnodes' :
                 n # p => rnodes'[n] = IF n \in DOMAIN rnodes THEN rnodes[n] ELSE NoMsg
            /\ rmsg'[x].msg = m
            /\ \A k \in 1..MaxMsgs : k # x => rmsg'[k] = rmsg[k]
        BY <2>1, <3>1, RInsert, Zenon
      <3>3. p = t
        BY <1>4
      <3> HIDE DEF p
      <3>4. x = o
        BY <3>3
      <3> HIDE DEF x, o
      <3> QED
        BY <3>2, <3>3, <3>4
    <2>3. o <= nmsg' /\ (o = m \/ (t \in DOMAIN rnodes /\ rnodes[t] = o /\ rnodes[t] # NoMsg))
      <3>1. CASE t \in DOMAIN rnodes /\ rnodes[t] # NoMsg
        <4>1. rnodes[t] <= nmsg /\ rnodes[t] \in 1..MaxMsgs
          BY <1>5, <1>6, <3>1 DEF NodeOK
        <4> QED
          BY <1>1, <2>1, <3>1, <4>1
      <3>2. CASE ~(t \in DOMAIN rnodes /\ rnodes[t] # NoMsg)
        BY <2>1, <3>2
      <3> QED
        BY <3>1, <3>2
    <2> HIDE DEF o
    <2>4. ASSUME NEW n \in DOMAIN rnodes', n # t, rnodes'[n] # NoMsg
          PROVE  /\ n \in DOMAIN rnodes /\ rnodes'[n] = rnodes[n] /\ rnodes[n] # o
                 /\ rnodes[n] \in 1..MaxMsgs /\ NodeOK(n)
      <3>1. n \in DOMAIN rnodes /\ rnodes'[n] = rnodes[n] /\ rnodes[n] # NoMsg
        BY <2>2, <2>4
      <3>2. rnodes[n] \in 1..MaxMsgs /\ NodeOK(n) /\ rnodes[n] <= nmsg
        BY <1>5, <1>6, <3>1 DEF NodeOK
      <3>3. rnodes[n] # m
        BY <1>1, <2>1, <3>2
      <3>4. rnodes[n] # o
        BY <1>5, <2>3, <2>4, <3>1, <3>3
      <3> QED
        BY <3>1, <3>2, <3>4
    <2>5. ASSUME NEW n \in DOMAIN rnodes' PROVE NodeOK(n)'
      <3>1. CASE n = t
        BY <1>3, <2>2, <2>3, <3>1 DEF NodeOK
      <3>2. CASE n # t /\ rnodes'[n] # NoMsg
        <4>1. /\ rnodes'[n] = rnodes[n] /\ rnodes[n] # o
              /\ rnodes[n] \in 1..MaxMsgs /\ NodeOK(n)
          BY <2>4, <3>2
        <4>2. n \in TopicNames /\ rmsg[rnodes[n]].msg = rstore[n] /\ rnodes[n] <= nmsg
          BY <3>2, <4>1 DEF NodeOK
        <4>3. rmsg'[rnodes[n]].msg = rstore'[n]
          BY <1>3, <2>2, <3>2, <4>1, <4>2
        <4>4. rnodes[n] <= nmsg'
          BY <1>1, <2>1, <4>1, <4>2
        <4> QED
          BY <4>1, <4>2, <4>3, <4>4 DEF NodeOK
      <3>3. CASE rnodes'[n] = NoMsg
        BY <3>3 DEF NodeOK
      <3> QED
        BY <3>1, <3>2, <3>3
    <2>6. ASSUME NEW n \in DOMAIN rnodes', NEW k \in DOMAIN rnodes', rnodes'[n] # NoMsg, rnodes'[n] = rnodes'[k]
          PROVE  n = k
      <3>1. CASE n = t /\ k # t
        BY <2>2, <2>4, <2>6, <3>1
      <3>2. CASE n # t /\ k = t
        BY <2>2, <2>4, <2>6, <3>2
      <3>3. CASE n # t /\ k # t
        BY <1>5, <2>4, <2>6, <3>3
      <3> QED
        BY <3>1, <3>2, <3>3
    <2>7. \A u \in Leaves : u # t /\ rstore[u] # NoMsg => u \in DOMAIN rnodes' /\ rnodes'[u] = rnodes[u]
      BY <1>5, <2>2
    <2>8. o # NoMsg
      BY <1>1, <2>2
    <2>9. \A u \in Leaves : rstore'[u] # NoMsg => u \in DOMAIN rnodes' /\ rnodes'[u] # NoMsg
      BY <1>3, <1>5, <1>7, <2>2, <2>7, <2>8
    <2> QED
      BY <2>5, <2>6, <2>7, <2>9, Zenon DEF StoreInv
  <1> QED
    BY <1>8, <1>9

\* Every step keeps the tree and the store in agreement.
LEMMA StoreStep ==
  ASSUME PlainLevels, TypeInv, StoreInv, [Next]_vars
  PROVE  StoreInv'
  <1>1. ASSUME NEW c \in Clients, onPublish(c) PROVE StoreInv'
    <2>1. CASE LookUp(c) \/ Hand(c)
      BY <2>1, StoreSame DEF LookUp, Hand, trees
    <2> QED
      BY <1>1, <2>1, PublishSteps, ReceiveStore
  <1>2. ASSUME NEW c \in Clients, LowerQos(c) \/ RestoreQos(c) PROVE StoreInv'
    <2>1. \A k \in 1..MaxMsgs : rmsg'[k].msg = rmsg[k].msg
      BY <1>2, LowerType, RestoreType
    <2> QED
      BY <1>2, <2>1, StoreSame DEF LowerQos, RestoreQos
  <1>3. CASE UNCHANGED <<rnodes, rmsg, rstore, nmsg>>
    BY <1>3, StoreSame
  <1>4. ASSUME NEW c \in Clients,
               \/ \E p \in Packets : \E i \in DOMAIN p : Subscribe(c, p, i)
               \/ AddTopicRetained(c) \/ SendRetained(c) \/ Disconnect(c) \/ unSubAll(c) \/ Connect(c)
               \/ \E f \in Filters : processUnsubscribe(c, f)
        PROVE  UNCHANGED <<rnodes, rmsg, rstore, nmsg>>
    BY <1>4 DEF Subscribe, AddTopicRetained, SendRetained, Disconnect, unSubAll, Connect,
                processUnsubscribe, trees
  <1> QED
    BY <1>1, <1>2, <1>3, <1>4 DEF Next, vars

\* No message at the start.
LEMMA StoreInit ==
  ASSUME Init
  PROVE  StoreInv
  <1>1. rnodes = [n \in {<<>>} |-> NoMsg] /\ rstore = [t \in TopicNames |-> NoMsg]
    BY DEF Init
  <1>2. \A t \in Leaves : rstore[t] = NoMsg
    BY <1>1 DEF Leaves
  <1> QED
    BY <1>1, <1>2 DEF StoreInv, NodeOK

\* What a filter reaches among the topics is what it matches.
LEMMA ReachedMatches ==
  ASSUME PlainLevels, NEW f \in Filters, ~Refused(f), NEW d \in TopicNames
  PROVE  (\E k \in 0..Len(d) : Reached(f, 0, 0, d, k)) <=> Matches(f, d)
  <1>1. f \in Topic /\ Len(f) \in Nat \ {0} /\ DOMAIN f = 1..Len(f)
    BY PlainPath, TopicPath
  <1>2. Len(d) \in Nat \ {0}
    BY NameFacts
  <1>3. \A i \in 1..Len(f) : f[i] # Empty /\ Level(f[i]) = f[i]
    BY <1>1 DEF PlainLevels, Level
  <1>4. \A i \in Nat \ {0} : (End(f, i) <=> i > Len(f))
    <2> SUFFICES ASSUME NEW i \in Nat \ {0} PROVE End(f, i) <=> i > Len(f)
      OBVIOUS
    <2>1. CASE i > Len(f)
      BY <2>1 DEF End
    <2>2. CASE ~(i > Len(f))
      <3>1. i \in 1..Len(f)
        BY <1>1, <2>2
      <3> QED
        BY <1>3, <2>2, <3>1 DEF End
    <2> QED
      BY <2>1, <2>2
  <1>5. GoodLevels(f) = Len(f)
    BY <1>1, GoodFacts DEF Refused
  <1>6. \A i \in 1..Len(f) : i < Len(f) => f[i] # "#"
    BY <1>1, <1>5, GoodFacts
  <1> DEFINE k0 == Plain(f)
  <1>7. Matches(f, d) <=> /\ IF k0 < Len(f) THEN Len(d) >= k0 ELSE Len(d) = k0
                          /\ \A j \in 1..k0 : f[j] \in {"+", d[j]}
    BY Zenon DEF Matches, Plain
  <1>8. \/ f[Len(f)] = "#" /\ k0 = Len(f) - 1
        \/ f[Len(f)] # "#" /\ k0 = Len(f)
    BY DEF Plain
  <1> HIDE DEF k0
  <1>9. \A k \in Nat : Reached(f, 0, 0, d, k) <=>
          /\ \A p \in 1..k : p <= Len(f) /\ f[p] # "#" /\ f[p] \in {"+", d[p]}
          /\ \/ k + 1 > Len(f) /\ k = Len(d)
             \/ k + 1 <= Len(f) /\ f[k + 1] = "#"
    <2> SUFFICES ASSUME NEW k \in Nat
                 PROVE  Reached(f, 0, 0, d, k) <=>
                          /\ \A p \in 1..k : p <= Len(f) /\ f[p] # "#" /\ f[p] \in {"+", d[p]}
                          /\ \/ k + 1 > Len(f) /\ k = Len(d)
                             \/ k + 1 <= Len(f) /\ f[k + 1] = "#"
      OBVIOUS
    <2>1. Reached(f, 0, 0, d, k) <=>
            /\ \A p \in 1..k : Through(f, p) /\ Level(f[p]) \in {"+", d[p]}
            /\ \/ End(f, k + 1) /\ k = Len(d)
               \/ ~End(f, k + 1) /\ f[k + 1] = "#"
      <3>1. k + 1 + 0 = k + 1 /\ 0 + 1 = 1 /\ \A p \in 1..k : p + 0 = p
        OBVIOUS
      <3> QED
        BY <3>1 DEF Reached
    <2>2. \A p \in 1..k : Through(f, p) <=> p <= Len(f) /\ f[p] # "#"
      BY <1>1, <1>4 DEF Through
    <2>3. \A p \in 1..k : p <= Len(f) => Level(f[p]) = f[p]
      BY <1>3
    <2>4. End(f, k + 1) <=> k + 1 > Len(f)
      BY <1>4
    <2>5. ~(k + 1 > Len(f)) <=> k + 1 <= Len(f)
      BY <1>1
    <2> QED
      BY <2>1, <2>2, <2>3, <2>4, <2>5
  <1>10. ASSUME NEW k \in 0..Len(d), Reached(f, 0, 0, d, k) PROVE Matches(f, d)
    <2>1. /\ \A p \in 1..k : p <= Len(f) /\ f[p] # "#" /\ f[p] \in {"+", d[p]}
          /\ \/ k + 1 > Len(f) /\ k = Len(d)
             \/ k + 1 <= Len(f) /\ f[k + 1] = "#"
      BY <1>2, <1>9, <1>10
    <2>2. CASE k + 1 > Len(f) /\ k = Len(d)
      <3>1. k \in 1..k /\ k = Len(f) /\ f[Len(f)] # "#"
        <4>1. k \in 1..k
          BY <1>2, <2>2
        <4>2. k <= Len(f) /\ f[k] # "#"
          BY <2>1, <4>1
        <4>3. k = Len(f)
          <5>1. \A a, b \in Nat : a + 1 > b /\ a <= b => a = b
            OBVIOUS
          <5>2. k \in Nat /\ Len(f) \in Nat
            BY <1>1, <1>2
          <5> QED
            BY <2>2, <4>2, <5>1, <5>2, Zenon
        <4> QED
          BY <4>1, <4>2, <4>3
      <3> QED
        BY <1>1, <1>2, <1>7, <1>8, <2>1, <2>2, <3>1
    <2>3. CASE k + 1 <= Len(f) /\ f[k + 1] = "#"
      <3>1. k + 1 = Len(f)
        <4>1. k + 1 \in 1..Len(f)
          BY <1>1, <1>2, <2>3
        <4>2. ~(k + 1 < Len(f))
          BY <1>6, <2>3, <4>1
        <4> QED
          <5>1. \A a, b \in Nat : a + 1 <= b /\ ~(a + 1 < b) => a + 1 = b
            OBVIOUS
          <5>2. k \in Nat /\ Len(f) \in Nat
            BY <1>1, <1>2
          <5> QED
            BY <2>3, <4>2, <5>1, <5>2, Zenon
      <3>2. k0 = k /\ k < Len(f) /\ Len(d) >= k
        BY <1>1, <1>2, <1>8, <2>3, <3>1
      <3> QED
        BY <1>7, <2>1, <3>2
    <2> QED
      BY <2>1, <2>2, <2>3
  <1>11. ASSUME Matches(f, d) PROVE \E k \in 0..Len(d) : Reached(f, 0, 0, d, k)
    <2>1. k0 \in 0..Len(d)
      BY <1>1, <1>2, <1>7, <1>8, <1>11
    <2>2. \A p \in 1..k0 : p <= Len(f) /\ f[p] # "#" /\ f[p] \in {"+", d[p]}
      BY <1>1, <1>6, <1>7, <1>8, <1>11
    <2>3. \/ k0 + 1 > Len(f) /\ k0 = Len(d)
          \/ k0 + 1 <= Len(f) /\ f[k0 + 1] = "#"
      BY <1>1, <1>2, <1>7, <1>8, <1>11
    <2>4. Reached(f, 0, 0, d, k0)
      BY <1>9, <2>1, <2>2, <2>3
    <2> QED
      BY <2>1, <2>4
  <1> QED
    BY <1>10, <1>11

\* rmatch: of the topics that have a message, those that the filter matches.
LEMMA RMatchFacts ==
  ASSUME PlainLevels, TypeInv, StoreInv, NEW f \in Filters, ~Refused(f), NEW o
  PROVE  o \in rmatch(f) <=>
           \E t \in TopicNames : /\ t \in DOMAIN rnodes /\ rnodes[t] = o /\ o # NoMsg
                                 /\ Matches(f, t)
  <1> DEFINE R == RReach(f, 1, <<>>)
             z == Len(<<>>)
  <1>1. f \in Topic
    BY PlainPath
  <1>2. rmatch(f) = {rnodes[n] : n \in R} \ {NoMsg}
    BY <1>1, RMatch DEF TypeInv, RetTree
  <1>3. \A d : d \in R <=> d \in DOMAIN rnodes /\ IsPre(<<>>, d)
                           /\ \E k \in z..Len(d) : Reached(f, 1 - 1 - z, z, d, k)
    BY Zenon DEF RReach
  <1>4. z = 0
    BY EmptySeq
  <1> HIDE DEF R, z
  <1>5. 1 - 1 - z = 0
    BY <1>4
  <1>6. \A d : d \in R <=> d \in DOMAIN rnodes /\ IsPre(<<>>, d)
                           /\ \E k \in 0..Len(d) : Reached(f, 0, 0, d, k)
    BY <1>3, <1>4, <1>5, Zenon
  <1>7. \A d \in TopicNames : d \in R <=> d \in DOMAIN rnodes /\ Matches(f, d)
    <2>1. \A d \in TopicNames : IsPre(<<>>, d)
      BY PlainPath, PreOrder
    <2>2. \A d \in TopicNames : (\E k \in 0..Len(d) : Reached(f, 0, 0, d, k)) <=> Matches(f, d)
      BY ReachedMatches
    <2> QED
      BY <1>6, <2>1, <2>2, Zenon
  <1>8. \A n \in R : n \in DOMAIN rnodes /\ (rnodes[n] # NoMsg => n \in TopicNames)
    BY <1>6, Zenon DEF StoreInv, NodeOK
  <1> QED
    BY <1>2, <1>7, <1>8

\* What is found for a filter is what the store has.
LEMMA StoreImplies ==
  ASSUME PlainLevels, TypeInv, StoreInv
  PROVE  RetainedAgrees
  <1> SUFFICES ASSUME NEW f \in Filters, ~Refused(f)
               PROVE  LET found == {rmsg[o].msg : o \in rmatch(f)} IN
                      /\ found \subseteq {rstore[t] : t \in {u \in TopicNames : Matches(f, u)}}
                      /\ \A t \in Leaves : rstore[t] # NoMsg /\ Matches(f, t) => rstore[t] \in found
    BY Zenon DEF RetainedAgrees
  <1>1. \A o : o \in rmatch(f) <=>
           \E t \in TopicNames : /\ t \in DOMAIN rnodes /\ rnodes[t] = o /\ o # NoMsg
                                 /\ Matches(f, t)
    BY RMatchFacts
  <1>2. \A t \in DOMAIN rnodes : rnodes[t] # NoMsg => rmsg[rnodes[t]].msg = rstore[t]
    BY Zenon DEF StoreInv, NodeOK
  <1>3. \A t \in Leaves : t \in TopicNames /\ (rstore[t] # NoMsg => t \in DOMAIN rnodes /\ rnodes[t] # NoMsg)
    BY Zenon DEF StoreInv, Leaves
  <1> QED
    BY <1>1, <1>2, <1>3

\* Where no level is empty, rmatch gives a filter what the store holds for the topics it
\* matches: never an older or a cleared message and, of topics with none below, all.
THEOREM RetainedCorrect == ASSUME PlainLevels PROVE Spec => []RetainedAgrees
  <1>1. Init => TypeInv /\ StoreInv
    BY TypeInit, StoreInit
  <1>2. TypeInv /\ StoreInv /\ [Next]_vars => TypeInv' /\ StoreInv'
    BY TypeStep, StoreStep
  <1>3. TypeInv /\ StoreInv => RetainedAgrees
    BY StoreImplies
  <1> QED
    BY <1>1, <1>2, <1>3, PTL DEF Spec


-----------------------------------------------------------------------------
(* A retained message reaches who asks for it, live or as retained.        *)

\* The step of one connection.
LEMMA Moves ==
  ASSUME TypeInv, NEW e \in Clients, NEW w, at' = [at EXCEPT ![e] = w]
  PROVE  at'[e] = w /\ \A d \in Clients : d # e => at'[d] = at[d]
  BY DEF TypeInv

\* What LowerQos, SendRetained and RestoreQos do to what is left to send.
LEMMA LowerMove ==
  ASSUME TypeInv, NEW e \in Clients, LowerQos(e)
  PROVE  /\ at[e].step = "lower" /\ at'[e].step = "send"
         /\ \E x \in at[e].rmsgs : at'[e].rmsgs = (at[e].rmsgs \ {x}) \cup {<<0, x[2]>>}
         /\ \A d \in Clients : d # e => at'[d] = at[d]
         /\ UNCHANGED <<rnodes, rstore, topics, delivered>>
  <1>1. PICK x \in at[e].rmsgs :
          at' = [at EXCEPT ![e].step = "send", ![e].rmsgs = (@ \ {x}) \cup {<<0, x[2]>>},
                           ![e].old = rmsg[x[2]].qos]
    BY DEF LowerQos
  <1> DEFINE r == (at[e].rmsgs \ {x}) \cup {<<0, x[2]>>}
             o == rmsg[x[2]].qos
             w == [at[e] EXCEPT !.step = "send", !.rmsgs = r, !.old = o]
  <1>2. at' = [at EXCEPT ![e] = w]
    BY <1>1
  <1> HIDE DEF r, o
  <1>3. w.step = "send" /\ w.rmsgs = r
    BY DEF TypeInv, AtRecord
  <1> HIDE DEF w
  <1>4. at'[e] = w /\ \A d \in Clients : d # e => at'[d] = at[d]
    BY <1>2, Moves
  <1>5. at[e].step = "lower" /\ UNCHANGED <<rnodes, rstore, topics, delivered>>
    BY DEF LowerQos
  <1> QED
    BY <1>3, <1>4, <1>5 DEF r

\* The message of the first is handed to the client.
LEMMA SendMove ==
  ASSUME TypeInv, NEW e \in Clients, SendRetained(e)
  PROVE  /\ at[e].step = "send" /\ at'[e].step = "restore" /\ at'[e].rmsgs = at[e].rmsgs
         /\ \E x \in at[e].rmsgs : First(e, x) /\ delivered'[e] = delivered[e] \cup {rmsg[x[2]].msg}
         /\ \A d \in Clients : d # e => at'[d] = at[d] /\ delivered'[d] = delivered[d]
         /\ UNCHANGED <<rnodes, rmsg, rstore, topics>>
  <1>1. /\ at[e].step = "send" /\ UNCHANGED <<rnodes, rmsg, rstore, topics>>
        /\ at' = [at EXCEPT ![e].step = "restore"]
    BY DEF SendRetained, trees
  <1>2. PICK x \in at[e].rmsgs :
          First(e, x) /\ delivered' = [delivered EXCEPT ![e] = @ \cup {rmsg[x[2]].msg}]
    BY DEF SendRetained
  <1>3. /\ delivered'[e] = delivered[e] \cup {rmsg[x[2]].msg}
        /\ \A d \in Clients : d # e => delivered'[d] = delivered[d]
    BY <1>2 DEF TypeInv, Books
  <1> DEFINE w == [at[e] EXCEPT !.step = "restore"]
  <1>4. at' = [at EXCEPT ![e] = w] /\ w.step = "restore" /\ w.rmsgs = at[e].rmsgs
    BY <1>1 DEF TypeInv, AtRecord
  <1> HIDE DEF w
  <1>5. at'[e] = w /\ \A d \in Clients : d # e => at'[d] = at[d]
    BY <1>4, Moves
  <1> QED
    BY <1>1, <1>2, <1>3, <1>4, <1>5

\* The first is taken away.
LEMMA RestoreMove ==
  ASSUME TypeInv, NEW e \in Clients, RestoreQos(e)
  PROVE  /\ at[e].step = "restore"
         /\ \E x \in at[e].rmsgs : First(e, x) /\ at'[e].rmsgs = at[e].rmsgs \ {x}
         /\ at'[e].step = (IF at'[e].rmsgs = {} THEN "idle" ELSE "lower")
         /\ \A d \in Clients : d # e => at'[d] = at[d]
         /\ UNCHANGED <<rnodes, rstore, topics, delivered>>
  <1>1. PICK x \in at[e].rmsgs :
          First(e, x) /\ at' = [at EXCEPT ![e] = Sending([at[e] EXCEPT !.rmsgs = @ \ {x}])]
    BY DEF RestoreQos
  <1> DEFINE r == at[e].rmsgs \ {x}
             u == [at[e] EXCEPT !.rmsgs = r]
             w == Sending(u)
  <1>2. at' = [at EXCEPT ![e] = w]
    BY <1>1
  <1>3. u \in AtRecord /\ u.rmsgs = r
    <2>1. at[e] \in AtRecord /\ r \subseteq Pairs
      BY DEF TypeInv, AtRecord
    <2> HIDE DEF r
    <2> QED
      BY <2>1 DEF AtRecord
  <1> HIDE DEF u, r
  <1>4. w.rmsgs = r /\ w.step = (IF r = {} THEN "idle" ELSE "lower")
    BY <1>3, SendingFacts, IdleFacts
  <1> HIDE DEF w
  <1>5. at'[e] = w /\ \A d \in Clients : d # e => at'[d] = at[d]
    BY <1>2, Moves
  <1>6. at[e].step = "restore" /\ UNCHANGED <<rnodes, rstore, topics, delivered>>
    BY DEF RestoreQos
  <1> QED
    BY <1>1, <1>4, <1>5, <1>6 DEF r

\* What Subscribe does to its connection.
LEMMA SubscribeMove ==
  ASSUME TypeInv, NEW e \in Clients, NEW p \in Packets, NEW i \in DOMAIN p, Subscribe(e, p, i)
  PROVE  /\ at[e].step \in {"idle", "subscribe"}
         /\ \/ at'[e].step = "stop" /\ at'[e].rmsgs = {}
            \/ /\ at'[e].step = "retained" /\ at'[e].rmsgs = at[e].rmsgs
               /\ ~Refused(sub(e)'.topic)
         /\ \A d \in Clients : d # e => at'[d] = at[d]
         /\ UNCHANGED <<rnodes, rstore, topics, delivered>>
  <1> DEFINE R == Refused(p[i].topic)
             w == IF R THEN [Idle EXCEPT !.step = "stop"]
                  ELSE [at[e] EXCEPT !.step = "retained", !.packet = p, !.i = i]
  <1>1. at' = [at EXCEPT ![e] = w] /\ UNCHANGED <<rnodes, rstore, topics, delivered>>
    BY DEF Subscribe
  <1>2. at[e].step \in {"idle", "subscribe"}
    BY DEF Subscribe
  <1>3. /\ R => w.step = "stop" /\ w.rmsgs = {}
        /\ ~R => w.step = "retained" /\ w.rmsgs = at[e].rmsgs /\ w.packet = p /\ w.i = i
    <2> HIDE DEF R
    <2>1. CASE R
      BY <2>1, IdleFacts
    <2>2. CASE ~R
      BY <2>2 DEF TypeInv, AtRecord
    <2> QED
      BY <2>1, <2>2
  <1> HIDE DEF w
  <1>4. at'[e] = w /\ \A d \in Clients : d # e => at'[d] = at[d]
    BY <1>1, Moves
  <1>5. ~R => sub(e)' = p[i]
    BY <1>3, <1>4 DEF sub
  <1> QED
    BY <1>1, <1>2, <1>3, <1>4, <1>5 DEF R


\* The other connections keep their order of sending.
LEMMA FrontsOthers ==
  ASSUME Fronts, NEW e \in Clients, \A d \in Clients : d # e => at'[d] = at[d], FrontOK(e)'
  PROVE  Fronts'
  <1>1. ASSUME NEW d \in Clients, d # e PROVE FrontOK(d)'
    <2>1. at'[d] = at[d] /\ FrontOK(d)
      BY <1>1 DEF Fronts
    <2>2. sub(d)' = sub(d)
      BY <2>1 DEF sub
    <2> QED
      BY <2>1, <2>2, Zenon DEF FrontOK
  <1> QED
    BY <1>1 DEF Fronts

\* A connection with nothing in front.
LEMMA FrontNone ==
  ASSUME NEW e \in Clients, \A x \in at'[e].rmsgs : x[1] # 0,
         at'[e].step \notin {"send", "restore"},
         at'[e].step = "retained" => ~Refused(sub(e)'.topic)
  PROVE  FrontOK(e)'
  BY DEF FrontOK

\* The first to be sent is the one at work.
LEMMA FirstIsFront ==
  ASSUME TypeInv, Fronts, NEW e \in Clients, at[e].step \in {"send", "restore"},
         NEW x \in at[e].rmsgs, First(e, x)
  PROVE  x[1] = 0 /\ \A y \in at[e].rmsgs : y[1] = 0 => y = x
  <1>1. PICK z \in at[e].rmsgs : z[1] = 0
    BY DEF Fronts, FrontOK
  <1>2. x[1] \in Nat
    BY PairFacts DEF TypeInv, AtRecord
  <1>3. x[1] <= z[1]
    BY <1>1 DEF First
  <1>4. x[1] = 0
    BY <1>1, <1>2, <1>3
  <1> QED
    BY <1>4 DEF Fronts, FrontOK

\* Every step keeps the order of sending.
LEMMA FrontsStep ==
  ASSUME TypeInv, Fronts, [Next]_vars
  PROVE  Fronts'
  <1>1. ASSUME NEW e \in Clients, at[e].step \notin {"send", "restore"}
        PROVE  \A x \in at[e].rmsgs : x[1] # 0
    BY <1>1 DEF Fronts, FrontOK
  <1>2. ASSUME NEW e \in Clients, NEW w, at' = [at EXCEPT ![e] = w], w.rmsgs = {},
               w.step \notin {"send", "restore", "retained"}
        PROVE  Fronts'
    <2>1. at'[e] = w /\ \A d \in Clients : d # e => at'[d] = at[d]
      BY <1>2, Moves
    <2>2. FrontOK(e)'
      BY <1>2, <2>1, FrontNone
    <2> QED
      BY <2>1, <2>2, FrontsOthers
  <1>3. CASE at' = at
    <2>1. \A c \in Clients : sub(c)' = sub(c)
      BY <1>3 DEF sub
    <2> QED
      BY <1>3, <2>1, Zenon DEF Fronts, FrontOK
  <1>4. ASSUME NEW e \in Clients, NEW p \in Packets, NEW i \in DOMAIN p, Subscribe(e, p, i)
        PROVE  Fronts'
    <2>1. /\ at[e].step \in {"idle", "subscribe"}
          /\ \/ at'[e].step = "stop" /\ at'[e].rmsgs = {}
             \/ /\ at'[e].step = "retained" /\ at'[e].rmsgs = at[e].rmsgs
                /\ ~Refused(sub(e)'.topic)
          /\ \A d \in Clients : d # e => at'[d] = at[d]
      BY <1>4, SubscribeMove
    <2>2. FrontOK(e)'
      BY <1>1, <2>1, FrontNone
    <2> QED
      BY <2>1, <2>2, FrontsOthers
  <1>5. ASSUME NEW e \in Clients, AddTopicRetained(e) PROVE Fronts'
    <2> DEFINE F == Found(e, topics'[e])
    <2>1. /\ \A d \in Clients : d # e => at'[d] = at[d]
          /\ at'[e].rmsgs = at[e].rmsgs \cup F /\ at'[e].step \in {"subscribe", "idle", "lower"}
      BY <1>5, AddTopicNext
    <2>2. at[e].step = "retained" /\ at[e].step \in Working
      BY <1>5 DEF AddTopicRetained, Working
    <2>3. \A x \in F : x[1] # 0
      BY <2>2, SubFacts, FoundFacts
    <2> HIDE DEF F
    <2>4. FrontOK(e)'
      BY <1>1, <2>1, <2>2, <2>3, FrontNone
    <2> QED
      BY <2>1, <2>4, FrontsOthers
  <1>6. ASSUME NEW e \in Clients, LowerQos(e) PROVE Fronts'
    <2>1. /\ at[e].step = "lower" /\ at'[e].step = "send"
          /\ \E x \in at[e].rmsgs : at'[e].rmsgs = (at[e].rmsgs \ {x}) \cup {<<0, x[2]>>}
          /\ \A d \in Clients : d # e => at'[d] = at[d]
      BY <1>6, LowerMove
    <2>2. PICK x \in at[e].rmsgs : at'[e].rmsgs = (at[e].rmsgs \ {x}) \cup {<<0, x[2]>>}
      BY <2>1
    <2> DEFINE z == <<0, x[2]>>
    <2>3. z[1] = 0
      BY PairFacts
    <2>4. at'[e].rmsgs = (at[e].rmsgs \ {x}) \cup {z}
      BY <2>2
    <2> HIDE DEF z
    <2>5. FrontOK(e)'
      BY <1>1, <2>1, <2>3, <2>4 DEF FrontOK
    <2> QED
      BY <2>1, <2>5, FrontsOthers
  <1>7. ASSUME NEW e \in Clients, SendRetained(e) PROVE Fronts'
    <2>1. /\ at[e].step = "send" /\ at'[e].step = "restore" /\ at'[e].rmsgs = at[e].rmsgs
          /\ \A d \in Clients : d # e => at'[d] = at[d]
      BY <1>7, SendMove
    <2>2. FrontOK(e)'
      BY <2>1 DEF Fronts, FrontOK
    <2> QED
      BY <2>1, <2>2, FrontsOthers
  <1>8. ASSUME NEW e \in Clients, RestoreQos(e) PROVE Fronts'
    <2>1. /\ at[e].step = "restore"
          /\ at'[e].step \in {"idle", "lower"}
          /\ \A d \in Clients : d # e => at'[d] = at[d]
      BY <1>8, RestoreMove
    <2>2. PICK x \in at[e].rmsgs : First(e, x) /\ at'[e].rmsgs = at[e].rmsgs \ {x}
      BY <1>8, RestoreMove
    <2>3. \A y \in at[e].rmsgs : y[1] = 0 => y = x
      BY <2>1, <2>2, FirstIsFront
    <2>4. FrontOK(e)'
      BY <2>1, <2>2, <2>3, FrontNone
    <2> QED
      BY <2>1, <2>4, FrontsOthers
  <1>9. ASSUME NEW e \in Clients, onPublish(e) PROVE Fronts'
    <2>1. ASSUME NEW t \in TopicNames, NEW m \in 0..MaxMsgs, Receive(e, t, m) PROVE Fronts'
      <3> DEFINE w == [Idle EXCEPT !.step = "match", !.topic = t, !.msg = m]
      <3>1. w.step = "match" /\ w.rmsgs = {} /\ at' = [at EXCEPT ![e] = w]
        BY <2>1 DEF Receive, Idle
      <3> HIDE DEF w
      <3> QED
        BY <1>2, <3>1
    <2>2. ASSUME LookUp(e) PROVE Fronts'
      <3> DEFINE S == Match(at[e].topic)
                 w == [at[e] EXCEPT !.step = "lookSend", !.subs = S]
      <3>1. at[e].step = "match" /\ at' = [at EXCEPT ![e] = w]
        BY <2>2 DEF LookUp
      <3> HIDE DEF S
      <3>2. w.step = "lookSend" /\ w.rmsgs = at[e].rmsgs
        BY DEF TypeInv, AtRecord
      <3> HIDE DEF w
      <3>3. at'[e] = w /\ \A d \in Clients : d # e => at'[d] = at[d]
        BY <3>1, Moves
      <3>4. FrontOK(e)'
        BY <1>1, <3>1, <3>2, <3>3, FrontNone
      <3> QED
        BY <3>3, <3>4, FrontsOthers
    <2>3. ASSUME Hand(e) PROVE Fronts'
      BY <1>2, <2>3, IdleFacts DEF Hand
    <2> QED
      BY <1>9, <2>1, <2>2, <2>3, PublishSteps
  <1>10. ASSUME NEW e \in Clients, Disconnect(e) \/ Connect(e) PROVE Fronts'
    BY <1>2, <1>10, IdleFacts DEF Disconnect, Connect
  <1>11. ASSUME NEW e \in Clients, unSubAll(e) PROVE Fronts'
    BY <1>2, <1>3, <1>11, UnSubSteps, IdleFacts
  <1>12. ASSUME NEW e \in Clients, NEW f \in Filters, processUnsubscribe(e, f) PROVE Fronts'
    BY <1>3, <1>12 DEF processUnsubscribe
  <1> QED
    BY <1>3, <1>4, <1>5, <1>6, <1>7, <1>8, <1>9, <1>10, <1>11, <1>12 DEF Next, vars


\* What is coming to a client stays so when a connection takes a step other than that of
\* a publisher, if it does with what it has to send.
LEMMA ComingStays ==
  ASSUME NEW e \in Clients, NEW c \in Clients, NEW t, Coming(c, t),
         rstore'[t] = rstore[t], rnodes'[t] = rnodes[t], delivered[c] \subseteq delivered'[c],
         \A d \in Clients : d # e => at'[d] = at[d],
         ToMatch(e, t) \/ ToHand(e, c, t) => Coming(c, t)',
         c = e /\ ToSend(c, t) => Coming(c, t)'
  PROVE  Coming(c, t)'
  <1>1. CASE rstore[t] \in delivered[c]
    BY <1>1 DEF Coming
  <1>2. ASSUME NEW d \in Clients, d # e, ToMatch(d, t) \/ ToHand(d, c, t) PROVE Coming(c, t)'
    <2>1. at'[d] = at[d]
      BY <1>2
    <2>2. (ToMatch(d, t) \/ ToHand(d, c, t))'
      BY <1>2, <2>1 DEF ToMatch, ToHand
    <2> QED
      BY <2>2 DEF Coming
  <1>3. CASE c # e /\ ToSend(c, t)
    <2>1. at'[c] = at[c]
      BY <1>3
    <2>2. ToSend(c, t)'
      BY <1>3, <2>1 DEF ToSend
    <2> QED
      BY <2>2 DEF Coming
  <1> QED
    BY <1>1, <1>2, <1>3 DEF Coming

\* A client that asked before the step of another asks still, and no other.
LEMMA AsksStays ==
  ASSUME NEW c \in Clients, NEW t, Asks(c, t)', topics'[c] = topics[c],
         at'[c] = at[c] \/ at[c].step \notin {"stop", "offline"}
  PROVE  Asks(c, t)
  BY DEF Asks

\* The step of a connection that is not a publisher: the others.
LEMMA ComingOthers ==
  ASSUME ComingInv, NEW e \in Clients, NEW c \in Clients, c # e, NEW t \in Leaves,
         rstore[t] # NoMsg, Asks(c, t)', rstore'[t] = rstore[t], rnodes'[t] = rnodes[t],
         topics'[c] = topics[c], delivered'[c] = delivered[c],
         \A d \in Clients : d # e => at'[d] = at[d],
         at[e].step \notin {"match", "lookSend"}
  PROVE  Coming(c, t)'
  <1>1. Asks(c, t)
    BY AsksStays
  <1>2. Coming(c, t)
    BY <1>1 DEF ComingInv
  <1>3. ~ToMatch(e, t) /\ ~ToHand(e, c, t)
    BY DEF ToMatch, ToHand
  <1> QED
    BY <1>2, <1>3, ComingStays

\* The same for the connection itself.
LEMMA ComingSelf ==
  ASSUME ComingInv, NEW e \in Clients, NEW t \in Leaves,
         rstore[t] # NoMsg, Asks(e, t), rstore'[t] = rstore[t], rnodes'[t] = rnodes[t],
         delivered[e] \subseteq delivered'[e],
         \A d \in Clients : d # e => at'[d] = at[d],
         at[e].step \notin {"match", "lookSend"},
         ToSend(e, t) => Coming(e, t)'
  PROVE  Coming(e, t)'
  <1>1. Coming(e, t)
    BY DEF ComingInv
  <1>2. ~ToMatch(e, t) /\ ~ToHand(e, e, t)
    BY DEF ToMatch, ToHand
  <1> QED
    BY <1>1, <1>2, ComingStays

\* Subscribe keeps what is left to send.
LEMMA SubscribeComing ==
  ASSUME TypeInv, ComingInv, NEW e \in Clients, NEW p \in Packets, NEW i \in DOMAIN p,
         Subscribe(e, p, i)
  PROVE  ComingInv'
  <1>1. /\ at[e].step \in {"idle", "subscribe"}
        /\ \/ at'[e].step = "stop" /\ at'[e].rmsgs = {}
           \/ at'[e].step = "retained" /\ at'[e].rmsgs = at[e].rmsgs
        /\ \A d \in Clients : d # e => at'[d] = at[d]
        /\ UNCHANGED <<rnodes, rstore, topics, delivered>>
    BY SubscribeMove
  <1> SUFFICES ASSUME NEW c \in Clients, NEW t \in Leaves, rstore'[t] # NoMsg, Asks(c, t)'
               PROVE  Coming(c, t)'
    BY DEF ComingInv, Leaves
  <1>2. CASE c # e
    BY <1>1, <1>2, ComingOthers
  <1>3. CASE c = e
    <2>1. at'[e].step = "retained" /\ at'[e].rmsgs = at[e].rmsgs
      BY <1>1, <1>3 DEF Asks
    <2>2. Asks(e, t)
      BY <1>1, <1>3, AsksStays
    <2>3. ASSUME ToSend(e, t) PROVE Coming(e, t)'
      <3>1. \E x \in at[e].rmsgs : x[2] = rnodes[t]
        BY <2>3 DEF ToSend
      <3>2. ToSend(e, t)'
        BY <1>1, <2>1, <3>1 DEF ToSend, Working
      <3> QED
        BY <3>2 DEF Coming
    <2> QED
      BY <1>1, <1>3, <2>2, <2>3, ComingSelf
  <1> QED
    BY <1>2, <1>3

\* AddTopicRetained: what the new subscription asks for is found or was coming.
LEMMA AddTopicComing ==
  ASSUME PlainLevels, TypeInv, StoreInv, Fronts, ComingInv, NEW e \in Clients, AddTopicRetained(e)
  PROVE  ComingInv'
  <1> DEFINE f == sub(e).topic
             q == [qos |-> sub(e).qos, handling |-> sub(e).handling]
             F == Found(e, topics'[e])
  <1>1. /\ at[e].step = "retained" /\ at[e].step \in Working
        /\ UNCHANGED <<rnodes, rstore, delivered>>
        /\ topics' = [topics EXCEPT ![e][f] = q]
    BY DEF AddTopicRetained, Working, trees
  <1>2. f \in Filters /\ ~Refused(f) /\ q.handling = sub(e).handling
    BY <1>1, SubFacts DEF Fronts, FrontOK
  <1>3. /\ \A d \in Clients : d # e => at'[d] = at[d]
        /\ at'[e].rmsgs = at[e].rmsgs \cup F
        /\ at'[e].rmsgs # {} => at'[e].step \in {"subscribe", "lower"}
    BY AddTopicNext
  <1>4. sub(e).handling = 0 => F = {<<at[e].i, o>> : o \in rmatch(f)}
    BY DEF Found
  <1> HIDE DEF q, F
  <1>5. /\ topics'[e][f] = q
        /\ \A g \in Filters : g # f => topics'[e][g] = topics[e][g]
        /\ \A d \in Clients : d # e => topics'[d] = topics[d]
    BY <1>1, <1>2, TopicChanged
  <1> SUFFICES ASSUME NEW c \in Clients, NEW t \in Leaves, rstore'[t] # NoMsg, Asks(c, t)'
               PROVE  Coming(c, t)'
    BY DEF ComingInv, Leaves
  <1>6. ASSUME NEW x \in at'[e].rmsgs, x[2] = rnodes[t] PROVE Coming(e, t)'
    <2>1. ToSend(e, t)'
      BY <1>1, <1>3, <1>6 DEF ToSend, Working
    <2> QED
      BY <2>1 DEF Coming
  <1>7. CASE c # e
    BY <1>1, <1>3, <1>5, <1>7, ComingOthers
  <1>8. CASE c = e
    <2>1. PICK g \in Filters :
            topics'[e][g] # NoSub /\ topics'[e][g].handling = 0 /\ Matches(g, t)
      BY <1>8 DEF Asks
    <2>2. CASE g = f
      <3>1. rnodes[t] \in rmatch(f)
        <4>1. t \in TopicNames /\ t \in DOMAIN rnodes /\ rnodes[t] # NoMsg
          BY <1>1 DEF StoreInv, Leaves
        <4> QED
          BY <1>2, <2>1, <2>2, <4>1, RMatchFacts
      <3>2. sub(e).handling = 0
        BY <1>2, <1>5, <2>1, <2>2
      <3> DEFINE x == <<at[e].i, rnodes[t]>>
      <3>3. x \in F
        BY <1>4, <3>1, <3>2
      <3>4. x[2] = rnodes[t]
        BY PairFacts
      <3> HIDE DEF x
      <3> QED
        BY <1>3, <1>6, <1>8, <3>3, <3>4
    <2>3. CASE g # f
      <3>1. topics[e][g] # NoSub /\ topics[e][g].handling = 0
        BY <1>5, <2>1, <2>3
      <3>2. Asks(e, t)
        BY <1>1, <2>1, <3>1 DEF Asks
      <3>3. ToSend(e, t) => Coming(e, t)'
        BY <1>3, <1>6 DEF ToSend
      <3> QED
        BY <1>1, <1>3, <1>8, <3>2, <3>3, ComingSelf
    <2> QED
      BY <2>2, <2>3
  <1> QED
    BY <1>7, <1>8


\* LowerQos puts the object in front.
LEMMA LowerComing ==
  ASSUME TypeInv, ComingInv, NEW e \in Clients, LowerQos(e)
  PROVE  ComingInv'
  <1>1. /\ at[e].step = "lower" /\ at'[e].step = "send"
        /\ \A d \in Clients : d # e => at'[d] = at[d]
        /\ UNCHANGED <<rnodes, rstore, topics, delivered>>
    BY LowerMove
  <1>2. PICK y \in at[e].rmsgs : at'[e].rmsgs = (at[e].rmsgs \ {y}) \cup {<<0, y[2]>>}
    BY LowerMove
  <1> DEFINE z == <<0, y[2]>>
  <1>3. z[2] = y[2] /\ at'[e].rmsgs = (at[e].rmsgs \ {y}) \cup {z}
    BY <1>2, PairFacts
  <1> HIDE DEF z
  <1> SUFFICES ASSUME NEW c \in Clients, NEW t \in Leaves, rstore'[t] # NoMsg, Asks(c, t)'
               PROVE  Coming(c, t)'
    BY DEF ComingInv, Leaves
  <1>4. CASE c # e
    BY <1>1, <1>4, ComingOthers
  <1>5. CASE c = e
    <2>1. Asks(e, t)
      BY <1>1, <1>5, AsksStays
    <2>2. ASSUME ToSend(e, t) PROVE Coming(e, t)'
      <3>1. PICK x \in at[e].rmsgs : x[2] = rnodes[t]
        BY <2>2 DEF ToSend
      <3>2. \E u \in at'[e].rmsgs : u[2] = rnodes[t]
        BY <1>3, <3>1
      <3>3. ToSend(e, t)'
        BY <1>1, <3>2 DEF ToSend, Working
      <3> QED
        BY <3>3 DEF Coming
    <2> QED
      BY <1>1, <1>5, <2>1, <2>2, ComingSelf
  <1> QED
    BY <1>4, <1>5

\* SendRetained delivers what the object in front has: the message in the store.
LEMMA SendComing ==
  ASSUME TypeInv, StoreInv, Fronts, ComingInv, NEW e \in Clients, SendRetained(e)
  PROVE  ComingInv'
  <1>1. /\ at[e].step = "send" /\ at'[e].step = "restore" /\ at'[e].rmsgs = at[e].rmsgs
        /\ \A d \in Clients : d # e => at'[d] = at[d] /\ delivered'[d] = delivered[d]
        /\ UNCHANGED <<rnodes, rmsg, rstore, topics>>
    BY SendMove
  <1>2. PICK y \in at[e].rmsgs :
          First(e, y) /\ delivered'[e] = delivered[e] \cup {rmsg[y[2]].msg}
    BY SendMove
  <1>3. \A x \in at[e].rmsgs : x[1] = 0 => x = y
    BY <1>1, <1>2, FirstIsFront
  <1> SUFFICES ASSUME NEW c \in Clients, NEW t \in Leaves, rstore'[t] # NoMsg, Asks(c, t)'
               PROVE  Coming(c, t)'
    BY DEF ComingInv, Leaves
  <1>4. CASE c # e
    BY <1>1, <1>4, ComingOthers
  <1>5. CASE c = e
    <2>1. Asks(e, t)
      BY <1>1, <1>5, AsksStays
    <2>2. ASSUME ToSend(e, t) PROVE Coming(e, t)'
      <3>1. PICK x \in at[e].rmsgs : x[2] = rnodes[t]
        BY <2>2 DEF ToSend
      <3>2. CASE x[1] # 0
        <4>1. ToSend(e, t)'
          BY <1>1, <3>1, <3>2 DEF ToSend, Working
        <4> QED
          BY <4>1 DEF Coming
      <3>3. CASE x[1] = 0
        <4>1. rmsg[rnodes[t]].msg = rstore[t]
          BY <1>1 DEF StoreInv, NodeOK
        <4>2. y[2] = rnodes[t]
          BY <1>3, <3>1, <3>3
        <4>3. rstore'[t] \in delivered'[e]
          BY <1>1, <1>2, <4>1, <4>2
        <4> QED
          BY <4>3 DEF Coming
      <3> QED
        BY <3>2, <3>3
    <2> QED
      BY <1>1, <1>2, <1>5, <2>1, <2>2, ComingSelf
  <1> QED
    BY <1>4, <1>5

\* RestoreQos takes away only the object that was sent.
LEMMA RestoreComing ==
  ASSUME TypeInv, Fronts, ComingInv, NEW e \in Clients, RestoreQos(e)
  PROVE  ComingInv'
  <1>1. /\ at[e].step = "restore"
        /\ at'[e].step = (IF at'[e].rmsgs = {} THEN "idle" ELSE "lower")
        /\ \A d \in Clients : d # e => at'[d] = at[d]
        /\ UNCHANGED <<rnodes, rstore, topics, delivered>>
    BY RestoreMove
  <1>2. PICK y \in at[e].rmsgs : First(e, y) /\ at'[e].rmsgs = at[e].rmsgs \ {y}
    BY RestoreMove
  <1>3. y[1] = 0
    BY <1>1, <1>2, FirstIsFront
  <1> SUFFICES ASSUME NEW c \in Clients, NEW t \in Leaves, rstore'[t] # NoMsg, Asks(c, t)'
               PROVE  Coming(c, t)'
    BY DEF ComingInv, Leaves
  <1>4. CASE c # e
    BY <1>1, <1>4, ComingOthers
  <1>5. CASE c = e
    <2>1. Asks(e, t)
      BY <1>1, <1>5, AsksStays
    <2>2. ASSUME ToSend(e, t) PROVE Coming(e, t)'
      <3>1. PICK x \in at[e].rmsgs : x[2] = rnodes[t] /\ x[1] # 0
        BY <1>1, <2>2 DEF ToSend
      <3>2. x \in at'[e].rmsgs /\ at'[e].step = "lower"
        BY <1>1, <1>2, <1>3, <3>1
      <3>3. ToSend(e, t)'
        BY <1>1, <3>1, <3>2 DEF ToSend, Working
      <3> QED
        BY <3>3 DEF Coming
    <2> QED
      BY <1>1, <1>5, <2>1, <2>2, ComingSelf
  <1> QED
    BY <1>4, <1>5

\* The publisher: what it retains, who it finds, and whom it hands the message.
LEMMA ReceiveComing ==
  ASSUME PlainLevels, TypeInv, StoreInv, ComingInv,
         NEW e \in Clients, NEW u \in TopicNames, NEW m \in 0..MaxMsgs, Receive(e, u, m)
  PROVE  ComingInv'
  <1> DEFINE w == [Idle EXCEPT !.step = "match", !.topic = u, !.msg = m]
  <1>1. /\ at[e].step = "idle" /\ at' = [at EXCEPT ![e] = w]
        /\ UNCHANGED <<topics, delivered>> /\ Retain(u, m)
    BY DEF Receive
  <1>2. w.step = "match" /\ w.topic = u /\ w.msg = m
    BY DEF Idle
  <1> HIDE DEF w
  <1>3. at'[e] = w /\ \A d \in Clients : d # e => at'[d] = at[d]
    BY <1>1, Moves
  <1>4. rstore' = [rstore EXCEPT ![u] = m] /\ rstore \in [TopicNames -> 0..MaxMsgs]
    BY <1>1, RetainType DEF TypeInv, Books
  <1> SUFFICES ASSUME NEW c \in Clients, NEW t \in Leaves, rstore'[t] # NoMsg, Asks(c, t)'
               PROVE  Coming(c, t)'
    BY DEF ComingInv, Leaves
  <1>5. t \in TopicNames
    BY DEF Leaves
  <1>6. CASE t = u
    <2>1. rstore'[t] = m
      BY <1>4, <1>5, <1>6
    <2>2. ToMatch(e, t)'
      BY <1>2, <1>3, <1>6, <2>1 DEF ToMatch
    <2> QED
      BY <2>2 DEF Coming
  <1>7. CASE t # u
    <2>1. rstore'[t] = rstore[t] /\ rstore[t] # NoMsg
      BY <1>4, <1>5, <1>7
    <2>2. rnodes'[t] = rnodes[t]
      BY <1>7, <2>1, ReceiveStore
    <2>3. CASE c # e
      BY <1>1, <1>3, <2>1, <2>2, <2>3, ComingOthers
    <2>4. CASE c = e
      <3>1. Asks(e, t)
        BY <1>1, <2>4, AsksStays
      <3>2. ~ToSend(e, t)
        BY <1>1 DEF ToSend, Working
      <3> QED
        BY <1>1, <1>3, <2>1, <2>2, <2>4, <3>1, <3>2, ComingSelf
    <2> QED
      BY <2>3, <2>4
  <1> QED
    BY <1>6, <1>7

\* Whoever asks for a topic is found for it, also while the subscription is being added.
LEMMA AskerFound ==
  ASSUME PlainLevels, TypeInv, RouteInv, NEW c \in Clients, NEW t \in TopicNames, Asks(c, t)
  PROVE  c \in Match(t)
  <1>1. PICK f \in Filters : topics[c][f] # NoSub /\ Matches(f, t)
    BY DEF Asks
  <1>2. f \in Path /\ f # <<>>
    BY PlainPath
  <1>3. SessionOK(c) /\ Agrees(c, f)
    BY <1>2 DEF RouteInv
  <1>4. topics[c][f].qos # NoQos
    BY <1>1, <1>3 DEF SessionOK
  <1>5. at[c].step = "retained" => sub(c).qos # NoQos
    <2>1. at[c].step = "retained" => at[c].step \in Working
      BY DEF Working
    <2> QED
      BY <2>1, SubFacts DEF NoQos
  <1>6. Held(snodes, f, c) # NoQos
    BY <1>3, <1>4, <1>5 DEF Agrees
  <1>7. f \in DOMAIN snodes /\ snodes[f][c] # NoQos
    BY <1>6 DEF Held
  <1>8. f \in smatch(t)
    BY <1>1, <1>2, <1>7, SMatchFacts DEF TypeInv, SubTree
  <1> QED
    BY <1>7, <1>8, MatchClients

\* The publisher finds whoever asks.
LEMMA LookUpComing ==
  ASSUME PlainLevels, TypeInv, RouteInv, ComingInv, NEW e \in Clients, LookUp(e)
  PROVE  ComingInv'
  <1> DEFINE S == Match(at[e].topic)
             w == [at[e] EXCEPT !.step = "lookSend", !.subs = S]
  <1>1. /\ at[e].step = "match" /\ at' = [at EXCEPT ![e] = w]
        /\ UNCHANGED <<rnodes, rstore, topics, delivered>>
    BY DEF LookUp, trees
  <1> HIDE DEF S
  <1>2. w.step = "lookSend" /\ w.subs = S /\ w.msg = at[e].msg
    BY DEF TypeInv, AtRecord
  <1> HIDE DEF w
  <1>3. at'[e] = w /\ \A d \in Clients : d # e => at'[d] = at[d]
    BY <1>1, Moves
  <1> SUFFICES ASSUME NEW c \in Clients, NEW t \in Leaves, rstore'[t] # NoMsg, Asks(c, t)'
               PROVE  Coming(c, t)'
    BY DEF ComingInv, Leaves
  <1>4. Asks(c, t)
    BY <1>1, <1>3, AsksStays
  <1>5. Coming(c, t)
    BY <1>1, <1>4 DEF ComingInv
  <1>6. ASSUME ToMatch(e, t) PROVE Coming(c, t)'
    <2>1. t \in TopicNames
      BY DEF Leaves
    <2>2. c \in S
      BY <1>4, <1>6, <2>1, AskerFound DEF S, ToMatch
    <2>3. ToHand(e, c, t)'
      BY <1>1, <1>2, <1>3, <1>6, <2>2 DEF ToHand, ToMatch
    <2> QED
      BY <2>3 DEF Coming
  <1>7. ~ToHand(e, c, t)
    BY <1>1 DEF ToHand
  <1>8. ~ToSend(e, t)
    BY <1>1 DEF ToSend, Working
  <1> QED
    BY <1>1, <1>3, <1>5, <1>6, <1>7, <1>8, ComingStays

\* It hands them the message.
LEMMA HandComing ==
  ASSUME TypeInv, ComingInv, NEW e \in Clients, Hand(e)
  PROVE  ComingInv'
  <1>1. /\ at[e].step = "lookSend" /\ at' = [at EXCEPT ![e] = Idle]
        /\ UNCHANGED <<rnodes, rstore, topics>> /\ Deliver(at[e].subs, at[e].msg)
    BY DEF Hand, trees
  <1> DEFINE m == at[e].msg
             S == at[e].subs
  <1>2. delivered' = [d \in Clients |-> IF d \in S /\ m # NoMsg THEN delivered[d] \cup {m} ELSE delivered[d]]
    BY <1>1 DEF Deliver
  <1>3. at'[e] = Idle /\ \A d \in Clients : d # e => at'[d] = at[d]
    BY <1>1, Moves
  <1> HIDE DEF m, S
  <1> SUFFICES ASSUME NEW c \in Clients, NEW t \in Leaves, rstore'[t] # NoMsg, Asks(c, t)'
               PROVE  Coming(c, t)'
    BY DEF ComingInv, Leaves
  <1>4. Asks(c, t)
    BY <1>1, <1>3, AsksStays
  <1>5. Coming(c, t)
    BY <1>1, <1>4 DEF ComingInv
  <1>6. delivered[c] \subseteq delivered'[c] /\ (c \in S /\ m # NoMsg => m \in delivered'[c])
    BY <1>2
  <1>7. ASSUME ToHand(e, c, t) PROVE Coming(c, t)'
    <2>1. m = rstore[t] /\ c \in S
      BY <1>7 DEF ToHand, m, S
    <2>2. rstore'[t] \in delivered'[c]
      BY <1>1, <1>6, <2>1
    <2> QED
      BY <2>2 DEF Coming
  <1>8. ~ToMatch(e, t)
    BY <1>1 DEF ToMatch
  <1>9. ~ToSend(e, t)
    BY <1>1 DEF ToSend, Working
  <1> QED
    BY <1>1, <1>3, <1>5, <1>6, <1>7, <1>8, <1>9, ComingStays

\* The end of a connection, and its start with a new session.
LEMMA RestComing ==
  ASSUME TypeInv, ComingInv, NEW e \in Clients,
         at[e].step \notin {"match", "lookSend"}, UNCHANGED <<rnodes, rstore>>,
         \A d \in Clients : d # e => /\ at'[d] = at[d] /\ topics'[d] = topics[d]
                                     /\ delivered'[d] = delivered[d],
         \A t \in Leaves : ~Asks(e, t)'
  PROVE  ComingInv'
  <1> SUFFICES ASSUME NEW c \in Clients, NEW t \in Leaves, rstore'[t] # NoMsg, Asks(c, t)'
               PROVE  Coming(c, t)'
    BY DEF ComingInv, Leaves
  <1>1. c # e
    OBVIOUS
  <1>2. \A d \in Clients : d # e => at'[d] = at[d]
    OBVIOUS
  <1>3. topics'[c] = topics[c] /\ delivered'[c] = delivered[c]
    BY <1>1
  <1> QED
    BY <1>1, <1>2, <1>3, ComingOthers


\* Every step keeps what is coming.
LEMMA ComingStep ==
  ASSUME PlainLevels, TypeInv, RouteInv, StoreInv, Fronts, ComingInv, [Next]_vars
  PROVE  ComingInv'
  <1>1. ASSUME NEW e \in Clients, NEW p \in Packets, NEW i \in DOMAIN p, Subscribe(e, p, i)
        PROVE  ComingInv'
    BY <1>1, SubscribeComing
  <1>2. ASSUME NEW e \in Clients, AddTopicRetained(e) PROVE ComingInv'
    BY <1>2, AddTopicComing
  <1>3. ASSUME NEW e \in Clients, LowerQos(e) \/ SendRetained(e) \/ RestoreQos(e) PROVE ComingInv'
    BY <1>3, LowerComing, SendComing, RestoreComing
  <1>4. ASSUME NEW e \in Clients, onPublish(e) PROVE ComingInv'
    BY <1>4, PublishSteps, ReceiveComing, LookUpComing, HandComing
  <1>5. ASSUME NEW e \in Clients, NEW f \in Filters, processUnsubscribe(e, f) PROVE ComingInv'
    <2>1. /\ UNCHANGED <<rnodes, rstore, at, delivered>>
          /\ topics' = [topics EXCEPT ![e][f] = NoSub]
      BY <1>5 DEF processUnsubscribe
    <2>2. /\ topics'[e][f] = NoSub
          /\ \A g \in Filters : g # f => topics'[e][g] = topics[e][g]
          /\ \A d \in Clients : d # e => topics'[d] = topics[d]
      BY <2>1, TopicChanged
    <2> SUFFICES ASSUME NEW c \in Clients, NEW t \in Leaves, rstore'[t] # NoMsg, Asks(c, t)'
                 PROVE  Coming(c, t)'
      BY DEF ComingInv, Leaves
    <2>3. PICK g \in Filters :
            topics'[c][g] # NoSub /\ topics'[c][g].handling = 0 /\ Matches(g, t)
      BY DEF Asks
    <2>4. topics[c][g] # NoSub /\ topics[c][g].handling = 0
      BY <2>2, <2>3
    <2>5. Asks(c, t)
      BY <2>1, <2>3, <2>4 DEF Asks
    <2>6. Coming(c, t)
      BY <2>1, <2>5 DEF ComingInv
    <2> QED
      BY <2>1, <2>6, Zenon DEF Coming, ToMatch, ToHand, ToSend
  <1>6. ASSUME NEW e \in Clients, Disconnect(e) PROVE ComingInv'
    <2> DEFINE w == [Idle EXCEPT !.step = "stop"]
    <2>1. /\ at[e].step = "idle" /\ at' = [at EXCEPT ![e] = w] /\ w.step = "stop"
          /\ UNCHANGED <<rnodes, rstore, topics, delivered>>
      BY <1>6, IdleFacts DEF Disconnect, trees
    <2> HIDE DEF w
    <2>2. at'[e] = w /\ \A d \in Clients : d # e => at'[d] = at[d]
      BY <2>1, Moves
    <2>3. \A t \in Leaves : ~Asks(e, t)'
      BY <2>1, <2>2 DEF Asks
    <2> QED
      BY <2>1, <2>2, <2>3, RestComing
  <1>7. ASSUME NEW e \in Clients, unSubAll(e) PROVE ComingInv'
    <2>1. at[e].step = "stop"
      BY <1>7, UnSubSteps
    <2>2. ASSUME NEW f \in Filters, topics' = [topics EXCEPT ![e][f] = NoSub],
                 UNCHANGED <<rnodes, rmsg, rstore, at, nmsg, delivered>>
          PROVE  ComingInv'
      <3>1. \A d \in Clients : d # e => topics'[d] = topics[d]
        BY <2>2, TopicChanged
      <3>2. \A t \in Leaves : ~Asks(e, t)'
        BY <2>1, <2>2 DEF Asks
      <3> QED
        BY <2>1, <2>2, <3>1, <3>2, RestComing
    <2>3. ASSUME at' = [at EXCEPT ![e] = Offline], UNCHANGED <<trees, topics, nmsg, delivered>>
          PROVE  ComingInv'
      <3>1. at'[e] = Offline /\ \A d \in Clients : d # e => at'[d] = at[d]
        BY <2>3, Moves
      <3>2. \A t \in Leaves : ~Asks(e, t)'
        BY <3>1, IdleFacts DEF Asks
      <3> QED
        BY <2>1, <2>3, <3>1, <3>2, RestComing DEF trees
    <2> QED
      BY <1>7, <2>2, <2>3, UnSubSteps
  <1>8. ASSUME NEW e \in Clients, Connect(e) PROVE ComingInv'
    <2>1. /\ at[e].step = "offline" /\ at' = [at EXCEPT ![e] = Idle]
          /\ UNCHANGED <<rnodes, rstore, topics>>
          /\ delivered' = [delivered EXCEPT ![e] = {}]
      BY <1>8 DEF Connect, trees
    <2>2. \A d \in Clients : d # e => at'[d] = at[d]
      BY <2>1, Moves
    <2>3. \A d \in Clients : d # e => delivered'[d] = delivered[d]
      BY <2>1 DEF TypeInv, Books
    <2>4. topics'[e] = NoTopics
      BY <2>1 DEF RouteInv, SessionOK
    <2>5. \A f \in Filters : NoTopics[f] = NoSub
      BY DEF NoTopics
    <2>6. \A t \in Leaves : ~Asks(e, t)'
      BY <2>4, <2>5 DEF Asks
    <2> QED
      BY <2>1, <2>2, <2>3, <2>6, RestComing
  <1>9. CASE UNCHANGED vars
    BY <1>9, Zenon DEF vars, ComingInv, Coming, ToMatch, ToHand, ToSend, Asks
  <1> QED
    BY <1>1, <1>2, <1>3, <1>4, <1>5, <1>6, <1>7, <1>8, <1>9 DEF Next

\* Nothing is asked for at the start.
LEMMA ComingInit ==
  ASSUME Init
  PROVE  Fronts /\ ComingInv
  <1>1. rstore = [t \in TopicNames |-> NoMsg] /\ at = [c \in Clients |-> Offline]
    BY DEF Init
  <1>2. \A c \in Clients : at[c].step = "offline" /\ at[c].rmsgs = {}
    BY <1>1, IdleFacts
  <1>3. Fronts
    BY <1>2 DEF Fronts, FrontOK
  <1>4. ComingInv
    BY <1>2 DEF ComingInv, Asks
  <1> QED
    BY <1>3, <1>4

\* Once all handlers are done, nothing is left on its way: what was coming has come.
LEMMA ComingImplies ==
  ASSUME RouteInv, ComingInv
  PROVE  RetainedOrLive
  <1> SUFFICES ASSUME \A d \in Clients : at[d].step \in {"idle", "offline"},
                      NEW c \in Clients, NEW t \in Leaves, rstore[t] # NoMsg,
                      NEW f \in Filters,
                      topics[c][f] # NoSub, topics[c][f].handling = 0, Matches(f, t)
               PROVE  rstore[t] \in delivered[c]
    BY DEF RetainedOrLive
  <1>1. \A g \in Filters : NoTopics[g] = NoSub
    BY DEF NoTopics
  <1>2. at[c].step # "offline"
    BY <1>1 DEF RouteInv, SessionOK
  <1>3. at[c].step = "idle"
    BY <1>2
  <1>4. Asks(c, t)
    BY <1>3 DEF Asks
  <1>5. Coming(c, t)
    BY <1>4 DEF ComingInv
  <1>6. \A d \in Clients : ~ToMatch(d, t) /\ ~ToHand(d, c, t)
    BY DEF ToMatch, ToHand
  <1>7. ~ToSend(c, t)
    BY <1>3 DEF ToSend, Working
  <1> QED
    BY <1>5, <1>6, <1>7 DEF Coming

\* Where no level is empty, a client that subscribed with retain handling 0 has, once all
\* handlers are done, the retained message of every topic that its filter matches, for
\* all numbers of clients and all interleavings of processSubscribe and onPublish.
THEOREM RetainedReaches == ASSUME PlainLevels PROVE Spec => []RetainedOrLive
  <1> DEFINE I == TypeInv /\ RouteInv /\ StoreInv /\ Fronts /\ ComingInv
  <1>1. Init => I
    BY TypeInit, RouteInit, StoreInit, ComingInit
  <1>2. I /\ [Next]_vars => I'
    BY TypeStep, RouteStep, StoreStep, FrontsStep, ComingStep
  <1>3. I => RetainedOrLive
    BY ComingImplies
  <1> QED
    BY <1>1, <1>2, <1>3, PTL DEF Spec
=============================================================================
