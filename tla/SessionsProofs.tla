--------------------------- MODULE SessionsProofs ---------------------------
(***************************************************************************)
(* Proofs about Sessions, for every number of connections and kind of      *)
(* will.                                                                   *)
(*                                                                         *)
(* What the properties say of one moment rests on what the steps before    *)
(* left behind: connections are numbered in the order they began           *)
(* (Ordered), a will leaves traces in cron only after its one sendWillMsg  *)
(* (WillTraces), and, as long as the connections do not overlap, the entry *)
(* filed under the client id is the only one (EntryFiled).                 *)
(***************************************************************************)
EXTENDS Sessions, TLAPS

Indexing(c) == At(c, "leaveIndex") \/ At(c, "index")

\* Connections begin in the order of their numbers.
Ordered == \A c, d \in Conns : d < c /\ ~At(c, "none") => ~At(d, "none")

\* A will is in cron, or was published, only after sendWillMsg handed it over, which
\* happens once; a job does not run before AddJob has filed its entry.
WillTraces ==
  \A c \in Conns :
    /\ ~conn[c].hasSendWill =>
         c \notin schedule /\ c \notin running /\ c \notin direct /\ sent[c] = 0
    /\ conn[c].hasSendWill =>
         conn[c].will # "none" /\ conn[c].status \notin {"none", "opening", "up", "leave"}
    /\ Indexing(c) =>
         conn[c].hasSendWill /\ c \notin running /\ (conn[c].will = "later" => sent[c] = 0)
    /\ c \in direct => conn[c].will = "now" /\ sent[c] <= MaxSent

\* Without overlap all connections but the last are gone ...
OthersGone == serial => \A c, d \in Conns : d < c /\ ~At(c, "none") => At(d, "gone")

\* ... the session under the client id is that of the last one ...
SessionIsLast ==
  serial => \A c \in Conns : ~At(c, "none") /\ ~At(c, "gone") =>
              st = c /\ (db = c <=> conn[c].stored)

\* ... an entry of cron is the one filed under the client id, or about to be ...
EntryFiled == serial => \A e \in schedule : ids = e \/ Indexing(e)

\* ... and the job of a delayed will has run once at most, its entry going with it.
JobOnce ==
  serial => \A c \in Conns : conn[c].will = "later" =>
              sent[c] = 0 \/ (sent[c] = 1 /\ (c \in running \/ c \notin schedule))

IndInv ==
  /\ TypeOK
  /\ TreeMatches
  /\ Ordered
  /\ WillTraces
  /\ OthersGone /\ SessionIsLast /\ EntryFiled /\ JobOnce
  /\ Cancelled

Statuses == {"none", "opening", "up", "leave", "leaveIndex", "unsub", "will", "index",
             "offline", "del", "gone"}

ConnStates == [status : Statuses, stored : BOOLEAN, expiry : BOOLEAN, topic : BOOLEAN,
               will : {"none", "now", "later"}, hasSendWill : BOOLEAN]

-----------------------------------------------------------------------------
\* A step that only moves service c on to status s.
LEMMA Moves ==
  ASSUME conn \in [Conns -> ConnStates], NEW c \in Conns, NEW s \in Statuses, Goto(c, s)
  PROVE  /\ conn' \in [Conns -> ConnStates]
         /\ conn'[c].status = s
         /\ conn'[c].stored = conn[c].stored /\ conn'[c].topic = conn[c].topic
         /\ conn'[c].will = conn[c].will /\ conn'[c].hasSendWill = conn[c].hasSendWill
         /\ \A d \in Conns : d # c => conn'[d] = conn[d]
  BY DEF Goto, ConnStates

\* The services and their numbers.
LEMMA ConnTypes ==
  ASSUME TypeOK
  PROVE  conn \in [Conns -> ConnStates] /\ Conns \subseteq Nat \ {0}
  BY SessionsAssumption DEF TypeOK, ConnStates, Statuses, Conns

\* No connection yet.
LEMMA InitIndInv == Init => IndInv
  <1> SUFFICES ASSUME Init PROVE IndInv
    OBVIOUS
  <1>1. TypeOK
    <2>1. conn \in [Conns -> ConnStates]
      BY DEF Init, NoConn, ConnStates, Statuses
    <2>2. sent \in [Conns -> 0..(MaxSent + 1)]
      BY SessionsAssumption DEF Init
    <2> QED
      BY <2>1, <2>2 DEF Init, TypeOK, ConnStates, Statuses
  <1>2. \A c \in Conns : At(c, "none") /\ ~conn[c].hasSendWill /\ sent[c] = 0
    BY DEF Init, NoConn, At
  <1>3. TreeMatches /\ Ordered /\ WillTraces /\ OthersGone /\ SessionIsLast
        /\ EntryFiled /\ JobOnce /\ Cancelled
    BY <1>2 DEF Init, TreeMatches, Ordered, WillTraces, OthersGone, SessionIsLast, EntryFiled,
                JobOnce, Cancelled, Started, Ending, Indexing, At
  <1> QED
    BY <1>1, <1>3 DEF IndInv

\* A step that leaves the cron entries alone and ends the filing of none.
LEMMA EntryFrame ==
  ASSUME TypeOK, EntryFiled, serial' => serial, schedule' = schedule, ids' = ids,
         \A e \in Conns : Indexing(e) => Indexing(e)'
  PROVE  EntryFiled'
  BY DEF TypeOK, EntryFiled

\* getSession puts a session in the place of the one before.
LEMMA getSessionStep ==
  ASSUME IndInv, NEW c \in Conns, NEW expiry \in BOOLEAN, NEW will \in Wills,
         getSession(c, expiry, will)
  PROVE  IndInv'
  <1>0. TypeOK /\ conn \in [Conns -> ConnStates] /\ Conns \subseteq Nat \ {0}
    BY ConnTypes DEF IndInv
  <1>1. /\ conn' \in [Conns -> ConnStates]
        /\ \A d \in Conns : d # c => conn'[d] = conn[d]
        /\ conn[c].status = "none" /\ conn'[c].status = "opening"
        /\ conn'[c].stored = expiry /\ conn'[c].hasSendWill = FALSE
        /\ \A d \in Conns : d < c => conn[d].status # "none"
        /\ st' = c /\ db' = IF expiry THEN c ELSE None
        /\ serial' \in BOOLEAN
        /\ serial' => serial /\ \A d \in Conns : d < c => conn[d].status = "gone"
        /\ \A d \in Conns : d > c => conn[d].status = "none"
        /\ UNCHANGED <<subCache, tree, schedule, ids, running, direct, sent>>
    <2>1. \A d \in Conns : d < c => d \in 1..(c - 1)
      BY <1>0 DEF Conns
    <2>2. will \in {"none", "now", "later"} /\ subCache \in BOOLEAN /\ serial \in BOOLEAN
      BY <1>0, SessionsAssumption DEF TypeOK
    <2>3. (expiry /\ subCache) \in BOOLEAN
      BY <2>2
    <2>4. /\ conn' \in [Conns -> ConnStates]
          /\ \A d \in Conns : d # c => conn'[d] = conn[d]
          /\ conn'[c].status = "opening"
          /\ conn'[c].stored = expiry /\ conn'[c].hasSendWill = FALSE
      BY <1>0, <2>2, <2>3 DEF getSession, ConnStates, Statuses
    <2>5. serial' \in BOOLEAN
      BY DEF getSession
    <2>6. conn[c].status = "none" /\ \A d \in Conns : d < c => conn[d].status # "none"
      BY <2>1 DEF getSession, At
    <2>7. serial' => serial /\ \A d \in Conns : d < c => conn[d].status = "gone"
      BY <2>1 DEF getSession, At
    <2>8. \A d \in Conns : d > c => conn[d].status = "none"
      BY <1>0, <2>6 DEF IndInv, Ordered, At
    <2> QED
      BY <2>4, <2>5, <2>6, <2>7, <2>8 DEF getSession, cronVars
  <1>2. TypeOK'
    BY <1>0, <1>1 DEF TypeOK, ConnStates, Statuses
  <1>3. TreeMatches'
    BY <1>0, <1>1 DEF IndInv, TreeMatches, Started, Ending, At
  <1>4. Ordered'
    BY <1>0, <1>1 DEF IndInv, Ordered, At
  <1>5. WillTraces'
    BY <1>0, <1>1 DEF IndInv, WillTraces, Indexing, At
  <1>6. OthersGone'
    <2> SUFFICES ASSUME serial', NEW e \in Conns, NEW d \in Conns, d < e, ~At(e, "none")'
                 PROVE  At(d, "gone")'
      BY DEF OthersGone
    <2>1. e <= c
      BY <1>0, <1>1 DEF At
    <2>2. d < c
      BY <1>0, <2>1
    <2> QED
      BY <1>0, <1>1, <2>2 DEF At
  <1>7. SessionIsLast'
    <2> SUFFICES ASSUME serial', NEW e \in Conns, ~At(e, "none")', ~At(e, "gone")'
                 PROVE  (st = e /\ (db = e <=> conn[e].stored))'
      BY DEF SessionIsLast
    <2>1. e = c
      BY <1>0, <1>1 DEF At
    <2>2. c # None
      BY <1>0 DEF None
    <2> QED
      BY <1>1, <2>1, <2>2
  <1>8. EntryFiled'
    BY <1>0, <1>1, EntryFrame DEF IndInv, Indexing, At
  <1>9. JobOnce'
    BY <1>0, <1>1 DEF IndInv, WillTraces, EntryFiled, JobOnce, Indexing, At
  <1>10. Cancelled'
    <2> SUFFICES ASSUME serial', NEW e \in schedule, NEW d \in Conns, e < d
                 PROVE  ~Started(d)'
      BY <1>1 DEF Cancelled
    <2>1. CASE d = c
      BY <1>1, <2>1 DEF Started, At
    <2>2. CASE d # c
      BY <1>1, <2>2 DEF IndInv, Cancelled, Started, At
    <2> QED
      BY <2>1, <2>2
  <1> QED
    BY <1>2, <1>3, <1>4, <1>5, <1>6, <1>7, <1>8, <1>9, <1>10 DEF IndInv

\* A session that is kept has its subscriptions, but is not in the tree yet.
LEMMA keepSessionStep ==
  ASSUME IndInv, NEW c \in Conns, NEW expiry \in BOOLEAN, NEW will \in Wills,
         keepSession(c, expiry, will)
  PROVE  IndInv'
  <1>0. TypeOK /\ conn \in [Conns -> ConnStates] /\ Conns \subseteq Nat \ {0}
    BY ConnTypes DEF IndInv
  <1>1. /\ conn' \in [Conns -> ConnStates]
        /\ \A d \in Conns : d # c => conn'[d] = conn[d]
        /\ conn[c].status = "none" /\ conn'[c].status = "opening"
        /\ conn'[c].hasSendWill = FALSE
        /\ \A d \in Conns : d < c => conn[d].status # "none"
        /\ st' = c /\ db' = c /\ serial' = FALSE
        /\ UNCHANGED <<subCache, tree, schedule, ids, running, direct, sent>>
    <2>1. \A d \in Conns : d < c => d \in 1..(c - 1)
      BY <1>0 DEF Conns
    <2>2. will \in {"none", "now", "later"} /\ st \in Conns /\ conn[st].topic \in BOOLEAN
      BY <1>0, SessionsAssumption DEF TypeOK, keepSession, ConnStates
    <2>3. /\ conn' \in [Conns -> ConnStates]
          /\ \A d \in Conns : d # c => conn'[d] = conn[d]
          /\ conn'[c].status = "opening" /\ conn'[c].hasSendWill = FALSE
      BY <1>0, <2>2 DEF keepSession, ConnStates, Statuses
    <2>4. conn[c].status = "none" /\ \A d \in Conns : d < c => conn[d].status # "none"
      BY <2>1 DEF keepSession, At
    <2> QED
      BY <2>3, <2>4 DEF keepSession, cronVars
  <1>2. TypeOK'
    BY <1>0, <1>1 DEF TypeOK, ConnStates, Statuses
  <1>3. TreeMatches'
    BY <1>0, <1>1 DEF IndInv, TreeMatches, Started, Ending, At
  <1>4. Ordered'
    BY <1>0, <1>1 DEF IndInv, Ordered, At
  <1>5. WillTraces'
    BY <1>0, <1>1 DEF IndInv, WillTraces, Indexing, At
  <1>6. OthersGone' /\ SessionIsLast' /\ EntryFiled' /\ JobOnce' /\ Cancelled'
    BY <1>1 DEF OthersGone, SessionIsLast, EntryFiled, JobOnce, Cancelled
  <1> QED
    BY <1>2, <1>3, <1>4, <1>5, <1>6 DEF IndInv

\* start cancels the delayed task of the client and subscribes.
LEMMA startStep ==
  ASSUME IndInv, NEW c \in Conns, start(c)
  PROVE  IndInv'
  <1>0. TypeOK /\ conn \in [Conns -> ConnStates] /\ Conns \subseteq Nat \ {0}
    BY ConnTypes DEF IndInv
  <1>1. /\ conn' \in [Conns -> ConnStates]
        /\ \A d \in Conns : d # c => conn'[d] = conn[d]
        /\ conn[c].status = "opening" /\ conn'[c].status \in {"up", "unsub"}
        /\ conn'[c].will = conn[c].will /\ conn'[c].hasSendWill = conn[c].hasSendWill
        /\ conn'[c].stored = conn[c].stored
        /\ conn'[c].topic = conn[c].topic
        /\ schedule' = schedule \ {ids} /\ ids' = None
        /\ tree' = IF conn[c].topic THEN tree \cup {c} ELSE tree
        /\ UNCHANGED <<st, db, subCache, running, direct, sent, serial>>
    BY <1>0, Moves DEF start, Remove, At, Statuses
  <1>a. schedule' = {} \/ ~serial
    <2> SUFFICES ASSUME serial, NEW e \in schedule PROVE e = ids
      BY <1>1
    <2>1. e \in Conns
      BY <1>0 DEF TypeOK
    <2>2. ~At(e, "none")
      BY <2>1 DEF IndInv, WillTraces, At
    <2>3. CASE e = c
      BY <1>1, <2>3 DEF IndInv, WillTraces
    <2>4. CASE e < c
      BY <1>0, <1>1, <2>1, <2>4 DEF IndInv, OthersGone, EntryFiled, Indexing, At
    <2>5. CASE e > c
      BY <1>0, <1>1, <2>1, <2>2, <2>5 DEF IndInv, OthersGone, At
    <2> QED
      BY <1>0, <2>1, <2>3, <2>4, <2>5
  <1>2. TypeOK'
    BY <1>0, <1>1 DEF TypeOK, ConnStates, Statuses
  <1>3. TreeMatches'
    BY <1>0, <1>1 DEF IndInv, TreeMatches, Started, Ending, At
  <1>4. Ordered'
    BY <1>0, <1>1 DEF IndInv, Ordered, At
  <1>5. WillTraces'
    BY <1>0, <1>1 DEF IndInv, WillTraces, Indexing, At
  <1>6. OthersGone'
    BY <1>0, <1>1 DEF IndInv, Ordered, OthersGone, At
  <1>7. SessionIsLast'
    BY <1>0, <1>1 DEF IndInv, Ordered, OthersGone, SessionIsLast, None, At
  <1>8. EntryFiled'
    BY <1>1, <1>a DEF EntryFiled
  <1>9. JobOnce'
    BY <1>0, <1>1 DEF IndInv, WillTraces, EntryFiled, JobOnce, Indexing, At
  <1>10. Cancelled'
    BY <1>1, <1>a DEF Cancelled
  <1> QED
    BY <1>2, <1>3, <1>4, <1>5, <1>6, <1>7, <1>8, <1>9, <1>10 DEF IndInv

\* SUBSCRIBE changes the tree and the session together.
LEMMA processSubscribeStep ==
  ASSUME IndInv, NEW c \in Conns, processSubscribe(c) \/ processUnsubscribe(c)
  PROVE  IndInv'
  <1>0. TypeOK /\ conn \in [Conns -> ConnStates] /\ Conns \subseteq Nat \ {0}
    BY ConnTypes DEF IndInv
  <1>1. /\ conn' \in [Conns -> ConnStates]
        /\ \A d \in Conns : d # c => conn'[d] = conn[d]
        /\ conn[c].status = "up" /\ conn'[c].status = "up"
        /\ conn'[c].will = conn[c].will /\ conn'[c].hasSendWill = conn[c].hasSendWill
        /\ conn'[c].stored = conn[c].stored
        /\ tree' \subseteq Conns /\ \A d \in Conns : d # c => (d \in tree' <=> d \in tree)
        /\ c \in tree' <=> conn'[c].topic
        /\ subCache' \in BOOLEAN
        /\ UNCHANGED <<st, db, schedule, ids, running, direct, sent, serial>>
    <2>0. subCache \in BOOLEAN /\ tree \subseteq Conns /\ conn[c] \in ConnStates
      BY <1>0 DEF TypeOK
    <2>1. CASE processSubscribe(c)
      <3> DEFINE r == [conn[c] EXCEPT !.topic = TRUE]
      <3>1. /\ r \in ConnStates /\ r.topic /\ r.status = conn[c].status /\ r.will = conn[c].will
            /\ r.hasSendWill = conn[c].hasSendWill /\ r.stored = conn[c].stored
        BY <2>0 DEF ConnStates
      <3>2. /\ conn' = [conn EXCEPT ![c] = r] /\ tree' = tree \cup {c} /\ conn[c].status = "up"
            /\ UNCHANGED <<st, db, schedule, ids, running, direct, sent, serial>>
        BY <2>1 DEF processSubscribe, cronVars, At
      <3>3. subCache' \in BOOLEAN
        BY <2>1 DEF processSubscribe
      <3> HIDE DEF r
      <3> QED
        BY <1>0, <2>0, <3>1, <3>2, <3>3
    <2>2. CASE processUnsubscribe(c)
      <3> DEFINE r == [conn[c] EXCEPT !.topic = FALSE]
      <3>1. /\ r \in ConnStates /\ ~r.topic /\ r.status = conn[c].status /\ r.will = conn[c].will
            /\ r.hasSendWill = conn[c].hasSendWill /\ r.stored = conn[c].stored
        BY <2>0 DEF ConnStates
      <3>2. /\ conn' = [conn EXCEPT ![c] = r] /\ tree' = tree \ {c} /\ conn[c].status = "up"
            /\ UNCHANGED <<st, db, schedule, ids, running, direct, sent, serial>>
        BY <2>2 DEF processUnsubscribe, cronVars, At
      <3>3. subCache' \in BOOLEAN
        BY <2>2 DEF processUnsubscribe
      <3> HIDE DEF r
      <3> QED
        BY <1>0, <2>0, <3>1, <3>2, <3>3
    <2> QED
      BY <2>1, <2>2
  <1>2. TypeOK'
    BY <1>0, <1>1 DEF TypeOK, ConnStates, Statuses
  <1>3. TreeMatches'
    BY <1>0, <1>1 DEF IndInv, TreeMatches, Started, Ending, At
  <1>4. Ordered'
    BY <1>0, <1>1 DEF IndInv, Ordered, At
  <1>5. WillTraces'
    BY <1>0, <1>1 DEF IndInv, WillTraces, Indexing, At
  <1>6. OthersGone'
    BY <1>0, <1>1 DEF IndInv, Ordered, OthersGone, At
  <1>7. SessionIsLast'
    BY <1>0, <1>1 DEF IndInv, Ordered, OthersGone, SessionIsLast, None, At
  <1>8. EntryFiled'
    BY <1>0, <1>1, EntryFrame DEF IndInv, Indexing, At
  <1>9. JobOnce'
    BY <1>0, <1>1 DEF IndInv, WillTraces, EntryFiled, JobOnce, Indexing, At
  <1>10. Cancelled'
    BY <1>0, <1>1 DEF IndInv, Ordered, WillTraces, OthersGone, EntryFiled, Cancelled, Started,
                      Indexing, At
  <1> QED
    BY <1>2, <1>3, <1>4, <1>5, <1>6, <1>7, <1>8, <1>9, <1>10 DEF IndInv

\* DISCONNECT, or the loss of the connection: stop begins, or the will goes out first.
LEMMA processDisconnectStep ==
  ASSUME IndInv, NEW c \in Conns, 
         \/ \E withWill \in BOOLEAN : processDisconnect(c, withWill)
         \/ LoseConnection(c)
  PROVE  IndInv'
  <1>0. TypeOK /\ conn \in [Conns -> ConnStates] /\ Conns \subseteq Nat \ {0}
    BY ConnTypes DEF IndInv
  <1>1. /\ conn' \in [Conns -> ConnStates]
        /\ \A d \in Conns : d # c => conn'[d] = conn[d]
        /\ conn[c].status = "up" /\ conn'[c].status \in {"leave", "unsub"}
        /\ conn'[c].will \in {"none", conn[c].will}
        /\ conn'[c].hasSendWill = conn[c].hasSendWill
        /\ conn'[c].stored = conn[c].stored
        /\ conn'[c].topic = conn[c].topic
        /\ UNCHANGED <<st, db, subCache, tree, schedule, ids, running, direct, sent, serial>>
    BY <1>0, Moves DEF processDisconnect, LoseConnection, cronVars, At, ConnStates, Statuses
  <1>2. TypeOK'
    BY <1>0, <1>1 DEF TypeOK, ConnStates, Statuses
  <1>3. TreeMatches'
    BY <1>0, <1>1 DEF IndInv, TreeMatches, Started, Ending, At
  <1>4. Ordered'
    BY <1>0, <1>1 DEF IndInv, Ordered, At
  <1>5. WillTraces'
    BY <1>0, <1>1 DEF IndInv, WillTraces, Indexing, At
  <1>6. OthersGone'
    BY <1>0, <1>1 DEF IndInv, Ordered, OthersGone, At
  <1>7. SessionIsLast'
    BY <1>0, <1>1 DEF IndInv, Ordered, OthersGone, SessionIsLast, None, At
  <1>8. EntryFiled'
    BY <1>0, <1>1, EntryFrame DEF IndInv, Indexing, At
  <1>9. JobOnce'
    BY <1>0, <1>1 DEF IndInv, WillTraces, EntryFiled, JobOnce, Indexing, At
  <1>10. Cancelled'
    BY <1>0, <1>1 DEF IndInv, Ordered, WillTraces, OthersGone, EntryFiled, Cancelled, Started,
                      Indexing, At
  <1> QED
    BY <1>2, <1>3, <1>4, <1>5, <1>6, <1>7, <1>8, <1>9, <1>10 DEF IndInv

\* unSubAll takes the service out of the tree.
LEMMA unSubAllStep ==
  ASSUME IndInv, NEW c \in Conns, unSubAll(c)
  PROVE  IndInv'
  <1>0. TypeOK /\ conn \in [Conns -> ConnStates] /\ Conns \subseteq Nat \ {0}
    BY ConnTypes DEF IndInv
  <1>1. /\ conn' \in [Conns -> ConnStates]
        /\ \A d \in Conns : d # c => conn'[d] = conn[d]
        /\ conn[c].status = "unsub" /\ conn'[c].status = "will"
        /\ conn'[c].will = conn[c].will /\ conn'[c].hasSendWill = conn[c].hasSendWill
        /\ conn'[c].stored = conn[c].stored
        /\ conn'[c].topic = conn[c].topic
        /\ tree' = IF conn[c].topic THEN tree \ {c} ELSE tree
        /\ UNCHANGED <<st, db, subCache, schedule, ids, running, direct, sent, serial>>
    BY <1>0, Moves DEF unSubAll, cronVars, At, Statuses
  <1>2. TypeOK'
    BY <1>0, <1>1 DEF TypeOK, ConnStates, Statuses
  <1>3. TreeMatches'
    BY <1>0, <1>1 DEF IndInv, TreeMatches, Started, Ending, At
  <1>4. Ordered'
    BY <1>0, <1>1 DEF IndInv, Ordered, At
  <1>5. WillTraces'
    BY <1>0, <1>1 DEF IndInv, WillTraces, Indexing, At
  <1>6. OthersGone'
    BY <1>0, <1>1 DEF IndInv, Ordered, OthersGone, At
  <1>7. SessionIsLast'
    BY <1>0, <1>1 DEF IndInv, Ordered, OthersGone, SessionIsLast, None, At
  <1>8. EntryFiled'
    BY <1>0, <1>1, EntryFrame DEF IndInv, Indexing, At
  <1>9. JobOnce'
    BY <1>0, <1>1 DEF IndInv, WillTraces, EntryFiled, JobOnce, Indexing, At
  <1>10. Cancelled'
    BY <1>0, <1>1 DEF IndInv, Ordered, WillTraces, OthersGone, EntryFiled, Cancelled, Started,
                      Indexing, At
  <1> QED
    BY <1>2, <1>3, <1>4, <1>5, <1>6, <1>7, <1>8, <1>9, <1>10 DEF IndInv

\* sendWillMsg hands the will to cron, once.
LEMMA sendWillStep ==
  ASSUME IndInv, NEW c \in Conns, sendWillMsg(c),
         conn[c].will # "none" /\ ~conn[c].hasSendWill
  PROVE  IndInv'
  <1>0. TypeOK /\ conn \in [Conns -> ConnStates] /\ Conns \subseteq Nat \ {0}
    BY ConnTypes DEF IndInv
  <1>1. /\ conn' \in [Conns -> ConnStates]
        /\ \A d \in Conns : d # c => conn'[d] = conn[d]
        /\ \/ conn[c].status = "leave" /\ conn'[c].status = "leaveIndex"
           \/ conn[c].status = "will" /\ conn'[c].status = "index"
        /\ conn'[c].will = conn[c].will /\ conn'[c].hasSendWill = TRUE
        /\ conn'[c].stored = conn[c].stored
        /\ conn'[c].topic = conn[c].topic
        /\ schedule' = schedule \cup {c}
        /\ direct' = IF conn[c].will = "now" THEN direct \cup {c} ELSE direct
        /\ UNCHANGED <<st, db, subCache, tree, ids, running, sent, serial>>
    BY <1>0 DEF sendWillMsg, At, ConnStates, Statuses
  <1>2. TypeOK'
    BY <1>0, <1>1 DEF TypeOK, ConnStates, Statuses
  <1>3. TreeMatches'
    BY <1>0, <1>1 DEF IndInv, TreeMatches, Started, Ending, At
  <1>4. Ordered'
    BY <1>0, <1>1 DEF IndInv, Ordered, At
  <1>5. WillTraces'
    <2> SUFFICES ASSUME NEW e \in Conns
                 PROVE  /\ (~conn[e].hasSendWill => e \notin schedule /\ e \notin running
                               /\ e \notin direct /\ sent[e] = 0)'
                        /\ (conn[e].hasSendWill => conn[e].will # "none"
                               /\ conn[e].status \notin {"none", "opening", "up", "leave"})'
                        /\ (Indexing(e) => conn[e].hasSendWill /\ e \notin running
                               /\ (conn[e].will = "later" => sent[e] = 0))'
                        /\ (e \in direct => conn[e].will = "now" /\ sent[e] <= MaxSent)'
      BY DEF WillTraces
    <2>1. CASE e = c
      <3>1. sent[c] = 0 /\ c \notin running /\ 0 <= MaxSent
        BY SessionsAssumption DEF IndInv, WillTraces
      <3>2. conn'[c].hasSendWill /\ conn'[c].status \in {"leaveIndex", "index"}
        BY <1>1
      <3>3. sent'[c] = 0 /\ c \notin running' /\ conn'[c].will # "none"
        BY <1>1, <3>1
      <3>4. c \in direct' => conn'[c].will = "now"
        BY <1>1 DEF IndInv, WillTraces
      <3> QED
        BY <2>1, <3>1, <3>2, <3>3, <3>4 DEF Indexing, At
    <2>2. CASE e # c
      BY <1>1, <2>2 DEF IndInv, WillTraces, Indexing, At
    <2> QED
      BY <2>1, <2>2
  <1>6. OthersGone'
    BY <1>0, <1>1 DEF IndInv, Ordered, OthersGone, At
  <1>7. SessionIsLast'
    BY <1>0, <1>1 DEF IndInv, Ordered, OthersGone, SessionIsLast, None, At
  <1>8. EntryFiled'
    <2>1. Indexing(c)'
      BY <1>1 DEF Indexing, At
    <2>2. \A e \in Conns : e # c => (Indexing(e)' <=> Indexing(e))
      BY <1>1 DEF Indexing, At
    <2> QED
      BY <1>0, <1>1, <2>1, <2>2 DEF IndInv, EntryFiled, TypeOK
  <1>9. JobOnce'
    BY <1>0, <1>1 DEF IndInv, WillTraces, EntryFiled, JobOnce, Indexing, At
  <1>10. Cancelled'
    BY <1>0, <1>1 DEF IndInv, Ordered, WillTraces, OthersGone, EntryFiled, Cancelled, Started,
                      Indexing, At
  <1> QED
    BY <1>2, <1>3, <1>4, <1>5, <1>6, <1>7, <1>8, <1>9, <1>10 DEF IndInv

\* sendWillMsg with nothing to send.
LEMMA noWillStep ==
  ASSUME IndInv, NEW c \in Conns, sendWillMsg(c),
         ~(conn[c].will # "none" /\ ~conn[c].hasSendWill)
  PROVE  IndInv'
  <1>0. TypeOK /\ conn \in [Conns -> ConnStates] /\ Conns \subseteq Nat \ {0}
    BY ConnTypes DEF IndInv
  <1>1. /\ conn' \in [Conns -> ConnStates]
        /\ \A d \in Conns : d # c => conn'[d] = conn[d]
        /\ \/ conn[c].status = "leave" /\ conn'[c].status = "unsub"
           \/ conn[c].status = "will" /\ conn'[c].status = "offline"
        /\ conn'[c].will = conn[c].will /\ conn'[c].hasSendWill = conn[c].hasSendWill
        /\ conn'[c].stored = conn[c].stored
        /\ conn'[c].topic = conn[c].topic
        /\ UNCHANGED <<st, db, subCache, tree, schedule, ids, running, direct, sent, serial>>
    BY <1>0, Moves DEF sendWillMsg, At, Statuses
  <1>2. TypeOK'
    BY <1>0, <1>1 DEF TypeOK, ConnStates, Statuses
  <1>3. TreeMatches'
    BY <1>0, <1>1 DEF IndInv, TreeMatches, Started, Ending, At
  <1>4. Ordered'
    BY <1>0, <1>1 DEF IndInv, Ordered, At
  <1>5. WillTraces'
    BY <1>0, <1>1 DEF IndInv, WillTraces, Indexing, At
  <1>6. OthersGone'
    BY <1>0, <1>1 DEF IndInv, Ordered, OthersGone, At
  <1>7. SessionIsLast'
    BY <1>0, <1>1 DEF IndInv, Ordered, OthersGone, SessionIsLast, None, At
  <1>8. EntryFiled'
    BY <1>0, <1>1, EntryFrame DEF IndInv, Indexing, At
  <1>9. JobOnce'
    BY <1>0, <1>1 DEF IndInv, WillTraces, EntryFiled, JobOnce, Indexing, At
  <1>10. Cancelled'
    BY <1>0, <1>1 DEF IndInv, Ordered, WillTraces, OthersGone, EntryFiled, Cancelled, Started,
                      Indexing, At
  <1> QED
    BY <1>2, <1>3, <1>4, <1>5, <1>6, <1>7, <1>8, <1>9, <1>10 DEF IndInv

\* AddJob files the entry under the client id.
LEMMA StoreIdStep ==
  ASSUME IndInv, NEW c \in Conns, StoreId(c)
  PROVE  IndInv'
  <1>0. TypeOK /\ conn \in [Conns -> ConnStates] /\ Conns \subseteq Nat \ {0}
    BY ConnTypes DEF IndInv
  <1>1. /\ conn' \in [Conns -> ConnStates]
        /\ \A d \in Conns : d # c => conn'[d] = conn[d]
        /\ \/ conn[c].status = "leaveIndex" /\ conn'[c].status = "unsub"
           \/ conn[c].status = "index" /\ conn'[c].status = "offline"
        /\ conn'[c].will = conn[c].will /\ conn'[c].hasSendWill = conn[c].hasSendWill
        /\ conn'[c].stored = conn[c].stored
        /\ conn'[c].topic = conn[c].topic
        /\ ids' = c
        /\ UNCHANGED <<st, db, subCache, tree, schedule, running, direct, sent, serial>>
    BY <1>0, Moves DEF StoreId, At, Statuses
  <1>2. TypeOK'
    BY <1>0, <1>1 DEF TypeOK, ConnStates, Statuses
  <1>3. TreeMatches'
    BY <1>0, <1>1 DEF IndInv, TreeMatches, Started, Ending, At
  <1>4. Ordered'
    BY <1>0, <1>1 DEF IndInv, Ordered, At
  <1>5. WillTraces'
    BY <1>0, <1>1 DEF IndInv, WillTraces, Indexing, At
  <1>6. OthersGone'
    BY <1>0, <1>1 DEF IndInv, Ordered, OthersGone, At
  <1>7. SessionIsLast'
    BY <1>0, <1>1 DEF IndInv, Ordered, OthersGone, SessionIsLast, None, At
  <1>8. EntryFiled'
    <2> SUFFICES ASSUME serial, NEW e \in schedule, e # c PROVE FALSE
      BY <1>1 DEF EntryFiled
    <2>1. e \in Conns
      BY <1>0 DEF TypeOK
    <2>2. ~At(e, "none")
      BY <2>1 DEF IndInv, WillTraces, At
    <2>3. CASE e < c
      BY <1>1, <2>1, <2>3 DEF IndInv, Cancelled, Started, At
    <2>4. CASE e > c
      BY <1>0, <1>1, <2>1, <2>2, <2>4 DEF IndInv, OthersGone, At
    <2> QED
      BY <1>0, <2>1, <2>3, <2>4
  <1>9. JobOnce'
    BY <1>0, <1>1 DEF IndInv, WillTraces, EntryFiled, JobOnce, Indexing, At
  <1>10. Cancelled'
    BY <1>0, <1>1 DEF IndInv, Ordered, WillTraces, OthersGone, EntryFiled, Cancelled, Started,
                      Indexing, At
  <1> QED
    BY <1>2, <1>3, <1>4, <1>5, <1>6, <1>7, <1>8, <1>9, <1>10 DEF IndInv

\* SetStatus puts the session into the store again.
LEMMA SetStatusStep ==
  ASSUME IndInv, NEW c \in Conns, SetStatus(c)
  PROVE  IndInv'
  <1>0. TypeOK /\ conn \in [Conns -> ConnStates] /\ Conns \subseteq Nat \ {0}
    BY ConnTypes DEF IndInv
  <1>1. /\ conn' \in [Conns -> ConnStates]
        /\ \A d \in Conns : d # c => conn'[d] = conn[d]
        /\ conn[c].status = "offline" /\ conn'[c].status = "del"
        /\ conn'[c].will = conn[c].will /\ conn'[c].hasSendWill = conn[c].hasSendWill
        /\ conn'[c].stored = conn[c].stored
        /\ conn'[c].topic = conn[c].topic
        /\ db' = IF conn[c].stored THEN c ELSE db
        /\ UNCHANGED <<st, subCache, tree, schedule, ids, running, direct, sent, serial>>
    BY <1>0, Moves DEF SetStatus, cronVars, At, Statuses
  <1>2. TypeOK'
    BY <1>0, <1>1 DEF TypeOK, ConnStates, Statuses
  <1>3. TreeMatches'
    BY <1>0, <1>1 DEF IndInv, TreeMatches, Started, Ending, At
  <1>4. Ordered'
    BY <1>0, <1>1 DEF IndInv, Ordered, At
  <1>5. WillTraces'
    BY <1>0, <1>1 DEF IndInv, WillTraces, Indexing, At
  <1>6. OthersGone'
    BY <1>0, <1>1 DEF IndInv, Ordered, OthersGone, At
  <1>7. SessionIsLast'
    BY <1>0, <1>1 DEF IndInv, Ordered, OthersGone, SessionIsLast, None, At
  <1>8. EntryFiled'
    BY <1>0, <1>1, EntryFrame DEF IndInv, Indexing, At
  <1>9. JobOnce'
    BY <1>0, <1>1 DEF IndInv, WillTraces, EntryFiled, JobOnce, Indexing, At
  <1>10. Cancelled'
    BY <1>0, <1>1 DEF IndInv, Ordered, WillTraces, OthersGone, EntryFiled, Cancelled, Started,
                      Indexing, At
  <1> QED
    BY <1>2, <1>3, <1>4, <1>5, <1>6, <1>7, <1>8, <1>9, <1>10 DEF IndInv

\* Del takes away the session under the client id.
LEMMA DelStep ==
  ASSUME IndInv, NEW c \in Conns, Del(c)
  PROVE  IndInv'
  <1>0. TypeOK /\ conn \in [Conns -> ConnStates] /\ Conns \subseteq Nat \ {0}
    BY ConnTypes DEF IndInv
  <1>1. /\ conn' \in [Conns -> ConnStates]
        /\ \A d \in Conns : d # c => conn'[d] = conn[d]
        /\ conn[c].status = "del" /\ conn'[c].status = "gone"
        /\ conn'[c].will = conn[c].will /\ conn'[c].hasSendWill = conn[c].hasSendWill
        /\ conn'[c].stored = conn[c].stored
        /\ conn'[c].topic = conn[c].topic
        /\ st' = None /\ db' = None
        /\ UNCHANGED <<subCache, tree, schedule, ids, running, direct, sent, serial>>
    BY <1>0, Moves DEF Del, cronVars, At, Statuses
  <1>2. TypeOK'
    BY <1>0, <1>1 DEF TypeOK, ConnStates, Statuses
  <1>3. TreeMatches'
    BY <1>0, <1>1 DEF IndInv, TreeMatches, Started, Ending, At
  <1>4. Ordered'
    BY <1>0, <1>1 DEF IndInv, Ordered, At
  <1>5. WillTraces'
    BY <1>0, <1>1 DEF IndInv, WillTraces, Indexing, At
  <1>6. OthersGone'
    BY <1>0, <1>1 DEF IndInv, Ordered, OthersGone, At
  <1>7. SessionIsLast'
    BY <1>0, <1>1 DEF IndInv, Ordered, OthersGone, SessionIsLast, None, At
  <1>8. EntryFiled'
    BY <1>0, <1>1, EntryFrame DEF IndInv, Indexing, At
  <1>9. JobOnce'
    BY <1>0, <1>1 DEF IndInv, WillTraces, EntryFiled, JobOnce, Indexing, At
  <1>10. Cancelled'
    BY <1>0, <1>1 DEF IndInv, Ordered, WillTraces, OthersGone, EntryFiled, Cancelled, Started,
                      Indexing, At
  <1> QED
    BY <1>2, <1>3, <1>4, <1>5, <1>6, <1>7, <1>8, <1>9, <1>10 DEF IndInv

\* The goroutine of a will with delay 0.
LEMMA SendNowStep ==
  ASSUME IndInv, NEW c \in Conns, SendNow(c)
  PROVE  IndInv'
  <1>0. TypeOK /\ conn \in [Conns -> ConnStates] /\ Conns \subseteq Nat \ {0}
    BY ConnTypes DEF IndInv
  <1>1. /\ conn' = conn
        /\ c \in direct /\ direct' = direct \ {c}
        /\ sent' \in [Conns -> 0..(MaxSent + 1)] /\ sent'[c] = sent[c] + 1 /\ sent[c] \in Nat
        /\ \A d \in Conns : d # c => sent'[d] = sent[d]
        /\ UNCHANGED <<st, db, subCache, tree, schedule, ids, running, serial>>
    BY <1>0, SessionsAssumption DEF IndInv, SendNow, TypeOK, WillTraces
  <1>2. TypeOK'
    BY <1>0, <1>1 DEF TypeOK, ConnStates, Statuses
  <1>3. TreeMatches'
    BY <1>0, <1>1 DEF IndInv, TreeMatches, Started, Ending, At
  <1>4. Ordered'
    BY <1>0, <1>1 DEF IndInv, Ordered, At
  <1>5. WillTraces'
    BY <1>0, <1>1 DEF IndInv, WillTraces, Indexing, At
  <1>6. OthersGone'
    BY <1>0, <1>1 DEF IndInv, Ordered, OthersGone, At
  <1>7. SessionIsLast'
    BY <1>0, <1>1 DEF IndInv, Ordered, OthersGone, SessionIsLast, None, At
  <1>8. EntryFiled'
    BY <1>0, <1>1, EntryFrame DEF IndInv, Indexing, At
  <1>9. JobOnce'
    BY <1>0, <1>1 DEF IndInv, WillTraces, EntryFiled, JobOnce, Indexing, At
  <1>10. Cancelled'
    BY <1>0, <1>1 DEF IndInv, Ordered, WillTraces, OthersGone, EntryFiled, Cancelled, Started,
                      Indexing, At
  <1> QED
    BY <1>2, <1>3, <1>4, <1>5, <1>6, <1>7, <1>8, <1>9, <1>10 DEF IndInv

\* An entry comes due.
LEMMA RunStep ==
  ASSUME IndInv, NEW c \in Conns, Run(c)
  PROVE  IndInv'
  <1>0. TypeOK /\ conn \in [Conns -> ConnStates] /\ Conns \subseteq Nat \ {0}
    BY ConnTypes DEF IndInv
  <1>1. /\ conn' = conn
        /\ c \in schedule /\ c \notin running /\ running' = running \cup {c}
        /\ ~Indexing(c)
        /\ sent' \in [Conns -> 0..(MaxSent + 1)]
        /\ sent'[c] = sent[c] + 1 /\ sent[c] \in Nat /\ sent'[c] <= MaxSent
        /\ \A d \in Conns : d # c => sent'[d] = sent[d]
        /\ UNCHANGED <<st, db, subCache, tree, schedule, ids, direct, serial>>
    BY <1>0, SessionsAssumption DEF IndInv, Run, Indexing, TypeOK
  <1>2. TypeOK'
    BY <1>0, <1>1 DEF TypeOK, ConnStates, Statuses
  <1>3. TreeMatches'
    BY <1>0, <1>1 DEF IndInv, TreeMatches, Started, Ending, At
  <1>4. Ordered'
    BY <1>0, <1>1 DEF IndInv, Ordered, At
  <1>5. WillTraces'
    BY <1>0, <1>1 DEF IndInv, WillTraces, Indexing, At
  <1>6. OthersGone'
    BY <1>0, <1>1 DEF IndInv, Ordered, OthersGone, At
  <1>7. SessionIsLast'
    BY <1>0, <1>1 DEF IndInv, Ordered, OthersGone, SessionIsLast, None, At
  <1>8. EntryFiled'
    BY <1>0, <1>1, EntryFrame DEF IndInv, Indexing, At
  <1>9. JobOnce'
    BY <1>0, <1>1 DEF IndInv, WillTraces, EntryFiled, JobOnce, Indexing, At
  <1>10. Cancelled'
    BY <1>0, <1>1 DEF IndInv, Ordered, WillTraces, OthersGone, EntryFiled, Cancelled, Started,
                      Indexing, At
  <1> QED
    BY <1>2, <1>3, <1>4, <1>5, <1>6, <1>7, <1>8, <1>9, <1>10 DEF IndInv

\* A job ends and removes what is filed under the client id.
LEMMA RunEndsStep ==
  ASSUME IndInv, NEW c \in Conns, RunEnds(c)
  PROVE  IndInv'
  <1>0. TypeOK /\ conn \in [Conns -> ConnStates] /\ Conns \subseteq Nat \ {0}
    BY ConnTypes DEF IndInv
  <1>1. /\ conn' = conn
        /\ c \in running /\ running' = running \ {c}
        /\ schedule' = schedule \ {ids} /\ ids' = None
        /\ UNCHANGED <<st, db, subCache, tree, direct, sent, serial>>
    BY DEF RunEnds, Remove
  <1>2. TypeOK'
    BY <1>0, <1>1 DEF TypeOK, ConnStates, Statuses
  <1>3. TreeMatches'
    BY <1>0, <1>1 DEF IndInv, TreeMatches, Started, Ending, At
  <1>4. Ordered'
    BY <1>0, <1>1 DEF IndInv, Ordered, At
  <1>5. WillTraces'
    BY <1>0, <1>1 DEF IndInv, WillTraces, Indexing, At
  <1>6. OthersGone'
    BY <1>0, <1>1 DEF IndInv, Ordered, OthersGone, At
  <1>7. SessionIsLast'
    BY <1>0, <1>1 DEF IndInv, Ordered, OthersGone, SessionIsLast, None, At
  <1>8. EntryFiled'
    BY <1>0, <1>1 DEF IndInv, EntryFiled, Indexing, At
  <1>9. JobOnce'
    BY <1>0, <1>1 DEF IndInv, WillTraces, EntryFiled, JobOnce, Indexing, At
  <1>10. Cancelled'
    BY <1>0, <1>1 DEF IndInv, Ordered, WillTraces, OthersGone, EntryFiled, Cancelled, Started,
                      Indexing, At
  <1> QED
    BY <1>2, <1>3, <1>4, <1>5, <1>6, <1>7, <1>8, <1>9, <1>10 DEF IndInv

\* Every step keeps the invariant.
LEMMA NextIndInv == IndInv /\ [Next]_vars => IndInv'
  <1> SUFFICES ASSUME IndInv, [Next]_vars PROVE IndInv'
    OBVIOUS
  <1>1. ASSUME NEW c \in Conns, NEW expiry \in BOOLEAN, NEW will \in Wills,
               getSession(c, expiry, will)
        PROVE  IndInv'
    BY <1>1, getSessionStep
  <1>2. ASSUME NEW c \in Conns, start(c) PROVE IndInv'
    BY <1>2, startStep
  <1>3. ASSUME NEW c \in Conns, processSubscribe(c) \/ processUnsubscribe(c) PROVE IndInv'
    BY <1>3, processSubscribeStep
  <1>4. ASSUME NEW c \in Conns,
               \/ \E withWill \in BOOLEAN : processDisconnect(c, withWill)
               \/ LoseConnection(c)
        PROVE  IndInv'
    BY <1>4, processDisconnectStep
  <1>5. ASSUME NEW c \in Conns, stop(c) PROVE IndInv'
    <2>1. CASE unSubAll(c)
      BY <2>1, unSubAllStep
    <2>2. CASE sendWillMsg(c)
      BY <2>2, sendWillStep, noWillStep
    <2>3. CASE StoreId(c)
      BY <2>3, StoreIdStep
    <2>4. CASE SetStatus(c)
      BY <2>4, SetStatusStep
    <2>5. CASE Del(c)
      BY <2>5, DelStep
    <2> QED
      BY <1>5, <2>1, <2>2, <2>3, <2>4, <2>5 DEF stop
  <1>6. ASSUME NEW c \in Conns, SendNow(c) \/ Run(c) \/ RunEnds(c) PROVE IndInv'
    BY <1>6, SendNowStep, RunStep, RunEndsStep
  <1>7. ASSUME NEW c \in Conns, NEW expiry \in BOOLEAN, NEW will \in Wills,
               keepSession(c, expiry, will)
        PROVE  IndInv'
    BY <1>7, keepSessionStep
  <1>8. CASE UNCHANGED vars
    BY <1>8 DEF vars, IndInv, TypeOK, TreeMatches, Ordered, WillTraces, OthersGone,
                SessionIsLast, EntryFiled, JobOnce, Cancelled, Started, Ending, Indexing, At
  <1> QED
    BY <1>1, <1>2, <1>3, <1>4, <1>5, <1>6, <1>7, <1>8 DEF Next

\* The invariant holds throughout.
LEMMA Invariance == Spec => []IndInv
  BY InitIndInv, NextIndInv, PTL DEF Spec

-----------------------------------------------------------------------------
\* The states of services, session manager, store and cron are as declared; no will is
\* published more often than the bound of the model and its own goroutine allow.
THEOREM TypeCorrect == Spec => []TypeOK
  <1>1. IndInv => TypeOK
    BY DEF IndInv
  <1> QED
    BY Invariance, <1>1, PTL

\* start, SUBSCRIBE, UNSUBSCRIBE and unSubAll keep the topic tree and the sessions
\* together, however many connections of the client overlap: unSubAll leaves no service
\* behind in the tree.
THEOREM TreeCorrect == Spec => []TreeMatches
  <1>1. IndInv => TreeMatches
    BY DEF IndInv
  <1> QED
    BY Invariance, <1>1, PTL

\* As long as every connection comes after the end of the one before, Del never takes
\* the session of a connected client from the session manager or the store.
THEOREM SessionCorrect == Spec => []SessionKept
  <1>1. IndInv => SessionKept
    BY DEF IndInv, SessionIsLast, SessionKept, At
  <1> QED
    BY Invariance, <1>1, PTL

\* sendWillMsg and cron: a dropped will is never published, a delayed one at most once
\* as long as the connections do not overlap.
THEOREM WillCorrect == Spec => []WillOnce
  <1>1. IndInv => WillOnce
    <2> SUFFICES ASSUME IndInv, NEW c \in Conns
                 PROVE  /\ conn[c].will = "none" => sent[c] = 0
                        /\ conn[c].will = "later" /\ serial => sent[c] <= 1
      BY DEF WillOnce
    <2>1. conn[c].will = "none" => sent[c] = 0
      BY DEF IndInv, WillTraces
    <2>2. conn[c].will = "later" /\ serial => sent[c] \in {0, 1}
      BY DEF IndInv, JobOnce
    <2> QED
      BY <2>1, <2>2
  <1> QED
    BY Invariance, <1>1, PTL

\* start of a service has removed every cron entry of the client's earlier connections,
\* as long as these do not overlap.
THEOREM CancelCorrect == Spec => []Cancelled
  <1>1. IndInv => Cancelled
    BY DEF IndInv
  <1> QED
    BY Invariance, <1>1, PTL
=============================================================================
