------------------------------ MODULE Sessions ------------------------------
(***************************************************************************)
(* The life of one client's sessions: server.go getSession, the start of a *)
(* service and its end (service.go start and stop, getty_server.go         *)
(* unSubAll), the session manager mem_provider.go, the session in          *)
(* mem_session_store.go, the DISCONNECT branch and sendWillMsg of          *)
(* process.go, and the delayed tasks of util/cron.                         *)
(*                                                                         *)
(* A new connection does not end the old one of the same client id, nor    *)
(* wait for its end: getSession and start of one interleave with stop of   *)
(* another, and both with the cron goroutines.  Session, cron entry and    *)
(* service are named by the number of their connection; a session that     *)
(* getSession keeps goes by the number of the connection it is kept for.   *)
(* getSession keeps one only in the middle of stop, between SetStatus and  *)
(* Del: before, its offline time is 0 and it counts as expired, and later  *)
(* it is gone.  (A session that is kept twice in that time, for two        *)
(* connections at once, is left out.)                                      *)
(*                                                                         *)
(* One topic stands for the client's subscriptions.                        *)
(***************************************************************************)
EXTENDS Integers, FiniteSets

CONSTANTS
  MaxConns,   \* bound: connections the client makes
  MaxSent,    \* bound: how often one will is published
  Wills       \* wills the client may bring: "none", "now" (delay 0), "later"

ASSUME SessionsAssumption ==
  /\ MaxConns \in Nat \ {0}
  /\ MaxSent \in Nat
  /\ Wills \subseteq {"none", "now", "later"}

VARIABLES
  conn,      \* for each connection the state of its service and session
  st,        \* memProvider.st: the session under this client id
  db,        \* memSessionStore.db: the session under this client id
  subCache,  \* memSessionStore.subCache: is the client subscribed
  tree,      \* services that are subscribers in the topic tree
  schedule,  \* cron entries, named by the connection whose will they publish
  ids,       \* ScheduleCron.ids: the entry under this client id
  running,   \* entries whose job runs
  direct,    \* wills with delay 0 whose goroutine is still to run
  sent,      \* how often each connection's will was published
  serial     \* has every connection found the ones before it stopped

vars == <<conn, st, db, subCache, tree, schedule, ids, running, direct, sent, serial>>

cronVars == <<schedule, ids, running, direct, sent>>

Conns == 1..MaxConns
None  == 0

NoConn == [status |-> "none", stored |-> FALSE, expiry |-> FALSE, topic |-> FALSE, will |-> "none",
           hasSendWill |-> FALSE]

Init ==
  /\ conn = [c \in Conns |-> NoConn]
  /\ st = None /\ db = None
  /\ subCache = FALSE
  /\ tree = {}
  /\ schedule = {} /\ ids = None
  /\ running = {} /\ direct = {}
  /\ sent = [c \in Conns |-> 0]
  /\ serial = TRUE

At(c, status) == conn[c].status = status
Goto(c, status) == conn' = [conn EXCEPT ![c].status = status]

-----------------------------------------------------------------------------
(* A connection begins.                                                    *)

\* Mutant of getSession: the session does not reach the store.
getSession_NoStore(c, expiry, will) ==
  /\ At(c, "none")
  /\ \A d \in 1..(c - 1) : ~At(d, "none")
  /\ conn' = [conn EXCEPT ![c] = [status |-> "opening", stored |-> expiry, expiry |-> expiry,
                                  topic |-> expiry /\ subCache, will |-> will,
                                  hasSendWill |-> FALSE]]
  /\ st' = c
  /\ db' = None
  /\ serial' = (serial /\ \A d \in 1..(c - 1) : At(d, "gone"))
  /\ UNCHANGED <<subCache, tree, cronVars>>

\* getSession up to Init: what is there under the client id is cleared and a session
\* put in its place; with an expiry interval also in the store, and with the
\* subscriptions the store has for the client.
getSession(c, expiry, will) ==
  /\ At(c, "none")
  /\ \A d \in 1..(c - 1) : ~At(d, "none")
  /\ conn' = [conn EXCEPT ![c] = [status |-> "opening", stored |-> expiry, expiry |-> expiry,
                                  topic |-> expiry /\ subCache, will |-> will,
                                  hasSendWill |-> FALSE]]
  /\ st' = c
  /\ db' = IF expiry THEN c ELSE None
  /\ serial' = (serial /\ \A d \in 1..(c - 1) : At(d, "gone"))
  /\ UNCHANGED <<subCache, tree, cronVars>>

\* The session found is kept: its service is stopping, and has set the offline time less
\* than the expiry interval ago, in seconds taken for nanoseconds.  Update gives it the
\* new CONNECT, and stores a copy.
keepSession(c, expiry, will) ==
  /\ At(c, "none")
  /\ \A e \in 1..(c - 1) : ~At(e, "none")
  /\ st # None /\ At(st, "del") /\ conn[st].stored /\ conn[st].expiry
  /\ conn' = [conn EXCEPT ![c] = [status |-> "opening", stored |-> TRUE, expiry |-> expiry,
                                  topic |-> conn[st].topic, will |-> will,
                                  hasSendWill |-> FALSE]]
  /\ st' = c
  /\ db' = c
  /\ serial' = FALSE
  /\ UNCHANGED <<subCache, tree, cronVars>>

\* ScheduleCron.Remove of this client id.
Remove ==
  /\ schedule' = schedule \ {ids}
  /\ ids' = None

\* Mutant of start: the delayed will is not cancelled.
start_NoCancel(c) ==
  /\ At(c, "opening")
  /\ tree' = IF conn[c].topic THEN tree \cup {c} ELSE tree
  /\ \/ Goto(c, "up")
     \/ Goto(c, "unsub")
  /\ UNCHANGED <<st, db, subCache, cronVars, serial>>

\* getSession cancels the client's delayed task, then start subscribes what the session
\* has and writes CONNACK; if that fails the service is stopped.
start(c) ==
  /\ At(c, "opening")
  /\ Remove
  /\ tree' = IF conn[c].topic THEN tree \cup {c} ELSE tree
  /\ \/ Goto(c, "up")
     \/ Goto(c, "unsub")
  /\ UNCHANGED <<st, db, subCache, running, direct, sent, serial>>

-----------------------------------------------------------------------------
(* The connection is up.                                                   *)

\* Mutant of processSubscribe: the session does not learn of the subscription.
processSubscribe_NoAddTopic(c) ==
  /\ At(c, "up")
  /\ tree' = tree \cup {c}
  /\ UNCHANGED <<conn, subCache, st, db, cronVars, serial>>

\* SUBSCRIBE: the topic tree, then AddTopic of the session, which a session with expiry
\* also writes to the store.
processSubscribe(c) ==
  /\ At(c, "up")
  /\ tree' = tree \cup {c}
  /\ conn' = [conn EXCEPT ![c].topic = TRUE]
  /\ subCache' = (subCache \/ conn[c].stored)
  /\ UNCHANGED <<st, db, cronVars, serial>>

\* UNSUBSCRIBE likewise.
processUnsubscribe(c) ==
  /\ At(c, "up")
  /\ tree' = tree \ {c}
  /\ conn' = [conn EXCEPT ![c].topic = FALSE]
  /\ subCache' = (subCache /\ ~conn[c].stored)
  /\ UNCHANGED <<st, db, cronVars, serial>>

\* DISCONNECT with reason 0x04 publishes the will before the service stops; with any
\* other reason the session forgets the will.
processDisconnect(c, withWill) ==
  /\ At(c, "up")
  /\ conn' = IF withWill THEN [conn EXCEPT ![c].status = "leave"]
             ELSE [conn EXCEPT ![c].status = "unsub", ![c].will = "none"]
  /\ UNCHANGED <<st, db, subCache, tree, cronVars, serial>>

\* The connection breaks, or the processor meets an error: stop begins.
LoseConnection(c) ==
  /\ At(c, "up")
  /\ Goto(c, "unsub")
  /\ UNCHANGED <<st, db, subCache, tree, cronVars, serial>>

-----------------------------------------------------------------------------
(* stop, and sendWillMsg, which DISCONNECT and stop both call.             *)

\* unSubAll takes back what Topics of the session lists.
unSubAll(c) ==
  /\ At(c, "unsub")
  /\ tree' = IF conn[c].topic THEN tree \ {c} ELSE tree
  /\ Goto(c, "will")
  /\ UNCHANGED <<st, db, subCache, cronVars, serial>>

\* sendWillMsg and DelaySendWill: a will with delay 0 gets a goroutine of its own, and
\* every will a cron entry; at most once for each service.
sendWillMsg(c) ==
  LET due == conn[c].will # "none" /\ ~conn[c].hasSendWill
      leaving == At(c, "leave")
  IN
  /\ At(c, "leave") \/ At(c, "will")
  /\ \/ /\ due
        /\ schedule' = schedule \cup {c}
        /\ direct' = IF conn[c].will = "now" THEN direct \cup {c} ELSE direct
        /\ conn' = [conn EXCEPT ![c].hasSendWill = TRUE,
                                ![c].status = IF leaving THEN "leaveIndex" ELSE "index"]
     \/ /\ ~due
        /\ Goto(c, IF leaving THEN "unsub" ELSE "offline")
        /\ UNCHANGED <<schedule, direct>>
  /\ UNCHANGED <<st, db, subCache, tree, ids, running, sent, serial>>

\* AddJob then files the entry under the client id, over the one that is there.
StoreId(c) ==
  /\ At(c, "leaveIndex") \/ At(c, "index")
  /\ ids' = c
  /\ Goto(c, IF At(c, "leaveIndex") THEN "unsub" ELSE "offline")
  /\ UNCHANGED <<st, db, subCache, tree, schedule, running, direct, sent, serial>>

\* SetStatus sets the offline time; a session with expiry goes into the store again, over
\* the one that is there.
SetStatus(c) ==
  /\ At(c, "offline")
  /\ db' = IF conn[c].stored THEN c ELSE db
  /\ Goto(c, "del")
  /\ UNCHANGED <<st, subCache, tree, cronVars, serial>>

\* Del: the session under the client id goes, whoever's it is by now.
Del(c) ==
  /\ At(c, "del")
  /\ st' = None /\ db' = None
  /\ Goto(c, "gone")
  /\ UNCHANGED <<subCache, tree, cronVars, serial>>

stop(c) == unSubAll(c) \/ sendWillMsg(c) \/ StoreId(c) \/ SetStatus(c) \/ Del(c)

-----------------------------------------------------------------------------
(* The cron goroutines.                                                    *)

\* The goroutine of a will with delay 0.
SendNow(c) ==
  /\ c \in direct
  /\ direct' = direct \ {c}
  /\ sent' = [sent EXCEPT ![c] = @ + 1]
  /\ UNCHANGED <<conn, st, db, subCache, tree, schedule, ids, running, serial>>

\* Mutant of Run: the job does nothing once the service is gone.
Run_Alive(c) ==
  /\ c \in schedule \ running
  /\ ~At(c, "leaveIndex") /\ ~At(c, "index") /\ ~At(c, "gone")
  /\ sent[c] < MaxSent
  /\ sent' = [sent EXCEPT ![c] = @ + 1]
  /\ running' = running \cup {c}
  /\ UNCHANGED <<conn, st, db, subCache, tree, schedule, ids, direct, serial>>

\* An entry comes due, as it does again each time its delay has passed.  The delay is
\* taken to be longer than what AddJob does after the entry, and than the job itself.
Run(c) ==
  /\ c \in schedule \ running
  /\ ~At(c, "leaveIndex") /\ ~At(c, "index")
  /\ sent[c] < MaxSent
  /\ sent' = [sent EXCEPT ![c] = @ + 1]
  /\ running' = running \cup {c}
  /\ UNCHANGED <<conn, st, db, subCache, tree, schedule, ids, direct, serial>>

\* Mutant of RunEnds: the entry stays in the schedule.
RunEnds_Keep(c) ==
  /\ c \in running
  /\ running' = running \ {c}
  /\ UNCHANGED <<conn, st, db, subCache, tree, schedule, ids, direct, sent, serial>>

\* The job ends: it removes the entry that is filed under the client id by now.
RunEnds(c) ==
  /\ c \in running
  /\ running' = running \ {c}
  /\ Remove
  /\ UNCHANGED <<conn, st, db, subCache, tree, direct, sent, serial>>

Next ==
  \E c \in Conns :
    \/ \E expiry \in BOOLEAN, will \in Wills : getSession(c, expiry, will)
    \/ \E expiry \in BOOLEAN, will \in Wills : keepSession(c, expiry, will)
    \/ start(c)
    \/ processSubscribe(c) \/ processUnsubscribe(c)
    \/ \E withWill \in BOOLEAN : processDisconnect(c, withWill)
    \/ LoseConnection(c)
    \/ stop(c)
    \/ SendNow(c) \/ Run(c) \/ RunEnds(c)

\* The goroutines of the broker run on; what the client does is up to the client.
Fairness ==
  \A c \in Conns : WF_vars(start(c)) /\ WF_vars(stop(c)) /\ WF_vars(SendNow(c))
                   /\ WF_vars(Run(c)) /\ WF_vars(RunEnds(c))

Spec == Init /\ [][Next]_vars /\ Fairness

-----------------------------------------------------------------------------
\* The states of the connections, the session manager, the store and cron.
TypeOK ==
  /\ conn \in [Conns -> [status : {"none", "opening", "up", "leave", "leaveIndex", "unsub",
                                   "will", "index", "offline", "del", "gone"},
                         stored : BOOLEAN, expiry : BOOLEAN, topic : BOOLEAN, will : {"none", "now", "later"},
                         hasSendWill : BOOLEAN]]
  /\ st \in Conns \cup {None} /\ db \in Conns \cup {None}
  /\ subCache \in BOOLEAN /\ serial \in BOOLEAN
  /\ tree \subseteq Conns /\ schedule \subseteq Conns /\ running \subseteq Conns
  /\ direct \subseteq Conns
  /\ ids \in Conns \cup {None}
  /\ sent \in [Conns -> 0..(MaxSent + 1)]

Started(c) == ~At(c, "none") /\ ~At(c, "opening")
Ending(c)  == At(c, "will") \/ At(c, "index") \/ At(c, "offline") \/ At(c, "del") \/ At(c, "gone")

\* The topic tree delivers to a service exactly as long as its session lists the
\* subscription and unSubAll has not run, also when a client's connections overlap;
\* no service is left behind in the tree.
TreeMatches ==
  \A c \in Conns : c \in tree <=> Started(c) /\ ~Ending(c) /\ conn[c].topic

\* While its connections do not overlap, a client that is connected has its session in
\* the session manager, and in the store if it has an expiry interval.
SessionKept ==
  \A c \in Conns : serial /\ At(c, "up") => st = c /\ (db = c <=> conn[c].stored)

\* A will is published at most once, and not at all after a DISCONNECT that drops it;
\* left out are the wills with delay 0, which go out at once and again when their
\* entry comes due, and connections that overlap.
WillOnce ==
  \A c \in Conns :
    /\ conn[c].will = "none" => sent[c] = 0
    /\ conn[c].will = "later" /\ serial => sent[c] <= 1

\* sendWillMsg: a delayed will has to be cancelled when the client is back.  No entry
\* of an earlier connection is left then, if the connections do not overlap.
Cancelled ==
  serial => \A e \in schedule, c \in Conns : e < c => ~Started(c)

\* A will whose service is gone, like those of all other connections, and whose entry
\* is the only one, is published at last, unless the client connects again.
WillSent ==
  \A c \in Conns :
    /\ At(c, "gone") /\ conn[c].hasSendWill
    /\ schedule = {c} /\ ids = c /\ running = {}
    /\ \A d \in Conns \ {c} : At(d, "gone") \/ At(d, "none")
    ~> sent[c] > 0 \/ \E d \in Conns : d > c /\ ~At(d, "none")
=============================================================================
