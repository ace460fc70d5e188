------------------------------- MODULE Presence -------------------------------
(***************************************************************************)
(* The presence plugin (plugins/presence): the tracker on the server, which*)
(* counts the connections of each user on each topic, and the map of users *)
(* a client builds from what it is sent: a snapshot when it starts to      *)
(* watch, differences a turn of the event loop later, and heartbeats.      *)
(*                                                                         *)
(* What a client shows is modelled as of the last frame sent to it.  A     *)
(* publish is lost for a socket whose buffer is full, a bounded number of  *)
(* times.  Time passes in heartbeat periods.                               *)
(***************************************************************************)
EXTENDS MapOrder, SequencesExt

CONSTANTS Conns,     \* connections
          Topics,    \* topics
          Keys,      \* user keys
          KeyOf,     \* KeyOf[c]: the user of a connection
          Data,      \* what select() makes of a connection's user data
          None,      \* no entry
          MaxConns,  \* maxConnections
          MaxTopics, \* maxTopics
          MaxAge,    \* the client's maxAge, in heartbeat periods
          MaxOps,    \* bound: joins and syncs
          MaxDrops   \* bound: publishes lost for a slow socket

VARIABLES open,       \* the sockets that are open
          data,       \* data[c]: what select() answers for c
          wsTopics,   \* wsTopics[c]: the topics c is present on, {} when it is not tracked
          connOrder,  \* the keys of the Map wsTopics, oldest first
          users,      \* users[t][k]: entry of the Map topicPresence, or None
          topicOrder, \* the keys of the Map topicPresence, oldest first
          pending,    \* pendingDiffs[t][k]: the last buffered operation
          timer,      \* diffFlushTimer is armed
          watching,   \* watching[t]: sockets subscribed to __presence:t
          view,       \* view[c][t][k]: the data the client of c shows
          age,        \* age[c][t][k]: heartbeat periods since it was refreshed
          lossy,      \* lossy[t]: sockets that missed a difference since their snapshot, or
                      \* so many heartbeats that somebody there grew too old
          beating,    \* the heartbeat timer runs
          drops, ops, \* bounds
          torn        \* a cap evicted something, or clear() was called

server == <<wsTopics, connOrder, users, topicOrder, pending, timer, beating>>
client == <<view, age, lossy>>
vars == <<open, data, server, watching, client, drops, ops, torn>>

Entry == [data: Data, count: Nat]
Operation == [op: {"join", "leave"}, data: Data]
Blank == [k \in Keys |-> None]

TypeOK ==
    /\ open \subseteq Conns /\ data \in [Conns -> Data]
    /\ wsTopics \in [Conns -> SUBSET Topics]
    /\ connOrder \in Seq(Conns) /\ Len(connOrder) <= MaxConns
    /\ users \in [Topics -> [Keys -> Entry \cup {None}]]
    /\ topicOrder \in Seq(Topics) /\ Len(topicOrder) <= MaxTopics
    /\ pending \in [Topics -> [Keys -> Operation \cup {None}]]
    /\ timer \in BOOLEAN
    /\ watching \in [Topics -> SUBSET Conns]
    /\ view \in [Conns -> [Topics -> [Keys -> Data \cup {None}]]]
    /\ age \in [Conns -> [Topics -> [Keys -> 0..(MaxAge + 1)]]]
    /\ lossy \in [Topics -> SUBSET Conns] /\ beating \in BOOLEAN /\ drops \in 0..MaxDrops /\ ops \in 0..MaxOps /\ torn \in BOOLEAN

Init ==
    /\ open = Conns /\ data \in [Conns -> Data]
    /\ wsTopics = [c \in Conns |-> {}] /\ connOrder = <<>>
    /\ users = [t \in Topics |-> Blank] /\ topicOrder = <<>>
    /\ pending = [t \in Topics |-> Blank] /\ timer = FALSE
    /\ watching = [t \in Topics |-> {}]
    /\ view = [c \in Conns |-> [t \in Topics |-> Blank]]
    /\ age = [c \in Conns |-> [t \in Topics |-> [k \in Keys |-> 0]]]
    /\ lossy = [t \in Topics |-> {}] /\ beating = FALSE /\ drops = 0 /\ ops = 0 /\ torn = FALSE

-------------------------------------------------------------------------------
(* Frames and what the client makes of them (client.js).                     *)

Shown(us) == [k \in Keys |-> IF us[k] = None THEN None ELSE us[k].data]

\* 'state': the map is replaced.
SendState(c, t, us) ==
    /\ lossy' = [lossy EXCEPT ![t] = @ \ {c}]
    /\ view' = [view EXCEPT ![c][t] = Shown(us)]
    /\ age' = [age EXCEPT ![c][t] = [k \in Keys |-> 0]]

\* 'diff': leaves are removed, joins are set and refreshed.
Patched(v, diff) ==
    [k \in Keys |-> IF diff[k] = None THEN v[k] ELSE IF diff[k].op = "join" THEN diff[k].data ELSE None]

\* (mutant: a heartbeat only refreshes what the client has)
RefreshedKnown(v, us) == [k \in Keys |-> IF us[k] = None \/ v[k] = None THEN v[k] ELSE us[k].data]

\* 'heartbeat': everybody in it is refreshed and put back if it was missing.
Refreshed(v, us) == [k \in Keys |-> IF us[k] = None THEN v[k] ELSE us[k].data]

\* The sockets a publish does not reach, within the bound.
Losers == {D \in SUBSET open : D = {} \/ drops < MaxDrops}
Loses(D) ==
    /\ drops' = IF D = {} THEN drops ELSE drops + 1
    /\ lossy' = [t \in Topics |-> lossy[t] \cup (D \cap watching[t])]

-------------------------------------------------------------------------------
(* The tracker.                                                              *)

\* (mutant: the first operation of a turn wins)
BufferFirst(t, k, op, d) ==
    /\ pending' = IF pending[t][k] = None THEN [pending EXCEPT ![t][k] = [op |-> op, data |-> d]] ELSE pending
    /\ timer' = TRUE

Buffer(t, k, op, d) ==
    /\ pending' = [pending EXCEPT ![t][k] = [op |-> op, data |-> d]]
    /\ timer' = TRUE

\* (mutant: a second tab of a user is not counted)
CountedOnce(us, k, d) ==
    [us EXCEPT ![k] = [data |-> d, count |-> 1]]

\* The entry of a user after one more connection: the latest data wins.
Counted(us, k, d) ==
    [us EXCEPT ![k] = [data |-> d, count |-> IF @ = None THEN 1 ELSE @.count + 1]]

EvictsConn(c) == wsTopics[c] = {} /\ Len(connOrder) >= MaxConns
EvictsTopic(t) == (\A i \in DOMAIN topicOrder : topicOrder[i] # t) /\ Len(topicOrder) >= MaxTopics

\* join: a connection present on a topic already is left alone; at the cap of
\* topics the oldest is forgotten with all its users.
Join(c, t) ==
    /\ c \in open /\ ops < MaxOps /\ ops' = ops + 1
    /\ t \notin wsTopics[c]
    /\ LET k == KeyOf[c]
           victim == Head(topicOrder)
           kept == IF EvictsTopic(t) THEN [users EXCEPT ![victim] = Blank] ELSE users
           order == IF EvictsTopic(t) THEN Tail(topicOrder) ELSE topicOrder
           old == IF EvictsConn(c) THEN [wsTopics EXCEPT ![Head(connOrder)] = {}] ELSE wsTopics
           us == Counted(kept[t], k, data[c])
       IN  /\ wsTopics' = [old EXCEPT ![c] = @ \cup {t}]
           /\ connOrder' = IF wsTopics[c] # {} THEN connOrder
                           ELSE Append(IF EvictsConn(c) THEN Tail(connOrder) ELSE connOrder, c)
           /\ users' = [kept EXCEPT ![t] = us]
           /\ topicOrder' = IF Contains(order, t) THEN order ELSE Append(order, t)
           /\ IF kept[t][k] # None /\ kept[t][k].data = data[c]
              THEN UNCHANGED <<pending, timer>>
              ELSE Buffer(t, k, "join", data[c])
           /\ watching' = [watching EXCEPT ![t] = @ \cup {c}]
           /\ SendState(c, t, us)
    /\ beating' = TRUE
    /\ torn' = (torn \/ EvictsConn(c) \/ EvictsTopic(t))
    /\ UNCHANGED <<open, data, drops>>

\* sync: a connection watches without being present.
Sync(c, t) ==
    /\ c \in open /\ ops < MaxOps /\ ops' = ops + 1
    /\ watching' = [watching EXCEPT ![t] = @ \cup {c}]
    /\ SendState(c, t, users[t])
    /\ beating' = TRUE
    /\ UNCHANGED <<open, data, wsTopics, connOrder, users, topicOrder, pending, timer, drops, torn>>

\* The users of a topic after one connection of user k is gone.
Without(us, k) ==
    IF us[k] = None THEN us
    ELSE IF us[k].count = 1 THEN [us EXCEPT ![k] = None]
    ELSE [us EXCEPT ![k].count = @ - 1]

\* leaveTopic for some of the topics of c: the last connection of a user is a
\* difference to tell, and a topic without users is dropped.
LeaveTopics(c, T) ==
    LET k == KeyOf[c]
        left == [t \in Topics |-> IF t \in T THEN Without(users[t], k) ELSE users[t]]
        gone(t) == t \in T /\ users[t][k] # None /\ left[t][k] = None
    IN  /\ users' = left
        /\ topicOrder' = Within(topicOrder, {t \in Topics : left[t] # Blank})
        /\ pending' = [t \in Topics |->
                         IF gone(t) THEN [pending[t] EXCEPT ![k] = [op |-> "leave", data |-> users[t][k].data]]
                         ELSE pending[t]]
        /\ timer' = (timer \/ \E t \in Topics : gone(t))
        /\ wsTopics' = [wsTopics EXCEPT ![c] = @ \ T]
        /\ connOrder' = IF wsTopics[c] \ T = {} THEN Within(connOrder, Conns \ {c}) ELSE connOrder

\* A socket that stops watching: what its client goes on showing is left out.
Unwatch(c, T) ==
    /\ watching' = [t \in Topics |-> IF t \in T THEN watching[t] \ {c} ELSE watching[t]]
    /\ view' = [view EXCEPT ![c] = [t \in Topics |-> IF t \in T THEN Blank ELSE @[t]]]
    /\ age' = [age EXCEPT ![c] = [t \in Topics |-> IF t \in T THEN [k \in Keys |-> 0] ELSE @[t]]]
    /\ lossy' = [t \in Topics |-> IF t \in T THEN lossy[t] \ {c} ELSE lossy[t]]

\* The unsubscribe hook.  A user that is not listed any more is left watching.
Unsubscribe(c, t) ==
    /\ c \in open /\ t \in wsTopics[c]
    /\ LeaveTopics(c, {t})
    /\ Unwatch(c, IF users[t][KeyOf[c]] = None THEN {} ELSE {t})
    /\ UNCHANGED <<open, data, beating, drops, ops, torn>>

\* The close hook: the subscriptions of the socket are gone already.
Close(c) ==
    /\ c \in open
    /\ open' = open \ {c}
    /\ LeaveTopics(c, wsTopics[c])
    /\ Unwatch(c, Topics)
    /\ beating' = TRUE
    /\ UNCHANGED <<data, drops, ops, torn>>

\* flushDiffs, from its timer or called: one frame per topic.
Flush ==
    /\ timer
    /\ timer' = FALSE /\ pending' = [t \in Topics |-> Blank]
    /\ \E D \in Losers :
          /\ Loses(D)
          /\ view' = [c \in Conns |-> [t \in Topics |->
                        IF c \in watching[t] \ D THEN Patched(view[c][t], pending[t]) ELSE view[c][t]]]
          /\ age' = [c \in Conns |-> [t \in Topics |->
                       [k \in Keys |-> IF c \in watching[t] \ D /\ pending[t][k] # None THEN 0 ELSE age[c][t][k]]]]
    /\ UNCHANGED <<open, data, wsTopics, connOrder, users, topicOrder, beating, watching, ops, torn>>

\* A heartbeat period passes: everything a client shows grows older, and the
\* heartbeat of each topic that has users refreshes what is in it.
Heartbeat ==
    /\ beating
    /\ \E D \in Losers :
          /\ drops' = IF D = {} THEN drops ELSE drops + 1
          /\ view' = [c \in Conns |-> [t \in Topics |->
                        IF c \in watching[t] \ D THEN Refreshed(view[c][t], users[t]) ELSE view[c][t]]]
          /\ age' = [c \in Conns |-> [t \in Topics |-> [k \in Keys |->
                       IF view'[c][t][k] = None \/ (c \in watching[t] \ D /\ users[t][k] # None) THEN 0
                       ELSE IF age[c][t][k] > MaxAge THEN age[c][t][k] ELSE age[c][t][k] + 1]]]
          /\ lossy' = [t \in Topics |-> lossy[t] \cup
                        {c \in D \cap watching[t] : \E k \in Keys : users[t][k] # None /\ age'[c][t][k] > MaxAge}]
    /\ UNCHANGED <<open, data, server, watching, ops, torn>>

\* The client's sweep of what has not been refreshed for maxAge.
Sweep(c, t) ==
    LET old == {k \in Keys : age[c][t][k] > MaxAge} IN
    /\ old # {}
    /\ view' = [view EXCEPT ![c][t] = [k \in Keys |-> IF k \in old THEN None ELSE @[k]]]
    /\ age' = [age EXCEPT ![c][t] = [k \in Keys |-> IF k \in old THEN 0 ELSE @[k]]]
    /\ UNCHANGED <<open, data, server, watching, lossy, drops, ops, torn>>

\* clear(): everything is forgotten and nobody is told.
Clear ==
    /\ beating /\ ops < MaxOps /\ ops' = ops + 1
    /\ wsTopics' = [c \in Conns |-> {}] /\ connOrder' = <<>>
    /\ users' = [t \in Topics |-> Blank] /\ topicOrder' = <<>>
    /\ pending' = [t \in Topics |-> Blank] /\ timer' = FALSE /\ beating' = FALSE
    /\ torn' = TRUE
    /\ UNCHANGED <<open, data, watching, client, drops>>

Next ==
    \/ \E c \in Conns, t \in Topics : Join(c, t) \/ Sync(c, t) \/ Unsubscribe(c, t) \/ Sweep(c, t)
    \/ \E c \in Conns : Close(c)
    \/ Flush \/ Heartbeat \/ Clear

Spec == Init /\ [][Next]_vars

Fairness ==
    /\ WF_vars(Flush) /\ WF_vars(Heartbeat)
    /\ \A c \in Conns, t \in Topics : WF_vars(Sweep(c, t))

FairSpec == Spec /\ Fairness

-------------------------------------------------------------------------------
(* Properties.                                                               *)

Agrees(c, t, k) == view[c][t][k] = Shown(users[t])[k]

\* As long as no cap was hit and clear() not called, the count of a user is the
\* number of connections it is present with, on every topic, through any order
\* of joins, unsubscribes and closes of its tabs.
CountsAreExact ==
    /\ TypeOK
    /\ ~torn => \A t \in Topics, k \in Keys :
          LET tabs == {c \in Conns : KeyOf[c] = k /\ t \in wsTopics[c]} IN
          IF users[t][k] = None THEN tabs = {}
          ELSE Cardinality(tabs) = users[t][k].count

\* Snapshots are sent at once and differences a turn later: a client that has
\* missed nothing is wrong about a user only while a difference about that user
\* is waiting, and the timer that will send it is armed.
ViewIsCurrent ==
    /\ \A t \in Topics : \A c \in watching[t] \ lossy[t] : \A k \in Keys :
          ~torn => Agrees(c, t, k) \/ pending[t][k] # None
    /\ (\E t \in Topics : pending[t] # Blank) => timer

\* Lost frames heal: once nobody joins or leaves any more, heartbeats and the
\* sweep bring every client that watches to the users that are there.
ViewHeals ==
    <>[](torn \/ \A t \in Topics : \A c \in watching[t] : \A k \in Keys : Agrees(c, t, k))
===============================================================================
