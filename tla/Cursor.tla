-------------------------------- MODULE Cursor --------------------------------
(***************************************************************************)
(* The cursor plugin (plugins/cursor): positions pass two throttles on     *)
(* their way to the viewers, one per mover and topic (an entry's timer) and*)
(* one per topic (a dirty map and one timer for all topics); users are     *)
(* told once, by a join or by the catalog of a snapshot, and the client    *)
(* shows a position only for a user it knows.                              *)
(*                                                                         *)
(* A user is identified by the key the server numbers it with.  Both       *)
(* throttle windows are flags that are set when the window has passed.     *)
(* Viewers only watch; what they show is as of the last frame sent.        *)
(***************************************************************************)
EXTENDS MapOrder
S == INSTANCE SequencesExt

CONSTANTS Movers,    \* connections that move
          Viewers,   \* connections that watch
          Topics,    \* topics
          Data,      \* positions
          None,      \* nothing there
          MaxConns,  \* maxConnections
          MaxTopics, \* maxTopics
          Aging,     \* topics that are watched with a maxAge
          MaxKeys,   \* bound: connCounter
          MaxOps     \* bound: updates

Keys == 1..MaxKeys

VARIABLES live,       \* movers whose socket is open
          key,        \* key[m]: the key in wsState, or None
          on,         \* on[m]: the topics in its wsState entry
          connOrder,  \* the keys of the Map wsState, oldest first
          counter,    \* connCounter
          entry,      \* entry[t][k]: its CursorEntry, or None
          topicOrder, \* the keys of the Map topics, oldest first
          dirty,      \* dirty[t][k]: the position waiting for the topic's flush
          cadence,    \* cadence[t]: topicThrottle has passed since its last flush
          dirtyTopics,
          tickTimer,  \* the tick is armed
          watching,   \* viewers that had their snapshot of a topic, per topic
          known,      \* known[v][t]: keys whose user the client of v knows
          shown,      \* shown[v][t][k]: the position it has, or None
          idle,       \* idle[v][t]: keys whose position has outlived maxAge
          swept,      \* swept[v][t]: keys it forgot for their age
          ops,        \* bound
          torn        \* a cap evicted a connection or a topic

tables == <<key, on, connOrder, counter, entry, topicOrder>>
flush == <<dirty, cadence, dirtyTopics, tickTimer>>
screens == <<watching, known, shown, idle, swept>>
cursorVars == <<live, tables, flush, screens, ops, torn>>

Entry == [data: Data, cool: BOOLEAN, timer: BOOLEAN]
Nobody == [k \in Keys |-> None]

CursorTypeOK ==
    /\ live \subseteq Movers
    /\ key \in [Movers -> Keys \cup {None}] /\ on \in [Movers -> SUBSET Topics]
    /\ connOrder \in Seq(Movers) /\ Len(connOrder) <= MaxConns
    /\ counter \in 0..MaxKeys
    /\ entry \in [Topics -> [Keys -> Entry \cup {None}]]
    /\ topicOrder \in Seq(Topics) /\ Len(topicOrder) <= MaxTopics
    /\ dirty \in [Topics -> [Keys -> Data \cup {None}]]
    /\ cadence \in [Topics -> BOOLEAN]
    /\ dirtyTopics \subseteq Topics /\ tickTimer \in BOOLEAN
    /\ watching \in [Topics -> SUBSET Viewers]
    /\ known \in [Viewers -> [Topics -> SUBSET Keys]]
    /\ shown \in [Viewers -> [Topics -> [Keys -> Data \cup {None}]]]
    /\ idle \in [Viewers -> [Topics -> SUBSET Keys]]
    /\ swept \in [Viewers -> [Topics -> SUBSET Keys]]
    /\ ops \in 0..MaxOps /\ torn \in BOOLEAN

Init ==
    /\ live = Movers /\ counter = 0
    /\ key = [m \in Movers |-> None] /\ on = [m \in Movers |-> {}] /\ connOrder = <<>>
    /\ entry = [t \in Topics |-> Nobody] /\ topicOrder = <<>>
    /\ dirty = [t \in Topics |-> Nobody] /\ cadence = [t \in Topics |-> TRUE]
    /\ dirtyTopics = {} /\ tickTimer = FALSE
    /\ watching = [t \in Topics |-> {}]
    /\ known = [v \in Viewers |-> [t \in Topics |-> {}]]
    /\ shown = [v \in Viewers |-> [t \in Topics |-> Nobody]]
    /\ idle = known /\ swept = known /\ ops = 0 /\ torn = FALSE

-------------------------------------------------------------------------------
\* clearTopicFlush, for the topics in T; the tick stays armed.
ClearFlush(d, T) == [t \in Topics |-> IF t \in T THEN Nobody ELSE d[t]]

\* broadcast: the position waits in the dirty map for the tick.
BroadcastOf(t, k, d, base) ==
    /\ dirty' = [base EXCEPT ![t][k] = d]
    /\ tickTimer' = TRUE

\* update, of a mover m on topic t.  Within the entry's throttle the position is
\* replaced, and the timer that will send it armed if it is not.
Update(m, t, d) ==
    /\ m \in live /\ ops < MaxOps /\ ops' = ops + 1
    /\ key[m] # None \/ counter < MaxKeys
    /\ LET evictConn == key[m] = None /\ Len(connOrder) >= MaxConns
           k == IF key[m] = None THEN counter + 1 ELSE key[m]
           evictTopic == ~S!Contains(topicOrder, t) /\ Len(topicOrder) >= MaxTopics
           gone == IF evictTopic THEN {Head(topicOrder)} ELSE {}
           entries == [x \in Topics |-> IF x \in gone THEN Nobody ELSE entry[x]]
           order == IF evictTopic THEN Tail(topicOrder) ELSE topicOrder
           first == t \notin on[m]
           e == entries[t][k]
           sends == e = None \/ e.cool
       IN  /\ counter' = IF key[m] = None THEN k ELSE counter
           /\ key' = [x \in Movers |-> IF x = m THEN k
                        ELSE IF evictConn /\ x = Head(connOrder) THEN None ELSE key[x]]
           /\ on' = [x \in Movers |-> IF x = m THEN on[x] \cup {t}
                        ELSE IF evictConn /\ x = Head(connOrder) THEN {} ELSE on[x]]
           /\ connOrder' = IF key[m] # None THEN connOrder
                           ELSE Append(IF evictConn THEN Tail(connOrder) ELSE connOrder, m)
           /\ topicOrder' = IF S!Contains(order, t) THEN order ELSE Append(order, t)
           /\ entry' = [entries EXCEPT ![t][k] =
                          [data |-> d, cool |-> FALSE, timer |-> ~sends]]
           /\ cadence' = [x \in Topics |-> cadence[x] \/ x \in gone]
           /\ IF sends
              THEN /\ BroadcastOf(t, k, d, ClearFlush(dirty, gone))
                   /\ dirtyTopics' = (dirtyTopics \ gone) \cup {t}
              ELSE /\ dirty' = ClearFlush(dirty, gone)
                   /\ dirtyTopics' = dirtyTopics \ gone
                   /\ UNCHANGED tickTimer
           /\ known' = [v \in Viewers |-> IF first /\ v \in watching[t]
                                          THEN [known[v] EXCEPT ![t] = @ \cup {k}] ELSE known[v]]
           /\ torn' = (torn \/ evictConn \/ evictTopic)
    /\ UNCHANGED <<live, watching, shown, idle, swept>>

\* The throttle of an entry, or of a topic, has passed.
Cool(t, k) ==
    /\ entry[t][k] # None /\ ~entry[t][k].cool
    /\ entry' = [entry EXCEPT ![t][k].cool = TRUE]
    /\ UNCHANGED <<live, key, on, connOrder, counter, topicOrder, flush, screens, ops, torn>>

Beat(t) ==
    /\ ~cadence[t]
    /\ cadence' = [cadence EXCEPT ![t] = TRUE]
    /\ UNCHANGED <<live, tables, dirty, dirtyTopics, tickTimer, screens, ops, torn>>

\* The timer of an entry: its latest position is broadcast.
Trailing(t, k) ==
    /\ entry[t][k] # None /\ entry[t][k].timer /\ entry[t][k].cool
    /\ entry' = [entry EXCEPT ![t][k] = [@ EXCEPT !.cool = FALSE, !.timer = FALSE]]
    /\ BroadcastOf(t, k, entry[t][k].data, dirty)
    /\ dirtyTopics' = dirtyTopics \cup {t}
    /\ UNCHANGED <<live, key, on, connOrder, counter, topicOrder, cadence, screens, ops, torn>>

\* (mutant: a topic that must wait is not timed again)
RearmNever(due) == FALSE

\* The topics that still have to wait when the tick has run arm it again.
Rearm(due) == \E t \in dirtyTopics \ due : dirty[t] # Nobody

\* tick: every topic whose window has passed sends what is dirty in one frame.
Tick ==
    /\ tickTimer
    /\ LET due == {t \in dirtyTopics : cadence[t] /\ dirty[t] # Nobody} IN
       /\ shown' = [v \in Viewers |-> [t \in Topics |-> [k \in Keys |->
                      IF t \in due /\ v \in watching[t] /\ dirty[t][k] # None THEN dirty[t][k]
                      ELSE shown[v][t][k]]]]
       /\ idle' = [v \in Viewers |-> [t \in Topics |->
                      IF t \in due /\ v \in watching[t] THEN {k \in idle[v][t] : dirty[t][k] = None}
                      ELSE idle[v][t]]]
       /\ dirty' = ClearFlush(dirty, due)
       /\ cadence' = [t \in Topics |-> cadence[t] /\ t \notin due]
       /\ dirtyTopics' = {t \in dirtyTopics \ due : dirty[t] # Nobody}
       /\ tickTimer' = Rearm(due)
    /\ UNCHANGED <<live, tables, watching, known, swept, ops, torn>>

\* (mutant: a mover's waiting position outlives it)
LeaveDirty(k, T) == dirty

\* What remove does with what still waits: a topic without cursors forgets its
\* flush, another one only the mover's position.
DropDirty(k, T) ==
    [t \in Topics |-> IF t \in T /\ \A j \in Keys \ {k} : entry[t][j] = None THEN Nobody
                      ELSE IF t \in T THEN [dirty[t] EXCEPT ![k] = None] ELSE dirty[t]]

\* The close hook's remove: where the mover has an entry it is told.
Remove(m) ==
    /\ m \in live /\ live' = live \ {m}
    /\ key' = [key EXCEPT ![m] = None] /\ on' = [on EXCEPT ![m] = {}]
    /\ connOrder' = Within(connOrder, Movers \ {m})
    /\ LET k == key[m]
           T == IF k = None THEN {} ELSE {t \in on[m] : entry[t][k] # None}
           left == [t \in Topics |-> IF t \in T THEN [entry[t] EXCEPT ![k] = None] ELSE entry[t]]
           empty == {t \in T : left[t] = Nobody}
       IN  /\ entry' = left
           /\ topicOrder' = Within(topicOrder, Topics \ empty)
           /\ dirty' = DropDirty(k, T)
           /\ dirtyTopics' = dirtyTopics \ empty
           /\ cadence' = [t \in Topics |-> cadence[t] \/ t \in empty]
           /\ known' = [v \in Viewers |-> [t \in Topics |->
                          IF t \in T /\ v \in watching[t] THEN known[v][t] \ {k} ELSE known[v][t]]]
           /\ shown' = [v \in Viewers |-> [t \in Topics |->
                          IF t \in T /\ v \in watching[t] THEN [shown[v][t] EXCEPT ![k] = None]
                          ELSE shown[v][t]]]
           /\ idle' = [v \in Viewers |-> [t \in Topics |->
                          IF t \in T /\ v \in watching[t] THEN idle[v][t] \ {k} ELSE idle[v][t]]]
    /\ UNCHANGED <<counter, tickTimer, watching, swept, ops, torn>>

\* snapshot, which a viewer asks for when its connection opens: the users are
\* replaced, the positions added.
Snapshot(v, t) ==
    /\ v \notin watching[t]
    /\ watching' = [watching EXCEPT ![t] = @ \cup {v}]
    /\ LET there == {k \in Keys : entry[t][k] # None} IN
       /\ known' = [known EXCEPT ![v][t] = there]
       /\ shown' = [shown EXCEPT ![v][t] = [k \in Keys |-> IF k \in there THEN entry[t][k].data ELSE @[k]]]
       /\ idle' = [idle EXCEPT ![v][t] = @ \ there]
       /\ swept' = [swept EXCEPT ![v][t] = {}]
    /\ UNCHANGED <<live, tables, flush, ops, torn>>

\* A viewer's connection is lost; it keeps what it shows until the next one.
Disconnect(v, t) ==
    /\ v \in watching[t] /\ ops < MaxOps /\ ops' = ops + 1
    /\ watching' = [watching EXCEPT ![t] = @ \ {v}]
    /\ UNCHANGED <<live, tables, flush, known, shown, idle, swept, torn>>

\* A mover stands still for maxAge.
Idle(v, t, k) ==
    /\ t \in Aging /\ v \in watching[t] /\ shown[v][t][k] # None /\ k \notin idle[v][t]
    /\ idle' = [idle EXCEPT ![v][t] = @ \cup {k}]
    /\ UNCHANGED <<live, tables, flush, watching, known, shown, swept, ops, torn>>

\* sweep: what is too old is forgotten, the user with the position.
Sweep(v, t) ==
    /\ idle[v][t] # {}
    /\ idle' = [idle EXCEPT ![v][t] = {}]
    /\ shown' = [shown EXCEPT ![v][t] = [k \in Keys |-> IF k \in idle[v][t] THEN None ELSE @[k]]]
    /\ known' = [known EXCEPT ![v][t] = @ \ idle[v][t]]
    /\ swept' = [swept EXCEPT ![v][t] = @ \cup idle[v][t]]
    /\ UNCHANGED <<live, tables, flush, watching, ops, torn>>

Next ==
    \/ \E m \in Movers, t \in Topics, d \in Data : Update(m, t, d)
    \/ \E m \in Movers : Remove(m)
    \/ \E t \in Topics, k \in Keys : Cool(t, k) \/ Trailing(t, k)
    \/ \E t \in Topics : Beat(t)
    \/ Tick
    \/ \E v \in Viewers, t \in Topics : Snapshot(v, t) \/ Disconnect(v, t) \/ Sweep(v, t)
    \/ \E v \in Viewers, t \in Topics, k \in Keys : Idle(v, t, k)

CursorSpec == Init /\ [][Next]_cursorVars

-------------------------------------------------------------------------------
(* What the viewer's Map holds: positions of known users (emitOutput).       *)
Visible(v, t, k) == IF k \in known[v][t] THEN shown[v][t][k] ELSE None

\* The position of k on t is still on its way to the viewers.
OnItsWay(t, k) ==
    \/ entry[t][k].timer
    \/ dirty[t][k] = entry[t][k].data /\ t \in dirtyTopics /\ tickTimer

\* As long as no cap evicted anything: the last position of every mover on a
\* topic is what each viewer shows, or is on its way behind a timer that is
\* armed, whatever the two throttles held back and in whichever order timers,
\* updates, snapshots and departures of others came.  A mover that is gone is
\* never shown again, and nothing of it waits to be sent.
LatestArrives ==
    /\ CursorTypeOK
    /\ ~torn => \A t \in Topics, k \in Keys :
         IF entry[t][k] = None
         THEN dirty[t][k] = None /\ \A v \in watching[t] : Visible(v, t, k) = None
         ELSE \A v \in watching[t] :
                k \in swept[v][t] \/ Visible(v, t, k) = entry[t][k].data \/ OnItsWay(t, k)
===============================================================================
