-------------------------------- MODULE Relay --------------------------------
(***************************************************************************)
(* Publishing across a cluster: publish and publishBatched in a worker     *)
(* (files/handler.js), the relay in the primary thread and the delivery in *)
(* the other workers (files/index.js).  publish defers its relay to a      *)
(* timer that flushes a batch; publishBatched posts at once.  A worker     *)
(* hands a list of events to uWS either one by one or, when the Sets of    *)
(* its sockets allow it, as one shared frame on a single topic.            *)
(*                                                                         *)
(* An event is identified by the worker that stamped it, its topic and its *)
(* sequence number.                                                        *)
(***************************************************************************)
EXTENDS MapOrder, SequencesExt

CONSTANTS Workers,    \* serving workers
          Socks,      \* sockets
          Home,       \* Home[s]: the worker a socket is connected to
          Topics,
          RawTopics,  \* topics the application subscribes with ws.subscribe
          MaxEvents,  \* bound: events published in a behaviour
          MaxBatch,   \* bound: length of a publishBatched list
          None        \* relayBatch === null

VARIABLES alive,      \* workers that have not died
          topicSeqs,  \* topicSeqs[w][t]
          relayBatch, \* relayBatch[w]: events waiting for the timer, or None
          timer,      \* timer[w]: relayTimer is armed
          up,         \* up[w]: messages posted to the primary
          down,       \* down[w]: messages the primary posted to w
          subs,       \* subs[s]: the Set in the socket's user data
          native,     \* native[s]: the topics uWS has for the socket
          capable,    \* sockets that sent {type:'hello', caps:['batch']}
          sent,       \* history: events w asked to be relayed, in order
          seen,       \* history: events w handed to uWS, in order
          got,        \* got[s]: events the socket received
          due         \* history: what one publish per event would have given s

sockVars == <<subs, native, capable>>
vars == <<alive, topicSeqs, relayBatch, timer, up, down, sockVars,
          sent, seen, got, due>>

\* How an event is relayed; kept with the event as history.
Paths == {"publish", "batched"}

Events == [origin : Workers, topic : Topics, seq : 1..MaxEvents, via : Paths]

ConstantsOK ==
    /\ IsFiniteSet(Workers) /\ IsFiniteSet(Topics)
    /\ Home \in [Socks -> Workers]
    /\ RawTopics \subseteq Topics
    /\ MaxEvents \in Nat /\ MaxBatch \in Nat
    /\ None \notin Seq(Events)

Message == [type : {"publish-batch", "publish-batched", "publish"}, events : Seq(Events)]

TypeOK ==
    /\ alive \in SUBSET Workers
    /\ topicSeqs \in [Workers -> [Topics -> 0..MaxEvents]]
    /\ relayBatch \in [Workers -> Seq(Events) \cup {None}]
    /\ timer \in [Workers -> BOOLEAN]
    /\ \A w \in alive : timer[w] <=> relayBatch[w] # None
    /\ up \in [Workers -> Seq(Message)]
    /\ down \in [Workers -> Seq(Message)]
    /\ subs \in [Socks -> SUBSET Topics]
    /\ native \in [Socks -> SUBSET Topics]
    /\ capable \in SUBSET Socks
    /\ sent \in [Workers -> Seq(Events)]
    /\ seen \in [Workers -> Seq(Events)]
    /\ got \in [Socks -> Seq(Events)]
    /\ due \in [Socks -> Seq(Events)]

Init ==
    /\ alive = Workers
    /\ topicSeqs = [w \in Workers |-> [t \in Topics |-> 0]]
    /\ relayBatch = [w \in Workers |-> None]
    /\ timer = [w \in Workers |-> FALSE]
    /\ up = [w \in Workers |-> <<>>]
    /\ down = [w \in Workers |-> <<>>]
    /\ subs = [s \in Socks |-> {}]
    /\ native = [s \in Socks |-> {}]
    /\ capable = {}
    /\ sent = [w \in Workers |-> <<>>]
    /\ seen = [w \in Workers |-> <<>>]
    /\ got = [s \in Socks |-> <<>>]
    /\ due = [s \in Socks |-> <<>>]

\* The numbers given so far: worker, topic and number.
Stamps == UNION {{e} \X (1..topicSeqs[e[1]][e[2]]) : e \in Workers \X Topics}
Published == Cardinality(Stamps)

-----------------------------------------------------------------------------
\* Handing events to uWS.

TopicsOf(events) == {events[i].topic : i \in DOMAIN events}

\* Events of the workers of W on the topics of S, relayed on the paths of P.
About(W, S, P) == [origin : W, topic : S, seq : 1..MaxEvents, via : P]

Wanted(s, events) == Within(events, About(Workers, native[s], Paths))

\* The sockets of w whose Set meets the topics of the list.
Interested(w, topics) == {s \in Socks : Home[s] = w /\ subs[s] \cap topics # {}}

\* (mutant: the walk never checks that every interested socket sees all topics)
SharesFrameIfCapable(w, topics) == \A s \in Interested(w, topics) : s \in capable

\* The walk over wsConnections: one frame may serve the whole list when every
\* interested socket has every topic and can decode a batch.
SharesFrame(w, topics) ==
    \A s \in Interested(w, topics) : topics \subseteq subs[s] /\ s \in capable

\* app.publish once per event.
DispatchEach(w, events) ==
    got' = [s \in Socks |-> IF Home[s] = w THEN got[s] \o Wanted(s, events) ELSE got[s]]

\* app.publish of one batch frame on the topic of the first event.  A client
\* that did not say it can decode one ignores it.
DispatchFrame(w, events) ==
    LET readers == {s \in capable : Home[s] = w /\ events[1].topic \in native[s]}
    IN  got' = [s \in Socks |-> IF s \in readers THEN got[s] \o events ELSE got[s]]

\* What both keep for the properties.
Account(w, events) ==
    /\ due' = [s \in Socks |-> IF Home[s] = w THEN due[s] \o Wanted(s, events) ELSE due[s]]
    /\ seen' = [seen EXCEPT ![w] = @ \o events]

-----------------------------------------------------------------------------
\* (mutant: the flush leaves an empty array, so no timer is armed again)
FlushKeepsArray(w) ==
    /\ timer[w] /\ w \in alive
    /\ up' = [up EXCEPT ![w] = Append(@, [type |-> "publish-batch", events |-> relayBatch[w]])]
    /\ relayBatch' = [relayBatch EXCEPT ![w] = <<>>]
    /\ timer' = [timer EXCEPT ![w] = FALSE]
    /\ UNCHANGED <<alive, topicSeqs, down, sockVars, sent, seen, got, due>>

\* The relay timer fires, once every ready socket of this loop iteration has
\* been served: one message for everything published since it was armed.
FlushRelay(w) ==
    /\ timer[w] /\ w \in alive
    /\ up' = [up EXCEPT ![w] = Append(@, [type |-> "publish-batch", events |-> relayBatch[w]])]
    /\ relayBatch' = [relayBatch EXCEPT ![w] = None]
    /\ timer' = [timer EXCEPT ![w] = FALSE]
    /\ UNCHANGED <<alive, topicSeqs, down, sockVars, sent, seen, got, due>>

\* (mutant: the batch is started anew instead of appended to)
BatchRelayAfresh(w, events) ==
    IF events = <<>> THEN UNCHANGED <<relayBatch, timer>>
    ELSE /\ relayBatch' = [relayBatch EXCEPT ![w] = events]
         /\ timer' = [timer EXCEPT ![w] = TRUE]

\* batchRelay for a list of events: the first one arms the timer.
BatchRelay(w, events) ==
    IF events = <<>> THEN UNCHANGED <<relayBatch, timer>>
    ELSE /\ relayBatch' = [relayBatch EXCEPT ![w] = IF @ = None THEN events ELSE @ \o events]
         /\ timer' = [timer EXCEPT ![w] = @ \/ relayBatch[w] = None]

\* The list with nextTopicSeq stamped on every item, in order.
Stamp(w, items, path) ==
    [i \in DOMAIN items |->
        [origin |-> w, topic |-> items[i].topic, via |-> path,
         seq |-> topicSeqs[w][items[i].topic]
                    + Cardinality({j \in 1..i : items[j].topic = items[i].topic})]]

Bump(w, items) ==
    topicSeqs' = [topicSeqs EXCEPT ![w] =
        [t \in Topics |-> @[t] + Cardinality({i \in DOMAIN items : items[i].topic = t})]]

\* The events whose options do not say {relay: false}.
Relayed(items, events) ==
    LET picked == {i \in DOMAIN items : items[i].relay}
    IN  [n \in 1..Cardinality(picked) |-> events[Nth(picked, n)]]

\* publish, and the loop over publish that batch() and the slow path of
\* publishBatched are: stamp, hand to uWS, put on the relay batch.
PublishEach(w, items) ==
    LET events == Stamp(w, items, "publish")
        relayed == Relayed(items, events)
    IN  /\ Bump(w, items)
        /\ DispatchEach(w, events)
        /\ Account(w, events)
        /\ BatchRelay(w, relayed)
        /\ sent' = [sent EXCEPT ![w] = @ \o relayed]
        /\ UNCHANGED up

\* The fast path: the relay is posted at once, the frame goes out on one topic.
PublishFrame(w, items) ==
    LET events == Stamp(w, items, "batched")
        relayed == Relayed(items, events)
    IN  /\ Bump(w, items)
        /\ up' = IF relayed = <<>> THEN up
                 ELSE [up EXCEPT ![w] = Append(@, [type |-> "publish-batched",
                                                   events |-> relayed])]
        /\ DispatchFrame(w, events)
        /\ Account(w, events)
        /\ sent' = [sent EXCEPT ![w] = @ \o relayed]
        /\ UNCHANGED <<relayBatch, timer>>

Items == [topic : Topics, relay : BOOLEAN]

Room(w, n) == w \in alive /\ Published + n <= MaxEvents

Publish(w, item) ==
    /\ Room(w, 1)
    /\ PublishEach(w, <<item>>)
    /\ UNCHANGED <<alive, down, sockVars>>

\* publishBatched of the list that collapseByCoalesceKey has left.
PublishBatched(w, items) ==
    /\ Room(w, Len(items))
    /\ IF SharesFrame(w, TopicsOf(items)) THEN PublishFrame(w, items)
                                          ELSE PublishEach(w, items)
    /\ UNCHANGED <<alive, down, sockVars>>

-----------------------------------------------------------------------------
\* for (const [w] of workers) if (w !== worker)
Others(w) == alive \ {w}

\* The primary takes one message of w: a publish-batch is split into single
\* publish messages, a publish-batched is forwarded whole.
Forward(w) ==
    /\ up[w] # <<>>
    /\ LET msg == Head(up[w])
           posts == IF msg.type = "publish-batched" THEN <<msg>>
                    ELSE [i \in DOMAIN msg.events |->
                             [type |-> "publish", events |-> <<msg.events[i]>>]]
       IN  down' = [v \in Workers |-> IF v \in Others(w) THEN down[v] \o posts ELSE down[v]]
    /\ up' = [up EXCEPT ![w] = Tail(@)]
    /\ UNCHANGED <<alive, topicSeqs, relayBatch, timer, sockVars,
                   sent, seen, got, due>>

\* relayPublish and relayPublishBatched: the detection runs again against this
\* worker's own sockets; nothing is stamped and nothing is relayed again.
Deliver(w) ==
    /\ w \in alive /\ down[w] # <<>>
    /\ LET events == Head(down[w]).events
       IN  /\ IF Head(down[w]).type = "publish-batched" /\ SharesFrame(w, TopicsOf(events))
              THEN DispatchFrame(w, events)
              ELSE DispatchEach(w, events)
           /\ Account(w, events)
    /\ down' = [down EXCEPT ![w] = Tail(@)]
    /\ UNCHANGED <<alive, topicSeqs, relayBatch, timer, up, sockVars, sent>>

\* A worker ends: its sockets, its pending batch and the messages for it are
\* gone; what it had posted still reaches the primary.
Die(w) ==
    /\ w \in alive /\ Cardinality(alive) > 1
    /\ alive' = alive \ {w}
    /\ relayBatch' = [relayBatch EXCEPT ![w] = None]
    /\ timer' = [timer EXCEPT ![w] = FALSE]
    /\ down' = [down EXCEPT ![w] = <<>>]
    /\ subs' = [s \in Socks |-> IF Home[s] = w THEN {} ELSE subs[s]]
    /\ native' = [s \in Socks |-> IF Home[s] = w THEN {} ELSE native[s]]
    /\ UNCHANGED <<topicSeqs, up, capable, sent, seen, got, due>>

-----------------------------------------------------------------------------
\* The sockets: an allowed subscribe, an unsubscribe, a hello, and the
\* ws.subscribe of an application's own hook.
Subscribe(s, t) ==
    /\ Home[s] \in alive /\ t \notin subs[s]
    /\ subs' = [subs EXCEPT ![s] = @ \cup {t}]
    /\ native' = [native EXCEPT ![s] = @ \cup {t}]
    /\ UNCHANGED capable

Unsubscribe(s, t) ==
    /\ Home[s] \in alive /\ t \in subs[s]
    /\ subs' = [subs EXCEPT ![s] = @ \ {t}]
    /\ native' = [native EXCEPT ![s] = @ \ {t}]
    /\ UNCHANGED capable

RawSubscribe(s, t) ==
    /\ Home[s] \in alive /\ t \notin native[s]
    /\ native' = [native EXCEPT ![s] = @ \cup {t}]
    /\ UNCHANGED <<subs, capable>>

Hello(s) ==
    /\ Home[s] \in alive
    /\ capable' = capable \cup {s}
    /\ UNCHANGED <<subs, native>>

SocketStep(s) ==
    /\ \/ \E t \in Topics : Subscribe(s, t) \/ Unsubscribe(s, t)
       \/ \E t \in RawTopics : RawSubscribe(s, t)
       \/ Hello(s)
    /\ UNCHANGED <<alive, topicSeqs, relayBatch, timer, up, down,
                   sent, seen, got, due>>

Next ==
    \/ \E w \in Workers, item \in Items : Publish(w, item)
    \/ \E w \in Workers, items \in UNION {[1..n -> Items] : n \in 1..MaxBatch} :
          PublishBatched(w, items)
    \/ \E w \in Workers : FlushRelay(w)
    \/ \E w \in Workers : Forward(w)
    \/ \E w \in Workers : Deliver(w)
    \/ \E w \in Workers : Die(w)
    \/ \E s \in Socks : SocketStep(s)

Spec == Init /\ [][Next]_vars

-----------------------------------------------------------------------------
\* The shared frame is only an optimisation: every socket receives exactly the
\* events one publish per event would have given it, in the same order, and in
\* frames its client can decode.
SameAsPublishLoop == \A s \in Socks : got[s] = due[s]

From(o, path, events) == Within(events, About({o}, Topics, {path}))

InMessages(msgs) == FlattenSeq([i \in DOMAIN msgs |-> msgs[i].events])

\* What of o's events on one path v has seen or has still to come, oldest first.
Pipe(o, v, path) ==
    From(o, path, seen[v]) \o From(o, path, InMessages(down[v]))
        \o From(o, path, InMessages(up[o]))
        \o (IF relayBatch[o] = None THEN <<>> ELSE From(o, path, relayBatch[o]))

\* The relay loses, duplicates and reorders nothing on either path: for every
\* live worker the events seen and in flight are those sent.  Only the batch
\* of a worker that died is missing, at the end.  Nothing comes back to the
\* worker that published it, whose sockets already have it.
RelayIsAPipe ==
    \A v \in alive :
        /\ \A i \in DOMAIN down[v] : \A j \in DOMAIN down[v][i].events :
              down[v][i].events[j].origin # v
        /\ \A o \in Workers \ {v} : \A path \in Paths :
              IF o \in alive THEN Pipe(o, v, path) = From(o, path, sent[o])
                             ELSE IsPrefix(Pipe(o, v, path), From(o, path, sent[o]))

\* "Across batches, same subscriber-side ordering as today": the events of one
\* worker on one topic reach every socket in the order they were stamped.
StampedOrder ==
    \A s \in Socks : \A i, j \in DOMAIN got[s] :
        /\ i < j
        /\ got[s][i].origin = got[s][j].origin
        /\ got[s][i].topic = got[s][j].topic
        => got[s][i].seq < got[s][j].seq
=============================================================================
