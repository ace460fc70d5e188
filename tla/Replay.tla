-------------------------------- MODULE Replay --------------------------------
(***************************************************************************)
(* The replay plugin (plugins/replay): a ring buffer per topic on the      *)
(* server, of which the least recently used is forgotten, and the store of *)
(* onReplay on the client, which is given the sequence number its page was *)
(* rendered with, asks for what came after it, and goes live at the end    *)
(* marker.  Live messages are dropped until then, since the answer is      *)
(* supposed to hold them.                                                  *)
(*                                                                         *)
(* Frames travel in order and are lost with the connection.  Messages of a *)
(* topic are numbered in publish order (id), which is their seq as long as *)
(* the buffer has not been forgotten.  The page is rendered with all the   *)
(* messages published so far.  The gate of the topic's subscription is the *)
(* subscribe hook, which may be asynchronous.                              *)
(***************************************************************************)
EXTENDS MapOrder

CONSTANTS Topics,    \* topics
          Chat,      \* the topic the store is for
          Size,      \* size of the ring buffer
          MaxTopics, \* maxTopics
          MaxMsgs,   \* bound: publishes
          MaxStops   \* bound: times the store is released, or its connection lost

VARIABLES buffers,    \* the Map topics: [seq, buf, start, len], or Unknown
          topicOrder, \* least recently used first
          total,      \* total[t]: messages published on t
          slowGate,   \* the subscribe hook is asynchronous; never changes
          gated,      \* the subscription waits for it
          subscribed, \* the server sends Chat to the client's socket
          conn,       \* the socket is open
          up, down,   \* frames on their way to the server and to the client
          page,       \* [since, loaded] of the rendered page, or NotLoaded
          listening,  \* the store has subscribers
          unasked,    \* ready().then() has not sent the request yet
          hearing,    \* replayUnsub: it listens for the answer
          replayDone, \* it is live
          out,        \* ids it has put out
          truncated,  \* it has put out 'truncated'
          stops,      \* bound
          excused     \* since the page: buffer forgotten, connection lost, or store released

buffer == <<buffers, topicOrder, total>>
socket == <<slowGate, gated, subscribed, conn, up>>
store == <<page, listening, unasked, hearing, replayDone, out, truncated>>
replayVars == <<buffer, socket, down, store, stops, excused>>

Unknown == [seq |-> 0, buf |-> [i \in 0..(Size - 1) |-> 0], start |-> 0, len |-> 0]
NotLoaded == [since |-> -1, loaded |-> 0]

ReplayTypeOK ==
    /\ buffers \in [Topics -> [seq: 0..MaxMsgs, buf: [0..(Size - 1) -> 0..MaxMsgs],
                               start: 0..(Size - 1), len: 0..Size]]
    /\ topicOrder \in Seq(Topics) /\ Len(topicOrder) <= MaxTopics
    /\ total \in [Topics -> 0..MaxMsgs]
    /\ {slowGate, gated, subscribed, conn, listening, unasked, hearing, replayDone,
        truncated, excused} \subseteq BOOLEAN
    /\ up \in Seq({"subscribe", "unsubscribe", "replay"})
    /\ down \in Seq([kind: {"live", "msg", "end"}, id: 0..MaxMsgs, truncated: BOOLEAN])
    /\ page \in [since: -1..MaxMsgs, loaded: 0..MaxMsgs]
    /\ out \in Seq(1..MaxMsgs) /\ stops \in 0..MaxStops

Init ==
    /\ buffers = [t \in Topics |-> Unknown] /\ topicOrder = <<>>
    /\ total = [t \in Topics |-> 0]
    /\ slowGate \in BOOLEAN /\ gated = FALSE /\ subscribed = FALSE /\ conn = FALSE
    /\ up = <<>> /\ down = <<>>
    /\ page = NotLoaded /\ listening = FALSE /\ unasked = FALSE /\ hearing = FALSE
    /\ replayDone = FALSE /\ out = <<>> /\ truncated = FALSE
    /\ stops = 0 /\ excused = FALSE

-------------------------------------------------------------------------------
(* The buffer.                                                               *)

Known(t) == \E i \in DOMAIN topicOrder : topicOrder[i] = t

\* touchTopic: a topic that is there becomes the most recently used.
Touched(t) == IF Known(t) THEN Append(Within(topicOrder, Topics \ {t}), t) ELSE topicOrder

\* getTopic: at the cap the least recently used topic is forgotten.
Forgotten(t) == IF ~Known(t) /\ Len(topicOrder) >= MaxTopics THEN {Head(topicOrder)} ELSE {}

\* (mutant: the window never moves)
pushStuck(s, id) ==
    LET idx == (s.start + s.len) % Size IN
    [seq |-> s.seq + 1, buf |-> [s.buf EXCEPT ![idx] = id],
     len |-> IF s.len < Size THEN s.len + 1 ELSE s.len, start |-> s.start]

\* pushMessage, with the next seq: a full ring overwrites its oldest entry.
pushMessage(s, id) ==
    LET idx == (s.start + s.len) % Size IN
    [seq |-> s.seq + 1, buf |-> [s.buf EXCEPT ![idx] = id],
     len |-> IF s.len < Size THEN s.len + 1 ELSE s.len,
     start |-> IF s.len < Size THEN s.start ELSE (s.start + 1) % Size]

\* The seq of the i-th retained message: they are consecutive and end at seq.
SeqAt(s, i) == s.seq - s.len + i

\* readSince: the retained messages after since, oldest first.
readSince(s, since) ==
    LET from == CHOOSE i \in 1..(s.len + 1) : SeqAt(s, i) > since /\ \A j \in 1..(i - 1) : SeqAt(s, j) <= since
    IN  IF s.len = 0 \/ since >= s.seq THEN <<>>
        ELSE [i \in 1..(s.len - from + 1) |-> s.buf[(s.start + from - 1 + i - 1) % Size]]

\* (mutant: off by one, a complete answer is called truncated)
IsTruncatedEarly(s, since) == s.len > 0 /\ SeqAt(s, 1) > since

IsTruncated(s, since) == s.len > 0 /\ SeqAt(s, 1) > since + 1

\* publish: into the buffer, then to the subscribers.
Publish(t) ==
    /\ total[t] < MaxMsgs
    /\ LET id == total[t] + 1
           gone == Forgotten(t)
       IN  /\ total' = [total EXCEPT ![t] = id]
           /\ buffers' = [x \in Topics |-> IF x = t THEN pushMessage(buffers[t], id)
                                           ELSE IF x \in gone THEN Unknown ELSE buffers[x]]
           /\ topicOrder' = Append(Within(topicOrder, Topics \ ({t} \cup gone)), t)
           /\ down' = IF t = Chat /\ subscribed
                      THEN Append(down, [kind |-> "live", id |-> id, truncated |-> FALSE]) ELSE down
           /\ excused' = (excused \/ (Chat \in gone /\ page # NotLoaded))
    /\ UNCHANGED <<socket, store, stops>>

\* clearTopic.
ClearTopic(t) ==
    /\ Known(t)
    /\ buffers' = [buffers EXCEPT ![t] = Unknown]
    /\ topicOrder' = Within(topicOrder, Topics \ {t})
    /\ excused' = (excused \/ (t = Chat /\ page # NotLoaded))
    /\ UNCHANGED <<total, socket, down, store, stops>>

\* What replay sends: the missed messages and the end marker; for a topic that
\* is not there the marker alone.
Answer(since) ==
    [i \in DOMAIN readSince(buffers[Chat], since) |->
        [kind |-> "msg", id |-> readSince(buffers[Chat], since)[i], truncated |-> FALSE]]
      \o <<[kind |-> "end", id |-> 0, truncated |-> IsTruncated(buffers[Chat], since)]>>

-------------------------------------------------------------------------------
(* The server handles the client's frames in order.                          *)

Subscribe ==
    /\ up # <<>> /\ Head(up) = "subscribe" /\ up' = Tail(up)
    /\ IF slowGate THEN gated' = TRUE /\ UNCHANGED subscribed
       ELSE subscribed' = TRUE /\ UNCHANGED gated
    /\ UNCHANGED <<buffer, slowGate, conn, down, store, stops, excused>>

\* The asynchronous hook answers.
GateOpens ==
    /\ gated /\ gated' = FALSE /\ subscribed' = TRUE
    /\ UNCHANGED <<buffer, slowGate, conn, up, down, store, stops, excused>>

Unsubscribe ==
    /\ up # <<>> /\ Head(up) = "unsubscribe" /\ up' = Tail(up)
    /\ subscribed' = FALSE
    /\ UNCHANGED <<buffer, slowGate, gated, conn, down, store, stops, excused>>

\* replay, called from the message hook.
AnswerReplay ==
    /\ up # <<>> /\ Head(up) = "replay" /\ up' = Tail(up)
    /\ topicOrder' = Touched(Chat)
    /\ down' = down \o Answer(page.since)
    /\ UNCHANGED <<buffers, total, slowGate, gated, subscribed, conn, store, stops, excused>>

-------------------------------------------------------------------------------
(* The client.                                                               *)

\* The page is rendered: load() reads seq(topic).
Load ==
    /\ page = NotLoaded
    /\ page' = [since |-> buffers[Chat].seq, loaded |-> total[Chat]]
    /\ topicOrder' = Touched(Chat)
    /\ UNCHANGED <<buffers, total, socket, down, listening, unasked, hearing, replayDone,
                   out, truncated, stops, excused>>

\* The socket opens: topics are subscribed to, then ready() resolves.
Open ==
    /\ page # NotLoaded /\ ~conn /\ conn' = TRUE
    /\ up' = (IF listening THEN <<"subscribe">> ELSE <<>>) \o (IF unasked THEN <<"replay">> ELSE <<>>)
    /\ unasked' = FALSE
    /\ UNCHANGED <<buffer, slowGate, gated, subscribed, down, page, listening, hearing,
                   replayDone, out, truncated, stops, excused>>

\* startListening.
Start ==
    /\ page # NotLoaded /\ ~listening /\ listening' = TRUE
    /\ hearing' = TRUE /\ replayDone' = FALSE
    /\ IF conn THEN up' = up \o <<"subscribe", "replay">> /\ UNCHANGED unasked
       ELSE unasked' = TRUE /\ UNCHANGED up
    /\ UNCHANGED <<buffer, slowGate, gated, subscribed, conn, down, page, out, truncated, stops, excused>>

\* stopListening, with the last subscriber: what was put out is forgotten.
Stop ==
    /\ listening /\ ~slowGate /\ stops < MaxStops /\ stops' = stops + 1
    /\ listening' = FALSE /\ unasked' = FALSE /\ hearing' = FALSE /\ replayDone' = FALSE
    /\ out' = <<>> /\ truncated' = FALSE
    /\ up' = IF conn THEN Append(up, "unsubscribe") ELSE up
    /\ excused' = TRUE
    /\ UNCHANGED <<buffer, slowGate, gated, subscribed, conn, down, page>>

\* The connection is lost with what is in flight.
Lose ==
    /\ conn /\ stops < MaxStops /\ stops' = stops + 1
    /\ conn' = FALSE /\ up' = <<>> /\ down' = <<>> /\ subscribed' = FALSE /\ gated' = FALSE
    /\ excused' = TRUE
    /\ UNCHANGED <<buffer, slowGate, store>>

\* Live messages are dropped until the end marker.
PutsOut(f) == (f.kind = "live" /\ replayDone) \/ (f.kind = "msg" /\ hearing)

\* (mutant: the end marker is missed)
EndsNever(f) == FALSE

Ends(f) == f.kind = "end" /\ hearing

\* The client is given a frame.
Receive ==
    /\ down # <<>> /\ down' = Tail(down)
    /\ LET f == Head(down) IN
       /\ out' = IF PutsOut(f) THEN Append(out, f.id) ELSE out
       /\ replayDone' = (replayDone \/ Ends(f))
       /\ hearing' = (hearing /\ ~Ends(f))
       /\ truncated' = (truncated \/ (Ends(f) /\ f.truncated))
    /\ UNCHANGED <<buffer, socket, page, listening, unasked, stops, excused>>

Next ==
    \/ \E t \in Topics : Publish(t) \/ ClearTopic(t)
    \/ Subscribe \/ GateOpens \/ Unsubscribe \/ AnswerReplay
    \/ Load \/ Open \/ Start \/ Stop \/ Lose \/ Receive

ReplaySpec == Init /\ [][Next]_replayVars

-------------------------------------------------------------------------------
\* What the store has put out, or the page has, is behind by what is in flight.
UpTo == IF out = <<>> THEN page.loaded ELSE out[Len(out)]

\* The messages the store puts out follow each other and the page without a
\* hole, from the page's last one on; a hole at the beginning is announced as
\* 'truncated', and nothing else is; and a live store gets all that follows.
NoHoles ==
    /\ \A i \in 1..(Len(out) - 1) : out[i + 1] = out[i] + 1
    /\ replayDone =>
         /\ truncated <=> (out # <<>> /\ out[1] > page.loaded + 1)
         /\ UpTo + Len(down) = total[Chat]
         /\ \A i \in DOMAIN down : down[i].kind = "live" /\ down[i].id = UpTo + i

\* No gaps, over any interleaving of publishes with the page's rendering, the
\* opening socket, the subscription and the answer, while the buffer wraps
\* around: as long as the subscribe hook is synchronous and neither the buffer
\* nor the connection nor the store is lost on the way.
Gapless == ReplayTypeOK /\ (listening /\ ~slowGate /\ ~excused => NoHoles)

\* A store that is listened to goes live, if nothing is lost on the way.
GoesLive == <>[](listening /\ ~excused => replayDone)
===============================================================================
