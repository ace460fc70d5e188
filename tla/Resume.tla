-------------------------------- MODULE Resume --------------------------------
(***************************************************************************)
(* Resuming after a reconnect: the browser client remembers the highest    *)
(* seq it saw of a topic (client.js) and presents it in a resume frame     *)
(* before it subscribes again; the resume hook that the server runs        *)
(* (handler.js) answers from the buffer of the replay plugin, as its       *)
(* documentation shows.  The two number messages apart: the platform       *)
(* stamps what it publishes, the buffer counts what goes through it.       *)
(*                                                                         *)
(* One topic, one worker that is not restarted, and an application that    *)
(* listens to the topic and to its replay channel.  A message is named by  *)
(* its stamp.  Frames travel in order and are lost with the connection.    *)
(***************************************************************************)
EXTENDS Integers, Sequences, FiniteSets

CONSTANTS Capacity,  \* size of the ring buffer
          MaxStamps, \* bound: publishes
          MaxLost    \* bound: lost connections

VARIABLES stamp,     \* topicSeqs: the last stamp
          count,     \* the buffer's own count
          ring,      \* the messages it holds, oldest first
          slowHook,  \* the resume hook is asynchronous; never changes
          hooked,    \* it runs, for this seq
          online,    \* the socket is open
          joined,    \* the server sends it the topic
          up, down,  \* frames on their way to the server and to the client
          session,   \* sessionStorage has an id
          lastSeen,  \* lastSeenSeqs, 0 for none
          got,       \* what the application was given on this connection
          had,       \* history: what it was given on earlier ones
          owed,      \* history: what it should have, or be told that it has not
          apart,     \* history: the two counts are no longer the same
          losses     \* bound

server == <<stamp, count, ring>>
client == <<session, lastSeen, got>>
history == <<had, owed, apart, losses>>
resumeVars == <<server, slowHook, hooked, online, joined, up, down, client, history>>

NotRunning == -1
Frame(kind, id) == [kind |-> kind, id |-> id]

ResumeTypeOK ==
    /\ stamp \in 0..MaxStamps /\ count \in 0..stamp
    /\ ring \in Seq(1..stamp) /\ Len(ring) <= Capacity
    /\ {slowHook, online, joined, session, apart} \subseteq BOOLEAN
    /\ hooked \in NotRunning..MaxStamps /\ lastSeen \in 0..MaxStamps
    /\ up \in Seq([kind: {"resume", "subscribe"}, id: 0..MaxStamps])
    /\ down \in Seq([kind: {"welcome", "live", "msg", "end", "truncated"}, id: 0..MaxStamps])
    /\ got \in Seq(1..MaxStamps) /\ had \cup owed \subseteq 1..MaxStamps
    /\ losses \in 0..MaxLost

Init ==
    /\ stamp = 0 /\ count = 0 /\ ring = <<>>
    /\ slowHook \in BOOLEAN /\ hooked = NotRunning
    /\ online = FALSE /\ joined = FALSE /\ up = <<>> /\ down = <<>>
    /\ session = FALSE /\ lastSeen = 0 /\ got = <<>>
    /\ had = {} /\ owed = {} /\ apart = FALSE /\ losses = 0

\* It has a seq to present, and the server has not answered it yet.
Resumable == session /\ lastSeen > 0
Resuming ==
    Resumable /\ (~online \/ hooked # NotRunning \/ \E i \in DOMAIN up : up[i].kind = "resume")

-------------------------------------------------------------------------------
(* The server.                                                               *)

\* platform.publish stamps; what goes through the buffer is also kept there.
Publish(buffered) ==
    /\ stamp < MaxStamps /\ stamp' = stamp + 1
    /\ IF buffered
       THEN /\ count' = count + 1
            /\ ring' = LET all == Append(ring, stamp') IN
                       IF Len(all) > Capacity THEN Tail(all) ELSE all
       ELSE UNCHANGED <<count, ring>>
    /\ apart' = (apart \/ count' # stamp')
    /\ down' = IF joined THEN Append(down, Frame("live", stamp')) ELSE down
    /\ owed' = IF joined \/ Resuming THEN owed \cup {stamp'} ELSE owed
    /\ UNCHANGED <<slowHook, hooked, online, joined, up, client, had, losses>>

\* clearTopic, or the topic was the least recently used: it counts from one again.
Forget ==
    /\ count > 0 /\ count' = 0 /\ ring' = <<>> /\ apart' = TRUE
    /\ UNCHANGED <<stamp, slowHook, hooked, online, joined, up, down, client, had, owed, losses>>

\* The buffer's number of its i-th message.
SeqAt(i) == count - Len(ring) + i

\* replay: what is newer, then the end marker. The marker's truncated flag is
\* modelled as a marker of its own.
Missed(since) == LET newer == {i \in DOMAIN ring : SeqAt(i) > since}
                 IN  SubSeq(ring, Len(ring) - Cardinality(newer) + 1, Len(ring))
Replayed(since) ==
    LET missed == Missed(since)
        gone == ring # <<>> /\ SeqAt(1) > since + 1
    IN  [i \in DOMAIN missed |-> Frame("msg", missed[i])]
          \o <<Frame(IF gone THEN "truncated" ELSE "end", 0)>>

\* The message handler on a resume frame: the hook has answered when it returns,
\* or goes on while later frames are handled.
ServeResume ==
    /\ up # <<>> /\ Head(up).kind = "resume" /\ up' = Tail(up)
    /\ IF slowHook
       THEN hooked' = Head(up).id /\ UNCHANGED down
       ELSE down' = down \o Replayed(Head(up).id) /\ UNCHANGED hooked
    /\ UNCHANGED <<server, slowHook, online, joined, client, history>>

AnswerResume ==
    /\ hooked # NotRunning /\ hooked' = NotRunning /\ down' = down \o Replayed(hooked)
    /\ UNCHANGED <<server, slowHook, online, joined, up, client, history>>

ServeSubscribe ==
    /\ up # <<>> /\ Head(up).kind = "subscribe" /\ up' = Tail(up) /\ joined' = TRUE
    /\ UNCHANGED <<server, slowHook, hooked, online, down, client, history>>

-------------------------------------------------------------------------------
(* The client.                                                               *)

\* The socket opens on both sides: the server says welcome, the client presents
\* what it has seen before it subscribes.
Frames == (IF Resumable THEN <<Frame("resume", lastSeen)>> ELSE <<>>) \o <<Frame("subscribe", 0)>>

Open ==
    /\ ~online /\ online' = TRUE
    /\ up' = Frames /\ down' = <<Frame("welcome", 0)>>
    /\ UNCHANGED <<server, slowHook, hooked, joined, client, history>>

\* A frame comes in. sessionStorage may refuse the id. dispatchEvent moves lastSeen
\* on; what comes on the replay channel has no seq of its own. An application
\* that is told of a gap loads everything again.
Receive ==
    /\ down # <<>> /\ down' = Tail(down)
    /\ LET f == Head(down) IN
       /\ session' \in IF f.kind = "welcome" THEN {session, TRUE} ELSE {session}
       /\ lastSeen' = IF f.kind = "live" /\ f.id > lastSeen THEN f.id ELSE lastSeen
       /\ got' = IF f.kind \in {"live", "msg"} THEN Append(got, f.id) ELSE got
       /\ owed' = IF f.kind = "truncated" THEN {} ELSE owed
    /\ UNCHANGED <<server, slowHook, hooked, online, joined, up, had, apart, losses>>

\* The connection is lost. A client that cannot resume will start afresh.
Lose ==
    /\ online /\ losses < MaxLost /\ losses' = losses + 1
    /\ online' = FALSE /\ joined' = FALSE /\ hooked' = NotRunning /\ up' = <<>> /\ down' = <<>>
    /\ had' = had \cup {got[i] : i \in DOMAIN got} /\ got' = <<>>
    /\ owed' = IF Resumable THEN owed ELSE {}
    /\ UNCHANGED <<server, slowHook, session, lastSeen, apart>>

Next ==
    \/ \E buffered \in BOOLEAN : Publish(buffered)
    \/ Forget
    \/ ServeResume \/ AnswerResume \/ ServeSubscribe
    \/ Open \/ Receive \/ Lose

-------------------------------------------------------------------------------
\* A gap is filled or admitted. With a hook that answers at once and a buffer
\* that everything is published through, each message that was published while
\* the client was subscribed, or away and about to resume, has been given to the
\* application, is on its way, or will be replayed; or the answer admits that
\* messages are gone. That holds over any number of lost connections, in spite of
\* frames lost on the way.
GapIsFilled ==
    (~slowHook /\ ~apart) =>
        \/ \E i \in DOMAIN down : down[i].kind = "truncated"
        \/ \A m \in owed : \/ m \in had \/ \E i \in DOMAIN got : got[i] = m
                           \/ \E i \in DOMAIN down : down[i].id = m
                           \/ Resuming /\ m > lastSeen

\* A hook that answers at once keeps the order: what is replayed comes before
\* what is live, each message at most once on a connection.
ReplayedFirst ==
    ~slowHook => \A i, j \in DOMAIN got : i < j => got[i] < got[j]

ResumeFills == GapIsFilled /\ ReplayedFirst
===============================================================================
