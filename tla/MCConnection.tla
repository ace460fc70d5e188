---------------------------- MODULE MCConnection -----------------------------
(***************************************************************************)
(* Instances for TLC of what waits for its turn or its answer: Connection  *)
(* has the requests and the coalesced sends of one connection, Rpc both    *)
(* ends of requests that outlive theirs, TaskQueue the queue plugin,       *)
(* Replay a store that asks for what it missed, Resume a client that does  *)
(* on a new connection. They share no state; part, chosen at the start,    *)
(* says which of them moves.                                               *)
(***************************************************************************)
EXTENDS Connection, TLC

CONSTANTS Workers, Requests, MaxConns, NoConn, NoRequest, None,  \* of Rpc
          Pushes, Drains, QueueKeys, Concurrency, MaxSize, \* of TaskQueue
          Topics, Chat, Size, MaxTopics, MaxMsgs, MaxStops, \* of Replay
          Capacity, MaxStamps, MaxLost  \* of Resume

VARIABLES part, nextRef, home, conns, state, ref, onConn, tasks, answer,
          queues, items, running, drains, phase, label, place, drained, covers,
          buffers, topicOrder, total, slowGate, gated, subscribed, conn, up, down, page,
          listening, unasked, hearing, replayDone, out, truncated, stops, excused,
          stamp, count, ring, slowHook, hooked, online, joined, toServer, toClient,
          session, lastSeen, got, had, owed, apart, losses

rpcVars == <<nextRef, home, conns, state, ref, onConn, tasks, answer>>
queueVars == <<queues, items, running, drains, phase, label, place, drained, covers>>
replayVars == <<buffers, topicOrder, total, slowGate, gated, subscribed, conn, up, down, page,
                listening, unasked, hearing, replayDone, out, truncated, stops, excused>>
resumeVars == <<stamp, count, ring, slowHook, hooked, online, joined, toServer, toClient,
                session, lastSeen, got, had, owed, apart, losses>>

C == INSTANCE Rpc

\* One worker, whose connections a browser changes between: two workers give
\* the same number to requests of their own.
ASSUME RpcConstantsOK ==
    /\ \A v, w \in Workers : v = w
    /\ IsFiniteSet(Requests) /\ MaxConns \in Nat
    /\ NoConn \notin Workers /\ NoRequest \notin Requests

\* Five pushes: three of them fill one queue and overflow it, two use the other.
Q == INSTANCE TaskQueue WITH Keys <- QueueKeys, key <- label, at <- place

ASSUME QueueConstantsOK == Q!ConstantsOK

\* A buffer of two messages that wraps around, and a topic that evicts it.
R == INSTANCE Replay

\* Two losses, so that a resume may itself be lost, and more messages than the
\* buffer holds.
Z == INSTANCE Resume WITH up <- toServer, down <- toClient

\* The plugin refuses a buffer or a table that holds nothing.
ASSUME BuffersConstantsOK ==
    /\ Chat \in Topics /\ Size \in Nat \ {0} /\ MaxTopics \in Nat \ {0}
    /\ MaxMsgs \in Nat /\ MaxStops \in Nat
    /\ Capacity \in Nat \ {0} /\ MaxStamps \in Nat /\ MaxLost \in Nat

PartsInit ==
    /\ part \in {"connection", "rpc", "queue", "replay", "resume"}
    /\ Init /\ C!Init /\ Q!Init /\ R!Init /\ Z!Init
    /\ part # "replay" => ~slowGate
    /\ part # "resume" => ~slowHook

\* In a behaviour of Connection either both requests are made or all keys are
\* written, never both.
PartsNext ==
    /\ UNCHANGED part
    /\ \/ /\ part = "connection" /\ Next
          /\ (\E r \in Refs : outcome'[r] = "new") \/ (\E k \in Keys : newest'[k] = 0)
          /\ UNCHANGED <<rpcVars, queueVars, replayVars, resumeVars>>
       \/ part = "rpc" /\ C!Next /\ UNCHANGED <<vars, queueVars, replayVars, resumeVars>>
       \/ part = "queue" /\ Q!Next /\ UNCHANGED <<vars, rpcVars, replayVars, resumeVars>>
       \/ part = "replay" /\ R!Next /\ UNCHANGED <<vars, rpcVars, queueVars, resumeVars>>
       \/ part = "resume" /\ Z!Next /\ UNCHANGED <<vars, rpcVars, queueVars, replayVars>>

\* Queues and replay only come to an end: what their modules ask of each step
\* may be asked of the steps together.
PartsSpec ==
    /\ PartsInit /\ [][PartsNext]_<<part, vars, rpcVars, queueVars, replayVars, resumeVars>>
    /\ WF_vars(part = "connection" /\ Drain)
    /\ \A r \in Refs : WF_vars(part = "connection" /\ Timeout(r))
    /\ WF_queueVars(part = "queue" /\ \E p \in Pushes : Q!Settle(p))
    /\ WF_replayVars(part = "replay" /\ (R!Open \/ R!Subscribe \/ R!Unsubscribe
                                          \/ R!AnswerReplay \/ R!Receive))

\* What the other modules state of their own variables.
RepliesMatch == C!RepliesMatch
QueueBooks == Q!Sound
QueuesDrain == Q!StartedInOrder /\ Q!DrainsResolve
Gapless == R!Gapless /\ Z!ResumeFills
GoesLive == R!GoesLive
==============================================================================
