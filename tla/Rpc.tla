--------------------------------- MODULE Rpc ----------------------------------
(***************************************************************************)
(* Requests of the server to one browser (platform.request in handler.js,  *)
(* onRequest in client.js) over the browser's successive connections, each *)
(* to one worker process.  A worker numbers its requests, a connection     *)
(* holds those that wait for their reply, and the client answers on        *)
(* whichever connection is open when its handler is done.                  *)
(*                                                                         *)
(* Module Connection has the life of a request on one connection.          *)
(***************************************************************************)
EXTENDS Integers, FiniteSets

CONSTANTS Workers,     \* worker processes
          Requests,    \* requests that may be made
          NoConn,      \* the browser is not connected
          NoRequest,   \* no answer yet
          MaxConns     \* bound: connections

VARIABLES nextRef,  \* nextRequestRef of each worker
          home,     \* the worker of the open connection, or NoConn
          conns,    \* connections made so far
          state,    \* state[r]: of the promise of request r
          ref,      \* its ref
          onConn,   \* the connection it was made on
          tasks,    \* requests whose handler runs in the client
          answer    \* answer[r]: the request whose result r was resolved with

rpcVars == <<nextRef, home, conns, state, ref, onConn, tasks, answer>>

RpcTypeOK ==
    /\ nextRef \in [Workers -> 1..(Cardinality(Requests) + 1)]
    /\ home \in Workers \cup {NoConn} /\ conns \in 0..MaxConns
    /\ state \in [Requests -> {"none", "waiting", "resolved", "timed out", "closed"}]
    /\ ref \in [Requests -> 0..Cardinality(Requests)]
    /\ onConn \in [Requests -> 0..MaxConns]
    /\ tasks \subseteq Requests
    /\ answer \in [Requests -> Requests \cup {NoRequest}]

Init ==
    /\ nextRef = [w \in Workers |-> 1] /\ home = NoConn /\ conns = 0
    /\ state = [r \in Requests |-> "none"] /\ ref = [r \in Requests |-> 0] /\ onConn = ref
    /\ tasks = {} /\ answer = [r \in Requests |-> NoRequest]

\* The Map of the open connection.
Waiting == {r \in Requests : state[r] = "waiting" /\ onConn[r] = conns}

\* (mutant: each connection counts its requests from one)
ConnectAfresh(w) ==
    /\ home = NoConn /\ conns < MaxConns
    /\ home' = w /\ conns' = conns + 1
    /\ nextRef' = [nextRef EXCEPT ![w] = 1]
    /\ UNCHANGED <<state, ref, onConn, tasks, answer>>

Connect(w) ==
    /\ home = NoConn /\ conns < MaxConns
    /\ home' = w /\ conns' = conns + 1
    /\ UNCHANGED <<nextRef, state, ref, onConn, tasks, answer>>

\* request: the frame reaches the client while the connection lasts, and its
\* handler runs, unless none is installed or the frame is lost with the socket.
Request(r) ==
    /\ home # NoConn /\ state[r] = "none"
    /\ state' = [state EXCEPT ![r] = "waiting"]
    /\ ref' = [ref EXCEPT ![r] = nextRef[home]]
    /\ onConn' = [onConn EXCEPT ![r] = conns]
    /\ nextRef' = [nextRef EXCEPT ![home] = @ + 1]
    /\ tasks' \in {tasks, tasks \cup {r}}
    /\ UNCHANGED <<home, conns, answer>>

Timeout(r) ==
    /\ state[r] = "waiting"
    /\ state' = [state EXCEPT ![r] = "timed out"]
    /\ UNCHANGED <<nextRef, home, conns, ref, onConn, tasks, answer>>

\* The entry of a reply with this ref, on the connection it comes in on.
Entry(n) == {r \in Waiting : ref[r] = n}

\* The client's handler for request t is done: its reply goes out on the open
\* connection, whichever that is, and resolves the entry with its ref.
Reply(t) ==
    /\ t \in tasks /\ tasks' = tasks \ {t}
    /\ IF home = NoConn THEN UNCHANGED <<state, answer>>
       ELSE /\ state' = [r \in Requests |-> IF r \in Entry(ref[t]) THEN "resolved" ELSE state[r]]
            /\ answer' = [r \in Requests |-> IF r \in Entry(ref[t]) THEN t ELSE answer[r]]
    /\ UNCHANGED <<nextRef, home, conns, ref, onConn>>

\* The close of the connection rejects what waits on it.
Closed == state' = [r \in Requests |-> IF r \in Waiting THEN "closed" ELSE state[r]]

Lose ==
    /\ home # NoConn /\ home' = NoConn /\ Closed
    /\ UNCHANGED <<nextRef, conns, ref, onConn, tasks, answer>>

Next ==
    \/ \E w \in Workers : Connect(w)
    \/ \E r \in Requests : Request(r) \/ Timeout(r) \/ Reply(r)
    \/ Lose

RpcSpec == Init /\ [][Next]_rpcVars

\* A request is resolved with its own answer, and only while it waits: "a stray
\* reply from one connection cannot affect another".  One worker process keeps
\* this, however often the browser reconnects.
OwnAnswer ==
    \A r \in Requests : answer[r] # NoRequest => answer[r] = r /\ state[r] = "resolved"

RepliesMatch == RpcTypeOK /\ OwnAnswer
===============================================================================
