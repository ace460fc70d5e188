------------------------------- MODULE Client -------------------------------
(***************************************************************************)
(* The connection of the browser client (client.js, createConnection): one *)
(* variable ws for "the" socket, a reconnect timer, an optional auth       *)
(* preflight, a handler for the page's visibility, ref-counted topics that *)
(* are sent by a microtask and sent again on every open, and a queue of    *)
(* messages that waits for an open socket.                                 *)
(*                                                                         *)
(* Nothing ties a socket's handlers to the socket: onopen writes to        *)
(* whatever ws names by then, and onclose clears ws whoever it names.  The *)
(* variable overlap records that doConnect ever went on while a socket was *)
(* closing or another call waited for the preflight; what holds until then *)
(* and what holds always are different.                                    *)
(*                                                                         *)
(* Sockets are slots that are used again.  Stores call their subscribers   *)
(* synchronously; these are taken not to call back into the connection.    *)
(***************************************************************************)
EXTENDS Integers, FiniteSets, SequencesExt

CONSTANTS Socks,        \* slots for browser sockets
          Topics,       \* topics without the __ prefix
          NoSock,       \* ws = null
          MaxAttempts,  \* maxReconnectAttempts
          ThrottleJump, \* where a THROTTLE close puts the backoff (5)
          QueueMax,     \* MAX_QUEUE_SIZE
          MaxRefs,      \* bound: subscribers of one topic
          MaxGiven,     \* bound: calls of sendQueued
          MaxWaiting    \* bound: doConnect calls that wait for one preflight

ASSUME ConstantsOK ==
    /\ IsFiniteSet(Socks) /\ NoSock \notin Socks
    /\ MaxAttempts \in Nat \ {0} /\ ThrottleJump \in Nat /\ QueueMax \in Nat \ {0}
    /\ MaxRefs \in Nat /\ MaxGiven \in Nat /\ MaxWaiting \in Nat \ {0}

VARIABLES auth,      \* the auth option; never changes
          goodUrl,   \* the WebSocket constructor takes the url; never changes
          sock,      \* sock[s]: the socket's readyState; "none" is a free slot
          ws,        \* the socket the connection writes to
          waiting,   \* doConnect calls behind authInFlight, 0 when it is null
          timer,     \* reconnectTimer is armed
          attempt,   \* the backoff counter
          closed,    \* intentionallyClosed
          terminal,  \* terminalClosed
          hidden,    \* document.hidden
          status,    \* statusStore
          refs,      \* topicRefCounts
          pending,   \* pendingSubscribes, whose microtask has not run
          heard,     \* heard[s]: what the frames sent on s subscribe to
          queue,     \* sendQueue
          given,     \* messages given to sendQueued, numbered
          dropped,   \* those the full queue let go
          wire,      \* history: messages handed to an open socket, in order
          overlap    \* history: doConnect went on before an earlier attempt was over

page == <<hidden, refs, pending, heard>>
messages == <<queue, given, dropped, wire>>
vars == <<auth, goodUrl, sock, ws, waiting, timer, attempt, closed, terminal, status,
          overlap, page, messages>>

Live == {s \in Socks : sock[s] # "none"}

IsOpen(s) == s # NoSock /\ sock[s] = "open"

\* subscribedTopics: added to at the first reference, deleted from with the last.
Subscribed == {t \in Topics : refs[t] > 0}

TypeOK ==
    /\ auth \in BOOLEAN /\ goodUrl \in BOOLEAN
    /\ sock \in [Socks -> {"none", "connecting", "open", "closing"}]
    /\ ws \in Live \cup {NoSock}
    /\ waiting \in 0..MaxWaiting /\ (waiting > 0 => auth)
    /\ timer \in BOOLEAN
    /\ attempt \in Nat /\ (attempt <= MaxAttempts \/ attempt = ThrottleJump)
    /\ closed \in BOOLEAN /\ terminal \in BOOLEAN /\ hidden \in BOOLEAN
    /\ status \in {"connecting", "open", "suspended", "disconnected", "failed"}
    /\ refs \in [Topics -> 0..MaxRefs]
    /\ pending \subseteq Topics
    /\ heard \in [Socks -> SUBSET Topics]
    /\ given \in 0..MaxGiven
    /\ dropped \subseteq 1..given
    /\ queue \in Seq(1..given) /\ Len(queue) <= QueueMax
    /\ wire \in Seq(1..given)
    /\ overlap \in BOOLEAN

-----------------------------------------------------------------------------
\* Events are tasks: they run when the microtask queue is empty.
Event == pending = {}

\* (mutant: one attempt too many before giving up)
ScheduleOnce(armed, n, st) ==
    IF ~armed /\ n > MaxAttempts
    THEN /\ terminal' = TRUE /\ status' = "failed"
         /\ timer' = armed /\ attempt' = n
    ELSE /\ timer' = TRUE
         /\ attempt' = IF armed THEN n ELSE n + 1
         /\ status' = st
         /\ UNCHANGED terminal

\* scheduleReconnect, with the backoff at n: an armed timer stands, and when
\* the attempts are used up the connection is closed for good.
Schedule(armed, n, st) ==
    IF ~armed /\ n >= MaxAttempts
    THEN /\ terminal' = TRUE /\ status' = "failed"
         /\ timer' = armed /\ attempt' = n
    ELSE /\ timer' = TRUE
         /\ attempt' = IF armed THEN n ELSE n + 1
         /\ status' = st
         /\ UNCHANGED terminal

\* openSocket, for each of count callers in one run: the last one's socket is
\* ws.  A constructor that throws is only a reason to try again later.
OpenSocket(count, armed, n, st) ==
    \/ goodUrl /\ \E new \in SUBSET (Socks \ Live) :
          /\ Cardinality(new) = count
          /\ ws' \in new
          /\ sock' = [s \in Socks |-> IF s \in new THEN "connecting" ELSE sock[s]]
          /\ timer' = armed /\ attempt' = n /\ status' = st
          /\ UNCHANGED terminal
    \/ /\ ~goodUrl
       /\ Schedule(armed, n, st)
       /\ UNCHANGED <<ws, sock>>

\* doConnect: a socket that is connecting or open is enough, one that is
\* closing is not.  With auth the socket is only made after the preflight.
DoConnect(armed, n) ==
    IF ws # NoSock /\ sock[ws] \in {"connecting", "open"}
    THEN /\ timer' = armed /\ attempt' = n
         /\ UNCHANGED <<ws, sock, waiting, overlap, status, terminal>>
    ELSE /\ overlap' = (overlap \/ Live # {} \/ waiting > 0)
         /\ IF auth
            THEN /\ waiting < MaxWaiting
                 /\ waiting' = waiting + 1
                 /\ timer' = armed /\ attempt' = n /\ status' = "connecting"
                 /\ UNCHANGED <<ws, sock, terminal>>
            ELSE /\ OpenSocket(1, armed, n, "connecting")
                 /\ UNCHANGED waiting

\* createConnection has called doConnect.
Init ==
    /\ auth \in BOOLEAN
    /\ hidden \in BOOLEAN
    /\ goodUrl \in BOOLEAN
    /\ waiting = IF auth THEN 1 ELSE 0
    /\ ws \in IF auth \/ ~goodUrl THEN {NoSock} ELSE Socks
    /\ sock = [s \in Socks |-> IF s = ws THEN "connecting" ELSE "none"]
    /\ timer = (~auth /\ ~goodUrl) /\ attempt = IF timer THEN 1 ELSE 0
    /\ closed = FALSE /\ terminal = FALSE
    /\ status = "connecting"
    /\ refs = [t \in Topics |-> 0] /\ pending = {}
    /\ heard = [s \in Socks |-> {}]
    /\ queue = <<>> /\ given = 0 /\ dropped = {} /\ wire = <<>>
    /\ overlap = FALSE

-----------------------------------------------------------------------------
\* The reconnect timer fires.
TimerFires ==
    /\ Event /\ timer
    /\ DoConnect(FALSE, attempt)
    /\ UNCHANGED <<auth, goodUrl, closed, page, messages>>

\* (mutant: a transient failure is reported and nothing else)
AuthForgets(outcome) ==
    /\ Event /\ waiting > 0
    /\ waiting' = 0
    /\ IF closed \/ terminal \/ outcome = "transient"
       THEN UNCHANGED <<ws, sock, timer, attempt, terminal, status>>
       ELSE IF outcome = "ok" THEN OpenSocket(waiting, timer, attempt, status)
       ELSE /\ terminal' = TRUE /\ status' = "failed"
            /\ UNCHANGED <<ws, sock, timer, attempt>>
    /\ UNCHANGED <<auth, goodUrl, closed, overlap, page, messages>>

\* The preflight has settled, and every doConnect that shares it goes on.
AuthSettles(outcome) ==
    /\ Event /\ waiting > 0
    /\ waiting' = 0
    /\ CASE closed \/ terminal ->
              UNCHANGED <<ws, sock, timer, attempt, terminal, status>>
         [] ~closed /\ ~terminal /\ outcome = "ok" ->
              OpenSocket(waiting, timer, attempt, status)
         [] ~closed /\ ~terminal /\ outcome = "transient" ->
              /\ Schedule(timer, attempt, "disconnected")
              /\ UNCHANGED <<ws, sock>>
         [] ~closed /\ ~terminal /\ outcome = "unauthorized" ->
              /\ terminal' = TRUE /\ status' = "failed"
              /\ UNCHANGED <<ws, sock, timer, attempt>>
    /\ UNCHANGED <<auth, goodUrl, closed, overlap, page, messages>>

\* (mutant: the page may be hidden)
AlwaysOpen == "open"

\* setStatusOpen
OpenStatus == IF hidden THEN "suspended" ELSE "open"

\* (mutant: the queue is sent from its end)
FlushReversed(target, isOpen) ==
    /\ queue' = <<>>
    /\ heard' = IF isOpen THEN [heard EXCEPT ![target] = @ \cup Subscribed] ELSE heard
    /\ wire' = IF isOpen THEN wire \o Reverse(queue) ELSE wire

\* (mutant: the queue is sent, the topics are not)
FlushQueueOnly(target, isOpen) ==
    /\ queue' = <<>>
    /\ wire' = IF isOpen THEN wire \o queue ELSE wire
    /\ UNCHANGED heard

\* onopen sends the topics and shifts the queue onto whatever ws is: nowhere
\* when it is null, into the void when that socket is closing.
FlushInto(target, isOpen) ==
    /\ queue' = <<>>
    /\ heard' = IF isOpen THEN [heard EXCEPT ![target] = @ \cup Subscribed] ELSE heard
    /\ wire' = IF isOpen THEN wire \o queue ELSE wire

\* onopen.  A send on another socket that is still connecting throws, and ends
\* the handler before anything is sent.
Open(s) ==
    /\ Event /\ sock[s] = "connecting"
    /\ sock' = [sock EXCEPT ![s] = "open"]
    /\ attempt' = 0
    /\ status' = OpenStatus
    /\ IF ws \notin {s, NoSock} /\ sock[ws] = "connecting"
       THEN UNCHANGED <<heard, wire, queue>>
       ELSE FlushInto(ws, ws = s \/ IsOpen(ws))
    /\ UNCHANGED <<auth, goodUrl, ws, waiting, timer, closed, terminal, hidden, refs,
                   pending, overlap, given, dropped>>

\* The server or the network ends the socket: it closes before its close event.
BeginClose(s) ==
    /\ Event /\ sock[s] = "open"
    /\ sock' = [sock EXCEPT ![s] = "closing"]
    /\ UNCHANGED <<auth, goodUrl, ws, waiting, timer, attempt, closed, terminal, status, overlap,
                   page, messages>>

\* The activity timer closes a socket the server has been silent on for
\* SERVER_TIMEOUT_MS; close() clears that timer.
ZombieCheck ==
    /\ ~closed /\ ws # NoSock
    /\ BeginClose(ws)

\* onclose.  A socket that never opened closes with 1006.
OnClose(s, class) ==
    /\ Event /\ s \in Live
    /\ sock[s] = "connecting" => class = "RETRY"
    /\ sock' = [sock EXCEPT ![s] = "none"]
    /\ heard' = [heard EXCEPT ![s] = {}]
    /\ ws' = NoSock
    /\ IF closed
       THEN /\ status' = "failed"
            /\ UNCHANGED <<timer, attempt, terminal>>
       ELSE IF class = "TERMINAL"
       THEN /\ terminal' = TRUE /\ status' = "failed"
            /\ UNCHANGED <<timer, attempt>>
       ELSE Schedule(timer, IF class = "THROTTLE" /\ attempt < ThrottleJump
                            THEN ThrottleJump ELSE attempt, "disconnected")
    /\ UNCHANGED <<auth, goodUrl, waiting, closed, hidden, refs, pending, overlap, messages>>

-----------------------------------------------------------------------------
\* The page is hidden ...
Hide ==
    /\ Event /\ ~hidden
    /\ hidden' = TRUE
    /\ status' = IF ~closed /\ IsOpen(ws) THEN "suspended" ELSE status
    /\ UNCHANGED <<auth, goodUrl, sock, ws, waiting, timer, attempt, closed, terminal,
                   overlap, refs, pending, heard, messages>>

\* ... and shown again: without an open socket the client reconnects at once.
Show ==
    /\ Event /\ hidden
    /\ hidden' = FALSE
    /\ IF closed \/ terminal
       THEN UNCHANGED <<ws, sock, overlap, waiting, timer, attempt, status, terminal>>
       ELSE IF IsOpen(ws)
       THEN /\ status' = "open"
            /\ UNCHANGED <<ws, sock, overlap, waiting, timer, attempt, terminal>>
       ELSE DoConnect(FALSE, 0)
    /\ UNCHANGED <<auth, goodUrl, closed, refs, pending, heard, messages>>

\* (mutant: the timer stays armed)
CloseKeepsTimer ==
    /\ ~closed
    /\ closed' = TRUE /\ status' = "failed" /\ ws' = NoSock
    /\ sock' = [s \in Socks |-> IF s = ws THEN "closing" ELSE sock[s]]
    /\ UNCHANGED <<auth, goodUrl, waiting, timer, attempt, terminal, overlap, page, messages>>

\* close()
Close ==
    /\ ~closed
    /\ closed' = TRUE /\ status' = "failed" /\ ws' = NoSock
    /\ sock' = [s \in Socks |-> IF s = ws THEN "closing" ELSE sock[s]]
    /\ timer' = FALSE
    /\ UNCHANGED <<auth, goodUrl, waiting, attempt, terminal, overlap, page, messages>>

-----------------------------------------------------------------------------
\* subscribe(topic): the frame is left to the microtask, and left out when no
\* socket is open.
Subscribe(t) ==
    /\ refs[t] < MaxRefs
    /\ refs' = [refs EXCEPT ![t] = @ + 1]
    /\ pending' = IF refs[t] = 0 /\ IsOpen(ws) THEN pending \cup {t} ELSE pending
    /\ UNCHANGED <<auth, goodUrl, sock, ws, waiting, timer, attempt, closed, terminal, status,
                   overlap, hidden, heard, messages>>

\* flushPendingSubscribes
FlushSubscribes ==
    /\ pending # {}
    /\ pending' = {}
    /\ heard' = IF IsOpen(ws) THEN [heard EXCEPT ![ws] = @ \cup pending] ELSE heard
    /\ UNCHANGED <<auth, goodUrl, sock, ws, waiting, timer, attempt, closed, terminal, status,
                   overlap, hidden, refs, messages>>

\* release(topic) and unsubscribe(topic), which ignores the count: with the last
\* reference the frame goes out at once.
Drop(t, left) ==
    /\ refs' = [refs EXCEPT ![t] = left]
    /\ heard' = IF left = 0 /\ IsOpen(ws) THEN [heard EXCEPT ![ws] = @ \ {t}] ELSE heard
    /\ UNCHANGED <<auth, goodUrl, sock, ws, waiting, timer, attempt, closed, terminal, status,
                   overlap, hidden, pending, messages>>

Release(t) == Drop(t, IF refs[t] <= 1 THEN 0 ELSE refs[t] - 1)

Unsubscribe(t) == Drop(t, 0)

\* sendQueued(data): a full queue lets its oldest message go.
SendQueued ==
    /\ given < MaxGiven
    /\ given' = given + 1
    /\ IF IsOpen(ws)
       THEN /\ wire' = Append(wire, given + 1)
            /\ UNCHANGED <<queue, dropped>>
       ELSE LET full == Len(queue) >= QueueMax
            IN  /\ queue' = Append(IF full THEN Tail(queue) ELSE queue, given + 1)
                /\ dropped' = IF full THEN dropped \cup {Head(queue)} ELSE dropped
                /\ UNCHANGED wire
    /\ UNCHANGED <<auth, goodUrl, sock, ws, waiting, timer, attempt, closed, terminal, status,
                   overlap, page>>

-----------------------------------------------------------------------------
Next ==
    \/ TimerFires
    \/ \E outcome \in {"ok", "transient", "unauthorized"} : AuthSettles(outcome)
    \/ \E s \in Socks : Open(s) \/ BeginClose(s)
    \/ \E s \in Socks, class \in {"RETRY", "THROTTLE", "TERMINAL"} : OnClose(s, class)
    \/ ZombieCheck
    \/ Hide \/ Show \/ Close
    \/ \E t \in Topics : Subscribe(t) \/ Release(t) \/ Unsubscribe(t)
    \/ FlushSubscribes
    \/ SendQueued

Spec == Init /\ [][Next]_vars

-----------------------------------------------------------------------------
\* There is always a way back: unless the user or the server has ended it, the
\* connection has a socket whose events will come, an armed timer or a preflight
\* on its way, whatever order timers, visibility and close events came in.
NeverStranded ==
    closed \/ terminal \/ timer \/ waiting > 0 \/ ws # NoSock

\* "Permanently closed" is permanent: after close() no socket is made any more,
\* by no timer, preflight or handler; nor after a terminal end, as long as no
\* attempts overlapped (the close of the older socket schedules another one).
NoResurrection ==
    [][closed \/ (terminal /\ ~overlap) =>
          \A s \in Socks : sock[s] = "none" => sock'[s] = "none"]_vars

\* No subscription is lost: on an open socket the frames sent so far, together
\* with those of the microtask, subscribe to every topic that has a reference,
\* also after a reconnect and when subscribes and releases crossed it.
Resubscribed == IsOpen(ws) => Subscribed \subseteq heard[ws] \cup pending

\* Until attempts overlap the status tells the truth: it is final with
\* the connection, "open" or "suspended" by the page while the socket is open,
\* and neither of them without a socket.
StatusIsTrue ==
    overlap \/
        /\ status = "failed" <=> closed \/ terminal
        /\ IsOpen(ws) => status = IF hidden THEN "suspended" ELSE "open"
        /\ status \in {"open", "suspended"} => ws # NoSock /\ sock[ws] # "connecting"

\* As long as no attempts overlapped, messages given to sendQueued go to an open
\* socket once, in the order they were given, or wait in the queue, but for
\* those the full queue let go.
QueueKept ==
    overlap \/
        LET all == wire \o queue
        IN  /\ ToSet(all) = (1..given) \ dropped
            /\ \A i, j \in DOMAIN all : i < j => all[i] < all[j]

\* What the browser may rely on at every moment.
ConnectionIsKept == TypeOK /\ NeverStranded

ShownAndKept == StatusIsTrue /\ QueueKept
=============================================================================
