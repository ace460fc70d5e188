---------------------------- MODULE ClientProofs -----------------------------
(***************************************************************************)
(* Proofs about Client: the connection is never lost and never comes back  *)
(* when it was ended, what the page subscribed to is subscribed, and until *)
(* two attempts to connect overlap the status is true and the queue is     *)
(* kept, for any number of sockets, topics, messages and attempts; and     *)
(* about the parts that MCClient composes with it: the rosters of groups,  *)
(* the stores of a topic, and maxAge, for any number of sockets, roles,    *)
(* stores, events and items; and the positions of cursors.                 *)
(***************************************************************************)
EXTENDS MCClient, FiniteSetTheorems, SequenceTheorems, MapOrderProofs, TLAPS

\* After close() nothing is armed and the connection writes nowhere.
ClosedIsOver == closed => ~timer /\ ws = NoSock

\* Until attempts overlap there is one of them at most: a socket, which is ws
\* or was closed by close(), a caller behind the preflight, or an armed timer.
\* None is left after a terminal end.
OneAttempt ==
    overlap \/
        /\ \A s \in Live : s = ws \/ (closed /\ sock[s] = "closing")
        /\ waiting <= 1
        /\ timer => Live = {} /\ waiting = 0
        /\ waiting = 1 => Live = {}
        /\ terminal => Live = {} /\ waiting = 0 /\ ~timer

\* Until attempts overlap nothing waits for a socket that is open.
OpenIsFlushed == overlap \/ (IsOpen(ws) => queue = <<>>)

IInv ==
    /\ TypeOK
    /\ NeverStranded
    /\ ClosedIsOver
    /\ OneAttempt
    /\ Resubscribed
    /\ StatusIsTrue
    /\ OpenIsFlushed
    /\ QueueKept

\* A number of the backoff.
Backoff(n) == n \in Nat /\ (n <= MaxAttempts \/ n = ThrottleJump)

-----------------------------------------------------------------------------
\* The messages all are those of 1..n without gone, in order.
Kept(all, n, gone) ==
    /\ all \in Seq(1..n)
    /\ \A m \in (1..n) \ gone : \E i \in DOMAIN all : all[i] = m
    /\ \A i \in DOMAIN all : all[i] \notin gone
    /\ \A i, j \in DOMAIN all : i < j => all[i] < all[j]

LEMMA KeptMeans ==
    ASSUME NEW n \in Nat, NEW gone, NEW all \in Seq(1..n)
    PROVE  Kept(all, n, gone) <=> /\ ToSet(all) = (1..n) \ gone
                                  /\ \A i, j \in DOMAIN all : i < j => all[i] < all[j]
<1>1. \A i \in DOMAIN all : all[i] \in 1..n
  OBVIOUS
<1>2. ToSet(all) = (1..n) \ gone <=> /\ \A m \in (1..n) \ gone : \E i \in DOMAIN all : all[i] = m
                                     /\ \A i \in DOMAIN all : all[i] \notin gone
  BY <1>1 DEF ToSet
<1> QED
  BY <1>2 DEF Kept

\* One more message at the end.
LEMMA KeptAppend ==
    ASSUME NEW n \in Nat, NEW gone \in SUBSET (1..n), NEW all, Kept(all, n, gone)
    PROVE  Kept(Append(all, n + 1), n + 1, gone)
<1> DEFINE more == Append(all, n + 1)
           L == Len(all)
<1>1. all \in Seq(1..n) /\ L \in Nat /\ DOMAIN all = 1..L
  BY DEF Kept
<1>2. /\ more \in Seq(1..n + 1) /\ DOMAIN more = 1..L + 1
      /\ more[L + 1] = n + 1 /\ \A i \in 1..L : more[i] = all[i]
  <2>1. all \in Seq(1..n + 1)
    BY <1>1, SeqMonotonic
  <2> QED
    BY <1>1, <2>1, AppendProperties
<1>3. \A i \in 1..L : all[i] \in 1..n
  BY <1>1
<1> HIDE DEF more, L
<1>4. \A m \in (1..n + 1) \ gone : \E i \in DOMAIN more : more[i] = m
  <2> SUFFICES ASSUME NEW m \in (1..n + 1) \ gone PROVE \E i \in DOMAIN more : more[i] = m
    OBVIOUS
  <2>1. CASE m = n + 1
    BY <1>1, <1>2, <2>1
  <2>2. CASE m # n + 1
    <3>1. m \in (1..n) \ gone
      BY <2>2
    <3>2. PICK i \in DOMAIN all : all[i] = m
      BY <3>1 DEF Kept
    <3> QED
      BY <1>1, <1>2, <3>2
  <2> QED
    BY <2>1, <2>2
<1>5. \A i \in DOMAIN more : more[i] \notin gone
  <2> SUFFICES ASSUME NEW i \in DOMAIN more PROVE more[i] \notin gone
    OBVIOUS
  <2>1. CASE i = L + 1
    BY <1>2, <2>1
  <2>2. CASE i # L + 1
    BY <1>1, <1>2, <2>2 DEF Kept
  <2> QED
    BY <2>1, <2>2
<1>6. \A i, j \in DOMAIN more : i < j => more[i] < more[j]
  <2> SUFFICES ASSUME NEW i \in DOMAIN more, NEW j \in DOMAIN more, i < j PROVE more[i] < more[j]
    OBVIOUS
  <2>1. i \in 1..L /\ more[i] = all[i] /\ all[i] \in 1..n
    BY <1>1, <1>2, <1>3
  <2>2. CASE j = L + 1
    BY <1>2, <2>1, <2>2
  <2>3. CASE j # L + 1
    <3>1. j \in 1..L /\ more[j] = all[j]
      BY <1>1, <1>2, <2>3
    <3> QED
      BY <1>1, <2>1, <3>1 DEF Kept
  <2> QED
    BY <2>2, <2>3
<1> QED
  BY <1>2, <1>4, <1>5, <1>6 DEF Kept, more

\* The head of the queue is let go.
LEMMA KeptTail ==
    ASSUME NEW n \in Nat, NEW gone, NEW w \in Seq(1..n), NEW q \in Seq(1..n), q # <<>>,
           Kept(w \o q, n, gone)
    PROVE  Kept(w \o Tail(q), n, gone \cup {Head(q)})
<1> DEFINE all == w \o q
           less == w \o Tail(q)
           W == Len(w)
           Q == Len(q)
<1>1. /\ W \in Nat /\ Q \in Nat \ {0}
      /\ Tail(q) \in Seq(1..n) /\ Len(Tail(q)) = Q - 1
      /\ \A i \in 1..Q - 1 : Tail(q)[i] = q[i + 1]
      /\ Head(q) = q[1]
  BY HeadTailProperties
<1>2. /\ all \in Seq(1..n) /\ DOMAIN all = 1..W + Q
      /\ \A i \in 1..W : all[i] = w[i]
      /\ \A i \in W + 1..W + Q : all[i] = q[i - W]
  BY <1>1, ConcatProperties
<1>3. /\ less \in Seq(1..n) /\ DOMAIN less = 1..W + Q - 1
      /\ \A i \in 1..W : less[i] = w[i]
      /\ \A i \in W + 1..W + Q - 1 : less[i] = Tail(q)[i - W]
  BY <1>1, ConcatProperties
<1>4. all[W + 1] = Head(q) /\ W + 1 \in DOMAIN all
  BY <1>1, <1>2
<1>5. \A i \in 1..W : less[i] = all[i]
  BY <1>2, <1>3
<1>6. \A i \in W + 1..W + Q - 1 : less[i] = all[i + 1]
  <2> SUFFICES ASSUME NEW i \in W + 1..W + Q - 1 PROVE less[i] = all[i + 1]
    OBVIOUS
  <2>1. i - W \in 1..Q - 1 /\ i + 1 \in W + 1..W + Q /\ (i - W) + 1 = (i + 1) - W
    BY <1>1
  <2> QED
    BY <1>1, <1>2, <1>3, <2>1
<1>7. \A i \in DOMAIN all : all[i] \in 1..n
  BY SMTT(30), <1>2
<1>8. \A i, j \in DOMAIN all : i < j => all[i] < all[j]
  BY DEF Kept
<1>9. /\ \A m \in (1..n) \ gone : \E i \in DOMAIN all : all[i] = m
      /\ \A i \in DOMAIN all : all[i] \notin gone
  BY DEF Kept
<1> DEFINE h == Head(q)
<1> HIDE DEF all, less, W, Q, h
<1>10. \A m \in (1..n) \ (gone \cup {h}) : \E i \in DOMAIN less : less[i] = m
  <2> SUFFICES ASSUME NEW m \in (1..n) \ (gone \cup {h}) PROVE \E i \in DOMAIN less : less[i] = m
    OBVIOUS
  <2>1. PICK i \in DOMAIN all : all[i] = m
    BY <1>9
  <2>2. i # W + 1 /\ i \in 1..W + Q
    BY <1>2, <1>4, <2>1 DEF h
  <2>3. CASE i <= W
    <3>1. i \in 1..W /\ i \in 1..W + Q - 1
      BY <1>1, <2>2, <2>3
    <3> QED
      BY <1>3, <1>5, <2>1, <3>1
  <2>4. CASE i > W + 1
    <3>1. i - 1 \in W + 1..W + Q - 1 /\ i - 1 \in 1..W + Q - 1 /\ (i - 1) + 1 = i
      BY <1>1, <2>2, <2>4
    <3>2. less[i - 1] = m
      BY <1>6, <2>1, <3>1
    <3> QED
      BY <1>3, <3>1, <3>2
  <2>5. i <= W \/ i > W + 1
    <3>1. i \in Int /\ W \in Int /\ i # W + 1
      BY <1>1, <2>2
    <3> QED
      BY <3>1
  <2> QED
    BY <2>3, <2>4, <2>5
<1>11. \A i \in DOMAIN less : \E k \in DOMAIN all :
          /\ less[i] = all[k] /\ k # W + 1
          /\ (i <= W /\ k = i) \/ (i > W /\ k = i + 1)
  <2> SUFFICES ASSUME NEW i \in DOMAIN less
               PROVE  \E k \in DOMAIN all : /\ less[i] = all[k] /\ k # W + 1
                                            /\ (i <= W /\ k = i) \/ (i > W /\ k = i + 1)
    OBVIOUS
  <2>1. i \in 1..W + Q - 1
    BY <1>3
  <2>2. CASE i <= W
    <3>1. i \in 1..W /\ i \in 1..W + Q /\ i # W + 1
      BY <1>1, <2>1, <2>2
    <3> QED
      BY <1>2, <1>5, <2>2, <3>1
  <2>3. CASE i > W
    <3>1. i \in W + 1..W + Q - 1 /\ i + 1 \in 1..W + Q /\ i + 1 # W + 1
      BY <1>1, <2>1, <2>3
    <3> QED
      BY <1>2, <1>6, <2>3, <3>1
  <2> QED
    BY <1>1, <2>1, <2>2, <2>3
<1>12. \A i \in DOMAIN less : less[i] \notin gone \cup {h}
  <2> SUFFICES ASSUME NEW i \in DOMAIN less PROVE less[i] \notin gone \cup {h}
    OBVIOUS
  <2>1. PICK k \in DOMAIN all : less[i] = all[k] /\ k # W + 1
    BY <1>11
  <2>2. all[k] # all[W + 1]
    <3>1. k < W + 1 \/ W + 1 < k
      BY <1>1, <1>2, <2>1
    <3> QED
      BY <1>4, <1>7, <1>8, <3>1
  <2> QED
    BY <1>4, <1>9, <2>1, <2>2 DEF h
<1>13. \A i, j \in DOMAIN less : i < j => less[i] < less[j]
  <2> SUFFICES ASSUME NEW i \in DOMAIN less, NEW j \in DOMAIN less, i < j PROVE less[i] < less[j]
    OBVIOUS
  <2>1. PICK k \in DOMAIN all : less[i] = all[k] /\ ((i <= W /\ k = i) \/ (i > W /\ k = i + 1))
    BY <1>11
  <2>2. PICK l \in DOMAIN all : less[j] = all[l] /\ ((j <= W /\ l = j) \/ (j > W /\ l = j + 1))
    BY <1>11
  <2>3. k < l
    BY SMTT(30), <1>1, <1>3, <2>1, <2>2
  <2> QED
    BY <1>8, <2>1, <2>2, <2>3
<1> QED
  BY <1>3, <1>10, <1>12, <1>13 DEF Kept, less, h

-----------------------------------------------------------------------------
\* A step that gives and sends no message and opens no socket.
LEMMA MessagesStay ==
    ASSUME IInv, UNCHANGED messages, overlap => overlap', overlap' \/ (IsOpen(ws)' => IsOpen(ws))
    PROVE  QueueKept' /\ OpenIsFlushed'
<1>1. UNCHANGED <<queue, given, dropped, wire>>
  BY DEF messages
<1>2. QueueKept'
  BY <1>1 DEF IInv, QueueKept
<1>3. OpenIsFlushed'
  BY <1>1 DEF IInv, OpenIsFlushed
<1> QED
  BY <1>2, <1>3

\* A step that makes no subscription and leaves an open socket where it was.
LEMMA SubscriptionsStay ==
    ASSUME IInv, UNCHANGED <<refs, pending>>,
           IsOpen(ws)' => IsOpen(ws) /\ ws' = ws /\ heard'[ws] = heard[ws]
    PROVE  Resubscribed'
BY DEF IInv, Resubscribed, Subscribed

\* The types of what a step about the connection leaves alone.
LEMMA RestTyped ==
    ASSUME TypeOK, UNCHANGED <<auth, goodUrl, refs, pending, heard, queue, given, dropped, wire>>
    PROVE  /\ auth' \in BOOLEAN /\ goodUrl' \in BOOLEAN
           /\ refs' \in [Topics -> 0..MaxRefs] /\ pending' \subseteq Topics
           /\ heard' \in [Socks -> SUBSET Topics]
           /\ given' \in 0..MaxGiven /\ dropped' \subseteq 1..given'
           /\ queue' \in Seq(1..given') /\ Len(queue') <= QueueMax /\ wire' \in Seq(1..given')
BY DEF TypeOK

LEMMA InitHolds == Init => IInv
<1> SUFFICES ASSUME Init PROVE IInv
  OBVIOUS
<1> USE DEF Init
<1>1. NoSock \notin Socks
  BY ConstantsOK
<1>2. \/ auth /\ ws = NoSock /\ Live = {} /\ waiting = 1 /\ timer = FALSE /\ attempt = 0
      \/ ~auth /\ ws = NoSock /\ Live = {} /\ waiting = 0 /\ timer = TRUE /\ attempt = 1
      \/ /\ ~auth /\ ws \in Socks /\ Live = {ws} /\ sock[ws] = "connecting"
         /\ waiting = 0 /\ timer = FALSE /\ attempt = 0
  <2>1. CASE auth
    BY <1>1, <2>1 DEF Live
  <2>2. CASE ~auth /\ ~goodUrl
    BY <1>1, <2>2 DEF Live
  <2>3. CASE ~auth /\ goodUrl
    BY <1>1, <2>3 DEF Live
  <2> QED
    BY <2>1, <2>2, <2>3
<1>3. /\ sock \in [Socks -> {"none", "connecting", "open", "closing"}]
      /\ refs \in [Topics -> 0..MaxRefs] /\ given \in 0..MaxGiven /\ dropped \subseteq 1..given
      /\ heard \in [Socks -> SUBSET Topics] /\ pending \subseteq Topics
  BY ConstantsOK
<1>4. /\ queue \in Seq(1..given) /\ wire \in Seq(1..given) /\ Len(queue) <= QueueMax
  BY ConstantsOK
<1>5. TypeOK
  <2>1. /\ waiting \in 0..MaxWaiting /\ (waiting > 0 => auth)
        /\ attempt \in Nat /\ attempt <= MaxAttempts
    BY <1>2, ConstantsOK
  <2>2. ws \in Live \cup {NoSock}
    BY <1>2
  <2>3. timer \in BOOLEAN
    BY <1>2
  <2>4. /\ auth \in BOOLEAN /\ goodUrl \in BOOLEAN /\ hidden \in BOOLEAN
        /\ closed \in BOOLEAN /\ terminal \in BOOLEAN /\ overlap \in BOOLEAN
        /\ status = "connecting"
    OBVIOUS
  <2> HIDE DEF Init
  <2> QED
    BY <1>3, <1>4, <2>1, <2>2, <2>3, <2>4 DEF TypeOK
<1>6. ~IsOpen(ws) /\ Subscribed = {}
  BY <1>2 DEF IsOpen, Subscribed
<1>7. NeverStranded
  BY <1>1, <1>2 DEF NeverStranded
<1>8. OneAttempt
  BY <1>2 DEF OneAttempt
<1>9. QueueKept
  BY DEF QueueKept, ToSet
<1>10. Resubscribed /\ StatusIsTrue /\ OpenIsFlushed /\ ClosedIsOver
  BY <1>2, <1>6 DEF Resubscribed, StatusIsTrue, OpenIsFlushed, ClosedIsOver
<1> QED
  BY <1>5, <1>7, <1>8, <1>9, <1>10 DEF IInv

\* What doConnect does: a socket there is enough, or it waits for the
\* preflight, makes a socket, or fails to.
LEMMA DoConnectStep ==
    ASSUME TypeOK, NEW n, Backoff(n), DoConnect(FALSE, n)
    PROVE  \/ /\ ws # NoSock /\ sock[ws] \in {"connecting", "open"}
              /\ timer' = FALSE /\ attempt' = n
              /\ UNCHANGED <<ws, sock, waiting, overlap, status, terminal>>
           \/ /\ ~(ws # NoSock /\ sock[ws] \in {"connecting", "open"})
              /\ overlap' = (overlap \/ Live # {} \/ waiting > 0)
              /\ \/ /\ auth /\ waiting < MaxWaiting /\ waiting' = waiting + 1
                    /\ timer' = FALSE /\ attempt' = n /\ status' = "connecting"
                    /\ UNCHANGED <<ws, sock, terminal>>
                 \/ /\ ~auth /\ UNCHANGED <<waiting, terminal>>
                    /\ timer' = FALSE /\ attempt' = n /\ status' = "connecting"
                    /\ ws' \in Socks \ Live /\ sock' = [sock EXCEPT ![ws'] = "connecting"]
                 \/ /\ ~auth /\ UNCHANGED <<ws, sock, waiting>>
                    /\ \/ /\ terminal' = TRUE /\ status' = "failed"
                          /\ timer' = FALSE /\ attempt' = n
                       \/ /\ timer' = TRUE /\ attempt' = n + 1 /\ Backoff(n + 1)
                          /\ status' = "connecting" /\ UNCHANGED terminal
<1>1. CASE ws # NoSock /\ sock[ws] \in {"connecting", "open"}
  BY <1>1 DEF DoConnect
<1>2. CASE ~(ws # NoSock /\ sock[ws] \in {"connecting", "open"}) /\ auth
  BY <1>2 DEF DoConnect
<1>3. CASE ~(ws # NoSock /\ sock[ws] \in {"connecting", "open"}) /\ ~auth
  <2>1. /\ overlap' = (overlap \/ Live # {} \/ waiting > 0)
        /\ OpenSocket(1, FALSE, n, "connecting") /\ UNCHANGED waiting
    BY <1>3 DEF DoConnect
  <2>2. CASE goodUrl
    <3>1. PICK new \in SUBSET (Socks \ Live) :
              /\ Cardinality(new) = 1 /\ ws' \in new
              /\ sock' = [s \in Socks |-> IF s \in new THEN "connecting" ELSE sock[s]]
              /\ timer' = FALSE /\ attempt' = n /\ status' = "connecting" /\ UNCHANGED terminal
      BY <2>1, <2>2 DEF OpenSocket
    <3>2. IsFiniteSet(new)
      BY ConstantsOK, FS_Subset
    <3>3. new = {ws'}
      BY <3>1, <3>2, FS_Singleton
    <3>4. sock' = [sock EXCEPT ![ws'] = "connecting"]
      BY <3>1, <3>3 DEF TypeOK
    <3> QED
      BY <1>3, <2>1, <3>1, <3>4
  <2>3. CASE ~goodUrl
    <3>1. Schedule(FALSE, n, "connecting") /\ UNCHANGED <<ws, sock>>
      BY <2>1, <2>3 DEF OpenSocket
    <3>2. CASE n >= MaxAttempts
      BY <1>3, <2>1, <3>1, <3>2 DEF Schedule
    <3>3. CASE ~(n >= MaxAttempts)
      <4>1. Backoff(n + 1)
        BY <3>3, ConstantsOK DEF Backoff
      <4> QED
        BY <1>3, <2>1, <3>1, <3>3, <4>1 DEF Schedule
    <3> QED
      BY <3>2, <3>3
  <2> QED
    BY <2>2, <2>3
<1> QED
  BY <1>1, <1>2, <1>3

\* doConnect as the timer and the page call it.
LEMMA DoConnectKeeps ==
    ASSUME IInv, NEW n, Backoff(n), DoConnect(FALSE, n),
           ~closed, terminal => overlap,
           hidden' \in BOOLEAN, IsOpen(ws) => hidden' = hidden,
           UNCHANGED <<auth, goodUrl, closed, refs, pending, heard, messages>>
    PROVE  IInv'
<1> USE DEF IInv
<1>1. UNCHANGED <<queue, given, dropped, wire>>
  BY DEF messages
<1>2. \/ /\ ws # NoSock /\ sock[ws] \in {"connecting", "open"}
         /\ timer' = FALSE /\ attempt' = n
         /\ UNCHANGED <<ws, sock, waiting, overlap, status, terminal>>
      \/ /\ ~(ws # NoSock /\ sock[ws] \in {"connecting", "open"})
         /\ overlap' = (overlap \/ Live # {} \/ waiting > 0)
         /\ \/ /\ auth /\ waiting < MaxWaiting /\ waiting' = waiting + 1
               /\ timer' = FALSE /\ attempt' = n /\ status' = "connecting"
               /\ UNCHANGED <<ws, sock, terminal>>
            \/ /\ ~auth /\ UNCHANGED <<waiting, terminal>>
               /\ timer' = FALSE /\ attempt' = n /\ status' = "connecting"
               /\ ws' \in Socks \ Live /\ sock' = [sock EXCEPT ![ws'] = "connecting"]
            \/ /\ ~auth /\ UNCHANGED <<ws, sock, waiting>>
               /\ \/ /\ terminal' = TRUE /\ status' = "failed"
                     /\ timer' = FALSE /\ attempt' = n
                  \/ /\ timer' = TRUE /\ attempt' = n + 1 /\ Backoff(n + 1)
                     /\ status' = "connecting" /\ UNCHANGED terminal
  BY DoConnectStep
<1> DEFINE Enough == ws # NoSock /\ sock[ws] \in {"connecting", "open"}
<1>3. TypeOK'
  <2>1. /\ waiting' \in 0..MaxWaiting /\ (waiting' > 0 => auth')
        /\ overlap' \in BOOLEAN /\ terminal' \in BOOLEAN /\ timer' \in BOOLEAN
        /\ status' \in {"connecting", "open", "suspended", "disconnected", "failed"}
        /\ closed' \in BOOLEAN
    <3>1. waiting \in 0..MaxWaiting /\ (waiting > 0 => auth) /\ MaxWaiting \in Nat
      BY ConstantsOK DEF TypeOK
    <3>2. waiting' \in 0..MaxWaiting /\ (waiting' > 0 => auth')
      BY <1>2, <3>1
    <3>3. status' \in {status, "connecting", "failed"} /\ timer' \in {TRUE, FALSE}
      BY <1>2
    <3>4. overlap' \in BOOLEAN /\ terminal' \in BOOLEAN /\ closed' \in BOOLEAN
      BY <1>2 DEF TypeOK
    <3> QED
      BY <3>2, <3>3, <3>4 DEF TypeOK
  <2>2. attempt' \in Nat /\ (attempt' <= MaxAttempts \/ attempt' = ThrottleJump)
    BY <1>2 DEF Backoff
  <2>3. /\ sock' \in [Socks -> {"none", "connecting", "open", "closing"}]
        /\ ws' \in Live' \cup {NoSock}
    <3>1. CASE UNCHANGED <<ws, sock>>
      BY <3>1 DEF TypeOK, Live
    <3>2. CASE ws' \in Socks \ Live /\ sock' = [sock EXCEPT ![ws'] = "connecting"]
      BY <3>2 DEF TypeOK, Live
    <3> QED
      BY <1>2, <3>1, <3>2
  <2> QED
    BY <1>1, <2>1, <2>2, <2>3, RestTyped DEF TypeOK
<1>4. NeverStranded' /\ ClosedIsOver'
  <2>1. timer' \/ terminal' \/ waiting' > 0 \/ ws' # NoSock
    BY <1>2, ConstantsOK DEF TypeOK
  <2> QED
    BY <2>1 DEF NeverStranded, ClosedIsOver
<1>5. IsOpen(ws)' => Enough /\ UNCHANGED <<ws, sock>> /\ IsOpen(ws)
  <2>1. CASE UNCHANGED <<ws, sock>>
    BY <2>1 DEF IsOpen
  <2>2. CASE ws' \in Socks \ Live /\ sock' = [sock EXCEPT ![ws'] = "connecting"]
    BY <2>2 DEF IsOpen, TypeOK
  <2> QED
    BY <1>2, <2>1, <2>2
<1>6. overlap => overlap'
  BY <1>2
<1>7. Resubscribed' /\ QueueKept' /\ OpenIsFlushed'
  BY <1>5, <1>6, MessagesStay, SubscriptionsStay
<1>8. OneAttempt' /\ StatusIsTrue'
  <2>1. CASE Enough
    <3>1. OneAttempt'
      BY <1>2, <2>1 DEF OneAttempt, Live
    <3>2. StatusIsTrue'
      BY <1>2, <2>1 DEF StatusIsTrue, IsOpen
    <3> QED
      BY <3>1, <3>2
  <2>2. CASE ~Enough /\ ~overlap'
    <3>1. Live = {} /\ waiting = 0 /\ ~overlap /\ ~terminal /\ ws = NoSock
      <4>1. Live = {} /\ ~(waiting > 0) /\ ~overlap
        BY <1>2, <2>2
      <4>2. waiting \in Nat
        BY ConstantsOK DEF TypeOK
      <4> QED
        BY <4>1, <4>2 DEF TypeOK
    <3>2. CASE auth
      <4>1. /\ waiting' = 1 /\ timer' = FALSE /\ status' = "connecting"
            /\ ws' = NoSock /\ sock' = sock /\ terminal' = terminal
        BY <1>2, <2>2, <3>1, <3>2
      <4>2. Live' = {}
        BY <3>1, <4>1 DEF Live
      <4> QED
        BY <3>1, <4>1, <4>2 DEF OneAttempt, StatusIsTrue, IsOpen
    <3>3. CASE ~auth /\ ws' \in Socks \ Live
      <4>1. /\ waiting' = 0 /\ timer' = FALSE /\ status' = "connecting"
            /\ sock' = [sock EXCEPT ![ws'] = "connecting"] /\ terminal' = terminal
        BY <1>2, <2>2, <3>1, <3>3, ConstantsOK
      <4>2. Live' = {ws'} /\ sock'[ws'] = "connecting"
        BY <3>1, <3>3, <4>1 DEF Live, TypeOK
      <4> QED
        BY <3>1, <4>1, <4>2 DEF OneAttempt, StatusIsTrue, IsOpen
    <3>4. CASE ~auth /\ ws' \notin Socks \ Live
      <4>1. /\ waiting' = 0 /\ ws' = NoSock /\ sock' = sock
            /\ \/ terminal' = TRUE /\ status' = "failed" /\ timer' = FALSE
               \/ timer' = TRUE /\ status' = "connecting" /\ terminal' = terminal
        BY <1>2, <2>2, <3>1, <3>4
      <4>2. Live' = {}
        BY <3>1, <4>1 DEF Live
      <4> QED
        BY <3>1, <4>1, <4>2 DEF OneAttempt, StatusIsTrue, IsOpen
    <3> QED
      BY <3>2, <3>3, <3>4
  <2>3. CASE overlap'
    BY <2>3 DEF OneAttempt, StatusIsTrue
  <2> QED
    BY <2>1, <2>2, <2>3
<1> QED
  BY <1>3, <1>4, <1>7, <1>8

LEMMA TimerFiresKeeps == ASSUME IInv, TimerFires PROVE IInv'
<1>1. /\ timer /\ DoConnect(FALSE, attempt)
      /\ UNCHANGED <<auth, goodUrl, closed, hidden, refs, pending, heard, messages>>
  BY DEF TimerFires, page
<1>2. ~closed /\ (terminal => overlap)
  BY <1>1 DEF IInv, ClosedIsOver, OneAttempt
<1>3. Backoff(attempt) /\ hidden' \in BOOLEAN
  BY <1>1 DEF IInv, TypeOK, Backoff
<1> QED
  BY <1>1, <1>2, <1>3, DoConnectKeeps

LEMMA ShowKeeps == ASSUME IInv, Show PROVE IInv'
<1> USE DEF IInv
<1>1. /\ hidden' = FALSE
      /\ UNCHANGED <<auth, goodUrl, closed, refs, pending, heard, messages>>
  BY DEF Show
<1>2. CASE ~(closed \/ terminal) /\ ~IsOpen(ws)
  <2>1. DoConnect(FALSE, 0)
    BY <1>2 DEF Show
  <2>2. Backoff(0)
    BY ConstantsOK DEF Backoff
  <2> QED
    BY <1>1, <1>2, <2>1, <2>2, DoConnectKeeps
<1>3. CASE closed \/ terminal \/ IsOpen(ws)
  <2>1. /\ UNCHANGED <<ws, sock, overlap, waiting, timer, attempt, terminal>>
        /\ IF closed \/ terminal THEN status' = status ELSE status' = "open"
    BY <1>3 DEF Show
  <2>2. UNCHANGED <<queue, given, dropped, wire>>
    BY <1>1 DEF messages
  <2>3. TypeOK'
    <3>1. status' \in {"connecting", "open", "suspended", "disconnected", "failed"}
      BY <2>1 DEF TypeOK
    <3> QED
      BY <1>1, <2>1, <2>2, <3>1 DEF TypeOK, Live
  <2>4. NeverStranded' /\ ClosedIsOver' /\ OneAttempt'
    BY <1>1, <2>1 DEF NeverStranded, ClosedIsOver, OneAttempt, Live
  <2>5. Resubscribed' /\ QueueKept' /\ OpenIsFlushed'
    BY <1>1, <2>1, MessagesStay, SubscriptionsStay DEF IsOpen
  <2>6. StatusIsTrue'
    <3>1. CASE (closed \/ terminal) /\ ~overlap
      <4>1. ~IsOpen(ws)
        BY <3>1 DEF ClosedIsOver, OneAttempt, IsOpen, TypeOK, Live
      <4> QED
        BY <1>1, <2>1, <3>1, <4>1 DEF StatusIsTrue, IsOpen
    <3>2. CASE ~(closed \/ terminal)
      BY <1>1, <1>3, <2>1, <3>2 DEF StatusIsTrue, IsOpen
    <3>3. CASE overlap
      BY <2>1, <3>3 DEF StatusIsTrue
    <3> QED
      BY <3>1, <3>2, <3>3
  <2> QED
    BY <2>3, <2>4, <2>5, <2>6
<1> QED
  BY <1>2, <1>3

\* What the end of the preflight does to those who waited for it.
LEMMA AuthStep ==
    ASSUME IInv, NEW outcome \in {"ok", "transient", "unauthorized"}, AuthSettles(outcome)
    PROVE  /\ waiting > 0 /\ waiting' = 0
           /\ UNCHANGED <<auth, goodUrl, closed, overlap, page, messages>>
           /\ \/ /\ closed \/ terminal
                 /\ UNCHANGED <<ws, sock, timer, attempt, terminal, status>>
              \/ /\ ~closed /\ ~terminal /\ UNCHANGED <<timer, attempt, terminal, status>>
                 /\ \E new \in SUBSET (Socks \ Live) :
                       /\ Cardinality(new) = waiting /\ ws' \in new
                       /\ sock' = [s \in Socks |-> IF s \in new THEN "connecting" ELSE sock[s]]
              \/ /\ ~closed /\ ~terminal /\ UNCHANGED <<ws, sock>> /\ Backoff(attempt')
                 /\ \/ terminal' = TRUE /\ status' = "failed" /\ timer' = timer
                    \/ /\ timer' = TRUE /\ status' \in {status, "disconnected"}
                       /\ UNCHANGED terminal
<1> USE DEF IInv
<1>1. /\ waiting > 0 /\ waiting' = 0
      /\ UNCHANGED <<auth, goodUrl, closed, overlap, page, messages>>
  BY DEF AuthSettles
<1>2. CASE closed \/ terminal
  BY <1>1, <1>2 DEF AuthSettles
<1>3. Backoff(attempt)
  BY DEF TypeOK, Backoff
<1>4. ASSUME NEW st, Schedule(timer, attempt, st)
      PROVE  /\ Backoff(attempt')
             /\ \/ terminal' = TRUE /\ status' = "failed" /\ timer' = timer
                \/ timer' = TRUE /\ status' = st /\ UNCHANGED terminal
  <2>1. ~(attempt >= MaxAttempts) => Backoff(attempt + 1)
    BY <1>3, ConstantsOK DEF Backoff
  <2> QED
    BY <1>3, <1>4, <2>1 DEF Schedule, TypeOK
<1>5. CASE ~closed /\ ~terminal /\ outcome = "ok"
  <2>1. OpenSocket(waiting, timer, attempt, status)
    BY <1>5 DEF AuthSettles
  <2>2. CASE goodUrl
    BY <1>1, <1>5, <2>1, <2>2 DEF OpenSocket
  <2>3. CASE ~goodUrl
    <3>1. Schedule(timer, attempt, status) /\ UNCHANGED <<ws, sock>>
      BY <2>1, <2>3 DEF OpenSocket
    <3> QED
      BY <1>1, <1>4, <1>5, <3>1
  <2> QED
    BY <2>2, <2>3
<1>6. CASE ~closed /\ ~terminal /\ outcome = "transient"
  <2>1. Schedule(timer, attempt, "disconnected") /\ UNCHANGED <<ws, sock>>
    BY <1>6 DEF AuthSettles
  <2> QED
    BY <1>1, <1>4, <1>6, <2>1
<1>7. CASE ~closed /\ ~terminal /\ outcome = "unauthorized"
  BY <1>1, <1>3, <1>7 DEF AuthSettles
<1> QED
  BY <1>2, <1>5, <1>6, <1>7

LEMMA AuthSettlesKeeps ==
    ASSUME IInv, NEW outcome \in {"ok", "transient", "unauthorized"}, AuthSettles(outcome)
    PROVE  IInv'
<1> USE DEF IInv
<1>1. /\ waiting > 0 /\ waiting' = 0
      /\ UNCHANGED <<auth, goodUrl, closed, overlap, hidden, refs, pending, heard, messages>>
      /\ UNCHANGED <<queue, given, dropped, wire>>
  BY AuthStep DEF page, messages
<1>2. ~overlap => Live = {} /\ waiting = 1 /\ ~timer /\ ws = NoSock /\ ~terminal
  BY <1>1, ConstantsOK DEF OneAttempt, TypeOK
<1>3. CASE (closed \/ terminal) /\ UNCHANGED <<ws, sock, timer, attempt, terminal, status>>
  <2>1. TypeOK'
    BY <1>1, <1>3, ConstantsOK DEF TypeOK, Live
  <2>2. NeverStranded' /\ ClosedIsOver' /\ OneAttempt' /\ StatusIsTrue'
    BY <1>1, <1>2, <1>3 DEF NeverStranded, ClosedIsOver, OneAttempt, StatusIsTrue, IsOpen, Live
  <2>3. Resubscribed' /\ QueueKept' /\ OpenIsFlushed'
    BY <1>1, <1>3, MessagesStay, SubscriptionsStay DEF IsOpen
  <2> QED
    BY <2>1, <2>2, <2>3
<1>4. ASSUME ~closed, ~terminal, UNCHANGED <<timer, attempt, terminal, status>>,
             NEW new \in SUBSET (Socks \ Live), Cardinality(new) = waiting, ws' \in new,
             sock' = [s \in Socks |-> IF s \in new THEN "connecting" ELSE sock[s]]
      PROVE  IInv'
  <2>1. /\ ws' \in Socks /\ sock'[ws'] = "connecting" /\ ws' # NoSock
        /\ Live' = Live \cup new
    BY <1>4, ConstantsOK DEF Live
  <2>2. TypeOK'
    <3>1. sock' \in [Socks -> {"none", "connecting", "open", "closing"}]
      BY <1>4 DEF TypeOK
    <3> QED
      BY <1>1, <1>4, <2>1, <3>1, ConstantsOK DEF TypeOK
  <2>3. ~IsOpen(ws)'
    BY <2>1 DEF IsOpen
  <2>4. Resubscribed' /\ QueueKept' /\ OpenIsFlushed'
    BY <1>1, <2>3, MessagesStay, SubscriptionsStay
  <2>5. NeverStranded' /\ ClosedIsOver'
    BY <1>1, <1>4, <2>1 DEF NeverStranded, ClosedIsOver
  <2>6. OneAttempt' /\ StatusIsTrue'
    <3>1. CASE overlap
      BY <1>1, <3>1 DEF OneAttempt, StatusIsTrue
    <3>2. CASE ~overlap
      <4>1. IsFiniteSet(new)
        BY ConstantsOK, FS_Subset
      <4>2. new = {ws'}
        BY <1>2, <1>4, <3>2, <4>1, FS_Singleton
      <4>3. Live' = {ws'}
        BY <1>2, <2>1, <3>2, <4>2
      <4>4. OneAttempt'
        BY <1>1, <1>2, <1>4, <3>2, <4>3 DEF OneAttempt
      <4>5. status \notin {"open", "suspended", "failed"}
        BY <1>2, <1>4, <3>2 DEF StatusIsTrue
      <4> QED
        BY <1>1, <1>4, <2>3, <4>4, <4>5 DEF StatusIsTrue
    <3> QED
      BY <3>1, <3>2
  <2> QED
    BY <2>2, <2>4, <2>5, <2>6
<1>5. ASSUME ~closed, ~terminal, UNCHANGED <<ws, sock>>, Backoff(attempt'),
             \/ terminal' = TRUE /\ status' = "failed" /\ timer' = timer
             \/ /\ timer' = TRUE /\ status' \in {status, "disconnected"}
                /\ UNCHANGED terminal
      PROVE  IInv'
  <2>1. TypeOK'
    <3>1. /\ timer' \in BOOLEAN /\ terminal' \in BOOLEAN
          /\ status' \in {"connecting", "open", "suspended", "disconnected", "failed"}
      BY <1>5 DEF TypeOK
    <3> QED
      BY <1>1, <1>5, <3>1, ConstantsOK DEF TypeOK, Live, Backoff
  <2>2. NeverStranded' /\ ClosedIsOver'
    BY <1>1, <1>5 DEF NeverStranded, ClosedIsOver
  <2>3. Resubscribed' /\ QueueKept' /\ OpenIsFlushed'
    BY <1>1, <1>5, MessagesStay, SubscriptionsStay DEF IsOpen
  <2>4. OneAttempt' /\ StatusIsTrue'
    <3>1. CASE overlap
      BY <1>1, <3>1 DEF OneAttempt, StatusIsTrue
    <3>2. CASE ~overlap
      <4>1. Live' = {} /\ ws' = NoSock /\ waiting' = 0
        BY <1>1, <1>2, <1>5, <3>2 DEF Live
      <4>2. OneAttempt'
        BY <1>2, <1>5, <3>2, <4>1 DEF OneAttempt
      <4>3. status \notin {"open", "suspended", "failed"}
        BY <1>2, <1>5, <3>2 DEF StatusIsTrue
      <4> QED
        BY <1>1, <1>5, <4>1, <4>2, <4>3 DEF StatusIsTrue, IsOpen
    <3> QED
      BY <3>1, <3>2
  <2> QED
    BY <2>1, <2>2, <2>3, <2>4
<1> QED
  BY <1>3, <1>4, <1>5, AuthStep

\* Before attempts overlap a socket that comes to be open is ws, of a
\* connection that nobody has ended.
LEMMA OpeningIsCurrent ==
    ASSUME IInv, NEW s \in Socks, sock[s] = "connecting", ~overlap
    PROVE  ws = s /\ ~closed /\ ~terminal
<1>1. s \in Live /\ s # NoSock
  BY ConstantsOK DEF Live
<1> QED
  BY <1>1 DEF IInv, OneAttempt, ClosedIsOver

LEMMA OpenKeeps == ASSUME IInv, NEW s \in Socks, Open(s) PROVE IInv'
<1> USE DEF IInv
<1>1. /\ sock[s] = "connecting" /\ sock' = [sock EXCEPT ![s] = "open"]
      /\ attempt' = 0 /\ status' = IF hidden THEN "suspended" ELSE "open"
      /\ UNCHANGED <<auth, goodUrl, ws, waiting, timer, closed, terminal, hidden, refs, pending,
                     overlap, given, dropped>>
  BY DEF Open, OpenStatus
<1>2. s # NoSock /\ Live' = Live /\ s \in Live
  BY <1>1, ConstantsOK DEF Live, TypeOK
<1>3. \/ /\ ws \notin {s, NoSock} /\ sock[ws] = "connecting"
         /\ UNCHANGED <<heard, wire, queue>>
      \/ /\ ~(ws \notin {s, NoSock} /\ sock[ws] = "connecting")
         /\ queue' = <<>>
         /\ heard' = IF ws = s \/ IsOpen(ws) THEN [heard EXCEPT ![ws] = @ \cup Subscribed]
                     ELSE heard
         /\ wire' = IF ws = s \/ IsOpen(ws) THEN wire \o queue ELSE wire
  BY DEF Open, FlushInto
<1>4. TypeOK'
  <2>1. sock' \in [Socks -> {"none", "connecting", "open", "closing"}]
    BY <1>1 DEF TypeOK
  <2>2. status' \in {"connecting", "open", "suspended", "disconnected", "failed"}
    BY <1>1
  <2>3. heard' \in [Socks -> SUBSET Topics]
    <3>1. Subscribed \subseteq Topics
      BY DEF Subscribed
    <3> QED
      BY <1>3, <3>1 DEF TypeOK
  <2>4. queue' \in Seq(1..given) /\ Len(queue') <= QueueMax /\ wire' \in Seq(1..given)
    <3>1. queue' = queue \/ queue' = <<>>
      BY <1>3
    <3>2. <<>> \in Seq(1..given) /\ Len(<<>>) <= QueueMax
      BY ConstantsOK
    <3>3. wire' = wire \/ wire' = wire \o queue
      BY <1>3
    <3>4. wire \o queue \in Seq(1..given)
      BY ConcatProperties DEF TypeOK
    <3> QED
      BY <3>1, <3>2, <3>3, <3>4 DEF TypeOK
  <2>5. attempt' \in Nat /\ attempt' <= MaxAttempts
    BY <1>1, ConstantsOK
  <2> QED
    BY <1>1, <1>2, <2>1, <2>2, <2>3, <2>4, <2>5 DEF TypeOK
<1>5. NeverStranded' /\ ClosedIsOver'
  BY <1>1 DEF NeverStranded, ClosedIsOver
<1>6. Resubscribed'
  <2> SUFFICES ASSUME IsOpen(ws)' PROVE Subscribed \subseteq heard'[ws] \cup pending
    BY <1>1 DEF Resubscribed, Subscribed
  <2>1. ws \in Socks /\ (ws = s \/ IsOpen(ws))
    BY <1>1 DEF IsOpen, TypeOK, Live
  <2>2. CASE heard' = [heard EXCEPT ![ws] = @ \cup Subscribed]
    BY <2>1, <2>2 DEF TypeOK
  <2>3. CASE ws \notin {s, NoSock} /\ sock[ws] = "connecting"
    BY <1>1, <2>1, <2>3 DEF IsOpen
  <2> QED
    BY <1>3, <2>1, <2>2, <2>3
<1>7. OneAttempt' /\ StatusIsTrue' /\ OpenIsFlushed' /\ QueueKept'
  <2>1. CASE overlap
    BY <1>1, <2>1 DEF OneAttempt, StatusIsTrue, OpenIsFlushed, QueueKept
  <2>2. CASE ~overlap
    <3>1. ws = s /\ ~closed /\ ~terminal
      BY <1>1, <2>2, OpeningIsCurrent
    <3>2. queue' = <<>> /\ wire' = wire \o queue
      BY <1>3, <3>1
    <3>3. OneAttempt'
      BY <1>1, <1>2, <2>2, <3>1 DEF OneAttempt
    <3>4. StatusIsTrue'
      BY <1>1, <1>2, <3>1 DEF StatusIsTrue, IsOpen, TypeOK
    <3>5. wire' \o queue' = wire \o queue
      BY <1>4, <3>2, ConcatEmptySeq DEF TypeOK
    <3>6. QueueKept'
      BY <1>1, <2>2, <3>5 DEF QueueKept
    <3> QED
      BY <3>2, <3>3, <3>4, <3>6 DEF OpenIsFlushed
  <2> QED
    BY <2>1, <2>2
<1> QED
  BY <1>4, <1>5, <1>6, <1>7

LEMMA BeginCloseKeeps == ASSUME IInv, NEW s \in Socks, BeginClose(s) PROVE IInv'
<1> USE DEF IInv
<1>1. /\ sock[s] = "open" /\ sock' = [sock EXCEPT ![s] = "closing"]
      /\ UNCHANGED <<auth, goodUrl, ws, waiting, timer, attempt, closed, terminal, status, overlap,
                     hidden, refs, pending, heard, queue, given, dropped, wire, messages>>
  BY DEF BeginClose, page, messages
<1>2. Live' = Live /\ sock'[s] = "closing" /\ \A t \in Socks : t # s => sock'[t] = sock[t]
  BY <1>1 DEF Live, TypeOK
<1>3. TypeOK'
  <2>1. sock' \in [Socks -> {"none", "connecting", "open", "closing"}]
    BY <1>1 DEF TypeOK
  <2> QED
    BY <1>1, <1>2, <2>1 DEF TypeOK
<1>4. ws # NoSock => ws \in Socks
  BY DEF TypeOK, Live
<1>5. IsOpen(ws)' => IsOpen(ws) /\ ws' = ws
  BY <1>1, <1>2, <1>4 DEF IsOpen
<1>6. Resubscribed' /\ QueueKept' /\ OpenIsFlushed'
  BY <1>1, <1>5, MessagesStay, SubscriptionsStay
<1>7. NeverStranded' /\ ClosedIsOver'
  BY <1>1 DEF NeverStranded, ClosedIsOver
<1>8. OneAttempt'
  BY <1>1, <1>2 DEF OneAttempt, Live
<1>9. StatusIsTrue'
  BY <1>1, <1>2, <1>4, <1>5 DEF StatusIsTrue
<1> QED
  BY <1>3, <1>6, <1>7, <1>8, <1>9

\* The backoff after a close event.
LEMMA OnCloseStep ==
    ASSUME IInv, NEW s \in Socks, NEW class \in {"RETRY", "THROTTLE", "TERMINAL"}, OnClose(s, class)
    PROVE  \/ /\ closed /\ status' = "failed" /\ UNCHANGED <<timer, attempt, terminal>>
           \/ /\ ~closed /\ terminal' = TRUE /\ status' = "failed" /\ timer' = timer
              /\ Backoff(attempt')
           \/ /\ ~closed /\ timer' = TRUE /\ status' = "disconnected" /\ UNCHANGED terminal
              /\ Backoff(attempt')
<1> USE DEF IInv
<1> DEFINE n == IF class = "THROTTLE" /\ attempt < ThrottleJump THEN ThrottleJump ELSE attempt
<1>1. Backoff(attempt) /\ Backoff(n)
  BY ConstantsOK DEF TypeOK, Backoff
<1>2. CASE closed
  BY <1>2 DEF OnClose
<1>3. CASE ~closed /\ class = "TERMINAL"
  BY <1>1, <1>3 DEF OnClose
<1>4. CASE ~closed /\ class # "TERMINAL"
  <2>1. Schedule(timer, n, "disconnected")
    BY <1>4 DEF OnClose
  <2>2. ~(n >= MaxAttempts) => Backoff(n + 1)
    BY <1>1, ConstantsOK DEF Backoff
  <2> HIDE DEF n
  <2> QED
    BY <1>1, <1>4, <2>1, <2>2 DEF Schedule, TypeOK
<1> QED
  BY <1>2, <1>3, <1>4

LEMMA OnCloseKeeps ==
    ASSUME IInv, NEW s \in Socks, NEW class \in {"RETRY", "THROTTLE", "TERMINAL"}, OnClose(s, class)
    PROVE  IInv'
<1> USE DEF IInv
<1>1. /\ s \in Live /\ sock' = [sock EXCEPT ![s] = "none"]
      /\ heard' = [heard EXCEPT ![s] = {}] /\ ws' = NoSock
      /\ UNCHANGED <<auth, goodUrl, waiting, closed, hidden, refs, pending, overlap,
                     queue, given, dropped, wire, messages>>
  BY DEF OnClose, messages
<1>2. \/ /\ closed /\ status' = "failed" /\ UNCHANGED <<timer, attempt, terminal>>
      \/ /\ ~closed /\ terminal' = TRUE /\ status' = "failed" /\ timer' = timer
         /\ Backoff(attempt')
      \/ /\ ~closed /\ timer' = TRUE /\ status' = "disconnected" /\ UNCHANGED terminal
         /\ Backoff(attempt')
  BY OnCloseStep
<1>3. ~IsOpen(ws)'
  BY <1>1 DEF IsOpen
<1>4. Live' = Live \ {s}
  BY <1>1 DEF Live, TypeOK
<1>5. TypeOK'
  <2>1. /\ sock' \in [Socks -> {"none", "connecting", "open", "closing"}]
        /\ heard' \in [Socks -> SUBSET Topics]
    BY <1>1 DEF TypeOK
  <2>2. /\ timer' \in BOOLEAN /\ terminal' \in BOOLEAN
        /\ status' \in {"connecting", "open", "suspended", "disconnected", "failed"}
    BY <1>2 DEF TypeOK
  <2>3. attempt' \in Nat /\ (attempt' <= MaxAttempts \/ attempt' = ThrottleJump)
    BY <1>2 DEF TypeOK, Backoff
  <2> QED
    BY <1>1, <2>1, <2>2, <2>3 DEF TypeOK
<1>6. NeverStranded'
  BY <1>1, <1>2 DEF NeverStranded
<1>7. ClosedIsOver'
  BY <1>1, <1>2 DEF ClosedIsOver
<1>8. Resubscribed' /\ QueueKept' /\ OpenIsFlushed'
  BY <1>1, <1>3, MessagesStay, SubscriptionsStay
<1>9. OneAttempt' /\ StatusIsTrue'
  <2>1. CASE overlap
    BY <1>1, <2>1 DEF OneAttempt, StatusIsTrue
  <2>2. CASE ~overlap /\ closed
    <3>1. ws = NoSock /\ ~terminal
      BY <1>1, <2>2 DEF ClosedIsOver, OneAttempt
    <3>2. /\ \A t \in Live' : closed' /\ sock'[t] = "closing"
          /\ ~timer /\ waiting <= 1 /\ ~(waiting = 1)
      BY <1>1, <1>4, <2>2, <3>1, ConstantsOK DEF OneAttempt, ClosedIsOver, TypeOK, Live
    <3> QED
      BY <1>1, <1>2, <2>2, <3>1, <3>2 DEF OneAttempt, StatusIsTrue, IsOpen
  <2>3. CASE ~overlap /\ ~closed
    <3>1. Live' = {} /\ ~timer /\ waiting # 1 /\ waiting <= 1 /\ waiting \in Nat
      BY <1>1, <1>4, <2>3, ConstantsOK DEF OneAttempt, TypeOK
    <3>2. OneAttempt'
      BY <1>1, <1>2, <2>3, <3>1 DEF OneAttempt
    <3>3. ~terminal
      BY <1>1, <2>3 DEF OneAttempt
    <3>4. StatusIsTrue'
      BY <1>1, <1>2, <1>3, <2>3, <3>3 DEF StatusIsTrue, TypeOK
    <3> QED
      BY <3>2, <3>4
  <2> QED
    BY <2>1, <2>2, <2>3
<1> QED
  BY <1>5, <1>6, <1>7, <1>8, <1>9

LEMMA HideKeeps == ASSUME IInv, Hide PROVE IInv'
<1> USE DEF IInv
<1>1. /\ hidden' = TRUE /\ status' = IF ~closed /\ IsOpen(ws) THEN "suspended" ELSE status
      /\ UNCHANGED <<auth, goodUrl, sock, ws, waiting, timer, attempt, closed, terminal, overlap,
                     refs, pending, heard, queue, given, dropped, wire, messages>>
  BY DEF Hide, messages
<1>2. TypeOK'
  <2>1. status' \in {"connecting", "open", "suspended", "disconnected", "failed"}
    BY <1>1 DEF TypeOK
  <2> QED
    BY <1>1, <2>1 DEF TypeOK, Live
<1>3. Resubscribed' /\ QueueKept' /\ OpenIsFlushed'
  BY <1>1, MessagesStay, SubscriptionsStay DEF IsOpen
<1>4. NeverStranded' /\ ClosedIsOver' /\ OneAttempt'
  BY <1>1 DEF NeverStranded, ClosedIsOver, OneAttempt, Live
<1>5. StatusIsTrue'
  <2>1. IsOpen(ws) => ~closed
    BY DEF ClosedIsOver, IsOpen
  <2>2. IsOpen(ws) => overlap \/ ~terminal
    BY DEF OneAttempt, IsOpen, TypeOK, Live
  <2>3. CASE IsOpen(ws)
    BY <1>1, <2>1, <2>2, <2>3 DEF StatusIsTrue, IsOpen
  <2>4. CASE ~IsOpen(ws)
    BY <1>1, <2>4 DEF StatusIsTrue, IsOpen
  <2> QED
    BY <2>3, <2>4
<1> QED
  BY <1>2, <1>3, <1>4, <1>5

LEMMA CloseKeeps == ASSUME IInv, Close PROVE IInv'
<1> USE DEF IInv
<1>1. /\ ~closed /\ closed' = TRUE /\ status' = "failed" /\ ws' = NoSock /\ timer' = FALSE
      /\ sock' = [s \in Socks |-> IF s = ws THEN "closing" ELSE sock[s]]
      /\ UNCHANGED <<auth, goodUrl, waiting, attempt, terminal, overlap, hidden,
                     refs, pending, heard, queue, given, dropped, wire, messages>>
  BY DEF Close, page, messages
<1>2. Live' = Live /\ ~IsOpen(ws)'
  BY <1>1, ConstantsOK DEF Live, IsOpen, TypeOK
<1>3. TypeOK'
  <2>1. sock' \in [Socks -> {"none", "connecting", "open", "closing"}]
    BY <1>1 DEF TypeOK
  <2> QED
    BY <1>1, <1>2, <2>1 DEF TypeOK
<1>4. Resubscribed' /\ QueueKept' /\ OpenIsFlushed'
  BY <1>1, <1>2, MessagesStay, SubscriptionsStay
<1>5. NeverStranded' /\ ClosedIsOver'
  BY <1>1 DEF NeverStranded, ClosedIsOver
<1>6. OneAttempt'
  BY <1>1, <1>2 DEF OneAttempt, Live
<1>7. StatusIsTrue'
  BY <1>1, <1>2 DEF StatusIsTrue
<1> QED
  BY <1>3, <1>4, <1>5, <1>6, <1>7

\* A step of the page's subscriptions changes what is heard, and nothing else.
LEMMA PageKeeps ==
    ASSUME IInv, Resubscribed', refs' \in [Topics -> 0..MaxRefs], pending' \subseteq Topics,
           heard' \in [Socks -> SUBSET Topics],
           UNCHANGED <<auth, goodUrl, sock, ws, waiting, timer, attempt, closed, terminal, status,
                       overlap, hidden, messages>>
    PROVE  IInv'
<1> USE DEF IInv
<1>1. UNCHANGED <<queue, given, dropped, wire>>
  BY DEF messages
<1>2. TypeOK'
  BY <1>1 DEF TypeOK, Live
<1>3. QueueKept' /\ OpenIsFlushed'
  BY MessagesStay DEF IsOpen
<1>4. NeverStranded' /\ ClosedIsOver' /\ OneAttempt' /\ StatusIsTrue'
  BY DEF NeverStranded, ClosedIsOver, OneAttempt, StatusIsTrue, IsOpen, Live
<1> QED
  BY <1>2, <1>3, <1>4

LEMMA SubscribeKeeps == ASSUME IInv, NEW t \in Topics, Subscribe(t) PROVE IInv'
<1>1. /\ refs[t] < MaxRefs /\ refs' = [refs EXCEPT ![t] = @ + 1]
      /\ pending' = IF refs[t] = 0 /\ IsOpen(ws) THEN pending \cup {t} ELSE pending
      /\ UNCHANGED <<auth, goodUrl, sock, ws, waiting, timer, attempt, closed, terminal, status,
                     overlap, hidden, heard, messages>>
  BY DEF Subscribe
<1>2. refs' \in [Topics -> 0..MaxRefs] /\ pending' \subseteq Topics
  BY <1>1, ConstantsOK DEF IInv, TypeOK
<1>3. Subscribed' \subseteq Subscribed \cup {t} /\ (refs[t] # 0 => Subscribed' \subseteq Subscribed)
  BY <1>1, ConstantsOK DEF IInv, TypeOK, Subscribed
<1>4. Resubscribed'
  BY <1>1, <1>3 DEF IInv, Resubscribed, IsOpen
<1> QED
  BY <1>1, <1>2, <1>4, PageKeeps DEF IInv, TypeOK

LEMMA FlushSubscribesKeeps == ASSUME IInv, FlushSubscribes PROVE IInv'
<1>1. /\ pending' = {}
      /\ heard' = IF IsOpen(ws) THEN [heard EXCEPT ![ws] = @ \cup pending] ELSE heard
      /\ UNCHANGED <<auth, goodUrl, sock, ws, waiting, timer, attempt, closed, terminal, status,
                     overlap, hidden, refs, messages>>
  BY DEF FlushSubscribes
<1>2. heard' \in [Socks -> SUBSET Topics]
  BY <1>1 DEF IInv, TypeOK
<1>3. IsOpen(ws) => ws \in Socks
  BY DEF IInv, TypeOK, Live, IsOpen
<1>4. Resubscribed'
  BY <1>1, <1>3 DEF IInv, Resubscribed, Subscribed, IsOpen, TypeOK
<1> QED
  BY <1>1, <1>2, <1>4, PageKeeps DEF IInv, TypeOK

LEMMA DropKeeps ==
    ASSUME IInv, NEW t \in Topics, NEW left \in 0..MaxRefs, left < refs[t] \/ left = 0, Drop(t, left)
    PROVE  IInv'
<1>1. /\ refs' = [refs EXCEPT ![t] = left]
      /\ heard' = IF left = 0 /\ IsOpen(ws) THEN [heard EXCEPT ![ws] = @ \ {t}] ELSE heard
      /\ UNCHANGED <<auth, goodUrl, sock, ws, waiting, timer, attempt, closed, terminal, status,
                     overlap, hidden, pending, messages>>
  BY DEF Drop
<1>2. heard' \in [Socks -> SUBSET Topics] /\ refs' \in [Topics -> 0..MaxRefs]
  BY <1>1 DEF IInv, TypeOK
<1>3. IsOpen(ws) => ws \in Socks
  BY DEF IInv, TypeOK, Live, IsOpen
<1>4. Subscribed' \subseteq Subscribed /\ (left = 0 => t \notin Subscribed')
  BY <1>1, ConstantsOK DEF IInv, TypeOK, Subscribed
<1>5. Resubscribed'
  <2> SUFFICES ASSUME IsOpen(ws), NEW u \in Subscribed' PROVE u \in heard'[ws] \cup pending'
    BY <1>1 DEF Resubscribed, IsOpen
  <2>1. u \in heard[ws] \cup pending
    BY <1>4 DEF IInv, Resubscribed
  <2>2. left = 0 => u # t
    BY <1>4
  <2> QED
    BY <1>1, <1>3, <2>1, <2>2 DEF IInv, TypeOK
<1> QED
  BY <1>1, <1>2, <1>5, PageKeeps DEF IInv, TypeOK

LEMMA ReleaseKeeps == ASSUME IInv, NEW t \in Topics, Release(t) \/ Unsubscribe(t) PROVE IInv'
<1>1. refs[t] \in 0..MaxRefs /\ MaxRefs \in Nat
  BY ConstantsOK DEF IInv, TypeOK
<1>2. CASE Release(t)
  <2> DEFINE left == IF refs[t] <= 1 THEN 0 ELSE refs[t] - 1
  <2>1. Drop(t, left)
    BY <1>2 DEF Release
  <2>2. left \in 0..MaxRefs /\ (left < refs[t] \/ left = 0)
    BY <1>1
  <2> HIDE DEF left
  <2> QED
    BY <2>1, <2>2, DropKeeps
<1>3. CASE Unsubscribe(t)
  BY <1>1, <1>3, DropKeeps DEF Unsubscribe
<1> QED
  BY <1>2, <1>3

LEMMA SendQueuedKeeps == ASSUME IInv, SendQueued PROVE IInv'
<1> USE DEF IInv
<1> DEFINE full == Len(queue) >= QueueMax
           rest == IF full THEN Tail(queue) ELSE queue
<1>1. /\ given < MaxGiven /\ given' = given + 1
      /\ UNCHANGED <<auth, goodUrl, sock, ws, waiting, timer, attempt, closed, terminal, status,
                     overlap, hidden, refs, pending, heard>>
      /\ IF IsOpen(ws)
         THEN wire' = Append(wire, given + 1) /\ UNCHANGED <<queue, dropped>>
         ELSE /\ queue' = Append(rest, given + 1)
              /\ dropped' = IF full THEN dropped \cup {Head(queue)} ELSE dropped
              /\ UNCHANGED wire
  BY DEF SendQueued, page
<1>2. given \in Nat /\ given + 1 \in 0..MaxGiven /\ QueueMax \in Nat \ {0}
  BY <1>1, ConstantsOK DEF TypeOK
<1>3. /\ queue \in Seq(1..given) /\ wire \in Seq(1..given) /\ dropped \in SUBSET (1..given)
      /\ Len(queue) \in Nat /\ Len(queue) <= QueueMax
  BY DEF TypeOK
<1>4. full => queue # <<>> /\ Tail(queue) \in Seq(1..given) /\ Len(Tail(queue)) = Len(queue) - 1
              /\ Head(queue) \in 1..given
  BY <1>2, <1>3, HeadTailProperties
<1>5. rest \in Seq(1..given) /\ Len(rest) + 1 <= QueueMax
  <2>1. CASE full
    BY <1>2, <1>3, <1>4, <2>1
  <2>2. CASE ~full
    BY <1>2, <1>3, <2>2
  <2> QED
    BY <2>1, <2>2
<1>6. \A q \in Seq(1..given) : /\ q \in Seq(1..given + 1) /\ Append(q, given + 1) \in Seq(1..given + 1)
                               /\ Len(Append(q, given + 1)) = Len(q) + 1
  <2> SUFFICES ASSUME NEW q \in Seq(1..given)
               PROVE  /\ q \in Seq(1..given + 1) /\ Append(q, given + 1) \in Seq(1..given + 1)
                      /\ Len(Append(q, given + 1)) = Len(q) + 1
    OBVIOUS
  <2>1. q \in Seq(1..given + 1)
    BY <1>2, SeqMonotonic
  <2> QED
    BY <1>2, <2>1, AppendProperties
<1> HIDE DEF full, rest
<1>7. TypeOK'
  <2>1. queue' \in Seq(1..given') /\ Len(queue') <= QueueMax /\ wire' \in Seq(1..given')
    BY <1>1, <1>3, <1>5, <1>6
  <2>2. dropped' \subseteq 1..given'
    <3>1. dropped' \subseteq 1..given
      BY <1>1, <1>3, <1>4
    <3> QED
      BY <1>1, <1>2, <3>1
  <2> QED
    BY <1>1, <1>2, <2>1, <2>2 DEF TypeOK, Live
<1>8. QueueKept'
  <2>1. CASE overlap
    BY <1>1, <2>1 DEF QueueKept
  <2>2. CASE ~overlap
    <3>1. Kept(wire \o queue, given, dropped)
      <4>1. wire \o queue \in Seq(1..given)
        BY <1>3
      <4> QED
        BY <1>2, <2>2, <4>1, KeptMeans DEF QueueKept
    <3> SUFFICES Kept(wire' \o queue', given', dropped')
      <4>1. wire' \o queue' \in Seq(1..given') /\ given' \in Nat
        BY <1>1, <1>2, <1>7 DEF TypeOK
      <4> QED
        BY <4>1, KeptMeans DEF QueueKept
    <3>2. CASE IsOpen(ws)
      <4>1. queue = <<>>
        BY <2>2, <3>2 DEF OpenIsFlushed
      <4>2. wire \o queue = wire /\ wire' \o queue' = wire'
        BY <1>1, <1>7, <3>2, <4>1, <1>3, ConcatEmptySeq DEF TypeOK
      <4>3. Kept(wire', given + 1, dropped)
        BY <1>1, <1>2, <1>3, <3>1, <3>2, <4>2, KeptAppend
      <4> QED
        BY <1>1, <3>2, <4>2, <4>3
    <3>3. CASE ~IsOpen(ws)
      <4> DEFINE gone == IF full THEN dropped \cup {Head(queue)} ELSE dropped
      <4>1. Kept(wire \o rest, given, gone)
        BY <1>2, <1>3, <1>4, <3>1, KeptTail DEF rest
      <4>2. gone \in SUBSET (1..given)
        BY <1>3, <1>4
      <4>3. wire' \o queue' = Append(wire \o rest, given + 1)
        <5>1. wire' \o queue' = wire \o Append(rest, given + 1)
          BY <1>1, <3>3
        <5>2. /\ Append(rest, given + 1) = rest \o <<given + 1>>
              /\ Append(wire \o rest, given + 1) = (wire \o rest) \o <<given + 1>>
              /\ wire \in Seq(Nat) /\ rest \in Seq(Nat) /\ <<given + 1>> \in Seq(Nat)
          <6>1. wire \in Seq(Nat) /\ rest \in Seq(Nat)
            BY <1>2, <1>3, <1>5, SeqMonotonic
          <6> QED
            BY <1>2, <6>1, AppendIsConcat, ConcatProperties
        <5> QED
          BY SMTT(30), <5>1, <5>2, ConcatAssociative
      <4>4. Kept(Append(wire \o rest, given + 1), given + 1, gone)
        BY <1>2, <4>1, <4>2, KeptAppend
      <4>5. dropped' = gone
        BY <1>1, <3>3
      <4> HIDE DEF gone
      <4> QED
        BY <1>1, <4>3, <4>4, <4>5
    <3> QED
      BY <3>2, <3>3
  <2> QED
    BY <2>1, <2>2
<1>9. OpenIsFlushed'
  BY <1>1 DEF OpenIsFlushed, IsOpen
<1>10. /\ NeverStranded' /\ ClosedIsOver' /\ OneAttempt' /\ StatusIsTrue' /\ Resubscribed'
  BY <1>1 DEF NeverStranded, ClosedIsOver, OneAttempt, StatusIsTrue, IsOpen, Live, Resubscribed,
              Subscribed
<1> QED
  BY <1>7, <1>8, <1>9, <1>10

LEMMA StepKeeps == IInv /\ [Next]_vars => IInv'
<1> SUFFICES ASSUME IInv, [Next]_vars PROVE IInv'
  OBVIOUS
<1>1. CASE UNCHANGED vars
  <2>1. UNCHANGED <<auth, goodUrl, sock, ws, waiting, timer, attempt, closed, terminal, status,
                    overlap, hidden, refs, pending, heard, messages>>
    BY <1>1 DEF vars, page
  <2>2. Resubscribed'
    BY <2>1 DEF IInv, Resubscribed, Subscribed, IsOpen
  <2> QED
    BY <2>1, <2>2, PageKeeps DEF IInv, TypeOK
<1>2. ASSUME ZombieCheck PROVE IInv'
  <2>1. ws \in Socks
    BY <1>2 DEF ZombieCheck, IInv, TypeOK, Live
  <2> QED
    BY <1>2, <2>1, BeginCloseKeeps DEF ZombieCheck
<1>3. CASE Next
  BY <1>2, <1>3, TimerFiresKeeps, AuthSettlesKeeps, OpenKeeps, BeginCloseKeeps, OnCloseKeeps,
     HideKeeps, ShowKeeps, CloseKeeps, SubscribeKeeps, ReleaseKeeps, FlushSubscribesKeeps,
     SendQueuedKeeps DEF Next
<1> QED
  BY <1>1, <1>3

LEMMA Invariance == Spec => []IInv
BY InitHolds, StepKeeps, PTL DEF Spec

-----------------------------------------------------------------------------
\* Whatever order timers, visibility changes, preflights and close events come
\* in, the connection of the browser client (client.js) has a socket, an armed
\* timer or a preflight on its way, unless it was ended.
THEOREM NeverLost == Spec => []ConnectionIsKept
<1>1. IInv => ConnectionIsKept
  BY DEF IInv, ConnectionIsKept
<1> QED
  BY <1>1, Invariance, PTL

\* On an open socket the frames that were sent, with those of the microtask,
\* subscribe to all that the page has a reference to.
THEOREM SubscriptionsAreKept == Spec => []Resubscribed
<1>1. IInv => Resubscribed
  BY DEF IInv
<1> QED
  BY <1>1, Invariance, PTL

\* Until two attempts to connect overlap, the status is true and no message of
\* sendQueued is lost, doubled or overtaken, but for those a full queue let go.
THEOREM StatusAndQueue == Spec => []ShownAndKept
<1>1. IInv => ShownAndKept
  BY DEF IInv, ShownAndKept
<1> QED
  BY <1>1, Invariance, PTL

\* After close(), or after a terminal end before which attempts never
\* overlapped, no step makes a socket.
THEOREM EndIsFinal == Spec => NoResurrection
<1> DEFINE Over == closed \/ (terminal /\ ~overlap)
           Dead == Over => \A s \in Socks : sock[s] = "none" => sock'[s] = "none"
<1>1. ASSUME IInv, Next, Over, NEW s \in Socks, sock[s] = "none" PROVE sock'[s] = "none"
  <2> USE <1>1
  <2>1. ~timer
    BY DEF IInv, ClosedIsOver, OneAttempt
  <2>2. CASE UNCHANGED sock
    BY <2>2
  <2>3. ASSUME NEW outcome \in {"ok", "transient", "unauthorized"}, AuthSettles(outcome)
        PROVE  UNCHANGED sock
    BY <2>3 DEF AuthSettles
  <2>4. ASSUME NEW r \in Socks, Open(r) \/ BeginClose(r) PROVE sock'[s] = "none"
    BY <2>4 DEF Open, BeginClose, IInv, TypeOK
  <2>5. ASSUME NEW r \in Socks, NEW class, OnClose(r, class) PROVE sock'[s] = "none"
    BY <2>5 DEF OnClose, IInv, TypeOK
  <2>6. ASSUME ZombieCheck PROVE sock'[s] = "none"
    BY <2>6 DEF ZombieCheck, BeginClose, IInv, TypeOK
  <2>7. ASSUME Show PROVE UNCHANGED sock
    BY <2>7 DEF Show
  <2>8. ASSUME Close PROVE sock'[s] = "none"
    <3>1. s # ws
      BY ConstantsOK DEF IInv, TypeOK, Live
    <3> QED
      BY <2>8, <3>1 DEF Close
  <2>9. ASSUME TimerFires PROVE FALSE
    BY <2>1, <2>9 DEF TimerFires
  <2>10. ASSUME NEW t \in Topics, Subscribe(t) \/ Release(t) \/ Unsubscribe(t) PROVE UNCHANGED sock
    BY <2>10 DEF Subscribe, Release, Unsubscribe, Drop
  <2>11. ASSUME Hide \/ FlushSubscribes \/ SendQueued PROVE UNCHANGED sock
    BY <2>11 DEF Hide, FlushSubscribes, SendQueued
  <2> QED
    BY <2>2, <2>3, <2>4, <2>5, <2>6, <2>7, <2>8, <2>9, <2>10, <2>11 DEF Next
<1>2. IInv /\ [Next]_vars => [Dead]_vars
  BY <1>1
<1> QED
  BY <1>2, Invariance, PTL DEF Spec, NoResurrection

-----------------------------------------------------------------------------
(* Groups. *)

Holders(rs, q) == {x \in Socks : rs[x] = q}
Listed(rs) == {x \in Socks : rs[x] # None}

LEMMA GroupCardinality == \A T : G!Cardinality(T) = Cardinality(T)
BY DEF G!Cardinality, Cardinality

LEMMA ListsCount ==
    ASSUME NEW rs
    PROVE  /\ G!membersList(rs) = [q \in Roles |-> Cardinality(Holders(rs, q))]
           /\ G!Size(rs) = Cardinality(Listed(rs))
           /\ IsFiniteSet(Listed(rs)) /\ Cardinality(Listed(rs)) \in Nat
           /\ \A q : IsFiniteSet(Holders(rs, q)) /\ Cardinality(Holders(rs, q)) \in Nat
<1>1. IsFiniteSet(Socks)
  BY ConstantsOK
<1>2. Listed(rs) \subseteq Socks /\ \A q : Holders(rs, q) \subseteq Socks
  BY DEF Listed, Holders
<1> QED
  BY <1>1, <1>2, GroupCardinality, FS_Subset, FS_CardinalityType
     DEF G!membersList, G!Size, Holders, Listed

\* One member more is one more of its role.
LEMMA OneMore ==
    ASSUME NEW rs \in [Socks -> Roles \cup {None}], NEW c \in Socks, NEW r \in Roles,
           rs[c] = None
    PROVE  /\ G!membersList([rs EXCEPT ![c] = r]) = [G!membersList(rs) EXCEPT ![r] = @ + 1]
           /\ G!Size([rs EXCEPT ![c] = r]) = G!Size(rs) + 1
<1> DEFINE more == [rs EXCEPT ![c] = r]
<1>1. /\ Holders(more, r) = Holders(rs, r) \cup {c} /\ c \notin Holders(rs, r)
      /\ \A q \in Roles : q # r => Holders(more, q) = Holders(rs, q)
      /\ Listed(more) = Listed(rs) \cup {c} /\ c \notin Listed(rs)
  BY PartsConstantsOK DEF Holders, Listed
<1> HIDE DEF more
<1>2. /\ Cardinality(Holders(more, r)) = Cardinality(Holders(rs, r)) + 1
      /\ Cardinality(Listed(more)) = Cardinality(Listed(rs)) + 1
  BY ZenonT(40), <1>1, ListsCount, FS_AddElement
<1>3. G!membersList(more) = [G!membersList(rs) EXCEPT ![r] = @ + 1]
  BY <1>1, <1>2, ListsCount
<1>4. G!Size(more) = G!Size(rs) + 1
  BY <1>2, ListsCount
<1> QED
  BY <1>3, <1>4 DEF more

LEMMA OneLess ==
    ASSUME NEW rs \in [Socks -> Roles \cup {None}], NEW c \in Socks, rs[c] # None
    PROVE  /\ G!membersList(rs)[rs[c]] # 0
           /\ G!membersList([rs EXCEPT ![c] = None]) = [G!membersList(rs) EXCEPT ![rs[c]] = @ - 1]
           /\ G!Size([rs EXCEPT ![c] = None]) <= G!Size(rs)
<1> DEFINE less == [rs EXCEPT ![c] = None]
           r == rs[c]
<1>1. /\ r \in Roles
      /\ Holders(less, r) = Holders(rs, r) \ {c} /\ c \in Holders(rs, r)
      /\ \A q \in Roles : q # r => Holders(less, q) = Holders(rs, q)
      /\ Listed(less) \subseteq Listed(rs)
  BY PartsConstantsOK DEF Holders, Listed
<1> HIDE DEF less, r
<1>2. /\ Cardinality(Holders(less, r)) = Cardinality(Holders(rs, r)) - 1
      /\ Cardinality(Holders(rs, r)) # 0
      /\ Cardinality(Listed(less)) <= Cardinality(Listed(rs))
  BY <1>1, ListsCount, FS_RemoveElement, FS_EmptySet, FS_Subset
<1>3. G!membersList(rs)[r] # 0
  BY <1>1, <1>2, ListsCount
<1>4. G!membersList(less) = [G!membersList(rs) EXCEPT ![r] = @ - 1]
  BY <1>1, <1>2, ListsCount
<1>5. G!Size(less) <= G!Size(rs)
  BY <1>2, ListsCount
<1> QED
  BY <1>3, <1>4, <1>5 DEF less, r

LEMMA HeardIsRoster ==
    ASSUME NEW list0 \in G!Rosters, NEW r \in Roles, NEW e
    PROVE  G!Heard(e, r, list0) \in G!Rosters
BY DEF G!Heard, G!Rosters

\* A broadcast changes the lists of those it reaches, and marks the others.
LEMMA BroadcastTells ==
    ASSUME G!GroupTypeOK, NEW r \in Roles, NEW e, NEW A \in SUBSET Socks,
           G!Broadcast(e, r, A)
    PROVE  /\ stale' \in SUBSET Socks /\ lost' \in 0..MaxLost
           /\ roster' \in [Socks -> G!Rosters] /\ stale \subseteq stale'
           /\ \A x \in A \ stale' : roster'[x] = G!Heard(e, r, roster[x])
<1>1. PICK D \in SUBSET A :
        /\ D = {} \/ lost < MaxLost
        /\ lost' = IF D = {} THEN lost ELSE lost + 1
        /\ stale' = stale \cup D
        /\ roster' = [x \in Socks |-> IF x \in A \ D THEN G!Heard(e, r, roster[x]) ELSE roster[x]]
  BY DEF G!Broadcast
<1>2. roster' \in [Socks -> G!Rosters]
  BY <1>1, HeardIsRoster DEF G!GroupTypeOK
<1>3. lost' \in 0..MaxLost
  BY <1>1, PartsConstantsOK DEF G!GroupTypeOK
<1> QED
  BY <1>1, <1>2, <1>3 DEF G!GroupTypeOK

LEMMA JoinKeeps ==
    ASSUME G!RosterIsMembership, NEW c \in Socks, NEW r \in Roles, G!Join(c, r)
    PROVE  G!RosterIsMembership'
<1> DEFINE new == [role EXCEPT ![c] = r]
<1>1. /\ c \in alive /\ role[c] = None /\ G!Size(role) < MaxMembers
      /\ role' = new /\ told' = told \cup {c}
      /\ moves < MaxMoves /\ moves' = moves + 1
      /\ UNCHANGED <<alive, groupClosed, refused>>
  BY DEF G!Join, G!HasRoom
<1>2. PICK D \in SUBSET told :
        /\ D = {} \/ lost < MaxLost
        /\ lost' = IF D = {} THEN lost ELSE lost + 1
        /\ stale' = (stale \cup D) \ {c}
        /\ roster' = [x \in Socks |->
                        IF x = c THEN G!membersList(new)
                        ELSE IF x \in told \ D THEN G!Heard("join", r, roster[x]) ELSE roster[x]]
  BY DEF G!Join, G!Announce
<1>3. role \in [Socks -> Roles \cup {None}]
  BY DEF G!RosterIsMembership, G!GroupTypeOK
<1>4. /\ G!membersList(new) = [G!membersList(role) EXCEPT ![r] = @ + 1]
      /\ G!Size(new) = G!Size(role) + 1
  BY <1>1, <1>3, OneMore
<1>5. G!membersList(new) \in G!Rosters /\ G!membersList(role) \in G!Rosters
  BY ListsCount DEF G!Rosters
<1>6. new \in [Socks -> Roles \cup {None}] /\ G!Size(role) \in Nat
  BY <1>3, ListsCount
<1>7. \A x \in Socks : new[x] # None <=> x = c \/ role[x] # None
  BY <1>1, <1>3, PartsConstantsOK
<1> HIDE DEF new
<1>8. roster' \in [Socks -> G!Rosters]
  BY <1>2, <1>5, HeardIsRoster DEF G!RosterIsMembership, G!GroupTypeOK
<1>9. lost' \in 0..MaxLost /\ moves' \in 0..MaxMoves
  BY <1>1, <1>2, PartsConstantsOK DEF G!RosterIsMembership, G!GroupTypeOK
<1>10. G!GroupTypeOK'
  BY <1>1, <1>2, <1>6, <1>8, <1>9 DEF G!RosterIsMembership, G!GroupTypeOK
<1>11. told' = {x \in Socks : role'[x] # None} /\ G!Size(role)' <= MaxMembers
  <2>1. told' = {x \in Socks : role'[x] # None}
    BY <1>1, <1>7 DEF G!RosterIsMembership
  <2>2. G!Size(role') <= MaxMembers
    BY <1>1, <1>4, <1>6, PartsConstantsOK
  <2> QED
    BY <2>1, <2>2 DEF G!Size
<1>12. ASSUME ~refused', NEW x \in told' \ stale'
       PROVE  roster'[x] = G!membersList(new)
  <2>1. CASE x = c
    BY <1>2, <2>1
  <2>2. CASE x # c
    <3>1. x \in told \ D /\ x \in told \ stale /\ x \in Socks
      BY <1>1, <1>2, <1>12, <2>2 DEF G!RosterIsMembership
    <3>2. roster[x] = G!membersList(role)
      BY <1>1, <1>12, <3>1 DEF G!RosterIsMembership
    <3> QED
      BY <1>2, <1>4, <2>2, <3>1, <3>2 DEF G!Heard
  <2> QED
    BY <2>1, <2>2
<1> QED
  BY <1>1, <1>10, <1>11, <1>12 DEF G!RosterIsMembership, G!membersList

\* A socket that closed during the hook: announced, and taken back unheard.
LEMMA JoinTooLateKeeps ==
    ASSUME G!RosterIsMembership, NEW c \in Socks, NEW r \in Roles, G!JoinTooLate(c, r)
    PROVE  G!RosterIsMembership'
<1>1. /\ moves < MaxMoves /\ moves' = moves + 1 /\ refused' = TRUE
      /\ UNCHANGED <<alive, role, groupClosed, told>>
      /\ G!Broadcast("join", r, told)
  BY DEF G!JoinTooLate
<1>2. G!GroupTypeOK /\ told \in SUBSET Socks
  BY DEF G!RosterIsMembership, G!GroupTypeOK
<1>3. /\ stale' \in SUBSET Socks /\ lost' \in 0..MaxLost
      /\ roster' \in [Socks -> G!Rosters]
  BY <1>1, <1>2, BroadcastTells
<1>4. moves' \in 0..MaxMoves
  BY <1>1, PartsConstantsOK DEF G!RosterIsMembership, G!GroupTypeOK
<1>5. G!GroupTypeOK'
  BY <1>1, <1>3, <1>4 DEF G!RosterIsMembership, G!GroupTypeOK
<1> QED
  BY <1>1, <1>5 DEF G!RosterIsMembership, G!Size

\* What a leave changes of the books.
LEMMA DepartKeeps ==
    ASSUME G!RosterIsMembership, NEW c \in Socks, role[c] # None, G!Departs(c),
           UNCHANGED <<groupClosed, refused, moves>>,
           alive' \in SUBSET Socks, alive \ {c} \subseteq alive'
    PROVE  G!RosterIsMembership'
<1> DEFINE new == [role EXCEPT ![c] = None]
           r == role[c]
<1>1. role \in [Socks -> Roles \cup {None}] /\ told \subseteq alive /\ G!GroupTypeOK
  BY DEF G!RosterIsMembership, G!GroupTypeOK
<1>2. /\ role' = new /\ told' = told \ {c} /\ r \in Roles
      /\ G!Broadcast("leave", r, told \ {c})
  BY <1>1 DEF G!Departs
<1>3. /\ G!membersList(role)[r] # 0
      /\ G!membersList(new) = [G!membersList(role) EXCEPT ![r] = @ - 1]
      /\ G!Size(new) <= G!Size(role)
  BY <1>1, OneLess
<1>4. /\ new \in [Socks -> Roles \cup {None}] /\ G!Size(role) \in Nat /\ G!Size(new) \in Nat
      /\ G!membersList(role) \in G!Rosters
  BY <1>1, ListsCount DEF G!Rosters
<1>5. \A x \in Socks : new[x] # None <=> x # c /\ role[x] # None
  BY <1>1
<1>6. told \ {c} \in SUBSET Socks
  BY DEF G!RosterIsMembership
<1>7. /\ stale' \in SUBSET Socks /\ lost' \in 0..MaxLost
      /\ roster' \in [Socks -> G!Rosters] /\ stale \subseteq stale'
      /\ \A x \in (told \ {c}) \ stale' : roster'[x] = G!Heard("leave", r, roster[x])
  BY <1>1, <1>2, <1>6, BroadcastTells
<1> HIDE DEF new
<1>8. G!GroupTypeOK'
  BY <1>1, <1>2, <1>4, <1>7 DEF G!GroupTypeOK
<1>9. told' = {x \in Socks : role'[x] # None}
  BY <1>2, <1>5 DEF G!RosterIsMembership
<1>10. G!Size(role)' <= MaxMembers
  <2>1. G!Size(new) <= MaxMembers
    BY <1>3, <1>4, PartsConstantsOK DEF G!RosterIsMembership
  <2> QED
    BY <1>2, <2>1 DEF G!Size
<1>11. ASSUME ~refused', NEW x \in told' \ stale'
       PROVE  roster'[x] = G!membersList(new)
  <2>1. x \in told \ stale /\ roster'[x] = G!Heard("leave", r, roster[x])
    BY <1>2, <1>7, <1>11
  <2>2. roster[x] = G!membersList(role)
    BY <1>11, <2>1 DEF G!RosterIsMembership
  <2> QED
    BY <1>3, <2>1, <2>2 DEF G!Heard
<1> QED
  BY <1>2, <1>8, <1>9, <1>10, <1>11 DEF G!RosterIsMembership, G!membersList

LEMMA GroupStepKeeps == G!RosterIsMembership /\ [G!Next]_groupVars => G!RosterIsMembership'
<1> SUFFICES ASSUME G!RosterIsMembership, [G!Next]_groupVars PROVE G!RosterIsMembership'
  OBVIOUS
<1>1. ASSUME NEW c \in Socks, G!Leave(c) PROVE G!RosterIsMembership'
  BY <1>1, DepartKeeps DEF G!Leave, G!RosterIsMembership, G!GroupTypeOK
<1>2. ASSUME NEW c \in Socks, G!Vanish(c) PROVE G!RosterIsMembership'
  <2>1. alive' = alive \ {c} /\ UNCHANGED <<groupClosed, refused, moves>>
    BY <1>2 DEF G!Vanish
  <2>2. CASE role[c] # None
    BY <1>2, <2>1, <2>2, DepartKeeps DEF G!Vanish, G!RosterIsMembership, G!GroupTypeOK
  <2>3. CASE role[c] = None
    <3>1. UNCHANGED <<told, role, roster, stale, lost>> /\ c \notin told
      BY <1>2, <2>3 DEF G!Vanish, G!RosterIsMembership
    <3>2. G!GroupTypeOK'
      BY <2>1, <3>1 DEF G!RosterIsMembership, G!GroupTypeOK
    <3> QED
      BY <2>1, <3>1, <3>2 DEF G!RosterIsMembership, G!Size, G!membersList
  <2> QED
    BY <2>2, <2>3
<1>3. CASE G!Close
  <2>1. /\ groupClosed' = TRUE /\ told' = {} /\ role' = [x \in Socks |-> None]
        /\ roster' = [x \in Socks |-> IF x \in told THEN [q \in Roles |-> 0] ELSE roster[x]]
        /\ UNCHANGED <<alive, stale, refused, moves, lost>>
    BY <1>3 DEF G!Close
  <2>2. G!GroupTypeOK'
    BY <2>1 DEF G!RosterIsMembership, G!GroupTypeOK, G!Rosters
  <2>3. Listed(role') = {} /\ Cardinality({}) = 0
    BY <2>1, FS_EmptySet DEF Listed
  <2>4. G!Size(role') = 0
    BY <2>3, ListsCount
  <2>5. G!Size(role)' <= MaxMembers
    BY <2>4, PartsConstantsOK DEF G!Size
  <2> QED
    BY <2>1, <2>2, <2>5 DEF G!RosterIsMembership
<1>4. CASE UNCHANGED groupVars
  BY <1>4 DEF groupVars, G!RosterIsMembership, G!GroupTypeOK, G!Size, G!membersList
<1> QED
  BY <1>1, <1>2, <1>3, <1>4, JoinKeeps, JoinTooLateKeeps DEF G!Next

LEMMA GroupInitHolds == G!Init => G!RosterIsMembership
<1> SUFFICES ASSUME G!Init PROVE G!RosterIsMembership
  OBVIOUS
<1>1. Listed(role) = {} /\ Cardinality({}) = 0
  BY FS_EmptySet DEF Listed, G!Init
<1>2. G!Size(role) = 0
  BY <1>1, ListsCount
<1>3. [q \in Roles |-> 0] \in G!Rosters
  BY DEF G!Rosters
<1>4. 0 \in 0..MaxMoves /\ 0 \in 0..MaxLost
  BY PartsConstantsOK
<1>5. G!GroupTypeOK
  BY <1>3, <1>4 DEF G!Init, G!GroupTypeOK
<1> QED
  BY <1>2, <1>5, PartsConstantsOK DEF G!Init, G!RosterIsMembership

clientVars == <<part, vars, storeVars, expiryVars, cursorVars, groupVars>>

\* Whatever order joins, leaves, closes and lost frames come in, a member that
\* missed nothing shows the roles of the group (plugins/groups).
THEOREM RostersAgree == PartsSpec => []RosterIsMembership
<1>1. PartsInit => RosterIsMembership
  BY GroupInitHolds DEF PartsInit, RosterIsMembership
<1>2. RosterIsMembership /\ [PartsNext]_clientVars => RosterIsMembership'
  BY GroupStepKeeps DEF PartsNext, clientVars, RosterIsMembership
<1> QED
  BY <1>1, <1>2, PTL DEF PartsSpec, clientVars


-----------------------------------------------------------------------------
(* maxAge. *)

\* Where ids are texts, an item has one timestamp, as old as the item.
Stamped ==
    kind = "crud" \/ ~numeric =>
        /\ X!Shown
        /\ \A i \in Items : stamp["number"][i] = X!Absent
        /\ \A i \in Items : age[i] \in 0..MaxAge => stamp["text"][i] = age[i]

ExpiryInv == X!TypeOK /\ Stamped

LEMMA TakeKeeps ==
    ASSUME ExpiryInv, NEW e \in X!Events, NEW i \in Items, X!Take(e, i),
           UNCHANGED <<kind, numeric, initial>>, mounted' \in BOOLEAN
    PROVE  ExpiryInv'
<1>1. /\ list' = X!Applied(e, i)
      /\ stamp' = [stamp EXCEPT ![X!KeyForm][i] = IF e = "deleted" THEN -1 ELSE 0]
      /\ age' = [age EXCEPT ![i] = IF e # "deleted" /\ i \in list' THEN 0 ELSE -1]
  BY DEF X!Take, X!Absent
<1>2. MaxAge \in Nat /\ X!KeyForm \in {"text", "number"}
  BY PartsConstantsOK DEF X!KeyForm
<1>3. list' \subseteq Items /\ \A j \in Items : j # i => (j \in list' <=> j \in list)
  BY <1>1 DEF X!Applied, X!Events, ExpiryInv, X!TypeOK
<1>4. e = "deleted" => i \notin list'
  BY <1>1 DEF X!Applied
<1>5. X!TypeOK'
  BY <1>1, <1>2, <1>3 DEF ExpiryInv, X!TypeOK, X!Forms, X!Absent, X!TooOld
<1>6. ASSUME kind = "crud" \/ ~numeric
      PROVE  /\ stamp'["number"] = stamp["number"]
             /\ \A j \in Items : j # i => stamp'["text"][j] = stamp["text"][j] /\ age'[j] = age[j]
             /\ stamp'["text"][i] = IF e = "deleted" THEN -1 ELSE 0
             /\ age'[i] = IF e # "deleted" /\ i \in list' THEN 0 ELSE -1
  <2>1. X!KeyForm = "text"
    BY <1>6 DEF X!KeyForm
  <2> QED
    BY <1>1, <2>1 DEF ExpiryInv, X!TypeOK, X!Forms
<1>7. Stamped'
  BY <1>2, <1>3, <1>4, <1>6 DEF ExpiryInv, Stamped, X!Shown, X!Forms, X!Absent
<1> QED
  BY <1>5, <1>7 DEF ExpiryInv

LEMMA TickKeeps ==
    ASSUME ExpiryInv, X!Tick
    PROVE  ExpiryInv'
<1> DEFINE Swept(f, i) == mounted /\ X!Older(stamp[f][i]) = X!TooOld
<1>1. /\ stamp' = [f \in X!Forms |-> [i \in Items |->
                      IF Swept(f, i) THEN X!Absent ELSE X!Older(stamp[f][i])]]
      /\ list' = {i \in list : \A f \in X!Forms : ~Swept(f, i)}
      /\ age' = [i \in Items |-> X!Older(age[i])]
      /\ UNCHANGED <<kind, numeric, initial, mounted>>
  <2> DEFINE older == [f \in X!Forms |-> [i \in Items |-> X!Older(stamp[f][i])]]
             gone == {k \in X!Forms \X Items : mounted /\ older[k[1]][k[2]] = X!TooOld}
  <2>1. /\ stamp' = [f \in X!Forms |-> [i \in Items |->
                        IF <<f, i>> \in gone THEN X!Absent ELSE older[f][i]]]
        /\ list' = list \ {k[2] : k \in gone}
        /\ age' = [i \in Items |-> X!Older(age[i])]
        /\ UNCHANGED <<kind, numeric, initial, mounted>>
    BY DEF X!Tick
  <2>2. \A f \in X!Forms, i \in Items :
           /\ older[f][i] = X!Older(stamp[f][i])
           /\ <<f, i>> \in gone <=> Swept(f, i)
    OBVIOUS
  <2>3. ASSUME NEW i \in list
        PROVE  i \in {k[2] : k \in gone} <=> \E f \in X!Forms : <<f, i>> \in gone
    <3>1. \A k \in gone : k \in X!Forms \X Items
      OBVIOUS
    <3> HIDE DEF gone
    <3>2. ASSUME NEW k \in gone, k[2] = i PROVE k[1] \in X!Forms /\ <<k[1], i>> \in gone
      BY <3>1, <3>2
    <3>3. ASSUME NEW f \in X!Forms, <<f, i>> \in gone PROVE i \in {k[2] : k \in gone}
      BY <3>3
    <3> QED
      BY <3>2, <3>3
  <2>4. list \subseteq Items
    BY DEF ExpiryInv, X!TypeOK
  <2> HIDE DEF older, gone, Swept
  <2>5. \A i \in list : i \in {k[2] : k \in gone} <=> \E f \in X!Forms : Swept(f, i)
    BY <2>2, <2>3, <2>4
  <2>6. list' = {i \in list : \A f \in X!Forms : ~Swept(f, i)}
    BY <2>1, <2>5
  <2> QED
    BY <2>1, <2>2, <2>6
<1>2. MaxAge \in Nat
  BY PartsConstantsOK
<1>3. \A a \in -1..(MaxAge + 1) :
        /\ X!Older(a) \in -1..(MaxAge + 1)
        /\ X!Older(a) = -1 <=> a = -1
        /\ X!Older(a) \in 0..MaxAge => a \in 0..MaxAge /\ X!Older(a) = a + 1
  BY <1>2 DEF X!Older, X!Absent, X!TooOld
<1>4. X!TypeOK'
  BY <1>1, <1>2, <1>3 DEF ExpiryInv, X!TypeOK, X!Absent, X!TooOld
<1>5. ASSUME kind = "crud" \/ ~numeric PROVE Stamped'
  <2>1. /\ \A i \in Items : stamp["number"][i] = -1 /\ stamp["text"][i] \in -1..(MaxAge + 1)
        /\ \A i \in Items : age[i] \in -1..(MaxAge + 1)
        /\ \A i \in Items : age[i] \in 0..MaxAge => stamp["text"][i] = age[i] /\ i \in list
        /\ \A i \in list : i \in Items /\ stamp["text"][i] # -1
    BY <1>5 DEF ExpiryInv, Stamped, X!TypeOK, X!Shown, X!Forms, X!Absent, X!TooOld
  <2>2. \A i \in Items : stamp'["number"][i] = -1 /\ ~Swept("number", i)
    BY <1>1, <1>2, <1>3, <2>1 DEF X!Forms, X!Absent, X!TooOld, X!Older
  <2>3. \A i \in Items : stamp'["text"][i] = IF Swept("text", i) THEN -1
                                             ELSE X!Older(stamp["text"][i])
    BY <1>1 DEF X!Forms, X!Absent
  <2>4. ASSUME NEW i \in Items, age'[i] \in 0..MaxAge
        PROVE  i \in list' /\ stamp'["text"][i] = age'[i]
    <3>1. age'[i] = X!Older(age[i]) /\ age[i] \in 0..MaxAge
      BY <1>1, <1>3, <2>1, <2>4
    <3>2. X!Older(stamp["text"][i]) = age'[i] /\ i \in list
      BY <2>1, <3>1
    <3>3. ~Swept("text", i)
      BY <1>2, <2>4, <3>2 DEF X!TooOld
    <3> QED
      BY <1>1, <2>2, <2>3, <3>2, <3>3 DEF X!Forms
  <2>5. ASSUME NEW i \in list' PROVE stamp'["text"][i] # -1
    <3>1. i \in list /\ ~Swept("text", i)
      BY <1>1, <2>5 DEF X!Forms
    <3> QED
      BY <1>3, <2>1, <2>3, <3>1
  <2> QED
    BY <2>2, <2>4, <2>5 DEF Stamped, X!Shown, X!Forms, X!Absent
<1>6. Stamped'
  BY <1>1, <1>5 DEF Stamped
<1> QED
  BY <1>4, <1>6 DEF ExpiryInv

\* What was given is stamped as a text, now.
LEMMA AsGiven ==
    ASSUME initial \subseteq Items
    PROVE  /\ X!Given \in [X!Forms -> [Items -> X!Absent..X!TooOld]]
           /\ X!AgesGiven \in [Items -> X!Absent..X!TooOld]
           /\ \A i \in Items : /\ X!Given["number"][i] = X!Absent
                               /\ X!AgesGiven[i] \in 0..MaxAge => i \in initial
                               /\ X!Given["text"][i] = X!AgesGiven[i]
           /\ \A i \in initial : X!Given["text"][i] # X!Absent
           /\ "text" \in X!Forms
<1> USE DEF X!Absent, X!TooOld
<1>1. {-1, 0} \subseteq -1..(MaxAge + 1)
  BY PartsConstantsOK
<1>2. "text" \in X!Forms /\ "number" \in X!Forms
  BY DEF X!Forms
<1>3. \A f \in X!Forms, i \in Items :
         X!Given[f][i] = IF f = "text" /\ i \in initial THEN 0 ELSE -1
  BY DEF X!Given
<1>4. \A i \in Items : X!AgesGiven[i] = IF i \in initial THEN 0 ELSE -1
  BY DEF X!AgesGiven
<1>5. X!Given \in [X!Forms -> [Items -> -1..(MaxAge + 1)]]
  BY <1>1 DEF X!Given
<1>6. X!AgesGiven \in [Items -> -1..(MaxAge + 1)]
  BY <1>1 DEF X!AgesGiven
<1> QED
  BY <1>2, <1>3, <1>4, <1>5, <1>6

LEMMA GivenHolds ==
    ASSUME initial \subseteq Items, list = initial, stamp = X!Given, age = X!AgesGiven
    PROVE  Stamped /\ list \subseteq Items /\ stamp \in [X!Forms -> [Items -> X!Absent..X!TooOld]]
           /\ age \in [Items -> X!Absent..X!TooOld]
<1>1. /\ \A i \in Items : /\ X!Given["number"][i] = X!Absent
                          /\ X!AgesGiven[i] \in 0..MaxAge => i \in initial
                          /\ X!Given["text"][i] = X!AgesGiven[i]
      /\ \A i \in initial : X!Given["text"][i] # X!Absent
      /\ "text" \in X!Forms
  BY AsGiven
<1>2. X!Shown
  BY <1>1 DEF X!Shown
<1>3. Stamped
  BY <1>1, <1>2 DEF Stamped
<1> QED
  BY <1>3, AsGiven

LEMMA ExpiryInitHolds == X!Init => ExpiryInv
BY GivenHolds DEF X!Init, ExpiryInv, X!TypeOK

LEMMA ExpiryStepKeeps == ExpiryInv /\ [X!Next]_expiryVars => ExpiryInv'
<1> SUFFICES ASSUME ExpiryInv, [X!Next]_expiryVars PROVE ExpiryInv'
  OBVIOUS
<1>1. CASE X!Start
  <2>1. CASE UNCHANGED <<list, stamp, age>>
    BY <1>1, <2>1 DEF X!Start, ExpiryInv, X!TypeOK, Stamped, X!Shown
  <2>2. ASSUME NEW e \in X!Events, NEW i \in Items, X!Take(e, i) PROVE ExpiryInv'
    BY <1>1, <2>2, TakeKeeps DEF X!Start
  <2> QED
    BY <1>1, <2>1, <2>2 DEF X!Start
<1>2. CASE X!Stop
  <2>1. /\ mounted' = FALSE /\ list' = initial /\ stamp' = X!Given /\ age' = X!AgesGiven
        /\ UNCHANGED <<kind, numeric, initial>> /\ initial \subseteq Items
    BY <1>2 DEF X!Stop, ExpiryInv, X!TypeOK
  <2>2. X!TypeOK'
    BY <2>1, AsGiven DEF ExpiryInv, X!TypeOK
  <2>3. Stamped'
    <3>1. /\ \A i \in Items : /\ X!Given["number"][i] = X!Absent
                              /\ X!AgesGiven[i] \in 0..MaxAge => i \in initial
                              /\ X!Given["text"][i] = X!AgesGiven[i]
          /\ \A i \in initial : X!Given["text"][i] # X!Absent
          /\ "text" \in X!Forms
      BY <2>1, AsGiven
    <3>2. X!Shown'
      BY <2>1, <3>1 DEF X!Shown
    <3> QED
      BY <2>1, <3>1, <3>2 DEF Stamped
  <2> QED
    BY <2>2, <2>3 DEF ExpiryInv
<1>3. CASE X!Tick
  BY <1>3, TickKeeps
<1>4. ASSUME NEW e \in X!Events, NEW i \in Items, X!Event(e, i) PROVE ExpiryInv'
  BY <1>4, TakeKeeps DEF X!Event, ExpiryInv, X!TypeOK
<1>5. CASE UNCHANGED expiryVars
  BY <1>5 DEF expiryVars, ExpiryInv, X!TypeOK, Stamped, X!Shown
<1> QED
  BY <1>1, <1>2, <1>3, <1>4, <1>5 DEF X!Next

\* crud and lookup show what was given, created or updated within maxAge, and
\* nothing that no sweep will find, unless lookup has numeric ids.
THEOREM FreshItemsStay == PartsSpec => []FreshStay
<1>1. PartsInit => ExpiryInv
  BY ExpiryInitHolds DEF PartsInit
<1>2. ExpiryInv /\ [PartsNext]_clientVars => ExpiryInv'
  BY ExpiryStepKeeps DEF PartsNext, clientVars
<1>3. ExpiryInv => FreshStay
  BY DEF ExpiryInv, Stamped, FreshStay, X!FreshStay
<1> QED
  BY <1>1, <1>2, <1>3, PTL DEF PartsSpec, clientVars

-----------------------------------------------------------------------------
(* Stores. *)

MountedOnes == {w \in Wrappers : subs[w] > 0}

\* The maps name a mounted wrapper's store, and never one store under two keys.
StoresRegistered ==
    /\ \A w \in Wrappers : subs[w] > 0 => store[w] = registered[S!Key(w)] /\ store[w] # 0
    /\ registered["topic"] = registered["event"] => registered["topic"] = 0

\* The life of a wrapper: nobody subscribes before the call, and a once stays
\* mounted until its answer was given.
Lives ==
    \A w \in Wrappers :
        /\ use[w] = "none" => subs[w] = 0 /\ store[w] = 0 /\ seen[w] = 0 /\ due[w] = 0
        /\ use[w] = "once" => answer[w] # "none"
        /\ use[w] # "once" => answer[w] = "none"
        /\ answer[w] \in {"waiting", "answered"} => subs[w] = 1
        /\ use[w] = "scan" /\ subs[w] = 0 => due[w] = 0

Heard ==
    \A w \in Wrappers :
        /\ due[w] # 0 => seen[w] = due[w]
        /\ use[w] = "once" => seen[w] = due[w] /\ (answer[w] = "waiting" => due[w] = 0)

StoreInv ==
    /\ S!TypeOK
    /\ topicRefs = Cardinality(MountedOnes)
    /\ StoresRegistered
    /\ Lives
    /\ Heard

LEMMA StoreCardinality == \A T : S!Cardinality(T) = Cardinality(T)
BY DEF S!Cardinality, Cardinality

LEMMA StoreSet ==
    /\ S!Keys = {"topic", "event"}
    /\ Cardinality(Wrappers) \in Nat /\ IsFiniteSet(Wrappers)
    /\ S!Stores = 1..(Cardinality(Wrappers) + 2)
<1>1. S!Keys = {"topic"} \cup {"event"} /\ IsFiniteSet({"topic"}) /\ Cardinality({"topic"}) = 1
  BY FS_Singleton DEF S!Keys
<1>2. Cardinality(S!Keys) = 2
  BY <1>1, FS_AddElement
<1>3. IsFiniteSet(Wrappers)
  BY PartsConstantsOK
<1> QED
  BY <1>1, <1>2, <1>3, StoreCardinality, FS_CardinalityType DEF S!Stores

\* While some name is unused, writable() makes a store nobody names.
LEMMA FreshIsNew ==
    ASSUME S!TypeOK,
           (\E w \in Wrappers : store[w] = 0) \/ (\E k \in S!Keys : registered[k] = 0)
    PROVE  /\ S!Fresh \in S!Stores /\ S!Fresh # 0
           /\ \A k \in S!Keys : registered[k] # S!Fresh
           /\ \A w \in Wrappers : store[w] # S!Fresh
<1> DEFINE n == Cardinality(Wrappers)
           Closures == {store[w] : w \in Wrappers}
           Maps == {registered[k] : k \in S!Keys}
           Named == Maps \cup Closures
<1>1. IsFiniteSet(Closures) /\ Cardinality(Closures) <= n /\ Cardinality(Closures) \in Nat
  <2>1. store \in Surjection(Wrappers, Closures)
    BY DEF S!TypeOK, Surjection
  <2> HIDE DEF Closures
  <2> QED
    BY <2>1, StoreSet, FS_Surjection, FS_CardinalityType
<1>2. IsFiniteSet(Maps) /\ Cardinality(Maps) <= 2 /\ Cardinality(Maps) \in Nat
  <2>1. Maps = {registered["topic"]} \cup {registered["event"]}
    BY StoreSet
  <2>2. /\ IsFiniteSet({registered["topic"]}) /\ Cardinality({registered["topic"]}) = 1
    BY FS_Singleton
  <2> HIDE DEF Maps
  <2> DEFINE first == {registered["topic"]}
             second == registered["event"]
  <2>3. Maps = first \cup {second} /\ IsFiniteSet(first) /\ Cardinality(first) = 1
    BY <2>1, <2>2
  <2> HIDE DEF first, second
  <2>4. /\ IsFiniteSet(Maps)
        /\ Cardinality(Maps) = IF second \in first THEN Cardinality(first) ELSE Cardinality(first) + 1
    BY <2>3, FS_AddElement
  <2> QED
    BY <2>3, <2>4
<1>3. IsFiniteSet(Named) /\ Cardinality(Named) <= n + 2 /\ Cardinality(Named) \in Nat
  <2> HIDE DEF Maps, Closures
  <2>1. /\ IsFiniteSet(Named)
        /\ Cardinality(Named) = Cardinality(Maps) + Cardinality(Closures)
                                  - Cardinality(Maps \cap Closures)
    BY <1>1, <1>2, FS_Union
  <2>2. Cardinality(Maps \cap Closures) \in Nat
    BY <1>1, FS_Intersection, FS_CardinalityType
  <2> QED
    BY <1>1, <1>2, <2>1, <2>2, StoreSet, FS_CardinalityType
<1>4. S!Unused = S!Stores \ Named
  BY DEF S!Unused
<1>5. S!Unused # {}
  <2> SUFFICES ASSUME S!Stores \subseteq Named PROVE FALSE
    BY <1>4
  <2>1. 0 \in Named /\ 0 \notin 1..(n + 2)
    BY StoreSet
  <2>2. IsFiniteSet(1..(n + 2)) /\ Cardinality(1..(n + 2)) = n + 2
    BY StoreSet, FS_Interval
  <2>3. Cardinality((1..(n + 2)) \cup {0}) = n + 3
    <3> DEFINE I == 1..(n + 2)
    <3>1. IsFiniteSet(I) /\ 0 \notin I /\ Cardinality(I) = n + 2 /\ n \in Nat
      BY <2>1, <2>2, StoreSet
    <3> HIDE DEF I
    <3>2. Cardinality(I \cup {0}) = Cardinality(I) + 1
      BY <3>1, FS_AddElement
    <3>3. Cardinality(I \cup {0}) = n + 3
      BY <3>1, <3>2
    <3> QED
      BY <3>3 DEF I
  <2>4. (1..(n + 2)) \cup {0} \subseteq Named
    BY <2>1, StoreSet
  <2>5. Cardinality((1..(n + 2)) \cup {0}) <= Cardinality(Named)
    <3> HIDE DEF Named
    <3> QED
      BY <1>3, <2>4, FS_Subset
  <2> QED
    BY <1>3, <2>3, <2>5, StoreSet
<1>6. S!Unused \in SUBSET (1..(n + 2)) /\ n + 2 \in Nat
  BY <1>4, StoreSet
<1>7. \E s \in S!Unused : \A r \in S!Unused : s <= r
  <2> HIDE DEF n
  <2> QED
    BY <1>5, <1>6, Least
<1>8. S!Fresh \in S!Unused
  BY <1>7 DEF S!Fresh
<1> QED
  BY <1>4, <1>8, StoreSet

LEMMA MountedFinite ==
    /\ IsFiniteSet(MountedOnes) /\ Cardinality(MountedOnes) \in Nat
    /\ Cardinality(MountedOnes) <= Cardinality(Wrappers)
<1>1. MountedOnes \subseteq Wrappers
  BY DEF MountedOnes
<1> QED
  BY <1>1, StoreSet, FS_Subset, FS_CardinalityType

\* What a subscription changes of the maps and counts.
LEMMA MountedKeeps ==
    ASSUME StoreInv, NEW w \in Wrappers, S!Mounted(w), subs[w] < MaxSubs
    PROVE  /\ subs' = [subs EXCEPT ![w] = @ + 1] /\ subs' \in [Wrappers -> 0..MaxSubs]
           /\ topicRefs' = Cardinality(MountedOnes') /\ topicRefs' \in 0..Cardinality(Wrappers)
           /\ registered' \in [S!Keys -> S!Stores \cup {0}]
           /\ store' \in [Wrappers -> S!Stores \cup {0}]
           /\ \A v \in Wrappers : v # w => store'[v] = store[v]
           /\ StoresRegistered'
<1>1. subs' = [subs EXCEPT ![w] = @ + 1] /\ subs[w] \in 0..MaxSubs
  BY DEF S!Mounted, StoreInv, S!TypeOK
<1>2. MaxSubs \in Nat
  BY PartsConstantsOK
<1>3. subs' \in [Wrappers -> 0..MaxSubs] /\ \A v \in Wrappers : v # w => subs'[v] = subs[v]
  BY <1>1, <1>2 DEF StoreInv, S!TypeOK
<1>4. MountedOnes' = MountedOnes \cup {w}
  BY <1>1, <1>2, <1>3 DEF MountedOnes, StoreInv, S!TypeOK
<1>5. Cardinality(MountedOnes') <= Cardinality(Wrappers) /\ Cardinality(MountedOnes') \in Nat
  <2>1. MountedOnes' \subseteq Wrappers
    BY DEF MountedOnes
  <2> QED
    BY <2>1, StoreSet, FS_Subset, FS_CardinalityType
<1>6. S!Key(w) \in S!Keys /\ \A v \in Wrappers : S!Key(v) \in S!Keys
  BY DEF S!Key, S!Keys
<1>7. CASE subs[w] > 0
  <2>1. UNCHANGED <<store, registered, topicRefs>>
    BY <1>7 DEF S!Mounted
  <2>2. MountedOnes' = MountedOnes
    BY <1>4, <1>7 DEF MountedOnes
  <2>3. StoresRegistered'
    BY <1>3, <1>7, <2>1 DEF StoreInv, StoresRegistered, S!Key
  <2> QED
    BY <1>1, <1>3, <1>5, <2>1, <2>2, <2>3 DEF StoreInv, S!TypeOK, S!Null
<1>8. CASE subs[w] = 0
  <2>1. PICK s : s = IF registered[S!Key(w)] = 0 THEN S!Fresh ELSE registered[S!Key(w)]
    OBVIOUS
  <2>2. /\ store' = [store EXCEPT ![w] = s]
        /\ registered' = [registered EXCEPT ![S!Key(w)] = s]
        /\ topicRefs' = topicRefs + 1
    BY <1>8, <2>1 DEF S!Mounted, S!Null
  <2>3. /\ s \in S!Stores /\ s # 0
        /\ registered[S!Key(w)] # 0 => s = registered[S!Key(w)]
        /\ registered[S!Key(w)] = 0 => \A k \in S!Keys : registered[k] # s
    BY <1>6, <2>1, FreshIsNew, StoreSet DEF StoreInv, S!TypeOK, S!Null
  <2>4. w \notin MountedOnes
    BY <1>8 DEF MountedOnes
  <2>5. topicRefs' = Cardinality(MountedOnes')
    BY <1>4, <2>2, <2>4, MountedFinite, FS_AddElement DEF StoreInv
  <2>6. /\ registered' \in [S!Keys -> S!Stores \cup {0}]
        /\ store' \in [Wrappers -> S!Stores \cup {0}]
        /\ store'[w] = s /\ registered'[S!Key(w)] = s
        /\ \A v \in Wrappers : v # w => store'[v] = store[v]
        /\ \A k \in S!Keys : k # S!Key(w) => registered'[k] = registered[k]
    BY <1>6, <2>2, <2>3 DEF StoreInv, S!TypeOK, S!Null
  <2>7. ASSUME NEW v \in Wrappers, subs'[v] > 0
        PROVE  store'[v] = registered'[S!Key(v)] /\ store'[v] # 0
    <3>1. CASE v = w
      BY <2>3, <2>6, <3>1
    <3>2. CASE v # w
      <4>1. subs[v] > 0 /\ store'[v] = registered[S!Key(v)] /\ registered[S!Key(v)] # 0
        BY <1>3, <2>6, <2>7, <3>2 DEF StoreInv, StoresRegistered
      <4> QED
        BY <1>6, <2>3, <2>6, <4>1
    <3> QED
      BY <3>1, <3>2
  <2>8. registered'["topic"] = registered'["event"] => registered'["topic"] = 0
    <3>1. S!Key(w) = "topic" \/ S!Key(w) = "event"
      BY DEF S!Key
    <3> QED
      BY <2>3, <2>6, <3>1, StoreSet DEF StoreInv, StoresRegistered
  <2>9. StoresRegistered'
    BY <2>7, <2>8 DEF StoresRegistered, S!Key
  <2> QED
    BY <1>1, <1>3, <1>5, <2>5, <2>6, <2>9
<1> QED
  BY <1>1, <1>7, <1>8

\* What the end of a subscription changes of them.
LEMMA UnmountedKeeps ==
    ASSUME StoreInv, NEW w \in Wrappers, S!Unmounted(w), subs[w] > 0
    PROVE  /\ subs' = [subs EXCEPT ![w] = @ - 1] /\ subs' \in [Wrappers -> 0..MaxSubs]
           /\ topicRefs' = Cardinality(MountedOnes') /\ topicRefs' \in 0..Cardinality(Wrappers)
           /\ registered' \in [S!Keys -> S!Stores \cup {0}]
           /\ value' \in [S!Stores -> 0..MaxEvents]
           /\ store' = store
           /\ StoresRegistered'
<1>1. /\ subs' = [subs EXCEPT ![w] = @ - 1] /\ subs[w] \in 0..MaxSubs /\ store' = store
  BY DEF S!Unmounted, StoreInv, S!TypeOK
<1>2. MaxSubs \in Nat /\ MaxEvents \in Nat
  BY PartsConstantsOK
<1>3. /\ subs' \in [Wrappers -> 0..MaxSubs] /\ \A v \in Wrappers : v # w => subs'[v] = subs[v]
      /\ subs'[w] = subs[w] - 1
  BY <1>1, <1>2 DEF StoreInv, S!TypeOK
<1>4. MountedOnes' = IF subs[w] = 1 THEN MountedOnes \ {w} ELSE MountedOnes
  BY <1>1, <1>2, <1>3 DEF MountedOnes, StoreInv, S!TypeOK
<1>5. w \in MountedOnes
  BY DEF MountedOnes
<1>6. /\ Cardinality(MountedOnes') = IF subs[w] = 1 THEN topicRefs - 1 ELSE topicRefs
      /\ Cardinality(MountedOnes') <= Cardinality(Wrappers)
      /\ Cardinality(MountedOnes') \in Nat /\ IsFiniteSet(MountedOnes')
      /\ topicRefs \in Nat
  <2>1. MountedOnes' \subseteq Wrappers
    BY DEF MountedOnes
  <2> QED
    BY <1>4, <1>5, <2>1, MountedFinite, StoreSet, FS_RemoveElement, FS_Subset, FS_CardinalityType
       DEF StoreInv
<1>7. /\ registered' = registered \/ registered' = [k \in S!Keys |-> 0]
      /\ value' = value \/ value' = [s \in S!Stores |-> 0]
  BY DEF S!Unmounted, S!Null
<1>8. /\ registered' \in [S!Keys -> S!Stores \cup {0}]
      /\ value' \in [S!Stores -> 0..MaxEvents]
  BY <1>2, <1>7 DEF StoreInv, S!TypeOK, S!Null
<1>9. topicRefs' = IF subs[w] = 1 /\ topicRefs <= 1 THEN 0
                   ELSE IF subs[w] = 1 THEN topicRefs - 1 ELSE topicRefs
  BY DEF S!Unmounted
<1>10. topicRefs' = Cardinality(MountedOnes')
  BY <1>6, <1>9
<1>11. StoresRegistered'
  <2>1. CASE subs[w] = 1 /\ topicRefs <= 1
    <3>1. registered' = [k \in S!Keys |-> 0]
      BY <2>1 DEF S!Unmounted, S!Null
    <3>2. MountedOnes' = {}
      BY <1>6, <1>9, <1>10, <2>1, FS_EmptySet
    <3>3. \A v \in Wrappers : ~(subs'[v] > 0)
      BY <3>2 DEF MountedOnes
    <3> QED
      BY <3>1, <3>3, StoreSet DEF StoresRegistered
  <2>2. CASE ~(subs[w] = 1 /\ topicRefs <= 1)
    <3>1. registered' = registered
      BY <2>2 DEF S!Unmounted
    <3> QED
      BY <1>1, <1>3, <3>1 DEF StoreInv, StoresRegistered, S!Key
  <2> QED
    BY <2>1, <2>2
<1> QED
  BY <1>1, <1>3, <1>6, <1>8, <1>10, <1>11

LEMMA OnKeeps ==
    ASSUME StoreInv, NEW w \in Wrappers, S!On(w)
    PROVE  StoreInv'
<1>1. /\ use[w] = "none" /\ use' = [use EXCEPT ![w] = "scan"]
      /\ UNCHANGED <<value, subs, topicRefs, answer, seen, due, arrived>>
      /\ check' \subseteq check \cup {w}
  BY DEF S!On, S!counts
<1>2. /\ store[w] = 0 /\ subs[w] = 0 /\ S!Key(w) \in S!Keys
  BY <1>1 DEF StoreInv, Lives, S!Key, S!Keys
<1>3. PICK s \in S!Stores :
        /\ s # 0
        /\ store' = [store EXCEPT ![w] = s]
        /\ registered' = [registered EXCEPT ![S!Key(w)] = s]
        /\ registered[S!Key(w)] # 0 => s = registered[S!Key(w)]
        /\ registered[S!Key(w)] = 0 => \A k \in S!Keys : registered[k] # s
  <2>1. CASE registered[S!Key(w)] = 0
    <3>1. store' = [store EXCEPT ![w] = S!Fresh]
          /\ registered' = [registered EXCEPT ![S!Key(w)] = S!Fresh]
      BY <2>1 DEF S!On, S!Null
    <3> QED
      BY <1>2, <2>1, <3>1, FreshIsNew DEF StoreInv
  <2>2. CASE registered[S!Key(w)] # 0
    <3>1. store' = [store EXCEPT ![w] = registered[S!Key(w)]] /\ registered' = registered
      BY <2>2 DEF S!On, S!Null
    <3>2. registered[S!Key(w)] \in S!Stores
          /\ registered = [registered EXCEPT ![S!Key(w)] = registered[S!Key(w)]]
      BY <1>2, <2>2 DEF StoreInv, S!TypeOK, S!Null
    <3> QED
      BY <2>2, <3>1, <3>2
  <2> QED
    BY <2>1, <2>2
<1>4. S!TypeOK'
  BY <1>1, <1>3 DEF StoreInv, S!TypeOK, S!Uses, S!Null
<1>5. StoresRegistered'
  <2>1. ASSUME NEW v \in Wrappers, subs'[v] > 0
        PROVE  store'[v] = registered'[S!Key(v)] /\ store'[v] # 0
    <3>1. /\ v # w /\ store'[v] = store[v] /\ store[v] = registered[S!Key(v)] /\ store[v] # 0
          /\ S!Key(v) \in S!Keys
      BY <1>1, <1>2, <1>3, <2>1 DEF StoreInv, StoresRegistered, S!TypeOK, S!Key, S!Keys
    <3> QED
      BY <1>2, <1>3, <3>1 DEF StoreInv, S!TypeOK
  <2>2. registered'["topic"] = registered'["event"] => registered'["topic"] = 0
    <3>1. S!Key(w) = "topic" \/ S!Key(w) = "event"
      BY DEF S!Key
    <3> QED
      BY <1>3, <3>1, StoreSet DEF StoreInv, StoresRegistered, S!TypeOK
  <2> QED
    BY <2>1, <2>2 DEF StoresRegistered, S!Key
<1>6. Lives' /\ Heard'
  BY <1>1, <1>2, <1>3 DEF StoreInv, S!TypeOK, Lives, Heard
<1>7. topicRefs' = Cardinality(MountedOnes')
  BY <1>1 DEF StoreInv, MountedOnes
<1> QED
  BY <1>4, <1>5, <1>6, <1>7 DEF StoreInv

LEMMA OnceKeeps ==
    ASSUME StoreInv, NEW w \in Wrappers, S!Once(w)
    PROVE  StoreInv'
<1>1. /\ use[w] = "none" /\ use' = [use EXCEPT ![w] = "once"]
      /\ answer' = [answer EXCEPT ![w] = "waiting"]
      /\ S!Mounted(w)
      /\ check' \subseteq check \cup {w}
      /\ UNCHANGED <<value, seen, due, arrived>>
  BY DEF S!Once
<1>2. subs[w] = 0 /\ subs[w] < MaxSubs /\ due[w] = 0 /\ seen[w] = 0
  BY <1>1, PartsConstantsOK DEF StoreInv, Lives
<1>3. /\ subs' = [subs EXCEPT ![w] = @ + 1] /\ subs' \in [Wrappers -> 0..MaxSubs]
      /\ topicRefs' = Cardinality(MountedOnes') /\ topicRefs' \in 0..Cardinality(Wrappers)
      /\ registered' \in [S!Keys -> S!Stores \cup {0}]
      /\ store' \in [Wrappers -> S!Stores \cup {0}]
      /\ \A v \in Wrappers : v # w => store'[v] = store[v]
      /\ StoresRegistered'
  BY <1>1, <1>2, MountedKeeps
<1>4. S!TypeOK'
  BY <1>1, <1>3, StoreCardinality DEF StoreInv, S!TypeOK, S!Uses, S!Answers, S!Null
<1>5. Lives' /\ Heard'
  BY <1>1, <1>2, <1>3 DEF StoreInv, S!TypeOK, Lives, Heard
<1> QED
  BY <1>3, <1>4, <1>5 DEF StoreInv

LEMMA ScanSubscribeKeeps ==
    ASSUME StoreInv, NEW w \in Wrappers, S!Subscribe(w)
    PROVE  StoreInv'
<1>1. /\ use[w] = "scan" /\ subs[w] < MaxSubs /\ S!Mounted(w)
      /\ seen' = [seen EXCEPT ![w] =
                    IF subs[w] = 0 /\ value[store'[w]] # 0 THEN value[store'[w]] ELSE @]
      /\ UNCHANGED <<use, value, check, answer, due, arrived>>
  BY DEF S!Subscribe
<1>2. /\ subs' = [subs EXCEPT ![w] = @ + 1] /\ subs' \in [Wrappers -> 0..MaxSubs]
      /\ topicRefs' = Cardinality(MountedOnes') /\ topicRefs' \in 0..Cardinality(Wrappers)
      /\ registered' \in [S!Keys -> S!Stores \cup {0}]
      /\ store' \in [Wrappers -> S!Stores \cup {0}]
      /\ \A v \in Wrappers : v # w => store'[v] = store[v]
      /\ StoresRegistered'
  BY <1>1, MountedKeeps
<1>3. subs'[w] = subs[w] + 1 /\ subs[w] \in Nat /\ \A v \in Wrappers : v # w => subs'[v] = subs[v]
  BY <1>2 DEF StoreInv, S!TypeOK
<1>4. store'[w] \in S!Stores
  BY <1>2, <1>3 DEF StoresRegistered
<1>5. seen' \in [Wrappers -> 0..MaxEvents]
  BY <1>1, <1>4 DEF StoreInv, S!TypeOK
<1>6. S!TypeOK'
  BY <1>1, <1>2, <1>5, StoreCardinality DEF StoreInv, S!TypeOK, S!Null
<1>7. \A v \in Wrappers : v # w => seen'[v] = seen[v]
  BY <1>1 DEF StoreInv, S!TypeOK
<1>8. subs[w] > 0 => seen'[w] = seen[w]
  BY <1>1 DEF StoreInv, S!TypeOK
<1>9. Lives'
  BY <1>1, <1>2, <1>3, <1>7 DEF StoreInv, Lives
<1>10. Heard'
  BY <1>1, <1>3, <1>7, <1>8 DEF StoreInv, Heard, Lives
<1> QED
  BY <1>2, <1>6, <1>9, <1>10 DEF StoreInv

LEMMA ScanUnsubscribeKeeps ==
    ASSUME StoreInv, NEW w \in Wrappers, S!Unsubscribe(w)
    PROVE  StoreInv'
<1>1. /\ use[w] = "scan" /\ subs[w] > 0 /\ S!Unmounted(w)
      /\ IF subs[w] > 1 THEN UNCHANGED <<seen, due>>
         ELSE seen' = [seen EXCEPT ![w] = 0] /\ due' = [due EXCEPT ![w] = 0]
      /\ UNCHANGED <<use, check, answer, arrived>>
  BY DEF S!Unsubscribe
<1>2. /\ subs' = [subs EXCEPT ![w] = @ - 1] /\ subs' \in [Wrappers -> 0..MaxSubs]
      /\ topicRefs' = Cardinality(MountedOnes') /\ topicRefs' \in 0..Cardinality(Wrappers)
      /\ registered' \in [S!Keys -> S!Stores \cup {0}]
      /\ value' \in [S!Stores -> 0..MaxEvents]
      /\ store' = store
      /\ StoresRegistered'
  BY <1>1, UnmountedKeeps
<1>3. S!TypeOK'
  BY <1>1, <1>2, StoreCardinality, PartsConstantsOK DEF StoreInv, S!TypeOK, S!Null
<1>4. subs'[w] = subs[w] - 1 /\ subs[w] \in Nat /\ \A v \in Wrappers : v # w => subs'[v] = subs[v]
  BY <1>2 DEF StoreInv, S!TypeOK
<1>5. /\ \A v \in Wrappers : v # w => seen'[v] = seen[v] /\ due'[v] = due[v]
      /\ subs'[w] = 0 => seen'[w] = 0 /\ due'[w] = 0
      /\ subs'[w] # 0 => seen'[w] = seen[w] /\ due'[w] = due[w]
  BY <1>1, <1>4 DEF StoreInv, S!TypeOK
<1>6. Lives'
  BY <1>1, <1>2, <1>4, <1>5 DEF StoreInv, Lives
<1>7. Heard'
  BY <1>1, <1>5 DEF StoreInv, Heard
<1> QED
  BY <1>2, <1>3, <1>6, <1>7 DEF StoreInv

LEMMA OnceOverKeeps ==
    ASSUME StoreInv, NEW w \in Wrappers, S!OnceOver(w)
    PROVE  StoreInv'
<1>1. /\ answer[w] = "answered" /\ answer' = [answer EXCEPT ![w] = "over"] /\ S!Unmounted(w)
      /\ UNCHANGED <<use, check, seen, due, arrived>>
  BY DEF S!OnceOver
<1>2. subs[w] = 1 /\ use[w] = "once"
  BY <1>1 DEF StoreInv, Lives, S!TypeOK
<1>3. /\ subs' = [subs EXCEPT ![w] = @ - 1] /\ subs' \in [Wrappers -> 0..MaxSubs]
      /\ topicRefs' = Cardinality(MountedOnes') /\ topicRefs' \in 0..Cardinality(Wrappers)
      /\ registered' \in [S!Keys -> S!Stores \cup {0}]
      /\ value' \in [S!Stores -> 0..MaxEvents]
      /\ store' = store
      /\ StoresRegistered'
  BY <1>1, <1>2, UnmountedKeeps
<1>4. S!TypeOK'
  BY <1>1, <1>3, StoreCardinality DEF StoreInv, S!TypeOK, S!Null, S!Answers
<1>5. Lives' /\ Heard'
  BY <1>1, <1>2, <1>3 DEF StoreInv, S!TypeOK, Lives, Heard
<1> QED
  BY <1>3, <1>4, <1>5 DEF StoreInv

LEMMA RemoveUnusedKeeps ==
    ASSUME StoreInv, NEW w \in Wrappers, S!RemoveUnused(w)
    PROVE  StoreInv'
<1>1. /\ check' \subseteq check
      /\ UNCHANGED <<use, store, value, subs, topicRefs, answer, seen, due, arrived>>
      /\ registered' = registered
         \/ (topicRefs = 0 /\ registered' = [registered EXCEPT ![S!Key(w)] = 0])
  BY DEF S!RemoveUnused, S!counts, S!Null
<1>2. topicRefs = 0 => \A v \in Wrappers : ~(subs[v] > 0)
  <2>1. topicRefs = 0 => MountedOnes = {}
    BY MountedFinite, FS_EmptySet DEF StoreInv
  <2> QED
    BY <2>1 DEF MountedOnes
<1>3. S!TypeOK'
  BY <1>1 DEF StoreInv, S!TypeOK, S!Null
<1>4. StoresRegistered'
  <2>1. S!Key(w) = "topic" \/ S!Key(w) = "event"
    BY DEF S!Key
  <2> QED
    BY <1>1, <1>2, <2>1, StoreSet DEF StoreInv, StoresRegistered, S!TypeOK, S!Key
<1>5. Lives' /\ Heard' /\ topicRefs' = Cardinality(MountedOnes')
  BY <1>1 DEF StoreInv, Lives, Heard, MountedOnes
<1> QED
  BY <1>3, <1>4, <1>5 DEF StoreInv

\* An event is given to those it is meant for: a mounted wrapper's store is the
\* one the maps name under its key, and no other key names it.
LEMMA DispatchKeeps ==
    ASSUME StoreInv, NEW keys \in SUBSET S!Keys, S!Dispatch(keys)
    PROVE  StoreInv'
<1> DEFINE e == arrived + 1
           hit == {registered[k] : k \in keys} \ {0}
           meant(w) == S!Takes(w) /\ S!Key(w) \in keys
<1>1. /\ arrived < MaxEvents /\ arrived' = e
      /\ value' = [s \in S!Stores |-> IF s \in hit THEN e ELSE value[s]]
      /\ UNCHANGED <<use, registered, store, subs, topicRefs, check>>
  BY DEF S!Dispatch, S!counts, S!Null
<1>2. ASSUME NEW w \in Wrappers
      PROVE  S!Takes(w) /\ store[w] \in hit <=> meant(w)
  <2>1. S!Takes(w) => store[w] = registered[S!Key(w)] /\ store[w] # 0
    BY DEF S!Takes, StoreInv, StoresRegistered
  <2>2. \A k \in S!Keys : registered[k] = registered[S!Key(w)] /\ registered[k] # 0 => k = S!Key(w)
    BY StoreSet DEF StoreInv, StoresRegistered, S!Key
  <2> QED
    BY <2>1, <2>2
<1>3. /\ seen' = [w \in Wrappers |-> IF meant(w) THEN e ELSE seen[w]]
      /\ due' = [w \in Wrappers |-> IF meant(w) THEN e ELSE due[w]]
      /\ answer' = [w \in Wrappers |->
                      IF meant(w) /\ answer[w] = "waiting" THEN "answered" ELSE answer[w]]
  <2>1. /\ seen' = [w \in Wrappers |->
                      IF S!Takes(w) /\ store[w] \in hit THEN e ELSE seen[w]]
        /\ due' = [w \in Wrappers |-> IF meant(w) THEN e ELSE due[w]]
        /\ answer' = [w \in Wrappers |->
                        IF S!Takes(w) /\ store[w] \in hit /\ answer[w] = "waiting"
                          THEN "answered" ELSE answer[w]]
    BY DEF S!Dispatch, S!Null
  <2> HIDE DEF meant, hit, e
  <2> QED
    BY <1>2, <2>1
<1>4. e \in 0..MaxEvents /\ e # 0
  BY <1>1, PartsConstantsOK DEF StoreInv, S!TypeOK
<1>5. \A w \in Wrappers : meant(w) => subs[w] > 0 /\ answer[w] \in {"none", "waiting"}
  BY DEF S!Takes
<1> HIDE DEF meant, hit, e
<1>6. S!TypeOK'
  BY <1>1, <1>3, <1>4 DEF StoreInv, S!TypeOK, S!Answers
<1>7. topicRefs' = Cardinality(MountedOnes') /\ StoresRegistered'
  BY <1>1 DEF StoreInv, MountedOnes, StoresRegistered, S!Key
<1>8. Lives'
  BY <1>1, <1>3, <1>5 DEF StoreInv, S!TypeOK, Lives
<1>9. Heard'
  BY <1>1, <1>3, <1>4, <1>5 DEF StoreInv, S!TypeOK, Heard, Lives
<1> QED
  BY <1>6, <1>7, <1>8, <1>9 DEF StoreInv

LEMMA StoreInitHolds == S!Init => StoreInv
<1> SUFFICES ASSUME S!Init PROVE StoreInv
  OBVIOUS
<1>1. MountedOnes = {} /\ Cardinality({}) = 0
  BY FS_EmptySet DEF S!Init, MountedOnes
<1>2. S!TypeOK
  BY StoreCardinality, StoreSet, PartsConstantsOK
     DEF S!Init, S!TypeOK, S!Null, S!Uses, S!Answers
<1>3. StoresRegistered /\ Lives /\ Heard
  BY StoreSet DEF S!Init, StoresRegistered, Lives, Heard, S!Null
<1> QED
  BY <1>1, <1>2, <1>3 DEF StoreInv, S!Init

LEMMA StoreStepKeeps == StoreInv /\ [S!Next]_storeVars => StoreInv'
<1> SUFFICES ASSUME StoreInv, [S!Next]_storeVars PROVE StoreInv'
  OBVIOUS
<1>1. ASSUME NEW w \in Wrappers, S!OnceTimeout(w) PROVE StoreInv'
  <2>1. /\ answer[w] = "waiting" /\ answer' = [answer EXCEPT ![w] = "answered"]
        /\ UNCHANGED <<use, registered, store, value, subs, topicRefs, check, seen, due, arrived>>
    BY <1>1 DEF S!OnceTimeout, S!maps, S!counts
  <2>2. S!TypeOK'
    BY <2>1 DEF StoreInv, S!TypeOK, S!Answers
  <2>3. topicRefs' = Cardinality(MountedOnes') /\ StoresRegistered'
    BY <2>1 DEF StoreInv, MountedOnes, StoresRegistered, S!Key
  <2>4. Lives' /\ Heard'
    BY <2>1 DEF StoreInv, S!TypeOK, Lives, Heard
  <2> QED
    BY <2>2, <2>3, <2>4 DEF StoreInv
<1>2. CASE S!Dispatch({"topic"}) \/ S!Dispatch({"topic", "event"})
  BY <1>2, DispatchKeeps, StoreSet
<1>3. CASE UNCHANGED storeVars
  BY <1>3 DEF storeVars, StoreInv, S!TypeOK, MountedOnes, StoresRegistered, S!Key, Lives, Heard
<1> QED
  BY <1>1, <1>2, <1>3, OnKeeps, OnceKeeps, ScanSubscribeKeeps, ScanUnsubscribeKeeps, RemoveUnusedKeeps,
     OnceOverKeeps DEF S!Next

\* on, once and scan (client.js): whoever is mounted has been given the last
\* event that arrived for it, a once the first, and references are counted.
THEOREM MountedAreTold == PartsSpec => []MountedHear
<1>1. PartsInit => StoreInv
  BY StoreInitHolds DEF PartsInit
<1>2. StoreInv /\ [PartsNext]_clientVars => StoreInv'
  BY StoreStepKeeps DEF PartsNext, clientVars
<1>3. StoreInv => MountedHear
  BY StoreCardinality DEF StoreInv, Heard, MountedHear, S!MountedHear, MountedOnes
<1> QED
  BY <1>1, <1>2, <1>3, PTL DEF PartsSpec, clientVars

-----------------------------------------------------------------------------
(***************************************************************************)
(* Cursors. A mover's key is its own; until a cap evicts somebody, a mover *)
(* has an entry on every topic it moved on, whoever watches knows the user *)
(* of every entry that it did not sweep, and a position that waits for the *)
(* tick is the latest unless the timer of its entry holds a later one.     *)
(***************************************************************************)

KeysAreOwn ==
    /\ \A m \in Movers : key[m] # None => key[m] <= counter
    /\ \A m, n \in Movers : key[m] # None /\ key[m] = key[n] => m = n

Entered == \A m \in Movers : \A t \in on[m] : key[m] # None /\ entry[t][key[m]] # None

UsersAreKnown ==
    \A t \in Rooms, k \in C!Keys : entry[t][k] # None =>
        \A v \in watching[t] : k \in known[v][t] \cup swept[v][t]

LatestWaits ==
    \A t \in Rooms, k \in C!Keys :
        entry[t][k] # None /\ ~entry[t][k].timer /\ dirty[t][k] # None =>
            dirty[t][k] = entry[t][k].data

\* LatestArrives, of one topic and one user.
Arriving(t, k) ==
    IF entry[t][k] = None
    THEN dirty[t][k] = None /\ \A v \in watching[t] : C!Visible(v, t, k) = None
    ELSE \A v \in watching[t] :
           k \in swept[v][t] \/ C!Visible(v, t, k) = entry[t][k].data \/ C!OnItsWay(t, k)

CursorInv ==
    /\ C!CursorTypeOK
    /\ KeysAreOwn
    /\ ~torn => /\ Entered /\ UsersAreKnown /\ LatestWaits
                /\ \A t \in Rooms, k \in C!Keys : Arriving(t, k)

LEMMA CursorSets ==
    /\ C!Keys = 1..MaxKeys /\ None \notin C!Keys /\ None \notin Data
    /\ C!Entry = [data: Data, cool: BOOLEAN, timer: BOOLEAN] /\ None \notin C!Entry
    /\ C!Nobody = [k \in C!Keys |-> None]
    /\ MaxConns \in Nat \ {0} /\ MaxTopics \in Nat \ {0} /\ MaxKeys \in Nat /\ MaxOps \in Nat
BY CursorConstantsOK DEF C!Keys, C!Entry, C!Nobody

\* As MapOrderProofs shows of Within.
LEMMA CursorOrderShape ==
    ASSUME NEW U, NEW s \in Seq(U), NEW K
    PROVE  C!Within(s, K) \in Seq(U) /\ Len(C!Within(s, K)) <= Len(s)
<1>1. C!Cardinality(U) = Cardinality(U)
  BY DEF C!Cardinality, Cardinality
<1>2. C!Within(s, K) = Within(s, K)
  BY DEF C!Within, C!Nth, C!PlacesOf, C!Cardinality, Within, Nth, PlacesOf, Cardinality
<1> QED
  BY <1>2, WithinShape

LEMMA CursorInitHolds == C!Init => CursorInv
<1> SUFFICES ASSUME C!Init PROVE CursorInv
  OBVIOUS
<1>1. C!Nobody \in [C!Keys -> {None}]
  BY CursorSets
<1>2. C!CursorTypeOK
  <2>1. connOrder \in Seq(Movers) /\ Len(connOrder) <= MaxConns
    BY EmptySeq, CursorSets DEF C!Init
  <2>2. topicOrder \in Seq(Rooms) /\ Len(topicOrder) <= MaxTopics
    BY EmptySeq, CursorSets DEF C!Init
  <2>3. counter \in 0..MaxKeys /\ ops \in 0..MaxOps
    BY CursorSets DEF C!Init
  <2>4. /\ entry \in [Rooms -> [C!Keys -> C!Entry \cup {None}]]
        /\ dirty \in [Rooms -> [C!Keys -> Data \cup {None}]]
        /\ shown \in [Viewers -> [Rooms -> [C!Keys -> Data \cup {None}]]]
    BY <1>1 DEF C!Init
  <2>5. /\ known \in [Viewers -> [Rooms -> SUBSET C!Keys]]
        /\ idle \in [Viewers -> [Rooms -> SUBSET C!Keys]]
        /\ swept \in [Viewers -> [Rooms -> SUBSET C!Keys]]
        /\ watching \in [Rooms -> SUBSET Viewers]
    BY DEF C!Init
  <2> QED
    BY <2>1, <2>2, <2>3, <2>4, <2>5 DEF C!Init, C!CursorTypeOK
<1>3. KeysAreOwn
  BY DEF C!Init, KeysAreOwn
<1>4. Entered /\ UsersAreKnown /\ LatestWaits
  BY CursorSets DEF C!Init, Entered, UsersAreKnown, LatestWaits
<1>5. \A t \in Rooms, k \in C!Keys : Arriving(t, k)
  BY CursorSets DEF C!Init, Arriving, C!Visible
<1> QED
  BY <1>2, <1>3, <1>4, <1>5 DEF CursorInv

-----------------------------------------------------------------------------
(* A mover moves. *)

\* What update leaves in the tables and the flush, at the caps too.
LEMMA UpdateTypes ==
    ASSUME CursorInv, NEW m \in Movers, NEW t \in Rooms, NEW d \in Data, C!Update(m, t, d)
    PROVE  C!CursorTypeOK' /\ KeysAreOwn'
<1> DEFINE evictConn == key[m] = None /\ Len(connOrder) >= MaxConns
           k == IF key[m] = None THEN counter + 1 ELSE key[m]
           evictTopic == ~C!S!Contains(topicOrder, t) /\ Len(topicOrder) >= MaxTopics
           gone == IF evictTopic THEN {Head(topicOrder)} ELSE {}
           entries == [x \in Rooms |-> IF x \in gone THEN C!Nobody ELSE entry[x]]
           order == IF evictTopic THEN Tail(topicOrder) ELSE topicOrder
           line == IF evictConn THEN Tail(connOrder) ELSE connOrder
           e == entries[t][k]
           sends == e = None \/ e.cool
           new == [data |-> d, cool |-> FALSE, timer |-> ~sends]
           cleared == C!ClearFlush(dirty, gone)
<1>1. C!CursorTypeOK /\ KeysAreOwn
  BY DEF CursorInv
<1>2. /\ live' = live /\ ops < MaxOps /\ ops' = ops + 1
      /\ key[m] # None \/ counter < MaxKeys
      /\ counter' = (IF key[m] = None THEN k ELSE counter)
      /\ key' = [x \in Movers |-> IF x = m THEN k
                   ELSE IF evictConn /\ x = Head(connOrder) THEN None ELSE key[x]]
      /\ on' = [x \in Movers |-> IF x = m THEN on[x] \cup {t}
                   ELSE IF evictConn /\ x = Head(connOrder) THEN {} ELSE on[x]]
      /\ connOrder' = (IF key[m] # None THEN connOrder ELSE Append(line, m))
  BY DEF C!Update
<1>3. /\ topicOrder' = (IF C!S!Contains(order, t) THEN order ELSE Append(order, t))
      /\ entry' = [entries EXCEPT ![t][k] = new]
      /\ cadence' = [x \in Rooms |-> cadence[x] \/ x \in gone]
      /\ \/ dirty' = [cleared EXCEPT ![t][k] = d] /\ tickTimer' = TRUE
         \/ dirty' = cleared /\ tickTimer' = tickTimer
      /\ dirtyTopics' \in {(dirtyTopics \ gone) \cup {t}, dirtyTopics \ gone}
      /\ \A v \in Viewers : known'[v] \in {[known[v] EXCEPT ![t] = @ \cup {k}], known[v]}
      /\ known' = [v \in Viewers |-> known'[v]]
      /\ torn' \in BOOLEAN
      /\ UNCHANGED <<live, watching, shown, idle, swept>>
  <2>1. /\ topicOrder' = (IF C!S!Contains(order, t) THEN order ELSE Append(order, t))
        /\ entry' = [entries EXCEPT ![t][k] = new]
        /\ cadence' = [x \in Rooms |-> cadence[x] \/ x \in gone]
        /\ \/ dirty' = [cleared EXCEPT ![t][k] = d] /\ tickTimer' = TRUE
           \/ dirty' = cleared /\ tickTimer' = tickTimer
        /\ dirtyTopics' \in {(dirtyTopics \ gone) \cup {t}, dirtyTopics \ gone}
        /\ UNCHANGED <<live, watching, shown, idle, swept>>
    BY DEF C!Update, C!BroadcastOf
  <2>2. known' = [v \in Viewers |-> IF t \notin on[m] /\ v \in watching[t]
                                    THEN [known[v] EXCEPT ![t] = @ \cup {k}] ELSE known[v]]
    BY DEF C!Update
  <2>3. torn' \in BOOLEAN
    BY <1>1 DEF C!Update, C!CursorTypeOK
  <2> QED
    BY <2>1, <2>2, <2>3
<1>4. k \in C!Keys /\ (key[m] = None => k = counter + 1) /\ (key[m] # None => k = key[m])
  BY <1>1, <1>2, CursorSets DEF C!CursorTypeOK
<1>5. entries \in [Rooms -> [C!Keys -> C!Entry \cup {None}]]
  BY <1>1, CursorSets DEF C!CursorTypeOK
<1>6. new \in C!Entry
  BY CursorSets
<1>7. cleared \in [Rooms -> [C!Keys -> Data \cup {None}]]
  BY <1>1, CursorSets DEF C!CursorTypeOK, C!ClearFlush
<1>8. connOrder' \in Seq(Movers) /\ Len(connOrder') <= MaxConns
  <2>1. CASE key[m] # None
    BY <1>1, <1>2, <2>1 DEF C!CursorTypeOK
  <2>2. CASE evictConn
    <3>1. connOrder # <<>> /\ Len(connOrder) = MaxConns
      BY <1>1, <2>2, CursorSets, EmptySeq DEF C!CursorTypeOK
    <3>2. line \in Seq(Movers) /\ Len(line) = MaxConns - 1
      BY <1>1, <2>2, <3>1, HeadTailProperties DEF C!CursorTypeOK
    <3>3. connOrder' = Append(line, m)
      BY <1>2, <2>2
    <3> HIDE DEF line
    <3> QED
      BY <3>2, <3>3, CursorSets, AppendProperties, LenProperties
  <2>3. CASE key[m] = None /\ ~evictConn
    <3>1. line = connOrder /\ connOrder' = Append(connOrder, m)
      BY <1>2, <2>3
    <3>2. Len(connOrder) < MaxConns
      BY <1>1, <2>3, CursorSets, LenProperties DEF C!CursorTypeOK
    <3> QED
      BY <1>1, <3>1, <3>2, CursorSets, AppendProperties, LenProperties DEF C!CursorTypeOK
  <2> QED
    BY <2>1, <2>2, <2>3
<1>9. topicOrder' \in Seq(Rooms) /\ Len(topicOrder') <= MaxTopics
  <2>1. CASE evictTopic
    <3>1. topicOrder # <<>> /\ Len(topicOrder) = MaxTopics
      BY <1>1, <2>1, CursorSets, EmptySeq DEF C!CursorTypeOK
    <3>2. order \in Seq(Rooms) /\ Len(order) = MaxTopics - 1
      BY <1>1, <2>1, <3>1, HeadTailProperties DEF C!CursorTypeOK
    <3> HIDE DEF order
    <3> QED
      BY <1>3, <3>2, CursorSets, AppendProperties, LenProperties
  <2>2. CASE ~evictTopic
    <3>1. order = topicOrder
      BY <2>2
    <3>2. C!S!Contains(order, t) \/ Len(topicOrder) < MaxTopics
      BY <1>1, <2>2, <3>1, CursorSets, LenProperties DEF C!CursorTypeOK
    <3> HIDE DEF order
    <3> QED
      BY <1>1, <1>3, <3>1, <3>2, CursorSets, AppendProperties, LenProperties DEF C!CursorTypeOK
  <2> QED
    BY <2>1, <2>2
<1> HIDE DEF k, evictConn, evictTopic, gone, entries, order, line, e, sends, new, cleared
<1>10. entry' \in [Rooms -> [C!Keys -> C!Entry \cup {None}]]
  BY <1>3, <1>4, <1>5, <1>6
<1>11. /\ dirty' \in [Rooms -> [C!Keys -> Data \cup {None}]] /\ tickTimer' \in BOOLEAN
       /\ dirtyTopics' \subseteq Rooms
  <2>1. dirty' \in [Rooms -> [C!Keys -> Data \cup {None}]]
    BY <1>3, <1>4, <1>7
  <2>2. tickTimer' \in BOOLEAN
    BY <1>1, <1>3 DEF C!CursorTypeOK
  <2>3. dirtyTopics' \subseteq Rooms
    <3>1. dirtyTopics' = (dirtyTopics \ gone) \cup {t} \/ dirtyTopics' = dirtyTopics \ gone
      BY <1>3
    <3> QED
      BY <1>1, <3>1 DEF C!CursorTypeOK
  <2> QED
    BY <2>1, <2>2, <2>3
<1>12. cadence' \in [Rooms -> BOOLEAN]
  BY <1>3
<1>13. known' \in [Viewers -> [Rooms -> SUBSET C!Keys]]
  <2>1. ASSUME NEW v \in Viewers PROVE known'[v] \in [Rooms -> SUBSET C!Keys]
    <3>1. known[v] \in [Rooms -> SUBSET C!Keys]
      BY <1>1 DEF C!CursorTypeOK
    <3>2. known'[v] = known[v] \/ known'[v] = [known[v] EXCEPT ![t] = @ \cup {k}]
      BY <1>3
    <3> QED
      BY <1>4, <3>1, <3>2
  <2> QED
    BY <1>3, <2>1
<1>14. counter' \in 0..MaxKeys /\ ops' \in 0..MaxOps
  BY <1>1, <1>2, <1>4, CursorSets DEF C!CursorTypeOK
<1>15. key' \in [Movers -> C!Keys \cup {None}] /\ on' \in [Movers -> SUBSET Rooms]
  BY <1>1, <1>2, <1>4 DEF C!CursorTypeOK
<1>16. KeysAreOwn'
  <2>1. \A n \in Movers : key'[n] # None => (n = m /\ key'[n] = k) \/ (n # m /\ key'[n] = key[n])
    BY <1>2
  <2>2. \A n \in Movers : n # m /\ key[n] # None => key[n] # k
    BY <1>1, <1>4, CursorSets DEF KeysAreOwn, C!CursorTypeOK
  <2>3. counter <= counter' /\ k <= counter'
    BY <1>1, <1>2, <1>4, CursorSets DEF KeysAreOwn, C!CursorTypeOK
  <2>4. \A n \in Movers : key[n] # None => key[n] <= counter'
    BY <1>1, <1>14, <2>3, CursorSets DEF KeysAreOwn, C!CursorTypeOK
  <2> QED
    BY <1>1, <2>1, <2>2, <2>3, <2>4 DEF KeysAreOwn
<1> QED
  BY <1>1, <1>3, <1>8, <1>9, <1>10, <1>11, <1>12, <1>13, <1>14, <1>15, <1>16 DEF C!CursorTypeOK

\* While nothing is torn update enters one position and either lets it wait for
\* the tick, or keeps it for the timer of its entry.
LEMMA UpdateStep ==
    ASSUME CursorInv, NEW m \in Movers, NEW t \in Rooms, NEW d \in Data, C!Update(m, t, d), ~torn'
    PROVE  LET k == IF key[m] = None THEN counter + 1 ELSE key[m]
               sends == entry[t][k] = None \/ entry[t][k].cool
           IN  /\ ~torn /\ k \in C!Keys
               /\ key' = [key EXCEPT ![m] = k] /\ on' = [on EXCEPT ![m] = @ \cup {t}]
               /\ entry' = [entry EXCEPT ![t][k] = [data |-> d, cool |-> FALSE, timer |-> ~sends]]
               /\ sends => /\ dirty' = [dirty EXCEPT ![t][k] = d] /\ tickTimer'
                           /\ dirtyTopics' = dirtyTopics \cup {t}
               /\ ~sends => UNCHANGED <<dirty, dirtyTopics, tickTimer>>
               /\ known' = [v \in Viewers |-> IF t \notin on[m] /\ v \in watching[t]
                                              THEN [known[v] EXCEPT ![t] = @ \cup {k}] ELSE known[v]]
               /\ UNCHANGED <<watching, shown, swept>>
<1> DEFINE evictConn == key[m] = None /\ Len(connOrder) >= MaxConns
           k == IF key[m] = None THEN counter + 1 ELSE key[m]
           evictTopic == ~C!S!Contains(topicOrder, t) /\ Len(topicOrder) >= MaxTopics
           gone == IF evictTopic THEN {Head(topicOrder)} ELSE {}
           entries == [x \in Rooms |-> IF x \in gone THEN C!Nobody ELSE entry[x]]
           sends == entries[t][k] = None \/ entries[t][k].cool
           cleared == C!ClearFlush(dirty, gone)
<1>1. C!CursorTypeOK
  BY DEF CursorInv
<1>2. ~torn /\ ~evictConn /\ ~evictTopic
  BY DEF C!Update
<1>3. gone = {}
  BY <1>2
<1>4. entries = entry /\ cleared = dirty
  <2> HIDE DEF gone
  <2> QED
    BY <1>1, <1>3 DEF C!CursorTypeOK, C!ClearFlush
<1>5. k \in C!Keys
  <2>1. key[m] # None \/ counter < MaxKeys
    BY DEF C!Update
  <2> QED
    BY <1>1, <2>1, CursorSets DEF C!CursorTypeOK
<1>6. key' = [key EXCEPT ![m] = k] /\ on' = [on EXCEPT ![m] = @ \cup {t}]
  <2>1. /\ key' = [x \in Movers |-> IF x = m THEN k ELSE key[x]]
        /\ on' = [x \in Movers |-> IF x = m THEN on[x] \cup {t} ELSE on[x]]
    BY <1>2 DEF C!Update
  <2> HIDE DEF k
  <2> QED
    BY <1>1, <2>1 DEF C!CursorTypeOK
<1>7. /\ entry' = [entries EXCEPT ![t][k] = [data |-> d, cool |-> FALSE, timer |-> ~sends]]
      /\ IF sends THEN /\ dirty' = [cleared EXCEPT ![t][k] = d] /\ tickTimer'
                       /\ dirtyTopics' = (dirtyTopics \ gone) \cup {t}
         ELSE dirty' = cleared /\ dirtyTopics' = dirtyTopics \ gone /\ tickTimer' = tickTimer
      /\ known' = [v \in Viewers |-> IF t \notin on[m] /\ v \in watching[t]
                                     THEN [known[v] EXCEPT ![t] = @ \cup {k}] ELSE known[v]]
      /\ UNCHANGED <<watching, shown, swept>>
  BY DEF C!Update, C!BroadcastOf
<1> HIDE DEF k, gone, entries, cleared, evictConn, evictTopic
<1>8. dirtyTopics \ gone = dirtyTopics
  BY <1>3
<1> QED
  BY <1>2, <1>4, <1>5, <1>6, <1>7, <1>8 DEF k

LEMMA UpdateKeeps ==
    ASSUME CursorInv, NEW m \in Movers, NEW t \in Rooms, NEW d \in Data, C!Update(m, t, d)
    PROVE  CursorInv'
<1> SUFFICES ASSUME ~torn'
             PROVE  /\ Entered' /\ UsersAreKnown' /\ LatestWaits'
                    /\ \A s \in Rooms, j \in C!Keys : Arriving(s, j)'
  BY UpdateTypes DEF CursorInv, C!Keys
<1> DEFINE k == IF key[m] = None THEN counter + 1 ELSE key[m]
           sends == entry[t][k] = None \/ entry[t][k].cool
           new == [data |-> d, cool |-> FALSE, timer |-> ~sends]
<1>1. C!CursorTypeOK /\ C!CursorTypeOK' /\ KeysAreOwn
  BY UpdateTypes DEF CursorInv
<1>2. /\ ~torn /\ k \in C!Keys
      /\ key' = [key EXCEPT ![m] = k] /\ on' = [on EXCEPT ![m] = @ \cup {t}]
      /\ entry' = [entry EXCEPT ![t][k] = new]
      /\ sends => /\ dirty' = [dirty EXCEPT ![t][k] = d] /\ tickTimer'
                  /\ dirtyTopics' = dirtyTopics \cup {t}
      /\ ~sends => UNCHANGED <<dirty, dirtyTopics, tickTimer>>
      /\ known' = [v \in Viewers |-> IF t \notin on[m] /\ v \in watching[t]
                                     THEN [known[v] EXCEPT ![t] = @ \cup {k}] ELSE known[v]]
      /\ UNCHANGED <<watching, shown, swept>>
  BY UpdateStep
<1>3. Entered /\ UsersAreKnown /\ LatestWaits /\ \A s \in Rooms, j \in C!Keys : Arriving(s, j)
  BY <1>2 DEF CursorInv
<1>4. new # None /\ new.data = d /\ (new.timer <=> ~sends)
  <2>1. new \in C!Entry
    BY CursorSets
  <2>2. new.data = d /\ new.timer = ~sends
    BY Zenon
  <2>3. new.timer <=> ~sends
    BY <2>2, Zenon
  <2> HIDE DEF new
  <2> QED
    BY <2>1, <2>2, <2>3, CursorSets, Zenon
<1>5. key[m] # None => k = key[m]
  OBVIOUS
<1>6. \A s \in Rooms, j \in C!Keys : entry'[s][j] = IF s = t /\ j = k THEN new ELSE entry[s][j]
  BY <1>1, <1>2 DEF C!CursorTypeOK
<1>7. \A s \in Rooms, j \in C!Keys :
        dirty'[s][j] = IF s = t /\ j = k /\ sends THEN d ELSE dirty[s][j]
  <2>1. CASE sends
    BY <1>1, <1>2, <2>1 DEF C!CursorTypeOK
  <2>2. CASE ~sends
    BY <1>2, <2>2
  <2> QED
    BY <2>1, <2>2
<1>8. \A v \in Viewers, s \in Rooms, j \in C!Keys :
        j \in known'[v][s] <=> j \in known[v][s] \/ (s = t /\ j = k /\ t \notin on[m] /\ v \in watching[t])
  BY <1>1, <1>2 DEF C!CursorTypeOK
<1> HIDE DEF k, new, sends
<1>9. Entered'
  <2> SUFFICES ASSUME NEW n \in Movers, NEW s \in on'[n] PROVE key'[n] # None /\ entry'[s][key'[n]] # None
    BY DEF Entered
  <2>1. s \in Rooms
    BY <1>1 DEF C!CursorTypeOK
  <2>2. CASE n = m /\ s = t
    BY <1>1, <1>2, <1>4, <1>6, <2>2, CursorSets DEF C!CursorTypeOK
  <2>3. CASE ~(n = m /\ s = t)
    <3>1. s \in on[n]
      BY <1>1, <1>2, <2>3 DEF C!CursorTypeOK
    <3>2. key[n] # None /\ entry[s][key[n]] # None /\ key[n] \in C!Keys
      BY <1>1, <1>3, <3>1 DEF Entered, C!CursorTypeOK
    <3>3. key'[n] = key[n]
      BY <1>1, <1>2, <1>5, <3>2 DEF C!CursorTypeOK
    <3> QED
      BY <1>4, <1>6, <2>1, <3>2, <3>3
  <2> QED
    BY <2>2, <2>3
<1>10. UsersAreKnown'
  <2> SUFFICES ASSUME NEW s \in Rooms, NEW j \in C!Keys, entry'[s][j] # None, NEW v \in watching'[s]
               PROVE  j \in known'[v][s] \cup swept'[v][s]
    BY DEF UsersAreKnown, C!Keys
  <2>1. v \in Viewers /\ v \in watching[s]
    BY <1>1, <1>2 DEF C!CursorTypeOK
  <2>2. CASE s = t /\ j = k /\ t \notin on[m]
    BY <1>8, <2>1, <2>2
  <2>3. CASE s = t /\ j = k /\ t \in on[m]
    <3>1. entry[t][k] # None
      BY <1>3, <1>5, <2>3 DEF Entered
    <3> QED
      BY <1>2, <1>3, <1>8, <2>1, <2>3, <3>1 DEF UsersAreKnown
  <2>4. CASE ~(s = t /\ j = k)
    BY <1>2, <1>3, <1>6, <1>8, <2>1, <2>4 DEF UsersAreKnown
  <2> QED
    BY <2>2, <2>3, <2>4
<1>11. LatestWaits'
  <2> SUFFICES ASSUME NEW s \in Rooms, NEW j \in C!Keys, entry'[s][j] # None, ~entry'[s][j].timer,
                      dirty'[s][j] # None
               PROVE  dirty'[s][j] = entry'[s][j].data
    BY DEF LatestWaits, C!Keys
  <2>1. CASE s = t /\ j = k
    BY <1>4, <1>6, <1>7, <2>1
  <2>2. CASE ~(s = t /\ j = k)
    BY <1>3, <1>6, <1>7, <2>2 DEF LatestWaits
  <2> QED
    BY <2>1, <2>2
<1>12. ASSUME NEW s \in Rooms, NEW j \in C!Keys PROVE Arriving(s, j)'
  <2>1. Arriving(s, j)
    BY <1>3
  <2>2. watching' = watching /\ watching[s] \subseteq Viewers
    BY <1>1, <1>2 DEF C!CursorTypeOK
  <2>3. CASE s = t /\ j = k
    <3>1. C!OnItsWay(s, j)'
      <4>1. entry'[s][j] = new
        BY <1>6, <2>3
      <4>2. CASE sends
        <5>1. dirty'[s][j] = d /\ s \in dirtyTopics' /\ tickTimer'
          BY <1>2, <1>7, <2>3, <4>2
        <5> QED
          BY <1>4, <4>1, <5>1 DEF C!OnItsWay
      <4>3. CASE ~sends
        BY <1>4, <4>1, <4>3 DEF C!OnItsWay
      <4> QED
        BY <4>2, <4>3
    <3>2. entry'[s][j] # None
      BY <1>4, <1>6, <2>3
    <3> QED
      BY <3>1, <3>2 DEF Arriving
  <2>4. CASE ~(s = t /\ j = k)
    <3>1. entry'[s][j] = entry[s][j] /\ dirty'[s][j] = dirty[s][j]
      BY <1>6, <1>7, <2>4
    <3>2. \A v \in watching[s] : C!Visible(v, s, j)' = C!Visible(v, s, j)
      BY <1>2, <1>8, <2>2, <2>4 DEF C!Visible
    <3>3. C!OnItsWay(s, j) => C!OnItsWay(s, j)'
      BY <1>2, <3>1 DEF C!OnItsWay
    <3> QED
      BY <1>2, <2>1, <2>2, <3>1, <3>2, <3>3 DEF Arriving
  <2> QED
    BY <2>3, <2>4
<1> QED
  BY <1>9, <1>10, <1>11, <1>12

-----------------------------------------------------------------------------
(* The throttles. *)

\* A step that changes no position, no timer and no screen.
LEMMA NothingMoves ==
    ASSUME CursorInv, C!CursorTypeOK',
           UNCHANGED <<key, on, counter, dirty, dirtyTopics, tickTimer, watching, known, shown,
                       swept, torn>>,
           \A s \in Rooms, j \in C!Keys :
             /\ entry'[s][j] = None <=> entry[s][j] = None
             /\ entry[s][j] # None => /\ entry'[s][j].data = entry[s][j].data
                                      /\ entry'[s][j].timer = entry[s][j].timer
    PROVE  CursorInv'
<1>1. C!CursorTypeOK /\ KeysAreOwn
  BY DEF CursorInv
<1>2. KeysAreOwn'
  BY <1>1 DEF KeysAreOwn
<1> SUFFICES ASSUME ~torn'
             PROVE  /\ Entered' /\ UsersAreKnown' /\ LatestWaits'
                    /\ \A s \in Rooms, j \in C!Keys : Arriving(s, j)'
  BY <1>2 DEF CursorInv, C!Keys
<1>3. Entered /\ UsersAreKnown /\ LatestWaits /\ \A s \in Rooms, j \in C!Keys : Arriving(s, j)
  BY DEF CursorInv
<1>4. Entered'
  BY <1>1, <1>3 DEF Entered, C!CursorTypeOK
<1>5. UsersAreKnown'
  <2> SUFFICES ASSUME NEW s \in Rooms, NEW j \in C!Keys, entry'[s][j] # None, NEW v \in watching'[s]
               PROVE  j \in known'[v][s] \cup swept'[v][s]
    BY DEF UsersAreKnown, C!Keys
  <2> QED
    BY <1>3 DEF UsersAreKnown
<1>6. LatestWaits'
  <2> SUFFICES ASSUME NEW s \in Rooms, NEW j \in C!Keys, entry'[s][j] # None, ~entry'[s][j].timer,
                      dirty'[s][j] # None
               PROVE  dirty'[s][j] = entry'[s][j].data
    BY DEF LatestWaits, C!Keys
  <2> QED
    BY <1>3 DEF LatestWaits
<1>7. ASSUME NEW s \in Rooms, NEW j \in C!Keys PROVE Arriving(s, j)'
  <2>1. \A v : C!Visible(v, s, j)' = C!Visible(v, s, j)
    BY DEF C!Visible
  <2>2. entry[s][j] # None /\ C!OnItsWay(s, j) => C!OnItsWay(s, j)'
    BY DEF C!OnItsWay
  <2> QED
    BY <1>3, <2>1, <2>2 DEF Arriving
<1> QED
  BY <1>4, <1>5, <1>6, <1>7

LEMMA CoolKeeps ==
    ASSUME CursorInv, NEW t \in Rooms, NEW k \in C!Keys, C!Cool(t, k)
    PROVE  CursorInv'
<1>1. C!CursorTypeOK
  BY DEF CursorInv
<1>2. /\ UNCHANGED <<live, key, on, connOrder, counter, topicOrder, dirty, cadence, dirtyTopics,
                     tickTimer, watching, known, shown, idle, swept, ops, torn>>
      /\ entry[t][k] # None /\ entry' = [entry EXCEPT ![t][k].cool = TRUE]
  BY DEF C!Cool, C!flush, C!screens
<1>3. entry[t][k] \in C!Entry
  BY <1>1, <1>2 DEF C!CursorTypeOK
<1> DEFINE new == [entry[t][k] EXCEPT !.cool = TRUE]
<1>4. new \in C!Entry /\ new.data = entry[t][k].data /\ new.timer = entry[t][k].timer
  BY <1>3, CursorSets
<1> HIDE DEF new
<1>5. entry' = [entry EXCEPT ![t][k] = new]
  BY <1>2 DEF new
<1>6. \A s \in Rooms, j \in C!Keys : entry'[s][j] = IF s = t /\ j = k THEN new ELSE entry[s][j]
  BY <1>1, <1>5 DEF C!CursorTypeOK
<1>7. entry' \in [Rooms -> [C!Keys -> C!Entry \cup {None}]]
  BY <1>1, <1>4, <1>5 DEF C!CursorTypeOK
<1>8. C!CursorTypeOK'
  BY <1>1, <1>2, <1>7 DEF C!CursorTypeOK
<1>9. \A s \in Rooms, j \in C!Keys :
        /\ entry'[s][j] = None <=> entry[s][j] = None
        /\ entry[s][j] # None => /\ entry'[s][j].data = entry[s][j].data
                                 /\ entry'[s][j].timer = entry[s][j].timer
  <2>1. new # None
    BY <1>4, CursorSets
  <2>2. TAKE s \in Rooms, j \in C!Keys
  <2>3. CASE s = t /\ j = k
    BY <1>2, <1>4, <1>6, <2>1, <2>3
  <2>4. CASE ~(s = t /\ j = k)
    <3>1. entry'[s][j] = entry[s][j]
      BY <1>6, <2>4
    <3> QED
      BY <3>1
  <2> QED
    BY <2>3, <2>4
<1> QED
  BY <1>2, <1>8, <1>9, NothingMoves

LEMMA BeatKeeps ==
    ASSUME CursorInv, NEW t \in Rooms, C!Beat(t)
    PROVE  CursorInv'
<1>1. C!CursorTypeOK
  BY DEF CursorInv
<1>2. /\ UNCHANGED <<live, key, on, connOrder, counter, entry, topicOrder, dirty, dirtyTopics,
                     tickTimer, watching, known, shown, idle, swept, ops, torn>>
      /\ cadence' = [cadence EXCEPT ![t] = TRUE]
  BY DEF C!Beat, C!tables, C!screens
<1>3. C!CursorTypeOK'
  BY <1>1, <1>2 DEF C!CursorTypeOK
<1> QED
  BY <1>2, <1>3, NothingMoves

\* What the timer broadcasts waits for the tick.
LEMMA TrailingKeeps ==
    ASSUME CursorInv, NEW t \in Rooms, NEW k \in C!Keys, C!Trailing(t, k)
    PROVE  CursorInv'
<1> DEFINE new == [entry[t][k] EXCEPT !.cool = FALSE, !.timer = FALSE]
<1>1. C!CursorTypeOK /\ KeysAreOwn
  BY DEF CursorInv
<1>2. /\ UNCHANGED <<live, key, on, connOrder, counter, topicOrder, cadence, watching, known, shown,
                     idle, swept, ops, torn>>
      /\ entry[t][k] # None /\ entry' = [entry EXCEPT ![t][k] = new]
      /\ dirty' = [dirty EXCEPT ![t][k] = entry[t][k].data] /\ tickTimer' = TRUE
      /\ dirtyTopics' = dirtyTopics \cup {t}
  BY DEF C!Trailing, C!BroadcastOf, C!screens
<1>3. entry[t][k] \in C!Entry
  BY <1>1, <1>2 DEF C!CursorTypeOK
<1>4. new \in C!Entry /\ new.data = entry[t][k].data
  BY <1>3, CursorSets
<1>5. entry[t][k].data \in Data
  BY <1>3, CursorSets
<1> HIDE DEF new
<1>6. C!CursorTypeOK'
  <2>1. entry' \in [Rooms -> [C!Keys -> C!Entry \cup {None}]]
    BY <1>1, <1>2, <1>4 DEF C!CursorTypeOK
  <2>2. dirty' \in [Rooms -> [C!Keys -> Data \cup {None}]]
    BY <1>1, <1>2, <1>5 DEF C!CursorTypeOK
  <2> QED
    BY <1>1, <1>2, <2>1, <2>2 DEF C!CursorTypeOK
<1>7. KeysAreOwn'
  BY <1>1, <1>2 DEF KeysAreOwn
<1> SUFFICES ASSUME ~torn'
             PROVE  /\ Entered' /\ UsersAreKnown' /\ LatestWaits'
                    /\ \A s \in Rooms, j \in C!Keys : Arriving(s, j)'
  BY <1>6, <1>7 DEF CursorInv, C!Keys
<1>8. Entered /\ UsersAreKnown /\ LatestWaits /\ \A s \in Rooms, j \in C!Keys : Arriving(s, j)
  BY <1>2 DEF CursorInv
<1>9. \A s \in Rooms, j \in C!Keys :
        /\ entry'[s][j] = IF s = t /\ j = k THEN new ELSE entry[s][j]
        /\ dirty'[s][j] = IF s = t /\ j = k THEN new.data ELSE dirty[s][j]
  BY <1>1, <1>2, <1>4 DEF C!CursorTypeOK
<1>10. new # None
  BY <1>4, CursorSets
<1>11. Entered'
  <2> SUFFICES ASSUME NEW n \in Movers, NEW s \in on[n] PROVE key[n] # None /\ entry'[s][key[n]] # None
    BY <1>2 DEF Entered
  <2>1. s \in Rooms /\ key[n] # None /\ entry[s][key[n]] # None /\ key[n] \in C!Keys
    BY <1>1, <1>8 DEF Entered, C!CursorTypeOK
  <2> QED
    BY <1>9, <1>10, <2>1
<1>12. UsersAreKnown'
  <2> SUFFICES ASSUME NEW s \in Rooms, NEW j \in C!Keys, entry'[s][j] # None, NEW v \in watching'[s]
               PROVE  j \in known'[v][s] \cup swept'[v][s]
    BY DEF UsersAreKnown, C!Keys
  <2>1. entry[s][j] # None
    BY <1>2, <1>9
  <2> QED
    BY <1>2, <1>8, <2>1 DEF UsersAreKnown
<1>13. LatestWaits'
  <2> SUFFICES ASSUME NEW s \in Rooms, NEW j \in C!Keys, entry'[s][j] # None, ~entry'[s][j].timer,
                      dirty'[s][j] # None
               PROVE  dirty'[s][j] = entry'[s][j].data
    BY DEF LatestWaits, C!Keys
  <2> QED
    BY <1>8, <1>9 DEF LatestWaits
<1>14. ASSUME NEW s \in Rooms, NEW j \in C!Keys PROVE Arriving(s, j)'
  <2>1. CASE s = t /\ j = k
    <3>1. dirty'[s][j] = entry'[s][j].data /\ s \in dirtyTopics' /\ tickTimer'
      BY <1>2, <1>9, <2>1
    <3>2. entry'[s][j] # None
      BY <1>9, <1>10, <2>1
    <3> QED
      BY <3>1, <3>2 DEF Arriving, C!OnItsWay
  <2>2. CASE ~(s = t /\ j = k)
    <3>1. entry'[s][j] = entry[s][j] /\ dirty'[s][j] = dirty[s][j]
      BY <1>9, <2>2
    <3>2. \A v : C!Visible(v, s, j)' = C!Visible(v, s, j)
      BY <1>2 DEF C!Visible
    <3>3. C!OnItsWay(s, j) => C!OnItsWay(s, j)'
      BY <1>2, <3>1 DEF C!OnItsWay
    <3> QED
      BY <1>2, <1>8, <3>1, <3>2, <3>3 DEF Arriving
  <2> QED
    BY <2>1, <2>2
<1> QED
  BY <1>11, <1>12, <1>13, <1>14

\* A frame shows what was dirty to everybody who watches; what had to wait for
\* the window of its topic is timed again.
LEMMA FrameKeeps ==
    ASSUME CursorInv, C!Tick
    PROVE  CursorInv'
<1> DEFINE ripe == {t \in dirtyTopics : cadence[t] /\ dirty[t] # C!Nobody}
<1>1. C!CursorTypeOK /\ KeysAreOwn
  BY DEF CursorInv
<1>2. UNCHANGED <<live, key, on, connOrder, counter, entry, topicOrder, watching, known, swept, ops,
                  torn>>
  BY DEF C!Tick, C!tables
<1>3. /\ shown' = [v \in Viewers |-> [t \in Rooms |-> [k \in C!Keys |->
                     IF t \in ripe /\ v \in watching[t] /\ dirty[t][k] # None THEN dirty[t][k]
                     ELSE shown[v][t][k]]]]
      /\ idle' = [v \in Viewers |-> [t \in Rooms |->
                     IF t \in ripe /\ v \in watching[t] THEN {k \in idle[v][t] : dirty[t][k] = None}
                     ELSE idle[v][t]]]
      /\ dirty' = [t \in Rooms |-> IF t \in ripe THEN C!Nobody ELSE dirty[t]]
      /\ cadence' = [t \in Rooms |-> cadence[t] /\ t \notin ripe]
      /\ dirtyTopics' = {t \in dirtyTopics \ ripe : dirty[t] # C!Nobody}
      /\ tickTimer' = \E t \in dirtyTopics \ ripe : dirty[t] # C!Nobody
  BY DEF C!Tick, C!ClearFlush, C!Rearm
<1> HIDE DEF ripe
<1>4. C!CursorTypeOK'
  <2>1. shown' \in [Viewers -> [Rooms -> [C!Keys -> Data \cup {None}]]]
    BY <1>1, <1>3 DEF C!CursorTypeOK
  <2>2. idle' \in [Viewers -> [Rooms -> SUBSET C!Keys]]
    BY <1>1, <1>3 DEF C!CursorTypeOK
  <2>3. dirty' \in [Rooms -> [C!Keys -> Data \cup {None}]]
    BY <1>1, <1>3, CursorSets DEF C!CursorTypeOK
  <2>4. cadence' \in [Rooms -> BOOLEAN]
    BY <1>3
  <2>5. dirtyTopics' \subseteq Rooms
    BY <1>1, <1>3 DEF C!CursorTypeOK
  <2>6. tickTimer' \in BOOLEAN
    BY <1>3
  <2> QED
    BY <1>1, <1>2, <2>1, <2>2, <2>3, <2>4, <2>5, <2>6 DEF C!CursorTypeOK
<1>5. KeysAreOwn'
  BY <1>1, <1>2 DEF KeysAreOwn
<1> SUFFICES ASSUME ~torn'
             PROVE  /\ Entered' /\ UsersAreKnown' /\ LatestWaits'
                    /\ \A s \in Rooms, j \in C!Keys : Arriving(s, j)'
  BY <1>4, <1>5 DEF CursorInv, C!Keys
<1>6. Entered /\ UsersAreKnown /\ LatestWaits /\ \A s \in Rooms, j \in C!Keys : Arriving(s, j)
  BY <1>2 DEF CursorInv
<1>7. \A s \in Rooms, j \in C!Keys : dirty'[s][j] = IF s \in ripe THEN None ELSE dirty[s][j]
  BY <1>3, CursorSets
<1>8. \A v \in Viewers, s \in Rooms, j \in C!Keys :
        shown'[v][s][j] = IF s \in ripe /\ v \in watching[s] /\ dirty[s][j] # None THEN dirty[s][j]
                          ELSE shown[v][s][j]
  BY <1>3
<1>9. \A s \in Rooms, j \in C!Keys :
        s \in dirtyTopics /\ s \notin ripe /\ dirty[s][j] # None => s \in dirtyTopics' /\ tickTimer'
  <2> TAKE s \in Rooms, j \in C!Keys
  <2> HAVE s \in dirtyTopics /\ s \notin ripe /\ dirty[s][j] # None
  <2>1. dirty[s] # C!Nobody
    BY CursorSets
  <2> QED
    BY <1>3, <2>1
<1>10. Entered'
  BY <1>2, <1>6 DEF Entered
<1>11. UsersAreKnown'
  BY <1>2, <1>6 DEF UsersAreKnown, C!Keys
<1>12. LatestWaits'
  <2> SUFFICES ASSUME NEW s \in Rooms, NEW j \in C!Keys, entry'[s][j] # None, ~entry'[s][j].timer,
                      dirty'[s][j] # None
               PROVE  dirty'[s][j] = entry'[s][j].data
    BY DEF LatestWaits, C!Keys
  <2> QED
    BY <1>2, <1>6, <1>7 DEF LatestWaits
<1>13. ASSUME NEW s \in Rooms, NEW j \in C!Keys PROVE Arriving(s, j)'
  <2>1. watching[s] \subseteq Viewers
    BY <1>1 DEF C!CursorTypeOK
  <2>2. CASE entry[s][j] = None
    <3>1. dirty[s][j] = None /\ \A v \in watching[s] : C!Visible(v, s, j) = None
      BY <1>6, <2>2 DEF Arriving
    <3>2. dirty'[s][j] = None
      BY <1>7, <3>1
    <3>3. \A v \in watching[s] : C!Visible(v, s, j)' = None
      BY <1>2, <1>8, <2>1, <3>1 DEF C!Visible
    <3> QED
      BY <1>2, <2>2, <3>2, <3>3 DEF Arriving
  <2>3. CASE entry[s][j] # None
    <3> SUFFICES ASSUME NEW v \in watching[s], j \notin swept[v][s]
                 PROVE  C!Visible(v, s, j)' = entry[s][j].data \/ C!OnItsWay(s, j)'
      BY <1>2, <2>3 DEF Arriving
    <3>1. C!Visible(v, s, j) = entry[s][j].data \/ C!OnItsWay(s, j)
      BY <1>6, <2>3 DEF Arriving
    <3>2. j \in known[v][s]
      BY <1>6, <2>3 DEF UsersAreKnown
    <3>3. C!Visible(v, s, j) = shown[v][s][j] /\ C!Visible(v, s, j)' = shown'[v][s][j]
      BY <1>2, <3>2 DEF C!Visible
    <3>4. CASE entry[s][j].timer
      BY <1>2, <3>4 DEF C!OnItsWay
    <3>5. CASE ~entry[s][j].timer /\ dirty[s][j] = None
      <4>1. entry[s][j].data # None
        <5>1. entry[s][j] \in C!Entry
          BY <1>1, <2>3 DEF C!CursorTypeOK
        <5> QED
          BY <5>1, CursorSets
      <4>2. shown[v][s][j] = entry[s][j].data
        BY <3>1, <3>3, <3>5, <4>1 DEF C!OnItsWay
      <4> QED
        BY <1>8, <2>1, <3>3, <3>5, <4>2
    <3>6. CASE ~entry[s][j].timer /\ dirty[s][j] # None
      <4>1. dirty[s][j] = entry[s][j].data
        BY <1>6, <2>3, <3>6 DEF LatestWaits
      <4>2. CASE s \in ripe
        BY <1>8, <2>1, <3>3, <3>6, <4>1, <4>2
      <4>3. CASE s \notin ripe
        <5>1. shown'[v][s][j] = shown[v][s][j] /\ dirty'[s][j] = dirty[s][j]
          BY <1>7, <1>8, <2>1, <4>3
        <5>2. CASE C!Visible(v, s, j) = entry[s][j].data
          BY <3>3, <5>1, <5>2
        <5>3. CASE C!OnItsWay(s, j)
          <6>1. s \in dirtyTopics
            BY <3>6, <5>3 DEF C!OnItsWay
          <6>2. s \in dirtyTopics' /\ tickTimer'
            BY <1>9, <3>6, <4>3, <6>1
          <6> QED
            BY <1>2, <4>1, <5>1, <6>2 DEF C!OnItsWay
        <5> QED
          BY <3>1, <5>2, <5>3
      <4> QED
        BY <4>2, <4>3
    <3> QED
      BY <3>4, <3>5, <3>6
  <2> QED
    BY <2>2, <2>3
<1> QED
  BY <1>10, <1>11, <1>12, <1>13

-----------------------------------------------------------------------------
(* A mover leaves. *)

LEMMA RemoveKeeps ==
    ASSUME CursorInv, NEW m \in Movers, C!Remove(m)
    PROVE  CursorInv'
<1> DEFINE k == key[m]
           T == IF k = None THEN {} ELSE {t \in on[m] : entry[t][k] # None}
           left == [t \in Rooms |-> IF t \in T THEN [entry[t] EXCEPT ![k] = None] ELSE entry[t]]
           empty == {t \in T : left[t] = C!Nobody}
           emptied(t) == t \in T /\ \A j \in C!Keys \ {k} : entry[t][j] = None
<1>1. C!CursorTypeOK /\ KeysAreOwn
  BY DEF CursorInv
<1>2. /\ live' = live \ {m} /\ key' = [key EXCEPT ![m] = None] /\ on' = [on EXCEPT ![m] = {}]
      /\ connOrder' = C!Within(connOrder, Movers \ {m})
      /\ entry' = left /\ topicOrder' = C!Within(topicOrder, Rooms \ empty)
      /\ dirtyTopics' = dirtyTopics \ empty
      /\ cadence' = [t \in Rooms |-> cadence[t] \/ t \in empty]
      /\ UNCHANGED <<counter, tickTimer, watching, swept, ops, torn>>
  BY DEF C!Remove
<1>3. /\ dirty' = [t \in Rooms |-> IF emptied(t) THEN C!Nobody
                     ELSE IF t \in T THEN [dirty[t] EXCEPT ![k] = None] ELSE dirty[t]]
      /\ known' = [v \in Viewers |-> [t \in Rooms |->
                     IF t \in T /\ v \in watching[t] THEN known[v][t] \ {k} ELSE known[v][t]]]
      /\ shown' = [v \in Viewers |-> [t \in Rooms |->
                     IF t \in T /\ v \in watching[t] THEN [shown[v][t] EXCEPT ![k] = None]
                     ELSE shown[v][t]]]
      /\ idle' = [v \in Viewers |-> [t \in Rooms |->
                     IF t \in T /\ v \in watching[t] THEN idle[v][t] \ {k} ELSE idle[v][t]]]
  BY DEF C!Remove, C!DropDirty
<1>4. T \subseteq Rooms /\ (T # {} => k \in C!Keys)
  BY <1>1 DEF C!CursorTypeOK
<1>5. \A s \in Rooms, j \in C!Keys : left[s][j] = IF s \in T /\ j = k THEN None ELSE entry[s][j]
  <2> HIDE DEF k, T
  <2> QED
    BY <1>1 DEF C!CursorTypeOK
<1>6. left \in [Rooms -> [C!Keys -> C!Entry \cup {None}]]
  <2> HIDE DEF k, T
  <2> QED
    BY <1>1 DEF C!CursorTypeOK
<1>7. \A s \in Rooms, j \in C!Keys : left[s][j] # None => s \notin empty
  <2> HIDE DEF left
  <2> QED
    BY CursorSets
<1>8. empty \subseteq Rooms
  BY <1>4
<1> HIDE DEF k, T, left, empty
<1>9. C!CursorTypeOK'
  <2>1. connOrder' \in Seq(Movers) /\ Len(connOrder') <= MaxConns
    <3>1. /\ connOrder \in Seq(Movers) /\ Len(connOrder) \in Nat /\ Len(connOrder) <= MaxConns
          /\ connOrder' = C!Within(connOrder, Movers \ {m})
      BY <1>1, <1>2, LenProperties DEF C!CursorTypeOK
    <3>2. connOrder' \in Seq(Movers) /\ Len(connOrder') <= Len(connOrder)
      BY <3>1, CursorOrderShape
    <3> QED
      BY <3>1, <3>2, CursorSets, LenProperties
  <2>2. topicOrder' \in Seq(Rooms) /\ Len(topicOrder') <= MaxTopics
    <3>1. /\ topicOrder \in Seq(Rooms) /\ Len(topicOrder) \in Nat /\ Len(topicOrder) <= MaxTopics
          /\ topicOrder' = C!Within(topicOrder, Rooms \ empty)
      BY <1>1, <1>2, LenProperties DEF C!CursorTypeOK
    <3>2. topicOrder' \in Seq(Rooms) /\ Len(topicOrder') <= Len(topicOrder)
      BY <3>1, CursorOrderShape
    <3> QED
      BY <3>1, <3>2, CursorSets, LenProperties
  <2>3. dirty' \in [Rooms -> [C!Keys -> Data \cup {None}]]
    <3>1. \A t \in Rooms : dirty[t] \in [C!Keys -> Data \cup {None}]
      BY <1>1 DEF C!CursorTypeOK
    <3>2. C!Nobody \in [C!Keys -> Data \cup {None}]
      BY CursorSets
    <3> HIDE DEF emptied
    <3> QED
      BY <1>3, <3>1, <3>2
  <2>4. known' \in [Viewers -> [Rooms -> SUBSET C!Keys]]
    BY <1>1, <1>3 DEF C!CursorTypeOK
  <2>5. idle' \in [Viewers -> [Rooms -> SUBSET C!Keys]]
    BY <1>1, <1>3 DEF C!CursorTypeOK
  <2>6. shown' \in [Viewers -> [Rooms -> [C!Keys -> Data \cup {None}]]]
    <3>1. \A v \in Viewers, t \in Rooms : shown[v][t] \in [C!Keys -> Data \cup {None}]
      BY <1>1 DEF C!CursorTypeOK
    <3> QED
      BY <1>3, <3>1
  <2>7. /\ key' \in [Movers -> C!Keys \cup {None}] /\ on' \in [Movers -> SUBSET Rooms]
        /\ cadence' \in [Rooms -> BOOLEAN] /\ dirtyTopics' \subseteq Rooms /\ live' \subseteq Movers
    BY <1>1, <1>2 DEF C!CursorTypeOK
  <2> QED
    BY <1>1, <1>2, <1>6, <2>1, <2>2, <2>3, <2>4, <2>5, <2>6, <2>7 DEF C!CursorTypeOK
<1>10. \A n \in Movers : key'[n] = IF n = m THEN None ELSE key[n]
  BY <1>1, <1>2 DEF C!CursorTypeOK
<1>11. KeysAreOwn'
  BY <1>1, <1>2, <1>10 DEF KeysAreOwn
<1> SUFFICES ASSUME ~torn'
             PROVE  /\ Entered' /\ UsersAreKnown' /\ LatestWaits'
                    /\ \A s \in Rooms, j \in C!Keys : Arriving(s, j)'
  BY <1>9, <1>11 DEF CursorInv, C!Keys
<1>12. Entered /\ UsersAreKnown /\ LatestWaits /\ \A s \in Rooms, j \in C!Keys : Arriving(s, j)
  BY <1>2 DEF CursorInv
<1>13. \A s \in Rooms, j \in C!Keys : entry'[s][j] = IF s \in T /\ j = k THEN None ELSE entry[s][j]
  BY <1>2, <1>5
<1>14. \A s \in Rooms, j \in C!Keys : dirty'[s][j] = IF s \in T /\ j = k THEN None ELSE dirty[s][j]
  <2> TAKE s \in Rooms, j \in C!Keys
  <2>1. dirty[s] \in [C!Keys -> Data \cup {None}]
    BY <1>1 DEF C!CursorTypeOK
  <2>2. entry[s][j] = None => dirty[s][j] = None
    BY <1>12 DEF Arriving
  <2>3. CASE emptied(s)
    <3>1. dirty'[s][j] = None /\ s \in T
      BY <1>3, <2>3, CursorSets
    <3>2. j # k => entry[s][j] = None
      BY <2>3
    <3> QED
      BY <2>2, <3>1, <3>2
  <2>4. CASE ~emptied(s)
    <3>1. dirty'[s] = IF s \in T THEN [dirty[s] EXCEPT ![k] = None] ELSE dirty[s]
      BY <1>3, <2>4
    <3> QED
      BY <2>1, <3>1
  <2> QED
    BY <2>3, <2>4
<1>15. \A v \in Viewers, s \in Rooms, j \in C!Keys :
         j \in known'[v][s] <=> j \in known[v][s] /\ ~(s \in T /\ v \in watching[s] /\ j = k)
  BY <1>3
<1>16. \A v \in Viewers, s \in Rooms, j \in C!Keys :
         ~(s \in T /\ j = k) => shown'[v][s][j] = shown[v][s][j]
  <2> TAKE v \in Viewers, s \in Rooms, j \in C!Keys
  <2>1. shown[v][s] \in [C!Keys -> Data \cup {None}]
    BY <1>1 DEF C!CursorTypeOK
  <2>2. shown'[v][s] = IF s \in T /\ v \in watching[s] THEN [shown[v][s] EXCEPT ![k] = None]
                       ELSE shown[v][s]
    BY <1>3
  <2> QED
    BY <2>1, <2>2
<1> HIDE DEF emptied
<1>17. Entered'
  <2> SUFFICES ASSUME NEW n \in Movers, NEW s \in on'[n] PROVE key'[n] # None /\ entry'[s][key'[n]] # None
    BY DEF Entered
  <2>1. n # m /\ s \in on[n]
    BY <1>1, <1>2 DEF C!CursorTypeOK
  <2>2. s \in Rooms /\ key[n] # None /\ entry[s][key[n]] # None /\ key[n] \in C!Keys
    BY <1>1, <1>12, <2>1 DEF Entered, C!CursorTypeOK
  <2>3. key[n] # k
    BY <1>1, <2>1, <2>2 DEF KeysAreOwn, k
  <2> QED
    BY <1>10, <1>13, <2>1, <2>2, <2>3
<1>18. UsersAreKnown'
  <2> SUFFICES ASSUME NEW s \in Rooms, NEW j \in C!Keys, entry'[s][j] # None, NEW v \in watching'[s]
               PROVE  j \in known'[v][s] \cup swept'[v][s]
    BY DEF UsersAreKnown, C!Keys
  <2>1. v \in Viewers /\ v \in watching[s]
    BY <1>1, <1>2 DEF C!CursorTypeOK
  <2>2. ~(s \in T /\ j = k) /\ entry[s][j] # None
    BY <1>13
  <2>3. j \in known[v][s] \cup swept[v][s]
    BY <1>12, <2>1, <2>2 DEF UsersAreKnown
  <2> QED
    BY <1>2, <1>15, <2>1, <2>2, <2>3
<1>19. LatestWaits'
  <2> SUFFICES ASSUME NEW s \in Rooms, NEW j \in C!Keys, entry'[s][j] # None, ~entry'[s][j].timer,
                      dirty'[s][j] # None
               PROVE  dirty'[s][j] = entry'[s][j].data
    BY DEF LatestWaits, C!Keys
  <2>1. entry'[s][j] = entry[s][j] /\ dirty'[s][j] = dirty[s][j]
    BY <1>13, <1>14
  <2> QED
    BY <1>12, <2>1 DEF LatestWaits
<1>20. ASSUME NEW s \in Rooms, NEW j \in C!Keys PROVE Arriving(s, j)'
  <2>1. watching[s] \subseteq Viewers
    BY <1>1 DEF C!CursorTypeOK
  <2>2. CASE s \in T /\ j = k
    <3>1. entry'[s][j] = None /\ dirty'[s][j] = None
      BY <1>13, <1>14, <2>2
    <3>2. \A v \in watching[s] : C!Visible(v, s, j)' = None
      BY <1>15, <2>1, <2>2 DEF C!Visible
    <3> QED
      BY <1>2, <3>1, <3>2 DEF Arriving
  <2>3. CASE ~(s \in T /\ j = k)
    <3>1. entry'[s][j] = entry[s][j] /\ dirty'[s][j] = dirty[s][j]
      BY <1>13, <1>14, <2>3
    <3>2. \A v \in watching[s] : C!Visible(v, s, j)' = C!Visible(v, s, j)
      BY <1>15, <1>16, <2>1, <2>3 DEF C!Visible
    <3>3. entry[s][j] # None /\ C!OnItsWay(s, j) => C!OnItsWay(s, j)'
      <4>1. entry[s][j] # None => s \notin empty
        BY <1>2, <1>7, <3>1
      <4> QED
        BY <1>2, <3>1, <4>1 DEF C!OnItsWay
    <3> QED
      BY <1>2, <1>12, <3>1, <3>2, <3>3 DEF Arriving
  <2> QED
    BY <2>2, <2>3
<1> QED
  BY <1>17, <1>18, <1>19, <1>20

-----------------------------------------------------------------------------
(* The viewers. *)

\* What a viewer's step changes is what it watches, knows and shows.
LEMMA ViewerKeeps ==
    ASSUME CursorInv, C!CursorTypeOK',
           UNCHANGED <<key, on, counter, entry, dirty, dirtyTopics, tickTimer, torn>>,
           ~torn => \A s \in Rooms, j \in C!Keys : \A v \in watching'[s] :
             \/ /\ v \in watching[s]
                /\ j \in known[v][s] \cup swept[v][s] => j \in known'[v][s] \cup swept'[v][s]
                /\ \/ C!Visible(v, s, j)' = None /\ j \in swept'[v][s]
                   \/ C!Visible(v, s, j)' = C!Visible(v, s, j) /\ (j \in swept'[v][s] <=> j \in swept[v][s])
             \/ /\ j \in known'[v][s] <=> entry[s][j] # None
                /\ C!Visible(v, s, j)' = IF entry[s][j] = None THEN None ELSE entry[s][j].data
    PROVE  CursorInv'
<1>1. C!CursorTypeOK /\ KeysAreOwn /\ KeysAreOwn'
  BY DEF CursorInv, KeysAreOwn
<1> SUFFICES ASSUME ~torn'
             PROVE  /\ Entered' /\ UsersAreKnown' /\ LatestWaits'
                    /\ \A s \in Rooms, j \in C!Keys : Arriving(s, j)'
  BY <1>1 DEF CursorInv, C!Keys
<1>2. Entered /\ UsersAreKnown /\ LatestWaits /\ \A s \in Rooms, j \in C!Keys : Arriving(s, j)
  BY DEF CursorInv
<1>3. Entered' /\ LatestWaits'
  BY <1>2 DEF Entered, LatestWaits, C!Keys
<1>4. UsersAreKnown'
  <2> SUFFICES ASSUME NEW s \in Rooms, NEW j \in C!Keys, entry'[s][j] # None, NEW v \in watching'[s]
               PROVE  j \in known'[v][s] \cup swept'[v][s]
    BY DEF UsersAreKnown, C!Keys
  <2> QED
    BY <1>2 DEF UsersAreKnown
<1>5. ASSUME NEW s \in Rooms, NEW j \in C!Keys PROVE Arriving(s, j)'
  <2>1. C!OnItsWay(s, j) => C!OnItsWay(s, j)'
    BY DEF C!OnItsWay
  <2>2. Arriving(s, j)
    BY <1>2
  <2>3. CASE entry[s][j] = None
    <3>1. dirty[s][j] = None /\ \A v \in watching[s] : C!Visible(v, s, j) = None
      BY <2>2, <2>3 DEF Arriving
    <3>2. \A v \in watching'[s] : C!Visible(v, s, j)' = None
      BY <2>3, <3>1
    <3> QED
      BY <2>3, <3>1, <3>2 DEF Arriving
  <2>4. CASE entry[s][j] # None
    <3>1. \A v \in watching[s] : j \in swept[v][s] \/ C!Visible(v, s, j) = entry[s][j].data
                                 \/ C!OnItsWay(s, j)
      BY <2>2, <2>4 DEF Arriving
    <3>2. \A v \in watching'[s] : j \in swept'[v][s] \/ C!Visible(v, s, j)' = entry[s][j].data
                                  \/ C!OnItsWay(s, j)'
      BY <2>1, <2>4, <3>1
    <3> QED
      BY <2>4, <3>2 DEF Arriving
  <2> QED
    BY <2>3, <2>4
<1> QED
  BY <1>3, <1>4, <1>5

\* The catalog of a snapshot makes the user of every entry known, and its
\* position shown.
LEMMA SnapshotKeeps ==
    ASSUME CursorInv, NEW v \in Viewers, NEW t \in Rooms, C!Snapshot(v, t)
    PROVE  CursorInv'
<1> DEFINE there == {k \in C!Keys : entry[t][k] # None}
           screen == [k \in C!Keys |-> IF k \in there THEN entry[t][k].data ELSE shown[v][t][k]]
<1>1. C!CursorTypeOK
  BY DEF CursorInv
<1>2. /\ v \notin watching[t] /\ watching' = [watching EXCEPT ![t] = @ \cup {v}]
      /\ known' = [known EXCEPT ![v][t] = there]
      /\ shown' = [shown EXCEPT ![v][t] = [k \in C!Keys |-> IF k \in there THEN entry[t][k].data ELSE @[k]]]
      /\ idle' = [idle EXCEPT ![v][t] = @ \ there]
      /\ swept' = [swept EXCEPT ![v][t] = {}]
      /\ UNCHANGED <<live, key, on, connOrder, counter, entry, topicOrder, dirty, cadence,
                     dirtyTopics, tickTimer, ops, torn>>
  BY DEF C!Snapshot, C!tables, C!flush
<1>3. shown' = [shown EXCEPT ![v][t] = screen]
  BY <1>1, <1>2 DEF C!CursorTypeOK
<1>4. screen \in [C!Keys -> Data \cup {None}]
  <2>1. \A k \in there : entry[t][k] \in C!Entry
    BY <1>1 DEF C!CursorTypeOK
  <2>2. \A k \in there : entry[t][k].data \in Data
    BY <2>1, CursorSets
  <2>3. \A k \in C!Keys : shown[v][t][k] \in Data \cup {None}
    BY <1>1 DEF C!CursorTypeOK
  <2> HIDE DEF there
  <2> QED
    BY <2>2, <2>3
<1>5. there \subseteq C!Keys /\ \A j \in C!Keys : j \in there <=> entry[t][j] # None
  OBVIOUS
<1>6. \A j \in there : screen[j] = entry[t][j].data
  OBVIOUS
<1> HIDE DEF there, screen
<1>7. C!CursorTypeOK'
  <2>1. watching' \in [Rooms -> SUBSET Viewers]
    BY <1>1, <1>2 DEF C!CursorTypeOK
  <2>2. known' \in [Viewers -> [Rooms -> SUBSET C!Keys]]
    BY <1>1, <1>2, <1>5 DEF C!CursorTypeOK
  <2>3. shown' \in [Viewers -> [Rooms -> [C!Keys -> Data \cup {None}]]]
    BY <1>1, <1>3, <1>4 DEF C!CursorTypeOK
  <2>4. idle' \in [Viewers -> [Rooms -> SUBSET C!Keys]] /\ swept' \in [Viewers -> [Rooms -> SUBSET C!Keys]]
    BY <1>1, <1>2 DEF C!CursorTypeOK
  <2> QED
    BY <1>1, <1>2, <2>1, <2>2, <2>3, <2>4 DEF C!CursorTypeOK
<1>8. /\ known'[v][t] = there /\ shown'[v][t] = screen
      /\ \A w \in Viewers, s \in Rooms : ~(w = v /\ s = t) =>
           known'[w][s] = known[w][s] /\ shown'[w][s] = shown[w][s] /\ swept'[w][s] = swept[w][s]
  BY <1>1, <1>2, <1>3 DEF C!CursorTypeOK
<1>9. \A s \in Rooms : \A w \in watching'[s] : w \in Viewers /\ (w \in watching[s] \/ (w = v /\ s = t))
  BY <1>1, <1>2 DEF C!CursorTypeOK
<1>10. ASSUME NEW s \in Rooms, NEW j \in C!Keys, NEW w \in watching'[s]
       PROVE  \/ /\ w \in watching[s]
                 /\ known'[w][s] = known[w][s] /\ swept'[w][s] = swept[w][s]
                 /\ C!Visible(w, s, j)' = C!Visible(w, s, j)
              \/ /\ j \in known'[w][s] <=> entry[s][j] # None
                 /\ C!Visible(w, s, j)' = IF entry[s][j] = None THEN None ELSE entry[s][j].data
  <2>1. CASE w = v /\ s = t
    <3>1. j \in known'[w][s] <=> entry[s][j] # None
      BY <1>5, <1>8, <2>1
    <3>2. j \in known'[w][s] => shown'[w][s][j] = entry[s][j].data
      BY <1>6, <1>8, <2>1
    <3> QED
      BY <3>1, <3>2 DEF C!Visible
  <2>2. CASE ~(w = v /\ s = t)
    BY <1>8, <1>9, <2>2 DEF C!Visible
  <2> QED
    BY <2>1, <2>2
<1> QED
  BY <1>2, <1>7, <1>10, ViewerKeeps

LEMMA DisconnectKeeps ==
    ASSUME CursorInv, NEW v \in Viewers, NEW t \in Rooms, C!Disconnect(v, t)
    PROVE  CursorInv'
<1>1. C!CursorTypeOK
  BY DEF CursorInv
<1>2. /\ watching' = [watching EXCEPT ![t] = @ \ {v}] /\ ops < MaxOps /\ ops' = ops + 1
      /\ UNCHANGED <<live, key, on, connOrder, counter, entry, topicOrder, dirty, cadence,
                     dirtyTopics, tickTimer, known, shown, idle, swept, torn>>
  BY DEF C!Disconnect, C!tables, C!flush
<1>3. ops' \in 0..MaxOps
  BY <1>1, <1>2, CursorSets DEF C!CursorTypeOK
<1>4. watching' \in [Rooms -> SUBSET Viewers]
  BY <1>1, <1>2 DEF C!CursorTypeOK
<1>5. C!CursorTypeOK'
  BY <1>1, <1>2, <1>3, <1>4 DEF C!CursorTypeOK
<1>6. ASSUME NEW s \in Rooms, NEW j \in C!Keys, NEW w \in watching'[s]
      PROVE  /\ w \in watching[s] /\ known'[w][s] = known[w][s] /\ swept'[w][s] = swept[w][s]
             /\ C!Visible(w, s, j)' = C!Visible(w, s, j)
  BY <1>1, <1>2 DEF C!CursorTypeOK, C!Visible
<1> QED
  BY <1>2, <1>5, <1>6, ViewerKeeps

LEMMA IdleKeeps ==
    ASSUME CursorInv, NEW v \in Viewers, NEW t \in Rooms, NEW k \in C!Keys, C!Idle(v, t, k)
    PROVE  CursorInv'
<1>1. C!CursorTypeOK
  BY DEF CursorInv
<1>2. /\ idle' = [idle EXCEPT ![v][t] = @ \cup {k}]
      /\ UNCHANGED <<live, key, on, connOrder, counter, entry, topicOrder, dirty, cadence,
                     dirtyTopics, tickTimer, watching, known, shown, swept, ops, torn>>
  BY DEF C!Idle, C!tables, C!flush
<1>3. idle' \in [Viewers -> [Rooms -> SUBSET C!Keys]]
  BY <1>1, <1>2 DEF C!CursorTypeOK
<1>4. C!CursorTypeOK'
  BY <1>1, <1>2, <1>3 DEF C!CursorTypeOK
<1> QED
  BY <1>2, <1>4, NothingMoves

\* What is forgotten for its age is not shown, and is on record as swept.
LEMMA SweepKeeps ==
    ASSUME CursorInv, NEW v \in Viewers, NEW t \in Rooms, C!Sweep(v, t)
    PROVE  CursorInv'
<1> DEFINE old == idle[v][t]
           screen == [k \in C!Keys |-> IF k \in old THEN None ELSE shown[v][t][k]]
<1>1. C!CursorTypeOK
  BY DEF CursorInv
<1>2. /\ idle' = [idle EXCEPT ![v][t] = {}]
      /\ shown' = [shown EXCEPT ![v][t] = [k \in C!Keys |-> IF k \in old THEN None ELSE @[k]]]
      /\ known' = [known EXCEPT ![v][t] = @ \ old]
      /\ swept' = [swept EXCEPT ![v][t] = @ \cup old]
      /\ UNCHANGED <<live, key, on, connOrder, counter, entry, topicOrder, dirty, cadence,
                     dirtyTopics, tickTimer, watching, ops, torn>>
  BY DEF C!Sweep, C!tables, C!flush
<1>3. shown' = [shown EXCEPT ![v][t] = screen]
  BY <1>1, <1>2 DEF C!CursorTypeOK
<1>4. old \subseteq C!Keys
  BY <1>1 DEF C!CursorTypeOK
<1>5. screen \in [C!Keys -> Data \cup {None}]
  <2>1. \A k \in C!Keys : shown[v][t][k] \in Data \cup {None}
    BY <1>1 DEF C!CursorTypeOK
  <2> HIDE DEF old
  <2> QED
    BY <2>1
<1>6. \A j \in C!Keys : j \notin old => screen[j] = shown[v][t][j]
  OBVIOUS
<1> HIDE DEF old, screen
<1>7. C!CursorTypeOK'
  <2>1. known' \in [Viewers -> [Rooms -> SUBSET C!Keys]]
    BY <1>1, <1>2 DEF C!CursorTypeOK
  <2>2. shown' \in [Viewers -> [Rooms -> [C!Keys -> Data \cup {None}]]]
    BY <1>1, <1>3, <1>5 DEF C!CursorTypeOK
  <2>3. idle' \in [Viewers -> [Rooms -> SUBSET C!Keys]] /\ swept' \in [Viewers -> [Rooms -> SUBSET C!Keys]]
    BY <1>1, <1>2, <1>4 DEF C!CursorTypeOK
  <2> QED
    BY <1>1, <1>2, <2>1, <2>2, <2>3 DEF C!CursorTypeOK
<1>8. /\ known'[v][t] = known[v][t] \ old /\ shown'[v][t] = screen /\ swept'[v][t] = swept[v][t] \cup old
      /\ \A w \in Viewers, s \in Rooms : ~(w = v /\ s = t) =>
           known'[w][s] = known[w][s] /\ shown'[w][s] = shown[w][s] /\ swept'[w][s] = swept[w][s]
  BY <1>1, <1>2, <1>3 DEF C!CursorTypeOK
<1>9. ASSUME NEW s \in Rooms, NEW j \in C!Keys, NEW w \in watching'[s]
      PROVE  /\ w \in watching[s]
             /\ j \in known[w][s] \cup swept[w][s] => j \in known'[w][s] \cup swept'[w][s]
             /\ \/ C!Visible(w, s, j)' = C!Visible(w, s, j) /\ (j \in swept'[w][s] <=> j \in swept[w][s])
                \/ C!Visible(w, s, j)' = None /\ j \in swept'[w][s]
  <2>1. w \in watching[s] /\ w \in Viewers
    BY <1>1, <1>2 DEF C!CursorTypeOK
  <2>2. CASE ~(w = v /\ s = t)
    BY <1>8, <2>1, <2>2 DEF C!Visible
  <2>3. CASE w = v /\ s = t /\ j \notin old
    BY <1>6, <1>8, <2>1, <2>3 DEF C!Visible
  <2>4. CASE w = v /\ s = t /\ j \in old
    BY <1>8, <2>1, <2>4 DEF C!Visible
  <2> QED
    BY <2>2, <2>3, <2>4
<1> QED
  BY <1>2, <1>7, <1>9, ViewerKeeps

LEMMA CursorStepKeeps == CursorInv /\ [C!Next]_cursorVars => CursorInv'
<1> SUFFICES ASSUME CursorInv, [C!Next]_cursorVars PROVE CursorInv'
  OBVIOUS
<1>1. CASE \E m \in Movers, t \in Rooms, d \in Data : C!Update(m, t, d)
  BY <1>1, UpdateKeeps
<1>2. CASE \E m \in Movers : C!Remove(m)
  BY <1>2, RemoveKeeps
<1>3. CASE \E t \in Rooms, k \in C!Keys : C!Cool(t, k) \/ C!Trailing(t, k)
  BY <1>3, CoolKeeps, TrailingKeeps
<1>4. CASE \E t \in Rooms : C!Beat(t)
  BY <1>4, BeatKeeps
<1>5. CASE C!Tick
  BY <1>5, FrameKeeps
<1>6. CASE \E v \in Viewers, t \in Rooms : C!Snapshot(v, t) \/ C!Disconnect(v, t) \/ C!Sweep(v, t)
  BY <1>6, SnapshotKeeps, DisconnectKeeps, SweepKeeps
<1>7. CASE \E v \in Viewers, t \in Rooms, k \in C!Keys : C!Idle(v, t, k)
  BY <1>7, IdleKeeps
<1>8. CASE UNCHANGED cursorVars
  <2>1. C!CursorTypeOK'
    BY <1>8 DEF cursorVars, CursorInv, C!CursorTypeOK
  <2> QED
    BY <1>8, <2>1, NothingMoves DEF cursorVars
<1> QED
  BY <1>1, <1>2, <1>3, <1>4, <1>5, <1>6, <1>7, <1>8 DEF C!Next

LEMMA CursorInvShows == CursorInv => CursorsArrive
  BY DEF CursorInv, Arriving, CursorsArrive, C!LatestArrives, C!Keys

\* update, flush, tick, remove and the client's catalog (plugins/cursor): until a
\* cap evicts somebody the last position of every mover is shown to whoever
\* watches, or is behind a timer that is armed; who is gone is not shown.
THEOREM LatestPositionsArrive == C!CursorSpec => []CursorsArrive
<1>1. C!Init => CursorInv
  BY CursorInitHolds
<1>2. CursorInv /\ [C!Next]_(C!cursorVars) => CursorInv'
  BY CursorStepKeeps DEF C!cursorVars, C!tables, C!flush, C!screens, cursorVars
<1> QED
  BY <1>1, <1>2, CursorInvShows, PTL DEF C!CursorSpec

\* The same of the part of the browser's model that moves the cursors.
THEOREM PositionsArrive == PartsSpec => []CursorsArrive
<1>1. PartsInit => CursorInv
  BY CursorInitHolds DEF PartsInit
<1>2. CursorInv /\ [PartsNext]_clientVars => CursorInv'
  BY CursorStepKeeps DEF PartsNext, clientVars
<1> QED
  BY <1>1, <1>2, CursorInvShows, PTL DEF PartsSpec, clientVars
=============================================================================
