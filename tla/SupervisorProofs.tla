-------------------------- MODULE SupervisorProofs ---------------------------
(***************************************************************************)
(* Proofs about Supervisor: what the primary's books say of its workers,   *)
(* for any number of workers, any restart limit, delays and heartbeat      *)
(* timeout; about DevHandlers, for any number of clients and saves: the    *)
(* instances of the handlers follow each other, and nobody is served by one*)
(* that is not up; and about Presence, for any connections, topics, caps   *)
(* and lost frames: the counts are exact and the views current.            *)
(***************************************************************************)
EXTENDS MCSupervisor, FiniteSetTheorems, SequenceTheorems, MapOrderProofs, TLAPS

\* A worker that is gone has sent all it had to say.
GoneIsQuiet == \A w \in Ids : life[w] = "none" => up[w] = {}

\* The process ends with the first restart that is one too many.
GivesUpInTime == Up => restart_attempts <= RestartMax

\* Heartbeats are only counted while one of them is unanswered.
SilenceHasCause ==
    \A w \in Ids : silent[w] > 0 => "heartbeat" \in inbox[w] \/ "heartbeat-ack" \in up[w]

IInv ==
    /\ TypeOK
    /\ Staffed
    /\ AcceptsIffServed
    /\ GoneIsQuiet
    /\ GivesUpInTime
    /\ SilenceHasCause

-----------------------------------------------------------------------------
LEMMA NumIsPositive == Num \in Nat /\ Num >= 1
BY ConstantsOK, FS_CardinalityType

\* The workers are a finite set of at most Num.
LEMMA WorkersFinite ==
    ASSUME NEW W, W \subseteq Ids
    PROVE  IsFiniteSet(W) /\ Cardinality(W) \in 0..Num
BY ConstantsOK, FS_Subset, FS_CardinalityType

LEMMA InitHolds == Init => IInv
<1> SUFFICES ASSUME Init PROVE IInv
  OBVIOUS
<1> USE DEF Init
<1>1. TypeOK
  <2>1. silent \in [Ids -> Never..MissedTicks]
    BY ConstantsOK DEF Never
  <2>2. life \in [Ids -> Lives] /\ \A w \in Ids : life[w] = "none" <=> w \notin workers
    BY DEF Lives
  <2>3. /\ restart_attempts \in 0..RestartMax + 1 /\ restart_delay \in Nat
        /\ restart_timers \in Nat
    BY ConstantsOK
  <2>4. /\ up \in [Ids -> SUBSET {"registered", "heartbeat-ack"}]
        /\ inbox \in [Ids -> SUBSET {"heartbeat", "shutdown"}]
    OBVIOUS
  <2> QED
    BY <2>1, <2>2, <2>3, <2>4 DEF TypeOK
<1>2. Staffed
  BY ConstantsOK, NumIsPositive DEF Staffed
<1>3. AcceptsIffServed
  BY DEF AcceptsIffServed
<1>4. GoneIsQuiet /\ SilenceHasCause
  BY DEF GoneIsQuiet, SilenceHasCause, Never
<1>5. GivesUpInTime
  BY ConstantsOK DEF GivesUpInTime
<1> QED
  BY <1>1, <1>2, <1>3, <1>4, <1>5 DEF IInv

LEMMA RegisteredKeeps ==
    ASSUME IInv, NEW w \in Ids, Registered(w)
    PROVE  IInv'
<1> USE DEF IInv
<1>1. /\ Up /\ "registered" \in up[w]
      /\ up' = [up EXCEPT ![w] = @ \ {"registered"}]
      /\ registered' = registered \cup {w}
      /\ silent' = [silent EXCEPT ![w] = 0]
      /\ restart_delay' = 0 /\ restart_attempts' = 0 /\ restart_timers' = 0
      /\ UNCHANGED <<mode, phase, workers, terminating, life, inbox>>
  BY DEF Registered, HeardFrom, ResetBackoff
<1>2. IF mode = "acceptor"
      THEN /\ children' = children \cup {w} /\ listening' = TRUE
           /\ \/ listen_socket' = (listen_socket \/ ~listening) /\ UNCHANGED exited
              \/ exited' = 1 /\ UNCHANGED listen_socket
      ELSE UNCHANGED <<listening, listen_socket, children, exited>>
  BY DEF Registered, acceptorVars
<1>3. w \in workers
  BY <1>1 DEF GoneIsQuiet, TypeOK
<1>4. TypeOK'
  <2>1. up' \in [Ids -> SUBSET {"registered", "heartbeat-ack"}]
    BY <1>1 DEF TypeOK
  <2>2. silent' \in [Ids -> Never..MissedTicks]
    BY <1>1, ConstantsOK DEF TypeOK, Never
  <2>3. registered' \in SUBSET workers
    BY <1>1, <1>3 DEF TypeOK
  <2>4. listening' \in BOOLEAN /\ listen_socket' \in BOOLEAN /\ children' \in SUBSET Ids
    BY <1>2 DEF TypeOK
  <2>5. restart_delay' \in Nat /\ restart_attempts' \in 0..RestartMax + 1 /\ restart_timers' \in Nat
    BY <1>1, ConstantsOK
  <2>6. exited' \in {Running, 0, 1}
    BY <1>2 DEF TypeOK
  <2> QED
    BY <1>1, <2>1, <2>2, <2>3, <2>4, <2>5, <2>6 DEF TypeOK
<1>5. Staffed'
  <2>1. Cardinality(workers) # 0
    BY <1>3, WorkersFinite, FS_EmptySet DEF TypeOK
  <2>2. Cardinality(workers) \in 0..Num
    BY WorkersFinite DEF TypeOK
  <2> QED
    BY <1>1, <2>1, <2>2, NumIsPositive DEF Staffed
<1>6. AcceptsIffServed'
  <2> SUFFICES ASSUME mode = "acceptor", Up'
               PROVE  /\ children' = registered'
                      /\ phase = "serving" => /\ listen_socket' <=> registered' # {}
                                              /\ listening' = listen_socket'
    BY <1>1 DEF AcceptsIffServed
  <2>1. /\ children' = children \cup {w} /\ listening' = TRUE
        /\ listen_socket' = (listen_socket \/ ~listening)
    BY <1>2, ConstantsOK DEF Up
  <2>2. /\ children = registered
        /\ phase = "serving" => listening = listen_socket
    BY <1>1 DEF AcceptsIffServed
  <2>3. phase = "serving" => listen_socket' = TRUE
    BY <2>1, <2>2 DEF TypeOK
  <2> QED
    BY <1>1, <2>1, <2>2, <2>3
<1>7. GoneIsQuiet'
  BY <1>1 DEF GoneIsQuiet, TypeOK
<1>8. GivesUpInTime'
  BY <1>1, ConstantsOK DEF GivesUpInTime
<1>9. SilenceHasCause'
  BY <1>1 DEF SilenceHasCause, TypeOK
<1> QED
  BY <1>4, <1>5, <1>6, <1>7, <1>8, <1>9

LEMMA AckKeeps ==
    ASSUME IInv, NEW w \in Ids, Ack(w)
    PROVE  IInv'
<1> USE DEF IInv
<1>1. /\ up' = [up EXCEPT ![w] = @ \ {"heartbeat-ack"}]
      /\ silent' = [silent EXCEPT ![w] = 0]
      /\ UNCHANGED <<mode, exited, phase, workers, registered, terminating, listening,
                     listen_socket, children, restart_delay, restart_attempts, restart_timers,
                     life, inbox>>
  BY DEF Ack, HeardFrom, acceptorVars, restartVars
<1>2. TypeOK'
  <2>1. up' \in [Ids -> SUBSET {"registered", "heartbeat-ack"}]
    BY <1>1 DEF TypeOK
  <2>2. silent' \in [Ids -> Never..MissedTicks]
    BY <1>1, ConstantsOK DEF TypeOK, Never
  <2> QED
    BY <1>1, <2>1, <2>2 DEF TypeOK
<1>3. GoneIsQuiet' /\ SilenceHasCause'
  BY <1>1 DEF GoneIsQuiet, SilenceHasCause, TypeOK
<1>4. Staffed' /\ AcceptsIffServed' /\ GivesUpInTime'
  BY <1>1 DEF Staffed, AcceptsIffServed, GivesUpInTime, Up
<1> QED
  BY <1>2, <1>3, <1>4

LEMMA HeartbeatKeeps == ASSUME IInv, Heartbeat PROVE IInv'
<1> USE DEF IInv
<1> DEFINE asked == workers \ Stuck
<1>1. /\ terminating' = terminating \cup Stuck
      /\ silent' = [w \in Ids |-> IF w \in asked /\ silent[w] # Never
                                  THEN silent[w] + 1 ELSE silent[w]]
      /\ inbox' = [w \in Ids |-> IF w \in asked THEN inbox[w] \cup {"heartbeat"} ELSE inbox[w]]
      /\ UNCHANGED <<mode, exited, phase, workers, registered, listening, listen_socket, children,
                     restart_delay, restart_attempts, restart_timers, life, up>>
  BY DEF Heartbeat, acceptorVars, restartVars
<1>2. \A w \in Ids : w \in asked => silent[w] < MissedTicks
  BY ConstantsOK DEF Stuck, TypeOK, Never
<1>3. TypeOK'
  <2>1. silent' \in [Ids -> Never..MissedTicks]
    <3> SUFFICES ASSUME NEW w \in Ids, w \in asked, silent[w] # Never
                 PROVE  silent[w] + 1 \in Never..MissedTicks
      BY <1>1 DEF TypeOK
    <3> QED
      BY <1>2, ConstantsOK DEF TypeOK, Never
  <2>2. inbox' \in [Ids -> SUBSET {"heartbeat", "shutdown"}]
    BY <1>1 DEF TypeOK
  <2>3. terminating' \in SUBSET workers
    BY <1>1 DEF TypeOK, Stuck
  <2> QED
    BY <1>1, <2>1, <2>2, <2>3 DEF TypeOK
<1>4. SilenceHasCause'
  <2> SUFFICES ASSUME NEW w \in Ids, silent'[w] > 0
               PROVE  "heartbeat" \in inbox'[w] \/ "heartbeat-ack" \in up'[w]
    BY DEF SilenceHasCause
  <2>1. CASE w \in asked
    BY <1>1, <2>1
  <2>2. CASE w \notin asked
    BY <1>1, <2>2 DEF SilenceHasCause
  <2> QED
    BY <2>1, <2>2
<1>5. Staffed' /\ AcceptsIffServed' /\ GivesUpInTime' /\ GoneIsQuiet'
  BY <1>1 DEF Staffed, AcceptsIffServed, GivesUpInTime, Up, GoneIsQuiet
<1> QED
  BY <1>3, <1>4, <1>5

LEMMA ExitKeeps == ASSUME IInv, NEW w \in Ids, Exit(w) PROVE IInv'
<1> USE DEF IInv
<1>1. /\ Up /\ life[w] = "dead" /\ up[w] = {}
      /\ workers' = workers \ {w}
      /\ registered' = registered \ {w}
      /\ children' = children \ {w}
      /\ terminating' = terminating \ {w}
      /\ life' = [life EXCEPT ![w] = "none"]
      /\ inbox' = [inbox EXCEPT ![w] = {}]
      /\ silent' = [silent EXCEPT ![w] = Never]
      /\ UNCHANGED <<mode, phase, up>>
  BY DEF Exit
<1>2. phase = "serving" =>
        /\ restart_attempts' = restart_attempts + 1
        /\ IF restart_attempts + 1 > RestartMax
           THEN exited' = 1 /\ UNCHANGED <<restart_delay, restart_timers>>
           ELSE /\ restart_delay' = NextDelay(restart_delay)
                /\ restart_timers' = restart_timers + 1
                /\ UNCHANGED exited
        /\ IF mode = "acceptor" /\ registered' = {} /\ listen_socket
           THEN listening' = FALSE /\ listen_socket' = FALSE
           ELSE UNCHANGED <<listening, listen_socket>>
  BY <1>1 DEF Exit, Rearm, HasLiveWorker
<1>3. phase # "serving" =>
        /\ exited' \in {exited, 0}
        /\ UNCHANGED <<listening, listen_socket, restart_delay, restart_attempts, restart_timers>>
  BY DEF Exit, restartVars
<1>4. w \in workers
  BY <1>1 DEF TypeOK
<1>5. restart_attempts \in 0..RestartMax
  BY <1>1, ConstantsOK DEF GivesUpInTime, TypeOK
<1>6. exited = Running /\ 1 # Running /\ 0 # Running
  BY <1>1, ConstantsOK DEF Up
<1>7. TypeOK'
  <2>1. silent' \in [Ids -> Never..MissedTicks]
    BY <1>1, ConstantsOK DEF TypeOK, Never
  <2>2. /\ workers' \in SUBSET Ids /\ registered' \in SUBSET workers'
        /\ terminating' \in SUBSET workers' /\ children' \in SUBSET Ids
    BY <1>1 DEF TypeOK
  <2>3. life' \in [Ids -> Lives] /\ \A v \in Ids : life'[v] = "none" <=> v \notin workers'
    BY <1>1 DEF TypeOK, Lives
  <2>4. inbox' \in [Ids -> SUBSET {"heartbeat", "shutdown"}]
    BY <1>1 DEF TypeOK
  <2>5. NextDelay(restart_delay) \in Nat
    BY ConstantsOK DEF NextDelay, TypeOK
  <2>6. /\ restart_delay' \in Nat /\ restart_attempts' \in 0..RestartMax + 1
        /\ restart_timers' \in Nat
    BY <1>2, <1>3, <1>5, <2>5, ConstantsOK DEF TypeOK
  <2>7. listening' \in BOOLEAN /\ listen_socket' \in BOOLEAN /\ exited' \in {Running, 0, 1}
    BY <1>2, <1>3 DEF TypeOK
  <2> QED
    BY <1>1, <2>1, <2>2, <2>3, <2>4, <2>6, <2>7 DEF TypeOK
<1>8. Staffed'
  <2> SUFFICES ASSUME Up'
               PROVE  IF phase = "serving"
                      THEN Cardinality(workers') + restart_timers' \in 1..Num
                      ELSE restart_timers' = 0
    BY <1>1 DEF Staffed
  <2>1. CASE phase = "serving"
    <3>1. restart_timers' = restart_timers + 1
      BY <1>2, <1>6, <2>1 DEF Up
    <3>2. Cardinality(workers') = Cardinality(workers) - 1
      BY <1>1, <1>4, WorkersFinite, FS_RemoveElement DEF TypeOK
    <3>3. Cardinality(workers) \in Nat /\ Cardinality(workers') \in Nat /\ restart_timers \in Nat
      BY <1>7, WorkersFinite, NumIsPositive DEF TypeOK
    <3>4. Cardinality(workers) + restart_timers \in 1..Num
      BY <1>1, <2>1 DEF Staffed
    <3> QED
      BY <2>1, <3>1, <3>2, <3>3, <3>4
  <2>2. CASE phase # "serving"
    BY <1>1, <1>3, <2>2 DEF Staffed
  <2> QED
    BY <2>1, <2>2
<1>9. AcceptsIffServed'
  <2> SUFFICES ASSUME mode = "acceptor", Up'
               PROVE  /\ children' = registered'
                      /\ phase = "serving" => /\ listen_socket' <=> registered' # {}
                                              /\ listening' = listen_socket'
    BY <1>1 DEF AcceptsIffServed
  <2>1. children' = registered'
    BY <1>1 DEF AcceptsIffServed
  <2>2. ASSUME phase = "serving"
        PROVE  (listen_socket' <=> registered' # {}) /\ listening' = listen_socket'
    <3>1. (listen_socket <=> registered # {}) /\ listening = listen_socket
      BY <1>1, <2>2 DEF AcceptsIffServed
    <3>2. CASE registered' = {} /\ listen_socket
      BY <1>2, <2>2, <3>2
    <3>3. CASE ~(registered' = {} /\ listen_socket)
      BY <1>1, <1>2, <2>2, <3>1, <3>3
    <3> QED
      BY <3>2, <3>3
  <2> QED
    BY <2>1, <2>2
<1>10. GoneIsQuiet'
  BY <1>1 DEF GoneIsQuiet, TypeOK
<1>11. GivesUpInTime'
  BY <1>2, <1>3, <1>5, <1>6, ConstantsOK DEF GivesUpInTime, Up
<1>12. SilenceHasCause'
  BY <1>1 DEF SilenceHasCause, TypeOK, Never
<1> QED
  BY <1>7, <1>8, <1>9, <1>10, <1>11, <1>12

LEMMA RestartKeeps == ASSUME IInv, NEW w \in Ids, Restart(w) PROVE IInv'
<1> USE DEF IInv
<1>1. /\ Up /\ phase = "serving" /\ restart_timers > 0 /\ life[w] = "none"
      /\ restart_timers' = restart_timers - 1
      /\ workers' = workers \cup {w}
      /\ life' = [life EXCEPT ![w] = "starting"]
      /\ UNCHANGED <<mode, exited, phase, registered, silent, terminating, listening,
                     listen_socket, children, restart_delay, restart_attempts, up, inbox>>
  BY DEF Restart, acceptorVars
<1>2. TypeOK'
  <2>1. life' \in [Ids -> Lives] /\ \A v \in Ids : life'[v] = "none" <=> v \notin workers'
    BY <1>1 DEF TypeOK, Lives
  <2>2. restart_timers' \in Nat
    BY <1>1 DEF TypeOK
  <2> QED
    BY <1>1, <2>1, <2>2 DEF TypeOK
<1>3. Staffed'
  <2>1. Cardinality(workers') = Cardinality(workers) + 1
    BY <1>1, WorkersFinite, FS_AddElement DEF TypeOK
  <2>2. Cardinality(workers) \in Nat /\ restart_timers \in Nat
    BY WorkersFinite, NumIsPositive DEF TypeOK
  <2> QED
    BY <1>1, <2>1, <2>2 DEF Staffed
<1>4. AcceptsIffServed' /\ GivesUpInTime' /\ SilenceHasCause'
  BY <1>1 DEF AcceptsIffServed, GivesUpInTime, SilenceHasCause, Up
<1>5. GoneIsQuiet'
  BY <1>1 DEF GoneIsQuiet, TypeOK
<1> QED
  BY <1>2, <1>3, <1>4, <1>5

\* Shutdown: a signal, the end of the delay, the end of the process.
LEMMA ShutdownKeeps == ASSUME IInv, Signal \/ StopAccepting \/ Finish PROVE IInv'
<1> USE DEF IInv
<1>1. CASE Signal
  <2>1. /\ phase' = "delaying" /\ restart_timers' = 0
        /\ UNCHANGED <<mode, exited, workers, registered, silent, terminating, listening,
                       listen_socket, children, restart_delay, restart_attempts, life, up, inbox>>
    BY <1>1 DEF Signal, acceptorVars, threadVars
  <2>2. TypeOK'
    BY <2>1 DEF TypeOK
  <2> QED
    BY <2>1, <2>2 DEF Staffed, AcceptsIffServed, GoneIsQuiet, GivesUpInTime, SilenceHasCause, Up
<1>2. CASE StopAccepting
  <2>1. /\ phase = "delaying" /\ phase' = "stopped" /\ listen_socket' = FALSE
        /\ inbox' = [w \in Ids |-> IF w \in workers THEN inbox[w] \cup {"shutdown"} ELSE inbox[w]]
        /\ UNCHANGED <<mode, exited, workers, registered, silent, terminating, listening, children,
                       restart_delay, restart_attempts, restart_timers, life, up>>
    BY <1>2 DEF StopAccepting, restartVars
  <2>2. TypeOK'
    <3>1. inbox' \in [Ids -> SUBSET {"heartbeat", "shutdown"}]
      BY <2>1 DEF TypeOK
    <3> QED
      BY <2>1, <3>1 DEF TypeOK
  <2>3. \A w \in Ids : "heartbeat" \in inbox[w] => "heartbeat" \in inbox'[w]
    BY <2>1
  <2> QED
    BY <2>1, <2>2, <2>3
       DEF Staffed, AcceptsIffServed, GoneIsQuiet, GivesUpInTime, SilenceHasCause, Up
<1>3. CASE Finish
  <2>1. /\ exited' = 0
        /\ UNCHANGED <<mode, phase, workers, registered, silent, terminating, listening,
                       listen_socket, children, restart_delay, restart_attempts, restart_timers,
                       life, up, inbox>>
    BY <1>3 DEF Finish, acceptorVars, restartVars, threadVars
  <2>2. TypeOK'
    BY <2>1 DEF TypeOK
  <2>3. ~Up'
    BY <2>1, ConstantsOK DEF Up
  <2> QED
    BY <2>1, <2>2, <2>3 DEF Staffed, AcceptsIffServed, GoneIsQuiet, GivesUpInTime, SilenceHasCause
<1> QED
  BY <1>1, <1>2, <1>3

\* What a worker's own thread does leaves the primary's books alone.
LEMMA WorkerKeeps ==
    ASSUME IInv, NEW w \in Ids, Started(w) \/ Answer(w) \/ ShutDown(w) \/ Die(w) \/ Hang(w)
    PROVE  IInv'
<1> USE DEF IInv
<1>1. UNCHANGED <<mode, exited, phase, workers, registered, silent, terminating, listening,
                  listen_socket, children, restart_delay, restart_attempts, restart_timers>>
  BY DEF Started, Answer, ShutDown, Die, Hang, Others, acceptorVars, restartVars
<1>2. Staffed' /\ AcceptsIffServed' /\ GivesUpInTime'
  BY <1>1 DEF Staffed, AcceptsIffServed, GivesUpInTime, Up
<1>3. life' = life \/ \E l \in Lives \ {"none"} : life' = [life EXCEPT ![w] = l]
  BY DEF Started, Answer, ShutDown, Die, Hang, Lives
<1>4. life[w] # "none"
  BY DEF Started, Answer, ShutDown, Die, Hang, Alive, TypeOK, GoneIsQuiet
<1>5. life' \in [Ids -> Lives] /\ \A v \in Ids : life'[v] = "none" <=> life[v] = "none"
  BY <1>3, <1>4 DEF TypeOK, Lives
<1>6. /\ up' \in [Ids -> SUBSET {"registered", "heartbeat-ack"}]
      /\ inbox' \in [Ids -> SUBSET {"heartbeat", "shutdown"}]
  <2>1. CASE Started(w)
    BY <2>1 DEF Started, TypeOK
  <2>2. CASE Answer(w)
    BY <2>2 DEF Answer, TypeOK
  <2>3. CASE ShutDown(w)
    BY <2>3 DEF ShutDown, TypeOK
  <2>4. CASE Die(w) \/ Hang(w)
    BY <2>4 DEF Die, Hang, TypeOK
  <2> QED
    BY <2>1, <2>2, <2>3, <2>4
<1>7. TypeOK'
  BY <1>1, <1>5, <1>6 DEF TypeOK
<1>8. GoneIsQuiet'
  <2>1. \A v \in Ids : v # w => up'[v] = up[v]
    BY DEF Started, Answer, ShutDown, Die, Hang, TypeOK
  <2> QED
    BY <1>4, <1>5, <2>1 DEF GoneIsQuiet
<1>9. SilenceHasCause'
  <2>1. \A v \in Ids : "heartbeat" \in inbox[v] \/ "heartbeat-ack" \in up[v] =>
                          "heartbeat" \in inbox'[v] \/ "heartbeat-ack" \in up'[v]
    <3>1. CASE Started(w)
      BY <3>1 DEF Started, TypeOK
    <3>2. CASE Answer(w)
      BY <3>2 DEF Answer, TypeOK
    <3>3. CASE ShutDown(w)
      BY <3>3 DEF ShutDown, TypeOK
    <3>4. CASE Die(w) \/ Hang(w)
      BY <3>4 DEF Die, Hang
    <3> QED
      BY <3>1, <3>2, <3>3, <3>4
  <2> QED
    BY <1>1, <2>1 DEF SilenceHasCause
<1> QED
  BY <1>2, <1>7, <1>8, <1>9

LEMMA StepKeeps == IInv /\ [Next]_vars => IInv'
<1> SUFFICES ASSUME IInv, [Next]_vars PROVE IInv'
  OBVIOUS
<1>1. CASE UNCHANGED vars
  <2>1. UNCHANGED <<mode, exited, phase, workers, registered, silent, terminating, listening,
                    listen_socket, children, restart_delay, restart_attempts, restart_timers,
                    life, up, inbox>>
    BY <1>1 DEF vars, acceptorVars, restartVars, threadVars
  <2>2. TypeOK'
    BY <2>1 DEF IInv, TypeOK
  <2> QED
    BY <2>1, <2>2
       DEF IInv, Staffed, AcceptsIffServed, GoneIsQuiet, GivesUpInTime, SilenceHasCause, Up
<1>2. CASE Next
  BY <1>2, RegisteredKeeps, AckKeeps, HeartbeatKeeps, ExitKeeps, RestartKeeps, ShutdownKeeps,
     WorkerKeeps DEF Next
<1> QED
  BY <1>1, <1>2

LEMMA Invariance == Spec => []IInv
BY InitHolds, StepKeeps, PTL DEF Spec

\* The primary of a cluster (files/index.js) always has, while it serves, at
\* least one worker or pending restart and never more of both than
\* CLUSTER_WORKERS, spawns nothing once it shuts down, and its acceptor listens
\* exactly while a registered worker can be handed a connection.
THEOREM ClusterIsManned == Spec => []Manned
<1>1. IInv => Manned
  BY DEF IInv, Manned
<1> QED
  BY <1>1, Invariance, PTL

\* The heartbeat interval (files/index.js) terminates no worker that has
\* answered every heartbeat it was sent.
THEOREM TerminationIsDeserved == Spec => OnlySilentTerminated
<1> DEFINE Deserved == \A w \in terminating' \ terminating :
                          "heartbeat" \in inbox[w] \/ "heartbeat-ack" \in up[w]
<1>1. ASSUME IInv, Next PROVE Deserved
  <2>1. ASSUME Heartbeat PROVE Deserved
    <3>1. terminating' = terminating \cup Stuck
      BY <2>1 DEF Heartbeat
    <3>2. \A w \in Stuck : w \in Ids /\ silent[w] > 0
      BY <1>1, ConstantsOK DEF Stuck, IInv, TypeOK, Never
    <3> QED
      BY <1>1, <3>1, <3>2 DEF IInv, SilenceHasCause
  <2>2. ASSUME ~Heartbeat PROVE terminating' \subseteq terminating
    BY <1>1, <2>2 DEF Next, Registered, Ack, Exit, Restart, Signal, StopAccepting, Finish, Started,
                      Answer, ShutDown, Die, Hang, Others
  <2> QED
    BY <2>1, <2>2
<1>2. IInv /\ [Next]_vars => [Deserved]_vars
  BY <1>1
<1> QED
  BY <1>2, Invariance, PTL DEF Spec, OnlySilentTerminated
-----------------------------------------------------------------------------
(* The development server: one instance of the handlers at a time.           *)

\* Which instance runs, by where the operation at the head of the queue stands.
OneRuns ==
    /\ step = "start" =>
          userHandlers = active /\ (active # 0 => platform = active /\ devLife[active] = "up")
    /\ step # "start" => queue # <<>> /\ userHandlers = 0
    /\ step = "init" =>
          /\ active # 0 /\ platform = active /\ devLife[active] = "init"
          /\ Head(queue) = <<"install", active>>
    /\ step \in {"retire", "discard", "reject"} => active = 0
    /\ step \in {"discard", "reject"} => Head(queue)[1] = "install"
    /\ platform # 0 => devLife[platform] \in Dev!Alive
    /\ \A g \in Dev!Generations :
          /\ devLife[g] \in {"init", "up"} => g = active
          /\ devLife[g] = "shutdown" =>
                /\ step \in {"retire", "discard", "reject"}
                /\ step # "retire" => g = Head(queue)[2]
                /\ \A h \in Dev!Generations : devLife[h] = "shutdown" => g = h

\* A generation is enqueued at most once, and not before it was made.
QueueIsRight ==
    /\ \A i \in DOMAIN queue :
          /\ queue[i][2] <= generation
          /\ devPhase[queue[i][2]] = IF queue[i][1] = "stop" THEN "none" ELSE "enqueued"
          /\ queue[i][1] = "stop" => closed
    /\ \A i, j \in DOMAIN queue : queue[i][2] = queue[j][2] => i = j
    /\ \A g \in Dev!Generations : g > generation => devPhase[g] = "none"

\* Handlers that are settled and have not failed are there.
Served ==
    /\ step = "discard" => ~Dev!IsCurrent(Head(queue)[2])
    /\ step = "retire" /\ Head(queue)[1] # "install" => handlerFailed
    /\ ~closed /\ devPhase[generation] = "done" /\ ~handlerFailed => userHandlers # 0

ClientsAreServed ==
    \A c \in Clients :
        /\ at[c][2] = "hook" => owner[c] # 0
        /\ at[c][2] = "open" => owner[c] # 0 /\ owner[c] = userHandlers

\* The generations still to come: one for the close, one for each save that was
\* not reloaded, and one for the graph that each superseded import makes stale.
Late == {g \in Dev!Generations : devPhase[g] = "loading" /\ g # generation}
ToCome ==
    IF closed THEN 0
    ELSE 1 + 2 * (MaxSaves + 1 - source) + (IF dirty THEN 2 ELSE 0)
           + Cardinality(Late) + (IF repair = {} THEN 0 ELSE 1)
EnoughGenerations ==
    /\ generation + ToCome <= 2 + 2 * MaxSaves
    /\ ~closed /\ devPhase[generation] = "loading" => currentLoad = generation
    /\ updates < source

DevInv ==
    /\ Dev!TypeOK /\ OneRuns /\ QueueIsRight /\ Served /\ ClientsAreServed /\ EnoughGenerations

\* TypeOK of DevHandlers, by who changes it.
LoadTypes ==
    /\ source \in 1 .. 1 + MaxSaves /\ graph \in 0 .. source
    /\ updates \in 0..MaxSaves /\ dirty \in BOOLEAN
    /\ generation \in Dev!Generations /\ closed \in BOOLEAN
    /\ mod \in [Dev!Generations -> 0 .. source]
    /\ currentLoad \in Dev!Generations \cup {0}
    /\ repair \subseteq {"wanted", "queued"}
Operations == {"install", "fail", "stop"} \X Dev!Generations
QueueTypes ==
    /\ devPhase \in [Dev!Generations -> Dev!Phases]
    /\ queue \in Seq(Operations)
LifeTypes ==
    /\ {active, platform, userHandlers} \subseteq Dev!Generations \cup {0}
    /\ step \in {"start", "retire", "init", "discard", "reject"}
    /\ devLife \in [Dev!Generations -> Dev!Lives]
    /\ handlerFailed \in BOOLEAN
ClientTypes ==
    /\ at \in [Clients -> {"upgrade", "auth"} \X Dev!Places]
    /\ owner \in [Clients -> Dev!Generations \cup {0}]
    /\ seen \in [Clients -> Dev!Generations \cup {0}]
    /\ frame \in [Clients -> {"none", "waiting", "gate"}]

LEMMA DevSets ==
    /\ MaxSaves \in Nat
    /\ Dev!Generations = 1..(2 + 2 * MaxSaves)
    /\ Dev!None = 0
    /\ IsFiniteSet(Dev!Generations)
    /\ \A T : Dev!Cardinality(T) = Cardinality(T)
<1>1. MaxSaves \in Nat /\ 1 \in Int /\ 2 + 2 * MaxSaves \in Int
  BY DevConstantsOK
<1>2. IsFiniteSet(1..(2 + 2 * MaxSaves))
  BY <1>1, FS_Interval
<1> QED
  BY <1>1, <1>2 DEF Dev!Generations, Dev!None, Dev!Cardinality, Cardinality

LEMMA DevTypes == Dev!TypeOK <=> LoadTypes /\ QueueTypes /\ LifeTypes /\ ClientTypes
BY DevSets, ZenonT(40) DEF Dev!TypeOK, LoadTypes, QueueTypes, LifeTypes, ClientTypes, Operations

LEMMA DevTypesAfter ==
    ASSUME LoadTypes', QueueTypes', LifeTypes', ClientTypes'
    PROVE  Dev!TypeOK'
BY DevSets, ZenonT(40) DEF Dev!TypeOK, LoadTypes, QueueTypes, LifeTypes, ClientTypes, Operations

LEMMA DevInitHolds == Dev!Init => DevInv
<1> SUFFICES ASSUME Dev!Init PROVE DevInv
  OBVIOUS
<1> USE DEF Dev!Init
<1>1. /\ 1 \in Dev!Generations /\ 1 \in 1 .. 1 + MaxSaves
      /\ 0 \in 0..1 /\ 0 \in 0..MaxSaves
  BY DevSets
<1>2. LoadTypes
  BY <1>1, DevSets DEF LoadTypes
<1>3. LifeTypes
  BY DevSets DEF LifeTypes, Dev!Lives
<1>4. QueueTypes
  BY DevSets DEF QueueTypes, Dev!Phases
<1>5. ClientTypes
  BY DevSets DEF ClientTypes, Dev!Places
<1>6. OneRuns
  BY DevSets DEF OneRuns, Dev!Alive
<1>7. QueueIsRight /\ Served
  BY DevSets DEF QueueIsRight, Served
<1>8. ClientsAreServed
  BY DEF ClientsAreServed
<1>9. EnoughGenerations
  <2>1. Late = {}
    BY DevSets DEF Late
  <2>2. Cardinality(Late) = 0
    BY <2>1, FS_EmptySet
  <2> QED
    BY <2>2, DevSets DEF EnoughGenerations, ToCome
<1> QED
  BY <1>2, <1>4, <1>5, <1>6, <1>7, <1>8, <1>9, <1>3, DevTypes DEF DevInv

-----------------------------------------------------------------------------
(* The lifecycle queue.                                                      *)

\* What an enqueue and the end of an operation make of the queue.
LEMMA Enqueued ==
    ASSUME NEW s \in Seq(Operations), NEW e \in Operations
    PROVE  LET t == Append(s, e) IN
           /\ t \in Seq(Operations) /\ t # <<>> /\ Len(s) \in Nat /\ Len(t) = Len(s) + 1
           /\ \A i \in 1..Len(s) : t[i] = s[i]
           /\ t[Len(s) + 1] = e
           /\ s # <<>> => Head(t) = Head(s)
BY AppendProperties, LenProperties, EmptySeq, HeadTailProperties

LEMMA Dequeued ==
    ASSUME NEW s \in Seq(Operations), s # <<>>
    PROVE  LET t == Tail(s) \o <<>> IN
           /\ t \in Seq(Operations) /\ Len(s) \in Nat \ {0} /\ Len(t) = Len(s) - 1
           /\ \A i \in 1..(Len(s) - 1) : t[i] = s[i + 1]
           /\ Head(s) = s[1] /\ s[1] \in Operations
<1>1. Tail(s) \o <<>> = Tail(s)
  BY HeadTailProperties, ConcatEmptySeq
<1> QED
  BY <1>1, HeadTailProperties, LenProperties, EmptySeq

LEMMA Requeued ==
    ASSUME NEW s \in Seq(Operations), s # <<>>, NEW e \in Operations
    PROVE  LET t == Tail(s) \o <<e>> IN
           /\ t \in Seq(Operations) /\ Len(s) \in Nat \ {0} /\ Len(t) = Len(s)
           /\ \A i \in 1..(Len(s) - 1) : t[i] = s[i + 1]
           /\ t[Len(s)] = e
           /\ Head(s) = s[1] /\ s[1] \in Operations
<1>1. Tail(s) \in Seq(Operations) /\ Tail(s) \o <<e>> = Append(Tail(s), e)
  BY HeadTailProperties, AppendIsConcat
<1> QED
  BY <1>1, HeadTailProperties, LenProperties, EmptySeq, AppendProperties

\* The head of the queue, and what a Finish of it makes of the books.
AtHead(g) == queue # <<>> /\ Head(queue)[2] = g
Rest(g) == {<<>>, << <<"fail", g>> >>}

LEMMA HeadOfQueue ==
    ASSUME LoadTypes, QueueTypes, QueueIsRight, NEW g \in Dev!Generations, AtHead(g)
    PROVE  /\ Head(queue) = queue[1] /\ 1 \in DOMAIN queue /\ Head(queue) \in Operations
           /\ g <= generation /\ g \in Int /\ generation \in Int
           /\ devPhase[g] = IF Head(queue)[1] = "stop" THEN "none" ELSE "enqueued"
           /\ Head(queue)[1] = "stop" => closed
<1>1. Head(queue) = queue[1] /\ 1 \in DOMAIN queue /\ Head(queue) \in Operations
  BY Dequeued, LenProperties DEF AtHead, QueueTypes
<1> QED
  BY <1>1, DevSets DEF AtHead, QueueIsRight, LoadTypes

LEMMA FinishKeeps ==
    ASSUME LoadTypes, QueueTypes, QueueIsRight, UNCHANGED <<generation, closed>>,
           NEW g \in Dev!Generations, AtHead(g), NEW rest \in Rest(g), Dev!Finish(g, rest),
           rest # <<>> => Head(queue)[1] # "stop"
    PROVE  /\ QueueIsRight' /\ QueueTypes' /\ Late' = Late /\ step' = "start"
           /\ devPhase' = IF rest = <<>> THEN [devPhase EXCEPT ![g] = "done"] ELSE devPhase
           /\ devPhase'[generation] = "loading" => devPhase[generation] = "loading"
<1>1. /\ devPhase' = IF rest = <<>> THEN [devPhase EXCEPT ![g] = "done"] ELSE devPhase
      /\ queue' = Tail(queue) \o rest /\ step' = "start"
  BY DEF Dev!Finish
<1>2. /\ g <= generation /\ generation \in Dev!Generations
      /\ devPhase[g] \in {"none", "enqueued"}
      /\ Head(queue)[1] # "stop" => devPhase[g] = "enqueued"
  BY HeadOfQueue DEF LoadTypes
<1>3. /\ \A h \in Dev!Generations \ {g} : devPhase'[h] = devPhase[h]
      /\ devPhase'[g] \in {"none", "enqueued", "done"}
      /\ devPhase' \in [Dev!Generations -> Dev!Phases]
  BY <1>1, <1>2 DEF QueueTypes, Dev!Phases
<1>4. Late' = Late
  BY <1>2, <1>3 DEF Late
<1>5. devPhase'[generation] = "loading" => devPhase[generation] = "loading"
  BY <1>2, <1>3
<1>6. /\ queue \in Seq(Operations) /\ queue # <<>> /\ queue[1] = Head(queue) /\ queue[1][2] = g
      /\ Len(queue) \in Nat \ {0} /\ DOMAIN queue = 1..Len(queue)
      /\ \A i \in DOMAIN queue : queue[i] \in Operations
  BY HeadOfQueue, Dequeued, LenProperties DEF QueueTypes, AtHead
<1>10. \A i \in DOMAIN queue : queue[i][2] \in Dev!Generations
  BY <1>6 DEF Operations
<1>11. \A i \in DOMAIN queue : i # 1 => queue[i][2] \in Dev!Generations \ {g}
  <2>1. \A i \in DOMAIN queue : queue[i][2] = queue[1][2] => i = 1
    BY <1>6 DEF QueueIsRight
  <2> QED
    BY <1>6, <1>10, <2>1
<1>7. \A h \in Dev!Generations : h > generation => devPhase'[h] = "none"
  BY <1>2, <1>3, DevSets DEF QueueIsRight
<1>8. CASE rest = <<>>
  <2> DEFINE n == Len(queue)
  <2>1. /\ queue' \in Seq(Operations) /\ DOMAIN queue' = 1..(n - 1) /\ n \in Nat \ {0}
        /\ \A i \in 1..(n - 1) : queue'[i] = queue[i + 1]
    BY <1>1, <1>6, <1>8, Dequeued, LenProperties
  <2> HIDE DEF n
  <2>2. \A i \in 1..(n - 1) : i + 1 \in DOMAIN queue /\ i + 1 # 1 /\ queue[i + 1][2] \in Dev!Generations \ {g}
    BY <1>6, <1>11, <2>1 DEF n
  <2>3. \A i, j \in DOMAIN queue' : queue'[i][2] = queue'[j][2] => i = j
    BY <2>1, <2>2 DEF QueueIsRight
  <2>4. \A i \in DOMAIN queue' :
          /\ queue'[i][2] <= generation
          /\ devPhase'[queue'[i][2]] = IF queue'[i][1] = "stop" THEN "none" ELSE "enqueued"
          /\ queue'[i][1] = "stop" => closed
    BY <1>3, <2>1, <2>2 DEF QueueIsRight
  <2> QED
    BY <1>1, <1>3, <1>4, <1>5, <1>7, <2>1, <2>3, <2>4 DEF QueueIsRight, QueueTypes
<1>9. CASE rest = << <<"fail", g>> >>
  <2> DEFINE n == Len(queue)
             e == <<"fail", g>>
  <2>0. e \in Operations /\ e[1] = "fail" /\ e[2] = g
    BY DEF Operations
  <2>1. /\ queue' \in Seq(Operations) /\ DOMAIN queue' = 1..n /\ n \in Nat \ {0}
        /\ \A i \in 1..(n - 1) : queue'[i] = queue[i + 1]
        /\ queue'[n] = e
    <3>1. queue' = Tail(queue) \o <<e>> /\ n \in Nat \ {0}
      BY <1>1, <1>6, <1>9
    <3>2. /\ queue' \in Seq(Operations) /\ Len(queue') = n
          /\ \A i \in 1..(n - 1) : queue'[i] = queue[i + 1]
          /\ queue'[n] = e
      <4> HIDE DEF e
      <4> QED
        BY <1>6, <2>0, <3>1, Requeued, ZenonT(40)
    <3> QED
      BY <3>1, <3>2, LenProperties
  <2> HIDE DEF n, e
  <2>2. \A i \in 1..(n - 1) : i + 1 \in DOMAIN queue /\ i + 1 # 1 /\ queue[i + 1][2] \in Dev!Generations \ {g}
    BY <1>6, <1>11, <2>1 DEF n
  <2>3. \A i, j \in DOMAIN queue' : queue'[i][2] = queue'[j][2] => i = j
    <3>1. \A i \in DOMAIN queue' : i \in 1..(n - 1) \/ i = n
      BY <2>1
    <3> QED
      BY <2>0, <2>1, <2>2, <3>1 DEF QueueIsRight
  <2>4. devPhase'[g] = "enqueued"
    BY <1>1, <1>2, <1>9
  <2>5. \A i \in DOMAIN queue' :
          /\ queue'[i][2] <= generation
          /\ devPhase'[queue'[i][2]] = IF queue'[i][1] = "stop" THEN "none" ELSE "enqueued"
          /\ queue'[i][1] = "stop" => closed
    <3>1. \A i \in DOMAIN queue' : i \in 1..(n - 1) \/ i = n
      BY <2>1
    <3>2. ASSUME NEW i \in 1..(n - 1)
          PROVE  /\ queue'[i][2] <= generation
                 /\ devPhase'[queue'[i][2]] = IF queue'[i][1] = "stop" THEN "none" ELSE "enqueued"
                 /\ queue'[i][1] = "stop" => closed
      BY <1>3, <2>1, <2>2 DEF QueueIsRight
    <3>3. /\ queue'[n][2] <= generation
          /\ devPhase'[queue'[n][2]] = IF queue'[n][1] = "stop" THEN "none" ELSE "enqueued"
          /\ queue'[n][1] = "stop" => closed
      BY <1>2, <2>0, <2>1, <2>4
    <3> QED
      BY <3>1, <3>2, <3>3
  <2> QED
    BY <1>1, <1>3, <1>4, <1>5, <1>7, <2>1, <2>3, <2>5 DEF QueueIsRight, QueueTypes
<1> QED
  BY <1>8, <1>9 DEF Rest

-----------------------------------------------------------------------------
(* Steps of the lifecycle: they leave what Vite loads to itself.             *)

\* The operation at the head goes on, or ends.
QueueStep ==
    \/ UNCHANGED <<queue, devPhase>>
    \/ \E g \in Dev!Generations : \E rest \in Rest(g) :
          /\ AtHead(g) /\ Dev!Finish(g, rest)
          /\ rest # <<>> => Head(queue)[1] # "stop"

\* Open sockets keep their hooks, or are told to close.
HooksStep ==
    /\ UNCHANGED <<owner, seen, frame>>
    /\ \/ UNCHANGED at /\ (userHandlers # 0 => userHandlers' = userHandlers)
       \/ at' = [c \in Clients |-> IF at[c][2] = "open" THEN <<at[c][1], "closing">> ELSE at[c]]

LEMMA LifecycleStep ==
    ASSUME DevInv, QueueStep, HooksStep, LifeTypes', OneRuns', Served',
           UNCHANGED <<source, updates, dirty, graph, mod, currentLoad, repair, generation, closed>>
    PROVE  DevInv'
<1> USE DEF DevInv
<1>1. LoadTypes /\ QueueTypes /\ ClientTypes /\ LoadTypes'
  BY DevTypes DEF LoadTypes
<1>2. /\ QueueIsRight' /\ QueueTypes' /\ Late' = Late
      /\ devPhase'[generation] = "loading" => devPhase[generation] = "loading"
  <2>1. CASE UNCHANGED <<queue, devPhase>>
    BY <1>1, <2>1 DEF QueueIsRight, QueueTypes, Late
  <2> QED
    BY <1>1, <2>1, FinishKeeps DEF QueueStep
<1>3. EnoughGenerations'
  <2>1. ToCome' = ToCome
    BY <1>2 DEF ToCome
  <2> QED
    BY <1>2, <2>1 DEF EnoughGenerations
<1>4. ClientTypes' /\ ClientsAreServed'
  <2>1. CASE UNCHANGED at /\ (userHandlers # 0 => userHandlers' = userHandlers)
    BY <1>1, <2>1 DEF ClientTypes, ClientsAreServed, HooksStep
  <2>2. CASE at' = [c \in Clients |-> IF at[c][2] = "open" THEN <<at[c][1], "closing">> ELSE at[c]]
    <3>1. \A c \in Clients : /\ at'[c] \in {"upgrade", "auth"} \X Dev!Places
                             /\ at'[c][2] # "open"
                             /\ at'[c][2] = "hook" => at[c][2] = "hook"
      BY <1>1, <2>2 DEF ClientTypes, Dev!Places
    <3> QED
      BY <1>1, <2>2, <3>1 DEF ClientTypes, ClientsAreServed, HooksStep
  <2> QED
    BY <2>1, <2>2 DEF HooksStep
<1>5. Dev!TypeOK'
  BY <1>1, <1>2, <1>4, DevTypesAfter
<1> QED
  BY <1>2, <1>3, <1>4, <1>5

LEMMA HeadRuns ==
    ASSUME DevInv, NEW op, NEW g \in Dev!Generations, Dev!Runs(op, g)
    PROVE  /\ LoadTypes /\ QueueTypes /\ LifeTypes
           /\ AtHead(g) /\ Head(queue)[1] = op /\ Head(queue)[2] = g
           /\ g <= generation /\ g \in Int /\ g # 0
           /\ devPhase[g] = IF op = "stop" THEN "none" ELSE "enqueued"
           /\ op = "stop" => closed
<1>1. LoadTypes /\ QueueTypes /\ LifeTypes /\ QueueIsRight
  BY DevTypes DEF DevInv
<1>2. AtHead(g) /\ Head(queue)[1] = op /\ Head(queue)[2] = g
  BY DEF Dev!Runs, AtHead
<1> QED
  BY <1>1, <1>2, HeadOfQueue, DevSets

LEMMA StartInstallKeeps ==
    ASSUME DevInv, NEW g \in Dev!Generations, Dev!StartInstall(g)
    PROVE  DevInv'
<1>1. /\ LifeTypes /\ QueueTypes /\ OneRuns /\ Served /\ AtHead(g) /\ g # 0
      /\ Head(queue)[1] = "install" /\ Head(queue)[2] = g /\ devPhase[g] = "enqueued"
      /\ step = "start" /\ queue # <<>> /\ generation \in Dev!Generations
  BY HeadRuns DEF DevInv, Dev!StartInstall, AtHead, LoadTypes
<1>2. UNCHANGED <<source, updates, dirty, graph, mod, currentLoad, repair, generation, closed, platform>>
  BY DEF Dev!StartInstall, Dev!vite
<1>3. CASE ~Dev!IsCurrent(g) \/ Dev!SameHandlers(g)
  <2>1. /\ handlerFailed' = (handlerFailed /\ ~Dev!IsCurrent(g))
        /\ Dev!Finish(g, <<>>)
        /\ UNCHANGED <<active, devLife, userHandlers, at, owner, seen, frame>>
    BY <1>3 DEF Dev!StartInstall, Dev!clients
  <2>2. QueueStep /\ HooksStep
    BY <1>1, <2>1 DEF QueueStep, HooksStep, Rest
  <2>3. step' = "start" /\ devPhase' = [devPhase EXCEPT ![g] = "done"]
    BY <2>1 DEF Dev!Finish
  <2>4. LifeTypes'
    BY <1>1, <1>2, <2>1, <2>3 DEF LifeTypes
  <2>5. OneRuns'
    BY <1>1, <1>2, <2>1, <2>3 DEF OneRuns
  <2>6. Served'
    <3>1. ASSUME ~closed, g = generation PROVE userHandlers # 0
      BY <1>1, <1>3, <3>1, DevSets DEF OneRuns, Dev!SameHandlers, Dev!IsCurrent
    <3>2. ASSUME g # generation PROVE handlerFailed' = handlerFailed /\ devPhase'[generation] = devPhase[generation]
      BY <1>1, <2>1, <2>3, <3>2 DEF LifeTypes, QueueTypes, Dev!IsCurrent
    <3> QED
      BY <1>1, <1>2, <2>1, <2>3, <3>1, <3>2 DEF Served
  <2> QED
    BY <1>2, <2>2, <2>4, <2>5, <2>6, LifecycleStep
<1>4. CASE ~(~Dev!IsCurrent(g) \/ Dev!SameHandlers(g))
  <2>1. /\ Dev!Retire /\ step' = "retire" /\ UNCHANGED <<queue, devPhase, handlerFailed>>
    BY <1>4 DEF Dev!StartInstall
  <2>2. QueueStep /\ HooksStep
    BY <2>1 DEF QueueStep, HooksStep, Dev!Retire
  <2>3. LifeTypes'
    BY <1>1, <1>2, <2>1, DevSets DEF LifeTypes, Dev!Retire, Dev!Lives, Dev!Alive
  <2>4. OneRuns'
    BY <1>1, <1>2, <2>1, <2>3, DevSets DEF OneRuns, LifeTypes, Dev!Retire, Dev!Alive
  <2>5. Served'
    BY <1>1, <1>2, <1>4, <2>1 DEF Served, Dev!IsCurrent
  <2> QED
    BY <1>2, <2>2, <2>3, <2>4, <2>5, LifecycleStep
<1> QED
  BY <1>3, <1>4

LEMMA ReplaceKeeps ==
    ASSUME DevInv, NEW g \in Dev!Generations, Dev!Replace(g)
    PROVE  DevInv'
<1>1. /\ LifeTypes /\ QueueTypes /\ OneRuns /\ Served /\ AtHead(g) /\ g # 0
      /\ Head(queue)[1] = "install" /\ Head(queue)[2] = g /\ devPhase[g] = "enqueued"
      /\ Head(queue) = <<"install", g>>
      /\ step = "retire" /\ queue # <<>> /\ generation \in Dev!Generations
      /\ \A h \in Dev!Generations : devLife[h] # "shutdown"
  BY HeadRuns DEF DevInv, Dev!Replace, AtHead, LoadTypes, Dev!Runs
<1>2. UNCHANGED <<source, updates, dirty, graph, mod, currentLoad, repair, generation, closed,
                  userHandlers, handlerFailed, at, owner, seen, frame>>
  BY DEF Dev!Replace, Dev!vite, Dev!served, Dev!clients
<1>3. CASE Dev!IsCurrent(g)
  <2>1. /\ active' = g /\ platform' = g /\ devLife' = [devLife EXCEPT ![g] = "init"]
        /\ step' = "init" /\ UNCHANGED <<queue, devPhase>>
    BY <1>3 DEF Dev!Replace
  <2>2. QueueStep /\ HooksStep
    BY <1>2, <2>1 DEF QueueStep, HooksStep
  <2>3. LifeTypes'
    BY <1>1, <1>2, <2>1 DEF LifeTypes, Dev!Lives, Dev!Alive
  <2>4. OneRuns'
    <3>1. \A h \in Dev!Generations : devLife[h] \notin {"init", "up", "shutdown"}
      BY <1>1, DevSets DEF OneRuns
    <3>2. \A h \in Dev!Generations :
             /\ devLife'[h] = "init" <=> h = g
             /\ devLife'[h] \notin {"up", "shutdown"}
      BY <1>1, <2>1, <3>1 DEF LifeTypes
    <3> QED
      BY <1>1, <1>2, <2>1, <3>2 DEF OneRuns, Dev!Alive
  <2>5. Served'
    BY <1>1, <1>2, <2>1 DEF Served
  <2> QED
    BY <1>2, <2>2, <2>3, <2>4, <2>5, LifecycleStep
<1>4. CASE ~Dev!IsCurrent(g)
  <2>1. Dev!Finish(g, <<>>) /\ UNCHANGED <<active, devLife, platform>>
    BY <1>4 DEF Dev!Replace
  <2>2. QueueStep /\ HooksStep
    BY <1>1, <1>2, <2>1 DEF QueueStep, HooksStep, Rest
  <2>3. step' = "start" /\ devPhase' = [devPhase EXCEPT ![g] = "done"]
    BY <2>1 DEF Dev!Finish
  <2>4. LifeTypes'
    BY <1>1, <1>2, <2>1, <2>3 DEF LifeTypes
  <2>5. OneRuns'
    BY <1>1, <1>2, <2>1, <2>3 DEF OneRuns
  <2>6. Served'
    BY <1>1, <1>2, <1>4, <2>3 DEF Served, QueueTypes, Dev!IsCurrent
  <2> QED
    BY <1>2, <2>2, <2>4, <2>5, <2>6, LifecycleStep
<1> QED
  BY <1>3, <1>4

LEMMA InitReturnsKeeps ==
    ASSUME DevInv, NEW g \in Dev!Generations, Dev!InitReturns(g)
    PROVE  DevInv'
<1>1. /\ LifeTypes /\ QueueTypes /\ OneRuns /\ Served /\ AtHead(g) /\ g # 0
      /\ Head(queue)[1] = "install" /\ Head(queue)[2] = g /\ devPhase[g] = "enqueued"
      /\ Head(queue) = <<"install", g>>
      /\ step = "init" /\ queue # <<>> /\ generation \in Dev!Generations
  BY HeadRuns DEF DevInv, Dev!InitReturns, AtHead, LoadTypes, Dev!Runs
<1>2. UNCHANGED <<source, updates, dirty, graph, mod, currentLoad, repair, generation, closed,
                  platform, at, owner, seen, frame>>
  BY DEF Dev!InitReturns, Dev!vite, Dev!clients
<1>3. active = g /\ platform = g /\ userHandlers = 0 /\ devLife[g] = "init"
  BY <1>1 DEF OneRuns
<1>4. CASE Dev!IsCurrent(g)
  <2>1. /\ userHandlers' = g /\ handlerFailed' = FALSE
        /\ devLife' = [devLife EXCEPT ![g] = "up"]
        /\ Dev!Finish(g, <<>>) /\ UNCHANGED active
    BY <1>4 DEF Dev!InitReturns
  <2>2. QueueStep /\ HooksStep
    BY <1>1, <1>2, <1>3, <2>1 DEF QueueStep, HooksStep, Rest
  <2>3. step' = "start"
    BY <2>1 DEF Dev!Finish
  <2>4. LifeTypes'
    BY <1>1, <1>2, <2>1, <2>3 DEF LifeTypes, Dev!Lives, Dev!Alive
  <2>5. OneRuns'
    BY <1>1, <1>2, <1>3, <2>1, <2>3, <2>4 DEF OneRuns, LifeTypes, Dev!Alive
  <2>6. Served'
    BY <1>1, <2>1, <2>3 DEF Served
  <2> QED
    BY <1>2, <2>2, <2>4, <2>5, <2>6, LifecycleStep
<1>5. CASE ~Dev!IsCurrent(g)
  <2>1. /\ active' = 0 /\ devLife' = [devLife EXCEPT ![g] = "shutdown"]
        /\ step' = "discard" /\ UNCHANGED <<queue, devPhase, userHandlers, handlerFailed>>
    BY <1>5, DevSets DEF Dev!InitReturns, Dev!served
  <2>2. QueueStep /\ HooksStep
    BY <1>2, <2>1 DEF QueueStep, HooksStep
  <2>3. LifeTypes'
    BY <1>1, <1>2, <2>1 DEF LifeTypes, Dev!Lives, Dev!Alive
  <2>4. OneRuns'
    BY <1>1, <1>2, <1>3, <2>1, <2>3 DEF OneRuns, LifeTypes, Dev!Alive
  <2>5. Served'
    BY <1>1, <1>2, <1>5, <2>1 DEF Served, Dev!IsCurrent
  <2> QED
    BY <1>2, <2>2, <2>3, <2>4, <2>5, LifecycleStep
<1> QED
  BY <1>4, <1>5

LEMMA InitFailsKeeps ==
    ASSUME DevInv, NEW g \in Dev!Generations, Dev!InitThrows(g) \/ Dev!InitTimesOut(g)
    PROVE  DevInv'
<1>1. /\ LifeTypes /\ QueueTypes /\ OneRuns /\ Served /\ AtHead(g) /\ g # 0
      /\ Head(queue)[1] = "install" /\ Head(queue)[2] = g /\ devPhase[g] = "enqueued"
      /\ Head(queue) = <<"install", g>>
      /\ step = "init" /\ queue # <<>> /\ generation \in Dev!Generations
  BY HeadRuns DEF DevInv, Dev!InitThrows, Dev!InitTimesOut, AtHead, LoadTypes, Dev!Runs
<1>2. UNCHANGED <<source, updates, dirty, graph, mod, currentLoad, repair, generation, closed,
                  userHandlers, handlerFailed, at, owner, seen, frame>>
  BY DEF Dev!InitThrows, Dev!InitTimesOut, Dev!clients, Dev!served, Dev!vite, Dev!loads
<1>3. active = g /\ platform = g /\ userHandlers = 0 /\ devLife[g] = "init"
  BY <1>1 DEF OneRuns
<1>4. CASE Dev!InitThrows(g)
  <2>1. /\ active' = 0 /\ devLife' = [devLife EXCEPT ![g] = "shutdown"]
        /\ step' = "reject" /\ UNCHANGED <<queue, devPhase, platform>>
    BY <1>4, DevSets DEF Dev!InitThrows, Dev!loads
  <2>2. QueueStep /\ HooksStep
    BY <1>2, <2>1 DEF QueueStep, HooksStep
  <2>3. LifeTypes'
    BY <1>1, <1>2, <2>1 DEF LifeTypes, Dev!Lives, Dev!Alive
  <2>4. OneRuns'
    BY <1>1, <1>2, <1>3, <2>1, <2>3 DEF OneRuns, LifeTypes, Dev!Alive
  <2>5. Served'
    BY <1>1, <1>2, <2>1 DEF Served
  <2> QED
    BY <1>2, <2>2, <2>3, <2>4, <2>5, LifecycleStep
<1>5. CASE Dev!InitTimesOut(g)
  <2>1. /\ active' = 0 /\ platform' = 0 /\ devLife' = [devLife EXCEPT ![g] = "lateInit"]
        /\ Dev!Finish(g, Dev!Rejected(g))
    BY <1>5, DevSets DEF Dev!InitTimesOut
  <2>2. Dev!Rejected(g) \in Rest(g)
    BY DEF Dev!Rejected, Rest
  <2>3. QueueStep /\ HooksStep
    BY <1>1, <1>2, <2>1, <2>2 DEF QueueStep, HooksStep
  <2>4. step' = "start"
    BY <2>1 DEF Dev!Finish
  <2>5. LifeTypes'
    BY <1>1, <1>2, <2>1, <2>4 DEF LifeTypes, Dev!Lives
  <2>6. OneRuns'
    BY <1>1, <1>2, <1>3, <2>1, <2>4, <2>5 DEF OneRuns, LifeTypes, Dev!Alive
  <2>7. Served'
    <3>1. ASSUME ~closed, g = generation PROVE devPhase' = devPhase
      BY <2>1, <3>1 DEF Dev!Finish, Dev!Rejected, Dev!IsCurrent
    <3>2. ASSUME g # generation PROVE devPhase'[generation] = devPhase[generation]
      BY <1>1, <2>1, <3>2 DEF Dev!Finish, QueueTypes
    <3> QED
      BY <1>1, <1>2, <2>4, <3>1, <3>2 DEF Served
  <2> QED
    BY <1>2, <2>3, <2>5, <2>6, <2>7, LifecycleStep
<1> QED
  BY <1>4, <1>5

LEMMA HooksEndKeeps ==
    ASSUME DevInv, NEW g \in Dev!Generations, Dev!ShutdownEnds(g) \/ Dev!LateInitEnds(g)
    PROVE  DevInv'
<1>1. LifeTypes /\ OneRuns /\ Served
  BY DevTypes DEF DevInv
<1>2. UNCHANGED <<source, updates, dirty, graph, mod, currentLoad, repair, generation, closed,
                  queue, devPhase, step, active, userHandlers, handlerFailed, at, owner, seen, frame>>
  BY DEF Dev!ShutdownEnds, Dev!LateInitEnds, Dev!vite, Dev!loads, Dev!served, Dev!clients
<1>3. QueueStep /\ HooksStep /\ Served'
  BY <1>1, <1>2 DEF QueueStep, HooksStep, Served, Dev!IsCurrent
<1>4. CASE Dev!ShutdownEnds(g)
  <2>1. /\ devLife[g] = "shutdown" /\ devLife' = [devLife EXCEPT ![g] = "down"]
        /\ platform' = IF platform = g THEN 0 ELSE platform
    BY <1>4, DevSets DEF Dev!ShutdownEnds
  <2>2. LifeTypes'
    BY <1>1, <1>2, <2>1 DEF LifeTypes, Dev!Lives
  <2>3. OneRuns'
    BY <1>1, <1>2, <2>1, <2>2 DEF OneRuns, LifeTypes, Dev!Alive
  <2> QED
    BY <1>2, <1>3, <2>2, <2>3, LifecycleStep
<1>5. CASE Dev!LateInitEnds(g)
  <2>1. /\ devLife[g] \in {"lateInit", "lateShutdown"} /\ UNCHANGED platform
        /\ devLife' = [devLife EXCEPT ![g] = IF devLife[g] = "lateInit" THEN "lateShutdown" ELSE "down"]
    BY <1>5 DEF Dev!LateInitEnds
  <2>2. LifeTypes'
    BY <1>1, <1>2, <2>1 DEF LifeTypes, Dev!Lives
  <2>3. OneRuns'
    BY <1>1, <1>2, <2>1, <2>2 DEF OneRuns, LifeTypes, Dev!Alive
  <2> QED
    BY <1>2, <1>3, <2>2, <2>3, LifecycleStep
<1> QED
  BY <1>4, <1>5

LEMMA DiscardedKeeps ==
    ASSUME DevInv, NEW g \in Dev!Generations, Dev!Discarded(g)
    PROVE  DevInv'
<1>1. /\ LifeTypes /\ QueueTypes /\ OneRuns /\ Served /\ AtHead(g) /\ g # 0
      /\ Head(queue)[1] = "install" /\ Head(queue)[2] = g /\ devPhase[g] = "enqueued"
      /\ step \in {"discard", "reject"} /\ queue # <<>> /\ generation \in Dev!Generations
      /\ devLife[g] # "shutdown"
  BY HeadRuns DEF DevInv, Dev!Discarded, AtHead, LoadTypes, Dev!Runs
<1>2. UNCHANGED <<source, updates, dirty, graph, mod, currentLoad, repair, generation, closed,
                  active, platform, devLife, userHandlers, handlerFailed, at, owner, seen, frame>>
  BY DEF Dev!Discarded, Dev!vite, Dev!clients, Dev!served
<1>3. PICK rest : /\ rest = (IF step = "reject" THEN Dev!Rejected(g) ELSE <<>>)
                  /\ Dev!Finish(g, rest)
  BY DEF Dev!Discarded
<1>4. rest \in Rest(g) /\ step' = "start"
  BY <1>3 DEF Dev!Rejected, Rest, Dev!Finish
<1>5. QueueStep /\ HooksStep
  BY <1>1, <1>2, <1>3, <1>4 DEF QueueStep, HooksStep
<1>6. LifeTypes'
  BY <1>1, <1>2, <1>4 DEF LifeTypes
<1>7. OneRuns'
  BY <1>1, <1>2, <1>4 DEF OneRuns
<1>8. Served'
  <2>1. ASSUME ~closed, g = generation PROVE devPhase' = devPhase
    <3>1. step = "reject"
      BY <1>1, <2>1 DEF Served, Dev!IsCurrent
    <3> QED
      BY <1>3, <2>1, <3>1 DEF Dev!Finish, Dev!Rejected, Dev!IsCurrent
  <2>2. ASSUME g # generation PROVE devPhase'[generation] = devPhase[generation]
    BY <1>1, <1>3, <2>2 DEF Dev!Finish, QueueTypes
  <2> QED
    BY <1>1, <1>2, <1>4, <2>1, <2>2 DEF Served
<1> QED
  BY <1>2, <1>5, <1>6, <1>7, <1>8, LifecycleStep

LEMMA StartRetireKeeps ==
    ASSUME DevInv, NEW g \in Dev!Generations, Dev!StartRetire(g)
    PROVE  DevInv'
<1>1. PICK op \in {"fail", "stop"} : Dev!Runs(op, g)
  BY DEF Dev!StartRetire, Dev!vite
<1>2. /\ LifeTypes /\ QueueTypes /\ OneRuns /\ Served /\ AtHead(g) /\ g # 0
      /\ Head(queue)[1] = op /\ Head(queue)[2] = g
      /\ step = "start" /\ queue # <<>> /\ generation \in Dev!Generations
  BY <1>1, HeadRuns DEF DevInv, Dev!StartRetire, AtHead, LoadTypes
<1>3. UNCHANGED <<source, updates, dirty, graph, mod, currentLoad, repair, generation, closed, platform>>
  BY DEF Dev!StartRetire, Dev!vite
<1>4. CASE Dev!Runs("fail", g) /\ ~Dev!IsCurrent(g)
  <2>1. /\ Dev!Finish(g, <<>>)
        /\ UNCHANGED <<active, devLife, userHandlers, handlerFailed, at, owner, seen, frame>>
    BY <1>4 DEF Dev!StartRetire, Dev!clients, Dev!served
  <2>2. QueueStep /\ HooksStep
    BY <1>2, <2>1 DEF QueueStep, HooksStep, Rest
  <2>3. step' = "start" /\ devPhase' = [devPhase EXCEPT ![g] = "done"]
    BY <2>1 DEF Dev!Finish
  <2>4. LifeTypes'
    BY <1>2, <1>3, <2>1, <2>3 DEF LifeTypes
  <2>5. OneRuns'
    BY <1>2, <1>3, <2>1, <2>3 DEF OneRuns
  <2>6. Served'
    BY <1>2, <1>3, <1>4, <2>1, <2>3 DEF Served, QueueTypes, Dev!IsCurrent
  <2> QED
    BY <1>3, <2>2, <2>4, <2>5, <2>6, LifecycleStep
<1>5. CASE ~(Dev!Runs("fail", g) /\ ~Dev!IsCurrent(g))
  <2>1. /\ Dev!Retire /\ step' = "retire" /\ handlerFailed' = TRUE /\ UNCHANGED <<queue, devPhase>>
    BY <1>5 DEF Dev!StartRetire, Dev!vite
  <2>2. QueueStep /\ HooksStep
    BY <2>1 DEF QueueStep, HooksStep, Dev!Retire
  <2>3. LifeTypes'
    BY <1>2, <1>3, <2>1, DevSets DEF LifeTypes, Dev!Retire, Dev!Lives, Dev!Alive
  <2>4. OneRuns'
    BY <1>2, <1>3, <2>1, <2>3, DevSets DEF OneRuns, LifeTypes, Dev!Retire, Dev!Alive
  <2>5. Served'
    BY <1>2, <1>3, <2>1 DEF Served
  <2> QED
    BY <1>3, <2>2, <2>3, <2>4, <2>5, LifecycleStep
<1> QED
  BY <1>4, <1>5

LEMMA RetiredKeeps ==
    ASSUME DevInv, NEW g \in Dev!Generations, Dev!Retired(g)
    PROVE  DevInv'
<1>1. PICK op \in {"fail", "stop"} : Dev!Runs(op, g)
  BY DEF Dev!Retired
<1>2. /\ LifeTypes /\ QueueTypes /\ OneRuns /\ Served /\ AtHead(g) /\ g # 0
      /\ Head(queue)[1] = op /\ Head(queue)[2] = g
      /\ step = "retire" /\ queue # <<>> /\ generation \in Dev!Generations
      /\ \A h \in Dev!Generations : devLife[h] # "shutdown"
  BY <1>1, HeadRuns DEF DevInv, Dev!Retired, AtHead, LoadTypes
<1>3. /\ UNCHANGED <<source, updates, dirty, graph, mod, currentLoad, repair, generation, closed,
                     active, platform, devLife, userHandlers, handlerFailed, at, owner, seen, frame>>
      /\ Dev!Finish(g, <<>>)
  BY DEF Dev!Retired, Dev!vite, Dev!served, Dev!clients
<1>4. step' = "start" /\ handlerFailed
  BY <1>2, <1>3 DEF Dev!Finish, Served
<1>5. QueueStep /\ HooksStep
  BY <1>2, <1>3 DEF QueueStep, HooksStep, Rest
<1>6. LifeTypes' /\ OneRuns' /\ Served'
  BY <1>2, <1>3, <1>4 DEF LifeTypes, OneRuns, Served
<1> QED
  BY <1>3, <1>5, <1>6, LifecycleStep

-----------------------------------------------------------------------------
(* Requests and frames.                                                      *)

HooksUp ==
    \A c \in Clients :
        (\/ at[c][2] # "hook" /\ at'[c][2] = "hook"
         \/ frame[c] = "waiting" /\ frame'[c] = "gate") => devLife[owner'[c]] = "up"

LEMMA UpWhenServed ==
    ASSUME DevInv, userHandlers # 0
    PROVE  /\ step = "start" /\ active = userHandlers /\ platform = active
           /\ devLife[userHandlers] = "up"
BY DEF DevInv, OneRuns

LEMMA Moved ==
    ASSUME NEW S, NEW T, NEW f \in [Clients -> S \X T], NEW c \in Clients, NEW p \in T
    PROVE  LET h == [f EXCEPT ![c][2] = p] IN
           /\ h \in [Clients -> S \X T]
           /\ h[c] = <<f[c][1], p>> /\ h[c][2] = p
           /\ \A d \in Clients \ {c} : h[d] = f[d]
<1>1. f[c] \in S \X T /\ f[c] = <<f[c][1], f[c][2]>> /\ f[c][1] \in S
  OBVIOUS
<1>2. [f[c] EXCEPT ![2] = p] = <<f[c][1], p>>
  BY <1>1
<1>3. [f EXCEPT ![c][2] = p] = [f EXCEPT ![c] = <<f[c][1], p>>]
  BY <1>2
<1> QED
  BY <1>1, <1>3

\* A step of one client: all but its own entries stays.
ClientStep(c) ==
    /\ UNCHANGED <<source, updates, dirty, graph, mod, currentLoad, repair, generation, closed,
                   devPhase, queue, step, active, devLife, platform, userHandlers, handlerFailed>>
    /\ ClientTypes'
    /\ \A d \in Clients \ {c} : at'[d] = at[d] /\ owner'[d] = owner[d] /\ frame'[d] = frame[d]

LEMMA ClientStepKeeps ==
    ASSUME DevInv, NEW c \in Clients, ClientStep(c),
           at'[c][2] = "hook" => owner'[c] # 0,
           at'[c][2] = "open" => owner'[c] # 0 /\ owner'[c] = userHandlers
    PROVE  DevInv'
<1> USE DEF DevInv, ClientStep
<1>1. LoadTypes /\ QueueTypes /\ LifeTypes
  BY DevTypes
<1>2. Dev!TypeOK'
  <2>1. LoadTypes' /\ QueueTypes' /\ LifeTypes'
    BY <1>1 DEF LoadTypes, QueueTypes, LifeTypes
  <2> QED
    BY <2>1, DevTypesAfter
<1>3. OneRuns' /\ QueueIsRight' /\ Served'
  BY DEF OneRuns, QueueIsRight, Served, Dev!IsCurrent
<1>4. EnoughGenerations'
  BY DEF EnoughGenerations, ToCome, Late
<1>5. ClientsAreServed'
  BY DEF ClientsAreServed
<1> QED
  BY <1>2, <1>3, <1>4, <1>5

LEMMA HandlersReadyKeeps ==
    ASSUME DevInv, NEW c \in Clients, Dev!HandlersReady(c)
    PROVE  DevInv' /\ HooksUp
<1>1. LoadTypes /\ LifeTypes /\ ClientTypes /\ Served
  BY DevTypes DEF DevInv
<1>2. PICK place \in {"idle", "hook", "body"} :
         /\ Dev!Go(c, place)
         /\ place # "idle" => ~closed /\ ~handlerFailed
  BY DEF Dev!HandlersReady
<1>3. /\ at'[c][2] = place /\ at' \in [Clients -> {"upgrade", "auth"} \X Dev!Places]
      /\ \A d \in Clients \ {c} : at'[d] = at[d]
  <2>1. place \in Dev!Places
    BY DEF Dev!Places
  <2>2. at' = [at EXCEPT ![c][2] = place] /\ at \in [Clients -> {"upgrade", "auth"} \X Dev!Places]
    BY <1>1, <1>2 DEF ClientTypes, Dev!Go
  <2> QED
    BY <2>1, <2>2, Moved
<1>4. /\ seen' = [seen EXCEPT ![c] = generation] /\ owner' = [owner EXCEPT ![c] = userHandlers]
      /\ frame' = frame
      /\ UNCHANGED <<source, updates, dirty, graph, mod, currentLoad, repair, generation, closed,
                     devPhase, queue, step, active, devLife, platform, userHandlers, handlerFailed>>
  BY DEF Dev!HandlersReady, Dev!vite, Dev!loads, Dev!lifecycle, Dev!served
<1>5. ClientStep(c) /\ owner'[c] = userHandlers
  BY <1>1, <1>3, <1>4 DEF ClientStep, ClientTypes, LifeTypes, LoadTypes
<1>6. place = "hook" => userHandlers # 0
  BY <1>1, <1>2 DEF Dev!HandlersReady, Dev!Settled, Served
<1>7. DevInv'
  BY <1>2, <1>3, <1>5, <1>6, ClientStepKeeps
<1>8. HooksUp
  BY <1>3, <1>4, <1>5, <1>6, UpWhenServed DEF HooksUp
<1> QED
  BY <1>7, <1>8

LEMMA AcceptedKeeps ==
    ASSUME DevInv, NEW c \in Clients,
           Dev!BodyRead(c) \/ Dev!Refused(c) \/ Dev!Accepted(c) \/ Dev!SocketCloses(c)
    PROVE  DevInv' /\ HooksUp
<1>1. LifeTypes /\ ClientTypes /\ ClientsAreServed
  BY DevTypes DEF DevInv
<1>2. PICK place \in {"idle", "waiting", "open"} :
         /\ Dev!Go(c, place)
         /\ place = "open" => at[c][2] = "hook" /\ owner[c] = userHandlers
  BY DEF Dev!BodyRead, Dev!Refused, Dev!Accepted, Dev!SocketCloses, Dev!SnapshotHolds
<1>3. /\ at'[c][2] = place /\ at' \in [Clients -> {"upgrade", "auth"} \X Dev!Places]
      /\ \A d \in Clients \ {c} : at'[d] = at[d]
  <2>1. place \in Dev!Places
    BY DEF Dev!Places
  <2>2. at' = [at EXCEPT ![c][2] = place] /\ at \in [Clients -> {"upgrade", "auth"} \X Dev!Places]
    BY <1>1, <1>2 DEF ClientTypes, Dev!Go
  <2> QED
    BY <2>1, <2>2, Moved
<1>4. UNCHANGED <<source, updates, dirty, graph, mod, currentLoad, repair, generation, closed,
                  devPhase, queue, step, active, devLife, platform, userHandlers, handlerFailed,
                  owner, seen, frame>>
  BY DEF Dev!BodyRead, Dev!Refused, Dev!Accepted, Dev!SocketCloses,
         Dev!vite, Dev!loads, Dev!lifecycle, Dev!served
<1>5. ClientStep(c)
  BY <1>1, <1>3, <1>4 DEF ClientStep, ClientTypes
<1>6. place = "open" => owner[c] # 0
  BY <1>1, <1>2 DEF ClientsAreServed
<1>7. DevInv'
  BY <1>2, <1>3, <1>4, <1>5, <1>6, ClientStepKeeps
<1>8. HooksUp
  BY <1>3, <1>4 DEF HooksUp
<1> QED
  BY <1>7, <1>8

LEMMA FrameReadyKeeps ==
    ASSUME DevInv, NEW c \in Clients, Dev!FrameReady(c)
    PROVE  DevInv' /\ HooksUp
<1>1. LifeTypes /\ ClientTypes /\ ClientsAreServed
  BY DevTypes DEF DevInv
<1>2. UNCHANGED <<source, updates, dirty, graph, mod, currentLoad, repair, generation, closed,
                  devPhase, queue, step, active, devLife, platform, userHandlers, handlerFailed,
                  owner, seen>>
  BY DEF Dev!FrameReady, Dev!vite, Dev!loads, Dev!lifecycle, Dev!served
<1>3. /\ frame' \in [Clients -> {"none", "waiting", "gate"}]
      /\ \A d \in Clients \ {c} : frame'[d] = frame[d]
      /\ frame'[c] = "gate" => Dev!StillServed(c)
  BY <1>1 DEF Dev!FrameReady, ClientTypes
<1>4. /\ at' \in [Clients -> {"upgrade", "auth"} \X Dev!Places]
      /\ \A d \in Clients \ {c} : at'[d] = at[d]
      /\ at'[c] = at[c] \/ at'[c][2] = "closing"
  <2>1. CASE Dev!Go(c, "closing")
    <3>1. "closing" \in Dev!Places
      BY DEF Dev!Places
    <3>2. at' = [at EXCEPT ![c][2] = "closing"] /\ at \in [Clients -> {"upgrade", "auth"} \X Dev!Places]
      BY <1>1, <2>1 DEF ClientTypes, Dev!Go
    <3> QED
      BY <3>1, <3>2, Moved
  <2>2. CASE UNCHANGED at
    BY <1>1, <2>2 DEF ClientTypes
  <2> QED
    BY <2>1, <2>2 DEF Dev!FrameReady
<1>5. ClientStep(c)
  BY <1>1, <1>2, <1>3, <1>4 DEF ClientStep, ClientTypes
<1>6. DevInv'
  BY <1>1, <1>2, <1>4, <1>5, ClientStepKeeps DEF ClientsAreServed
<1>7. HooksUp
  <2>1. ASSUME frame'[c] = "gate" PROVE owner[c] # 0 /\ owner[c] = userHandlers
    BY <1>1, <1>3, <2>1 DEF Dev!StillServed, ClientsAreServed
  <2> QED
    BY <1>2, <1>3, <1>4, <2>1, UpWhenServed DEF HooksUp
<1> QED
  BY <1>6, <1>7

LEMMA ArriveKeeps ==
    ASSUME DevInv, NEW c \in Clients,
           \/ \E kind \in {"upgrade", "auth"} : Dev!Arrive(c, kind)
           \/ Dev!FrameIn(c) \/ Dev!GateAnswers(c)
    PROVE  DevInv' /\ HooksUp
<1>1. LifeTypes /\ ClientTypes /\ ClientsAreServed
  BY DevTypes DEF DevInv
<1>2. UNCHANGED <<source, updates, dirty, graph, mod, currentLoad, repair, generation, closed,
                  devPhase, queue, step, active, devLife, platform, userHandlers, handlerFailed,
                  owner, seen>>
  BY DEF Dev!Arrive, Dev!FrameIn, Dev!GateAnswers, Dev!vite, Dev!loads, Dev!lifecycle, Dev!served
<1>3. /\ frame'[c] # "gate" \/ frame' = frame
      /\ \A d \in Clients \ {c} : frame'[d] = frame[d]
  BY <1>1 DEF Dev!Arrive, Dev!FrameIn, Dev!GateAnswers, ClientTypes
<1>4. /\ at' \in [Clients -> {"upgrade", "auth"} \X Dev!Places]
      /\ \A d \in Clients \ {c} : at'[d] = at[d]
      /\ at' = at \/ at'[c][2] = "waiting"
  <2>1. ASSUME NEW kind \in {"upgrade", "auth"}, Dev!Arrive(c, kind)
        PROVE  /\ at' \in [Clients -> {"upgrade", "auth"} \X Dev!Places]
               /\ \A d \in Clients \ {c} : at'[d] = at[d]
               /\ at'[c][2] = "waiting"
    BY <1>1, <2>1 DEF Dev!Arrive, ClientTypes, Dev!Places
  <2>2. CASE Dev!FrameIn(c) \/ Dev!GateAnswers(c)
    BY <1>1, <2>2 DEF Dev!FrameIn, Dev!GateAnswers, ClientTypes
  <2> QED
    BY <2>1, <2>2
<1>5. frame' \in [Clients -> {"none", "waiting", "gate"}]
  BY <1>1 DEF Dev!Arrive, Dev!FrameIn, Dev!GateAnswers, ClientTypes
<1>6. ClientStep(c)
  BY <1>1, <1>2, <1>3, <1>4, <1>5 DEF ClientStep, ClientTypes
<1>7. DevInv'
  BY <1>1, <1>2, <1>4, <1>6, ClientStepKeeps DEF ClientsAreServed
<1>8. HooksUp
  BY <1>3, <1>4 DEF HooksUp
<1> QED
  BY <1>7, <1>8

-----------------------------------------------------------------------------
(* What Vite loads, and the end of the server.                               *)

\* A step that leaves the instances alone and may enqueue an operation.
LEMMA LoadStep ==
    ASSUME DevInv, LoadTypes', QueueTypes', QueueIsRight', EnoughGenerations',
           UNCHANGED <<step, active, platform, devLife, userHandlers, at, owner, seen, frame>>,
           queue # <<>> => queue' # <<>> /\ Head(queue') = Head(queue),
           handlerFailed' \in BOOLEAN, handlerFailed => handlerFailed', closed => closed',
           generation' >= generation,
           ~closed' /\ devPhase'[generation'] = "done" =>
              generation' = generation /\ devPhase[generation] = "done"
    PROVE  DevInv' /\ HooksUp
<1>1. LoadTypes /\ QueueTypes /\ LifeTypes /\ ClientTypes /\ QueueIsRight
  BY DevTypes DEF DevInv
<1>2. Dev!TypeOK'
  <2>1. LifeTypes' /\ ClientTypes'
    BY <1>1 DEF LifeTypes, ClientTypes
  <2> QED
    BY <2>1, DevTypesAfter
<1>3. OneRuns'
  BY DEF OneRuns, DevInv
<1>4. Served'
  <2>1. ASSUME step = "discard" PROVE ~Dev!IsCurrent(Head(queue)[2])'
    <3> DEFINE g == Head(queue)[2]
    <3>1. queue # <<>> /\ AtHead(g) /\ ~Dev!IsCurrent(g)
      BY <2>1 DEF DevInv, OneRuns, Served, AtHead
    <3>2. g \in Dev!Generations
      BY <1>1, <3>1, Dequeued DEF QueueTypes, Operations
    <3>3. Head(queue')[2] = g
      BY <3>1
    <3> HIDE DEF g
    <3>4. g <= generation /\ g \in Int /\ generation \in Int
      BY <1>1, <3>1, <3>2, HeadOfQueue
    <3>5. generation' \in Int
      BY DevSets DEF LoadTypes
    <3> QED
      BY <1>1, <3>1, <3>3, <3>4, <3>5 DEF Dev!IsCurrent, LoadTypes
  <2>2. step' = "retire" /\ Head(queue')[1] # "install" => handlerFailed'
    BY DEF DevInv, OneRuns, Served
  <2>3. ~closed' /\ devPhase'[generation'] = "done" /\ ~handlerFailed' => userHandlers' # 0
    BY DEF DevInv, Served
  <2> QED
    BY <2>1, <2>2, <2>3 DEF Served
<1>5. ClientsAreServed' /\ HooksUp
  BY DEF DevInv, ClientsAreServed, HooksUp
<1> QED
  BY <1>2, <1>3, <1>4, <1>5 DEF DevInv

LEMMA Room ==
    ASSUME DevInv
    PROVE  /\ IsFiniteSet(Late) /\ Cardinality(Late) \in Nat /\ ToCome \in Nat
           /\ generation \in 1..(2 + 2 * MaxSaves) /\ MaxSaves \in Nat
           /\ source \in 1 .. 1 + MaxSaves
           /\ ~closed => generation + 1 \in Dev!Generations
<1>1. IsFiniteSet(Late) /\ Cardinality(Late) \in Nat
  BY DevSets, FS_Subset, FS_CardinalityType DEF Late
<1>2. LoadTypes /\ EnoughGenerations
  BY DevTypes DEF DevInv
<1>3. /\ generation \in 1..(2 + 2 * MaxSaves) /\ MaxSaves \in Nat
      /\ source \in 1 .. 1 + MaxSaves
  BY <1>2, DevSets DEF LoadTypes
<1>4. ToCome \in Nat /\ (~closed => ToCome >= 1)
  BY <1>1, <1>3 DEF ToCome
<1>5. ~closed => generation + 1 \in Dev!Generations
  BY <1>2, <1>3, <1>4, DevSets DEF EnoughGenerations
<1> QED
  BY <1>1, <1>3, <1>4, <1>5

LEMMA SaveKeeps == ASSUME DevInv, Dev!Save PROVE DevInv' /\ HooksUp
<1>1. LoadTypes /\ QueueTypes /\ LifeTypes /\ QueueIsRight /\ EnoughGenerations
  BY DevTypes DEF DevInv
<1>2. /\ ~closed /\ source <= MaxSaves
      /\ source' = source + 1 /\ updates' = updates + 1 /\ dirty' = TRUE
      /\ UNCHANGED <<graph, mod, currentLoad, repair, generation, closed, devPhase, queue, step,
                     active, devLife, platform, userHandlers, handlerFailed, at, owner, seen, frame>>
  BY DEF Dev!Save, Dev!loads, Dev!lifecycle, Dev!served, Dev!clients
<1>3. LoadTypes'
  <2>1. updates < source /\ updates \in Nat /\ source \in Nat /\ MaxSaves \in Nat
    BY <1>1, DevSets DEF LoadTypes, EnoughGenerations
  <2>2. /\ source' \in 1 .. 1 + MaxSaves /\ updates' \in 0..MaxSaves /\ 0..source \subseteq 0..source'
    BY <1>1, <1>2, <2>1
  <2>3. graph' \in 0..source' /\ mod' \in [Dev!Generations -> 0..source']
    BY <1>1, <1>2, <2>2 DEF LoadTypes
  <2> QED
    BY <1>1, <1>2, <2>2, <2>3 DEF LoadTypes
<1>4. QueueTypes' /\ QueueIsRight' /\ Late' = Late
  BY <1>1, <1>2 DEF QueueTypes, QueueIsRight, Late
<1>5. EnoughGenerations'
  <2>1. ToCome' <= ToCome /\ ToCome \in Int /\ ToCome' \in Int
    BY <1>1, <1>2, <1>4, Room DEF ToCome
  <2> QED
    BY <1>1, <1>2, <2>1, Room DEF EnoughGenerations, LoadTypes
<1> QED
  BY <1>1, <1>2, <1>3, <1>4, <1>5, LoadStep, Room DEF LifeTypes

\* A new generation waits: one more import may now be superseded.
LEMMA ReloadKeeps ==
    ASSUME DevInv, ~closed, Dev!Reload, UNCHANGED <<queue, closed>>
    PROVE  /\ generation' = generation + 1 /\ generation' \in Dev!Generations
           /\ QueueTypes' /\ QueueIsRight' /\ devPhase'[generation'] = "waiting"
           /\ Cardinality(Late') \in Nat /\ Cardinality(Late') <= Cardinality(Late) + 1
           /\ devPhase[generation] # "loading" => Cardinality(Late') = Cardinality(Late)
<1>1. LoadTypes /\ QueueTypes /\ QueueIsRight
  BY DevTypes DEF DevInv
<1>2. /\ generation' = generation + 1 /\ generation' \in Dev!Generations /\ generation \in Int
      /\ devPhase' = [devPhase EXCEPT ![generation'] = "waiting"]
      /\ generation' # generation
  BY Room, DevSets DEF Dev!Reload
<1>3. /\ devPhase'[generation'] = "waiting" /\ devPhase[generation'] = "none"
      /\ \A h \in Dev!Generations \ {generation'} : devPhase'[h] = devPhase[h]
      /\ devPhase' \in [Dev!Generations -> Dev!Phases]
  BY <1>1, <1>2 DEF QueueTypes, QueueIsRight, Dev!Phases
<1>4. QueueTypes'
  BY <1>1, <1>3 DEF QueueTypes
<1>5. QueueIsRight'
  <2>1. \A i \in DOMAIN queue : queue[i][2] \in Dev!Generations
    BY <1>1, LenProperties DEF QueueTypes, Operations
  <2>2. \A i \in DOMAIN queue : queue[i][2] # generation' /\ queue[i][2] <= generation'
    BY <1>1, <1>2, <2>1, DevSets DEF QueueIsRight
  <2>3. \A h \in Dev!Generations : h > generation' => devPhase'[h] = "none"
    BY <1>1, <1>2, <1>3, DevSets DEF QueueIsRight
  <2> QED
    BY <1>1, <1>3, <2>1, <2>2, <2>3 DEF QueueIsRight
<1>6. Late' = Late \cup (IF devPhase[generation] = "loading" THEN {generation} ELSE {})
  BY <1>1, <1>2, <1>3 DEF Late, LoadTypes
<1>7. generation \notin Late
  BY DEF Late
<1>8. /\ Cardinality(Late') \in Nat /\ Cardinality(Late') <= Cardinality(Late) + 1
      /\ devPhase[generation] # "loading" => Cardinality(Late') = Cardinality(Late)
  <2>1. CASE devPhase[generation] = "loading"
    <3>1. Late' = Late \cup {generation}
      BY <1>6, <2>1
    <3>2. IsFiniteSet(Late)
      BY Room
    <3>3. Cardinality(Late \cup {generation}) = Cardinality(Late) + 1
      BY <1>7, <3>2, FS_AddElement
    <3> QED
      BY <2>1, <3>1, <3>3, Room
  <2>2. CASE devPhase[generation] # "loading"
    <3>1. Late' = Late
      BY <1>6, <2>2
    <3> QED
      BY <3>1, Room
  <2> QED
    BY <2>1, <2>2
<1> QED
  BY <1>2, <1>3, <1>4, <1>5, <1>8

LEMMA UpdateDoneKeeps == ASSUME DevInv, Dev!UpdateDone PROVE DevInv' /\ HooksUp
<1>1. LoadTypes /\ QueueTypes /\ LifeTypes /\ QueueIsRight /\ EnoughGenerations
  BY DevTypes DEF DevInv
<1>2. /\ ~closed /\ updates > 0 /\ updates' = updates - 1 /\ graph' = 0
      /\ UNCHANGED <<source, mod, currentLoad, repair, closed, queue, step,
                     active, devLife, platform, userHandlers, handlerFailed, at, owner, seen, frame>>
  BY DevSets DEF Dev!UpdateDone, Dev!lifecycle, Dev!served, Dev!clients
<1>3. /\ updates' \in 0..MaxSaves /\ updates' < source' /\ graph' \in 0..source'
  BY <1>1, <1>2, DevSets DEF LoadTypes, EnoughGenerations
<1>4. CASE updates = 1 /\ dirty
  <2>1. dirty' = FALSE /\ Dev!Reload
    BY <1>4 DEF Dev!UpdateDone
  <2>2. /\ generation' = generation + 1 /\ generation' \in Dev!Generations
        /\ QueueTypes' /\ QueueIsRight' /\ devPhase'[generation'] = "waiting"
        /\ Cardinality(Late') \in Nat /\ Cardinality(Late') <= Cardinality(Late) + 1
    BY <1>2, <2>1, ReloadKeeps
  <2>3. LoadTypes'
    BY <1>1, <1>2, <1>3, <2>1, <2>2 DEF LoadTypes
  <2>4. ToCome' <= ToCome - 1
    BY <1>2, <1>4, <2>1, <2>2, Room DEF ToCome
  <2>5. EnoughGenerations'
    <3>1. ToCome' \in Int
      BY <1>2, <2>1, <2>2, Room DEF ToCome
    <3> QED
      BY <1>1, <1>3, <2>2, <2>4, <3>1, Room DEF EnoughGenerations
  <2> QED
    BY <1>1, <1>2, <2>2, <2>3, <2>5, LoadStep, Room DEF LifeTypes
<1>5. CASE ~(updates = 1 /\ dirty)
  <2>1. UNCHANGED <<dirty, generation, devPhase>>
    BY <1>5 DEF Dev!UpdateDone
  <2>2. LoadTypes' /\ QueueTypes' /\ QueueIsRight' /\ Late' = Late
    BY <1>1, <1>2, <1>3, <2>1 DEF LoadTypes, QueueTypes, QueueIsRight, Late
  <2>3. EnoughGenerations'
    BY <1>1, <1>2, <1>3, <2>1, <2>2 DEF EnoughGenerations, ToCome
  <2> QED
    BY <1>1, <1>2, <2>1, <2>2, <2>3, LoadStep, Room DEF LifeTypes
<1> QED
  BY <1>4, <1>5

LEMMA BeginLoadKeeps ==
    ASSUME DevInv, NEW g \in Dev!Generations, Dev!BeginLoad(g)
    PROVE  DevInv' /\ HooksUp
<1>1. LoadTypes /\ QueueTypes /\ LifeTypes /\ QueueIsRight /\ EnoughGenerations
  BY DevTypes DEF DevInv
<1>2. /\ devPhase[g] = "waiting" /\ ~closed /\ g = generation
      /\ devPhase' = [devPhase EXCEPT ![g] = "loading"] /\ currentLoad' = g
      /\ mod' = [mod EXCEPT ![g] = IF graph = 0 THEN source ELSE graph]
      /\ UNCHANGED <<source, updates, dirty, graph, repair, generation, closed, queue, step,
                     active, devLife, platform, userHandlers, handlerFailed, at, owner, seen, frame>>
  BY DevSets DEF Dev!BeginLoad, Dev!IsCurrent, Dev!vite, Dev!lifecycle, Dev!served, Dev!clients
<1>3. LoadTypes'
  <2>1. (IF graph = 0 THEN source ELSE graph) \in 0..source
    BY <1>1, DevSets DEF LoadTypes
  <2> QED
    BY <1>1, <1>2, <2>1 DEF LoadTypes
<1>4. /\ \A h \in Dev!Generations \ {g} : devPhase'[h] = devPhase[h]
      /\ devPhase' \in [Dev!Generations -> Dev!Phases] /\ devPhase'[g] = "loading"
  BY <1>1, <1>2 DEF QueueTypes, Dev!Phases
<1>5. QueueTypes' /\ QueueIsRight'
  <2>1. \A i \in DOMAIN queue : queue[i][2] \in Dev!Generations \ {g}
    BY <1>1, <1>2, LenProperties DEF QueueTypes, Operations, QueueIsRight
  <2>2. \A h \in Dev!Generations : h > generation => h # g
    BY <1>2, Room
  <2> QED
    BY <1>1, <1>2, <1>4, <2>1, <2>2 DEF QueueTypes, QueueIsRight
<1>6. Late' = Late
  BY <1>2, <1>4 DEF Late
<1>7. EnoughGenerations'
  BY <1>1, <1>2, <1>6 DEF EnoughGenerations, ToCome
<1> QED
  BY <1>1, <1>2, <1>3, <1>4, <1>5, <1>7, LoadStep, Room DEF LifeTypes

LEMMA LoadSettlesKeeps ==
    ASSUME DevInv, NEW g \in Dev!Generations, Dev!LoadSettles(g)
    PROVE  DevInv' /\ HooksUp
<1>1. LoadTypes /\ QueueTypes /\ LifeTypes /\ QueueIsRight /\ EnoughGenerations
  BY DevTypes DEF DevInv
<1>2. PICK ok \in BOOLEAN :
         /\ graph' = IF ok THEN mod[g] ELSE graph
         /\ devPhase' = [devPhase EXCEPT ![g] = IF Dev!IsCurrent(g) THEN "enqueued" ELSE "done"]
         /\ queue' = IF Dev!IsCurrent(g)
                       THEN Append(queue, <<IF ok THEN "install" ELSE "fail", g>>)
                       ELSE queue
  BY DEF Dev!LoadSettles
<1>3. /\ devPhase[g] = "loading" /\ Dev!SettleLoad(g)
      /\ UNCHANGED <<source, updates, dirty, mod, generation, closed, step,
                     active, devLife, platform, userHandlers, handlerFailed, at, owner, seen, frame>>
  BY DEF Dev!LoadSettles, Dev!vite, Dev!served, Dev!clients
<1>4. /\ currentLoad' = IF currentLoad = g THEN 0 ELSE currentLoad
      /\ repair' \subseteq {"wanted", "queued"}
      /\ Dev!IsCurrent(g) /\ repair = {} => repair' = {}
      /\ closed => repair' = repair
  BY <1>1, <1>3, DevSets DEF Dev!SettleLoad, LoadTypes
<1>5. LoadTypes'
  BY <1>1, <1>2, <1>3, <1>4 DEF LoadTypes
<1>6. /\ \A h \in Dev!Generations \ {g} : devPhase'[h] = devPhase[h]
      /\ devPhase'[g] = IF Dev!IsCurrent(g) THEN "enqueued" ELSE "done"
      /\ devPhase' \in [Dev!Generations -> Dev!Phases]
      /\ g <= generation
  BY <1>1, <1>2, <1>3, DevSets DEF QueueTypes, Dev!Phases, QueueIsRight, LoadTypes
<1>7. \A i \in DOMAIN queue : queue[i] \in Operations /\ queue[i][2] \in Dev!Generations \ {g}
  BY <1>1, <1>3, LenProperties DEF QueueTypes, Operations, QueueIsRight
<1>8. \A h \in Dev!Generations : h > generation => h # g /\ devPhase'[h] = "none"
  BY <1>1, <1>6, Room, DevSets DEF QueueIsRight
<1>9. /\ QueueTypes' /\ QueueIsRight'
      /\ queue # <<>> => queue' # <<>> /\ Head(queue') = Head(queue)
  <2>1. CASE ~Dev!IsCurrent(g)
    BY <1>1, <1>2, <1>3, <1>6, <1>7, <1>8, <2>1 DEF QueueTypes, QueueIsRight
  <2>2. CASE Dev!IsCurrent(g)
    <3> DEFINE e == <<IF ok THEN "install" ELSE "fail", g>>
               n == Len(queue)
    <3>1. e \in Operations /\ e[1] \in {"install", "fail"} /\ e[2] = g
      BY DEF Operations
    <3> HIDE DEF e
    <3>2. /\ queue' \in Seq(Operations) /\ n \in Nat /\ DOMAIN queue = 1..n /\ DOMAIN queue' = 1..(n + 1)
          /\ \A i \in 1..n : queue'[i] = queue[i]
          /\ queue'[n + 1] = e
          /\ queue # <<>> => queue' # <<>> /\ Head(queue') = Head(queue)
      <4>1. queue' = Append(queue, e) /\ queue \in Seq(Operations)
        BY <1>1, <1>2, <2>2 DEF e, QueueTypes
      <4> QED
        BY <3>1, <4>1, Enqueued, LenProperties
    <3> HIDE DEF n
    <3>3. \A i \in DOMAIN queue' : i \in 1..n \/ i = n + 1
      BY <3>2
    <3>4. \A i, j \in DOMAIN queue' : queue'[i][2] = queue'[j][2] => i = j
      BY <1>1, <1>7, <3>1, <3>2, <3>3 DEF QueueIsRight
    <3>5. \A i \in 1..n :
            /\ queue'[i][2] <= generation
            /\ devPhase'[queue'[i][2]] = IF queue'[i][1] = "stop" THEN "none" ELSE "enqueued"
            /\ queue'[i][1] = "stop" => closed
      BY <1>1, <1>6, <1>7, <3>2 DEF QueueIsRight
    <3>6. /\ queue'[n + 1][2] <= generation
          /\ devPhase'[queue'[n + 1][2]] = IF queue'[n + 1][1] = "stop" THEN "none" ELSE "enqueued"
          /\ queue'[n + 1][1] # "stop"
      BY <1>6, <2>2, <3>1, <3>2
    <3> QED
      BY <1>3, <1>6, <1>8, <3>2, <3>3, <3>4, <3>5, <3>6 DEF QueueTypes, QueueIsRight
  <2> QED
    BY <2>1, <2>2
<1>10. EnoughGenerations'
  <2>1. ~closed /\ devPhase'[generation] = "loading" => currentLoad' = generation
    BY <1>1, <1>4, <1>6 DEF EnoughGenerations, LoadTypes
  <2>2. CASE closed
    BY <1>1, <1>3, <2>2 DEF EnoughGenerations, ToCome
  <2>3. CASE ~closed /\ g = generation
    <3>1. Late' = Late
      BY <1>3, <1>6, <2>3 DEF Late
    <3>2. ToCome' <= ToCome /\ ToCome' \in Int
      BY <1>3, <1>4, <2>3, <3>1, Room DEF ToCome, Dev!IsCurrent
    <3> QED
      BY <1>1, <1>3, <2>1, <3>2, Room DEF EnoughGenerations
  <2>4. CASE ~closed /\ g # generation
    <3>1. Late' = Late \ {g} /\ g \in Late
      BY <1>3, <1>6, <2>4 DEF Late, Dev!IsCurrent
    <3>2. Cardinality(Late') = Cardinality(Late) - 1
      BY <3>1, Room, FS_RemoveElement
    <3>3. ToCome' <= ToCome /\ ToCome' \in Int
      BY <1>3, <2>4, <3>2, Room DEF ToCome
    <3> QED
      BY <1>1, <1>3, <2>1, <3>3, Room DEF EnoughGenerations
  <2> QED
    BY <2>2, <2>3, <2>4
<1>11. ~closed' /\ devPhase'[generation'] = "done" =>
          generation' = generation /\ devPhase[generation] = "done"
  BY <1>1, <1>3, <1>6 DEF Dev!IsCurrent, LoadTypes
<1> QED
  BY <1>1, <1>3, <1>5, <1>9, <1>10, <1>11, LoadStep, Room DEF LifeTypes

LEMMA RepairKeeps == ASSUME DevInv, Dev!Repair PROVE DevInv' /\ HooksUp
<1>1. LoadTypes /\ QueueTypes /\ LifeTypes /\ QueueIsRight /\ EnoughGenerations
  BY DevTypes DEF DevInv
<1>2. /\ repair # {}
      /\ UNCHANGED <<source, updates, dirty, mod, currentLoad, closed, queue, step,
                     active, devLife, platform, userHandlers, handlerFailed, at, owner, seen, frame>>
  BY DEF Dev!Repair, Dev!vite, Dev!lifecycle, Dev!served, Dev!clients
<1>3. CASE closed \/ currentLoad # 0
  <2>1. repair' = repair \ {"queued"} /\ UNCHANGED <<graph, generation, devPhase>>
    BY <1>3, DevSets DEF Dev!Repair
  <2>2. LoadTypes' /\ QueueTypes' /\ QueueIsRight' /\ Late' = Late
    BY <1>1, <1>2, <2>1 DEF LoadTypes, QueueTypes, QueueIsRight, Late
  <2>3. ToCome' <= ToCome /\ ToCome' \in Int
    BY <1>2, <2>1, <2>2, Room DEF ToCome
  <2>4. EnoughGenerations'
    BY <1>1, <1>2, <2>1, <2>3, Room DEF EnoughGenerations
  <2> QED
    BY <1>1, <1>2, <2>1, <2>2, <2>4, LoadStep, Room DEF LifeTypes
<1>4. CASE ~(closed \/ currentLoad # 0)
  <2>1. ~closed /\ currentLoad = 0 /\ repair' = {} /\ graph' = 0 /\ Dev!Reload
    BY <1>4, DevSets DEF Dev!Repair
  <2>2. devPhase[generation] # "loading"
    BY <1>1, <2>1, Room DEF EnoughGenerations
  <2>3. /\ generation' = generation + 1 /\ generation' \in Dev!Generations
        /\ QueueTypes' /\ QueueIsRight' /\ devPhase'[generation'] = "waiting"
        /\ Cardinality(Late') = Cardinality(Late)
    BY <1>2, <2>1, <2>2, ReloadKeeps
  <2>4. LoadTypes'
    BY <1>1, <1>2, <2>1, <2>3, DevSets DEF LoadTypes
  <2>5. ToCome' = ToCome - 1
    BY <1>2, <2>1, <2>3, Room DEF ToCome
  <2>6. EnoughGenerations'
    BY <1>1, <1>2, <2>3, <2>5, Room DEF EnoughGenerations
  <2> QED
    BY <1>1, <1>2, <2>3, <2>4, <2>6, LoadStep, Room DEF LifeTypes
<1> QED
  BY <1>3, <1>4

LEMMA CloseServerKeeps == ASSUME DevInv, Dev!CloseServer PROVE DevInv' /\ HooksUp
<1>1. LoadTypes /\ QueueTypes /\ LifeTypes /\ QueueIsRight /\ EnoughGenerations
  BY DevTypes DEF DevInv
<1> DEFINE e == <<"stop", generation + 1>>
           n == Len(queue)
<1>2. /\ ~closed /\ closed' = TRUE /\ generation' = generation + 1 /\ handlerFailed' = TRUE
      /\ queue' = Append(queue, e)
      /\ UNCHANGED <<source, updates, dirty, graph, mod, currentLoad, repair, devPhase, step,
                     active, devLife, platform, userHandlers, at, owner, seen, frame>>
  BY DEF Dev!CloseServer, Dev!vite, Dev!loads, Dev!clients
<1>3. generation' \in Dev!Generations /\ generation \in Int /\ generation' > generation
  BY <1>2, Room
<1>4. LoadTypes'
  BY <1>1, <1>2, <1>3 DEF LoadTypes
<1>5. e \in Operations /\ e[1] = "stop" /\ e[2] = generation' /\ devPhase[generation'] = "none"
  BY <1>1, <1>2, <1>3 DEF Operations, QueueIsRight
<1> HIDE DEF e
<1>6. /\ queue' \in Seq(Operations) /\ n \in Nat /\ DOMAIN queue = 1..n /\ DOMAIN queue' = 1..(n + 1)
      /\ \A i \in 1..n : queue'[i] = queue[i]
      /\ queue'[n + 1] = e
      /\ queue # <<>> => queue' # <<>> /\ Head(queue') = Head(queue)
  BY <1>1, <1>2, <1>5, Enqueued, LenProperties DEF QueueTypes
<1> HIDE DEF n
<1>7. \A i \in DOMAIN queue : queue[i][2] \in Dev!Generations /\ queue[i][2] < generation'
  <2>1. \A i \in DOMAIN queue : queue[i][2] \in Dev!Generations
    BY <1>1, LenProperties DEF QueueTypes, Operations
  <2> QED
    BY <1>1, <1>3, <2>1, DevSets DEF QueueIsRight
<1>8. \A i \in DOMAIN queue' : i \in 1..n \/ i = n + 1
  BY <1>6
<1>9. QueueTypes' /\ QueueIsRight'
  <2>1. \A i, j \in DOMAIN queue' : queue'[i][2] = queue'[j][2] => i = j
    BY <1>1, <1>3, <1>5, <1>6, <1>7, <1>8, DevSets DEF QueueIsRight
  <2>2. \A i \in 1..n :
          /\ queue'[i][2] <= generation'
          /\ devPhase'[queue'[i][2]] = IF queue'[i][1] = "stop" THEN "none" ELSE "enqueued"
    BY <1>1, <1>2, <1>3, <1>6, <1>7, DevSets, SMTT(30) DEF QueueIsRight
  <2>3. queue'[n + 1][2] <= generation' /\ queue'[n + 1][1] = "stop"
        /\ devPhase'[queue'[n + 1][2]] = "none"
    BY <1>2, <1>3, <1>5, <1>6, DevSets
  <2>4. \A h \in Dev!Generations : h > generation' => devPhase'[h] = "none"
    BY <1>1, <1>2, <1>3, DevSets DEF QueueIsRight
  <2> QED
    BY <1>1, <1>2, <1>6, <1>8, <2>1, <2>2, <2>3, <2>4 DEF QueueTypes, QueueIsRight
<1>10. EnoughGenerations'
  <2>1. generation' <= 2 + 2 * MaxSaves
    BY <1>3, DevSets
  <2> QED
    BY <1>1, <1>2, <1>3, <2>1, DevSets DEF EnoughGenerations, ToCome
<1> QED
  BY <1>1, <1>2, <1>3, <1>4, <1>6, <1>9, <1>10, LoadStep, Room DEF LifeTypes

-----------------------------------------------------------------------------
LEMMA LifecycleKeeps ==
    ASSUME DevInv, NEW g \in Dev!Generations, Dev!Lifecycle(g) \/ Dev!LateInitEnds(g)
    PROVE  DevInv' /\ HooksUp
<1>1. DevInv'
  BY StartInstallKeeps, ReplaceKeeps, InitReturnsKeeps, InitFailsKeeps, HooksEndKeeps,
     DiscardedKeeps, StartRetireKeeps, RetiredKeeps DEF Dev!Lifecycle
<1>2. frame' = frame /\ (at' = at \/ Dev!Retire)
  BY DEF Dev!Lifecycle, Dev!LateInitEnds, Dev!StartInstall, Dev!Replace, Dev!InitReturns, Dev!InitThrows,
         Dev!InitTimesOut, Dev!ShutdownEnds, Dev!Discarded, Dev!StartRetire, Dev!Retired, Dev!Retire,
         Dev!clients
<1>3. \A c \in Clients : at'[c][2] = "hook" => at[c][2] = "hook"
  BY <1>2 DEF Dev!Retire
<1> QED
  BY <1>1, <1>2, <1>3 DEF HooksUp

LEMMA DevStepKeeps == DevInv /\ Dev!Next => DevInv' /\ HooksUp
<1> SUFFICES ASSUME DevInv, Dev!Next PROVE DevInv' /\ HooksUp
  OBVIOUS
<1>1. CASE Dev!Save \/ Dev!UpdateDone \/ Dev!Repair \/ Dev!CloseServer
  BY <1>1, SaveKeeps, UpdateDoneKeeps, RepairKeeps, CloseServerKeeps
<1>2. CASE \E g \in Dev!Generations :
              Dev!BeginLoad(g) \/ Dev!LoadSettles(g) \/ Dev!Lifecycle(g) \/ Dev!LateInitEnds(g)
  BY <1>2, BeginLoadKeeps, LoadSettlesKeeps, LifecycleKeeps
<1>3. CASE \E c \in Clients : Dev!Request(c)
  <2>1. PICK c \in Clients : Dev!Request(c)
    BY <1>3
  <2>2. \/ \E kind \in {"upgrade", "auth"} : Dev!Arrive(c, kind)
        \/ Dev!FrameIn(c) \/ Dev!GateAnswers(c) \/ Dev!HandlersReady(c) \/ Dev!FrameReady(c)
        \/ Dev!BodyRead(c) \/ Dev!Refused(c) \/ Dev!Accepted(c) \/ Dev!SocketCloses(c)
    BY <2>1 DEF Dev!Request
  <2> QED
    BY <2>2, ArriveKeeps, HandlersReadyKeeps, FrameReadyKeeps, AcceptedKeeps
<1> QED
  BY <1>1, <1>2, <1>3 DEF Dev!Next

LEMMA DevIdle == DevInv /\ UNCHANGED devVars => DevInv'
<1> SUFFICES ASSUME DevInv, UNCHANGED devVars PROVE DevInv'
  OBVIOUS
<1> USE DEF devVars
<1>1. Dev!TypeOK'
  BY DEF DevInv, Dev!TypeOK
<1>2. OneRuns' /\ QueueIsRight' /\ Served'
  BY DEF DevInv, OneRuns, QueueIsRight, Served, Dev!IsCurrent
<1>3. ClientsAreServed'
  BY DEF DevInv, ClientsAreServed
<1>4. EnoughGenerations'
  BY DEF DevInv, EnoughGenerations, ToCome, Late
<1> QED
  BY <1>1, <1>2, <1>3, <1>4 DEF DevInv

LEMMA DevInvariance == PartsSpec => []DevInv
<1>1. PartsInit => DevInv
  BY DevInitHolds DEF PartsInit
<1>2. DevInv /\ [PartsNext]_<<part, vars, devVars, presenceVars>> => DevInv'
  BY DevStepKeeps, DevIdle DEF PartsNext
<1> QED
  BY <1>1, <1>2, PTL DEF PartsSpec

\* At most one instance of the handlers is between the call of its init and the
\* end of its shutdown; the platform, the requests and the queue agree on which,
\* and it accepted every open socket.
THEOREM OneInstanceAtATime == PartsSpec => []OneInstance
<1>1. ASSUME DevInv PROVE OneInstance
  <2> DEFINE alive == {g \in Dev!Generations : devLife[g] \in Dev!Alive}
  <2>1. Dev!TypeOK /\ OneRuns /\ ClientsAreServed /\ LifeTypes
    BY <1>1, DevTypes DEF DevInv
  <2>2. \A g, h \in alive : g = h
    BY <2>1 DEF OneRuns, LifeTypes, Dev!Alive
  <2>3. Cardinality(alive) <= 1
    <3>1. CASE alive = {}
      BY <3>1, FS_EmptySet
    <3>2. ASSUME NEW g \in alive PROVE Cardinality(alive) <= 1
      <4>1. alive = {g}
        BY <2>2
      <4> HIDE DEF alive
      <4> QED
        BY <4>1, FS_Singleton
    <3> QED
      BY <3>1, <3>2
  <2>4. platform # 0 => devLife[platform] \in Dev!Alive
    BY <2>1 DEF OneRuns
  <2>5. userHandlers # 0 => userHandlers = active /\ platform = active /\ devLife[active] = "up"
    BY <1>1, UpWhenServed
  <2>6. \A c \in Clients : at[c][2] = "open" => owner[c] = userHandlers
    BY <2>1 DEF ClientsAreServed
  <2> QED
    BY <2>1, <2>3, <2>4, <2>5, <2>6, DevSets DEF OneInstance, Dev!OneInstance
<1> QED
  BY <1>1, DevInvariance, PTL

\* Hooks are only called while their instance is up.
THEOREM HooksOnlyWhileUp == PartsSpec => HooksWhileUp
<1>1. DevInv /\ [PartsNext]_<<part, vars, devVars, presenceVars>> => [HooksUp]_devVars
  BY DevStepKeeps DEF PartsNext
<1>2. PartsSpec => [][HooksUp]_devVars
  BY <1>1, DevInvariance, PTL DEF PartsSpec
<1>3. [HooksUp]_devVars <=>
        [\A c \in Clients :
           (\/ at[c][2] # "hook" /\ at'[c][2] = "hook"
            \/ frame[c] = "waiting" /\ frame'[c] = "gate") => devLife[owner'[c]] = "up"]_(Dev!devVars)
  BY DEF HooksUp, devVars, Dev!devVars, Dev!vite, Dev!loads, Dev!lifecycle, Dev!served, Dev!clients
<1> QED
  BY <1>2, <1>3, PTL DEF HooksWhileUp, Dev!HooksWhileUp

-----------------------------------------------------------------------------
(***************************************************************************)
(* Presence. The invariant says what the difference that waits for a user  *)
(* means, so that sending it makes a client agree, and that a client which *)
(* missed nothing never shows somebody too old who is still there, so that *)
(* its sweep only takes what is gone.                                      *)
(***************************************************************************)

\* The connections with which a user is present.
Present(t, k) == {c \in Conns : KeyOf[c] = k /\ t \in wsTopics[c]}

Counting ==
    /\ \A t \in Topics, k \in Keys : users[t][k] # NoEntry => users[t][k].count >= 1
    /\ ~torn => \A t \in Topics, k \in Keys :
          IF users[t][k] = NoEntry THEN Present(t, k) = {}
          ELSE Cardinality(Present(t, k)) = users[t][k].count

\* What waits to be told of a user is so: who joins is there with that data, who
\* leaves is not; and something waits only while the timer is armed.
Waiting ==
    /\ ~torn => \A t \in Topics, k \in Keys :
          /\ pending[t][k] # NoEntry /\ pending[t][k].op = "join" =>
                users[t][k] # NoEntry /\ users[t][k].data = pending[t][k].data
          /\ pending[t][k] # NoEntry /\ pending[t][k].op = "leave" => users[t][k] = NoEntry
    /\ (\E t \in Topics : pending[t] # P!Blank) => flushTimer

\* A client that missed nothing shows every user about whom nothing waits as it
\* is, and never too old for the next sweep.
Showing ==
    ~torn => \A t \in Topics : \A c \in watching[t] \ lossy[t] : \A k \in Keys :
        pending[t][k] = NoEntry =>
            /\ view[c][t][k] = P!Shown(users[t])[k]
            /\ users[t][k] # NoEntry => age[c][t][k] <= MaxAge

PresenceInv == P!TypeOK /\ Counting /\ Waiting /\ Showing

LEMMA PresenceCardinality == \A T : P!Cardinality(T) = Cardinality(T)
BY DEF P!Cardinality, Cardinality

\* As MapOrderProofs shows of Within.
LEMMA TrackerShape ==
    ASSUME NEW S, NEW s \in Seq(S), NEW K
    PROVE  P!Within(s, K) \in Seq(S) /\ Len(P!Within(s, K)) <= Len(s)
<1>1. P!Within(s, K) = Within(s, K)
  BY PresenceCardinality
     DEF P!Within, P!Nth, P!PlacesOf, P!Cardinality, Within, Nth, PlacesOf, Cardinality
<1> QED
  BY <1>1, WithinShape

-----------------------------------------------------------------------------
(* The steps of the tracker. *)

LEMMA PresenceSets ==
    /\ P!Entry = [data: Data, count: Nat] /\ NoEntry \notin P!Entry
    /\ P!Operation = [op: {"join", "leave"}, data: Data] /\ NoEntry \notin P!Operation
    /\ NoEntry \notin Data
    /\ P!Blank = [k \in Keys |-> NoEntry]
    /\ \A us : P!Shown(us) = [k \in Keys |-> IF us[k] = NoEntry THEN NoEntry ELSE us[k].data]
BY PresenceConstantsOK DEF P!Entry, P!Operation, P!Blank, P!Shown

LEMMA ShownTypes ==
    ASSUME NEW us \in [Keys -> P!Entry \cup {NoEntry}]
    PROVE  P!Shown(us) \in [Keys -> Data \cup {NoEntry}]
BY PresenceSets

LEMMA PresenceInitHolds == P!Init => PresenceInv
<1> SUFFICES ASSUME P!Init PROVE PresenceInv
  OBVIOUS
<1>1. P!TypeOK
  <2>1. P!Blank \in [Keys -> {NoEntry}]
    BY PresenceSets
  <2>2. connOrder \in Seq(Conns) /\ Len(connOrder) <= MaxConns
    BY EmptySeq, PresenceConstantsOK DEF P!Init
  <2>3. topicOrder \in Seq(Topics) /\ Len(topicOrder) <= MaxTopics
    BY EmptySeq, PresenceConstantsOK DEF P!Init
  <2>4. age \in [Conns -> [Topics -> [Keys -> 0..(MaxAge + 1)]]] /\ drops \in 0..MaxDrops /\ ops \in 0..MaxOps
    BY PresenceConstantsOK DEF P!Init
  <2>5. view \in [Conns -> [Topics -> [Keys -> Data \cup {NoEntry}]]]
    BY <2>1 DEF P!Init
  <2> QED
    BY <2>1, <2>2, <2>3, <2>4, <2>5 DEF P!Init, P!TypeOK
<1>2. Counting
  BY PresenceSets DEF P!Init, Counting, Present
<1>3. Waiting
  BY PresenceSets DEF P!Init, Waiting
<1>4. Showing
  BY DEF P!Init, Showing
<1> QED
  BY <1>1, <1>2, <1>3, <1>4 DEF PresenceInv

\* Sending a snapshot.
LEMMA SnapshotTypes ==
    ASSUME P!TypeOK, NEW c \in Conns, NEW t \in Topics,
           NEW us \in [Keys -> P!Entry \cup {NoEntry}], P!SendState(c, t, us)
    PROVE  /\ view' \in [Conns -> [Topics -> [Keys -> Data \cup {NoEntry}]]]
           /\ age' \in [Conns -> [Topics -> [Keys -> 0..(MaxAge + 1)]]]
           /\ lossy' \in [Topics -> SUBSET Conns]
           /\ view'[c][t] = P!Shown(us) /\ \A k \in Keys : age'[c][t][k] = 0
           /\ \A d \in Conns, s \in Topics : d # c \/ s # t =>
                 view'[d][s] = view[d][s] /\ age'[d][s] = age[d][s]
           /\ lossy'[t] = lossy[t] \ {c} /\ \A s \in Topics \ {t} : lossy'[s] = lossy[s]
<1>1. P!Shown(us) \in [Keys -> Data \cup {NoEntry}]
  BY ShownTypes
<1> HIDE DEF P!Shown
<1>2. /\ view' \in [Conns -> [Topics -> [Keys -> Data \cup {NoEntry}]]]
      /\ view'[c][t] = P!Shown(us)
      /\ \A d \in Conns, s \in Topics : d # c \/ s # t => view'[d][s] = view[d][s]
  BY <1>1 DEF P!SendState, P!TypeOK
<1>3. [k \in Keys |-> 0] \in [Keys -> 0..(MaxAge + 1)]
  BY PresenceConstantsOK
<1>4. /\ age' \in [Conns -> [Topics -> [Keys -> 0..(MaxAge + 1)]]]
      /\ \A k \in Keys : age'[c][t][k] = 0
      /\ \A d \in Conns, s \in Topics : d # c \/ s # t => age'[d][s] = age[d][s]
  BY <1>3 DEF P!SendState, P!TypeOK
<1>5. /\ lossy' \in [Topics -> SUBSET Conns]
      /\ lossy'[t] = lossy[t] \ {c} /\ \A s \in Topics \ {t} : lossy'[s] = lossy[s]
  BY DEF P!SendState, P!TypeOK
<1> QED
  BY <1>2, <1>4, <1>5

LEMMA SyncKeeps ==
    ASSUME PresenceInv, NEW c \in Conns, NEW t \in Topics, P!Sync(c, t)
    PROVE  PresenceInv'
<1>1. P!TypeOK /\ Counting /\ Waiting /\ Showing
  BY DEF PresenceInv
<1>2. users[t] \in [Keys -> P!Entry \cup {NoEntry}] /\ P!SendState(c, t, users[t])
  BY <1>1 DEF P!TypeOK, P!Sync
<1>3. P!TypeOK'
  <2>1. watching' \in [Topics -> SUBSET Conns] /\ ops' \in 0..MaxOps
    BY <1>1, PresenceConstantsOK DEF P!TypeOK, P!Sync
  <2>2. /\ view' \in [Conns -> [Topics -> [Keys -> Data \cup {NoEntry}]]]
        /\ age' \in [Conns -> [Topics -> [Keys -> 0..(MaxAge + 1)]]]
        /\ lossy' \in [Topics -> SUBSET Conns]
    BY <1>1, <1>2, SnapshotTypes
  <2> QED
    BY <1>1, <2>1, <2>2 DEF P!TypeOK, P!Sync
<1>4. Counting' /\ Waiting'
  BY <1>1 DEF P!Sync, Counting, Present, Waiting
<1>5. Showing'
  <2> SUFFICES ASSUME ~torn', NEW s \in Topics, NEW d \in watching'[s] \ lossy'[s], NEW k \in Keys,
                      pending'[s][k] = NoEntry
               PROVE  /\ view'[d][s][k] = P!Shown(users'[s])[k]
                      /\ users'[s][k] # NoEntry => age'[d][s][k] <= MaxAge
    BY DEF Showing
  <2>1. UNCHANGED <<torn, pending, users>> /\ d \in Conns
    BY <1>3 DEF P!Sync, P!TypeOK
  <2>2. CASE d = c /\ s = t
    BY <1>1, <1>2, <2>1, <2>2, SnapshotTypes, PresenceConstantsOK
  <2>3. CASE ~(d = c /\ s = t)
    <3>1. d \in watching[s] \ lossy[s]
      <4>1. /\ s # t => lossy'[s] = lossy[s]
            /\ s = t => lossy'[s] = lossy[s] \ {c}
        BY <1>1, <1>2, SnapshotTypes
      <4>2. watching' = [watching EXCEPT ![t] = @ \cup {c}]
        BY DEF P!Sync
      <4> QED
        BY <1>1, <2>3, <4>1, <4>2 DEF P!TypeOK
    <3>2. view'[d][s] = view[d][s] /\ age'[d][s] = age[d][s]
      BY <1>1, <1>2, <2>1, <2>3, SnapshotTypes
    <3> QED
      BY <1>1, <2>1, <3>1, <3>2 DEF Showing
  <2> QED
    BY <2>2, <2>3
<1> QED
  BY <1>3, <1>4, <1>5 DEF PresenceInv

\* What join leaves in the maps of topics and connections, at the caps too.
LEMMA JoinTypes ==
    ASSUME PresenceInv, NEW c \in Conns, NEW t \in Topics, P!Join(c, t)
    PROVE  P!TypeOK' /\ \A s \in Topics, k \in Keys : users'[s][k] # NoEntry => users'[s][k].count >= 1
<1> DEFINE k == KeyOf[c]
           crowded == P!EvictsTopic(t)
           kept == IF crowded THEN [users EXCEPT ![Head(topicOrder)] = P!Blank] ELSE users
           order == IF crowded THEN Tail(topicOrder) ELSE topicOrder
           old == IF P!EvictsConn(c) THEN [wsTopics EXCEPT ![Head(connOrder)] = {}] ELSE wsTopics
           us == P!Counted(kept[t], k, data[c])
           line == IF P!EvictsConn(c) THEN Tail(connOrder) ELSE connOrder
<1>1. P!TypeOK /\ Counting
  BY DEF PresenceInv
<1>2. /\ k \in Keys /\ data[c] \in Data
      /\ MaxConns \in Nat \ {0} /\ MaxTopics \in Nat \ {0}
  BY <1>1, PresenceConstantsOK DEF P!TypeOK
<1>3. P!Blank \in [Keys -> {NoEntry}]
  BY PresenceSets
<1>4. kept \in [Topics -> [Keys -> P!Entry \cup {NoEntry}]]
  BY <1>1, <1>3 DEF P!TypeOK
<1>5. \A s \in Topics, j \in Keys : kept[s][j] # NoEntry => kept[s][j].count >= 1
  <2>1. \A s \in Topics, j \in Keys : kept[s][j] # NoEntry => kept[s][j] = users[s][j]
    BY <1>1, <1>3 DEF P!TypeOK
  <2> QED
    BY <1>1, <2>1 DEF Counting
<1>6. us \in [Keys -> P!Entry \cup {NoEntry}] /\ \A j \in Keys : us[j] # NoEntry => us[j].count >= 1
  <2> DEFINE n == IF kept[t][k] = NoEntry THEN 1 ELSE kept[t][k].count + 1
             e == [data |-> data[c], count |-> n]
  <2>1. us = [kept[t] EXCEPT ![k] = e]
    BY DEF P!Counted
  <2>2. n \in Nat /\ n >= 1
    BY <1>2, <1>4, PresenceSets
  <2>3. e \in P!Entry /\ e.count >= 1
    BY <1>2, <2>2, PresenceSets
  <2> HIDE DEF kept, e, us
  <2> QED
    BY <1>2, <1>4, <1>5, <2>1, <2>3
<1>7. /\ users' = [kept EXCEPT ![t] = us]
      /\ wsTopics' = [old EXCEPT ![c] = @ \cup {t}]
      /\ connOrder' = IF wsTopics[c] # {} THEN connOrder ELSE Append(line, c)
      /\ topicOrder' = IF P!Contains(order, t) THEN order ELSE Append(order, t)
      /\ (pending' = pending /\ flushTimer' = flushTimer) \/ P!Buffer(t, k, "join", data[c])
      /\ watching' = [watching EXCEPT ![t] = @ \cup {c}]
      /\ P!SendState(c, t, us)
      /\ ops < MaxOps /\ ops' = ops + 1 /\ beating' = TRUE /\ torn' \in BOOLEAN
      /\ UNCHANGED <<open, data, drops>>
  <2>1. torn' \in BOOLEAN
    BY <1>1 DEF P!Join, P!TypeOK
  <2> QED
    BY <2>1 DEF P!Join
<1>8. connOrder' \in Seq(Conns) /\ Len(connOrder') <= MaxConns
  <2>1. CASE wsTopics[c] # {}
    BY <1>1, <1>7, <2>1 DEF P!TypeOK
  <2>2. CASE wsTopics[c] = {} /\ Len(connOrder) >= MaxConns
    <3>1. P!EvictsConn(c) /\ connOrder # <<>>
      BY <1>1, <1>2, <2>2, EmptySeq DEF P!EvictsConn, P!TypeOK
    <3>2. line \in Seq(Conns) /\ Len(line) = Len(connOrder) - 1
      BY <1>1, <3>1, HeadTailProperties DEF P!TypeOK
    <3> HIDE DEF line
    <3> QED
      BY <1>1, <1>2, <1>7, <2>2, <3>2, AppendProperties, LenProperties DEF P!TypeOK
  <2>3. CASE wsTopics[c] = {} /\ ~(Len(connOrder) >= MaxConns)
    <3>1. line = connOrder
      BY <2>3 DEF P!EvictsConn
    <3> HIDE DEF line
    <3> QED
      BY <1>1, <1>2, <1>7, <2>3, <3>1, AppendProperties, LenProperties DEF P!TypeOK
  <2> QED
    BY <2>1, <2>2, <2>3
<1>9. topicOrder' \in Seq(Topics) /\ Len(topicOrder') <= MaxTopics
  <2>1. CASE crowded
    <3>1. topicOrder # <<>> /\ Len(topicOrder) = MaxTopics
      BY <1>1, <1>2, <2>1, EmptySeq DEF P!EvictsTopic, P!TypeOK
    <3>2. order \in Seq(Topics) /\ Len(order) = MaxTopics - 1
      BY <1>1, <2>1, <3>1, HeadTailProperties DEF P!TypeOK
    <3> HIDE DEF order
    <3> QED
      BY <1>2, <1>7, <3>2, AppendProperties, LenProperties
  <2>2. CASE ~crowded
    <3>1. order = topicOrder
      BY <2>2
    <3>2. P!Contains(order, t) \/ Len(order) < MaxTopics
      <4>1. topicOrder \in Seq(Topics) /\ DOMAIN topicOrder = 1..Len(topicOrder)
        BY <1>1, LenProperties DEF P!TypeOK
      <4>2. (\E i \in DOMAIN topicOrder : topicOrder[i] = t) \/ Len(topicOrder) < MaxTopics
        BY <1>2, <2>2, <4>1, LenProperties DEF P!EvictsTopic
      <4> HIDE DEF order
      <4> QED
        BY <3>1, <4>1, <4>2 DEF P!Contains
    <3> HIDE DEF order
    <3> QED
      BY <1>1, <1>2, <1>7, <3>1, <3>2, AppendProperties, LenProperties DEF P!TypeOK
  <2> QED
    BY <2>1, <2>2
<1>10. users' \in [Topics -> [Keys -> P!Entry \cup {NoEntry}]]
  <2> HIDE DEF kept, us
  <2> QED
    BY <1>4, <1>6, <1>7
<1>11. wsTopics' \in [Conns -> SUBSET Topics]
  <2>1. old \in [Conns -> SUBSET Topics]
    BY <1>1 DEF P!TypeOK
  <2> HIDE DEF old
  <2> QED
    BY <1>7, <2>1
<1>12. pending' \in [Topics -> [Keys -> P!Operation \cup {NoEntry}]] /\ flushTimer' \in BOOLEAN
  <2>1. [op |-> "join", data |-> data[c]] \in P!Operation
    BY <1>2, PresenceSets
  <2>2. CASE P!Buffer(t, k, "join", data[c])
    <3> HIDE DEF k
    <3> QED
      BY <1>1, <1>2, <2>1, <2>2 DEF P!Buffer, P!TypeOK
  <2>3. CASE pending' = pending /\ flushTimer' = flushTimer
    BY <1>1, <2>3 DEF P!TypeOK
  <2> HIDE DEF us, kept, order, line, old
  <2> QED
    BY <1>7, <2>2, <2>3
<1>13. watching' \in [Topics -> SUBSET Conns] /\ ops' \in 0..MaxOps
  BY <1>1, <1>7, PresenceConstantsOK DEF P!TypeOK
<1>14. /\ view' \in [Conns -> [Topics -> [Keys -> Data \cup {NoEntry}]]]
       /\ age' \in [Conns -> [Topics -> [Keys -> 0..(MaxAge + 1)]]]
       /\ lossy' \in [Topics -> SUBSET Conns]
  <2> HIDE DEF us
  <2> QED
    BY <1>1, <1>6, <1>7, SnapshotTypes
<1>15. P!TypeOK'
  <2> HIDE DEF us, kept, old, line, order
  <2> QED
    BY <1>1, <1>7, <1>8, <1>9, <1>10, <1>11, <1>12, <1>13, <1>14 DEF P!TypeOK
<1>16. ASSUME NEW s \in Topics, NEW j \in Keys, users'[s][j] # NoEntry PROVE users'[s][j].count >= 1
  <2> HIDE DEF us, kept
  <2>1. users'[s] = IF s = t THEN us ELSE kept[s]
    BY <1>4, <1>7
  <2> QED
    BY <1>5, <1>6, <1>16, <2>1
<1> QED
  BY <1>15, <1>16

\* While nothing is torn join adds one connection and tells of it.
LEMMA JoinStep ==
    ASSUME PresenceInv, NEW c \in Conns, NEW t \in Topics, P!Join(c, t), ~torn'
    PROVE  LET k == KeyOf[c]
               us == P!Counted(users[t], k, data[c])
           IN  /\ ~torn /\ t \notin wsTopics[c]
               /\ users' = [users EXCEPT ![t] = us]
               /\ wsTopics' = [wsTopics EXCEPT ![c] = @ \cup {t}]
               /\ IF users[t][k] # NoEntry /\ users[t][k].data = data[c]
                  THEN pending' = pending /\ flushTimer' = flushTimer
                  ELSE P!Buffer(t, k, "join", data[c])
               /\ watching' = [watching EXCEPT ![t] = @ \cup {c}]
               /\ P!SendState(c, t, us)
<1>1. ~torn /\ ~P!EvictsConn(c) /\ ~P!EvictsTopic(t)
  BY DEF P!Join
<1> QED
  BY <1>1 DEF P!Join

LEMMA JoinCounts ==
    ASSUME PresenceInv, NEW c \in Conns, NEW t \in Topics, P!Join(c, t)
    PROVE  Counting'
<1> SUFFICES ASSUME ~torn', NEW s \in Topics, NEW j \in Keys
             PROVE  IF users'[s][j] = NoEntry THEN Present(s, j)' = {}
                    ELSE Cardinality(Present(s, j)') = users'[s][j].count
  BY JoinTypes DEF Counting
<1> DEFINE k == KeyOf[c]
           us == P!Counted(users[t], k, data[c])
<1>1. P!TypeOK /\ Counting /\ k \in Keys
  BY PresenceConstantsOK DEF PresenceInv
<1>2. /\ ~torn /\ t \notin wsTopics[c]
      /\ users' = [users EXCEPT ![t] = us]
      /\ wsTopics' = [wsTopics EXCEPT ![c] = @ \cup {t}]
  BY JoinStep
<1>3. \A d \in Conns, r \in Topics : r \in wsTopics'[d] <=> r \in wsTopics[d] \/ (d = c /\ r = t)
  BY <1>1, <1>2 DEF P!TypeOK
<1>4. CASE s = t /\ j = k
  <2>1. Present(s, j)' = Present(s, j) \cup {c} /\ c \notin Present(s, j)
    BY <1>2, <1>3, <1>4 DEF Present
  <2>2. IsFiniteSet(Present(s, j))
    BY FS_Subset, PresenceConstantsOK DEF Present
  <2>3. Cardinality(Present(s, j)') = Cardinality(Present(s, j)) + 1
    BY <2>1, <2>2, FS_AddElement
  <2>4. users'[s][j] = us[k]
    BY <1>1, <1>2, <1>4 DEF P!TypeOK
  <2>5. us[k] = [data |-> data[c], count |-> IF users[t][k] = NoEntry THEN 1 ELSE users[t][k].count + 1]
    BY <1>1 DEF P!TypeOK, P!Counted
  <2>6. us[k].count = IF users[t][k] = NoEntry THEN 1 ELSE users[t][k].count + 1
    BY <2>5
  <2>7. users'[s][j] # NoEntry
    <3>1. us[k] \in P!Entry
      <4>1. users[t][k] # NoEntry => users[t][k].count \in Nat
        BY <1>1, PresenceSets DEF P!TypeOK
      <4>2. data[c] \in Data
        BY <1>1 DEF P!TypeOK
      <4> HIDE DEF us
      <4> QED
        BY <2>5, <4>1, <4>2, PresenceSets
    <3> QED
      BY <2>4, <3>1, PresenceSets
  <2>8. Cardinality(Present(s, j)) = IF users[t][k] = NoEntry THEN 0 ELSE users[t][k].count
    BY <1>1, <1>2, <1>4, FS_EmptySet DEF Counting
  <2> HIDE DEF us
  <2> QED
    BY <1>1, <2>3, <2>4, <2>6, <2>7, <2>8, <1>4
<1>5. CASE ~(s = t /\ j = k)
  <2>1. Present(s, j)' = Present(s, j)
    BY <1>3, <1>5 DEF Present
  <2>2. users'[s][j] = users[s][j]
    <3>1. s = t => users'[s] = us
      BY <1>1, <1>2 DEF P!TypeOK
    <3>2. s # t => users'[s] = users[s]
      BY <1>1, <1>2 DEF P!TypeOK
    <3>3. j # k => us[j] = users[t][j]
      BY <1>1 DEF P!Counted, P!TypeOK
    <3> QED
      BY <1>5, <3>1, <3>2, <3>3
  <2> QED
    BY <1>1, <1>2, <2>1, <2>2 DEF Counting
<1> QED
  BY <1>4, <1>5

\* What join does to the entry and the difference of a user, nothing being torn.
LEMMA JoinEntry ==
    ASSUME PresenceInv, NEW c \in Conns, NEW t \in Topics, P!Join(c, t), ~torn',
           NEW s \in Topics, NEW j \in Keys
    PROVE  \/ /\ users'[s][j] = users[s][j] /\ pending'[s][j] = pending[s][j]
           \/ /\ users'[s][j] # NoEntry /\ users[s][j] # NoEntry
              /\ users'[s][j].data = users[s][j].data /\ pending'[s][j] = pending[s][j]
           \/ /\ users'[s][j] # NoEntry /\ pending'[s][j] \in P!Operation
              /\ pending'[s][j].op = "join" /\ users'[s][j].data = pending'[s][j].data
<1> DEFINE k == KeyOf[c]
           us == P!Counted(users[t], k, data[c])
           n == IF users[t][k] = NoEntry THEN 1 ELSE users[t][k].count + 1
           e == [data |-> data[c], count |-> n]
           o == [op |-> "join", data |-> data[c]]
<1>1. P!TypeOK /\ k \in Keys
  BY PresenceConstantsOK DEF PresenceInv
<1>2. /\ users' = [users EXCEPT ![t] = us]
      /\ IF users[t][k] # NoEntry /\ users[t][k].data = data[c]
         THEN pending' = pending /\ flushTimer' = flushTimer
         ELSE P!Buffer(t, k, "join", data[c])
  BY JoinStep
<1>3. e \in P!Entry /\ e # NoEntry /\ e.data = data[c] /\ o \in P!Operation /\ o # NoEntry /\ o.op = "join" /\ o.data = data[c]
  <2>1. n \in Nat /\ data[c] \in Data
    BY <1>1, PresenceSets DEF P!TypeOK
  <2> HIDE DEF n
  <2> QED
    BY <2>1, PresenceSets
<1>4. us = [users[t] EXCEPT ![k] = e]
  BY DEF P!Counted
<1> HIDE DEF us, n, e, o
<1>5. users'[s][j] = IF s = t /\ j = k THEN e ELSE users[s][j]
  BY <1>1, <1>2, <1>4 DEF P!TypeOK
<1>6. CASE users[t][k] # NoEntry /\ users[t][k].data = data[c]
  BY <1>2, <1>3, <1>5, <1>6
<1>7. CASE ~(users[t][k] # NoEntry /\ users[t][k].data = data[c])
  <2>1. pending' = [pending EXCEPT ![t][k] = o]
    BY <1>2, <1>7 DEF P!Buffer, o
  <2>2. pending'[s][j] = IF s = t /\ j = k THEN o ELSE pending[s][j]
    BY <1>1, <2>1 DEF P!TypeOK
  <2> QED
    BY <1>3, <1>5, <2>2
<1> QED
  BY <1>6, <1>7

LEMMA JoinKeeps ==
    ASSUME PresenceInv, NEW c \in Conns, NEW t \in Topics, P!Join(c, t)
    PROVE  PresenceInv'
<1>1. P!TypeOK /\ P!TypeOK' /\ Counting /\ Waiting /\ Showing
  BY JoinTypes DEF PresenceInv
<1>2. Counting'
  BY JoinCounts
<1>3. Waiting'
  <2>1. ASSUME ~torn', NEW s \in Topics, NEW j \in Keys
        PROVE  /\ pending'[s][j] # NoEntry /\ pending'[s][j].op = "join" =>
                    users'[s][j] # NoEntry /\ users'[s][j].data = pending'[s][j].data
               /\ pending'[s][j] # NoEntry /\ pending'[s][j].op = "leave" => users'[s][j] = NoEntry
    <3>1. ~torn
      BY <2>1, JoinStep
    <3>2. /\ pending[s][j] # NoEntry /\ pending[s][j].op = "join" =>
                    users[s][j] # NoEntry /\ users[s][j].data = pending[s][j].data
          /\ pending[s][j] # NoEntry /\ pending[s][j].op = "leave" => users[s][j] = NoEntry
      BY <1>1, <3>1 DEF Waiting
    <3>3. pending[s][j] \in P!Operation \cup {NoEntry}
      BY <1>1 DEF P!TypeOK
    <3>4. \A o \in P!Operation : o.op \in {"join", "leave"}
      BY PresenceSets
    <3> QED
      BY <2>1, <3>2, <3>3, <3>4, JoinEntry
  <2>2. (\E s \in Topics : pending'[s] # P!Blank) => flushTimer'
    <3>1. (pending' = pending /\ flushTimer' = flushTimer) \/ P!Buffer(t, KeyOf[c], "join", data[c])
      BY DEF P!Join
    <3> QED
      BY <1>1, <3>1 DEF Waiting, P!Buffer
  <2>3. P!Blank' = P!Blank
    BY DEF P!Blank
  <2> QED
    BY <2>1, <2>2, <2>3 DEF Waiting
<1>4. Showing'
  <2> SUFFICES ASSUME ~torn', NEW s \in Topics, NEW d \in watching'[s] \ lossy'[s], NEW j \in Keys,
                      pending'[s][j] = NoEntry
               PROVE  /\ view'[d][s][j] = P!Shown(users'[s])[j]
                      /\ users'[s][j] # NoEntry => age'[d][s][j] <= MaxAge
    BY DEF Showing
  <2> DEFINE us == P!Counted(users[t], KeyOf[c], data[c])
  <2>1. /\ ~torn /\ users' = [users EXCEPT ![t] = us]
        /\ watching' = [watching EXCEPT ![t] = @ \cup {c}]
        /\ P!SendState(c, t, us)
    BY JoinStep
  <2>2. us \in [Keys -> P!Entry \cup {NoEntry}] /\ users'[t] = us
    <3>1. users'[t] = us
      BY <1>1, <2>1 DEF P!TypeOK
    <3> HIDE DEF us
    <3> QED
      BY <1>1, <3>1 DEF P!TypeOK
  <2> HIDE DEF us
  <2>3. d \in Conns
    BY <1>1 DEF P!TypeOK
  <2>4. CASE d = c /\ s = t
    <3>1. view'[c][t] = P!Shown(us) /\ \A k \in Keys : age'[c][t][k] = 0
      BY <1>1, <2>1, <2>2, SnapshotTypes
    <3> QED
      BY <2>2, <2>4, <3>1, PresenceConstantsOK
  <2>5. CASE ~(d = c /\ s = t)
    <3>1. d \in watching[s] \ lossy[s]
      <4>1. /\ s # t => lossy'[s] = lossy[s]
            /\ s = t => lossy'[s] = lossy[s] \ {c}
        BY <1>1, <2>1, <2>2, SnapshotTypes
      <4> QED
        BY <1>1, <2>1, <2>5, <4>1 DEF P!TypeOK
    <3>2. view'[d][s] = view[d][s] /\ age'[d][s] = age[d][s]
      BY <1>1, <2>1, <2>2, <2>3, <2>5, SnapshotTypes
    <3>3. /\ pending'[s][j] = pending[s][j]
          /\ \/ users'[s][j] = users[s][j]
             \/ /\ users'[s][j] # NoEntry /\ users[s][j] # NoEntry
                /\ users'[s][j].data = users[s][j].data
      BY JoinEntry, PresenceSets
    <3>4. P!Shown(users'[s])[j] = P!Shown(users[s])[j]
      BY <3>3, PresenceSets
    <3>5. /\ view[d][s][j] = P!Shown(users[s])[j]
          /\ users[s][j] # NoEntry => age[d][s][j] <= MaxAge
      BY <1>1, <2>1, <3>1, <3>3 DEF Showing
    <3> QED
      BY <3>2, <3>3, <3>4, <3>5
  <2> QED
    BY <2>4, <2>5
<1> QED
  BY <1>1, <1>2, <1>3, <1>4 DEF PresenceInv

LEMMA WithoutShape ==
    ASSUME NEW us \in [Keys -> P!Entry \cup {NoEntry}], NEW k \in Keys,
           us[k] # NoEntry => us[k].count >= 1
    PROVE  LET left == P!Without(us, k) IN
           /\ left \in [Keys -> P!Entry \cup {NoEntry}]
           /\ \A j \in Keys : j # k => left[j] = us[j]
           /\ us[k] = NoEntry => left[k] = NoEntry
           /\ us[k] # NoEntry /\ us[k].count = 1 => left[k] = NoEntry
           /\ us[k] # NoEntry /\ us[k].count # 1 =>
                /\ left[k] # NoEntry /\ left[k].data = us[k].data
                /\ left[k].count = us[k].count - 1 /\ left[k].count >= 1
<1>1. CASE us[k] = NoEntry
  BY <1>1 DEF P!Without
<1>2. CASE us[k] # NoEntry /\ us[k].count = 1
  BY <1>2 DEF P!Without
<1>3. CASE us[k] # NoEntry /\ us[k].count # 1
  <2> DEFINE e == [us[k] EXCEPT !.count = @ - 1]
  <2>1. P!Without(us, k) = [us EXCEPT ![k] = e]
    BY <1>3 DEF P!Without
  <2>2. us[k] \in [data: Data, count: Nat]
    BY <1>3, PresenceSets
  <2>3. e \in [data: Data, count: Nat] /\ e.data = us[k].data /\ e.count = us[k].count - 1 /\ e.count >= 1
    BY <1>3, <2>2
  <2> HIDE DEF e
  <2> QED
    BY <1>3, <2>1, <2>3, PresenceSets
<1> QED
  BY <1>1, <1>2, <1>3

\* What becomes of the entries and differences when c leaves some topics: the
\* user of c is a connection less there, and is told gone with the last one.
LEMMA LeaveEntries ==
    ASSUME P!TypeOK, Counting, NEW c \in Conns, NEW T \in SUBSET Topics, P!LeaveTopics(c, T),
           NEW s \in Topics, NEW j \in Keys
    PROVE  \/ /\ ~(s \in T /\ j = KeyOf[c]) \/ users[s][j] = NoEntry
              /\ users'[s][j] = users[s][j] /\ pending'[s][j] = pending[s][j]
           \/ /\ s \in T /\ j = KeyOf[c] /\ users[s][j] # NoEntry /\ users[s][j].count = 1
              /\ users'[s][j] = NoEntry
              /\ pending'[s][j] \in P!Operation /\ pending'[s][j].op = "leave" /\ flushTimer'
           \/ /\ s \in T /\ j = KeyOf[c] /\ users[s][j] # NoEntry
              /\ users'[s][j] # NoEntry /\ users'[s][j].data = users[s][j].data
              /\ users'[s][j].count = users[s][j].count - 1 /\ users'[s][j].count >= 1
              /\ pending'[s][j] = pending[s][j]
<1> DEFINE k == KeyOf[c]
           o(r) == [op |-> "leave", data |-> users[r][k].data]
           gone(r) == r \in T /\ users[r][k] # NoEntry /\ users'[r][k] = NoEntry
<1>1. k \in Keys
  BY PresenceConstantsOK
<1>2. users' = [r \in Topics |-> IF r \in T THEN P!Without(users[r], k) ELSE users[r]]
  BY DEF P!LeaveTopics
<1>3. /\ pending' = [r \in Topics |-> IF gone(r) THEN [pending[r] EXCEPT ![k] = o(r)] ELSE pending[r]]
      /\ flushTimer' = (flushTimer \/ \E r \in Topics : gone(r))
  <2>1. \A r \in Topics : users'[r] = IF r \in T THEN P!Without(users[r], k) ELSE users[r]
    BY <1>2
  <2> QED
    BY <2>1 DEF P!LeaveTopics
<1>4. users[s] \in [Keys -> P!Entry \cup {NoEntry}] /\ pending[s] \in [Keys -> P!Operation \cup {NoEntry}]
  BY DEF P!TypeOK
<1>5. CASE s \notin T
  BY <1>2, <1>3, <1>5
<1>6. CASE s \in T
  <2> DEFINE left == P!Without(users[s], k)
  <2>1. users'[s] = left
    BY <1>2, <1>6
  <2>2. /\ \A i \in Keys : i # k => left[i] = users[s][i]
        /\ users[s][k] = NoEntry => left[k] = NoEntry
        /\ users[s][k] # NoEntry /\ users[s][k].count = 1 => left[k] = NoEntry
        /\ users[s][k] # NoEntry /\ users[s][k].count # 1 =>
             /\ left[k] # NoEntry /\ left[k].data = users[s][k].data
             /\ left[k].count = users[s][k].count - 1 /\ left[k].count >= 1
    <3>1. users[s][k] # NoEntry => users[s][k].count >= 1
      BY <1>1 DEF Counting
    <3> QED
      BY <1>1, <1>4, <3>1, WithoutShape
  <2> HIDE DEF left
  <2>3. /\ gone(s) => pending'[s] = [pending[s] EXCEPT ![k] = o(s)] /\ flushTimer'
        /\ ~gone(s) => pending'[s] = pending[s]
    BY <1>3
  <2>4. users[s][k] # NoEntry => o(s) \in P!Operation /\ o(s).op = "leave"
    BY <1>1, <1>4, PresenceSets
  <2>5. gone(s) <=> users[s][k] # NoEntry /\ left[k] = NoEntry
    BY <1>6, <2>1
  <2> HIDE DEF gone, o, k
  <2>6. CASE j # k
    <3>1. pending'[s][j] = pending[s][j]
      BY <1>4, <2>3, <2>6
    <3> QED
      BY <2>1, <2>2, <2>6, <3>1 DEF k
  <2>7. CASE j = k /\ users[s][k] = NoEntry
    BY <2>1, <2>2, <2>3, <2>5, <2>7
  <2>8. CASE j = k /\ users[s][k] # NoEntry /\ users[s][k].count = 1
    <3>1. pending'[s][j] = o(s) /\ flushTimer'
      BY <1>4, <2>2, <2>3, <2>5, <2>8
    <3> QED
      BY <1>6, <2>1, <2>2, <2>4, <2>8, <3>1 DEF k
  <2>9. CASE j = k /\ users[s][k] # NoEntry /\ users[s][k].count # 1
    BY <1>6, <2>1, <2>2, <2>3, <2>5, <2>9 DEF k
  <2> QED
    BY <2>6, <2>7, <2>8, <2>9
<1> QED
  BY <1>5, <1>6

LEMMA LeaveTypes ==
    ASSUME P!TypeOK, Counting, NEW c \in Conns, NEW T \in SUBSET Topics, P!LeaveTopics(c, T)
    PROVE  /\ users' \in [Topics -> [Keys -> P!Entry \cup {NoEntry}]]
           /\ pending' \in [Topics -> [Keys -> P!Operation \cup {NoEntry}]]
           /\ flushTimer' \in BOOLEAN
           /\ topicOrder' \in Seq(Topics) /\ Len(topicOrder') <= MaxTopics
           /\ wsTopics' \in [Conns -> SUBSET Topics]
           /\ connOrder' \in Seq(Conns) /\ Len(connOrder') <= MaxConns
<1> DEFINE k == KeyOf[c]
<1>1. k \in Keys /\ MaxConns \in Nat /\ MaxTopics \in Nat
  BY PresenceConstantsOK
<1>2. users' \in [Topics -> [Keys -> P!Entry \cup {NoEntry}]]
  <2>1. \A r \in Topics : P!Without(users[r], k) \in [Keys -> P!Entry \cup {NoEntry}]
    <3>1. TAKE r \in Topics
    <3>2. users[r] \in [Keys -> P!Entry \cup {NoEntry}] /\ (users[r][k] # NoEntry => users[r][k].count >= 1)
      BY <1>1 DEF P!TypeOK, Counting
    <3> QED
      BY <1>1, <3>2, WithoutShape
  <2>2. users' = [r \in Topics |-> IF r \in T THEN P!Without(users[r], k) ELSE users[r]]
    BY DEF P!LeaveTopics
  <2> QED
    BY <2>1, <2>2 DEF P!TypeOK
<1>3. pending' \in [Topics -> [Keys -> P!Operation \cup {NoEntry}]]
  <2>1. \A r \in Topics : users[r][k] # NoEntry => [op |-> "leave", data |-> users[r][k].data] \in P!Operation
    BY <1>1, PresenceSets DEF P!TypeOK
  <2>2. \A r \in Topics : pending'[r] \in {pending[r], [pending[r] EXCEPT ![k] = [op |-> "leave", data |-> users[r][k].data]]}
                          /\ (pending'[r] = pending[r] \/ users[r][k] # NoEntry)
    BY DEF P!LeaveTopics
  <2>3. pending' = [r \in Topics |-> pending'[r]]
    BY DEF P!LeaveTopics
  <2>4. ASSUME NEW r \in Topics PROVE pending'[r] \in [Keys -> P!Operation \cup {NoEntry}]
    <3> DEFINE o == [op |-> "leave", data |-> users[r][k].data]
    <3>1. pending[r] \in [Keys -> P!Operation \cup {NoEntry}]
      BY DEF P!TypeOK
    <3>2. pending'[r] = pending[r] \/ (pending'[r] = [pending[r] EXCEPT ![k] = o] /\ o \in P!Operation)
      BY <2>1, <2>2
    <3> HIDE DEF o, k
    <3> QED
      BY <1>1, <3>1, <3>2
  <2> QED
    BY <2>3, <2>4
<1>4. flushTimer' \in BOOLEAN
  BY DEF P!LeaveTopics, P!TypeOK
<1>5. topicOrder' \in Seq(Topics) /\ Len(topicOrder') <= MaxTopics
  <2>1. PICK K : topicOrder' = P!Within(topicOrder, K)
    BY DEF P!LeaveTopics
  <2>2. topicOrder' \in Seq(Topics) /\ Len(topicOrder') <= Len(topicOrder)
    BY <2>1, TrackerShape DEF P!TypeOK
  <2> QED
    BY <1>1, <2>2, LenProperties DEF P!TypeOK
<1>6. wsTopics' \in [Conns -> SUBSET Topics]
  BY DEF P!LeaveTopics, P!TypeOK
<1>7. connOrder' \in Seq(Conns) /\ Len(connOrder') <= MaxConns
  <2>1. connOrder' = connOrder \/ connOrder' = P!Within(connOrder, Conns \ {c})
    BY DEF P!LeaveTopics
  <2>2. connOrder' \in Seq(Conns) /\ Len(connOrder') <= Len(connOrder)
    <3>1. connOrder \in Seq(Conns)
      BY DEF P!TypeOK
    <3>2. P!Within(connOrder, Conns \ {c}) \in Seq(Conns) /\ Len(P!Within(connOrder, Conns \ {c})) <= Len(connOrder)
      BY <3>1, TrackerShape
    <3> QED
      BY <2>1, <3>1, <3>2, LenProperties
  <2> QED
    BY <1>1, <2>2, LenProperties DEF P!TypeOK
<1> QED
  BY <1>2, <1>3, <1>4, <1>5, <1>6, <1>7

\* The counts after c left topics it was present on.
LEMMA LeaveCounts ==
    ASSUME P!TypeOK, Counting, NEW c \in Conns, NEW T \in SUBSET wsTopics[c],
           P!LeaveTopics(c, T), torn' = torn
    PROVE  Counting'
<1> DEFINE k == KeyOf[c]
<1>1. T \in SUBSET Topics /\ k \in Keys
  BY PresenceConstantsOK DEF P!TypeOK
<1>2. ASSUME NEW s \in Topics, NEW j \in Keys, users'[s][j] # NoEntry PROVE users'[s][j].count >= 1
  BY <1>1, <1>2, LeaveEntries DEF Counting
<1>3. ASSUME ~torn', NEW s \in Topics, NEW j \in Keys
      PROVE  IF users'[s][j] = NoEntry THEN Present(s, j)' = {}
             ELSE Cardinality(Present(s, j)') = users'[s][j].count
  <2>1. IF users[s][j] = NoEntry THEN Present(s, j) = {}
        ELSE Cardinality(Present(s, j)) = users[s][j].count
    BY <1>3 DEF Counting
  <2>2. \A d \in Conns, r \in Topics : r \in wsTopics'[d] <=> r \in wsTopics[d] /\ ~(d = c /\ r \in T)
    BY DEF P!LeaveTopics, P!TypeOK
  <2>3. CASE s \in T /\ j = k
    <3>1. Present(s, j)' = Present(s, j) \ {c} /\ c \in Present(s, j)
      BY <1>1, <2>2, <2>3 DEF Present
    <3>2. IsFiniteSet(Present(s, j))
      BY FS_Subset, PresenceConstantsOK DEF Present
    <3>3. IsFiniteSet(Present(s, j)') /\ Cardinality(Present(s, j)') = Cardinality(Present(s, j)) - 1
      BY <3>1, <3>2, FS_RemoveElement
    <3>4. users[s][j] # NoEntry
      BY <2>1, <3>1
    <3>5. \/ users[s][j].count = 1 /\ users'[s][j] = NoEntry
          \/ users'[s][j] # NoEntry /\ users'[s][j].count = users[s][j].count - 1
      BY <1>1, <2>3, <3>4, LeaveEntries
    <3>6. Present(s, j)' = {} \/ Cardinality(Present(s, j)') # 0
      BY <3>3, FS_EmptySet
    <3>7. users[s][j].count \in Nat
      BY <3>4, PresenceSets DEF P!TypeOK
    <3> QED
      BY <2>1, <3>3, <3>4, <3>5, <3>6, <3>7
  <2>4. CASE ~(s \in T /\ j = k)
    <3>1. Present(s, j)' = Present(s, j)
      BY <2>2, <2>4 DEF Present
    <3>2. users'[s][j] = users[s][j]
      BY <1>1, <2>4, LeaveEntries
    <3> QED
      BY <2>1, <3>1, <3>2
  <2> QED
    BY <2>3, <2>4
<1> QED
  BY <1>2, <1>3 DEF Counting

\* The unsubscribe and close hooks: c leaves topics it was present on, and
\* stops watching some.
LEMMA LeavingKeeps ==
    ASSUME PresenceInv, NEW c \in Conns, NEW T \in SUBSET wsTopics[c], NEW U \in SUBSET Topics,
           P!LeaveTopics(c, T), P!Unwatch(c, U),
           open' \subseteq Conns, beating' \in BOOLEAN, UNCHANGED <<data, drops, ops, torn>>
    PROVE  PresenceInv'
<1>1. P!TypeOK /\ Counting /\ Waiting /\ Showing /\ T \in SUBSET Topics
  BY DEF PresenceInv, P!TypeOK
<1>2. /\ watching' = [s \in Topics |-> IF s \in U THEN watching[s] \ {c} ELSE watching[s]]
      /\ lossy' = [s \in Topics |-> IF s \in U THEN lossy[s] \ {c} ELSE lossy[s]]
      /\ view' = [view EXCEPT ![c] = [s \in Topics |-> IF s \in U THEN P!Blank ELSE view[c][s]]]
      /\ age' = [age EXCEPT ![c] = [s \in Topics |-> IF s \in U THEN [k \in Keys |-> 0] ELSE age[c][s]]]
  BY DEF P!Unwatch
<1>3. P!TypeOK'
  <2>1. watching' \in [Topics -> SUBSET Conns] /\ lossy' \in [Topics -> SUBSET Conns]
    BY <1>1, <1>2 DEF P!TypeOK
  <2>2. view' \in [Conns -> [Topics -> [Keys -> Data \cup {NoEntry}]]]
    <3>1. P!Blank \in [Keys -> Data \cup {NoEntry}]
      BY PresenceSets
    <3>2. [s \in Topics |-> IF s \in U THEN P!Blank ELSE view[c][s]] \in [Topics -> [Keys -> Data \cup {NoEntry}]]
      BY <1>1, <3>1 DEF P!TypeOK
    <3> QED
      BY <1>1, <1>2, <3>2 DEF P!TypeOK
  <2>3. age' \in [Conns -> [Topics -> [Keys -> 0..(MaxAge + 1)]]]
    <3>1. [k \in Keys |-> 0] \in [Keys -> 0..(MaxAge + 1)]
      BY PresenceConstantsOK
    <3>2. [s \in Topics |-> IF s \in U THEN [k \in Keys |-> 0] ELSE age[c][s]] \in [Topics -> [Keys -> 0..(MaxAge + 1)]]
      BY <1>1, <3>1 DEF P!TypeOK
    <3> QED
      BY <1>1, <1>2, <3>2 DEF P!TypeOK
  <2>4. data' \in [Conns -> Data] /\ drops' \in 0..MaxDrops /\ ops' \in 0..MaxOps /\ torn' \in BOOLEAN
    BY <1>1 DEF P!TypeOK
  <2> QED
    BY <1>1, <2>1, <2>2, <2>3, <2>4, LeaveTypes DEF P!TypeOK
<1>4. Counting'
  BY <1>1, LeaveCounts
<1>5. Waiting'
  <2>1. ASSUME ~torn', NEW s \in Topics, NEW j \in Keys
        PROVE  /\ pending'[s][j] # NoEntry /\ pending'[s][j].op = "join" =>
                    users'[s][j] # NoEntry /\ users'[s][j].data = pending'[s][j].data
               /\ pending'[s][j] # NoEntry /\ pending'[s][j].op = "leave" => users'[s][j] = NoEntry
    <3>1. /\ pending[s][j] # NoEntry /\ pending[s][j].op = "join" =>
                    users[s][j] # NoEntry /\ users[s][j].data = pending[s][j].data
          /\ pending[s][j] # NoEntry /\ pending[s][j].op = "leave" => users[s][j] = NoEntry
      BY <1>1, <2>1 DEF Waiting
    <3> QED
      BY <1>1, <3>1, LeaveEntries
  <2>2. ASSUME NEW s \in Topics, pending'[s] # P!Blank PROVE flushTimer'
    <3>1. pending'[s] \in [Keys -> P!Operation \cup {NoEntry}]
      BY <1>3 DEF P!TypeOK
    <3>2. PICK j \in Keys : pending'[s][j] # NoEntry
      BY <2>2, <3>1, PresenceSets
    <3>3. CASE pending'[s][j] = pending[s][j]
      <4>1. pending[s] # P!Blank
        BY <3>2, <3>3, PresenceSets
      <4>2. flushTimer
        BY <1>1, <4>1 DEF Waiting
      <4> QED
        BY <4>2 DEF P!LeaveTopics
    <3>4. CASE pending'[s][j] # pending[s][j]
      BY <1>1, <3>4, LeaveEntries
    <3> QED
      BY <3>3, <3>4
  <2>3. P!Blank' = P!Blank
    BY DEF P!Blank
  <2> QED
    BY <2>1, <2>2, <2>3 DEF Waiting
<1>6. Showing'
  <2> SUFFICES ASSUME ~torn', NEW s \in Topics, NEW d \in watching'[s] \ lossy'[s], NEW j \in Keys,
                      pending'[s][j] = NoEntry
               PROVE  /\ view'[d][s][j] = P!Shown(users'[s])[j]
                      /\ users'[s][j] # NoEntry => age'[d][s][j] <= MaxAge
    BY DEF Showing
  <2>1. d \in Conns /\ d \in watching[s] \ lossy[s] /\ ~(d = c /\ s \in U)
    BY <1>1, <1>2 DEF P!TypeOK
  <2>2. view'[d][s] = view[d][s] /\ age'[d][s] = age[d][s]
    BY <1>1, <1>2, <2>1 DEF P!TypeOK
  <2>3. /\ pending[s][j] = NoEntry
        /\ \/ users'[s][j] = users[s][j]
           \/ /\ users'[s][j] # NoEntry /\ users[s][j] # NoEntry
              /\ users'[s][j].data = users[s][j].data
    BY <1>1, LeaveEntries, PresenceSets
  <2>4. P!Shown(users'[s])[j] = P!Shown(users[s])[j]
    BY <2>3, PresenceSets
  <2>5. /\ view[d][s][j] = P!Shown(users[s])[j]
        /\ users[s][j] # NoEntry => age[d][s][j] <= MaxAge
    BY <1>1, <2>1, <2>3 DEF Showing
  <2> QED
    BY <2>2, <2>3, <2>4, <2>5
<1> QED
  BY <1>3, <1>4, <1>5, <1>6 DEF PresenceInv

LEMMA UnsubscribeKeeps ==
    ASSUME PresenceInv, NEW c \in Conns, NEW t \in Topics, P!Unsubscribe(c, t)
    PROVE  PresenceInv'
<1> DEFINE U == IF users[t][KeyOf[c]] = NoEntry THEN {} ELSE {t}
<1>1. /\ {t} \in SUBSET wsTopics[c] /\ P!LeaveTopics(c, {t}) /\ P!Unwatch(c, U)
      /\ UNCHANGED <<open, data, beating, drops, ops, torn>>
  BY DEF P!Unsubscribe
<1>2. U \in SUBSET Topics /\ open' \subseteq Conns /\ beating' \in BOOLEAN
  BY <1>1 DEF PresenceInv, P!TypeOK
<1> HIDE DEF U
<1> QED
  BY <1>1, <1>2, LeavingKeeps

LEMMA CloseKeeps ==
    ASSUME PresenceInv, NEW c \in Conns, P!Close(c)
    PROVE  PresenceInv'
<1>1. /\ wsTopics[c] \in SUBSET wsTopics[c] /\ P!LeaveTopics(c, wsTopics[c]) /\ P!Unwatch(c, Topics)
      /\ UNCHANGED <<data, drops, ops, torn>>
  BY DEF P!Close
<1>2. Topics \in SUBSET Topics /\ open' \subseteq Conns /\ beating' \in BOOLEAN
  BY DEF PresenceInv, P!TypeOK, P!Close
<1> QED
  BY <1>1, <1>2, LeavingKeeps

-----------------------------------------------------------------------------
(* The turn of the loop, heartbeats and sweeps. *)

LEMMA FlushKeeps == ASSUME PresenceInv, P!Flush PROVE PresenceInv'
<1>1. P!TypeOK /\ Counting /\ Waiting /\ Showing
  BY DEF PresenceInv
<1>2. PICK D \in P!Losers :
        /\ P!Loses(D)
        /\ view' = [c \in Conns |-> [t \in Topics |->
                      IF c \in watching[t] \ D THEN P!Patched(view[c][t], pending[t]) ELSE view[c][t]]]
        /\ age' = [c \in Conns |-> [t \in Topics |->
                     [k \in Keys |-> IF c \in watching[t] \ D /\ pending[t][k] # NoEntry THEN 0 ELSE age[c][t][k]]]]
  BY DEF P!Flush
<1>3. /\ flushTimer' = FALSE /\ pending' = [t \in Topics |-> P!Blank]
      /\ UNCHANGED <<open, data, wsTopics, connOrder, users, topicOrder, beating, watching, ops, torn>>
  BY DEF P!Flush
<1>4. \A c \in Conns, t \in Topics : P!Patched(view[c][t], pending[t]) =
        [k \in Keys |-> IF pending[t][k] = NoEntry THEN view[c][t][k]
                        ELSE IF pending[t][k].op = "join" THEN pending[t][k].data ELSE NoEntry]
  BY DEF P!Patched
<1>5. P!TypeOK'
  <2>1. pending' \in [Topics -> [Keys -> P!Operation \cup {NoEntry}]] /\ flushTimer' \in BOOLEAN
    BY <1>3, PresenceSets
  <2>2. drops' \in 0..MaxDrops /\ lossy' \in [Topics -> SUBSET Conns]
    BY <1>1, <1>2, PresenceConstantsOK DEF P!Loses, P!Losers, P!TypeOK
  <2>3. \A c \in Conns, t \in Topics : P!Patched(view[c][t], pending[t]) \in [Keys -> Data \cup {NoEntry}]
    <3>1. TAKE c \in Conns, t \in Topics
    <3>2. \A k \in Keys : /\ view[c][t][k] \in Data \cup {NoEntry}
                          /\ pending[t][k] # NoEntry => pending[t][k].data \in Data
      BY <1>1, PresenceSets DEF P!TypeOK
    <3>3. P!Patched(view[c][t], pending[t]) =
            [k \in Keys |-> IF pending[t][k] = NoEntry THEN view[c][t][k]
                            ELSE IF pending[t][k].op = "join" THEN pending[t][k].data ELSE NoEntry]
      BY <1>4
    <3> QED
      BY <3>2, <3>3
  <2>4. view' \in [Conns -> [Topics -> [Keys -> Data \cup {NoEntry}]]]
    <3>1. \A c \in Conns, t \in Topics : view[c][t] \in [Keys -> Data \cup {NoEntry}]
      BY <1>1 DEF P!TypeOK
    <3> QED
      BY <1>2, <2>3, <3>1
  <2>5. age' \in [Conns -> [Topics -> [Keys -> 0..(MaxAge + 1)]]]
    BY <1>1, <1>2, PresenceConstantsOK DEF P!TypeOK
  <2> QED
    BY <1>1, <1>3, <2>1, <2>2, <2>4, <2>5 DEF P!TypeOK
<1>6. Counting'
  BY <1>1, <1>3 DEF Counting, Present
<1>7. Waiting'
  BY <1>3, PresenceSets DEF Waiting, P!Blank
<1>8. Showing'
  <2> SUFFICES ASSUME ~torn', NEW t \in Topics, NEW c \in watching'[t] \ lossy'[t], NEW k \in Keys
               PROVE  /\ view'[c][t][k] = P!Shown(users'[t])[k]
                      /\ users'[t][k] # NoEntry => age'[c][t][k] <= MaxAge
    BY DEF Showing
  <2>1. c \in Conns /\ c \in watching[t] \ D /\ c \notin lossy[t] /\ users' = users
    BY <1>1, <1>2, <1>3 DEF P!TypeOK, P!Loses
  <2>2. CASE pending[t][k] = NoEntry
    <3>1. /\ view[c][t][k] = P!Shown(users[t])[k]
          /\ users[t][k] # NoEntry => age[c][t][k] <= MaxAge
      BY <1>1, <1>3, <2>1, <2>2 DEF Showing
    <3>2. age'[c][t][k] = age[c][t][k]
      BY <1>2, <2>1, <2>2
    <3>3. view'[c][t][k] = view[c][t][k]
      <4>1. view'[c][t] = P!Patched(view[c][t], pending[t])
        BY <1>2, <2>1
      <4>2. P!Patched(view[c][t], pending[t])[k] = view[c][t][k]
        BY <2>2 DEF P!Patched
      <4> QED
        BY <4>1, <4>2
    <3> QED
      BY <2>1, <3>1, <3>2, <3>3
  <2>3. CASE pending[t][k] # NoEntry
    <3>1. age'[c][t][k] = 0
      BY <1>2, <2>1, <2>3
    <3>2. view'[c][t][k] = IF pending[t][k].op = "join" THEN pending[t][k].data ELSE NoEntry
      <4>1. view'[c][t] = P!Patched(view[c][t], pending[t])
        BY <1>2, <2>1
      <4>2. P!Patched(view[c][t], pending[t])[k] =
              IF pending[t][k].op = "join" THEN pending[t][k].data ELSE NoEntry
        BY <2>3 DEF P!Patched
      <4> QED
        BY <4>1, <4>2
    <3>3. pending[t][k].op \in {"join", "leave"}
      BY <1>1, <2>3, PresenceSets DEF P!TypeOK
    <3>4. /\ pending[t][k].op = "join" =>
               users[t][k] # NoEntry /\ users[t][k].data = pending[t][k].data
          /\ pending[t][k].op = "leave" => users[t][k] = NoEntry
      BY <1>1, <1>3, <2>3 DEF Waiting
    <3> QED
      BY <2>1, <3>1, <3>2, <3>3, <3>4, PresenceSets, PresenceConstantsOK
  <2> QED
    BY <2>2, <2>3
<1> QED
  BY <1>5, <1>6, <1>7, <1>8 DEF PresenceInv

LEMMA PresenceHeartbeatKeeps == ASSUME PresenceInv, P!Heartbeat PROVE PresenceInv'
<1>1. P!TypeOK /\ Counting /\ Waiting /\ Showing
  BY DEF PresenceInv
<1>2. PICK D \in P!Losers :
        /\ drops' = IF D = {} THEN drops ELSE drops + 1
        /\ view' = [c \in Conns |-> [t \in Topics |->
                      IF c \in watching[t] \ D THEN P!Refreshed(view[c][t], users[t]) ELSE view[c][t]]]
        /\ age' = [c \in Conns |-> [t \in Topics |-> [k \in Keys |->
                     IF view'[c][t][k] = NoEntry \/ (c \in watching[t] \ D /\ users[t][k] # NoEntry) THEN 0
                     ELSE IF age[c][t][k] > MaxAge THEN age[c][t][k] ELSE age[c][t][k] + 1]]]
        /\ lossy' = [t \in Topics |-> lossy[t] \cup
                      {c \in D \cap watching[t] : \E k \in Keys : users[t][k] # NoEntry /\ age'[c][t][k] > MaxAge}]
  BY DEF P!Heartbeat
<1>3. UNCHANGED <<open, data, wsTopics, connOrder, users, topicOrder, pending, flushTimer, beating,
                  watching, ops, torn>>
  BY DEF P!Heartbeat, P!server
<1>4. \A c \in Conns, t \in Topics : P!Refreshed(view[c][t], users[t]) =
        [k \in Keys |-> IF users[t][k] = NoEntry THEN view[c][t][k] ELSE users[t][k].data]
  BY DEF P!Refreshed
<1>5. P!TypeOK'
  <2>1. drops' \in 0..MaxDrops /\ lossy' \in [Topics -> SUBSET Conns]
    <3>1. drops' \in 0..MaxDrops
      <4>1. drops \in 0..MaxDrops /\ (D = {} \/ drops < MaxDrops)
        BY <1>1 DEF P!Losers, P!TypeOK
      <4>2. drops' = IF D = {} THEN drops ELSE drops + 1
        BY <1>2
      <4> QED
        BY <4>1, <4>2, PresenceConstantsOK
    <3>2. \A t \in Topics : lossy[t] \cup {c \in D \cap watching[t] : \E k \in Keys : users[t][k] # NoEntry /\ age'[c][t][k] > MaxAge} \in SUBSET Conns
      BY <1>1 DEF P!TypeOK
    <3> QED
      BY <1>2, <3>1, <3>2
  <2>2. \A c \in Conns, t \in Topics : P!Refreshed(view[c][t], users[t]) \in [Keys -> Data \cup {NoEntry}]
    <3>1. TAKE c \in Conns, t \in Topics
    <3>2. \A k \in Keys : /\ view[c][t][k] \in Data \cup {NoEntry}
                          /\ users[t][k] # NoEntry => users[t][k].data \in Data
      BY <1>1, PresenceSets DEF P!TypeOK
    <3>3. P!Refreshed(view[c][t], users[t]) =
            [k \in Keys |-> IF users[t][k] = NoEntry THEN view[c][t][k] ELSE users[t][k].data]
      BY <1>4
    <3> QED
      BY <3>2, <3>3
  <2>3. view' \in [Conns -> [Topics -> [Keys -> Data \cup {NoEntry}]]]
    <3>1. \A c \in Conns, t \in Topics : view[c][t] \in [Keys -> Data \cup {NoEntry}]
      BY <1>1 DEF P!TypeOK
    <3> QED
      BY <1>2, <2>2, <3>1
  <2>4. age' \in [Conns -> [Topics -> [Keys -> 0..(MaxAge + 1)]]]
    <3>1. \A c \in Conns, t \in Topics, k \in Keys : age[c][t][k] \in 0..(MaxAge + 1)
      BY <1>1 DEF P!TypeOK
    <3>2. \A n \in 0..(MaxAge + 1) : (IF n > MaxAge THEN n ELSE n + 1) \in 0..(MaxAge + 1)
      BY PresenceConstantsOK
    <3>3. 0 \in 0..(MaxAge + 1)
      BY PresenceConstantsOK
    <3> QED
      BY <1>2, <3>1, <3>2, <3>3
  <2> QED
    BY <1>1, <1>3, <2>1, <2>3, <2>4 DEF P!TypeOK
<1>6. Counting' /\ Waiting'
  <2>1. Counting'
    BY <1>1, <1>3 DEF Counting, Present
  <2>2. Waiting'
    BY <1>1, <1>3 DEF Waiting, P!Blank
  <2> QED
    BY <2>1, <2>2
<1>7. Showing'
  <2> SUFFICES ASSUME ~torn', NEW t \in Topics, NEW c \in watching'[t] \ lossy'[t], NEW k \in Keys,
                      pending'[t][k] = NoEntry
               PROVE  /\ view'[c][t][k] = P!Shown(users'[t])[k]
                      /\ users'[t][k] # NoEntry => age'[c][t][k] <= MaxAge
    BY DEF Showing
  <2>1. c \in Conns /\ c \in watching[t] \ lossy[t] /\ users' = users
    BY <1>1, <1>2, <1>3 DEF P!TypeOK
  <2>2. /\ view[c][t][k] = P!Shown(users[t])[k]
        /\ users[t][k] # NoEntry => age[c][t][k] <= MaxAge
    BY <1>1, <1>3, <2>1 DEF Showing
  <2>3. CASE c \in D
    <3>1. view'[c][t][k] = view[c][t][k]
      BY <1>2, <2>1, <2>3
    <3>2. users[t][k] # NoEntry => ~(age'[c][t][k] > MaxAge)
      BY <1>2, <2>1, <2>3
    <3>3. age'[c][t][k] \in 0..(MaxAge + 1)
      BY <1>5, <2>1 DEF P!TypeOK
    <3> QED
      BY <2>1, <2>2, <3>1, <3>2, <3>3, PresenceConstantsOK
  <2>4. CASE c \notin D
    <3>1. view'[c][t][k] = IF users[t][k] = NoEntry THEN view[c][t][k] ELSE users[t][k].data
      <4>1. view'[c][t] = P!Refreshed(view[c][t], users[t])
        BY <1>2, <2>1, <2>4
      <4>2. P!Refreshed(view[c][t], users[t])[k] =
              IF users[t][k] = NoEntry THEN view[c][t][k] ELSE users[t][k].data
        BY DEF P!Refreshed
      <4> QED
        BY <4>1, <4>2
    <3>2. users[t][k] # NoEntry => age'[c][t][k] = 0
      BY <1>2, <2>1, <2>4
    <3> QED
      BY <2>1, <2>2, <3>1, <3>2, PresenceSets, PresenceConstantsOK
  <2> QED
    BY <2>3, <2>4
<1> QED
  BY <1>5, <1>6, <1>7 DEF PresenceInv

LEMMA SweepKeeps ==
    ASSUME PresenceInv, NEW c \in Conns, NEW t \in Topics, P!Sweep(c, t)
    PROVE  PresenceInv'
<1> DEFINE old == {k \in Keys : age[c][t][k] > MaxAge}
           swept == [k \in Keys |-> IF k \in old THEN NoEntry ELSE view[c][t][k]]
           young == [k \in Keys |-> IF k \in old THEN 0 ELSE age[c][t][k]]
<1>1. P!TypeOK /\ Counting /\ Waiting /\ Showing
  BY DEF PresenceInv
<1>2. /\ view' = [view EXCEPT ![c][t] = swept] /\ age' = [age EXCEPT ![c][t] = young]
      /\ UNCHANGED <<open, data, wsTopics, connOrder, users, topicOrder, pending, flushTimer, beating,
                     watching, lossy, drops, ops, torn>>
  <2>1. /\ view' = [view EXCEPT ![c][t] = [k \in Keys |-> IF k \in old THEN NoEntry ELSE @[k]]]
        /\ age' = [age EXCEPT ![c][t] = [k \in Keys |-> IF k \in old THEN 0 ELSE @[k]]]
    BY DEF P!Sweep
  <2>2. UNCHANGED <<open, data, wsTopics, connOrder, users, topicOrder, pending, flushTimer, beating,
                    watching, lossy, drops, ops, torn>>
    BY DEF P!Sweep, P!server
  <2> QED
    BY <2>1, <2>2
<1>3. swept \in [Keys -> Data \cup {NoEntry}] /\ young \in [Keys -> 0..(MaxAge + 1)]
  BY <1>1, PresenceConstantsOK DEF P!TypeOK
<1>4. \A k \in Keys : IF k \in old THEN swept[k] = NoEntry /\ young[k] = 0
                      ELSE swept[k] = view[c][t][k] /\ young[k] = age[c][t][k]
  OBVIOUS
<1> HIDE DEF swept, young
<1>5. P!TypeOK'
  BY <1>1, <1>2, <1>3 DEF P!TypeOK
<1>6. Counting' /\ Waiting'
  <2>1. UNCHANGED <<wsTopics, users, pending, flushTimer, torn>>
    BY <1>2
  <2>2. Counting'
    BY <1>1, <2>1 DEF Counting, Present
  <2>3. Waiting'
    BY <1>1, <2>1 DEF Waiting, P!Blank
  <2> QED
    BY <2>2, <2>3
<1>7. Showing'
  <2> SUFFICES ASSUME ~torn', NEW s \in Topics, NEW d \in watching'[s] \ lossy'[s], NEW k \in Keys,
                      pending'[s][k] = NoEntry
               PROVE  /\ view'[d][s][k] = P!Shown(users'[s])[k]
                      /\ users'[s][k] # NoEntry => age'[d][s][k] <= MaxAge
    BY DEF Showing
  <2>1. d \in Conns /\ users' = users
    BY <1>2, <1>5 DEF P!TypeOK
  <2>2. /\ view[d][s][k] = P!Shown(users[s])[k]
        /\ users[s][k] # NoEntry => age[d][s][k] <= MaxAge
    BY <1>1, <1>2 DEF Showing
  <2>3. CASE d = c /\ s = t
    <3>1. view'[d][s] = swept /\ age'[d][s] = young
      BY <1>1, <1>2, <2>3 DEF P!TypeOK
    <3>2. age[c][t][k] \in 0..(MaxAge + 1)
      BY <1>1 DEF P!TypeOK
    <3>3. k \in old => users[t][k] = NoEntry
      BY <2>2, <2>3, <3>2, PresenceConstantsOK
    <3> HIDE DEF old
    <3> QED
      BY <1>4, <2>1, <2>2, <2>3, <3>1, <3>3, PresenceSets
  <2>4. CASE ~(d = c /\ s = t)
    <3>1. view'[d][s] = view[d][s] /\ age'[d][s] = age[d][s]
      BY <1>1, <1>2, <2>1, <2>4 DEF P!TypeOK
    <3> QED
      BY <2>1, <2>2, <3>1
  <2> QED
    BY <2>3, <2>4
<1> QED
  BY <1>5, <1>6, <1>7 DEF PresenceInv

LEMMA ClearKeeps == ASSUME PresenceInv, P!Clear PROVE PresenceInv'
<1>1. P!TypeOK
  BY DEF PresenceInv
<1>2. P!TypeOK'
  <2>1. P!Blank \in [Keys -> {NoEntry}]
    BY PresenceSets
  <2>2. connOrder' \in Seq(Conns) /\ Len(connOrder') <= MaxConns
    BY EmptySeq, PresenceConstantsOK DEF P!Clear
  <2>3. topicOrder' \in Seq(Topics) /\ Len(topicOrder') <= MaxTopics
    BY EmptySeq, PresenceConstantsOK DEF P!Clear
  <2>4. ops' \in 0..MaxOps
    BY <1>1, PresenceConstantsOK DEF P!Clear, P!TypeOK
  <2> QED
    BY <1>1, <2>1, <2>2, <2>3, <2>4 DEF P!Clear, P!client, P!TypeOK
<1>3. Counting'
  BY PresenceSets DEF P!Clear, Counting
<1>4. Waiting'
  BY DEF P!Clear, Waiting, P!Blank
<1>5. Showing'
  BY DEF P!Clear, Showing
<1> QED
  BY <1>2, <1>3, <1>4, <1>5 DEF PresenceInv

LEMMA PresenceStepKeeps == PresenceInv /\ P!Next => PresenceInv'
<1> SUFFICES ASSUME PresenceInv, P!Next PROVE PresenceInv'
  OBVIOUS
<1> QED
  BY JoinKeeps, SyncKeeps, UnsubscribeKeeps, SweepKeeps, CloseKeeps, FlushKeeps,
     PresenceHeartbeatKeeps, ClearKeeps DEF P!Next

LEMMA PresenceIdle == PresenceInv /\ UNCHANGED presenceVars => PresenceInv'
<1> SUFFICES ASSUME PresenceInv, UNCHANGED presenceVars PROVE PresenceInv'
  OBVIOUS
<1>1. P!TypeOK /\ Counting /\ Waiting /\ Showing
  BY DEF PresenceInv
<1>2. UNCHANGED <<open, data, wsTopics, connOrder, users, topicOrder, pending, flushTimer,
                  watching, view, age, lossy, beating, drops, ops, torn>>
  BY DEF presenceVars
<1>3. P!TypeOK'
  BY <1>1, <1>2 DEF P!TypeOK
<1>4. Counting'
  BY <1>1, <1>2 DEF Counting, Present
<1>5. Waiting'
  BY <1>1, <1>2 DEF Waiting, P!Blank
<1>6. Showing'
  BY <1>1, <1>2 DEF Showing, P!Shown
<1> QED
  BY <1>3, <1>4, <1>5, <1>6 DEF PresenceInv

LEMMA PresenceInvariance == PartsSpec => []PresenceInv
<1>1. PartsInit => PresenceInv
  BY PresenceInitHolds DEF PartsInit
<1>2. PresenceInv /\ [PartsNext]_<<part, vars, devVars, presenceVars>> => PresenceInv'
  BY PresenceStepKeeps, PresenceIdle DEF PartsNext
<1> QED
  BY <1>1, <1>2, PTL DEF PartsSpec

\* While no cap evicted anything and nobody called clear(), the count of a user
\* is the number of its connections on the topic, and a client that missed
\* nothing is wrong about a user only while a difference about that user waits,
\* and then the timer that sends it is armed.
THEOREM PresenceIsKept == PartsSpec => []PresenceIsTold
<1>1. ASSUME PresenceInv PROVE PresenceIsTold
  <2>1. P!TypeOK /\ Counting /\ Waiting /\ Showing
    BY <1>1 DEF PresenceInv
  <2>2. P!CountsAreExact
    BY <2>1, PresenceCardinality DEF P!CountsAreExact, Counting, Present
  <2>3. P!ViewIsCurrent
    BY <2>1 DEF P!ViewIsCurrent, P!Agrees, Waiting, Showing
  <2> QED
    BY <2>2, <2>3 DEF PresenceIsTold
<1> QED
  BY <1>1, PresenceInvariance, PTL
=============================================================================
