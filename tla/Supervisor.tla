----------------------------- MODULE Supervisor -----------------------------
(***************************************************************************)
(* The primary thread of a cluster and the life of its workers             *)
(* (files/index.js): spawning, registration, the acceptor's listen socket, *)
(* heartbeats, restarts with backoff, and shutdown.                        *)
(*                                                                         *)
(* A worker's identity is used again once its 'exit' event was handled.    *)
(* Ports and events are FIFO; of equal pending messages one is kept.       *)
(***************************************************************************)
EXTENDS Integers, FiniteSets

CONSTANTS Ids,              \* worker identities
          Num,              \* CLUSTER_WORKERS
          RestartMax,       \* RESTART_MAX_ATTEMPTS
          BaseDelay, MaxDelay,  \* 100 and RESTART_DELAY_MAX
          MissedTicks,      \* HEARTBEAT_TIMEOUT_MS / HEARTBEAT_INTERVAL_MS
          Running           \* the process has not exited

ASSUME ConstantsOK ==
    /\ IsFiniteSet(Ids) /\ Cardinality(Ids) = Num /\ Num >= 1
    /\ RestartMax \in Nat /\ BaseDelay \in Nat \ {0} /\ MaxDelay \in Nat
    /\ MissedTicks \in Nat \ {0}
    /\ Running \notin {0, 1}

Never == -1  \* lastHeartbeat === 0

VARIABLES mode,           \* cluster_mode, fixed when the primary starts
          exited,         \* Running, or the process's exit code
          phase,          \* graceful_shutdown: "serving", "delaying", "stopped"
          workers,        \* keys of the workers Map
          registered,     \* workers that sent their 'descriptor' or 'ready'
          silent,         \* silent[w]: heartbeats sent since lastHeartbeat was set
          terminating,    \* workers that worker.terminate() was called on
          listening,
          listen_socket,  \* the acceptor's listen socket is open
          children,       \* workers the acceptor hands connections to
          restart_delay,
          restart_attempts,
          restart_timers, \* number of pending restart timers
          life,           \* life[w]: what the thread of w is doing
          up,             \* up[w]: messages from w to the primary
          inbox           \* inbox[w]: messages from the primary to w

acceptorVars == <<listening, listen_socket, children>>
restartVars == <<restart_delay, restart_attempts, restart_timers>>
threadVars == <<life, up, inbox>>
vars == <<mode, exited, phase, workers, registered, silent, terminating,
          acceptorVars, restartVars, threadVars>>

Lives == {"none", "starting", "ready", "stopping", "hung", "dead"}

TypeOK ==
    /\ mode \in {"acceptor", "reuseport"}
    /\ exited \in {Running, 0, 1}
    /\ phase \in {"serving", "delaying", "stopped"}
    /\ workers \in SUBSET Ids
    /\ registered \in SUBSET workers
    /\ silent \in [Ids -> Never..MissedTicks]
    /\ terminating \in SUBSET workers
    /\ listening \in BOOLEAN
    /\ listen_socket \in BOOLEAN
    /\ children \in SUBSET Ids
    /\ restart_delay \in Nat
    /\ restart_attempts \in 0..RestartMax + 1
    /\ restart_timers \in Nat
    /\ life \in [Ids -> Lives]
    /\ \A w \in Ids : life[w] = "none" <=> w \notin workers
    /\ up \in [Ids -> SUBSET {"registered", "heartbeat-ack"}]
    /\ inbox \in [Ids -> SUBSET {"heartbeat", "shutdown"}]

Init ==
    /\ mode \in {"acceptor", "reuseport"}
    /\ exited = Running
    /\ phase = "serving"
    /\ workers = Ids
    /\ registered = {}
    /\ silent = [w \in Ids |-> Never]
    /\ terminating = {}
    /\ listening = FALSE
    /\ listen_socket = FALSE
    /\ children = {}
    /\ restart_delay = 0
    /\ restart_attempts = 0
    /\ restart_timers = 0
    /\ life = [w \in Ids |-> "starting"]
    /\ up = [w \in Ids |-> {}]
    /\ inbox = [w \in Ids |-> {}]

Up == exited = Running

-----------------------------------------------------------------------------
\* The primary.

\* (mutant: only the first message starts the clock)
HeardFromOnce(w) == silent' = [silent EXCEPT ![w] = IF @ = Never THEN 0 ELSE @]

\* (mutant: a registration does not start the clock)
HeardFromIfRunning(w) == silent' = [silent EXCEPT ![w] = IF @ = Never THEN @ ELSE 0]

\* meta.lastHeartbeat = Date.now()
HeardFrom(w) == silent' = [silent EXCEPT ![w] = 0]

\* A worker started: the backoff is reset, pending restart timers are cleared.
ResetBackoff ==
    restart_delay' = 0 /\ restart_attempts' = 0 /\ restart_timers' = 0

\* 'descriptor' (acceptor) and 'ready' (reuseport): the acceptor also gets a
\* child app and listens unless it thinks it does; a port it cannot listen on
\* ends the process.
Registered(w) ==
    /\ Up /\ "registered" \in up[w]
    /\ up' = [up EXCEPT ![w] = @ \ {"registered"}]
    /\ registered' = registered \cup {w}
    /\ HeardFrom(w)
    /\ ResetBackoff
    /\ IF mode = "acceptor"
       THEN /\ children' = children \cup {w} /\ listening' = TRUE
            /\ \/ listen_socket' = (listen_socket \/ ~listening) /\ UNCHANGED exited
               \/ ~listening /\ exited' = 1 /\ UNCHANGED listen_socket
       ELSE UNCHANGED <<acceptorVars, exited>>
    /\ UNCHANGED <<mode, phase, workers, terminating, life, inbox>>

\* 'heartbeat-ack', behind the registration on the same port.
Ack(w) ==
    /\ Up /\ "heartbeat-ack" \in up[w] /\ "registered" \notin up[w]
    /\ up' = [up EXCEPT ![w] = @ \ {"heartbeat-ack"}]
    /\ HeardFrom(w)
    /\ UNCHANGED <<mode, exited, phase, workers, registered, terminating,
                   acceptorVars, restartVars, life, inbox>>

\* (mutant: one heartbeat too many is waited for)
StuckLate == {w \in workers : silent[w] > MissedTicks}

\* meta.lastHeartbeat > 0 && now - meta.lastHeartbeat > HEARTBEAT_TIMEOUT_MS
Stuck == {w \in workers : silent[w] >= MissedTicks}

\* The interval: a worker heard from that stayed silent too long is terminated,
\* every other one is sent a heartbeat.
Heartbeat ==
    /\ Up /\ phase = "serving"
    /\ LET asked == workers \ Stuck
       IN  /\ terminating' = terminating \cup Stuck
           /\ silent' = [w \in Ids |-> IF w \in asked /\ silent[w] # Never
                                       THEN silent[w] + 1 ELSE silent[w]]
           /\ inbox' = [w \in Ids |-> IF w \in asked THEN inbox[w] \cup {"heartbeat"}
                                                     ELSE inbox[w]]
    /\ UNCHANGED <<mode, exited, phase, workers, registered, acceptorVars, restartVars, life, up>>

\* restart_delay ? Math.min(restart_delay * 2, RESTART_DELAY_MAX) : 100
NextDelay(d) ==
    IF d = 0 THEN BaseDelay ELSE IF d * 2 > MaxDelay THEN MaxDelay ELSE d * 2

\* (mutant: the handler looks for live workers before it removes this one)
HasLiveWorkerBefore(w) == registered # {}

\* [...workers.values()].some(m => m.descriptor !== null), after the delete
HasLiveWorker(w) == registered \ {w} # {}

\* (mutant: the restart limit is reached without the process ending)
RearmPastLimit ==
    /\ restart_attempts' = IF restart_attempts > RestartMax THEN restart_attempts
                                                            ELSE restart_attempts + 1
    /\ IF restart_attempts + 1 > RestartMax
       THEN UNCHANGED <<exited, restart_delay, restart_timers>>
       ELSE /\ restart_delay' = NextDelay(restart_delay)
            /\ restart_timers' = restart_timers + 1
            /\ UNCHANGED exited

\* The exit handler replaces the worker, or gives up.
Rearm ==
    /\ restart_attempts' = restart_attempts + 1
    /\ IF restart_attempts + 1 > RestartMax
       THEN exited' = 1 /\ UNCHANGED <<restart_delay, restart_timers>>
       ELSE /\ restart_delay' = NextDelay(restart_delay)
            /\ restart_timers' = restart_timers + 1
            /\ UNCHANGED exited

\* 'exit', after the port of the dead thread was drained.
Exit(w) ==
    /\ Up /\ life[w] = "dead" /\ up[w] = {}
    /\ workers' = workers \ {w}
    /\ registered' = registered \ {w}
    /\ children' = children \ {w}
    /\ terminating' = terminating \ {w}
    /\ IF phase = "serving"
       THEN /\ Rearm
            /\ IF mode = "acceptor" /\ ~HasLiveWorker(w) /\ listen_socket
               THEN listening' = FALSE /\ listen_socket' = FALSE
               ELSE UNCHANGED <<listening, listen_socket>>
       ELSE /\ exited' = IF workers \ {w} = {} THEN 0 ELSE exited
            /\ UNCHANGED <<listening, listen_socket, restartVars>>
    /\ life' = [life EXCEPT ![w] = "none"]
    /\ inbox' = [inbox EXCEPT ![w] = {}]
    /\ silent' = [silent EXCEPT ![w] = Never]
    /\ UNCHANGED <<mode, phase, up>>

\* A restart timer fires: spawn_worker.
Restart(w) ==
    /\ Up /\ phase = "serving" /\ restart_timers > 0 /\ life[w] = "none"
    /\ restart_timers' = restart_timers - 1
    /\ workers' = workers \cup {w}
    /\ life' = [life EXCEPT ![w] = "starting"]
    /\ UNCHANGED <<mode, exited, phase, registered, silent, terminating, acceptorVars,
                   restart_delay, restart_attempts, up, inbox>>

\* (mutant: a shutdown leaves the restart timers armed)
SignalKeepsTimers ==
    /\ Up /\ phase = "serving"
    /\ phase' = "delaying"
    /\ UNCHANGED <<mode, exited, workers, registered, silent, terminating, acceptorVars,
                   restartVars, threadVars>>

\* SIGTERM or SIGINT: graceful_shutdown up to SHUTDOWN_DELAY_MS.
Signal ==
    /\ Up /\ phase = "serving"
    /\ phase' = "delaying"
    /\ restart_timers' = 0
    /\ UNCHANGED <<mode, exited, workers, registered, silent, terminating, acceptorVars,
                   restart_delay, restart_attempts, threadVars>>

\* The delay is over: stop accepting (listening stays as it is) and tell the
\* workers.
StopAccepting ==
    /\ Up /\ phase = "delaying"
    /\ phase' = "stopped"
    /\ listen_socket' = FALSE
    /\ inbox' = [w \in Ids |-> IF w \in workers THEN inbox[w] \cup {"shutdown"} ELSE inbox[w]]
    /\ UNCHANGED <<mode, exited, workers, registered, silent, terminating, listening, children,
                   restartVars, life, up>>

\* SHUTDOWN_TIMEOUT is over, or no worker is left to keep the process going.
Finish ==
    /\ Up /\ phase = "stopped"
    /\ exited' = 0
    /\ UNCHANGED <<mode, phase, workers, registered, silent, terminating, acceptorVars,
                   restartVars, threadVars>>

-----------------------------------------------------------------------------
\* A worker.

Others == <<mode, exited, phase, workers, registered, silent, terminating, acceptorVars,
            restartVars>>

Alive(w) == Up /\ life[w] \in {"starting", "ready", "stopping"}

\* start() or initialize() resolved: the worker registers and reads its port.
Started(w) ==
    /\ Up /\ life[w] = "starting"
    /\ life' = [life EXCEPT ![w] = "ready"]
    /\ up' = [up EXCEPT ![w] = @ \cup {"registered"}]
    /\ UNCHANGED <<Others, inbox>>

Answer(w) ==
    /\ Up /\ life[w] \in {"ready", "stopping"} /\ "heartbeat" \in inbox[w]
    /\ inbox' = [inbox EXCEPT ![w] = @ \ {"heartbeat"}]
    /\ up' = [up EXCEPT ![w] = @ \cup {"heartbeat-ack"}]
    /\ UNCHANGED <<Others, life>>

ShutDown(w) ==
    /\ Up /\ life[w] = "ready" /\ "shutdown" \in inbox[w]
    /\ inbox' = [inbox EXCEPT ![w] = @ \ {"shutdown"}]
    /\ life' = [life EXCEPT ![w] = "stopping"]
    /\ UNCHANGED <<Others, up>>

\* The thread ends: drained after a shutdown, terminated, or crashed.
Die(w) ==
    /\ Alive(w) \/ (Up /\ w \in terminating /\ life[w] = "hung")
    /\ life' = [life EXCEPT ![w] = "dead"]
    /\ UNCHANGED <<Others, up, inbox>>

\* A worker stops making progress: a hook that never settles, an endless loop.
Hang(w) ==
    /\ Alive(w)
    /\ life' = [life EXCEPT ![w] = "hung"]
    /\ UNCHANGED <<Others, up, inbox>>

Next ==
    \/ \E w \in Ids : Registered(w)
    \/ \E w \in Ids : Ack(w)
    \/ Heartbeat
    \/ \E w \in Ids : Exit(w)
    \/ \E w \in Ids : Restart(w)
    \/ Signal
    \/ StopAccepting
    \/ Finish
    \/ \E w \in Ids : Started(w)
    \/ \E w \in Ids : Answer(w)
    \/ \E w \in Ids : ShutDown(w)
    \/ \E w \in Ids : Die(w)
    \/ \E w \in Ids : Hang(w)

Spec == Init /\ [][Next]_vars

\* Ports deliver, timers fire, terminate() and a shutdown end a thread, and a
\* worker that neither hangs nor dies gets through its start.
Fairness ==
    /\ WF_vars(Heartbeat) /\ WF_vars(StopAccepting) /\ WF_vars(Finish)
    /\ \A w \in Ids :
          /\ WF_vars(Registered(w)) /\ WF_vars(Ack(w)) /\ WF_vars(Exit(w))
          /\ WF_vars(Started(w)) /\ WF_vars(Answer(w)) /\ WF_vars(ShutDown(w))
          /\ WF_vars(Die(w) /\ (w \in terminating \/ life[w] = "stopping"))
    /\ WF_vars(\E w \in Ids : Restart(w))

FairSpec == Spec /\ Fairness

-----------------------------------------------------------------------------
\* The primary never owes the world a worker: while it serves there is always a
\* worker or a pending restart, so its event loop cannot run dry, and never
\* more of both than Num; once it shuts down nothing is spawned any more.
Staffed ==
    Up => IF phase = "serving"
          THEN Cardinality(workers) + restart_timers \in 1..Num
          ELSE restart_timers = 0

\* The acceptor accepts exactly while some worker can be handed a connection,
\* and never hands one to a worker whose exit it has handled.
AcceptsIffServed ==
    mode = "acceptor" /\ Up =>
        /\ children = registered
        /\ phase = "serving" => (listen_socket <=> registered # {}) /\ listening = listen_socket

\* What the primary's books say of its workers at every moment.
Manned == TypeOK /\ Staffed /\ AcceptsIffServed

\* A worker is only terminated while a heartbeat it was sent is unanswered.
OnlySilentTerminated ==
    [][\A w \in terminating' \ terminating :
          "heartbeat" \in inbox[w] \/ "heartbeat-ack" \in up[w]]_vars

\* A registered worker that hangs is replaced, or the process is shutting down.
HungIsRemoved ==
    \A w \in Ids : (w \in registered /\ life[w] = "hung") ~>
                      (life[w] # "hung" \/ phase # "serving" \/ ~Up)

\* The service comes back: with no worker registered, one registers again, or
\* the process ends, or every worker there is hangs in its init hook, where the
\* heartbeat does not look.  One that hangs there excuses nothing of the others:
\* their crashes still end in a registration or in the exit at the limit.
ServiceReturns ==
    (Up /\ phase = "serving" /\ registered = {}) ~>
        \/ registered # {} \/ phase # "serving" \/ ~Up
        \/ workers # {} /\ \A w \in workers : life[w] = "hung" /\ silent[w] = Never

\* "If a worker crashes, it is automatically restarted": the cluster does not
\* stay short of workers for ever.  (Nor does it as long as no worker hangs.)
EveryCrashIsRestarted ==
    (Cardinality(workers) < Num) ~>
        (Cardinality(workers) = Num \/ phase # "serving" \/ ~Up
         \/ \E w \in workers : life[w] = "hung")

\* "Stops accepting new connections": once the primary has told the workers to
\* shut down it does not listen.
StoppedStaysStopped == Up /\ phase = "stopped" => ~listen_socket
=============================================================================
