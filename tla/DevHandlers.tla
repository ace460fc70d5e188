----------------------------- MODULE DevHandlers -----------------------------
(***************************************************************************)
(* The development server (vite.js): how the Vite plugin loads the         *)
(* WebSocket handlers, replaces them on every save, repairs a module graph *)
(* that a late import made stale, and retires them when the server closes, *)
(* while upgrades, authentications and frames come in.                     *)
(*                                                                         *)
(* The mode is Vite 6 with the compatibility loader (Kit 2).  A handler    *)
(* module is the version of the source it was evaluated from; a handler    *)
(* instance is named by the generation that made it.  Instances run user   *)
(* hooks, which may return, throw or miss the deadline of 30 s.            *)
(***************************************************************************)
EXTENDS Integers, Sequences, FiniteSets

CONSTANTS Clients,   \* requests and sockets of the browser
          MaxSaves   \* bound: saves of the handler file

VARIABLES source,      \* the version of the handler file on disk
          updates,     \* legacyUpdates: hot updates under way
          dirty,       \* legacyDirty
          graph,       \* the version Vite's module graph holds, 0 if invalidated
          generation,  \* state.generation
          phase,       \* phase[g]: what the reload of generation g does
          mod,         \* mod[g]: the version g imports, or imported
          currentLoad, \* the generation whose import is the current one, or 0
          repair,      \* repairLegacyGraph, and repairQueued
          queue,       \* state.queue: operations enqueued, the head runs
          step,        \* where the operation at the head stands
          active,      \* state.active: a generation, or 0
          life,        \* life[g]: what the hooks of instance g do
          platform,    \* the instance whose hooks the current platform asks
          userHandlers,
          handlerFailed,
          closed,      \* state.closed
          at,          \* at[c]: where the request or socket of c stands
          owner,       \* owner[c]: the instance that serves it
          seen,        \* seen[c]: the generation of its snapshot
          frame        \* frame[c]: the frame of c being handled

vite == <<source, updates, dirty>>
loads == <<graph, phase, mod, currentLoad, repair>>
lifecycle == <<queue, step, active, life, platform>>
served == <<userHandlers, handlerFailed>>
clients == <<at, owner, seen, frame>>
devVars == <<vite, loads, generation, lifecycle, served, closed, clients>>

\* A save makes one reload, and one repair at most; closing is one more.
Generations == 1 .. 2 + 2 * MaxSaves
None == 0
Alive == {"init", "up", "shutdown"}
Lives == Alive \cup {"none", "lateInit", "lateShutdown", "down"}
Phases == {"none", "waiting", "loading", "enqueued", "done"}
Places == {"idle", "waiting", "body", "hook", "open", "closing"}

TypeOK ==
    /\ source \in 1 .. 1 + MaxSaves /\ graph \in 0 .. source
    /\ updates \in 0..MaxSaves /\ dirty \in BOOLEAN
    /\ generation \in Generations
    /\ phase \in [Generations -> Phases] /\ mod \in [Generations -> 0 .. source]
    /\ {currentLoad, active, platform, userHandlers} \subseteq Generations \cup {None}
    /\ repair \subseteq {"wanted", "queued"}
    /\ queue \in Seq({"install", "fail", "stop"} \X Generations)
    /\ step \in {"start", "retire", "init", "discard", "reject"}
    /\ life \in [Generations -> Lives]
    /\ handlerFailed \in BOOLEAN /\ closed \in BOOLEAN
    /\ at \in [Clients -> {"upgrade", "auth"} \X Places]
    /\ owner \in [Clients -> Generations \cup {None}]
    /\ seen \in [Clients -> Generations \cup {None}]
    /\ frame \in [Clients -> {"none", "waiting", "gate"}]

(***************************************************************************)
(* The two tests every continuation after an await makes: isCurrent of a   *)
(* reload, and handlersSettled, which waitForHandlers waits for.           *)
(***************************************************************************)
IsCurrent(g) == ~closed /\ generation = g
Settled == closed \/ phase[generation] = "done"

Init ==
    /\ source = 1 /\ updates = 0 /\ dirty = FALSE /\ graph = None
    /\ generation = 1
    /\ phase = [g \in Generations |-> IF g = 1 THEN "waiting" ELSE "none"]
    /\ mod = [g \in Generations |-> 0]
    /\ currentLoad = None /\ repair = {}
    /\ queue = << >> /\ step = "start" /\ active = None
    /\ life = [g \in Generations |-> "none"] /\ platform = None
    /\ userHandlers = None /\ handlerFailed = FALSE /\ closed = FALSE
    /\ at = [c \in Clients |-> <<"upgrade", "idle">>]
    /\ owner = [c \in Clients |-> None] /\ seen = [c \in Clients |-> None]
    /\ frame = [c \in Clients |-> "none"]

\* The first half of reloadHandlers: a new generation, which waits for the
\* server to listen and for the next millisecond.
Reload ==
    /\ generation' = generation + 1
    /\ phase' = [phase EXCEPT ![generation + 1] = "waiting"]

-----------------------------------------------------------------------------
\* The handler file is saved: Vite runs the hotUpdate hook for it.
Save ==
    /\ ~closed /\ source <= MaxSaves
    /\ source' = source + 1 /\ updates' = updates + 1 /\ dirty' = TRUE
    /\ UNCHANGED <<loads, generation, lifecycle, served, closed, clients>>

\* Vite has invalidated the graph for one update; the last one reloads.
UpdateDone ==
    /\ ~closed /\ updates > 0
    /\ updates' = updates - 1
    /\ graph' = None
    /\ IF updates = 1 /\ dirty
         THEN dirty' = FALSE /\ Reload
         ELSE UNCHANGED <<dirty, generation, phase>>
    /\ UNCHANGED <<source, mod, currentLoad, repair, lifecycle, served, closed, clients>>

\* reloadHandlers past its waits: a superseded generation is left where it is.
BeginLoad(g) ==
    /\ phase[g] = "waiting" /\ IsCurrent(g)
    /\ phase' = [phase EXCEPT ![g] = "loading"]
    /\ mod' = [mod EXCEPT ![g] = IF graph = None THEN source ELSE graph]
    /\ currentLoad' = g
    /\ UNCHANGED <<vite, graph, repair, generation, lifecycle, served, closed, clients>>

\* (mutant: a late import is not repaired)
SettleQuietly(g) ==
    /\ currentLoad' = (IF currentLoad = g THEN None ELSE currentLoad)
    /\ UNCHANGED repair

\* settleLegacyLoad of g, with the repair it may queue.
SettleLoad(g) ==
    LET left == IF currentLoad = g THEN None ELSE currentLoad
        wants == repair \cup (IF IsCurrent(g) THEN {} ELSE {"wanted"})
    IN /\ currentLoad' = left
       /\ repair' = CASE closed -> repair
                      [] ~closed /\ "wanted" \in wants /\ left = None -> {"wanted", "queued"}
                      [] OTHER -> wants

\* The import of g settles.  The loader writes what it evaluated into the
\* graph, however old that is; a superseded reload goes no further.
LoadSettles(g) ==
    /\ phase[g] = "loading"
    /\ SettleLoad(g)
    /\ \E ok \in BOOLEAN :
         /\ graph' = IF ok THEN mod[g] ELSE graph
         /\ phase' = [phase EXCEPT ![g] = IF IsCurrent(g) THEN "enqueued" ELSE "done"]
         /\ queue' = IF IsCurrent(g)
                       THEN Append(queue, <<IF ok THEN "install" ELSE "fail", g>>)
                       ELSE queue
    /\ UNCHANGED <<vite, mod, generation, step, active, life, platform, served, closed, clients>>

\* The microtask of settleLegacyLoad: one graph is built again.
Repair ==
    /\ "queued" \in repair
    /\ IF closed \/ currentLoad # None
         THEN repair' = repair \ {"queued"} /\ UNCHANGED <<graph, generation, phase>>
         ELSE repair' = {} /\ graph' = None /\ Reload
    /\ UNCHANGED <<vite, mod, currentLoad, lifecycle, served, closed, clients>>

-----------------------------------------------------------------------------
(***************************************************************************)
(* The lifecycle queue.  Its head runs to its end, hooks included, before  *)
(* the next operation starts.                                              *)
(***************************************************************************)
Runs(op, g) == queue # << >> /\ Head(queue) = <<op, g>>

\* retireHandlers: sockets are told to close, the hooks of the active
\* instance are taken away, and its shutdown is called.
Retire ==
    /\ active' = None /\ userHandlers' = None
    /\ at' = [c \in Clients |-> IF at[c][2] = "open" THEN <<at[c][1], "closing">> ELSE at[c]]
    /\ life' = IF active = None THEN life ELSE [life EXCEPT ![active] = "shutdown"]
    /\ UNCHANGED <<owner, seen, frame>>

Finish(g, then) ==
    /\ queue' = Tail(queue) \o then
    /\ step' = "start"
    /\ phase' = IF then = << >> THEN [phase EXCEPT ![g] = "done"] ELSE phase

\* A rejected reload enqueues its failure, unless it was superseded.
Rejected(g) == IF IsCurrent(g) THEN << <<"fail", g>> >> ELSE << >>

SameHandlers(g) == active # None /\ mod[g] = mod[active]

StartInstall(g) ==
    /\ Runs("install", g) /\ step = "start"
    /\ IF ~IsCurrent(g) \/ SameHandlers(g)
         THEN /\ handlerFailed' = (handlerFailed /\ ~IsCurrent(g))
              /\ Finish(g, << >>)
              /\ UNCHANGED <<active, life, userHandlers, clients>>
         ELSE /\ Retire /\ step' = "retire"
              /\ UNCHANGED <<queue, phase, handlerFailed>>
    /\ UNCHANGED <<vite, graph, mod, currentLoad, repair, generation, platform, closed>>

\* (mutant: the shutdown of the old instance is not awaited)
ReplaceAtOnce(g) ==
    /\ Runs("install", g) /\ step = "retire"
    /\ IF IsCurrent(g)
         THEN /\ active' = g /\ platform' = g
              /\ life' = [life EXCEPT ![g] = "init"]
              /\ step' = "init"
              /\ UNCHANGED <<queue, phase>>
         ELSE Finish(g, << >>) /\ UNCHANGED <<active, life, platform>>
    /\ UNCHANGED <<vite, graph, mod, currentLoad, repair, generation, served, closed, clients>>

\* The old instance is down: the new one is asked to initialize.
Replace(g) ==
    /\ Runs("install", g) /\ step = "retire"
    /\ \A h \in Generations : life[h] # "shutdown"
    /\ IF IsCurrent(g)
         THEN /\ active' = g /\ platform' = g
              /\ life' = [life EXCEPT ![g] = "init"]
              /\ step' = "init"
              /\ UNCHANGED <<queue, phase>>
         ELSE Finish(g, << >>) /\ UNCHANGED <<active, life, platform>>
    /\ UNCHANGED <<vite, graph, mod, currentLoad, repair, generation, served, closed, clients>>

\* (mutant: an instance superseded during its init is dropped, not shut down)
InitReturnsLate(g) ==
    /\ Runs("install", g) /\ step = "init"
    /\ life' = [life EXCEPT ![g] = "up"]
    /\ Finish(g, << >>)
    /\ IF IsCurrent(g)
         THEN userHandlers' = g /\ handlerFailed' = FALSE /\ UNCHANGED active
         ELSE active' = None /\ UNCHANGED served
    /\ UNCHANGED <<vite, graph, mod, currentLoad, repair, generation, platform, closed, clients>>

\* init returned.  A generation superseded meanwhile is shut down again.
InitReturns(g) ==
    /\ Runs("install", g) /\ step = "init"
    /\ IF IsCurrent(g)
         THEN /\ userHandlers' = g /\ handlerFailed' = FALSE
              /\ life' = [life EXCEPT ![g] = "up"]
              /\ Finish(g, << >>) /\ UNCHANGED active
         ELSE /\ active' = None /\ life' = [life EXCEPT ![g] = "shutdown"]
              /\ step' = "discard" /\ UNCHANGED <<queue, phase, served>>
    /\ UNCHANGED <<vite, graph, mod, currentLoad, repair, generation, platform, closed, clients>>

InitThrows(g) ==
    /\ Runs("install", g) /\ step = "init"
    /\ active' = None /\ life' = [life EXCEPT ![g] = "shutdown"]
    /\ step' = "reject"
    /\ UNCHANGED <<vite, loads, generation, queue, platform, served, closed, clients>>

\* The deadline of init: the platform is abandoned to the hook that still
\* runs, and its cleanup waits for it.
InitTimesOut(g) ==
    /\ Runs("install", g) /\ step = "init"
    /\ active' = None /\ platform' = None
    /\ life' = [life EXCEPT ![g] = "lateInit"]
    /\ Finish(g, Rejected(g))
    /\ UNCHANGED <<vite, graph, mod, currentLoad, repair, generation, served, closed, clients>>

\* A shutdown ends, or its deadline lets the queue go on: in both cases the
\* instance loses its platform.
ShutdownEnds(g) ==
    /\ life[g] = "shutdown"
    /\ life' = [life EXCEPT ![g] = "down"]
    /\ platform' = IF platform = g THEN None ELSE platform
    /\ UNCHANGED <<vite, loads, generation, queue, step, active, served, closed, clients>>

\* A timed-out init settles at last; its shutdown runs outside of the queue.
LateInitEnds(g) ==
    /\ life[g] \in {"lateInit", "lateShutdown"}
    /\ life' = [life EXCEPT ![g] = IF life[g] = "lateInit" THEN "lateShutdown" ELSE "down"]
    /\ UNCHANGED <<vite, loads, generation, queue, step, active, platform, served, closed, clients>>

\* What was discarded is down.
Discarded(g) ==
    /\ Runs("install", g) /\ step \in {"discard", "reject"} /\ life[g] # "shutdown"
    /\ Finish(g, IF step = "reject" THEN Rejected(g) ELSE << >>)
    /\ UNCHANGED <<vite, graph, mod, currentLoad, repair, generation, active, life, platform,
                   served, closed, clients>>

\* A load or an init that failed, and the end of the server.
StartRetire(g) ==
    /\ (Runs("fail", g) \/ Runs("stop", g)) /\ step = "start"
    /\ IF Runs("fail", g) /\ ~IsCurrent(g)
         THEN Finish(g, << >>) /\ UNCHANGED <<active, life, served, clients>>
         ELSE /\ Retire /\ step' = "retire" /\ handlerFailed' = TRUE
              /\ UNCHANGED <<queue, phase>>
    /\ UNCHANGED <<vite, graph, mod, currentLoad, repair, generation, platform, closed>>

Retired(g) ==
    /\ (Runs("fail", g) \/ Runs("stop", g)) /\ step = "retire"
    /\ \A h \in Generations : life[h] # "shutdown"
    /\ Finish(g, << >>)
    /\ UNCHANGED <<vite, graph, mod, currentLoad, repair, generation, active, life, platform,
                   served, closed, clients>>

\* stopLifecycle: the server closes.
CloseServer ==
    /\ ~closed /\ closed' = TRUE
    /\ generation' = generation + 1
    /\ handlerFailed' = TRUE
    /\ queue' = Append(queue, <<"stop", generation + 1>>)
    /\ UNCHANGED <<vite, loads, step, active, life, platform, userHandlers, clients>>

-----------------------------------------------------------------------------
(***************************************************************************)
(* Upgrades, authentications, and the frames of open sockets.              *)
(***************************************************************************)
Arrive(c, kind) ==
    /\ at[c][2] = "idle"
    /\ at' = [at EXCEPT ![c] = <<kind, "waiting">>]
    /\ UNCHANGED <<vite, loads, generation, lifecycle, served, closed, owner, seen, frame>>

\* currentHandlers: the snapshot of c is still what the server serves.
SnapshotHolds(c) ==
    /\ Settled /\ IsCurrent(seen[c])
    /\ active = owner[c] /\ userHandlers = owner[c]

Go(c, place) == at' = [at EXCEPT ![c][2] = place]

\* waitForHandlers is over: the request is refused, an authentication reads
\* its body (after which it waits again), or the hook is called.
HandlersReady(c) ==
    /\ at[c][2] = "waiting" /\ Settled
    /\ seen' = [seen EXCEPT ![c] = generation]
    /\ owner' = [owner EXCEPT ![c] = userHandlers]
    /\ \/ (closed \/ handlerFailed) /\ Go(c, "idle")
       \/ ~closed /\ ~handlerFailed /\ Go(c, "hook")
       \/ ~closed /\ ~handlerFailed /\ at[c][1] = "auth" /\ Go(c, "body")
    /\ UNCHANGED <<vite, loads, generation, lifecycle, served, closed, frame>>

BodyRead(c) ==
    /\ at[c][2] = "body" /\ Go(c, "waiting")
    /\ UNCHANGED <<vite, loads, generation, lifecycle, served, closed, owner, seen, frame>>

\* The hook refuses, or throws.
Refused(c) ==
    /\ at[c][2] = "hook" /\ Go(c, "idle")
    /\ UNCHANGED <<vite, loads, generation, lifecycle, served, closed, owner, seen, frame>>

\* (mutant: the snapshot is not compared again after the hook)
AcceptedAnyway(c) ==
    /\ at[c][2] = "hook"
    /\ Go(c, IF at[c][1] = "upgrade" /\ ~closed THEN "open" ELSE "idle")
    /\ UNCHANGED <<vite, loads, generation, lifecycle, served, closed, owner, seen, frame>>

\* The hook accepts: a snapshot that no longer holds answers 503.
Accepted(c) ==
    /\ at[c][2] = "hook"
    /\ Go(c, IF at[c][1] = "upgrade" /\ SnapshotHolds(c) THEN "open" ELSE "idle")
    /\ UNCHANGED <<vite, loads, generation, lifecycle, served, closed, owner, seen, frame>>

\* A frame arrives and waits for the handlers too.
FrameIn(c) ==
    /\ at[c][2] = "open" /\ frame[c] = "none"
    /\ frame' = [frame EXCEPT ![c] = "waiting"]
    /\ UNCHANGED <<vite, loads, generation, lifecycle, served, closed, at, owner, seen>>

\* (mutant: a frame that waited is handled by the hooks of its socket, whoever
\* serves)
StillOpen(c) == at[c][2] \in {"open", "closing"} /\ ~closed

StillServed(c) == at[c][2] = "open" /\ owner[c] = userHandlers /\ ~closed

\* The subscribe or message hook is called, or the frame is dropped.
FrameReady(c) ==
    /\ frame[c] = "waiting" /\ Settled
    /\ frame' = [frame EXCEPT ![c] = IF StillServed(c) /\ ~handlerFailed THEN "gate" ELSE "none"]
    /\ IF StillServed(c) /\ handlerFailed THEN Go(c, "closing") ELSE UNCHANGED at
    /\ UNCHANGED <<vite, loads, generation, lifecycle, served, closed, owner, seen>>

GateAnswers(c) ==
    /\ frame[c] = "gate" /\ frame' = [frame EXCEPT ![c] = "none"]
    /\ UNCHANGED <<vite, loads, generation, lifecycle, served, closed, at, owner, seen>>

\* The 'close' event; the browser may also close by itself.
SocketCloses(c) ==
    /\ at[c][2] \in {"open", "closing"} /\ frame[c] = "none"
    /\ Go(c, "idle")
    /\ UNCHANGED <<vite, loads, generation, lifecycle, served, closed, owner, seen, frame>>

-----------------------------------------------------------------------------
Lifecycle(g) ==
    \/ StartInstall(g) \/ Replace(g) \/ InitReturns(g) \/ InitThrows(g) \/ InitTimesOut(g)
    \/ ShutdownEnds(g) \/ Discarded(g) \/ StartRetire(g) \/ Retired(g)

Request(c) ==
    \/ \E kind \in {"upgrade", "auth"} : Arrive(c, kind)
    \/ HandlersReady(c) \/ BodyRead(c) \/ Refused(c) \/ Accepted(c)
    \/ FrameIn(c) \/ FrameReady(c) \/ GateAnswers(c) \/ SocketCloses(c)

Next ==
    \/ Save \/ UpdateDone \/ Repair \/ CloseServer
    \/ \E g \in Generations : BeginLoad(g) \/ LoadSettles(g) \/ Lifecycle(g) \/ LateInitEnds(g)
    \/ \E c \in Clients : Request(c)

DevSpec == Init /\ [][Next]_devVars

(***************************************************************************)
(* What the scheduling gives: Vite finishes an update, timers and          *)
(* microtasks run, the import of the current generation settles, and every *)
(* hook returns or meets its deadline.  A superseded import may stay       *)
(* pending for ever, and so may a hook that missed its deadline.           *)
(***************************************************************************)
Progress ==
    /\ WF_devVars(UpdateDone) /\ WF_devVars(Repair)
    /\ \A g \in Generations :
         WF_devVars(BeginLoad(g)) /\ WF_devVars(IsCurrent(g) /\ LoadSettles(g)) /\ WF_devVars(Lifecycle(g))

DevFairSpec == DevSpec /\ Progress

-----------------------------------------------------------------------------
(***************************************************************************)
(* Properties.                                                             *)
(***************************************************************************)
\* One instance at a time is between the call of its init and the end of its
\* shutdown (those past a deadline aside); what the platform asks, what the
\* requests are served by and what the queue would retire is that instance;
\* and every open socket was accepted by it.
OneInstance ==
    /\ TypeOK
    /\ Cardinality({g \in Generations : life[g] \in Alive}) <= 1
    /\ platform # None => life[platform] \in Alive
    /\ userHandlers # None => userHandlers = active /\ platform = active /\ life[active] = "up"
    /\ \A c \in Clients : at[c][2] = "open" => owner[c] = userHandlers

\* The hooks of an instance are only called for a request or a frame while
\* that instance is up: never before its init returned, nor once its
\* shutdown was called.
HooksWhileUp ==
    [][\A c \in Clients :
         (\/ at[c][2] # "hook" /\ at'[c][2] = "hook"
          \/ frame[c] = "waiting" /\ frame'[c] = "gate") => life[owner'[c]] = "up"]_devVars

\* When the saves stop, the handlers settle: the last version is served and
\* is the one HTTP routes share, or the server says that the handlers failed
\* or closed; and no instance but the served one is left without a shutdown.
SavesTakeEffect ==
    <>[](/\ queue = << >> /\ Settled
         /\ \A g \in Generations : life[g] \in Alive => g = userHandlers
         /\ closed \/ handlerFailed \/ (mod[userHandlers] = source /\ graph = source))
=============================================================================
