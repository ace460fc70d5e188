---------------------------- MODULE MCSupervisor -----------------------------
(***************************************************************************)
(* Instances for TLC of what keeps a register of who is there, and mends   *)
(* it: the primary of a cluster, which replaces its workers, the           *)
(* development server, which replaces the handlers, and presence. They     *)
(* share no state; part, chosen at the start, says which of them moves.    *)
(***************************************************************************)
EXTENDS Supervisor, TLC

VARIABLES part,
          source, updates, dirty, graph, generation, devPhase, mod, currentLoad, repair,
          queue, step, active, devLife, platform, userHandlers, handlerFailed, closed,
          at, owner, seen, frame,
          open, data, wsTopics, connOrder, users, topicOrder, pending, flushTimer, watching,
          view, age, lossy, beating, drops, ops, torn

CONSTANTS Clients, MaxSaves,   \* as in DevHandlers
          \* as in Presence; and the connections that do not start with Usual data
          Conns, Topics, Keys, KeyOf, Data, MaxConns, MaxTopics, MaxAge, MaxOps, MaxDrops,
          NoEntry, Varied, Usual

devVars == <<source, updates, dirty, graph, generation, devPhase, mod, currentLoad, repair,
             queue, step, active, devLife, platform, userHandlers, handlerFailed, closed,
             at, owner, seen, frame>>

presenceVars == <<open, data, wsTopics, connOrder, users, topicOrder, pending, flushTimer,
                  watching, view, age, lossy, beating, drops, ops, torn>>

Dev == INSTANCE DevHandlers WITH phase <- devPhase, life <- devLife

ASSUME DevConstantsOK == MaxSaves \in Nat

\* One user with two tabs, whose data may differ, and another one with one.
Tabs == "a" :> "u" @@ "b" :> "u" @@ "c" :> "v"

P == INSTANCE Presence WITH None <- NoEntry, timer <- flushTimer

\* The plugin refuses a cap that is not positive; the client's maxAge is a number
\* of periods, and with none it does not sweep at all.
ASSUME PresenceConstantsOK ==
    /\ IsFiniteSet(Conns) /\ KeyOf \in [Conns -> Keys]
    /\ MaxConns \in Nat \ {0} /\ MaxTopics \in Nat \ {0}
    /\ MaxAge \in Nat /\ MaxOps \in Nat /\ MaxDrops \in Nat
    /\ NoEntry \notin Data \cup P!Entry \cup P!Operation

PartsInit ==
    /\ part \in {"cluster", "dev", "presence"} /\ Init /\ Dev!Init /\ P!Init
    /\ part # "cluster" => mode = "acceptor"
    /\ \A c \in Conns : (c \in Varied /\ part = "presence") \/ data[c] = Usual

PartsNext ==
    /\ UNCHANGED part
    /\ \/ part = "cluster" /\ Next /\ UNCHANGED <<devVars, presenceVars>>
       \/ part = "dev" /\ Dev!Next /\ UNCHANGED <<vars, presenceVars>>
       \/ part = "presence" /\ P!Next /\ UNCHANGED <<vars, devVars>>

\* The fairness that each module states, while its part moves.
ClusterFairness ==
    /\ WF_vars(part = "cluster" /\ Heartbeat) /\ WF_vars(part = "cluster" /\ StopAccepting)
    /\ WF_vars(part = "cluster" /\ Finish)
    /\ \A w \in Ids :
          /\ WF_vars(part = "cluster" /\ Registered(w)) /\ WF_vars(part = "cluster" /\ Ack(w))
          /\ WF_vars(part = "cluster" /\ Exit(w)) /\ WF_vars(part = "cluster" /\ Started(w))
          /\ WF_vars(part = "cluster" /\ Answer(w)) /\ WF_vars(part = "cluster" /\ ShutDown(w))
          /\ WF_vars(part = "cluster" /\ Die(w) /\ (w \in terminating \/ life[w] = "stopping"))
    /\ WF_vars(part = "cluster" /\ \E w \in Ids : Restart(w))

DevFairness ==
    /\ WF_devVars(part = "dev" /\ Dev!UpdateDone) /\ WF_devVars(part = "dev" /\ Dev!Repair)
    /\ \A g \in Dev!Generations :
          /\ WF_devVars(part = "dev" /\ Dev!BeginLoad(g))
          /\ WF_devVars(part = "dev" /\ Dev!IsCurrent(g) /\ Dev!LoadSettles(g))
          /\ WF_devVars(part = "dev" /\ Dev!Lifecycle(g))

PresenceFairness ==
    /\ WF_presenceVars(part = "presence" /\ P!Flush)
    /\ WF_presenceVars(part = "presence" /\ P!Heartbeat)
    /\ \A c \in Conns, t \in Topics : WF_presenceVars(part = "presence" /\ P!Sweep(c, t))

PartsSpec ==
    /\ PartsInit /\ [][PartsNext]_<<part, vars, devVars, presenceVars>>
    /\ ClusterFairness /\ DevFairness /\ PresenceFairness

\* The cluster recovers: hung workers are removed, and the service returns.
Recovers == part = "cluster" => HungIsRemoved /\ ServiceReturns

\* What the other modules state of their own variables.
OneInstance == Dev!OneInstance
HooksWhileUp == Dev!HooksWhileUp
SavesTakeEffect == part = "dev" => Dev!SavesTakeEffect
PresenceIsTold == P!CountsAreExact /\ P!ViewIsCurrent
ViewHeals == P!ViewHeals
==============================================================================
