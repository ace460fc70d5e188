------------------------------ MODULE TaskQueue ------------------------------
(***************************************************************************)
(* The per-key task queue (plugins/queue/server.js).  The registry maps a  *)
(* key to an object {items, running, drains}; push appends a task and      *)
(* starts tasks up to the concurrency limit, the end of a task starts the  *)
(* next ones and drops the object when nothing is left, clear() rejects    *)
(* what waits, drain() waits for the object to be dropped.                 *)
(*                                                                         *)
(* A queue object is named by the push that created it.  A task counts as  *)
(* running from the moment it is shifted off items, as in the code.        *)
(***************************************************************************)
EXTENDS Integers, Sequences, FiniteSets

CONSTANTS Pushes,       \* calls of push, numbered in the order they are made
          Drains,       \* calls of drain, numbered alike
          Keys,         \* queue keys
          Concurrency,  \* concurrency
          MaxSize,      \* maxSize
          None

ConstantsOK ==
    /\ Concurrency \in Nat \ {0} /\ MaxSize \in Nat \ {0}
    /\ Pushes \subseteq Nat /\ Drains \subseteq Nat /\ IsFiniteSet(Pushes) /\ None \notin Pushes

VARIABLES queues,   \* queues[k]: the object registered for k, None if there is none
          items,    \* items[o]: the pushes whose tasks wait, oldest first
          running,  \* running[o]: the object's counter of started tasks
          drains,   \* drains[o]: the drain calls whose promise waits for o
          phase,    \* phase[p]: how far the push has come
          key,      \* key[p]: the key it was made for
          at,       \* at[p]: the object its task went to
          drained,  \* drained[d]: how far the drain call has come
          covers    \* history: covers[d]: what was unfinished when d was made

vars == <<queues, items, running, drains, phase, key, at, drained, covers>>

\* The promise of a push is settled in every phase after "running".
Phases == {"new", "waiting", "running", "settled", "cleared", "refused"}

TypeOK ==
    /\ queues \in [Keys -> Pushes \cup {None}]
    /\ items \in [Pushes -> Seq(Pushes)] /\ \A o \in Pushes : Len(items[o]) <= MaxSize
    /\ running \in [Pushes -> 0..Concurrency]
    /\ drains \in [Pushes -> SUBSET Drains]
    /\ phase \in [Pushes -> Phases]
    /\ key \in [Pushes -> Keys \cup {None}]
    /\ at \in [Pushes -> Pushes \cup {None}]
    /\ drained \in [Drains -> {"new", "pending", "done"}]
    /\ covers \in [Drains -> SUBSET Pushes]

Init ==
    /\ queues = [k \in Keys |-> None]
    /\ items = [o \in Pushes |-> <<>>]
    /\ running = [o \in Pushes |-> 0]
    /\ drains = [o \in Pushes |-> {}]
    /\ phase = [p \in Pushes |-> "new"]
    /\ key = [p \in Pushes |-> None]
    /\ at = [p \in Pushes |-> None]
    /\ drained = [d \in Drains |-> "new"]
    /\ covers = [d \in Drains |-> {}]

Unfinished == {p \in Pushes : phase[p] \in {"waiting", "running"}}

-----------------------------------------------------------------------------
\* (mutant: one task is started at a time, whatever the limit)
StartableOne(waiting, active) ==
    IF waiting # <<>> /\ active = 0 THEN 1 ELSE 0

\* (mutant: the limit is exceeded by one)
StartableOneMore(waiting, active) ==
    IF Len(waiting) <= Concurrency + 1 - active THEN Len(waiting) ELSE Concurrency + 1 - active

\* while (q.running < concurrency && q.items.length > 0): how many tasks
\* process() shifts off waiting when active tasks are running.
Startable(waiting, active) ==
    IF active >= Concurrency THEN 0
    ELSE IF Len(waiting) <= Concurrency - active THEN Len(waiting)
                                                 ELSE Concurrency - active

\* (mutant: pop() instead of shift())
StartLast(o, waiting, active, before) ==
    LET n == Startable(waiting, active)
        left == Len(waiting) - n
    IN  /\ items' = [items EXCEPT ![o] = SubSeq(waiting, 1, left)]
        /\ running' = [running EXCEPT ![o] = active + n]
        /\ phase' = [p \in Pushes |->
                        IF \E i \in left + 1..Len(waiting) : waiting[i] = p THEN "running"
                        ELSE before[p]]

\* process() on o, given its items, its running count and the phases so far.
Start(o, waiting, active, before) ==
    LET n == Startable(waiting, active)
    IN  /\ items' = [items EXCEPT ![o] = SubSeq(waiting, n + 1, Len(waiting))]
        /\ running' = [running EXCEPT ![o] = active + n]
        /\ phase' = [p \in Pushes |-> IF \E i \in 1..n : waiting[i] = p THEN "running"
                                      ELSE before[p]]

\* q.items.length >= maxSize
Full(o) == Len(items[o]) >= MaxSize

Push(p, k) ==
    LET o == IF queues[k] = None THEN p ELSE queues[k]
    IN  /\ phase[p] = "new" /\ \A q \in Pushes : q < p => phase[q] # "new"
        /\ queues' = [queues EXCEPT ![k] = o]
        /\ key' = [key EXCEPT ![p] = k]
        /\ IF Full(o)
           THEN /\ phase' = [phase EXCEPT ![p] = "refused"]
                /\ UNCHANGED <<items, running, at>>
           ELSE /\ at' = [at EXCEPT ![p] = o]
                /\ Start(o, Append(items[o], p), running[o], [phase EXCEPT ![p] = "waiting"])
    /\ UNCHANGED <<drains, drained, covers>>

\* (mutant: the object is dropped although tasks of it are running)
IdleWhenNothingWaits(waiting, active) == waiting = <<>>

\* (mutant: the object is never dropped)
IdleNever(waiting, active) == FALSE

\* q.running === 0 && q.items.length === 0
Idle(waiting, active) == active = 0 /\ waiting = <<>>

\* cleanup(): the objects of idle leave the registry and their drains resolve;
\* a drain of several keys is done when its last one is.
Cleanup(idle) ==
    /\ queues' = [k \in Keys |-> IF queues[k] \in idle THEN None ELSE queues[k]]
    /\ drains' = [o \in Pushes |-> IF o \in idle THEN {} ELSE drains[o]]
    /\ drained' = [d \in Drains |->
                      IF /\ drained[d] = "pending"
                         /\ \A o \in Pushes : d \in drains[o] => o \in idle
                      THEN "done" ELSE drained[d]]

\* A task ends, with a value or an error.  A running task's object is the
\* registered one (RunningOnRegistered), so process(key) and cleanup(key) find it.
Settle(p) ==
    LET o == at[p]
        active == running[o] - 1
        n == Startable(items[o], active)
    IN  /\ phase[p] = "running"
        /\ IF queues[key[p]] = o
           THEN /\ Start(o, items[o], active, [phase EXCEPT ![p] = "settled"])
                /\ Cleanup(IF Idle(SubSeq(items[o], n + 1, Len(items[o])), active + n)
                           THEN {o} ELSE {})
           ELSE /\ running' = [running EXCEPT ![o] = active]
                /\ phase' = [phase EXCEPT ![p] = "settled"]
                /\ UNCHANGED <<queues, items, drains, drained>>
        /\ UNCHANGED <<key, at, covers>>

Registered(ks) == {queues[k] : k \in ks} \ {None}

\* clear() of one key or of all: what waits is rejected, what runs goes on.
Clear(ks) ==
    LET cleared == Registered(ks)
    IN  /\ phase' = [p \in Pushes |->
                        IF phase[p] = "waiting" /\ at[p] \in cleared THEN "cleared" ELSE phase[p]]
        /\ items' = [o \in Pushes |-> IF o \in cleared THEN <<>> ELSE items[o]]
        /\ Cleanup({o \in cleared : Idle(<<>>, running[o])})
        /\ UNCHANGED <<running, key, at, covers>>

\* (mutant: a drain only looks at what waits)
BusyWaiting(o) == items[o] # <<>>

Busy(o) == items[o] # <<>> \/ running[o] # 0

\* drain() of one key or of all: resolved at once, or when the objects the
\* keys have now are dropped.
Drain(d, ks) ==
    LET busy == {o \in Registered(ks) : Busy(o)}
    IN  /\ drained[d] = "new" /\ \A e \in Drains : e < d => drained[e] # "new"
        /\ drained' = [drained EXCEPT ![d] = IF busy = {} THEN "done" ELSE "pending"]
        /\ drains' = [o \in Pushes |-> IF o \in busy THEN drains[o] \cup {d} ELSE drains[o]]
        /\ covers' = [covers EXCEPT ![d] = {p \in Unfinished : key[p] \in ks}]
        /\ UNCHANGED <<queues, items, running, phase, key, at>>

\* The arguments of clear() and drain(): one key, or none for all of them.
KeyChoices == {{k} : k \in Keys} \cup {Keys}

Next ==
    \/ \E p \in Pushes, k \in Keys : Push(p, k)
    \/ \E p \in Pushes : Settle(p)
    \/ \E ks \in KeyChoices : Clear(ks)
    \/ \E d \in Drains, ks \in KeyChoices : Drain(d, ks)

Spec == Init /\ [][Next]_vars

\* Every task settles at some time.
FairSpec == Spec /\ \A p \in Pushes : WF_vars(Settle(p))

-----------------------------------------------------------------------------
Running(k) == {p \in Pushes : phase[p] = "running" /\ key[p] = k}

\* A task that runs or waits belongs to the object that is registered for its
\* key: process(key) and cleanup(key), which look the key up again after the
\* task's await, find the object the task was counted in.
RunningOnRegistered == \A p \in Unfinished : queues[key[p]] = at[p]

\* A task waits only while the limit is used up by running ones: no slot is
\* idle and no task is forgotten in a queue that nothing will process again.
NoIdleSlot ==
    \A p \in Pushes : phase[p] = "waiting" =>
        /\ \E i \in DOMAIN items[at[p]] : items[at[p]][i] = p
        /\ Cardinality(Running(key[p])) = Concurrency

\* A drain resolves only when everything that was unfinished when it was made
\* has been settled.
DrainIsSound ==
    \A d \in Drains : drained[d] = "done" => covers[d] \cap Unfinished = {}

\* The books of every queue, at every moment.
Sound == TypeOK /\ RunningOnRegistered /\ NoIdleSlot /\ DrainIsSound

\* "Tasks with the same key are dequeued in order": a task never starts while
\* one that was queued before it still waits.
StartedInOrder ==
    [][\A o \in Pushes : \A i, j \in DOMAIN items[o] :
          i < j /\ phase'[items[o][j]] = "running" => phase'[items[o][i]] # "waiting"]_vars

\* Every drain resolves, also when clear() or later pushes cut in.
DrainsResolve == \A d \in Drains : drained[d] = "pending" ~> drained[d] = "done"
=============================================================================
