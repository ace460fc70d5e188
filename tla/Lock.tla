-------------------------------- MODULE Lock --------------------------------
(***************************************************************************)
(* The per-key lock (plugins/lock/server.js).  The registry maps a key to  *)
(* a state object {running, queue}; withLock finds or creates it, runs fn  *)
(* at once or queues a waiter, and the end of a holder's fn promotes the   *)
(* next waiter that has not been cancelled.  Timers and clear() cancel     *)
(* waiters behind the holder's back, and clear() empties the registry      *)
(* while holders are still running on the objects it forgets.              *)
(*                                                                         *)
(* A state object is named by the call that created it.                    *)
(***************************************************************************)
EXTENDS Integers, Sequences, FiniteSets

CONSTANTS Calls,       \* calls of withLock, each made at most once
          Keys,        \* lock keys
          MaxKeys,     \* maxKeys
          MaxWaiters,  \* maxWaitersPerKey
          MaxClears,   \* bound: how often clear() is called
          None

ASSUME ConstantsOK ==
    /\ MaxKeys \in Nat \ {0} /\ MaxWaiters \in Nat \ {0} /\ MaxClears \in Nat
    /\ None \notin Calls /\ None \notin Keys

VARIABLES states,   \* states[k]: the object registered for k, None if there is none
          running,  \* running[s]: the object's running flag
          queue,    \* queue[s]: the object's waiters, in arrival order
          phase,    \* phase[c]: how far the call has come
          key,      \* key[c]: the key it asked for
          at,       \* at[c]: the state object it holds or waits on
          timer,    \* the calls whose maxWaitMs timer is armed
          clears    \* how often clear() ran

vars == <<states, running, queue, phase, key, at, timer, clears>>

\* "held" and "waiting" are the live phases; the caller's promise is pending
\* in these two and settled in every later one.
Phases == {"new", "held", "waiting", "done", "timeout", "cleared", "full", "keys"}

TypeOK ==
    /\ states \in [Keys -> Calls \cup {None}]
    /\ running \in [Calls -> BOOLEAN]
    /\ queue \in [Calls -> Seq(Calls)]
    /\ phase \in [Calls -> Phases]
    /\ key \in [Calls -> Keys \cup {None}]
    /\ at \in [Calls -> Calls \cup {None}]
    /\ timer \in SUBSET {c \in Calls : phase[c] = "waiting"}
    /\ clears \in 0..MaxClears

Init ==
    /\ states = [k \in Keys |-> None]
    /\ running = [s \in Calls |-> FALSE]
    /\ queue = [s \in Calls |-> <<>>]
    /\ phase = [c \in Calls |-> "new"]
    /\ key = [c \in Calls |-> None]
    /\ at = [c \in Calls |-> None]
    /\ timer = {}
    /\ clears = 0

-----------------------------------------------------------------------------
\* states.size
Size == Cardinality({k \in Keys : states[k] # None})

\* withLock on an unknown key: a new object, held at once.
AcquireNew(c, k) ==
    /\ phase[c] = "new" /\ states[k] = None
    /\ Size < MaxKeys
    /\ states' = [states EXCEPT ![k] = c]
    /\ running' = [running EXCEPT ![c] = TRUE]
    /\ phase' = [phase EXCEPT ![c] = "held"]
    /\ key' = [key EXCEPT ![c] = k]
    /\ at' = [at EXCEPT ![c] = c]
    /\ UNCHANGED <<queue, timer, clears>>

\* ... or a rejection when the registry is full.
RefuseKey(c, k) ==
    /\ phase[c] = "new" /\ states[k] = None
    /\ Size >= MaxKeys
    /\ phase' = [phase EXCEPT ![c] = "keys"]
    /\ key' = [key EXCEPT ![c] = k]
    /\ UNCHANGED <<states, running, queue, at, timer, clears>>

\* withLock on a key that is in use: a waiter at the end of the queue, with a
\* timer when the caller gave maxWaitMs.  A registered object is always
\* running, so the branch that takes an idle registered object is never taken
\* (RegisteredIsRunning).
Wait(c, k, bounded) ==
    /\ phase[c] = "new" /\ states[k] # None
    /\ running[states[k]]
    /\ Len(queue[states[k]]) < MaxWaiters
    /\ queue' = [queue EXCEPT ![states[k]] = Append(@, c)]
    /\ phase' = [phase EXCEPT ![c] = "waiting"]
    /\ key' = [key EXCEPT ![c] = k]
    /\ at' = [at EXCEPT ![c] = states[k]]
    /\ timer' = IF bounded THEN timer \cup {c} ELSE timer
    /\ UNCHANGED <<states, running, clears>>

\* ... or LOCK_QUEUE_FULL.  The queue's length counts cancelled waiters too.
RefuseWaiter(c, k) ==
    /\ phase[c] = "new" /\ states[k] # None
    /\ running[states[k]]
    /\ Len(queue[states[k]]) >= MaxWaiters
    /\ phase' = [phase EXCEPT ![c] = "full"]
    /\ key' = [key EXCEPT ![c] = k]
    /\ UNCHANGED <<states, running, queue, at, timer, clears>>

-----------------------------------------------------------------------------
\* The timer fires: the waiter is marked cancelled and its caller rejected;
\* it stays in the queue until a holder's advance() shifts it.
Timeout(c) ==
    /\ c \in timer
    /\ phase[c] = "waiting"
    /\ phase' = [phase EXCEPT ![c] = "timeout"]
    /\ timer' = timer \ {c}
    /\ UNCHANGED <<states, running, queue, key, at, clears>>

\* The waiter at i is the first that is not cancelled.
NextLive(s, i) ==
    /\ i \in DOMAIN queue[s] /\ phase[queue[s][i]] = "waiting"
    /\ \A j \in 1..i-1 : phase[queue[s][j]] # "waiting"

\* (mutant: a cancelled waiter at the head ends the search)
NoLiveHead(s) == queue[s] # <<>> => phase[queue[s][1]] # "waiting"

NoLive(s) == \A i \in DOMAIN queue[s] : phase[queue[s][i]] # "waiting"

\* advance() at the end of an empty queue: the flag, and states.delete(key),
\* which asks for the key and not for this object.
Release(k, s) ==
    /\ running' = [running EXCEPT ![s] = FALSE]
    /\ states' = [states EXCEPT ![k] = None]

\* (mutant: the key is released although a waiter was promoted)
PromoteAndRelease(c) ==
    /\ phase[c] = "held"
    /\ LET s == at[c]
       IN  \E i \in 1..Len(queue[s]) :
              /\ NextLive(s, i)
              /\ queue' = [queue EXCEPT ![s] = SubSeq(@, i + 1, Len(@))]
              /\ phase' = [phase EXCEPT ![c] = "done", ![queue[s][i]] = "held"]
              /\ timer' = timer \ {queue[s][i]}
    /\ states' = [states EXCEPT ![key[c]] = None]
    /\ UNCHANGED <<running, key, at, clears>>

\* (mutant: the promoted waiter keeps its timer)
PromoteKeepsTimer(c) ==
    /\ phase[c] = "held"
    /\ LET s == at[c]
       IN  \E i \in 1..Len(queue[s]) :
              /\ NextLive(s, i)
              /\ queue' = [queue EXCEPT ![s] = SubSeq(@, i + 1, Len(@))]
              /\ phase' = [phase EXCEPT ![c] = "done", ![queue[s][i]] = "held"]
    /\ UNCHANGED <<states, running, key, at, timer, clears>>

\* fn settles and runHead's finally calls advance(): the next live waiter is
\* promoted and its timer cleared ...
FinishAndPromote(c) ==
    /\ phase[c] = "held"
    /\ LET s == at[c]
       IN  \E i \in 1..Len(queue[s]) :
              /\ NextLive(s, i)
              /\ queue' = [queue EXCEPT ![s] = SubSeq(@, i + 1, Len(@))]
              /\ phase' = [phase EXCEPT ![c] = "done", ![queue[s][i]] = "held"]
              /\ timer' = timer \ {queue[s][i]}
    /\ UNCHANGED <<states, running, key, at, clears>>

\* ... or the queue is shifted empty and the key released.
FinishAndRelease(c) ==
    /\ phase[c] = "held"
    /\ NoLive(at[c])
    /\ Release(key[c], at[c])
    /\ queue' = [queue EXCEPT ![at[c]] = <<>>]
    /\ phase' = [phase EXCEPT ![c] = "done"]
    /\ UNCHANGED <<key, at, timer, clears>>

\* The waiters clear() rejects: every live one of a registered object.
Cleared == {c \in Calls : phase[c] = "waiting" /\ \E k \in Keys : states[k] = at[c]}

\* clear(): reject them, forget every object, touch no holder.
Clear ==
    /\ clears < MaxClears
    /\ phase' = [c \in Calls |-> IF c \in Cleared THEN "cleared" ELSE phase[c]]
    /\ timer' = timer \ Cleared
    /\ states' = [k \in Keys |-> None]
    /\ clears' = clears + 1
    /\ UNCHANGED <<running, queue, key, at>>

-----------------------------------------------------------------------------
CallStep(c) ==
    \/ \E k \in Keys : AcquireNew(c, k) \/ RefuseKey(c, k) \/ RefuseWaiter(c, k)
    \/ \E k \in Keys, bounded \in BOOLEAN : Wait(c, k, bounded)
    \/ Timeout(c)
    \/ FinishAndPromote(c)
    \/ FinishAndRelease(c)

Next == Clear \/ \E c \in Calls : CallStep(c)

\* A holder's fn settles in the end: the lock bounds no hold time, and its
\* documentation leaves that to the caller.
Fairness == \A c \in Calls : WF_vars(FinishAndPromote(c) \/ FinishAndRelease(c))

Spec == Init /\ [][Next]_vars

FairSpec == Spec /\ Fairness

-----------------------------------------------------------------------------
\* A state object never has two holders, and has one while it runs: promotion
\* and acquisition cannot both win, also when a clear() or a timer cut in.
OneHolder ==
    \A s \in Calls :
        /\ running[s] <=> \E c \in Calls : phase[c] = "held" /\ at[c] = s
        /\ \A c, d \in Calls :
              /\ phase[c] = "held" /\ phase[d] = "held"
              /\ at[c] = s /\ at[d] = s
              => c = d

\* Mutual exclusion per key, as long as clear() has not been used.
Exclusive ==
    clears = 0 =>
        \A c, d \in Calls :
            phase[c] = "held" /\ phase[d] = "held" /\ key[c] = key[d] => c = d

\* The lock's bookkeeping: types, and mutual exclusion.
Sound == TypeOK /\ Exclusive

\* No lost waiter: a caller whose promise is pending in a queue stands in the
\* queue of an object that runs, so a promotion will come past it.
NoWaiterLost ==
    \A c \in Calls :
        phase[c] = "waiting" =>
            /\ running[at[c]]
            /\ \E i \in DOMAIN queue[at[c]] : queue[at[c]][i] = c

\* held(key) and size() do not leak: a registered object is running, and it
\* is the object of a holder of that very key.
RegisteredIsRunning ==
    \A k \in Keys : states[k] # None => running[states[k]] /\ key[states[k]] = k

\* maxWaitersPerKey bounds every queue.
QueueBounded == \A s \in Calls : Len(queue[s]) <= MaxWaiters

\* A caller that has been given an answer never gets a second one: no timer,
\* promotion or clear() reaches a settled call again.
SettledOnce ==
    [][\A c \in Calls : phase[c] \notin {"new", "held", "waiting"}
                            => phase'[c] = phase[c]]_vars

\* Arrival order: a waiter is only promoted when no live waiter stands before it.
FirstComeFirstServed ==
    [][\A s \in Calls : \A i, j \in DOMAIN queue[s] :
          /\ i < j
          /\ phase[queue[s][i]] = "waiting"
          /\ phase[queue[s][j]] = "waiting"
          => phase'[queue[s][j]] # "held"]_vars
=============================================================================
