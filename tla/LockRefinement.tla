--------------------------- MODULE LockRefinement ---------------------------
(***************************************************************************)
(* Every state object of the lock plugin is one line of callers, whatever  *)
(* timers and clear() do; the registry gives a key one object at a time.   *)
(***************************************************************************)
EXTENDS Lock

\* The object in whose line the call stands: it holds it, or waits and is not cancelled.
Place(c) == IF phase[c] \in {"held", "waiting"} THEN at[c] ELSE None

\* c waits before d in the queue of s.
Earlier(s, c, d) ==
    \E i, j \in DOMAIN queue[s] : i < j /\ queue[s][i] = c /\ queue[s][j] = d

\* The line of an object: its holder, then its waiters in the order of the queue.
StandsBefore(c, d) ==
    /\ phase[d] = "waiting"
    /\ Place(c) = at[d]
    /\ phase[c] = "held" \/ Earlier(at[d], c, d)

Line == INSTANCE FifoMutex
            WITH Callers <- Calls, Locks <- Calls,
                 place <- [c \in Calls |-> Place(c)],
                 ahead <- {p \in Calls \X Calls : StandsBefore(p[1], p[2])}

\* withLock implements the line: one holder at a time, arrival order, timeouts
\* and clear() that move nobody else, and a turn for everyone who stays.
ImplementsLine == Line!Spec
=============================================================================
