------------------------------ MODULE FifoMutex ------------------------------
(***************************************************************************)
(* What "run one at a time in FIFO order" promises: a line of callers for  *)
(* every lock.  Who has nobody ahead holds the lock; a caller joins behind *)
(* all of the line, callers that are not first may leave, and the first    *)
(* leaves when it has finished.                                            *)
(***************************************************************************)

CONSTANTS Callers, Locks, None

VARIABLES place,   \* place[c]: the lock whose line c stands in, None if in no line
          ahead    \* pairs of callers of one line, the first before the second

line == <<place, ahead>>

First(c) == place[c] # None /\ \A d \in Callers : <<d, c>> \notin ahead

Leave(leavers) ==
    /\ place' = [c \in Callers |-> IF c \in leavers THEN None ELSE place[c]]
    /\ ahead' = {p \in ahead : p[1] \notin leavers /\ p[2] \notin leavers}

Init ==
    /\ place = [c \in Callers |-> None]
    /\ ahead = {}

Join(c, k) ==
    /\ place[c] = None
    /\ place' = [place EXCEPT ![c] = k]
    /\ ahead' = ahead \cup {<<d, c>> : d \in {e \in Callers : place[e] = k}}

\* Waiters of any lines give up together: nobody else moves past anybody.
GiveUp(leavers) ==
    /\ \A c \in leavers : place[c] # None /\ ~First(c)
    /\ Leave(leavers)

Finish(k) ==
    \E c \in Callers : place[c] = k /\ First(c) /\ Leave({c})

Next ==
    \/ \E c \in Callers, k \in Locks : Join(c, k)
    \/ \E leavers \in SUBSET Callers : GiveUp(leavers)
    \/ \E k \in Locks : Finish(k)

Safety == Init /\ [][Next]_line

\* Every holder finishes, so every caller comes to be first or gives up.
Spec == Safety /\ \A k \in Locks : WF_line(Finish(k))
=============================================================================
