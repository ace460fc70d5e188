----------------------------- MODULE LockProofs -----------------------------
(***************************************************************************)
(* Proofs about Lock: the safety properties of the lock for any number of  *)
(* calls, keys, waiters and clear()s, and that its steps are steps of the  *)
(* lines of callers of FifoMutex. Then about the plugins that keep to a    *)
(* limit, RateLimit, TtlMap and Throttle, for any limit.                   *)
(***************************************************************************)
EXTENDS MCLock, FiniteSetTheorems, SequenceTheorems, MapOrderProofs, TLAPS

Active(c) == phase[c] \in {"held", "waiting"}

\* A live call knows its key and its object, and the object is of that key.
Anchored ==
    \A c \in Calls :
        Active(c) => /\ key[c] \in Keys
                     /\ at[c] \in Calls
                     /\ key[at[c]] = key[c]

\* A call that has not been made is nobody's object and stands in no queue.
FreshUnused ==
    \A c \in Calls :
        phase[c] = "new" =>
            /\ ~running[c]
            /\ queue[c] = <<>>
            /\ \A d \in Calls : Active(d) => at[d] # c
            /\ \A s \in Calls : \A i \in DOMAIN queue[s] : queue[s][i] # c

\* A queue holds each call at most once, and a waiting one only on its object.
QueueProper ==
    \A s \in Calls : \A i \in DOMAIN queue[s] :
        /\ phase[queue[s][i]] = "waiting" => at[queue[s][i]] = s
        /\ \A j \in DOMAIN queue[s] : queue[s][i] = queue[s][j] => i = j

\* Before the first clear() every running object is the registered one.
RunningIsRegistered ==
    clears = 0 => \A s \in Calls : running[s] => key[s] \in Keys /\ states[key[s]] = s

IInv ==
    /\ TypeOK
    /\ Anchored
    /\ FreshUnused
    /\ QueueProper
    /\ RunningIsRegistered
    /\ OneHolder
    /\ NoWaiterLost
    /\ RegisteredIsRunning
    /\ QueueBounded

LEMMA AcquireNewKeeps ==
    ASSUME IInv, NEW c \in Calls, NEW k \in Keys, AcquireNew(c, k)
    PROVE  IInv'
<1> USE DEF IInv
<1>1. TypeOK'
  BY ConstantsOK DEF AcquireNew, TypeOK, Phases
<1>2. Anchored'
  BY ConstantsOK DEF AcquireNew, Anchored, TypeOK, Active, Anchored, FreshUnused
<1>3. FreshUnused'
  BY ConstantsOK DEF AcquireNew, FreshUnused, TypeOK, Active, Anchored, FreshUnused
<1>4. QueueProper'
  BY ConstantsOK DEF AcquireNew, QueueProper, TypeOK, Active, Anchored, FreshUnused
<1>5. RunningIsRegistered'
  BY ConstantsOK DEF AcquireNew, RunningIsRegistered, TypeOK, Active, Anchored, FreshUnused
<1>6. OneHolder'
  BY ConstantsOK DEF AcquireNew, OneHolder, TypeOK, Active, Anchored, FreshUnused
<1>7. NoWaiterLost'
  BY ConstantsOK DEF AcquireNew, NoWaiterLost, TypeOK, Active, Anchored, FreshUnused
<1>8. RegisteredIsRunning'
  BY ConstantsOK DEF AcquireNew, RegisteredIsRunning, TypeOK, Active, Anchored, FreshUnused
<1>9. QueueBounded'
  BY ConstantsOK DEF AcquireNew, QueueBounded, TypeOK, Active, Anchored, FreshUnused
<1> QED
  BY <1>1, <1>2, <1>3, <1>4, <1>5, <1>6, <1>7, <1>8, <1>9

LEMMA RefuseKeeps ==
    ASSUME IInv, NEW c \in Calls, NEW k \in Keys, RefuseKey(c, k) \/ RefuseWaiter(c, k)
    PROVE  IInv'
<1> USE DEF IInv
<1>0. PICK p \in {"keys", "full"} :
        /\ phase[c] = "new"
        /\ phase' = [phase EXCEPT ![c] = p]
        /\ key' = [key EXCEPT ![c] = k]
        /\ UNCHANGED <<states, running, queue, at, timer, clears>>
  BY DEF RefuseKey, RefuseWaiter
<1>1. TypeOK'
  BY <1>0 DEF TypeOK, Phases
<1>2. \A d \in Calls : Active(d)' => Active(d) /\ d # c /\ at[d] # c
  BY <1>0 DEF Active, TypeOK, FreshUnused
<1>3. Anchored'
  BY <1>0, <1>2 DEF Anchored, Active, TypeOK
<1>4. FreshUnused'
  BY <1>0, <1>2 DEF FreshUnused, TypeOK, Active
<1>5. QueueProper'
  BY <1>0 DEF QueueProper, TypeOK
<1>6. ~running[c]
  BY <1>0 DEF FreshUnused
<1>7. RunningIsRegistered'
  BY <1>0, <1>6 DEF RunningIsRegistered, TypeOK
<1>8. \A d \in Calls : (phase'[d] = "held" <=> phase[d] = "held")
                       /\ (phase'[d] = "waiting" <=> phase[d] = "waiting")
  BY <1>0 DEF TypeOK
<1>9. OneHolder'
  BY <1>0, <1>8 DEF OneHolder
<1>10. NoWaiterLost'
  BY <1>0, <1>8 DEF NoWaiterLost
<1>11. RegisteredIsRunning'
  BY <1>0, <1>6 DEF RegisteredIsRunning, TypeOK
<1>12. QueueBounded'
  BY <1>0 DEF QueueBounded
<1> QED
  BY <1>1, <1>3, <1>4, <1>5, <1>7, <1>9, <1>10, <1>11, <1>12

LEMMA WaitKeeps ==
    ASSUME IInv, NEW c \in Calls, NEW k \in Keys, NEW b \in BOOLEAN, Wait(c, k, b)
    PROVE  IInv'
<1> USE DEF IInv
<1> DEFINE s == states[k]
           n == Len(queue[s]) + 1
<1>1. s \in Calls /\ phase[c] = "new" /\ running[s] /\ key[s] = k /\ s # c
  BY DEF Wait, TypeOK, RegisteredIsRunning, FreshUnused
<1>2. /\ phase' = [phase EXCEPT ![c] = "waiting"]
      /\ key' = [key EXCEPT ![c] = k]
      /\ at' = [at EXCEPT ![c] = s]
      /\ queue' = [queue EXCEPT ![s] = Append(@, c)]
      /\ UNCHANGED <<states, running, clears>>
  BY DEF Wait
<1>3. Len(queue[s]) < MaxWaiters /\ n \in Nat \ {0}
  BY <1>1 DEF Wait, TypeOK
<1>4. /\ DOMAIN queue'[s] = 1..n
      /\ queue'[s][n] = c
      /\ \A i \in DOMAIN queue[s] : i \in 1..n /\ i # n /\ queue'[s][i] = queue[s][i]
      /\ \A i \in 1..n : i = n \/ i \in DOMAIN queue[s]
      /\ Len(queue'[s]) = n
  BY <1>1, <1>2 DEF TypeOK
<1>5. \A r \in Calls : r # s => queue'[r] = queue[r]
  BY <1>2 DEF TypeOK
<1>6. \A i \in DOMAIN queue[s] : queue[s][i] # c
  BY <1>1 DEF FreshUnused
<1>7. TypeOK'
  BY ConstantsOK, <1>1 DEF Wait, TypeOK, Phases
<1>8. Anchored'
  <2> SUFFICES ASSUME NEW d \in Calls, Active(d)'
               PROVE  key'[d] \in Keys /\ at'[d] \in Calls /\ key'[at'[d]] = key'[d]
    BY DEF Anchored
  <2>1. CASE d = c
    BY <2>1, <1>1, <1>2 DEF TypeOK
  <2>2. CASE d # c
    <3>1. Active(d) /\ at[d] # c
      BY <2>2, <1>1, <1>2 DEF Active, TypeOK, FreshUnused
    <3> QED
      BY <2>2, <3>1, <1>2 DEF Anchored, TypeOK
  <2> QED
    BY <2>1, <2>2
<1>9. FreshUnused'
  <2> SUFFICES ASSUME NEW d \in Calls, phase'[d] = "new"
               PROVE  /\ ~running'[d]
                      /\ queue'[d] = <<>>
                      /\ \A e \in Calls : Active(e)' => at'[e] # d
                      /\ \A r \in Calls : \A i \in DOMAIN queue'[r] : queue'[r][i] # d
    BY DEF FreshUnused
  <2>1. d # c /\ phase[d] = "new" /\ d # s
    BY <1>1, <1>2 DEF TypeOK, FreshUnused
  <2>2. ~running'[d] /\ queue'[d] = <<>>
    BY <1>2, <2>1 DEF TypeOK, FreshUnused
  <2>3. \A e \in Calls : Active(e)' => at'[e] # d
    BY <1>1, <1>2, <2>1 DEF TypeOK, FreshUnused, Active
  <2>4. \A r \in Calls : \A i \in DOMAIN queue'[r] : queue'[r][i] # d
    BY <1>4, <1>5, <2>1 DEF FreshUnused
  <2> QED
    BY <2>2, <2>3, <2>4
<1>10. QueueProper'
  <2> SUFFICES ASSUME NEW r \in Calls, NEW i \in DOMAIN queue'[r]
               PROVE  /\ phase'[queue'[r][i]] = "waiting" => at'[queue'[r][i]] = r
                      /\ \A j \in DOMAIN queue'[r] : queue'[r][i] = queue'[r][j] => i = j
    BY DEF QueueProper
  <2>1. CASE r # s
    <3>1. queue'[r] = queue[r]
      BY <1>5, <2>1
    <3>2. queue[r][i] \in Calls /\ queue[r][i] # c
      BY <1>1, <3>1 DEF FreshUnused, TypeOK
    <3>3. phase'[queue[r][i]] = phase[queue[r][i]] /\ at'[queue[r][i]] = at[queue[r][i]]
      BY <1>2, <3>2 DEF TypeOK
    <3> QED
      BY <3>1, <3>3 DEF QueueProper
  <2>2. CASE r = s /\ i = n
    BY <1>1, <1>2, <1>4, <1>6, <2>2 DEF TypeOK
  <2>3. CASE r = s /\ i # n
    <3>1. i \in DOMAIN queue[s] /\ queue'[s][i] = queue[s][i]
      BY <1>4, <2>3
    <3>2. queue[s][i] \in Calls /\ queue[s][i] # c
      BY <1>1, <1>6, <3>1 DEF TypeOK
    <3>3. phase'[queue[s][i]] = phase[queue[s][i]] /\ at'[queue[s][i]] = at[queue[s][i]]
      BY <1>2, <3>2 DEF TypeOK
    <3>4. phase'[queue'[s][i]] = "waiting" => at'[queue'[s][i]] = s
      BY <1>1, <3>1, <3>3 DEF QueueProper
    <3>5. \A j \in 1..n : queue'[s][i] = queue'[s][j] => i = j
      <4> SUFFICES ASSUME NEW j \in 1..n, queue'[s][i] = queue'[s][j] PROVE i = j
        OBVIOUS
      <4>1. j \in DOMAIN queue[s] /\ queue[s][i] = queue[s][j]
        BY <1>4, <3>1, <3>2
      <4> QED
        BY <1>1, <3>1, <4>1 DEF QueueProper
    <3> QED
      BY <1>4, <2>3, <3>4, <3>5
  <2> QED
    BY <2>1, <2>2, <2>3
<1>11. RunningIsRegistered'
  BY <1>1, <1>2 DEF RunningIsRegistered, TypeOK, FreshUnused
<1>12. OneHolder'
  BY <1>1, <1>2 DEF OneHolder, TypeOK
<1>13. NoWaiterLost'
  <2> SUFFICES ASSUME NEW d \in Calls, phase'[d] = "waiting"
               PROVE  running'[at'[d]]
                      /\ \E i \in DOMAIN queue'[at'[d]] : queue'[at'[d]][i] = d
    BY DEF NoWaiterLost
  <2>1. CASE d = c
    BY <1>1, <1>2, <1>3, <1>4, <2>1 DEF TypeOK
  <2>2. CASE d # c
    <3>1. phase[d] = "waiting" /\ at'[d] = at[d] /\ at[d] \in Calls
      BY <1>2, <2>2 DEF TypeOK, Anchored, Active
    <3>2. running[at[d]] /\ \E i \in DOMAIN queue[at[d]] : queue[at[d]][i] = d
      BY <3>1 DEF NoWaiterLost
    <3> QED
      BY <1>2, <1>4, <1>5, <3>1, <3>2
  <2> QED
    BY <2>1, <2>2
<1>14. RegisteredIsRunning'
  BY <1>1, <1>2 DEF RegisteredIsRunning, TypeOK, FreshUnused
<1>15. QueueBounded'
  BY <1>3, <1>4, <1>5, ConstantsOK DEF QueueBounded
<1> QED
  BY <1>7, <1>8, <1>9, <1>10, <1>11, <1>12, <1>13, <1>14, <1>15

LEMMA TimeoutKeeps ==
    ASSUME IInv, NEW c \in Calls, Timeout(c)
    PROVE  IInv'
<1> USE DEF IInv
<1>1. TypeOK'
  BY ConstantsOK DEF Timeout, TypeOK, Phases
<1>2. Anchored'
  BY ConstantsOK DEF Timeout, Anchored, TypeOK, Active, Anchored, FreshUnused
<1>3. FreshUnused'
  BY ConstantsOK DEF Timeout, FreshUnused, TypeOK, Active, Anchored, FreshUnused
<1>4. QueueProper'
  BY ConstantsOK DEF Timeout, QueueProper, TypeOK, Active, Anchored, FreshUnused
<1>5. RunningIsRegistered'
  BY ConstantsOK DEF Timeout, RunningIsRegistered, TypeOK, Active, Anchored, FreshUnused
<1>6. OneHolder'
  BY ConstantsOK DEF Timeout, OneHolder, TypeOK, Active, Anchored, FreshUnused
<1>7. NoWaiterLost'
  BY ConstantsOK DEF Timeout, NoWaiterLost, TypeOK, Active, Anchored, FreshUnused
<1>8. RegisteredIsRunning'
  BY ConstantsOK DEF Timeout, RegisteredIsRunning, TypeOK, Active, Anchored, FreshUnused
<1>9. QueueBounded'
  BY ConstantsOK DEF Timeout, QueueBounded, TypeOK, Active, Anchored, FreshUnused
<1> QED
  BY <1>1, <1>2, <1>3, <1>4, <1>5, <1>6, <1>7, <1>8, <1>9

LEMMA PromoteKeeps ==
    ASSUME IInv, NEW c \in Calls, FinishAndPromote(c)
    PROVE  IInv'
<1> USE DEF IInv
<1> DEFINE s == at[c]
<1>1. s \in Calls /\ phase[c] = "held" /\ running[s]
  BY DEF FinishAndPromote, Anchored, Active, OneHolder
<1>2. PICK i \in 1..Len(queue[s]) :
        /\ NextLive(s, i)
        /\ queue' = [queue EXCEPT ![s] = SubSeq(@, i + 1, Len(@))]
        /\ phase' = [phase EXCEPT ![c] = "done", ![queue[s][i]] = "held"]
        /\ timer' = timer \ {queue[s][i]}
  BY DEF FinishAndPromote
<1>3. UNCHANGED <<states, running, key, at, clears>>
  BY DEF FinishAndPromote
<1> DEFINE p == queue[s][i]
           n == Len(queue[s])
<1>4. n \in Nat /\ i \in 1..n /\ DOMAIN queue[s] = 1..n
  BY <1>1 DEF TypeOK
<1>5. p \in Calls /\ phase[p] = "waiting" /\ p # c /\ at[p] = s
  BY <1>1, <1>2, <1>4 DEF TypeOK, NextLive, QueueProper
<1>6. \A j \in 1..i-1 : phase[queue[s][j]] # "waiting"
  BY <1>2 DEF NextLive
<1>7. phase' = [d \in Calls |-> IF d = p THEN "held"
                               ELSE IF d = c THEN "done" ELSE phase[d]]
  BY <1>2, <1>5 DEF TypeOK
<1>8. \A r \in Calls : r # s => queue'[r] = queue[r]
  BY <1>2 DEF TypeOK
<1>9. /\ DOMAIN queue'[s] = 1..n-i
      /\ \A j \in 1..n-i : j + i \in 1..n /\ queue'[s][j] = queue[s][j + i]
      /\ Len(queue'[s]) = n - i
      /\ queue'[s] \in Seq(Calls)
  <2>1. queue'[s] = SubSeq(queue[s], i + 1, n)
    BY <1>1, <1>2 DEF TypeOK
  <2>2. queue[s] \in Seq(Calls)
    BY <1>1 DEF TypeOK
  <2> QED
    BY <1>4, <2>1, <2>2
<1>10. TypeOK'
  <2>1. queue' \in [Calls -> Seq(Calls)]
    BY <1>2, <1>8, <1>9 DEF TypeOK
  <2>2. phase' \in [Calls -> Phases]
    BY <1>7 DEF TypeOK, Phases
  <2>3. timer' \in SUBSET {d \in Calls : phase'[d] = "waiting"}
    BY <1>1, <1>2, <1>7 DEF TypeOK
  <2> QED
    BY <1>3, <2>1, <2>2, <2>3 DEF TypeOK
<1>11. \A d \in Calls : /\ Active(d)' => Active(d)
                        /\ phase'[d] = "waiting" => phase[d] = "waiting" /\ d # p
                        /\ phase'[d] = "new" => phase[d] = "new"
                        /\ phase'[d] = "held" => d = p \/ (d # c /\ phase[d] = "held")
  BY <1>5, <1>7 DEF Active
<1>12. Anchored'
  BY <1>3, <1>11 DEF Anchored
<1>13. FreshUnused'
  <2> SUFFICES ASSUME NEW d \in Calls, phase'[d] = "new"
               PROVE  /\ ~running'[d]
                      /\ queue'[d] = <<>>
                      /\ \A e \in Calls : Active(e)' => at'[e] # d
                      /\ \A r \in Calls : \A j \in DOMAIN queue'[r] : queue'[r][j] # d
    BY DEF FreshUnused
  <2>1. phase[d] = "new" /\ d # s
    BY <1>1, <1>11 DEF FreshUnused
  <2>2. ~running'[d] /\ queue'[d] = <<>> /\ \A e \in Calls : Active(e)' => at'[e] # d
    BY <1>3, <1>8, <1>11, <2>1 DEF FreshUnused
  <2>3. \A r \in Calls : \A j \in DOMAIN queue'[r] : queue'[r][j] # d
    <3> SUFFICES ASSUME NEW r \in Calls, NEW j \in DOMAIN queue'[r]
                 PROVE  queue'[r][j] # d
      OBVIOUS
    <3>1. CASE r # s
      BY <1>8, <2>1, <3>1 DEF FreshUnused
    <3>2. CASE r = s
      <4>1. j + i \in DOMAIN queue[s] /\ queue'[s][j] = queue[s][j + i]
        BY <1>4, <1>9, <3>2
      <4> QED
        BY <1>1, <2>1, <3>2, <4>1 DEF FreshUnused
    <3> QED
      BY <3>1, <3>2
  <2> QED
    BY <2>2, <2>3
<1>14. QueueProper'
  <2> SUFFICES ASSUME NEW r \in Calls, NEW j \in DOMAIN queue'[r]
               PROVE  /\ phase'[queue'[r][j]] = "waiting" => at'[queue'[r][j]] = r
                      /\ \A m \in DOMAIN queue'[r] : queue'[r][j] = queue'[r][m] => j = m
    BY DEF QueueProper
  <2>1. CASE r # s
    <3>1. queue'[r] = queue[r] /\ queue[r][j] \in Calls
      BY <1>8, <2>1 DEF TypeOK
    <3> QED
      BY <1>3, <1>11, <3>1 DEF QueueProper
  <2>2. CASE r = s
    <3>1. j \in 1..n-i /\ j + i \in 1..n /\ queue'[s][j] = queue[s][j + i]
      BY <1>9, <2>2
    <3>2. queue[s][j + i] \in Calls
      BY <1>1, <1>4, <3>1 DEF TypeOK
    <3>3. phase'[queue'[s][j]] = "waiting" => at'[queue'[s][j]] = s
      <4>1. phase[queue[s][j + i]] = "waiting" => at[queue[s][j + i]] = s
        BY <1>1, <1>4, <3>1 DEF QueueProper
      <4>2. phase'[queue[s][j + i]] = "waiting" => phase[queue[s][j + i]] = "waiting"
        BY <1>11, <3>2
      <4> QED
        BY <1>3, <3>1, <4>1, <4>2
    <3>4. \A m \in 1..n-i : queue'[s][j] = queue'[s][m] => j = m
      <4> SUFFICES ASSUME NEW m \in 1..n-i, queue'[s][j] = queue'[s][m] PROVE j = m
        OBVIOUS
      <4>1. m + i \in 1..n /\ queue[s][j + i] = queue[s][m + i]
        BY <1>9, <3>1
      <4>2. j + i = m + i
        BY <1>1, <1>4, <3>1, <4>1 DEF QueueProper
      <4> QED
        BY <1>4, <3>1, <4>2
    <3> QED
      BY <1>9, <2>2, <3>3, <3>4
  <2> QED
    BY <2>1, <2>2
<1>15. RunningIsRegistered'
  BY <1>3 DEF RunningIsRegistered
<1>16. OneHolder'
  <2> SUFFICES ASSUME NEW r \in Calls
               PROVE  /\ running'[r] <=> \E d \in Calls : phase'[d] = "held" /\ at'[d] = r
                      /\ \A d, e \in Calls :
                            /\ phase'[d] = "held" /\ phase'[e] = "held"
                            /\ at'[d] = r /\ at'[e] = r
                            => d = e
    BY DEF OneHolder
  <2>1. CASE r = s
    <3>1. \A d \in Calls : phase'[d] = "held" /\ at[d] = s => d = p
      BY <1>1, <1>11 DEF OneHolder
    <3>2. phase'[p] = "held" /\ at[p] = s
      BY <1>5, <1>7
    <3> QED
      BY <1>1, <1>3, <1>5, <2>1, <3>1, <3>2
  <2>2. CASE r # s
    <3>1. \A d \in Calls : at[d] = r => (phase'[d] = "held" <=> phase[d] = "held")
      BY <1>5, <1>7, <2>2
    <3> QED
      BY <1>3, <3>1 DEF OneHolder
  <2> QED
    BY <2>1, <2>2
<1>17. NoWaiterLost'
  <2> SUFFICES ASSUME NEW d \in Calls, phase'[d] = "waiting"
               PROVE  running'[at'[d]]
                      /\ \E j \in DOMAIN queue'[at'[d]] : queue'[at'[d]][j] = d
    BY DEF NoWaiterLost
  <2>1. phase[d] = "waiting" /\ d # p /\ at'[d] = at[d] /\ at[d] \in Calls
    BY <1>3, <1>11 DEF Anchored, Active
  <2>2. PICK j \in DOMAIN queue[at[d]] : queue[at[d]][j] = d
    BY <2>1 DEF NoWaiterLost
  <2>3. running'[at'[d]]
    BY <1>3, <2>1 DEF NoWaiterLost
  <2>4. CASE at[d] # s
    BY <1>8, <2>1, <2>2, <2>3, <2>4
  <2>5. CASE at[d] = s
    <3>1. j \in 1..n /\ j # i /\ ~(j < i)
      BY <1>4, <1>6, <2>1, <2>2, <2>5
    <3>2. j - i \in 1..n-i /\ (j - i) + i = j
      BY <1>4, <3>1
    <3>3. queue'[s][j - i] = d
      BY <1>9, <2>2, <2>5, <3>2
    <3> QED
      BY <1>9, <2>1, <2>3, <2>5, <3>2, <3>3
  <2> QED
    BY <2>4, <2>5
<1>18. RegisteredIsRunning'
  BY <1>3 DEF RegisteredIsRunning
<1>19. QueueBounded'
  <2> SUFFICES ASSUME NEW r \in Calls PROVE Len(queue'[r]) <= MaxWaiters
    BY DEF QueueBounded
  <2>1. CASE r # s
    BY <1>8, <2>1 DEF QueueBounded
  <2>2. CASE r = s
    BY <1>1, <1>4, <1>9, <2>2, ConstantsOK DEF QueueBounded
  <2> QED
    BY <2>1, <2>2
<1> QED
  BY <1>10, <1>12, <1>13, <1>14, <1>15, <1>16, <1>17, <1>18, <1>19

LEMMA ReleaseKeeps ==
    ASSUME IInv, NEW c \in Calls, FinishAndRelease(c)
    PROVE  IInv'
<1> USE DEF IInv
<1>0. /\ key[c] \in Keys /\ at[c] \in Calls /\ key[at[c]] = key[c]
      /\ phase[c] = "held" /\ <<>> \in Seq(Calls)
  BY DEF FinishAndRelease, Anchored, Active
<1>1. TypeOK'
  BY <1>0, ConstantsOK DEF FinishAndRelease, Release, TypeOK, Phases
<1>2. Anchored'
  BY ConstantsOK DEF FinishAndRelease, NoLive, Release, Anchored, TypeOK, Active, Anchored, FreshUnused
<1>3. FreshUnused'
  BY ConstantsOK DEF FinishAndRelease, NoLive, Release, FreshUnused, TypeOK, Active, Anchored, FreshUnused
<1>4. QueueProper'
  BY ConstantsOK DEF FinishAndRelease, NoLive, Release, QueueProper, TypeOK, Active, Anchored, FreshUnused
<1>5. RunningIsRegistered'
  <2> SUFFICES ASSUME clears = 0, NEW r \in Calls, running'[r]
               PROVE  key'[r] \in Keys /\ states'[key'[r]] = r
    BY DEF FinishAndRelease, RunningIsRegistered
  <2>1. r # at[c] /\ running[r] /\ running[at[c]]
    BY <1>0 DEF FinishAndRelease, Release, OneHolder, TypeOK
  <2>2. /\ key[r] \in Keys /\ states[key[r]] = r
        /\ states[key[at[c]]] = at[c]
    BY <1>0, <2>1 DEF RunningIsRegistered
  <2>3. key[r] # key[c]
    BY <1>0, <2>1, <2>2
  <2> QED
    BY <1>0, <2>2, <2>3 DEF FinishAndRelease, Release, TypeOK
<1>6. OneHolder'
  BY ConstantsOK DEF FinishAndRelease, NoLive, Release, OneHolder, TypeOK, Active, Anchored, FreshUnused
<1>7. NoWaiterLost'
  BY ConstantsOK DEF FinishAndRelease, NoLive, Release, NoWaiterLost, TypeOK, Active, Anchored, FreshUnused
<1>8. RegisteredIsRunning'
  BY ConstantsOK DEF FinishAndRelease, NoLive, Release, RegisteredIsRunning, TypeOK, Active, Anchored, FreshUnused
<1>9. QueueBounded'
  BY ConstantsOK DEF FinishAndRelease, NoLive, Release, QueueBounded, TypeOK, Active, Anchored, FreshUnused
<1> QED
  BY <1>1, <1>2, <1>3, <1>4, <1>5, <1>6, <1>7, <1>8, <1>9

LEMMA ClearKeeps ==
    ASSUME IInv, Clear
    PROVE  IInv'
<1> USE DEF IInv
<1>1. TypeOK'
  BY ConstantsOK DEF Clear, Cleared, TypeOK, Phases
<1>2. Anchored'
  BY ConstantsOK DEF Clear, Cleared, Anchored, TypeOK, Active, Anchored, FreshUnused
<1>3. FreshUnused'
  BY ConstantsOK DEF Clear, Cleared, FreshUnused, TypeOK, Active, Anchored, FreshUnused
<1>4. QueueProper'
  BY ConstantsOK DEF Clear, Cleared, QueueProper, TypeOK, Active, Anchored, FreshUnused
<1>5. RunningIsRegistered'
  BY ConstantsOK DEF Clear, Cleared, RunningIsRegistered, TypeOK, Active, Anchored, FreshUnused
<1>6. OneHolder'
  BY ConstantsOK DEF Clear, Cleared, OneHolder, TypeOK, Active, Anchored, FreshUnused
<1>7. NoWaiterLost'
  BY ConstantsOK DEF Clear, Cleared, NoWaiterLost, TypeOK, Active, Anchored, FreshUnused
<1>8. RegisteredIsRunning'
  BY ConstantsOK DEF Clear, Cleared, RegisteredIsRunning, TypeOK, Active, Anchored, FreshUnused
<1>9. QueueBounded'
  BY ConstantsOK DEF Clear, Cleared, QueueBounded, TypeOK, Active, Anchored, FreshUnused
<1> QED
  BY <1>1, <1>2, <1>3, <1>4, <1>5, <1>6, <1>7, <1>8, <1>9
LEMMA IInvInit == Init => IInv
<1> SUFFICES ASSUME Init PROVE IInv
  OBVIOUS
<1>1. <<>> \in Seq(Calls) /\ DOMAIN <<>> = {} /\ Len(<<>>) = 0
  OBVIOUS
<1>2. TypeOK
  BY <1>1, ConstantsOK DEF Init, TypeOK, Phases
<1>3. QueueBounded
  BY <1>1, ConstantsOK DEF Init, QueueBounded
<1>4. \A s \in Calls : DOMAIN queue[s] = {}
  BY <1>1 DEF Init
<1>5. Anchored /\ QueueProper /\ RunningIsRegistered /\ FreshUnused
  BY <1>4 DEF Init, Anchored, Active, FreshUnused, QueueProper, RunningIsRegistered
<1>6. OneHolder /\ NoWaiterLost /\ RegisteredIsRunning
  BY DEF Init, OneHolder, NoWaiterLost, RegisteredIsRunning
<1> QED
  BY <1>2, <1>3, <1>5, <1>6 DEF IInv

LEMMA IInvStep == IInv /\ [Next]_vars => IInv'
<1> SUFFICES ASSUME IInv, [Next]_vars PROVE IInv'
  OBVIOUS
<1>1. CASE Clear
  BY <1>1, ClearKeeps
<1>2. ASSUME NEW c \in Calls, CallStep(c) PROVE IInv'
  BY <1>2, AcquireNewKeeps, RefuseKeeps, WaitKeeps, TimeoutKeeps, PromoteKeeps,
     ReleaseKeeps DEF CallStep
<1>3. CASE UNCHANGED vars
  BY <1>3 DEF vars, IInv, TypeOK, Anchored, Active, FreshUnused, QueueProper,
              RunningIsRegistered, OneHolder, NoWaiterLost, RegisteredIsRunning, QueueBounded
<1> QED
  BY <1>1, <1>2, <1>3 DEF Next

LEMMA IInvAlways == Spec => []IInv
BY IInvInit, IInvStep, PTL DEF Spec

\* Every variable keeps its type; an armed timer belongs to a waiting caller.
THEOREM TypeCorrect == Spec => []TypeOK
<1>1. IInv => TypeOK
  BY DEF IInv
<1> QED
  BY <1>1, IInvAlways, PTL

\* A state object never has two holders, whatever timers and clear() do.
THEOREM ObjectHasOneHolder == Spec => []OneHolder
<1>1. IInv => OneHolder
  BY DEF IInv
<1> QED
  BY <1>1, IInvAlways, PTL

\* withLock is mutual exclusion on its key until clear() is called.
THEOREM MutualExclusion == Spec => []Exclusive
<1>1. IInv => Exclusive
  <2> SUFFICES ASSUME IInv, clears = 0,
                      NEW c \in Calls, NEW d \in Calls,
                      phase[c] = "held", phase[d] = "held", key[c] = key[d]
               PROVE  c = d
    BY DEF Exclusive
  <2>1. /\ at[c] \in Calls /\ key[at[c]] = key[c] /\ running[at[c]]
        /\ at[d] \in Calls /\ key[at[d]] = key[d] /\ running[at[d]]
    BY DEF IInv, Anchored, Active, OneHolder
  <2>2. at[c] = at[d]
    BY <2>1 DEF IInv, RunningIsRegistered
  <2> QED
    BY <2>1, <2>2 DEF IInv, OneHolder
<1> QED
  BY <1>1, IInvAlways, PTL

\* A pending waiter always stands where a holder's advance() will find it.
THEOREM WaitersAreKept == Spec => []NoWaiterLost
<1>1. IInv => NoWaiterLost
  BY DEF IInv
<1> QED
  BY <1>1, IInvAlways, PTL

\* held(key) and size() never count a key whose object has no holder.
THEOREM RegistryHasNoLeak == Spec => []RegisteredIsRunning
<1>1. IInv => RegisteredIsRunning
  BY DEF IInv
<1> QED
  BY <1>1, IInvAlways, PTL

\* A caller is answered once.
LEMMA SettledStep ==
    ASSUME IInv, [Next]_vars, NEW d \in Calls, phase[d] \notin {"new", "held", "waiting"}
    PROVE  phase'[d] = phase[d]
<1>1. CASE Clear
  BY <1>1 DEF Clear, Cleared
<1>2. ASSUME NEW c \in Calls, CallStep(c) PROVE phase'[d] = phase[d]
  <2>1. CASE FinishAndPromote(c)
    <3>1. PICK i \in 1..Len(queue[at[c]]) :
            /\ NextLive(at[c], i)
            /\ phase' = [phase EXCEPT ![c] = "done", ![queue[at[c]][i]] = "held"]
      BY <2>1 DEF FinishAndPromote
    <3>2. phase[c] = "held" /\ phase[queue[at[c]][i]] = "waiting"
      BY <2>1, <3>1 DEF FinishAndPromote, NextLive
    <3> QED
      BY <3>1, <3>2 DEF IInv, TypeOK
  <2>2. CASE FinishAndRelease(c) \/ Timeout(c)
    BY <2>2 DEF FinishAndRelease, Timeout, IInv, TypeOK
  <2>3. ASSUME NEW k \in Keys, AcquireNew(c, k) \/ RefuseKey(c, k) \/ RefuseWaiter(c, k)
        PROVE  phase'[d] = phase[d]
    BY <2>3 DEF AcquireNew, RefuseKey, RefuseWaiter, IInv, TypeOK
  <2>4. ASSUME NEW k \in Keys, NEW b \in BOOLEAN, Wait(c, k, b)
        PROVE  phase'[d] = phase[d]
    BY <2>4 DEF Wait, IInv, TypeOK
  <2> QED
    BY <1>2, <2>1, <2>2, <2>3, <2>4 DEF CallStep
<1>3. CASE UNCHANGED vars
  BY <1>3 DEF vars
<1> QED
  BY <1>1, <1>2, <1>3 DEF Next

THEOREM AnsweredOnce == Spec => SettledOnce
<1>1. IInv /\ [Next]_vars =>
        [\A c \in Calls : phase[c] \notin {"new", "held", "waiting"}
                              => phase'[c] = phase[c]]_vars
  BY SettledStep
<1> QED
  BY <1>1, IInvAlways, PTL DEF Spec, SettledOnce

\* Of two live waiters of one object the later is not promoted first.
LEMMA OrderStep ==
    ASSUME IInv, [Next]_vars, NEW s \in Calls,
           NEW i \in DOMAIN queue[s], NEW j \in DOMAIN queue[s], i < j,
           phase[queue[s][i]] = "waiting", phase[queue[s][j]] = "waiting"
    PROVE  phase'[queue[s][j]] # "held"
<1>1. queue[s][j] \in Calls /\ at[queue[s][j]] = s
  BY DEF IInv, TypeOK, QueueProper
<1>2. CASE Clear
  BY <1>1, <1>2 DEF Clear, Cleared
<1>3. ASSUME NEW c \in Calls, CallStep(c) PROVE phase'[queue[s][j]] # "held"
  <2>1. CASE FinishAndPromote(c)
    <3>1. PICK m \in 1..Len(queue[at[c]]) :
            /\ NextLive(at[c], m)
            /\ phase' = [phase EXCEPT ![c] = "done", ![queue[at[c]][m]] = "held"]
      BY <2>1 DEF FinishAndPromote
    <3>2. at[c] \in Calls
      BY <2>1 DEF FinishAndPromote, IInv, Anchored, Active
    <3>3. SUFFICES ASSUME queue[at[c]][m] = queue[s][j] PROVE FALSE
      BY <1>1, <3>1 DEF IInv, TypeOK
    <3>4. m \in DOMAIN queue[at[c]] /\ phase[queue[at[c]][m]] = "waiting"
      BY <3>1 DEF NextLive
    <3>5. at[c] = s
      BY <1>1, <3>2, <3>3, <3>4 DEF IInv, QueueProper
    <3>6. m = j
      BY <3>3, <3>4, <3>5 DEF IInv, QueueProper
    <3>7. i \in 1..m-1
      BY <3>6, SMTT(30) DEF IInv, TypeOK
    <3> QED
      BY <3>1, <3>5, <3>7 DEF NextLive
  <2>2. CASE FinishAndRelease(c) \/ Timeout(c)
    BY <1>1, <2>2 DEF FinishAndRelease, Timeout, IInv, TypeOK
  <2>3. ASSUME NEW k \in Keys, AcquireNew(c, k) \/ RefuseKey(c, k) \/ RefuseWaiter(c, k)
        PROVE  phase'[queue[s][j]] # "held"
    BY <1>1, <2>3 DEF AcquireNew, RefuseKey, RefuseWaiter, IInv, TypeOK
  <2>4. ASSUME NEW k \in Keys, NEW b \in BOOLEAN, Wait(c, k, b)
        PROVE  phase'[queue[s][j]] # "held"
    BY <1>1, <2>4 DEF Wait, IInv, TypeOK
  <2> QED
    BY <1>3, <2>1, <2>2, <2>3, <2>4 DEF CallStep
<1>4. CASE UNCHANGED vars
  BY <1>4 DEF vars
<1> QED
  BY <1>2, <1>3, <1>4 DEF Next

\* Waiters are promoted in the order of their calls.
THEOREM ArrivalOrder == Spec => FirstComeFirstServed
<1>1. IInv /\ [Next]_vars =>
        [\A s \in Calls : \A i, j \in DOMAIN queue[s] :
            /\ i < j
            /\ phase[queue[s][i]] = "waiting"
            /\ phase[queue[s][j]] = "waiting"
            => phase'[queue[s][j]] # "held"]_vars
  BY OrderStep
<1> QED
  BY <1>1, IInvAlways, PTL DEF Spec, FirstComeFirstServed

\* The lock's types, and one holder of a key at a time.
THEOREM LockIsSound == Spec => []Sound
BY TypeCorrect, MutualExclusion, PTL DEF Sound

-----------------------------------------------------------------------------
\* Two relations on a set are equal when they relate the same members.
LEMMA SamePairs ==
    ASSUME NEW C, NEW S \in SUBSET (C \X C), NEW U \in SUBSET (C \X C),
           \A c, d \in C : <<c, d>> \in S <=> <<c, d>> \in U
    PROVE  S = U
OBVIOUS

\* The mapped place and order of a state; who stands before whom is in one line.
LEMMA Standing ==
    ASSUME IInv, NEW c \in Calls, NEW d \in Calls, StandsBefore(c, d)
    PROVE  /\ phase[c] \in {"held", "waiting"} /\ phase[d] = "waiting"
           /\ at[c] = at[d] /\ at[d] \in Calls
<1>1. phase[d] = "waiting" /\ at[d] \in Calls /\ Place(c) = at[d]
  BY DEF StandsBefore, IInv, Anchored, Active
<1> QED
  BY <1>1, ConstantsOK DEF Place

\* A waiter stands behind the holder of its object.
LEMMA WaiterIsNotFirst ==
    ASSUME IInv, NEW d \in Calls, phase[d] = "waiting"
    PROVE  \E c \in Calls : StandsBefore(c, d)
<1>1. at[d] \in Calls /\ running[at[d]]
  BY DEF IInv, Anchored, Active, NoWaiterLost
<1>2. PICK c \in Calls : phase[c] = "held" /\ at[c] = at[d]
  BY <1>1 DEF IInv, OneHolder
<1> QED
  BY <1>2 DEF StandsBefore, Place

\* The steps in which calls leave the lines and nobody joins one.
LEMMA LeaveStep ==
    ASSUME NEW leavers \in SUBSET Calls,
           \A c \in Calls : Place(c)' = IF c \in leavers THEN None ELSE Place(c),
           \A c, d \in Calls :
              StandsBefore(c, d)' <=> /\ StandsBefore(c, d)
                                      /\ c \notin leavers /\ d \notin leavers
    PROVE  Line!Leave(leavers)
<1> DEFINE Pairs == {p \in Calls \X Calls : StandsBefore(p[1], p[2])}
<1>1. [c \in Calls |-> Place(c)]'
          = [c \in Calls |-> IF c \in leavers THEN None ELSE [e \in Calls |-> Place(e)][c]]
  OBVIOUS
<1>2. Pairs' = {p \in Pairs : p[1] \notin leavers /\ p[2] \notin leavers}
  <2> DEFINE Left == {p \in Pairs : p[1] \notin leavers /\ p[2] \notin leavers}
  <2>1. \A c, d \in Calls : <<c, d>> \in Pairs' <=> <<c, d>> \in Left
    OBVIOUS
  <2>2. Pairs' \in SUBSET (Calls \X Calls) /\ Left \in SUBSET (Calls \X Calls)
    OBVIOUS
  <2> QED
    BY <2>1, <2>2, SamePairs
<1> QED
  BY <1>1, <1>2 DEF Line!Leave

\* The step in which a call joins the line of an object.
LEMMA JoinStep ==
    ASSUME NEW c \in Calls, NEW s \in Calls, Place(c) = None,
           \A d \in Calls : Place(d)' = IF d = c THEN s ELSE Place(d),
           \A d, e \in Calls :
              StandsBefore(d, e)' <=> StandsBefore(d, e) \/ (e = c /\ Place(d) = s)
    PROVE  Line!Join(c, s)
<1> DEFINE Pairs == {p \in Calls \X Calls : StandsBefore(p[1], p[2])}
           places == [d \in Calls |-> Place(d)]
           Joined == Pairs \cup {<<d, c>> : d \in {e \in Calls : places[e] = s}}
<1>1. places' = [places EXCEPT ![c] = s] /\ places[c] = None
  OBVIOUS
<1>2. \A d, e \in Calls : <<d, e>> \in Pairs' <=> <<d, e>> \in Joined
  OBVIOUS
<1>3. Pairs' \in SUBSET (Calls \X Calls)
  OBVIOUS
<1>4. Joined \in SUBSET (Calls \X Calls)
  <2>1. Pairs \in SUBSET (Calls \X Calls)
    OBVIOUS
  <2> DEFINE InLine == {e \in Calls : places[e] = s}
  <2>2. {<<d, c>> : d \in InLine} \in SUBSET (Calls \X Calls)
    <3>1. InLine \in SUBSET Calls
      OBVIOUS
    <3> HIDE DEF InLine
    <3> QED
      BY <3>1
  <2> QED
    BY <2>1, <2>2
<1>5. Pairs' = Joined
  <2> DEFINE S == Pairs'
             U == Joined
  <2>1. /\ S \in SUBSET (Calls \X Calls) /\ U \in SUBSET (Calls \X Calls)
        /\ \A d, e \in Calls : <<d, e>> \in S <=> <<d, e>> \in U
    BY <1>2, <1>3, <1>4
  <2> HIDE DEF S, U
  <2>2. S = U
    BY <2>1, SamePairs
  <2> QED
    BY <2>2 DEF S, U
<1> QED
  BY <1>1, <1>5 DEF Line!Join

LEMMA StutterStep ==
    ASSUME \A c \in Calls : Place(c)' = Place(c),
           \A c, d \in Calls : StandsBefore(c, d)' <=> StandsBefore(c, d)
    PROVE  UNCHANGED Line!line
<1>1. [c \in Calls |-> Place(c)]' = [c \in Calls |-> Place(c)]
  OBVIOUS
<1>2. {p \in Calls \X Calls : StandsBefore(p[1], p[2])}'
          = {p \in Calls \X Calls : StandsBefore(p[1], p[2])}
  OBVIOUS
<1> QED
  BY <1>1, <1>2 DEF Line!line

LEMMA FirstInLine ==
    ASSUME NEW c \in Calls
    PROVE  Line!First(c) <=> Place(c) # None /\ \A d \in Calls : ~StandsBefore(d, c)
BY DEF Line!First

LEMMA AcquireJoins ==
    ASSUME IInv, NEW c \in Calls, NEW k \in Keys, AcquireNew(c, k)
    PROVE  Line!Join(c, c)
<1>1. /\ phase[c] = "new" /\ UNCHANGED queue
      /\ phase' = [phase EXCEPT ![c] = "held"]
      /\ at' = [at EXCEPT ![c] = c]
  BY DEF AcquireNew
<1>2. \A d \in Calls : /\ d # c => phase'[d] = phase[d] /\ at'[d] = at[d]
                       /\ d = c => phase'[d] = "held" /\ at'[d] = c
  BY <1>1 DEF IInv, TypeOK
<1>3. \A d \in Calls : Active(d) => at[d] # c
  BY <1>1 DEF IInv, FreshUnused
<1>4. Place(c) = None
  BY <1>1 DEF Place
<1>5. \A d \in Calls : Place(d) # c
  BY <1>3, ConstantsOK DEF Place, Active
<1>6. \A d \in Calls : Place(d)' = IF d = c THEN c ELSE Place(d)
  BY <1>2 DEF Place
<1>7. ASSUME NEW d \in Calls, NEW e \in Calls
      PROVE  StandsBefore(d, e)' <=> StandsBefore(d, e) \/ (e = c /\ Place(d) = c)
  <2>1. CASE e = c
    BY <1>1, <1>2, <1>5, <2>1 DEF StandsBefore
  <2>2. CASE e # c /\ d # c
    BY <1>1, <1>2, <1>6, <2>2 DEF StandsBefore, Earlier
  <2>3. CASE e # c /\ d = c
    <3>1. phase'[e] = phase[e] /\ at'[e] = at[e] /\ Place(d)' = c /\ Place(d) = None
      BY <1>2, <1>4, <1>6, <2>3
    <3>2. phase[e] = "waiting" => at[e] # c /\ at[e] \in Calls
      BY <1>3 DEF Active, IInv, Anchored
    <3> QED
      BY <3>1, <3>2, <2>3, ConstantsOK DEF StandsBefore
  <2> QED
    BY <2>1, <2>2, <2>3
<1> QED
  BY <1>4, <1>6, <1>7, JoinStep

LEMMA RefuseStutters ==
    ASSUME IInv, NEW c \in Calls, NEW k \in Keys, RefuseKey(c, k) \/ RefuseWaiter(c, k)
    PROVE  UNCHANGED Line!line
<1>1. PICK p \in {"keys", "full"} :
        /\ phase[c] = "new"
        /\ phase' = [phase EXCEPT ![c] = p]
        /\ UNCHANGED <<queue, at>>
  BY DEF RefuseKey, RefuseWaiter
<1>2. \A d \in Calls : (phase'[d] = "held" <=> phase[d] = "held")
                       /\ (phase'[d] = "waiting" <=> phase[d] = "waiting")
  BY <1>1 DEF IInv, TypeOK
<1>3. \A d \in Calls : Place(d)' = Place(d)
  BY <1>1, <1>2 DEF Place
<1>4. \A d, e \in Calls : StandsBefore(d, e)' <=> StandsBefore(d, e)
  BY <1>1, <1>2, <1>3 DEF StandsBefore, Earlier
<1> QED
  BY <1>3, <1>4, StutterStep

LEMMA WaitJoins ==
    ASSUME IInv, NEW c \in Calls, NEW k \in Keys, NEW b \in BOOLEAN, Wait(c, k, b)
    PROVE  Line!Join(c, states[k])
<1>0. PICK s \in Calls : s = states[k]
  BY DEF Wait, IInv, TypeOK
<1> DEFINE n == Len(queue[s]) + 1
<1>1. /\ s # c
      /\ phase[c] = "new"
      /\ phase' = [phase EXCEPT ![c] = "waiting"]
      /\ at' = [at EXCEPT ![c] = s]
      /\ queue' = [queue EXCEPT ![s] = Append(@, c)]
  BY <1>0 DEF Wait, IInv, FreshUnused
<1>2. /\ DOMAIN queue'[s] = 1..n
      /\ n \in Nat
      /\ queue'[s][n] = c
      /\ DOMAIN queue[s] = 1..n-1
      /\ \A i \in 1..n-1 : queue'[s][i] = queue[s][i]
  BY <1>1 DEF IInv, TypeOK
<1>3. \A r \in Calls : r # s => queue'[r] = queue[r]
  BY <1>1 DEF IInv, TypeOK
<1>4. \A i \in 1..n-1 : queue[s][i] # c
  BY <1>1, <1>2 DEF IInv, FreshUnused
<1>5. \A d \in Calls : /\ d # c => phase'[d] = phase[d] /\ at'[d] = at[d]
                       /\ d = c => phase'[d] = "waiting" /\ at'[d] = s
  BY <1>1 DEF IInv, TypeOK
<1>6. Place(c) = None
  BY <1>1 DEF Place
<1>7. \A d \in Calls : Place(d)' = IF d = c THEN s ELSE Place(d)
  BY <1>5 DEF Place
<1>8. ASSUME NEW d \in Calls, d # c
      PROVE  Earlier(s, d, c)' <=> \E i \in 1..n-1 : queue[s][i] = d
  <2>1. ASSUME NEW i \in 1..n-1, queue[s][i] = d PROVE Earlier(s, d, c)'
    <3>1. i \in 1..n /\ n \in 1..n /\ i < n
      BY <1>2
    <3> QED
      BY <1>2, <2>1, <3>1 DEF Earlier
  <2>2. ASSUME NEW i \in 1..n, NEW j \in 1..n, i < j,
               queue'[s][i] = d, queue'[s][j] = c
        PROVE  \E m \in 1..n-1 : queue[s][m] = d
    <3>1. i \in 1..n-1
      BY <1>2, <2>2
    <3> QED
      BY <1>2, <2>2, <3>1
  <2> QED
    BY <1>2, <2>1, <2>2 DEF Earlier
<1>9. ASSUME NEW d \in Calls, NEW e \in Calls, e # c
      PROVE  Earlier(s, d, e)' <=> Earlier(s, d, e)
  <2>1. ASSUME NEW i \in 1..n-1, NEW j \in 1..n-1 PROVE i \in 1..n /\ j \in 1..n
    BY <1>2
  <2>2. ASSUME NEW i \in 1..n, NEW j \in 1..n, i < j, queue'[s][j] = e
        PROVE  i \in 1..n-1 /\ j \in 1..n-1
    <3>1. j # n
      BY <1>2, <2>2, <1>9
    <3> QED
      BY <1>2, <2>2, <3>1
  <2> QED
    BY <1>2, <2>1, <2>2 DEF Earlier
<1>10. ~Earlier(s, c, c)'
  <2> SUFFICES ASSUME NEW i \in 1..n, NEW j \in 1..n, i < j, queue'[s][i] = c
               PROVE  FALSE
    BY <1>2 DEF Earlier
  <2>1. i \in 1..n-1
    BY <1>2
  <2> QED
    BY <1>2, <1>4, <2>1
<1>11. ASSUME NEW d \in Calls, NEW e \in Calls
       PROVE  StandsBefore(d, e)' <=> StandsBefore(d, e) \/ (e = c /\ Place(d) = s)
  <2>1. CASE e = c /\ d = c
    BY <1>1, <1>5, <1>6, <1>10, <2>1, ConstantsOK DEF StandsBefore
  <2>2. CASE e = c /\ d # c
    <3>1. ~StandsBefore(d, e)
      BY <1>1, <2>2 DEF StandsBefore
    <3>2. StandsBefore(d, e)' <=> Place(d) = s /\ (phase[d] = "held" \/ Earlier(s, d, c)')
      BY <1>5, <1>7, <2>2 DEF StandsBefore
    <3>3. Place(d) = s => phase[d] = "held" \/ (phase[d] = "waiting" /\ at[d] = s)
      BY <1>1, ConstantsOK DEF Place
    <3>4. phase[d] = "waiting" /\ at[d] = s => \E i \in 1..n-1 : queue[s][i] = d
      BY <1>2 DEF IInv, NoWaiterLost
    <3>5. Place(d) = s => phase[d] = "held" \/ Earlier(s, d, c)'
      BY <1>8, <2>2, <3>3, <3>4
    <3> QED
      BY <2>2, <3>1, <3>2, <3>5
  <2>3. CASE e # c /\ d # c
    <3>1. CASE at[e] = s
      BY <1>5, <1>7, <1>9, <2>3, <3>1 DEF StandsBefore
    <3>2. CASE at[e] # s
      <4>1. phase[e] = "waiting" => queue'[at[e]] = queue[at[e]]
        BY <1>3, <3>2 DEF IInv, Anchored, Active
      <4> QED
        BY <1>5, <1>7, <2>3, <3>2, <4>1 DEF StandsBefore, Earlier
    <3> QED
      BY <3>1, <3>2
  <2>4. CASE e # c /\ d = c
    <3>1. Place(d) = None /\ Place(d)' = s /\ phase'[d] = "waiting"
      BY <1>5, <1>6, <1>7, <2>4
    <3>2. phase[e] = "waiting" => at[e] \in Calls
      BY DEF IInv, Anchored, Active
    <3>3. ~StandsBefore(d, e)
      BY <3>1, <3>2, ConstantsOK DEF StandsBefore
    <3>4. ~Earlier(s, c, e)'
      <4>1. ~Earlier(s, c, e)
        BY <1>2, <1>4 DEF Earlier
      <4> QED
        BY <1>9, <2>4, <4>1
    <3> QED
      BY <1>5, <2>4, <3>1, <3>3, <3>4 DEF StandsBefore
  <2> QED
    BY <2>1, <2>2, <2>3, <2>4
<1> QED
  BY <1>0, <1>6, <1>7, <1>11, JoinStep

LEMMA TimeoutLeaves ==
    ASSUME IInv, NEW c \in Calls, Timeout(c)
    PROVE  Line!GiveUp({c})
<1>1. /\ phase[c] = "waiting" /\ UNCHANGED <<queue, at>>
      /\ phase' = [phase EXCEPT ![c] = "timeout"]
  BY DEF Timeout
<1>2. \A d \in Calls : /\ d # c => phase'[d] = phase[d]
                       /\ d = c => phase'[d] = "timeout"
  BY <1>1 DEF IInv, TypeOK
<1>3. \A d \in Calls : Place(d)' = IF d \in {c} THEN None ELSE Place(d)
  BY <1>1, <1>2 DEF Place
<1>4. ASSUME NEW d \in Calls, NEW e \in Calls
      PROVE  StandsBefore(d, e)' <=> StandsBefore(d, e) /\ d \notin {c} /\ e \notin {c}
  <2>1. CASE d = c
    <3>1. phase[e] = "waiting" => at[e] # None
      BY ConstantsOK DEF IInv, Anchored, Active
    <3>2. Place(d)' = None /\ phase'[e] = "waiting" => phase[e] = "waiting" /\ at'[e] = at[e]
      BY <1>1, <1>2
    <3> QED
      BY <1>3, <2>1, <3>1, <3>2 DEF StandsBefore
  <2>2. CASE d # c
    BY <1>1, <1>2, <1>3, <2>2 DEF StandsBefore, Earlier
  <2> QED
    BY <2>1, <2>2
<1>5. Line!Leave({c})
  BY <1>3, <1>4, LeaveStep
<1>6. Place(c) # None /\ ~Line!First(c)
  BY <1>1, WaiterIsNotFirst, FirstInLine, ConstantsOK DEF Place, IInv, Anchored, Active
<1> QED
  BY <1>5, <1>6 DEF Line!GiveUp

LEMMA ClearLeaves ==
    ASSUME IInv, Clear
    PROVE  Line!GiveUp(Cleared)
<1>1. /\ phase' = [c \in Calls |-> IF c \in Cleared THEN "cleared" ELSE phase[c]]
      /\ UNCHANGED <<queue, at>>
  BY DEF Clear
<1>2. PICK leavers \in SUBSET Calls : leavers = Cleared
  BY DEF Cleared
<1>3. \A d \in Calls : /\ d \notin leavers => phase'[d] = phase[d]
                       /\ d \in leavers => phase'[d] = "cleared" /\ phase[d] = "waiting"
  BY <1>1, <1>2 DEF Cleared
<1>4. \A d \in Calls : Place(d)' = IF d \in leavers THEN None ELSE Place(d)
  BY <1>1, <1>3 DEF Place
<1>5. ASSUME NEW d \in Calls, NEW e \in Calls
      PROVE  StandsBefore(d, e)' <=> StandsBefore(d, e) /\ d \notin leavers /\ e \notin leavers
  <2>1. CASE d \in leavers
    <3>1. phase[e] = "waiting" => at[e] # None
      BY ConstantsOK DEF IInv, Anchored, Active
    <3>2. Place(d)' = None /\ phase'[e] = "waiting" => phase[e] = "waiting" /\ at'[e] = at[e]
      BY <1>1, <1>3
    <3> QED
      BY <1>4, <2>1, <3>1, <3>2 DEF StandsBefore
  <2>2. CASE d \notin leavers
    BY <1>1, <1>3, <1>4, <2>2 DEF StandsBefore, Earlier
  <2> QED
    BY <2>1, <2>2
<1>6. Line!Leave(leavers)
  BY <1>4, <1>5, LeaveStep
<1>7. ASSUME NEW d \in leavers PROVE Place(d) # None /\ ~Line!First(d)
  <2>1. d \in Calls /\ phase[d] = "waiting"
    BY <1>3
  <2> QED
    BY <2>1, WaiterIsNotFirst, FirstInLine, ConstantsOK DEF Place, IInv, Anchored, Active
<1> QED
  BY <1>2, <1>6, <1>7 DEF Line!GiveUp

\* A holder stands before everybody else.
LEMMA HolderIsFirst ==
    ASSUME IInv, NEW c \in Calls, phase[c] = "held"
    PROVE  Place(c) = at[c] /\ at[c] \in Calls /\ Line!First(c)
BY FirstInLine, ConstantsOK DEF Place, StandsBefore, IInv, Anchored, Active

LEMMA ReleaseFinishes ==
    ASSUME IInv, NEW c \in Calls, FinishAndRelease(c)
    PROVE  Line!Finish(at[c])
<1>0. PICK s \in Calls : s = at[c]
  BY DEF FinishAndRelease, IInv, Anchored, Active
<1>1. /\ phase[c] = "held" /\ UNCHANGED at
      /\ phase' = [phase EXCEPT ![c] = "done"]
      /\ queue' = [queue EXCEPT ![s] = <<>>]
      /\ NoLive(s)
  BY <1>0 DEF FinishAndRelease
<1>2. \A d \in Calls : /\ d # c => phase'[d] = phase[d]
                       /\ d = c => phase'[d] = "done"
  BY <1>1 DEF IInv, TypeOK
<1>3. \A e \in Calls : phase[e] = "waiting" => at[e] \in Calls /\ at[e] # s
  BY <1>1 DEF NoLive, IInv, NoWaiterLost, Anchored, Active
<1>4. \A d \in Calls : Place(d)' = IF d \in {c} THEN None ELSE Place(d)
  BY <1>1, <1>2 DEF Place
<1>5. ASSUME NEW d \in Calls, NEW e \in Calls
      PROVE  StandsBefore(d, e)' <=> StandsBefore(d, e) /\ d \notin {c} /\ e \notin {c}
  <2>1. CASE phase[e] # "waiting"
    BY <1>2, <2>1 DEF StandsBefore
  <2>2. CASE phase[e] = "waiting" /\ d = c
    <3>1. Place(d)' = None /\ at'[e] = at[e] /\ at[e] # None
      BY <1>1, <1>3, <1>4, <2>2, ConstantsOK
    <3> QED
      BY <2>2, <3>1 DEF StandsBefore
  <2>3. CASE phase[e] = "waiting" /\ d # c
    <3>1. /\ at'[e] = at[e] /\ queue'[at[e]] = queue[at[e]]
          /\ e # c /\ phase'[e] = phase[e] /\ phase'[d] = phase[d] /\ Place(d)' = Place(d)
      BY <1>1, <1>2, <1>3, <1>4, <2>3 DEF IInv, TypeOK
    <3> QED
      BY <2>3, <3>1 DEF StandsBefore, Earlier
  <2> QED
    BY <2>1, <2>2, <2>3
<1>6. Line!Leave({c})
  BY <1>4, <1>5, LeaveStep
<1> QED
  BY <1>1, <1>6, HolderIsFirst DEF Line!Finish

LEMMA PromoteFinishes ==
    ASSUME IInv, NEW c \in Calls, FinishAndPromote(c)
    PROVE  Line!Finish(at[c])
<1>0. PICK s \in Calls : s = at[c]
  BY DEF FinishAndPromote, IInv, Anchored, Active
<1>1. PICK i \in 1..Len(queue[s]) :
        /\ NextLive(s, i)
        /\ queue' = [queue EXCEPT ![s] = SubSeq(@, i + 1, Len(@))]
        /\ phase' = [phase EXCEPT ![c] = "done", ![queue[s][i]] = "held"]
  BY <1>0 DEF FinishAndPromote
<1>2. phase[c] = "held" /\ UNCHANGED at
  BY DEF FinishAndPromote
<1>3. PICK n \in Nat : n = Len(queue[s]) /\ DOMAIN queue[s] = 1..n /\ i \in 1..n
  BY DEF IInv, TypeOK
<1>4. PICK p \in Calls : p = queue[s][i]
  BY <1>3 DEF IInv, TypeOK
<1>5. phase[p] = "waiting" /\ p # c /\ at[p] = s
  BY <1>1, <1>2, <1>3, <1>4 DEF NextLive, IInv, QueueProper
<1>6. \A j \in 1..i-1 : phase[queue[s][j]] # "waiting"
  BY <1>1 DEF NextLive
<1>7. \A d \in Calls : phase'[d] = IF d = p THEN "held" ELSE IF d = c THEN "done" ELSE phase[d]
  BY <1>1, <1>4, <1>5 DEF IInv, TypeOK
<1>8. \A r \in Calls : r # s => queue'[r] = queue[r]
  BY <1>1 DEF IInv, TypeOK
<1>9. DOMAIN queue'[s] = 1..n-i /\ \A j \in 1..n-i : j + i \in 1..n /\ queue'[s][j] = queue[s][j + i]
  <2> DEFINE q == queue[s]
             r == queue'[s]
  <2>1. r = SubSeq(q, i + 1, n) /\ q \in Seq(Calls) /\ Len(q) = n
    BY <1>1, <1>3 DEF IInv, TypeOK
  <2>2. i \in 1..n /\ n \in Nat
    BY <1>3
  <2> HIDE DEF q, r
  <2>3. DOMAIN r = 1..n-i /\ \A j \in 1..n-i : j + i \in 1..n /\ r[j] = q[j + i]
    BY <2>1, <2>2
  <2> QED
    BY <2>3 DEF q, r
<1>10. \A d \in Calls : Place(d)' = IF d \in {c} THEN None ELSE Place(d)
  BY <1>0, <1>2, <1>5, <1>7 DEF Place
\* A waiter of this object stands behind the one that is promoted.
<1>11. ASSUME NEW j \in 1..n, phase[queue[s][j]] = "waiting" PROVE j >= i
  BY <1>6, <1>3, <1>11
<1>12. ASSUME NEW d \in Calls, NEW e \in Calls,
              phase[d] = "waiting", phase[e] = "waiting", d # p
       PROVE  Earlier(s, d, e)' <=> Earlier(s, d, e)
  <2>1. ASSUME NEW j \in 1..n-i, NEW m \in 1..n-i, j < m, queue'[s][j] = d, queue'[s][m] = e
        PROVE  Earlier(s, d, e)
    <3>1. j + i \in 1..n /\ m + i \in 1..n /\ j + i < m + i
      BY <1>3, <1>9, <2>1
    <3> QED
      BY <1>3, <1>9, <2>1, <3>1 DEF Earlier
  <2>2. ASSUME NEW j \in 1..n, NEW m \in 1..n, j < m, queue[s][j] = d, queue[s][m] = e
        PROVE  Earlier(s, d, e)'
    <3>1. j > i /\ m > i
      BY <1>3, <1>4, <1>11, <1>12, <2>2
    <3>2. j - i \in 1..n-i /\ m - i \in 1..n-i /\ j - i < m - i
          /\ (j - i) + i = j /\ (m - i) + i = m
      BY <1>3, <2>2, <3>1
    <3>3. queue'[s][j - i] = d /\ queue'[s][m - i] = e
      BY <1>9, <2>2, <3>2
    <3> QED
      BY <1>9, <3>2, <3>3 DEF Earlier
  <2> QED
    BY <1>3, <1>9, <2>1, <2>2 DEF Earlier
<1>13. ASSUME NEW e \in Calls, e # p, phase[e] = "waiting", at[e] = s PROVE Earlier(s, p, e)
  <2>1. PICK j \in 1..n : queue[s][j] = e
    BY <1>3, <1>13 DEF IInv, NoWaiterLost
  <2>2. j > i
    BY <1>3, <1>4, <1>11, <1>13, <2>1
  <2> QED
    BY <1>3, <1>4, <2>1, <2>2 DEF Earlier
<1>14. ASSUME NEW d \in Calls PROVE ~Earlier(s, d, p) \/ phase[d] # "waiting"
  <2> SUFFICES ASSUME NEW j \in 1..n, NEW m \in 1..n, j < m,
                      queue[s][j] = d, queue[s][m] = p, phase[d] = "waiting"
               PROVE  FALSE
    BY <1>3 DEF Earlier
  <2>1. j >= i
    BY <1>11
  <2>2. m = i
    BY <1>3, <1>4 DEF IInv, QueueProper
  <2> QED
    BY <1>3, <2>1, <2>2
<1>15. ASSUME NEW d \in Calls, NEW e \in Calls
       PROVE  StandsBefore(d, e)' <=> StandsBefore(d, e) /\ d \notin {c} /\ e \notin {c}
  <2>1. CASE phase'[e] # "waiting"
    <3>1. ~StandsBefore(d, e)'
      BY <2>1 DEF StandsBefore
    <3>2. e = c \/ e = p \/ phase[e] # "waiting"
      BY <1>7, <2>1
    <3>3. e = p /\ StandsBefore(d, e) => d = c
      <4> SUFFICES ASSUME e = p, StandsBefore(d, e) PROVE d = c
        OBVIOUS
      <4>1. phase[d] \in {"held", "waiting"} /\ at[d] = s
        BY <1>5, Standing
      <4>2. phase[d] = "held"
        BY <1>5, <1>14, <4>1 DEF StandsBefore
      <4> QED
        BY <1>0, <1>2, <4>1, <4>2 DEF IInv, OneHolder
    <3> QED
      BY <3>1, <3>2, <3>3 DEF StandsBefore
  <2>2. CASE phase'[e] = "waiting" /\ d = c
    <3>1. Place(d)' = None /\ phase[e] = "waiting" /\ at'[e] = at[e]
      BY <1>2, <1>7, <1>10, <2>2
    <3>2. at[e] # None
      BY <3>1, ConstantsOK DEF IInv, Anchored, Active
    <3> QED
      BY <2>2, <3>1, <3>2 DEF StandsBefore
  <2>3. CASE phase'[e] = "waiting" /\ d # c
    <3>1. /\ phase[e] = "waiting" /\ e # p /\ e # c /\ at'[e] = at[e] /\ at[e] \in Calls
          /\ Place(d)' = Place(d)
      BY <1>2, <1>7, <1>10, <2>3 DEF IInv, Anchored, Active
    <3>2. CASE at[e] # s
      <4>1. queue'[at[e]] = queue[at[e]] /\ (Place(d) = at[e] => d # p)
        BY <1>5, <1>8, <3>1, <3>2 DEF Place
      <4>2. d # p => phase'[d] = phase[d]
        BY <1>7, <2>3
      <4> QED
        BY <2>3, <3>1, <4>1, <4>2 DEF StandsBefore, Earlier
    <3>3. CASE at[e] = s /\ d = p
      <4>1. phase'[d] = "held" /\ Place(d) = s /\ Earlier(s, p, e)
        BY <1>5, <1>7, <1>13, <3>1, <3>3 DEF Place
      <4> QED
        BY <2>3, <3>1, <3>3, <4>1 DEF StandsBefore
    <3>4. CASE at[e] = s /\ d # p
      <4>1. phase'[d] = phase[d]
        BY <1>7, <2>3, <3>4
      <4>2. Place(d) = s => phase[d] \in {"held", "waiting"}
        BY ConstantsOK DEF Place
      <4>3. phase[d] = "waiting" => (Earlier(s, d, e)' <=> Earlier(s, d, e))
        BY <1>12, <3>1, <3>4
      <4> QED
        BY <2>3, <3>1, <3>4, <4>1, <4>2, <4>3 DEF StandsBefore
    <3> QED
      BY <3>2, <3>3, <3>4
  <2> QED
    BY <2>1, <2>2, <2>3
<1>16. Line!Leave({c})
  BY <1>10, <1>15, LeaveStep
<1> QED
  BY <1>2, <1>16, HolderIsFirst DEF Line!Finish

LEMMA LineInit == Init => Line!Init
<1> SUFFICES ASSUME Init PROVE Line!Init
  OBVIOUS
<1>1. \A c \in Calls : phase[c] = "new"
  BY DEF Init
<1>2. [c \in Calls |-> Place(c)] = [c \in Calls |-> None]
  BY <1>1 DEF Place
<1>3. {p \in Calls \X Calls : StandsBefore(p[1], p[2])} = {}
  BY <1>1 DEF StandsBefore
<1> QED
  BY <1>2, <1>3 DEF Line!Init

LEMMA LineStep == IInv /\ [Next]_vars => [Line!Next]_(Line!line)
<1> SUFFICES ASSUME IInv, [Next]_vars PROVE Line!Next \/ UNCHANGED Line!line
  OBVIOUS
<1>1. CASE Clear
  <2>1. Cleared \in SUBSET Calls
    BY DEF Cleared
  <2> QED
    BY <1>1, <2>1, ClearLeaves DEF Line!Next
<1>2. ASSUME NEW c \in Calls, CallStep(c) PROVE Line!Next \/ UNCHANGED Line!line
  <2>1. ASSUME NEW k \in Keys, AcquireNew(c, k) PROVE Line!Next
    BY <2>1, AcquireJoins DEF Line!Next
  <2>2. ASSUME NEW k \in Keys, RefuseKey(c, k) \/ RefuseWaiter(c, k)
        PROVE  UNCHANGED Line!line
    BY <2>2, RefuseStutters
  <2>3. ASSUME NEW k \in Keys, NEW b \in BOOLEAN, Wait(c, k, b) PROVE Line!Next
    <3>1. states[k] \in Calls
      BY <2>3 DEF Wait, IInv, TypeOK
    <3> QED
      BY <2>3, <3>1, WaitJoins DEF Line!Next
  <2>4. CASE Timeout(c)
    BY <2>4, TimeoutLeaves DEF Line!Next
  <2>5. CASE FinishAndPromote(c)
    <3>1. at[c] \in Calls
      BY <2>5, HolderIsFirst DEF FinishAndPromote
    <3> QED
      BY <2>5, <3>1, PromoteFinishes DEF Line!Next
  <2>6. CASE FinishAndRelease(c)
    <3>1. at[c] \in Calls
      BY <2>6, HolderIsFirst DEF FinishAndRelease
    <3> QED
      BY <2>6, <3>1, ReleaseFinishes DEF Line!Next
  <2> QED
    BY <1>2, <2>1, <2>2, <2>3, <2>4, <2>5, <2>6 DEF CallStep
<1>3. CASE UNCHANGED vars
  BY <1>3, StutterStep DEF vars, Place, StandsBefore, Earlier
<1> QED
  BY <1>1, <1>2, <1>3 DEF Next

\* Every behaviour of the lock, seen as lines of callers, is one FifoMutex allows:
\* one holder a line, turns in the order of the calls, and waiters that time out
\* or are cleared pass nobody.  That everyone has a turn is left to TLC.
THEOREM StepsOfTheLine == Spec => Line!Safety
BY LineInit, LineStep, IInvAlways, PTL DEF Spec, Line!Safety

\* The points of the last n ticks, one by one, and how many they are.
Coins(g, n) == UNION {{<<i, point>> : point \in 1..g[i]} : i \in 0..(n - 1)}
Total(g, n) == Cardinality(Coins(g, n))

\* A bucket, and one that the points taken so far allow for: those taken since
\* its last filling and those it has left are no more than one filling, and the
\* filling before it is all that the interval holds besides.
Buckets == [points: 0..Points, resetIn: 0..Interval, ban: 0..Longest]
Allows(b, g) ==
    /\ Total(g, Interval - b.resetIn) <= Points - b.points
    /\ Total(g, Interval) <= 2 * Points - b.points

\* A key without a bucket has seen one filling at most in the last interval.
Owes(k) ==
    /\ bucket[k] = NoBucket => Total(granted[k], Interval) <= Points
    /\ bucket[k] # NoBucket => Allows(bucket[k], granted[k])
    /\ banned[k] > 0 => bucket[k] # NoBucket /\ bucket[k].ban = banned[k]

RateInv == L!RateTypeOK /\ \A k \in RateKeys \ spared : Owes(k)

\* A topic that the throttle does not hold has nothing that waits, and what
\* waits is the last message given.
ThrottleInv ==
    /\ T!ThrottleTypeOK
    /\ \A t \in Topics :
         /\ ~T!Held(t) => delay[t] = "none"
         /\ delay[t] = "none" => pending[t] = 0
         /\ pending[t] \in {0, given[t]}
         /\ cancelled[t] <= given[t]
         /\ ~threw => /\ delay[t] # "over"
                      /\ \/ given[t] = cancelled[t] \/ sent[t] = given[t]
                         \/ T!Held(t) /\ pending[t] = given[t] /\ delay[t] = "armed"

\* An entry that is kept has the time left that was promised, and is kept once.
TtlInv ==
    /\ E!LivingAreKept
    /\ \A i, j \in DOMAIN entries : entries[i] = entries[j] => i = j

LEMMA TotalSteps ==
    ASSUME NEW N \in Nat, NEW g \in [0..(N - 1) -> Nat]
    PROVE  /\ Total(g, 0) = 0
           /\ \A n \in 0..N : Total(g, n) \in Nat
           /\ \A n \in 0..(N - 1) : Total(g, n + 1) = Total(g, n) + g[n]
<1> DEFINE layer(n) == {<<n, point>> : point \in 1..g[n]}
<1>1. Coins(g, 0) = {}
  BY DEF Coins
<1>2. Total(g, 0) = 0 /\ IsFiniteSet(Coins(g, 0))
  BY <1>1, FS_EmptySet DEF Total
<1>3. ASSUME NEW n \in 0..(N - 1)
      PROVE  Coins(g, n + 1) = Coins(g, n) \cup layer(n) /\ Coins(g, n) \cap layer(n) = {}
  <2> DEFINE m == n + 1
  <2>1. \A i : i \in 0..(m - 1) <=> i \in 0..(n - 1) \/ i = n
    BY <1>3
  <2>2. n \notin 0..(n - 1)
    BY <1>3
  <2> HIDE DEF m
  <2>3. \A p : p \in Coins(g, m) <=> \E i \in 0..(m - 1) : p \in layer(i)
    BY DEF Coins
  <2>4. \A p : p \in Coins(g, n) <=> \E i \in 0..(n - 1) : p \in layer(i)
    BY DEF Coins
  <2>5. \A p, i, j : p \in layer(i) /\ p \in layer(j) => i = j
    OBVIOUS
  <2> HIDE DEF layer
  <2>6. \A p : p \in Coins(g, m) <=> p \in Coins(g, n) \cup layer(n)
    BY <2>1, <2>3, <2>4
  <2>7. Coins(g, n) \cap layer(n) = {}
    BY <2>2, <2>4, <2>5
  <2>8. Coins(g, m) = Coins(g, n) \cup layer(n)
    BY <2>6
  <2> QED
    BY <2>7, <2>8 DEF m
<1>4. ASSUME NEW n \in 0..(N - 1)
      PROVE  IsFiniteSet(layer(n)) /\ Cardinality(layer(n)) = g[n] /\ g[n] \in Nat
  <2>1. g[n] \in Nat
    OBVIOUS
  <2>2. IsFiniteSet(1..g[n]) /\ Cardinality(1..g[n]) = g[n]
    <3>1. \A l \in Nat : IsFiniteSet(1..l) /\ Cardinality(1..l) = l
      BY FS_Interval
    <3> QED
      BY <2>1, <3>1
  <2> DEFINE f == [point \in 1..g[n] |-> <<n, point>>]
  <2>3. f \in Bijection(1..g[n], layer(n))
    <3>1. f \in [1..g[n] -> layer(n)] /\ \A a, b \in 1..g[n] : f[a] = f[b] => a = b
      OBVIOUS
    <3>2. \A p \in layer(n) : \E a \in 1..g[n] : f[a] = p
      OBVIOUS
    <3> HIDE DEF f, layer
    <3> QED
      BY <3>1, <3>2 DEF Bijection, Injection, Surjection, IsInjective
  <2> HIDE DEF f, layer
  <2>4. IsFiniteSet(layer(n)) /\ Cardinality(layer(n)) = Cardinality(1..g[n])
    <3> DEFINE A == 1..g[n]
    <3>1. IsFiniteSet(A) /\ ExistsBijection(A, layer(n))
      BY <2>2, <2>3 DEF ExistsBijection
    <3> HIDE DEF A
    <3>2. IsFiniteSet(layer(n)) /\ Cardinality(layer(n)) = Cardinality(A)
      BY <3>1, FS_Bijection
    <3> QED
      BY <3>2 DEF A
  <2> QED
    BY <2>1, <2>2, <2>4
<1> HIDE DEF layer
<1> DEFINE G == {n \in 0..N : IsFiniteSet(Coins(g, n))}
<1>5. \A n \in 0..N : n \in G
  <2>1. 0 \in G
    BY <1>2
  <2>2. ASSUME NEW n \in 0..(N - 1), n \in G PROVE n + 1 \in G
    <3>1. n + 1 \in 0..N
      OBVIOUS
    <3>2. IsFiniteSet(Coins(g, n)) /\ IsFiniteSet(layer(n))
      BY <1>4, <2>2
    <3>3. IsFiniteSet(Coins(g, n) \cup layer(n))
      BY <3>2, FS_Union
    <3>4. IsFiniteSet(Coins(g, n + 1))
      BY <1>3, <3>3
    <3> QED
      BY <3>1, <3>4
  <2> HIDE DEF G
  <2> QED
    BY <2>1, <2>2, Climb
<1>6. \A n \in 0..N : IsFiniteSet(Coins(g, n)) /\ Total(g, n) \in Nat
  <2>1. \A n \in 0..N : IsFiniteSet(Coins(g, n))
    BY <1>5
  <2> QED
    BY <2>1, FS_CardinalityType DEF Total
<1>7. ASSUME NEW n \in 0..(N - 1) PROVE Total(g, n + 1) = Total(g, n) + g[n]
  <2>1. n \in 0..N
    OBVIOUS
  <2>2. IsFiniteSet(Coins(g, n)) /\ Cardinality(Coins(g, n)) \in Nat
    BY <1>6, <2>1 DEF Total
  <2>3. IsFiniteSet(layer(n)) /\ Cardinality(layer(n)) = g[n] /\ g[n] \in Nat
    BY <1>4
  <2>4. Cardinality(Coins(g, n) \cup layer(n))
          = Cardinality(Coins(g, n)) + Cardinality(layer(n)) - Cardinality(Coins(g, n) \cap layer(n))
    BY <2>2, <2>3, FS_Union
  <2>5. Cardinality(Coins(g, n) \cap layer(n)) = 0
    BY <1>3, FS_EmptySet
  <2>6. Coins(g, n + 1) = Coins(g, n) \cup layer(n)
    BY <1>3
  <2>7. Total(g, n + 1) = Cardinality(Coins(g, n) \cup layer(n)) /\ Total(g, n) = Cardinality(Coins(g, n))
    BY <2>6 DEF Total
  <2> QED
    BY <2>2, <2>3, <2>4, <2>5, <2>7
<1> QED
  BY <1>2, <1>6, <1>7

\* Points taken now count in every stretch that holds now.
LEMMA TotalAdds ==
    ASSUME NEW N \in Nat \ {0}, NEW g \in [0..(N - 1) -> Nat], NEW c \in Nat,
           NEW h \in [0..(N - 1) -> Nat], h[0] = g[0] + c, \A i \in 1..(N - 1) : h[i] = g[i]
    PROVE  \A n \in 1..N : Total(h, n) = Total(g, n) + c
<1>1. h[0] = g[0] + c /\ \A i \in 1..(N - 1) : h[i] = g[i]
  OBVIOUS
<1>2. /\ Total(h, 0) = 0
      /\ \A n \in 0..N : Total(h, n) \in Nat
      /\ \A n \in 0..(N - 1) : Total(h, n + 1) = Total(h, n) + h[n]
  BY <1>1, TotalSteps
<1>3. /\ Total(g, 0) = 0
      /\ \A n \in 0..N : Total(g, n) \in Nat
      /\ \A n \in 0..(N - 1) : Total(g, n + 1) = Total(g, n) + g[n]
  BY TotalSteps
<1> DEFINE G == {n \in 0..N : n = 0 \/ Total(h, n) = Total(g, n) + c}
<1>4. \A n \in 0..(N - 1) : n \in G => n + 1 \in G
  <2> SUFFICES ASSUME NEW n \in 0..(N - 1), n \in G PROVE n + 1 \in 0..N /\ Total(h, n + 1) = Total(g, n + 1) + c
    OBVIOUS
  <2>1. n + 1 \in 0..N /\ n \in 0..N
    OBVIOUS
  <2>2. Total(h, n + 1) = Total(h, n) + h[n] /\ Total(g, n + 1) = Total(g, n) + g[n]
    BY <1>2, <1>3
  <2>3. Total(h, n) \in Nat /\ Total(g, n) \in Nat /\ g[n] \in Nat
    BY <1>2, <1>3, <2>1
  <2>4. CASE n = 0
    <3>1. Total(h, n) = 0 /\ Total(g, n) = 0 /\ h[n] = g[n] + c
      BY <1>1, <1>2, <1>3, <2>4
    <3> HIDE DEF G
    <3> QED
      BY <2>1, <2>2, <2>3, <3>1
  <2>5. CASE n # 0
    <3>1. Total(h, n) = Total(g, n) + c /\ h[n] = g[n]
      BY <1>1, <2>5
    <3> HIDE DEF G
    <3> QED
      BY <2>1, <2>2, <2>3, <3>1
  <2> QED
    BY <2>4, <2>5
<1>5. \A n \in 0..N : n \in G
  <2>1. 0 \in G
    OBVIOUS
  <2> HIDE DEF G
  <2> QED
    BY <1>4, <2>1, Climb
<1>6. \A n \in 1..N : n \in 0..N /\ n # 0
  OBVIOUS
<1> QED
  BY <1>1, <1>5, <1>6

\* A tick makes every point one tick older.
LEMMA TotalShifts ==
    ASSUME NEW N \in Nat \ {0}, NEW g \in [0..(N - 1) -> Nat],
           NEW h \in [0..(N - 1) -> Nat], h[0] = 0, \A i \in 0..(N - 2) : h[i + 1] = g[i]
    PROVE  \A n \in 0..(N - 1) : Total(h, n + 1) = Total(g, n)
<1>1. h[0] = 0 /\ \A i \in 0..(N - 2) : h[i + 1] = g[i]
  OBVIOUS
<1>2. /\ Total(h, 0) = 0
      /\ \A n \in 0..N : Total(h, n) \in Nat
      /\ \A n \in 0..(N - 1) : Total(h, n + 1) = Total(h, n) + h[n]
  BY <1>1, TotalSteps
<1>3. /\ Total(g, 0) = 0
      /\ \A n \in 0..N : Total(g, n) \in Nat
      /\ \A n \in 0..(N - 1) : Total(g, n + 1) = Total(g, n) + g[n]
  BY TotalSteps
<1> DEFINE M == N - 1
           G == {n \in 0..M : Total(h, n + 1) = Total(g, n)}
<1>4. M \in Nat /\ 0 \in G
  <2>1. 0 \in 0..(N - 1) /\ 0 + 1 = 1
    OBVIOUS
  <2>2. Total(h, 0 + 1) = Total(h, 0) + h[0]
    BY <1>2, <2>1
  <2>3. Total(h, 0 + 1) = Total(g, 0)
    BY <1>1, <1>2, <1>3, <2>2
  <2> QED
    BY <2>3
<1>5. \A n \in 0..(M - 1) : n \in G => n + 1 \in G
  <2> SUFFICES ASSUME NEW n \in 0..(N - 2), Total(h, n + 1) = Total(g, n)
               PROVE  n + 1 \in 0..M /\ Total(h, (n + 1) + 1) = Total(g, n + 1)
    <3>1. \A n \in 0..(M - 1) : n \in 0..(N - 2)
      OBVIOUS
    <3>2. \A n \in G : Total(h, n + 1) = Total(g, n)
      OBVIOUS
    <3>3. \A n : n + 1 \in 0..M /\ Total(h, (n + 1) + 1) = Total(g, n + 1) => n + 1 \in G
      OBVIOUS
    <3> HIDE DEF G, M
    <3> QED
      BY <3>1, <3>2, <3>3
  <2> DEFINE m == n + 1
  <2>1. m \in 0..(N - 1) /\ n \in 0..(N - 1) /\ n \in 0..N
    OBVIOUS
  <2>2. h[m] = g[n] /\ Total(h, m) = Total(g, n)
    BY <1>1
  <2> HIDE DEF m
  <2>3. Total(h, m + 1) = Total(h, m) + h[m]
    BY <1>2, <2>1
  <2>4. Total(g, n + 1) = Total(g, n) + g[n]
    BY <1>3, <2>1
  <2>5. Total(h, m + 1) = Total(g, n + 1)
    BY <2>2, <2>3, <2>4
  <2> QED
    BY <2>1, <2>5 DEF m
<1>6. \A n \in 0..M : n \in G
  <2> HIDE DEF G, M
  <2> QED
    BY <1>4, <1>5, Climb
<1> QED
  BY <1>1, <1>6

LEMMA SpentIsTotal ==
    \A k \in RateKeys : \A n : L!Spent(k, n) = Total(granted[k], n)
  BY DEF L!Spent, L!Cardinality, Total, Coins, Cardinality

LEMMA RateTypes ==
    ASSUME L!RateTypeOK
    PROVE  /\ order \in Seq(RateKeys) /\ Len(order) \in Nat
           /\ bucket \in [RateKeys -> Buckets \cup {NoBucket}]
           /\ granted \in [RateKeys -> [0..(Interval - 1) -> Nat]]
           /\ banned \in [RateKeys -> 0..Longest]
           /\ spared \in SUBSET RateKeys
           /\ Points \in Nat \ {0} /\ Interval \in Nat \ {0}
           /\ Block \in 0..Longest /\ Longest \in Nat /\ MaxBuckets \in Nat \ {0}
           /\ NoBucket \notin Buckets
  BY LimitsConstantsOK DEF L!RateTypeOK, Buckets

\* A filled bucket of which points are taken.
LEMMA TakingIsAllowed ==
    ASSUME NEW b \in Buckets, NEW g \in [0..(Interval - 1) -> Nat], Allows(b, g),
           NEW c \in Nat, c <= b.points, NEW h \in [0..(Interval - 1) -> Nat],
           h[0] = g[0] + c, \A i \in 1..(Interval - 1) : h[i] = g[i],
           NEW a \in Buckets, a.points = b.points - c, a.resetIn = b.resetIn
    PROVE  Allows(a, h)
<1> DEFINE points == b.points
           resetIn == b.resetIn
           rest == Interval - resetIn
<1>1. points \in Nat /\ points <= Points /\ resetIn \in 0..Interval /\ rest \in 0..Interval
  <2>1. points \in 0..Points /\ resetIn \in 0..Interval
    BY DEF Buckets
  <2>2. Points \in Nat /\ Interval \in Nat
    BY LimitsConstantsOK
  <2> HIDE DEF points, resetIn
  <2> QED
    BY <2>1, <2>2
<1>2. Interval \in Nat \ {0} /\ Points \in Nat
  BY LimitsConstantsOK
<1>3. \A n \in 1..Interval : Total(h, n) = Total(g, n) + c
  BY <1>2, TotalAdds
<1>4. Total(g, 0) = 0 /\ Total(h, 0) = 0 /\ \A n \in 0..Interval : Total(g, n) \in Nat
  BY <1>2, TotalSteps
<1>5. Total(g, rest) <= Points - points /\ Total(g, Interval) <= 2 * Points - points
  BY DEF Allows
<1>6. a.points = points - c /\ Interval - a.resetIn = rest
  OBVIOUS
<1> HIDE DEF points, rest, resetIn
<1>7. Total(h, rest) <= Points - (points - c)
  <2>1. CASE rest = 0
    <3>1. c <= points
      BY DEF points
    <3> QED
      BY <1>1, <1>2, <1>4, <2>1, <3>1
  <2>2. CASE rest # 0
    <3>1. rest \in 1..Interval
      BY <1>1, <1>2, <2>2
    <3>2. Total(h, rest) = Total(g, rest) + c /\ Total(g, rest) \in Nat
      BY <1>1, <1>3, <1>4, <3>1
    <3> QED
      BY <1>1, <1>2, <1>5, <3>2
  <2> QED
    BY <2>1, <2>2
<1>8. Total(h, Interval) <= 2 * Points - (points - c)
  <2>1. Interval \in 1..Interval /\ Interval \in 0..Interval
    BY <1>2
  <2>2. Total(h, Interval) = Total(g, Interval) + c /\ Total(g, Interval) \in Nat
    BY <1>3, <1>4, <2>1
  <2> QED
    BY <1>1, <1>2, <1>5, <2>2
<1> QED
  BY <1>6, <1>7, <1>8 DEF Allows

\* A bucket that was just filled, after an interval that saw one filling at most.
LEMMA FillingIsAllowed ==
    ASSUME NEW g \in [0..(Interval - 1) -> Nat], Total(g, Interval) <= Points,
           NEW b \in Buckets, b.resetIn = Interval
    PROVE  Allows(b, g)
<1> DEFINE points == b.points
<1>1. points \in 0..Points
  BY DEF Buckets
<1>2. Interval \in Nat \ {0} /\ Points \in Nat /\ Interval - Interval = 0 /\ Interval \in 0..Interval
  BY LimitsConstantsOK
<1>3. Total(g, 0) = 0 /\ Total(g, Interval) \in Nat
  BY <1>2, TotalSteps
<1> HIDE DEF points
<1>4. 0 <= Points - points /\ Total(g, Interval) <= 2 * Points - points
  BY <1>1, <1>2, <1>3
<1> QED
  BY <1>2, <1>3, <1>4 DEF Allows, points

\* An idle bucket has seen one filling at most in the interval.
LEMMA IdleIsSpare ==
    ASSUME NEW g \in [0..(Interval - 1) -> Nat], NEW b \in Buckets, b.resetIn = 0, Allows(b, g)
    PROVE  Total(g, Interval) <= Points
<1> DEFINE points == b.points
<1>1. points \in 0..Points
  BY DEF Buckets
<1>2. Interval \in Nat \ {0} /\ Points \in Nat /\ Interval - 0 = Interval /\ Interval \in 0..Interval
  BY LimitsConstantsOK
<1>3. Total(g, Interval) \in Nat
  BY <1>2, TotalSteps
<1>4. Total(g, Interval) <= Points - points
  BY <1>2 DEF Allows
<1> HIDE DEF points
<1> QED
  BY <1>1, <1>2, <1>3, <1>4

\* What the steps change in a bucket.
LEMMA BucketEdits ==
    ASSUME NEW b \in Buckets
    PROVE  /\ /\ [b EXCEPT !.points = Points, !.resetIn = Interval] \in Buckets
              /\ [b EXCEPT !.points = Points, !.resetIn = Interval].points = Points
              /\ [b EXCEPT !.points = Points, !.resetIn = Interval].resetIn = Interval
              /\ [b EXCEPT !.points = Points, !.resetIn = Interval].ban = b.ban
           /\ \A n \in 0..Points : /\ [b EXCEPT !.points = n] \in Buckets
                                   /\ [b EXCEPT !.points = n].points = n
                                   /\ [b EXCEPT !.points = n].resetIn = b.resetIn
                                   /\ [b EXCEPT !.points = n].ban = b.ban
           /\ \A n \in 0..Longest : /\ [b EXCEPT !.ban = n] \in Buckets
                                  /\ [b EXCEPT !.ban = n].points = b.points
                                  /\ [b EXCEPT !.ban = n].resetIn = b.resetIn
                                  /\ [b EXCEPT !.ban = n].ban = n
<1>1. Points \in 0..Points /\ Interval \in 0..Interval
  BY LimitsConstantsOK
<1>2. /\ [b EXCEPT !.points = Points, !.resetIn = Interval] \in Buckets
      /\ [b EXCEPT !.points = Points, !.resetIn = Interval].points = Points
      /\ [b EXCEPT !.points = Points, !.resetIn = Interval].resetIn = Interval
      /\ [b EXCEPT !.points = Points, !.resetIn = Interval].ban = b.ban
  BY <1>1 DEF Buckets
<1>3. \A n \in 0..Points : /\ [b EXCEPT !.points = n] \in Buckets
                           /\ [b EXCEPT !.points = n].points = n
                           /\ [b EXCEPT !.points = n].resetIn = b.resetIn
                           /\ [b EXCEPT !.points = n].ban = b.ban
  BY DEF Buckets
<1>4. \A n \in 0..Longest : /\ [b EXCEPT !.ban = n] \in Buckets
                          /\ [b EXCEPT !.ban = n].points = b.points
                          /\ [b EXCEPT !.ban = n].resetIn = b.resetIn
                          /\ [b EXCEPT !.ban = n].ban = n
  BY DEF Buckets
<1> QED
  BY <1>2, <1>3, <1>4

\* As MapOrderProofs shows of Within.
LEMMA RateWithin ==
    ASSUME NEW s \in Seq(RateKeys), NEW K
    PROVE  L!Within(s, K) \in Seq(RateKeys) /\ Len(L!Within(s, K)) \in Nat
<1>1. L!Within(s, K) = Within(s, K)
  BY DEF L!Within, L!Nth, L!PlacesOf, L!Cardinality, Within, Nth, PlacesOf, Cardinality
<1> QED
  BY <1>1, WithinShape, LenProperties

LEMMA RateConsumeKeeps ==
    ASSUME RateInv, NEW k \in RateKeys, NEW cost \in 1..(Points + 1), L!Consume(k, cost)
    PROVE  RateInv'
<1> DEFINE swept == L!Swept
           kept == L!Within(order, RateKeys \ swept)
           new == bucket[k] = NoBucket \/ k \in swept
           victims == IF new /\ Len(kept) >= MaxBuckets THEN {Head(kept)} ELSE {}
           b == IF new THEN L!Full ELSE bucket[k]
           filled == IF b.resetIn = 0 THEN [b EXCEPT !.points = Points, !.resetIn = Interval] ELSE b
           allowed == b.ban = 0 /\ filled.points >= cost
           after == IF b.ban > 0 THEN b
                    ELSE IF allowed THEN [filled EXCEPT !.points = @ - cost]
                    ELSE [filled EXCEPT !.ban = Block]
           left == L!Within(kept, RateKeys \ victims)
<1>1. /\ order' = IF new THEN Append(left, k) ELSE kept
      /\ bucket' = [x \in RateKeys |-> IF x = k THEN after
                      ELSE IF x \in swept \cup victims THEN NoBucket ELSE bucket[x]]
      /\ granted' = IF allowed /\ k \notin spared THEN [granted EXCEPT ![k][0] = @ + cost] ELSE granted
      /\ banned' = IF b.ban = 0 /\ ~allowed THEN [banned EXCEPT ![k] = Block] ELSE banned
      /\ spared' = spared \cup victims
  BY DEF L!Consume
<1>2. /\ L!RateTypeOK
      /\ \A x \in RateKeys \ spared : Owes(x)
  BY DEF RateInv
<1>3. /\ order \in Seq(RateKeys)
      /\ bucket \in [RateKeys -> Buckets \cup {NoBucket}]
      /\ granted \in [RateKeys -> [0..(Interval - 1) -> Nat]]
      /\ banned \in [RateKeys -> 0..Longest]
      /\ spared \in SUBSET RateKeys
      /\ Points \in Nat \ {0} /\ Interval \in Nat \ {0}
      /\ Block \in 0..Longest /\ Longest \in Nat /\ MaxBuckets \in Nat \ {0}
      /\ NoBucket \notin Buckets
  BY <1>2, RateTypes
<1>4. \A x \in swept : x \in RateKeys /\ bucket[x] \in Buckets /\ bucket[x].resetIn = 0 /\ bucket[x].ban = 0
  BY <1>3 DEF L!Swept, L!Idle
<1> HIDE DEF swept
<1>5. kept \in Seq(RateKeys) /\ Len(kept) \in Nat
  BY <1>3, RateWithin
<1> HIDE DEF kept
<1>6. victims \subseteq RateKeys
  <2>1. Len(kept) >= MaxBuckets => Head(kept) \in RateKeys
    BY <1>3, <1>5
  <2> QED
    BY <2>1
<1> HIDE DEF victims
<1>7. left \in Seq(RateKeys)
  BY <1>5, RateWithin
<1> HIDE DEF left
<1>8. b \in Buckets
  <2>1. L!Full \in Buckets
    BY <1>3 DEF L!Full, Buckets
  <2>2. ~new => bucket[k] \in Buckets
    BY <1>3
  <2> QED
    BY <2>1, <2>2
<1>9. new => b.resetIn = Interval /\ b.ban = 0
  BY DEF L!Full
<1>10. ~new => b = bucket[k] /\ bucket[k] # NoBucket
  OBVIOUS
<1>11. new => bucket[k] = NoBucket \/ k \in swept
  OBVIOUS
<1> HIDE DEF new, b
<1>12. /\ filled \in Buckets /\ filled.ban = b.ban
       /\ b.resetIn = 0 => filled.resetIn = Interval
       /\ b.resetIn # 0 => filled = b
  <2>1. CASE b.resetIn = 0
    <3>1. filled = [b EXCEPT !.points = Points, !.resetIn = Interval]
      BY <2>1
    <3> HIDE DEF filled
    <3> QED
      BY <1>8, <2>1, <3>1, BucketEdits
  <2>2. CASE b.resetIn # 0
    BY <1>8, <2>2
  <2> QED
    BY <2>1, <2>2
<1> HIDE DEF filled
<1>13. /\ after \in Buckets
       /\ b.ban > 0 => after = b
       /\ ~(b.ban > 0) => after.resetIn = filled.resetIn
       /\ ~(b.ban > 0) /\ allowed => after.points = filled.points - cost /\ after.ban = filled.ban
       /\ ~(b.ban > 0) /\ ~allowed => after.points = filled.points /\ after.ban = Block
  <2>1. cost \in Nat /\ b.ban \in 0..Longest /\ filled.points \in 0..Points
    BY <1>3, <1>8, <1>12 DEF Buckets
  <2>2. allowed => filled.points - cost \in 0..Points
    BY <1>3, <2>1
  <2>3. Block \in 0..Longest
    BY <1>3
  <2> HIDE DEF allowed
  <2>4. CASE b.ban > 0
    BY <1>8, <2>4
  <2>5. CASE ~(b.ban > 0) /\ allowed
    <3> DEFINE n == filled.points - cost
    <3>1. after = [filled EXCEPT !.points = n] /\ n \in 0..Points
      BY <2>2, <2>5
    <3> HIDE DEF after, n
    <3>2. after \in Buckets /\ after.points = n /\ after.resetIn = filled.resetIn /\ after.ban = filled.ban
      BY <1>12, <3>1, BucketEdits
    <3> QED
      BY <2>5, <3>2 DEF n
  <2>6. CASE ~(b.ban > 0) /\ ~allowed
    <3>1. after = [filled EXCEPT !.ban = Block]
      BY <2>6
    <3> HIDE DEF after
    <3>2. after \in Buckets /\ after.points = filled.points /\ after.resetIn = filled.resetIn /\ after.ban = Block
      BY <1>12, <2>3, <3>1, BucketEdits
    <3> QED
      BY <2>6, <3>2
  <2> QED
    BY <2>4, <2>5, <2>6
<1>14. b.ban \in 0..Longest /\ cost \in Nat
  BY <1>3, <1>8 DEF Buckets
<1>15. allowed => b.ban = 0 /\ cost <= filled.points
  <2>1. filled.points \in 0..Points
    BY <1>12 DEF Buckets
  <2> QED
    BY <1>3, <1>14, <2>1
<1> HIDE DEF after, allowed
<1>16. /\ granted' \in [RateKeys -> [0..(Interval - 1) -> Nat]]
       /\ \A x \in RateKeys : x # k \/ ~allowed => granted'[x] = granted[x]
       /\ allowed /\ k \notin spared => /\ granted'[k][0] = granted[k][0] + cost
                                        /\ \A i \in 1..(Interval - 1) : granted'[k][i] = granted[k][i]
  <2>1. CASE allowed /\ k \notin spared
    <3>1. granted' = [granted EXCEPT ![k] = [granted[k] EXCEPT ![0] = granted[k][0] + cost]]
      BY <1>1, <2>1
    <3> DEFINE h == [granted[k] EXCEPT ![0] = granted[k][0] + cost]
    <3>2. granted[k] \in [0..(Interval - 1) -> Nat] /\ 0 \in 0..(Interval - 1) /\ granted[k][0] \in Nat
      BY <1>3
    <3>3. /\ h \in [0..(Interval - 1) -> Nat] /\ h[0] = granted[k][0] + cost
          /\ \A i \in 1..(Interval - 1) : h[i] = granted[k][i]
      <4> DEFINE n == granted[k][0] + cost
      <4>1. n \in Nat
        BY <1>14, <3>2
      <4>2. \A i \in 1..(Interval - 1) : i \in 0..(Interval - 1) /\ i # 0
        OBVIOUS
      <4> HIDE DEF n
      <4>3. [granted[k] EXCEPT ![0] = n] \in [0..(Interval - 1) -> Nat]
        BY <3>2, <4>1
      <4> QED
        BY <3>2, <4>1, <4>2, <4>3 DEF n
    <3> HIDE DEF h
    <3>4. granted' = [granted EXCEPT ![k] = h]
      BY <3>1 DEF h
    <3> QED
      BY <1>3, <2>1, <3>3, <3>4
  <2>2. CASE ~(allowed /\ k \notin spared)
    BY <1>1, <1>3, <2>2
  <2> QED
    BY <2>1, <2>2
<1>17. /\ banned' \in [RateKeys -> 0..Longest]
       /\ \A x \in RateKeys : x # k => banned'[x] = banned[x]
       /\ banned'[k] = IF b.ban = 0 /\ ~allowed THEN Block ELSE banned[k]
  BY <1>1, <1>3
<1>18. L!RateTypeOK'
  <2>1. order' \in Seq(RateKeys)
    BY <1>1, <1>5, <1>7
  <2>2. bucket' \in [RateKeys -> Buckets \cup {NoBucket}]
    BY <1>1, <1>3, <1>13
  <2>3. spared' \subseteq RateKeys
    BY <1>1, <1>3, <1>6
  <2> QED
    BY <1>16, <1>17, <2>1, <2>2, <2>3 DEF L!RateTypeOK, Buckets
<1>19. ASSUME NEW x \in RateKeys \ spared' PROVE Owes(x)'
  <2>1. x \in RateKeys /\ x \notin spared /\ x \notin victims /\ Owes(x) /\ granted[x] \in [0..(Interval - 1) -> Nat]
    BY <1>1, <1>2, <1>3
  <2>2. x \in swept => Total(granted[x], Interval) <= Points /\ ~(banned[x] > 0)
    <3> SUFFICES ASSUME x \in swept PROVE Total(granted[x], Interval) <= Points /\ ~(banned[x] > 0)
      OBVIOUS
    <3>1. bucket[x] \in Buckets /\ bucket[x].resetIn = 0 /\ bucket[x].ban = 0 /\ bucket[x] # NoBucket
      BY <1>3, <1>4
    <3>2. Allows(bucket[x], granted[x]) /\ ~(banned[x] > 0)
      <4>1. banned[x] > 0 => banned[x] = 0
        BY <2>1, <3>1 DEF Owes
      <4>2. banned[x] \in Nat
        BY <1>3
      <4> QED
        BY <2>1, <3>1, <4>1, <4>2 DEF Owes
    <3> QED
      BY <2>1, <3>1, <3>2, IdleIsSpare
  <2>3. CASE x # k
    <3>1. granted'[x] = granted[x] /\ banned'[x] = banned[x]
      BY <1>16, <1>17, <2>1, <2>3
    <3>2. bucket'[x] = IF x \in swept THEN NoBucket ELSE bucket[x]
      BY <1>1, <2>1, <2>3
    <3> QED
      BY <2>1, <2>2, <3>1, <3>2 DEF Owes
  <2>4. CASE x = k
    <3> DEFINE g == granted[x]
               h == granted'[x]
    <3>1. bucket'[x] = after /\ after # NoBucket
      BY <1>1, <1>3, <1>13, <2>4
    <3>2. CASE b.ban > 0
      <4>1. ~new /\ ~allowed
        BY <1>9, <1>15, <3>2
      <4>2. bucket'[x] = bucket[x] /\ granted'[x] = granted[x] /\ banned'[x] = banned[x]
        BY <1>10, <1>13, <1>16, <1>17, <2>1, <2>4, <3>1, <3>2, <4>1
      <4> QED
        BY <2>1, <4>2 DEF Owes
    <3>3. CASE ~(b.ban > 0)
      <4>1. b.ban = 0 /\ filled.ban = 0
        BY <1>12, <1>14, <3>3
      <4>2. ~(banned[x] > 0)
        <5>1. CASE new
          BY <1>11, <2>1, <2>2, <2>4, <5>1 DEF Owes
        <5>2. CASE ~new
          <6>1. banned[x] > 0 => banned[x] = 0
            BY <1>10, <2>1, <2>4, <4>1, <5>2 DEF Owes
          <6>2. banned[x] \in Nat
            BY <1>3, <2>1
          <6> QED
            BY <6>1, <6>2
        <5> QED
          BY <5>1, <5>2
      <4>3. Allows(filled, g)
        <5>1. CASE new
          <6>1. Total(g, Interval) <= Points
            BY <1>11, <2>1, <2>2, <2>4, <5>1 DEF Owes
          <6>2. filled.resetIn = Interval
            <7>1. b.resetIn = Interval /\ Interval # 0
              BY <1>3, <1>9, <5>1
            <7> QED
              BY <1>12, <7>1
          <6> QED
            BY <1>12, <2>1, <6>1, <6>2, FillingIsAllowed
        <5>2. CASE ~new
          <6>1. Allows(b, g)
            BY <1>10, <2>1, <2>4, <5>2 DEF Owes
          <6>2. CASE b.resetIn = 0
            <7>1. Total(g, Interval) <= Points
              BY <1>8, <2>1, <6>1, <6>2, IdleIsSpare
            <7> QED
              BY <1>12, <2>1, <6>2, <7>1, FillingIsAllowed
          <6>3. CASE b.resetIn # 0
            BY <1>12, <6>1, <6>3
          <6> QED
            BY <6>2, <6>3
        <5> QED
          BY <5>1, <5>2
      <4>4. CASE allowed
        <5>1. h[0] = g[0] + cost /\ \A i \in 1..(Interval - 1) : h[i] = g[i]
          BY <1>16, <2>1, <2>4, <4>4
        <5>2. h \in [0..(Interval - 1) -> Nat] /\ g \in [0..(Interval - 1) -> Nat]
          BY <1>16, <2>1
        <5>3. after.points = filled.points - cost /\ after.resetIn = filled.resetIn /\ cost <= filled.points
          BY <1>13, <1>15, <3>3, <4>4
        <5> HIDE DEF g, h
        <5>4. Allows(after, h)
          BY <1>12, <1>13, <1>14, <4>3, <5>1, <5>2, <5>3, TakingIsAllowed
        <5>5. banned'[x] = banned[x]
          BY <1>17, <2>4, <4>4
        <5> QED
          BY <3>1, <4>2, <5>4, <5>5 DEF Owes, h
      <4>5. CASE ~allowed
        <5>1. granted'[x] = granted[x] /\ banned'[x] = Block
          BY <1>16, <1>17, <2>1, <2>4, <4>1, <4>5
        <5>2. after.points = filled.points /\ after.resetIn = filled.resetIn /\ after.ban = Block
          BY <1>13, <3>3, <4>5
        <5>3. Allows(after, granted'[x])
          BY <4>3, <5>1, <5>2 DEF Allows
        <5> QED
          BY <3>1, <5>1, <5>2, <5>3 DEF Owes
      <4> QED
        BY <4>4, <4>5
    <3> QED
      BY <3>2, <3>3
  <2> QED
    BY <2>3, <2>4
<1>20. \A x \in RateKeys \ spared' : Owes(x)'
  BY <1>19
<1> QED
  BY <1>18, <1>20 DEF RateInv

LEMMA RateResetKeeps ==
    ASSUME RateInv, NEW K \in SUBSET RateKeys, L!Reset(K)
    PROVE  RateInv'
<1> DEFINE left == L!Within(order, RateKeys \ K)
<1>1. /\ order' = left /\ granted' = granted /\ banned' = banned /\ spared' = spared \cup K
      /\ bucket' = [k \in RateKeys |-> IF k \in K THEN NoBucket ELSE bucket[k]]
  BY DEF L!Reset
<1>2. /\ L!RateTypeOK
      /\ \A x \in RateKeys \ spared : Owes(x)
  BY DEF RateInv
<1>3. left \in Seq(RateKeys)
  BY <1>2, RateTypes, RateWithin
<1> HIDE DEF left
<1>4. L!RateTypeOK'
  BY <1>1, <1>2, <1>3 DEF L!RateTypeOK
<1>5. ASSUME NEW x \in RateKeys \ spared' PROVE Owes(x)'
  <2>1. Owes(x) /\ bucket'[x] = bucket[x]
    BY <1>1, <1>2
  <2> QED
    BY <1>1, <2>1 DEF Owes
<1> QED
  BY <1>4, <1>5 DEF RateInv

LEMMA RateBanKeeps ==
    ASSUME RateInv, NEW k \in RateKeys, NEW duration \in 0..Longest, L!Ban(k, duration)
    PROVE  RateInv'
<1> DEFINE empty == [points |-> 0, resetIn |-> Interval, ban |-> duration]
           after == IF bucket[k] = NoBucket THEN empty ELSE [bucket[k] EXCEPT !.ban = duration]
<1>1. /\ bucket' = [bucket EXCEPT ![k] = after]
      /\ order' = IF bucket[k] = NoBucket THEN Append(order, k) ELSE order
      /\ banned' = [banned EXCEPT ![k] = duration]
      /\ granted' = granted /\ spared' = spared
  BY DEF L!Ban
<1>2. /\ L!RateTypeOK
      /\ \A x \in RateKeys \ spared : Owes(x)
  BY DEF RateInv
<1>3. /\ order \in Seq(RateKeys)
      /\ bucket \in [RateKeys -> Buckets \cup {NoBucket}]
      /\ granted \in [RateKeys -> [0..(Interval - 1) -> Nat]]
      /\ banned \in [RateKeys -> 0..Longest]
      /\ spared \in SUBSET RateKeys
      /\ Points \in Nat \ {0} /\ Interval \in Nat \ {0} /\ duration \in 0..Longest /\ Longest \in Nat
      /\ NoBucket \notin Buckets
  BY <1>2, RateTypes
<1>4. /\ empty \in Buckets /\ empty.ban = duration /\ empty.resetIn = Interval
  BY <1>3 DEF Buckets
<1>5. bucket[k] # NoBucket => /\ after \in Buckets /\ after.ban = duration
                              /\ after.points = bucket[k].points /\ after.resetIn = bucket[k].resetIn
  <2> SUFFICES ASSUME bucket[k] # NoBucket
               PROVE  /\ after \in Buckets /\ after.ban = duration
                      /\ after.points = bucket[k].points /\ after.resetIn = bucket[k].resetIn
    OBVIOUS
  <2> DEFINE b == bucket[k]
  <2>1. b \in Buckets /\ after = [b EXCEPT !.ban = duration] /\ duration \in 0..Longest
    BY <1>3
  <2> HIDE DEF after, b
  <2>2. after \in Buckets /\ after.ban = duration /\ after.points = b.points /\ after.resetIn = b.resetIn
    BY <2>1, BucketEdits
  <2> QED
    BY <2>2 DEF b
<1>6. bucket[k] = NoBucket => after = empty
  OBVIOUS
<1> HIDE DEF after, empty
<1>7. after \in Buckets /\ after.ban = duration /\ after # NoBucket
  BY <1>3, <1>4, <1>5, <1>6
<1>8. L!RateTypeOK'
  <2>1. order' \in Seq(RateKeys) /\ bucket' \in [RateKeys -> Buckets \cup {NoBucket}] /\ banned' \in [RateKeys -> 0..Longest]
    BY <1>1, <1>3, <1>7
  <2> QED
    BY <1>1, <1>3, <2>1 DEF L!RateTypeOK, Buckets
<1>9. ASSUME NEW x \in RateKeys \ spared' PROVE Owes(x)'
  <2>1. Owes(x) /\ granted'[x] = granted[x] /\ granted[x] \in [0..(Interval - 1) -> Nat]
    BY <1>1, <1>2, <1>3
  <2>2. CASE x # k
    <3>1. bucket'[x] = bucket[x] /\ banned'[x] = banned[x]
      BY <1>1, <1>3, <2>2
    <3> QED
      BY <2>1, <3>1 DEF Owes
  <2>3. CASE x = k
    <3>1. bucket'[x] = after /\ banned'[x] = duration
      BY <1>1, <1>3, <2>3
    <3>2. Allows(after, granted[x])
      <4>1. CASE bucket[k] = NoBucket
        <5>1. Total(granted[x], Interval) <= Points /\ after.resetIn = Interval
          BY <1>4, <1>6, <2>1, <2>3, <4>1 DEF Owes
        <5> QED
          BY <1>7, <2>1, <5>1, FillingIsAllowed
      <4>2. CASE bucket[k] # NoBucket
        <5>1. Allows(bucket[k], granted[x])
          BY <2>1, <2>3, <4>2 DEF Owes
        <5> QED
          BY <1>5, <4>2, <5>1 DEF Allows
      <4> QED
        BY <4>1, <4>2
    <3> QED
      BY <1>7, <2>1, <3>1, <3>2 DEF Owes
  <2> QED
    BY <2>2, <2>3
<1> QED
  BY <1>8, <1>9 DEF RateInv

LEMMA RateUnbanKeeps ==
    ASSUME RateInv, NEW k \in RateKeys, L!Unban(k)
    PROVE  RateInv'
<1>1. /\ bucket[k] # NoBucket /\ bucket' = [bucket EXCEPT ![k] = [bucket[k] EXCEPT !.ban = 0]]
      /\ spared' = spared \cup {k}
      /\ order' = order /\ granted' = granted /\ banned' = banned
  BY DEF L!Unban
<1>2. /\ L!RateTypeOK
      /\ \A x \in RateKeys \ spared : Owes(x)
  BY DEF RateInv
<1>3. /\ bucket \in [RateKeys -> Buckets \cup {NoBucket}] /\ spared \in SUBSET RateKeys /\ Block \in 0..Longest /\ Longest \in Nat
  BY <1>2, RateTypes
<1>4. [bucket[k] EXCEPT !.ban = 0] \in Buckets
  <2> DEFINE b == bucket[k]
  <2>1. b \in Buckets /\ 0 \in 0..Longest
    BY <1>1, <1>3
  <2> HIDE DEF b
  <2>2. [b EXCEPT !.ban = 0] \in Buckets
    BY <2>1, BucketEdits
  <2> QED
    BY <2>2 DEF b
<1>5. L!RateTypeOK'
  <2>1. bucket' \in [RateKeys -> Buckets \cup {NoBucket}]
    BY <1>1, <1>3, <1>4
  <2> QED
    BY <1>1, <1>2, <1>3, <2>1 DEF L!RateTypeOK, Buckets
<1>6. ASSUME NEW x \in RateKeys \ spared' PROVE Owes(x)'
  <2>1. Owes(x) /\ bucket'[x] = bucket[x]
    BY <1>1, <1>2, <1>3
  <2> QED
    BY <1>1, <2>1 DEF Owes
<1> QED
  BY <1>5, <1>6 DEF RateInv

LEMMA RateTickKeeps ==
    ASSUME RateInv, L!Tick
    PROVE  RateInv'
<1> DEFINE aged(b) == [b EXCEPT !.resetIn = L!Less(@), !.ban = L!Less(@)]
           later(g) == [i \in 0..(Interval - 1) |-> IF i = 0 THEN 0 ELSE g[i - 1]]
<1>1. /\ bucket' = [k \in RateKeys |-> IF bucket[k] = NoBucket THEN NoBucket ELSE aged(bucket[k])]
      /\ granted' = [k \in RateKeys |-> later(granted[k])]
      /\ banned' = [k \in RateKeys |-> L!Less(banned[k])]
      /\ order' = order /\ spared' = spared
  BY DEF L!Tick
<1>2. /\ L!RateTypeOK
      /\ \A x \in RateKeys \ spared : Owes(x)
  BY DEF RateInv
<1>3. /\ order \in Seq(RateKeys)
      /\ bucket \in [RateKeys -> Buckets \cup {NoBucket}]
      /\ granted \in [RateKeys -> [0..(Interval - 1) -> Nat]]
      /\ banned \in [RateKeys -> 0..Longest]
      /\ spared \in SUBSET RateKeys
      /\ Points \in Nat \ {0} /\ Interval \in Nat \ {0} /\ Block \in 0..Longest /\ Longest \in Nat
      /\ NoBucket \notin Buckets
  BY <1>2, RateTypes
<1>4. ASSUME NEW b \in Buckets
      PROVE  /\ aged(b) \in Buckets /\ aged(b).points = b.points
             /\ aged(b).resetIn = L!Less(b.resetIn) /\ aged(b).ban = L!Less(b.ban)
  <2>1. /\ b.points \in 0..Points /\ b.resetIn \in 0..Interval /\ b.ban \in 0..Longest
        /\ L!Less(b.resetIn) \in 0..Interval /\ L!Less(b.ban) \in 0..Longest
    BY <1>3 DEF Buckets, L!Less
  <2> QED
    BY <2>1 DEF Buckets
<1>5. ASSUME NEW g \in [0..(Interval - 1) -> Nat]
      PROVE  /\ later(g) \in [0..(Interval - 1) -> Nat]
             /\ \A n \in 0..(Interval - 1) : Total(later(g), n + 1) = Total(g, n)
  <2>1. ASSUME NEW i \in 0..(Interval - 1) PROVE later(g)[i] \in Nat
    <3>1. i # 0 => i - 1 \in 0..(Interval - 1)
      BY <1>3
    <3> QED
      BY <3>1
  <2>2. ASSUME NEW i \in 0..(Interval - 2) PROVE later(g)[i + 1] = g[i]
    <3> DEFINE j == i + 1
    <3>1. j \in 0..(Interval - 1) /\ j # 0 /\ j - 1 = i
      BY <1>3
    <3> HIDE DEF j
    <3>2. later(g)[j] = g[i]
      BY <3>1
    <3> QED
      BY <3>2 DEF j
  <2>3. 0 \in 0..(Interval - 1)
    BY <1>3
  <2>4. later(g)[0] = 0
    BY <2>3
  <2>5. later(g) \in [0..(Interval - 1) -> Nat]
    BY <2>1
  <2> HIDE DEF later
  <2> QED
    BY <1>3, <2>2, <2>4, <2>5, TotalShifts
<1> HIDE DEF aged, later
<1>6. L!RateTypeOK'
  <2>1. bucket' \in [RateKeys -> Buckets \cup {NoBucket}]
    BY <1>1, <1>3, <1>4
  <2>2. granted' \in [RateKeys -> [0..(Interval - 1) -> Nat]]
    BY <1>1, <1>3, <1>5
  <2>3. banned' \in [RateKeys -> 0..Longest]
    BY <1>1, <1>3 DEF L!Less
  <2> QED
    BY <1>1, <1>3, <2>1, <2>2, <2>3 DEF L!RateTypeOK, Buckets
<1>7. ASSUME NEW x \in RateKeys \ spared' PROVE Owes(x)'
  <2> DEFINE g == granted[x]
             h == granted'[x]
             M == Interval - 1
  <2>1. Owes(x) /\ g \in [0..(Interval - 1) -> Nat] /\ h = later(g) /\ banned'[x] = L!Less(banned[x])
    BY <1>1, <1>2, <1>3
  <2>2. \A n \in 0..M : Total(h, n + 1) = Total(g, n)
    BY <1>5, <2>1
  <2>3. /\ \A n \in 0..Interval : Total(g, n) \in Nat
        /\ \A n \in 0..M : Total(g, n + 1) = Total(g, n) + g[n]
        /\ \A n \in 0..M : g[n] \in Nat
    <3>1. g \in [0..M -> Nat]
      BY <2>1
    <3> HIDE DEF g
    <3> QED
      BY <1>3, <3>1, TotalSteps
  <2>4. M \in 0..M /\ M \in 0..Interval /\ M + 1 = Interval /\ Interval \in 0..Interval
    BY <1>3
  <2>5. Total(h, Interval) <= Total(g, Interval)
    <3> HIDE DEF M, g, h
    <3>1. Total(h, M + 1) = Total(g, M) /\ Total(g, M + 1) = Total(g, M) + g[M]
      BY <2>2, <2>3, <2>4
    <3>2. Total(g, M) \in Nat /\ g[M] \in Nat
      BY <2>3, <2>4
    <3>3. Total(h, Interval) = Total(g, M) /\ Total(g, Interval) = Total(g, M) + g[M]
      BY <2>4, <3>1
    <3> QED
      BY <3>2, <3>3
  <2>6. Total(g, Interval) \in Nat /\ Total(h, Interval) \in Nat
    <3> HIDE DEF M, g, h
    <3>1. Total(h, M + 1) = Total(g, M)
      BY <2>2, <2>4
    <3> QED
      BY <2>3, <2>4, <3>1
  <2>7. CASE bucket[x] = NoBucket
    <3>1. bucket'[x] = NoBucket /\ Total(g, Interval) <= Points /\ ~(banned[x] > 0)
      BY <1>1, <2>1, <2>7 DEF Owes
    <3>2. ~(banned'[x] > 0)
      BY <1>3, <2>1, <3>1 DEF L!Less
    <3>3. Total(h, Interval) <= Points
      <4> HIDE DEF g, h
      <4> QED
        BY <1>3, <2>5, <2>6, <3>1
    <3> QED
      BY <1>3, <3>1, <3>2, <3>3 DEF Owes
  <2>8. CASE bucket[x] # NoBucket
    <3> DEFINE b == bucket[x]
               c == bucket'[x]
               points == b.points
               r == b.resetIn
               s == c.resetIn
    <3>1. b \in Buckets /\ c = aged(b)
      BY <1>1, <1>3, <2>8
    <3>2. /\ c \in Buckets /\ c # NoBucket /\ c.points = points
          /\ s = L!Less(r) /\ c.ban = L!Less(b.ban)
      BY <1>3, <1>4, <3>1
    <3>3. points \in 0..Points /\ r \in 0..Interval
      BY <3>1 DEF Buckets
    <3>4. Total(g, Interval - r) <= Points - points /\ Total(g, Interval) <= 2 * Points - points
      BY <2>1, <2>8 DEF Owes, Allows
    <3>5. banned'[x] > 0 => c.ban = banned'[x]
      <4>1. banned[x] > 0 => b.ban = banned[x]
        BY <2>1 DEF Owes
      <4>2. banned'[x] > 0 => banned[x] > 0
        BY <1>3, <2>1 DEF L!Less
      <4> HIDE DEF b, c
      <4> QED
        BY <2>1, <3>2, <4>1, <4>2
    <3>6. Total(h, Interval - s) <= Points - points
      <4>1. CASE r = 0
        <5>1. s = 0 /\ Interval - s = Interval /\ Interval - r = Interval
          BY <1>3, <3>2, <4>1 DEF L!Less
        <5>2. Total(g, Interval) <= Points - points
          BY <3>4, <5>1
        <5>3. Total(h, Interval) <= Points - points
          <6> HIDE DEF g, h, points
          <6> QED
            BY <1>3, <2>5, <2>6, <3>3, <5>2
        <5> QED
          BY <5>1, <5>3
      <4>2. CASE r # 0
        <5> DEFINE n == Interval - r
                   m == Interval - s
        <5>1. s = r - 1
          BY <3>2, <3>3, <4>2 DEF L!Less
        <5>2. n \in 0..M /\ m = n + 1
          <6> HIDE DEF r, s
          <6> QED
            BY <1>3, <3>3, <4>2, <5>1
        <5>3. Total(g, n) <= Points - points
          BY <3>4
        <5> HIDE DEF n, m, g, h, M, points
        <5>4. Total(h, n + 1) = Total(g, n)
          BY <2>2, <5>2
        <5>5. Total(h, m) = Total(g, n)
          BY <5>2, <5>4
        <5> QED
          BY <5>3, <5>5 DEF m
      <4> QED
        BY <4>1, <4>2
    <3>7. Total(h, Interval) <= 2 * Points - points
      <4> HIDE DEF g, h, points
      <4> QED
        BY <1>3, <2>5, <2>6, <3>3, <3>4
    <3>8. Allows(c, h)
      <4>1. c.points = points /\ c.resetIn = s
        BY <3>2
      <4> HIDE DEF c, h, s, points
      <4> QED
        BY <3>6, <3>7, <4>1 DEF Allows
    <3> QED
      BY <3>2, <3>5, <3>8 DEF Owes
  <2> QED
    BY <2>7, <2>8
<1> QED
  BY <1>6, <1>7 DEF RateInv

LEMMA RateInitHolds == PartsInit => RateInv
<1> SUFFICES ASSUME L!Init PROVE RateInv
  BY DEF PartsInit
<1>1. Interval \in Nat \ {0} /\ Points \in Nat /\ Block \in 0..Longest /\ Longest \in Nat
  BY LimitsConstantsOK
<1>2. /\ order = <<>> /\ bucket = [k \in RateKeys |-> NoBucket]
      /\ granted = [k \in RateKeys |-> [i \in 0..(Interval - 1) |-> 0]]
      /\ banned = [k \in RateKeys |-> 0] /\ spared = {}
  BY DEF L!Init
<1>3. L!RateTypeOK
  BY <1>1, <1>2, EmptySeq DEF L!RateTypeOK
<1> DEFINE g == [i \in 0..(Interval - 1) |-> 0]
<1>4. g \in [0..(Interval - 1) -> Nat] /\ \A i \in 0..(Interval - 1) : g[i] = 0
  OBVIOUS
<1> HIDE DEF g
<1>5. Total(g, Interval) = 0
  <2> DEFINE G == {n \in 0..Interval : Total(g, n) = 0}
  <2>1. /\ Total(g, 0) = 0
        /\ \A n \in 0..(Interval - 1) : Total(g, n + 1) = Total(g, n) + g[n]
    BY <1>1, <1>4, TotalSteps
  <2>2. 0 \in G
    BY <1>1, <2>1
  <2>3. \A n \in 0..(Interval - 1) : n \in G => n + 1 \in G
    BY <1>1, <1>4, <2>1
  <2>4. Interval \in 0..Interval
    BY <1>1
  <2>5. \A n \in 0..Interval : n \in G
    <3> HIDE DEF G
    <3> QED
      BY <1>1, <2>2, <2>3, Climb
  <2> QED
    BY <2>4, <2>5
<1>6. ASSUME NEW k \in RateKeys PROVE Owes(k)
  <2>1. bucket[k] = NoBucket /\ granted[k] = g /\ banned[k] = 0
    BY <1>2 DEF g
  <2> QED
    BY <1>1, <1>5, <2>1 DEF Owes
<1> QED
  BY <1>3, <1>6 DEF RateInv

LEMMA RateStepKeeps == RateInv /\ (L!Next \/ UNCHANGED rateVars) => RateInv'
<1> SUFFICES ASSUME RateInv, L!Next \/ UNCHANGED rateVars PROVE RateInv'
  OBVIOUS
<1>1. CASE UNCHANGED rateVars
  BY <1>1 DEF rateVars, RateInv, L!RateTypeOK, Owes, Allows
<1>2. CASE L!Next
  <2>1. \A K : K = {order[i] : i \in DOMAIN order} => K \in SUBSET RateKeys
    BY DEF RateInv, L!RateTypeOK
  <2> QED
    BY <1>2, <2>1, RateConsumeKeeps, RateResetKeeps, RateBanKeeps, RateUnbanKeeps, RateTickKeeps DEF L!Next
<1> QED
  BY <1>1, <1>2

LEMMA RateSound == RateInv => L!LimitHolds
<1> SUFFICES ASSUME RateInv, NEW k \in RateKeys \ spared PROVE L!Spent(k, Interval) <= 2 * Points
  BY DEF RateInv, L!LimitHolds, Owes
<1>1. L!RateTypeOK /\ Owes(k) /\ k \in RateKeys
  BY DEF RateInv
<1>2. L!Spent(k, Interval) = Total(granted[k], Interval)
  BY SpentIsTotal
<1>3. Points \in Nat /\ Total(granted[k], Interval) \in Nat
  <2>1. granted[k] \in [0..(Interval - 1) -> Nat] /\ Interval \in Nat /\ Interval \in 0..Interval /\ Points \in Nat
    BY <1>1, RateTypes
  <2> QED
    BY <2>1, TotalSteps
<1>4. CASE bucket[k] = NoBucket
  <2>1. Total(granted[k], Interval) <= Points
    BY <1>1, <1>4 DEF Owes
  <2> QED
    BY <1>2, <1>3, <2>1
<1>5. CASE bucket[k] # NoBucket
  <2> DEFINE points == bucket[k].points
  <2>1. Total(granted[k], Interval) <= 2 * Points - points
    BY <1>1, <1>5 DEF Owes, Allows
  <2>2. points \in Nat
    <3>1. bucket[k] \in Buckets
      BY <1>1, <1>5, RateTypes
    <3> QED
      BY <3>1 DEF Buckets
  <2> HIDE DEF points
  <2> QED
    BY <1>2, <1>3, <2>1, <2>2
<1> QED
  BY <1>4, <1>5

\* As MapOrderProofs shows of Within.
LEMMA ThrottleDrops ==
    ASSUME T!ThrottleTypeOK, NEW X
    PROVE  /\ T!Drop(X) \in Seq(Topics) /\ Len(T!Drop(X)) <= Len(topics) /\ Len(T!Drop(X)) \in Nat
           /\ \A i \in DOMAIN topics : topics[i] \in X => Len(T!Drop(X)) <= Len(topics) - 1
           /\ \A t \in Topics : T!Held(t) /\ t \notin X => \E n \in DOMAIN T!Drop(X) : T!Drop(X)[n] = t
           /\ \A n \in DOMAIN T!Drop(X) : T!Held(T!Drop(X)[n]) /\ T!Drop(X)[n] \notin X
<1> DEFINE K == Topics \ X
           W == Within(topics, K)
<1>1. T!Drop(X) = W
  BY DEF T!Drop, T!Within, T!Nth, T!PlacesOf, T!Cardinality, Within, Nth, PlacesOf, Cardinality
<1>2. topics \in Seq(Topics) /\ DOMAIN topics = 1..Len(topics) /\ \A i \in DOMAIN topics : topics[i] \in Topics
  BY DEF T!ThrottleTypeOK
<1>3. W \in Seq(Topics) /\ Len(W) <= Len(topics) /\ Len(W) \in Nat
  <2>1. W \in Seq(Topics) /\ Len(W) <= Len(topics)
    BY <1>2, WithinShape
  <2> QED
    BY <2>1, LenProperties
<1>4. \A i \in DOMAIN topics : topics[i] \notin K => Len(W) <= Len(topics) - 1
  BY <1>2, WithinDrops
<1>5. /\ \A n \in DOMAIN W : \E i \in DOMAIN topics : topics[i] = W[n] /\ topics[i] \in K
      /\ \A i \in DOMAIN topics : topics[i] \in K => \E n \in DOMAIN W : W[n] = topics[i]
  BY <1>2, WithinKeeps
<1> HIDE DEF W
<1> QED
  BY <1>1, <1>2, <1>3, <1>4, <1>5 DEF T!Held

\* What a topic's state says of it.
Waits(t) ==
    /\ ~T!Held(t) => delay[t] = "none"
    /\ delay[t] = "none" => pending[t] = 0
    /\ pending[t] \in {0, given[t]}
    /\ cancelled[t] <= given[t]
    /\ ~threw => /\ delay[t] # "over"
                 /\ \/ given[t] = cancelled[t] \/ sent[t] = given[t]
                    \/ T!Held(t) /\ pending[t] = given[t] /\ delay[t] = "armed"

LEMMA ThrottleInitHolds == PartsInit => ThrottleInv
<1> SUFFICES ASSUME T!Init PROVE ThrottleInv
  BY DEF PartsInit
<1>1. T!ThrottleTypeOK
  <2>1. MaxTopics \in Nat /\ MaxMsgs \in Nat
    BY LimitsConstantsOK
  <2>2. topics \in Seq(Topics) /\ Len(topics) <= MaxTopics
    <3>1. topics = <<>> /\ Len(topics) = 0 /\ topics \in Seq(Topics)
      BY EmptySeq DEF T!Init
    <3> QED
      BY <2>1, <3>1
  <2>3. /\ pending \in [Topics -> 0..MaxMsgs] /\ given \in [Topics -> 0..MaxMsgs]
        /\ sent \in [Topics -> 0..MaxMsgs] /\ cancelled \in [Topics -> 0..MaxMsgs]
        /\ delay \in [Topics -> {"none", "armed", "over"}]
    BY <2>1 DEF T!Init
  <2> QED
    BY <2>2, <2>3 DEF T!Init, T!ThrottleTypeOK
<1> QED
  BY <1>1 DEF ThrottleInv, T!Init

LEMMA ThrottlePublishKeeps ==
    ASSUME ThrottleInv, NEW t \in Topics, T!Publish(t)
    PROVE  ThrottleInv'
<1> DEFINE id == given[t] + 1
           victims == IF ~T!Held(t) /\ Len(topics) >= MaxTopics THEN {Head(topics)} ELSE {}
           leading == ~debounces /\ (~T!Held(t) \/ delay[t] = "none")
           left == T!Drop(victims)
<1>1. /\ given' = [given EXCEPT ![t] = id]
      /\ topics' = IF T!Held(t) THEN topics ELSE Append(left, t)
      /\ sent' = IF leading /\ id \notin Bad THEN [T!Evicted(victims) EXCEPT ![t] = id] ELSE T!Evicted(victims)
      /\ pending' = [x \in Topics |->
            IF x \in victims THEN 0
            ELSE IF x # t THEN pending[x]
            ELSE IF leading THEN (IF id \in Bad THEN pending[t] ELSE 0)
            ELSE id]
      /\ delay' = [x \in Topics |->
            IF x \in victims THEN "none"
            ELSE IF x # t THEN delay[x]
            ELSE IF leading THEN (IF id \in Bad THEN "none" ELSE "armed")
            ELSE IF debounces THEN "armed" ELSE delay[t]]
      /\ cancelled' = [x \in Topics |->
            IF (x = t /\ leading /\ id \in Bad) \/ (x \in victims /\ pending[x] \in Bad) THEN given'[x]
            ELSE cancelled[x]]
      /\ debounces' = debounces /\ threw' = threw /\ given[t] < MaxMsgs
  BY DEF T!Publish, T!NextPending
<1>2. /\ T!ThrottleTypeOK
      /\ \A x \in Topics : Waits(x)
  BY DEF ThrottleInv, Waits
<1>3. /\ debounces \in BOOLEAN /\ threw \in BOOLEAN
      /\ topics \in Seq(Topics) /\ Len(topics) \in Nat /\ Len(topics) <= MaxTopics
      /\ pending \in [Topics -> 0..MaxMsgs] /\ given \in [Topics -> 0..MaxMsgs]
      /\ sent \in [Topics -> 0..MaxMsgs] /\ cancelled \in [Topics -> 0..MaxMsgs]
      /\ delay \in [Topics -> {"none", "armed", "over"}]
  BY <1>2 DEF T!ThrottleTypeOK
<1>4. MaxTopics \in Nat \ {0} /\ MaxMsgs \in Nat /\ 0 \notin Bad
  BY LimitsConstantsOK
<1>5. id \in 0..MaxMsgs /\ id \in Nat \ {0}
  <2>1. given[t] \in 0..MaxMsgs /\ given[t] < MaxMsgs
    BY <1>1, <1>3
  <2> QED
    BY <1>4, <2>1
<1>6. Len(topics) >= MaxTopics => Head(topics) \in Topics /\ 1 \in DOMAIN topics /\ topics[1] = Head(topics)
  BY <1>3, <1>4
<1>7. /\ t \notin victims /\ victims \subseteq Topics
      /\ \A x \in victims : x = Head(topics) /\ ~T!Held(t) /\ Len(topics) >= MaxTopics
  BY <1>6 DEF T!Held
<1>8. topics' \in Seq(Topics) /\ Len(topics') <= MaxTopics
  <2>1. CASE T!Held(t)
    BY <1>1, <1>3, <2>1
  <2>2. CASE ~T!Held(t)
    <3>1. left \in Seq(Topics) /\ Len(left) \in Nat /\ Len(left) <= MaxTopics - 1
      <4>1. left \in Seq(Topics) /\ Len(left) \in Nat /\ Len(left) <= Len(topics)
        BY <1>2, ThrottleDrops
      <4>2. Len(topics) >= MaxTopics => Len(left) <= Len(topics) - 1
        <5>1. \A i \in DOMAIN topics : topics[i] \in victims => Len(left) <= Len(topics) - 1
          BY <1>2, ThrottleDrops
        <5> QED
          BY <1>6, <2>2, <5>1
      <4> HIDE DEF left
      <4> QED
        BY <1>3, <1>4, <4>1, <4>2
    <3> HIDE DEF left
    <3>2. topics' = Append(left, t)
      BY <1>1, <2>2
    <3>3. Append(left, t) \in Seq(Topics) /\ Len(Append(left, t)) = Len(left) + 1
      BY <3>1, AppendProperties
    <3> QED
      BY <1>4, <3>1, <3>2, <3>3
  <2> QED
    BY <2>1, <2>2
<1>9. \A x \in Topics : T!Held(x)' <=> (x = t \/ (T!Held(x) /\ x \notin victims))
  <2> SUFFICES ASSUME NEW x \in Topics
               PROVE  T!Held(x)' <=> (x = t \/ (T!Held(x) /\ x \notin victims))
    OBVIOUS
  <2>1. CASE T!Held(t)
    BY <1>1, <1>7, <2>1 DEF T!Held
  <2>2. CASE ~T!Held(t)
    <3>1. /\ left \in Seq(Topics) /\ Len(left) \in Nat
          /\ T!Held(x) /\ x \notin victims => \E n \in DOMAIN left : left[n] = x
          /\ \A n \in DOMAIN left : T!Held(left[n]) /\ left[n] \notin victims
      BY <1>2, ThrottleDrops
    <3> HIDE DEF left, victims
    <3>2. topics' = Append(left, t)
      BY <1>1, <2>2
    <3>3. /\ DOMAIN Append(left, t) = 1..(Len(left) + 1) /\ DOMAIN left = 1..Len(left)
          /\ \A n \in 1..Len(left) : Append(left, t)[n] = left[n]
          /\ Append(left, t)[Len(left) + 1] = t
      BY <3>1
    <3>4. T!Held(x)' <=> \E n \in DOMAIN topics' : topics'[n] = x
      BY DEF T!Held
    <3>5. (\E n \in 1..(Len(left) + 1) : Append(left, t)[n] = x) <=> x = t \/ \E n \in DOMAIN left : left[n] = x
      BY <3>1, <3>3
    <3> QED
      BY <3>1, <3>2, <3>3, <3>4, <3>5
  <2> QED
    BY <2>1, <2>2
<1> HIDE DEF left, victims
<1>10. T!Evicted(victims) \in [Topics -> 0..MaxMsgs]
  BY <1>3 DEF T!Evicted
<1>11. given' \in [Topics -> 0..MaxMsgs] /\ sent' \in [Topics -> 0..MaxMsgs] /\ pending' \in [Topics -> 0..MaxMsgs]
  <2> HIDE DEF leading
  <2>1. given' \in [Topics -> 0..MaxMsgs]
    <3> HIDE DEF id
    <3> QED
      BY <1>1, <1>3, <1>5
  <2>2. sent' \in [Topics -> 0..MaxMsgs]
    <3> HIDE DEF id
    <3> QED
      BY <1>1, <1>5, <1>10
  <2>3. pending' \in [Topics -> 0..MaxMsgs]
    <3> HIDE DEF id
    <3> QED
      BY <1>1, <1>3, <1>4, <1>5
  <2> QED
    BY <2>1, <2>2, <2>3
<1>12. cancelled' \in [Topics -> 0..MaxMsgs] /\ delay' \in [Topics -> {"none", "armed", "over"}]
  <2> HIDE DEF leading, id
  <2>1. cancelled' \in [Topics -> 0..MaxMsgs]
    BY <1>1, <1>3, <1>11
  <2>2. delay' \in [Topics -> {"none", "armed", "over"}]
    BY <1>1, <1>3
  <2> QED
    BY <2>1, <2>2
<1>13. T!ThrottleTypeOK'
  BY <1>1, <1>3, <1>8, <1>11, <1>12 DEF T!ThrottleTypeOK
<1>14. ASSUME NEW x \in Topics PROVE Waits(x)'
  <2>1. Waits(x)
    BY <1>2
  <2>2. CASE x = t
    <3>1. /\ given'[x] = id /\ T!Held(x)'
          /\ pending'[x] = IF leading THEN (IF id \in Bad THEN pending[x] ELSE 0) ELSE id
          /\ delay'[x] = IF leading THEN (IF id \in Bad THEN "none" ELSE "armed")
                         ELSE IF debounces THEN "armed" ELSE delay[x]
          /\ cancelled'[x] = IF leading /\ id \in Bad THEN id ELSE cancelled[x]
          /\ leading /\ id \notin Bad => sent'[x] = id
      <4> HIDE DEF id, leading
      <4> QED
        BY <1>1, <1>3, <1>7, <1>9, <1>10, <2>2
    <3>2. leading => pending[x] = 0
      BY <2>1, <2>2 DEF Waits
    <3>3. ~leading => debounces \/ (T!Held(x) /\ delay[x] # "none")
      BY <2>2
    <3>4. delay[x] \in {"none", "armed", "over"} /\ pending[x] \in 0..MaxMsgs /\ cancelled[x] \in 0..MaxMsgs /\ given[x] \in 0..MaxMsgs
      BY <1>3
    <3>5. cancelled[x] <= id
      BY <1>4, <2>1, <2>2, <3>4 DEF Waits
    <3> HIDE DEF leading, id
    <3>6. id <= id
      BY <1>5
    <3> QED
      BY <1>1, <1>5, <2>1, <3>1, <3>2, <3>3, <3>4, <3>5, <3>6 DEF Waits
  <2>3. CASE x # t /\ x \notin victims
    <3>1. /\ given'[x] = given[x] /\ pending'[x] = pending[x] /\ delay'[x] = delay[x]
          /\ cancelled'[x] = cancelled[x] /\ sent'[x] = sent[x] /\ T!Held(x)' = T!Held(x)
      <4> HIDE DEF id, leading
      <4>1. T!Evicted(victims)[x] = sent[x]
        BY <2>3 DEF T!Evicted
      <4>2. T!Held(x)' = T!Held(x)
        BY <1>9, <2>3 DEF T!Held
      <4> QED
        BY <1>1, <1>3, <1>10, <2>3, <4>1, <4>2
    <3> QED
      BY <1>1, <2>1, <3>1 DEF Waits
  <2>4. CASE x # t /\ x \in victims
    <3>1. /\ given'[x] = given[x] /\ pending'[x] = 0 /\ delay'[x] = "none"
          /\ cancelled'[x] = IF pending[x] \in Bad THEN given[x] ELSE cancelled[x]
          /\ sent'[x] = IF pending[x] \notin Bad \cup {0} THEN pending[x] ELSE sent[x]
      <4> HIDE DEF id, leading
      <4>1. T!Evicted(victims)[x] = IF pending[x] \notin Bad \cup {0} THEN pending[x] ELSE sent[x]
        BY <2>4 DEF T!Evicted
      <4> QED
        BY <1>1, <1>3, <1>10, <2>4, <4>1
    <3>2. given[x] \in Nat /\ cancelled[x] \in Nat /\ pending[x] \in Nat
      BY <1>3, <1>4
    <3>3. given[x] <= given[x] /\ (given[x] = 0 => cancelled[x] = given[x])
      BY <2>1, <3>2 DEF Waits
    <3> QED
      BY <1>1, <2>1, <3>1, <3>2, <3>3 DEF Waits
  <2> QED
    BY <2>2, <2>3, <2>4
<1> QED
  BY <1>13, <1>14 DEF ThrottleInv, Waits

LEMMA ThrottleFireKeeps ==
    ASSUME ThrottleInv, NEW t \in Topics, T!Fire(t)
    PROVE  ThrottleInv'
<1> DEFINE goesOn == ~debounces /\ pending[t] # 0
           left == T!Drop({t})
<1>1. /\ delay[t] = "armed" /\ pending[t] \notin Bad
      /\ sent' = [sent EXCEPT ![t] = IF pending[t] = 0 THEN @ ELSE pending[t]]
      /\ pending' = [pending EXCEPT ![t] = 0]
      /\ delay' = [delay EXCEPT ![t] = IF goesOn THEN "armed" ELSE "none"]
      /\ topics' = IF goesOn THEN topics ELSE left
      /\ debounces' = debounces /\ given' = given /\ cancelled' = cancelled /\ threw' = threw
  BY DEF T!Fire
<1>2. /\ T!ThrottleTypeOK
      /\ \A x \in Topics : Waits(x)
  BY DEF ThrottleInv, Waits
<1>3. /\ debounces \in BOOLEAN /\ threw \in BOOLEAN
      /\ topics \in Seq(Topics) /\ Len(topics) \in Nat /\ Len(topics) <= MaxTopics
      /\ pending \in [Topics -> 0..MaxMsgs] /\ given \in [Topics -> 0..MaxMsgs]
      /\ sent \in [Topics -> 0..MaxMsgs] /\ cancelled \in [Topics -> 0..MaxMsgs]
      /\ delay \in [Topics -> {"none", "armed", "over"}]
  BY <1>2 DEF T!ThrottleTypeOK
<1>4. MaxTopics \in Nat \ {0} /\ MaxMsgs \in Nat /\ 0 \notin Bad
  BY LimitsConstantsOK
<1>5. /\ left \in Seq(Topics) /\ Len(left) <= Len(topics) /\ Len(left) \in Nat
      /\ \A x \in Topics : T!Held(x) /\ x # t => \E n \in DOMAIN left : left[n] = x
      /\ \A n \in DOMAIN left : T!Held(left[n])
  BY <1>2, ThrottleDrops
<1> HIDE DEF left
<1>6. topics' \in Seq(Topics) /\ Len(topics') <= MaxTopics
  BY <1>1, <1>3, <1>4, <1>5
<1>7. T!ThrottleTypeOK'
  <2>1. /\ sent' \in [Topics -> 0..MaxMsgs] /\ pending' \in [Topics -> 0..MaxMsgs]
        /\ delay' \in [Topics -> {"none", "armed", "over"}]
    <3> HIDE DEF goesOn
    <3> QED
      BY <1>1, <1>3, <1>4
  <2> QED
    BY <1>1, <1>3, <1>6, <2>1 DEF T!ThrottleTypeOK
<1>8. \A x \in Topics : x # t => T!Held(x)' = T!Held(x)
  BY <1>1, <1>5 DEF T!Held
<1>9. ASSUME NEW x \in Topics PROVE Waits(x)'
  <2>1. Waits(x)
    BY <1>2
  <2>2. CASE x = t
    <3>1. /\ given'[x] = given[x] /\ pending'[x] = 0 /\ cancelled'[x] = cancelled[x]
          /\ delay'[x] = IF goesOn THEN "armed" ELSE "none"
          /\ sent'[x] = IF pending[x] = 0 THEN sent[x] ELSE pending[x]
      <4> HIDE DEF goesOn
      <4> QED
        BY <1>1, <1>3, <2>2
    <3>2. given[x] \in Nat /\ cancelled[x] \in Nat /\ pending[x] \in Nat
      BY <1>3, <1>4
    <3>3. given[x] = 0 => cancelled[x] = given[x]
      BY <2>1, <3>2 DEF Waits
    <3>4. goesOn => T!Held(x)'
      <4>1. T!Held(x)
        BY <1>1, <2>1, <2>2 DEF Waits
      <4> QED
        BY <1>1, <4>1 DEF T!Held
    <3> HIDE DEF goesOn
    <3> QED
      BY <1>1, <2>1, <3>1, <3>2, <3>3, <3>4 DEF Waits
  <2>3. CASE x # t
    <3>1. /\ given'[x] = given[x] /\ pending'[x] = pending[x] /\ delay'[x] = delay[x]
          /\ cancelled'[x] = cancelled[x] /\ sent'[x] = sent[x] /\ T!Held(x)' = T!Held(x)
      BY <1>1, <1>3, <1>8, <2>3
    <3> QED
      BY <1>1, <2>1, <3>1 DEF Waits
  <2> QED
    BY <2>2, <2>3
<1> QED
  BY <1>7, <1>9 DEF ThrottleInv, Waits

LEMMA ThrottleFlushOneKeeps ==
    ASSUME ThrottleInv, NEW t \in Topics, T!FlushOne(t)
    PROVE  ThrottleInv'
<1>1. /\ T!ThrottleTypeOK
      /\ \A x \in Topics : Waits(x)
  BY DEF ThrottleInv, Waits
<1>2. /\ debounces \in BOOLEAN /\ threw \in BOOLEAN
      /\ topics \in Seq(Topics) /\ Len(topics) \in Nat /\ Len(topics) <= MaxTopics
      /\ pending \in [Topics -> 0..MaxMsgs] /\ given \in [Topics -> 0..MaxMsgs]
      /\ sent \in [Topics -> 0..MaxMsgs] /\ cancelled \in [Topics -> 0..MaxMsgs]
      /\ delay \in [Topics -> {"none", "armed", "over"}]
  BY <1>1 DEF T!ThrottleTypeOK
<1>3. MaxTopics \in Nat \ {0} /\ MaxMsgs \in Nat /\ 0 \notin Bad
  BY LimitsConstantsOK
<1>4. debounces' = debounces /\ given' = given /\ cancelled' = cancelled
  BY DEF T!FlushOne
<1>5. CASE pending[t] \in Bad
  <2>1. /\ delay' = [delay EXCEPT ![t] = IF @ = "none" THEN "none" ELSE "over"] /\ threw'
        /\ topics' = topics /\ sent' = sent /\ pending' = pending
    BY <1>5 DEF T!FlushOne
  <2>2. T!ThrottleTypeOK'
    BY <1>2, <1>4, <2>1 DEF T!ThrottleTypeOK
  <2>3. ASSUME NEW x \in Topics PROVE Waits(x)'
    <3>1. Waits(x) /\ delay[x] \in {"none", "armed", "over"}
      BY <1>1, <1>2
    <3>2. delay'[x] = "none" <=> delay[x] = "none"
      BY <1>2, <2>1
    <3>3. T!Held(x)' = T!Held(x)
      BY <2>1 DEF T!Held
    <3> QED
      BY <1>4, <2>1, <3>1, <3>2, <3>3 DEF Waits
  <2> QED
    BY <2>2, <2>3 DEF ThrottleInv, Waits
<1>6. CASE pending[t] \notin Bad
  <2> DEFINE left == T!Drop({t})
  <2>1. /\ sent' = [sent EXCEPT ![t] = IF pending[t] = 0 THEN @ ELSE pending[t]]
        /\ pending' = [pending EXCEPT ![t] = 0] /\ delay' = [delay EXCEPT ![t] = "none"]
        /\ topics' = left /\ threw' = threw
    BY <1>6 DEF T!FlushOne
  <2>2. /\ left \in Seq(Topics) /\ Len(left) <= Len(topics) /\ Len(left) \in Nat
        /\ \A x \in Topics : T!Held(x) /\ x # t => \E n \in DOMAIN left : left[n] = x
        /\ \A n \in DOMAIN left : T!Held(left[n])
    BY <1>1, ThrottleDrops
  <2> HIDE DEF left
  <2>3. T!ThrottleTypeOK'
    <3>1. topics' \in Seq(Topics) /\ Len(topics') <= MaxTopics
      BY <1>2, <1>3, <2>1, <2>2
    <3>2. /\ sent' \in [Topics -> 0..MaxMsgs] /\ pending' \in [Topics -> 0..MaxMsgs]
          /\ delay' \in [Topics -> {"none", "armed", "over"}]
      BY <1>2, <1>3, <2>1
    <3> QED
      BY <1>2, <1>4, <2>1, <3>1, <3>2 DEF T!ThrottleTypeOK
  <2>4. \A x \in Topics : x # t => T!Held(x)' = T!Held(x)
    BY <2>1, <2>2 DEF T!Held
  <2>5. ASSUME NEW x \in Topics PROVE Waits(x)'
    <3>1. Waits(x)
      BY <1>1
    <3>2. CASE x = t
      <4>1. /\ given'[x] = given[x] /\ pending'[x] = 0 /\ cancelled'[x] = cancelled[x] /\ delay'[x] = "none"
            /\ sent'[x] = IF pending[x] = 0 THEN sent[x] ELSE pending[x]
        BY <1>2, <1>4, <2>1, <3>2
      <4>2. given[x] \in Nat /\ cancelled[x] \in Nat /\ pending[x] \in Nat
        BY <1>2, <1>3
      <4>3. given[x] = 0 => cancelled[x] = given[x]
        BY <3>1, <4>2 DEF Waits
      <4> QED
        BY <2>1, <3>1, <4>1, <4>2, <4>3 DEF Waits
    <3>3. CASE x # t
      <4>1. /\ given'[x] = given[x] /\ pending'[x] = pending[x] /\ delay'[x] = delay[x]
            /\ cancelled'[x] = cancelled[x] /\ sent'[x] = sent[x] /\ T!Held(x)' = T!Held(x)
        BY <1>2, <1>4, <2>1, <2>4, <3>3
      <4> QED
        BY <2>1, <3>1, <4>1 DEF Waits
    <3> QED
      BY <3>2, <3>3
  <2> QED
    BY <2>3, <2>5 DEF ThrottleInv, Waits
<1> QED
  BY <1>5, <1>6

LEMMA ThrottleFlushAllKeeps ==
    ASSUME ThrottleInv, T!FlushAll
    PROVE  ThrottleInv'
<1> DEFINE fails == {i \in DOMAIN topics : pending[topics[i]] \in Bad}
           last == IF fails = {} THEN Len(topics) ELSE CHOOSE i \in fails : \A j \in fails : i <= j
           done == {topics[i] : i \in 1..last}
           gone == {t \in done : pending[t] \notin Bad \cup {0}}
<1>1. /\ sent' = [t \in Topics |-> IF t \in gone THEN pending[t] ELSE sent[t]]
      /\ IF fails = {}
         THEN /\ topics' = <<>>
              /\ pending' = [t \in Topics |-> 0] /\ delay' = [t \in Topics |-> "none"]
              /\ threw' = threw
         ELSE /\ delay' = [t \in Topics |-> IF t \in done /\ delay[t] # "none" THEN "over" ELSE delay[t]]
              /\ threw' = TRUE
              /\ topics' = topics /\ pending' = pending
      /\ debounces' = debounces /\ given' = given /\ cancelled' = cancelled
  BY DEF T!FlushAll
<1>2. /\ T!ThrottleTypeOK
      /\ \A x \in Topics : Waits(x)
  BY DEF ThrottleInv, Waits
<1>3. /\ debounces \in BOOLEAN /\ threw \in BOOLEAN
      /\ topics \in Seq(Topics) /\ Len(topics) \in Nat /\ Len(topics) <= MaxTopics
      /\ pending \in [Topics -> 0..MaxMsgs] /\ given \in [Topics -> 0..MaxMsgs]
      /\ sent \in [Topics -> 0..MaxMsgs] /\ cancelled \in [Topics -> 0..MaxMsgs]
      /\ delay \in [Topics -> {"none", "armed", "over"}]
  BY <1>2 DEF T!ThrottleTypeOK
<1>4. MaxTopics \in Nat \ {0} /\ MaxMsgs \in Nat /\ 0 \notin Bad
  BY LimitsConstantsOK
<1>5. fails = {} => \A x \in Topics : T!Held(x) => x \in done /\ pending[x] \notin Bad
  <2> SUFFICES ASSUME fails = {}, NEW x \in Topics, T!Held(x)
               PROVE  x \in done /\ pending[x] \notin Bad
    OBVIOUS
  <2>1. PICK i \in DOMAIN topics : topics[i] = x
    BY DEF T!Held
  <2>2. DOMAIN topics = 1..Len(topics)
    BY <1>3
  <2> QED
    BY <2>1, <2>2
<1>6. \A x : x \in gone => pending[x] \notin Bad \cup {0}
  OBVIOUS
<1>7. \A x : x \in done /\ pending[x] \notin Bad \cup {0} => x \in gone
  OBVIOUS
<1> HIDE DEF gone, done, last
<1>8. sent' \in [Topics -> 0..MaxMsgs]
  BY <1>1, <1>3
<1>9. CASE fails = {}
  <2>1. /\ topics' = <<>> /\ pending' = [t \in Topics |-> 0] /\ delay' = [t \in Topics |-> "none"]
        /\ threw' = threw
    BY <1>1, <1>9
  <2>2. T!ThrottleTypeOK'
    <3>1. topics' \in Seq(Topics) /\ Len(topics') <= MaxTopics
      <4>1. <<>> \in Seq(Topics) /\ Len(<<>>) = 0
        BY EmptySeq
      <4> QED
        BY <1>4, <2>1, <4>1
    <3>2. pending' \in [Topics -> 0..MaxMsgs] /\ delay' \in [Topics -> {"none", "armed", "over"}]
      BY <1>4, <2>1
    <3> QED
      BY <1>1, <1>3, <1>8, <2>1, <3>1, <3>2 DEF T!ThrottleTypeOK
  <2>3. ASSUME NEW x \in Topics PROVE Waits(x)'
    <3>1. Waits(x) /\ (T!Held(x) => x \in done /\ pending[x] \notin Bad)
      BY <1>2, <1>5, <1>9
    <3>2. /\ given'[x] = given[x] /\ pending'[x] = 0 /\ cancelled'[x] = cancelled[x] /\ delay'[x] = "none"
          /\ sent'[x] = IF x \in gone THEN pending[x] ELSE sent[x]
      BY <1>1, <2>1
    <3>3. given[x] \in Nat /\ cancelled[x] \in Nat /\ pending[x] \in Nat
      BY <1>3, <1>4
    <3>4. given[x] = 0 => cancelled[x] = given[x]
      BY <3>1, <3>3 DEF Waits
    <3>5. x \in gone => pending[x] # 0
      BY <1>6
    <3>6. T!Held(x) /\ pending[x] # 0 => x \in gone
      BY <1>7, <3>1
    <3> QED
      BY <2>1, <3>1, <3>2, <3>3, <3>4, <3>5, <3>6 DEF Waits
  <2> QED
    BY <2>2, <2>3 DEF ThrottleInv, Waits
<1>10. CASE fails # {}
  <2>1. /\ delay' = [t \in Topics |-> IF t \in done /\ delay[t] # "none" THEN "over" ELSE delay[t]]
        /\ threw' = TRUE
        /\ topics' = topics /\ pending' = pending
    BY <1>1, <1>10
  <2>2. T!ThrottleTypeOK'
    <3>1. delay' \in [Topics -> {"none", "armed", "over"}]
      BY <1>3, <2>1
    <3> QED
      BY <1>1, <1>3, <1>8, <2>1, <3>1 DEF T!ThrottleTypeOK
  <2>3. ASSUME NEW x \in Topics PROVE Waits(x)'
    <3>1. Waits(x)
      BY <1>2
    <3>2. delay'[x] = "none" <=> delay[x] = "none"
      BY <2>1
    <3>3. T!Held(x)' = T!Held(x)
      BY <2>1 DEF T!Held
    <3> QED
      BY <1>1, <2>1, <3>1, <3>2, <3>3 DEF Waits
  <2> QED
    BY <2>2, <2>3 DEF ThrottleInv, Waits
<1> QED
  BY <1>9, <1>10

LEMMA ThrottleCancelKeeps ==
    ASSUME ThrottleInv, NEW X \in SUBSET Topics, T!Cancel(X)
    PROVE  ThrottleInv'
<1> DEFINE left == T!Drop(X)
<1>1. /\ topics' = left
      /\ pending' = [t \in Topics |-> IF t \in X THEN 0 ELSE pending[t]]
      /\ delay' = [t \in Topics |-> IF t \in X THEN "none" ELSE delay[t]]
      /\ cancelled' = [t \in Topics |-> IF t \in X THEN given[t] ELSE cancelled[t]]
      /\ debounces' = debounces /\ given' = given /\ sent' = sent /\ threw' = threw
  BY DEF T!Cancel
<1>2. /\ T!ThrottleTypeOK
      /\ \A x \in Topics : Waits(x)
  BY DEF ThrottleInv, Waits
<1>3. /\ debounces \in BOOLEAN /\ threw \in BOOLEAN
      /\ topics \in Seq(Topics) /\ Len(topics) \in Nat /\ Len(topics) <= MaxTopics
      /\ pending \in [Topics -> 0..MaxMsgs] /\ given \in [Topics -> 0..MaxMsgs]
      /\ sent \in [Topics -> 0..MaxMsgs] /\ cancelled \in [Topics -> 0..MaxMsgs]
      /\ delay \in [Topics -> {"none", "armed", "over"}]
  BY <1>2 DEF T!ThrottleTypeOK
<1>4. MaxTopics \in Nat \ {0} /\ MaxMsgs \in Nat
  BY LimitsConstantsOK
<1>5. /\ left \in Seq(Topics) /\ Len(left) <= Len(topics) /\ Len(left) \in Nat
      /\ \A x \in Topics : T!Held(x) /\ x \notin X => \E n \in DOMAIN left : left[n] = x
      /\ \A n \in DOMAIN left : T!Held(left[n])
  BY <1>2, ThrottleDrops
<1> HIDE DEF left
<1>6. T!ThrottleTypeOK'
  <2>1. topics' \in Seq(Topics) /\ Len(topics') <= MaxTopics
    BY <1>1, <1>3, <1>4, <1>5
  <2>2. /\ pending' \in [Topics -> 0..MaxMsgs] /\ cancelled' \in [Topics -> 0..MaxMsgs]
        /\ delay' \in [Topics -> {"none", "armed", "over"}]
    BY <1>1, <1>3, <1>4
  <2> QED
    BY <1>1, <1>3, <2>1, <2>2 DEF T!ThrottleTypeOK
<1>7. \A x \in Topics : x \notin X => T!Held(x)' = T!Held(x)
  BY <1>1, <1>5 DEF T!Held
<1>8. ASSUME NEW x \in Topics PROVE Waits(x)'
  <2>1. Waits(x)
    BY <1>2
  <2>2. CASE x \in X
    <3>1. /\ given'[x] = given[x] /\ pending'[x] = 0 /\ cancelled'[x] = given[x] /\ delay'[x] = "none"
      BY <1>1, <2>2
    <3>2. given[x] \in Nat /\ given[x] <= given[x]
      BY <1>3, <1>4
    <3> QED
      BY <1>1, <2>1, <3>1, <3>2 DEF Waits
  <2>3. CASE x \notin X
    <3>1. /\ given'[x] = given[x] /\ pending'[x] = pending[x] /\ delay'[x] = delay[x]
          /\ cancelled'[x] = cancelled[x] /\ sent'[x] = sent[x] /\ T!Held(x)' = T!Held(x)
      BY <1>1, <1>7, <2>3
    <3> QED
      BY <1>1, <2>1, <3>1 DEF Waits
  <2> QED
    BY <2>2, <2>3
<1> QED
  BY <1>6, <1>8 DEF ThrottleInv, Waits

LEMMA ThrottleStepKeeps == ThrottleInv /\ (T!Next \/ UNCHANGED throttleVars) => ThrottleInv'
<1> SUFFICES ASSUME ThrottleInv, T!Next \/ UNCHANGED throttleVars PROVE ThrottleInv'
  OBVIOUS
<1>1. CASE UNCHANGED throttleVars
  BY <1>1 DEF throttleVars, ThrottleInv, T!ThrottleTypeOK, T!Held
<1>2. CASE T!Next
  <2>1. \A X : X = {topics[i] : i \in DOMAIN topics} => X \in SUBSET Topics
    BY DEF ThrottleInv, T!ThrottleTypeOK
  <2> QED
    BY <1>2, <2>1, ThrottlePublishKeeps, ThrottleFireKeeps, ThrottleFlushOneKeeps, ThrottleFlushAllKeeps,
       ThrottleCancelKeeps
    DEF T!Next
<1> QED
  BY <1>1, <1>2

LEMMA ThrottleSound == ThrottleInv => T!LastGoesOut
  BY DEF ThrottleInv, T!LastGoesOut

\* No key stands twice in a line.
Distinct(s) == \A i, j \in DOMAIN s : s[i] = s[j] => i = j

\* As MapOrderProofs shows of Within.
LEMMA TtlWithin ==
    ASSUME NEW s \in Seq(Ids), Distinct(s), NEW K
    PROVE  /\ E!Within(s, K) \in Seq(Ids) /\ Len(E!Within(s, K)) <= Len(s) /\ Len(E!Within(s, K)) \in Nat
           /\ Distinct(E!Within(s, K))
           /\ \A k \in Ids : (\E n \in DOMAIN E!Within(s, K) : E!Within(s, K)[n] = k)
                               <=> k \in K /\ \E i \in DOMAIN s : s[i] = k
<1> DEFINE W == Within(s, K)
<1>1. E!Within(s, K) = W
  BY DEF E!Within, E!Nth, E!PlacesOf, E!Cardinality, Within, Nth, PlacesOf, Cardinality
<1>2. W \in Seq(Ids) /\ Len(W) <= Len(s) /\ Len(W) \in Nat
  <2>1. W \in Seq(Ids) /\ Len(W) <= Len(s)
    BY WithinShape
  <2> QED
    BY <2>1, LenProperties
<1>3. /\ \A n \in DOMAIN W : \E i \in DOMAIN s : s[i] = W[n] /\ s[i] \in K
      /\ \A i \in DOMAIN s : s[i] \in K => \E n \in DOMAIN W : W[n] = s[i]
      /\ Distinct(s) => Distinct(W)
  BY WithinKeeps DEF Distinct
<1> HIDE DEF W
<1> QED
  BY <1>1, <1>2, <1>3

\* A line of distinct ids is no longer than any finite set they are from.
LEMMA LineFits ==
    ASSUME NEW s \in Seq(Ids), Distinct(s), NEW A \in SUBSET Ids, \A i \in DOMAIN s : s[i] \in A
    PROVE  Len(s) <= Cardinality(A)
<1>1. IsFiniteSet(A) /\ Cardinality(A) \in Nat
  <2>1. IsFiniteSet(Ids)
    BY LimitsConstantsOK
  <2> QED
    BY <2>1, FS_Subset, FS_CardinalityType
<1>2. Len(s) \in Nat /\ DOMAIN s = 1..Len(s)
  OBVIOUS
<1>3. s \in Injection(1..Len(s), A)
  <2>1. s \in [1..Len(s) -> A]
    BY <1>2
  <2> QED
    BY <1>2, <2>1 DEF Injection, IsInjective, Distinct
<1>4. IsFiniteSet(1..Len(s)) /\ Cardinality(1..Len(s)) = Len(s)
  <2>1. \A l \in Nat : IsFiniteSet(1..l) /\ Cardinality(1..l) = l
    BY FS_Interval
  <2> QED
    BY <1>2, <2>1
<1>5. Cardinality(1..Len(s)) <= Cardinality(A)
  BY <1>1, <1>3, FS_Injection
<1> QED
  BY <1>4, <1>5

\* The pruning keeps to the cap, and drops nothing that lives while those that
\* live fit in.
LEMMA PrunedKeeps ==
    ASSUME NEW keys \in Seq(Ids), Distinct(keys), NEW left \in [Ids -> 0..Ttl], NEW A \in SUBSET Ids,
           \A i \in DOMAIN keys : left[keys[i]] > 0 => keys[i] \in A
    PROVE  /\ E!Pruned(keys, left) \in Seq(Ids)
           /\ Len(E!Pruned(keys, left)) * 10 <= MaxEntries * 11
           /\ Distinct(E!Pruned(keys, left))
           /\ \A n \in DOMAIN E!Pruned(keys, left) : \E i \in DOMAIN keys : keys[i] = E!Pruned(keys, left)[n]
           /\ Cardinality(A) <= MaxEntries =>
                \A i \in DOMAIN keys : left[keys[i]] > 0 =>
                    \E n \in DOMAIN E!Pruned(keys, left) : E!Pruned(keys, left)[n] = keys[i]
<1> DEFINE K == {x \in Ids : left[x] > 0}
           live == E!Within(keys, K)
           P == E!Pruned(keys, left)
<1>1. P = IF Len(keys) * 10 <= MaxEntries * 11 THEN keys
          ELSE IF Len(live) <= MaxEntries THEN live
          ELSE SubSeq(live, Len(live) - MaxEntries + 1, Len(live))
  BY DEF E!Pruned
<1>2. MaxEntries \in Nat \ {0}
  BY LimitsConstantsOK
<1>3. /\ live \in Seq(Ids) /\ Len(live) \in Nat /\ Distinct(live)
      /\ \A k \in Ids : (\E n \in DOMAIN live : live[n] = k) <=> k \in K /\ \E i \in DOMAIN keys : keys[i] = k
  <2> HIDE DEF K
  <2> QED
    BY TtlWithin
<1>4. \A i \in DOMAIN keys : keys[i] \in Ids
  OBVIOUS
<1>5. \A k : k \in K <=> k \in Ids /\ left[k] > 0
  OBVIOUS
<1> HIDE DEF P, K, live
<1>6. CASE Len(keys) * 10 <= MaxEntries * 11
  BY <1>1, <1>6 DEF P
<1>7. CASE ~(Len(keys) * 10 <= MaxEntries * 11) /\ Len(live) <= MaxEntries
  <2>1. P = live
    BY <1>1, <1>7
  <2>2. Len(live) * 10 <= MaxEntries * 11
    BY <1>2, <1>3, <1>7
  <2>3. \A n \in DOMAIN live : live[n] \in Ids
    BY <1>3
  <2> QED
    BY <1>3, <1>4, <1>5, <2>1, <2>2, <2>3 DEF P
<1>8. CASE ~(Len(keys) * 10 <= MaxEntries * 11) /\ ~(Len(live) <= MaxEntries)
  <2> DEFINE first == Len(live) - MaxEntries + 1
  <2>1. P = SubSeq(live, first, Len(live))
    BY <1>1, <1>8
  <2>2. first \in Nat /\ 1 <= first /\ first <= Len(live) /\ Len(live) - first + 1 = MaxEntries
    BY <1>2, <1>3, <1>8
  <2>3. \A n \in DOMAIN live : live[n] \in Ids
    BY <1>3
  <2>4. DOMAIN live = 1..Len(live)
    BY <1>3
  <2> DEFINE to(n) == first + n - 1
  <2>5. /\ P \in Seq(Ids) /\ Len(P) = MaxEntries /\ DOMAIN P = 1..MaxEntries
        /\ \A n \in 1..MaxEntries : P[n] = live[to(n)] /\ to(n) \in DOMAIN live
    <3>1. P \in Seq(Ids) /\ Len(P) = MaxEntries /\ DOMAIN P = 1..MaxEntries
      <4> HIDE DEF first
      <4>1. first .. Len(live) \subseteq DOMAIN live
        BY <1>3, <2>2, <2>4
      <4> QED
        BY <1>3, <2>1, <2>2, <4>1, SubSeqProperties, LenProperties
    <3>2. ASSUME NEW n \in 1..MaxEntries PROVE P[n] = live[to(n)] /\ to(n) \in DOMAIN live
      <4>1. to(n) \in 1..Len(live)
        BY <1>2, <1>3, <2>2
      <4>2. P[n] = live[to(n)]
        <5> HIDE DEF first
        <5> QED
          BY <1>2, <1>3, <2>1, <2>2
      <4> QED
        BY <2>4, <4>1, <4>2
    <3> QED
      BY <3>1, <3>2
  <2>6. \A m, n \in 1..MaxEntries : to(m) = to(n) => m = n
    BY <1>2, <2>2
  <2> HIDE DEF to, first
  <2>7. Len(P) * 10 <= MaxEntries * 11
    BY <1>2, <2>5
  <2>8. Distinct(P)
    BY <1>3, <2>5, <2>6 DEF Distinct
  <2>9. \A n \in DOMAIN P : \E i \in DOMAIN keys : keys[i] = P[n]
    BY <1>3, <2>3, <2>5
  <2>10. ~(Cardinality(A) <= MaxEntries)
    <3>1. \A n \in DOMAIN live : live[n] \in A
      BY <1>3, <1>5, <2>3
    <3>2. Len(live) <= Cardinality(A)
      BY <1>3, <3>1, LineFits
    <3>3. Cardinality(A) \in Nat
      <4>1. IsFiniteSet(Ids)
        BY LimitsConstantsOK
      <4> QED
        BY <4>1, FS_Subset, FS_CardinalityType
    <3> QED
      BY <1>2, <1>3, <1>8, <3>2, <3>3
  <2> QED
    BY <2>5, <2>7, <2>8, <2>9, <2>10 DEF P
<1> QED
  BY <1>6, <1>7, <1>8

LEMMA TtlPutKeeps ==
    ASSUME TtlInv, NEW k \in Ids, E!Put(k)
    PROVE  TtlInv'
<1> DEFINE rest == E!Without(k)
           line == Append(rest, k)
           left == [expires EXCEPT ![k] = Ttl]
           A == {x \in Ids : alive'[x] > 0}
           P == E!Pruned(line, left)
<1>1. /\ entries' = P
      /\ expires' = [x \in Ids |-> IF \E i \in DOMAIN P : P[i] = x THEN left[x] ELSE 0]
      /\ alive' = [alive EXCEPT ![k] = Ttl]
      /\ crowded' = (crowded \/ Cardinality(A) > MaxEntries)
      /\ prolongs' = prolongs
  BY DEF E!Put, E!Cardinality, Cardinality
<1>2. /\ prolongs \in BOOLEAN /\ crowded \in BOOLEAN
      /\ entries \in Seq(Ids) /\ Len(entries) \in Nat
      /\ expires \in [Ids -> 0..Ttl] /\ alive \in [Ids -> 0..Ttl]
      /\ \A x \in Ids : E!Stored(x) => expires[x] = alive[x]
      /\ ~crowded => \A x \in Ids : alive[x] > 0 => E!Stored(x)
      /\ Distinct(entries)
  BY DEF TtlInv, E!LivingAreKept, E!TtlTypeOK, Distinct
<1>3. Ttl \in Nat /\ MaxEntries \in Nat
  BY LimitsConstantsOK
<1>4. left \in [Ids -> 0..Ttl] /\ alive' \in [Ids -> 0..Ttl]
  BY <1>1, <1>2, <1>3
<1>5. /\ rest \in Seq(Ids) /\ Distinct(rest) /\ Len(rest) \in Nat
      /\ \A x \in Ids : (\E n \in DOMAIN rest : rest[n] = x) <=> x # k /\ E!Stored(x)
  <2> DEFINE K == Ids \ {k}
  <2>1. rest = E!Within(entries, K)
    BY DEF E!Without
  <2> HIDE DEF K, rest
  <2>2. /\ rest \in Seq(Ids) /\ Distinct(rest) /\ Len(rest) \in Nat
        /\ \A x \in Ids : (\E n \in DOMAIN rest : rest[n] = x)
                             <=> x \in K /\ \E i \in DOMAIN entries : entries[i] = x
    <3>1. entries \in Seq(Ids) /\ Distinct(entries)
      BY <1>2
    <3> QED
      BY <2>1, <3>1, TtlWithin
  <2> QED
    BY <2>2 DEF E!Stored, K
<1> HIDE DEF rest
<1>6. /\ line \in Seq(Ids) /\ DOMAIN line = 1..(Len(rest) + 1) /\ DOMAIN rest = 1..Len(rest)
      /\ \A n \in 1..Len(rest) : line[n] = rest[n]
      /\ line[Len(rest) + 1] = k
  BY <1>5
<1> HIDE DEF line
<1>7. \A n \in DOMAIN line : n \in DOMAIN rest \/ n = Len(rest) + 1
  BY <1>5, <1>6
<1>8. \A n \in DOMAIN rest : rest[n] \in Ids
  BY <1>5
<1>9. \A x \in Ids : (\E n \in DOMAIN line : line[n] = x) <=> x = k \/ E!Stored(x)
  <2> SUFFICES ASSUME NEW x \in Ids
               PROVE  (\E n \in DOMAIN line : line[n] = x) <=> x = k \/ E!Stored(x)
    OBVIOUS
  <2>1. (\E n \in DOMAIN rest : rest[n] = x) <=> x # k /\ E!Stored(x)
    BY <1>5
  <2>2. \A n \in DOMAIN rest : n \in DOMAIN line /\ line[n] = rest[n]
    BY <1>5, <1>6
  <2>3. Len(rest) + 1 \in DOMAIN line
    BY <1>5, <1>6
  <2> QED
    BY <1>6, <1>7, <2>1, <2>2, <2>3
<1>10. Distinct(line)
  <2>1. \A n \in DOMAIN rest : rest[n] # k /\ line[n] = rest[n]
    BY <1>5, <1>6, <1>8
  <2> QED
    BY <1>5, <1>6, <1>7, <2>1 DEF Distinct
<1>11. \A x \in Ids : x = k \/ E!Stored(x) => left[x] = alive'[x]
  BY <1>1, <1>2
<1>12. \A i \in DOMAIN line : line[i] \in Ids
  BY <1>6
<1> HIDE DEF left
<1>13. \A i \in DOMAIN line : left[line[i]] > 0 => line[i] \in A
  BY <1>9, <1>11, <1>12
<1>14. A \in SUBSET Ids
  OBVIOUS
<1> HIDE DEF A
<1>15. /\ P \in Seq(Ids) /\ Len(P) * 10 <= MaxEntries * 11 /\ Distinct(P)
       /\ \A n \in DOMAIN P : \E i \in DOMAIN line : line[i] = P[n]
       /\ Cardinality(A) <= MaxEntries =>
            \A i \in DOMAIN line : left[line[i]] > 0 => \E n \in DOMAIN P : P[n] = line[i]
  BY <1>4, <1>6, <1>10, <1>13, <1>14, PrunedKeeps
<1> HIDE DEF P
<1>16. E!TtlTypeOK'
  <2>1. expires' \in [Ids -> 0..Ttl]
    BY <1>1, <1>3, <1>4
  <2>2. crowded' \in BOOLEAN
    BY <1>1, <1>2
  <2> QED
    BY <1>1, <1>2, <1>4, <1>15, <2>1, <2>2 DEF E!TtlTypeOK
<1>17. \A x \in Ids : E!Stored(x)' <=> \E n \in DOMAIN P : P[n] = x
  BY <1>1 DEF E!Stored
<1>18. \A x \in Ids : E!Stored(x)' => expires'[x] = alive'[x]
  <2> SUFFICES ASSUME NEW x \in Ids, E!Stored(x)' PROVE expires'[x] = alive'[x]
    OBVIOUS
  <2>1. \E n \in DOMAIN P : P[n] = x
    BY <1>17
  <2>2. x = k \/ E!Stored(x)
    BY <1>9, <1>15, <2>1
  <2> QED
    BY <1>1, <1>11, <2>1, <2>2
<1>19. ~crowded' => \A x \in Ids : alive'[x] > 0 => E!Stored(x)'
  <2> SUFFICES ASSUME ~crowded', NEW x \in Ids, alive'[x] > 0 PROVE E!Stored(x)'
    OBVIOUS
  <2>1. ~crowded /\ ~(Cardinality(A) > MaxEntries)
    BY <1>1
  <2>2. Cardinality(A) <= MaxEntries
    <3>1. Cardinality(A) \in Nat
      <4>1. IsFiniteSet(Ids)
        BY LimitsConstantsOK
      <4> QED
        BY <1>14, <4>1, FS_Subset, FS_CardinalityType
    <3> QED
      BY <1>3, <2>1, <3>1
  <2>3. x = k \/ E!Stored(x)
    BY <1>1, <1>2, <2>1
  <2>4. PICK i \in DOMAIN line : line[i] = x
    BY <1>9, <2>3
  <2>5. left[x] > 0
    BY <1>11, <2>3
  <2> QED
    BY <1>15, <1>17, <2>2, <2>4, <2>5
<1> QED
  BY <1>1, <1>15, <1>16, <1>18, <1>19 DEF TtlInv, E!LivingAreKept, Distinct

LEMMA TtlMeetKeeps ==
    ASSUME TtlInv, NEW k \in Ids, E!Meet(k)
    PROVE  TtlInv'
<1>1. /\ prolongs \in BOOLEAN /\ crowded \in BOOLEAN
      /\ entries \in Seq(Ids) /\ Len(entries) * 10 <= MaxEntries * 11 /\ Len(entries) \in Nat
      /\ expires \in [Ids -> 0..Ttl] /\ alive \in [Ids -> 0..Ttl]
      /\ \A x \in Ids : E!Stored(x) => expires[x] = alive[x]
      /\ ~crowded => \A x \in Ids : alive[x] > 0 => E!Stored(x)
      /\ Distinct(entries)
  BY DEF TtlInv, E!LivingAreKept, E!TtlTypeOK, Distinct
<1>2. Ttl \in Nat /\ MaxEntries \in Nat
  BY LimitsConstantsOK
<1>3. prolongs' = prolongs /\ crowded' = crowded /\ E!Stored(k)
  BY DEF E!Meet
<1>4. CASE expires[k] = 0
  <2> DEFINE K == Ids \ {k}
             rest == E!Within(entries, K)
  <2>1. entries' = rest /\ expires' = expires /\ alive' = alive
    BY <1>4 DEF E!Meet, E!Without
  <2> HIDE DEF K
  <2>2. /\ rest \in Seq(Ids) /\ Len(rest) <= Len(entries) /\ Len(rest) \in Nat /\ Distinct(rest)
        /\ \A x \in Ids : (\E n \in DOMAIN rest : rest[n] = x)
                             <=> x \in K /\ \E i \in DOMAIN entries : entries[i] = x
    <3>1. entries \in Seq(Ids) /\ Distinct(entries)
      BY <1>1
    <3> QED
      BY <3>1, TtlWithin
  <2> HIDE DEF rest
  <2>3. \A x \in Ids : E!Stored(x)' <=> x # k /\ E!Stored(x)
    BY <2>1, <2>2 DEF E!Stored, K
  <2>4. alive[k] = 0
    BY <1>1, <1>3, <1>4
  <2>5. Len(rest) * 10 <= MaxEntries * 11
    BY <1>1, <1>2, <2>2
  <2>6. ~crowded' => \A x \in Ids : alive'[x] > 0 => E!Stored(x)'
    BY <1>1, <1>3, <2>1, <2>3, <2>4
  <2> QED
    BY <1>1, <1>3, <2>1, <2>2, <2>3, <2>5, <2>6 DEF TtlInv, E!LivingAreKept, E!TtlTypeOK, Distinct
<1>5. CASE expires[k] # 0
  <2>1. /\ expires' = IF prolongs THEN [expires EXCEPT ![k] = Ttl] ELSE expires
        /\ alive' = IF prolongs THEN [alive EXCEPT ![k] = Ttl] ELSE alive
        /\ entries' = entries
    BY <1>5 DEF E!Meet
  <2>2. expires' \in [Ids -> 0..Ttl] /\ alive' \in [Ids -> 0..Ttl]
    BY <1>1, <1>2, <2>1
  <2>3. \A x \in Ids : E!Stored(x)' = E!Stored(x)
    BY <2>1 DEF E!Stored
  <2>4. \A x \in Ids : E!Stored(x) => expires'[x] = alive'[x]
    BY <1>1, <2>1
  <2>5. ~crowded => \A x \in Ids : alive'[x] > 0 => E!Stored(x)
    BY <1>1, <1>3, <2>1
  <2> QED
    BY <1>1, <1>3, <2>1, <2>2, <2>3, <2>4, <2>5 DEF TtlInv, E!LivingAreKept, E!TtlTypeOK, Distinct
<1> QED
  BY <1>4, <1>5

LEMMA TtlForgetKeeps ==
    ASSUME TtlInv, NEW K \in SUBSET Ids, E!Forget(K)
    PROVE  TtlInv'
<1> DEFINE rest == E!Within(entries, Ids \ K)
<1>1. /\ prolongs \in BOOLEAN /\ crowded \in BOOLEAN
      /\ entries \in Seq(Ids) /\ Len(entries) * 10 <= MaxEntries * 11 /\ Len(entries) \in Nat
      /\ expires \in [Ids -> 0..Ttl] /\ alive \in [Ids -> 0..Ttl]
      /\ \A x \in Ids : E!Stored(x) => expires[x] = alive[x]
      /\ ~crowded => \A x \in Ids : alive[x] > 0 => E!Stored(x)
      /\ Distinct(entries)
  BY DEF TtlInv, E!LivingAreKept, E!TtlTypeOK, Distinct
<1>2. Ttl \in Nat /\ MaxEntries \in Nat
  BY LimitsConstantsOK
<1>3. /\ entries' = rest /\ prolongs' = prolongs /\ crowded' = crowded
      /\ expires' = [k \in Ids |-> IF k \in K THEN 0 ELSE expires[k]]
      /\ alive' = [k \in Ids |-> IF k \in K THEN 0 ELSE alive[k]]
  BY DEF E!Forget
<1>4. /\ rest \in Seq(Ids) /\ Len(rest) <= Len(entries) /\ Len(rest) \in Nat /\ Distinct(rest)
      /\ \A x \in Ids : (\E n \in DOMAIN rest : rest[n] = x)
                           <=> x \in Ids \ K /\ \E i \in DOMAIN entries : entries[i] = x
  BY <1>1, TtlWithin
<1> HIDE DEF rest
<1>5. \A x \in Ids : E!Stored(x)' <=> x \notin K /\ E!Stored(x)
  BY <1>3, <1>4 DEF E!Stored
<1>6. Len(rest) * 10 <= MaxEntries * 11
  BY <1>1, <1>2, <1>4
<1>7. expires' \in [Ids -> 0..Ttl] /\ alive' \in [Ids -> 0..Ttl]
  BY <1>1, <1>2, <1>3
<1>8. ~crowded' => \A x \in Ids : alive'[x] > 0 => E!Stored(x)'
  BY <1>1, <1>3, <1>5
<1>9. \A x \in Ids : E!Stored(x)' => expires'[x] = alive'[x]
  BY <1>1, <1>3, <1>5
<1> QED
  BY <1>1, <1>3, <1>4, <1>6, <1>7, <1>8, <1>9 DEF TtlInv, E!LivingAreKept, E!TtlTypeOK, Distinct

LEMMA TtlTickKeeps ==
    ASSUME TtlInv, E!Tick
    PROVE  TtlInv'
<1>1. /\ prolongs \in BOOLEAN /\ crowded \in BOOLEAN
      /\ entries \in Seq(Ids) /\ Len(entries) * 10 <= MaxEntries * 11
      /\ expires \in [Ids -> 0..Ttl] /\ alive \in [Ids -> 0..Ttl]
      /\ \A x \in Ids : E!Stored(x) => expires[x] = alive[x]
      /\ ~crowded => \A x \in Ids : alive[x] > 0 => E!Stored(x)
      /\ Distinct(entries)
  BY DEF TtlInv, E!LivingAreKept, E!TtlTypeOK, Distinct
<1>2. Ttl \in Nat
  BY LimitsConstantsOK
<1>3. /\ expires' = [k \in Ids |-> IF expires[k] > 0 THEN expires[k] - 1 ELSE 0]
      /\ alive' = [k \in Ids |-> IF alive[k] > 0 THEN alive[k] - 1 ELSE 0]
      /\ prolongs' = prolongs /\ entries' = entries /\ crowded' = crowded
  BY DEF E!Tick
<1>4. expires' \in [Ids -> 0..Ttl] /\ alive' \in [Ids -> 0..Ttl]
  BY <1>1, <1>2, <1>3
<1>5. \A x \in Ids : E!Stored(x)' = E!Stored(x)
  BY <1>3 DEF E!Stored
<1>6. \A x \in Ids : E!Stored(x) => expires'[x] = alive'[x]
  BY <1>1, <1>3
<1>7. ~crowded => \A x \in Ids : alive'[x] > 0 => E!Stored(x)
  <2>1. \A x \in Ids : alive'[x] > 0 => alive[x] > 0
    BY <1>3
  <2> QED
    BY <1>1, <2>1
<1> QED
  BY <1>1, <1>3, <1>4, <1>5, <1>6, <1>7 DEF TtlInv, E!LivingAreKept, E!TtlTypeOK, Distinct

LEMMA TtlInitHolds == PartsInit => TtlInv
<1> SUFFICES ASSUME E!Init PROVE TtlInv
  BY DEF PartsInit
<1>1. Ttl \in Nat /\ MaxEntries \in Nat
  BY LimitsConstantsOK
<1>2. entries = <<>> /\ Len(entries) = 0 /\ entries \in Seq(Ids) /\ DOMAIN entries = {}
  BY EmptySeq DEF E!Init
<1>3. expires \in [Ids -> 0..Ttl] /\ alive \in [Ids -> 0..Ttl] /\ \A x \in Ids : alive[x] = 0
  BY <1>1 DEF E!Init
<1>4. Len(entries) * 10 <= MaxEntries * 11
  BY <1>1, <1>2
<1>5. \A x \in Ids : ~E!Stored(x)
  BY <1>2 DEF E!Stored
<1> QED
  <2>1. E!TtlTypeOK
    BY <1>2, <1>3, <1>4 DEF E!Init, E!TtlTypeOK
  <2>2. E!LivingAreKept
    BY <1>3, <1>5, <2>1 DEF E!LivingAreKept
  <2> QED
    BY <1>2, <2>2 DEF TtlInv

LEMMA TtlStepKeeps == TtlInv /\ (E!Next \/ UNCHANGED ttlVars) => TtlInv'
<1> SUFFICES ASSUME TtlInv, E!Next \/ UNCHANGED ttlVars PROVE TtlInv'
  OBVIOUS
<1>1. CASE UNCHANGED ttlVars
  BY <1>1 DEF ttlVars, TtlInv, E!LivingAreKept, E!TtlTypeOK, E!Stored
<1>2. CASE E!Next
  <2>1. \A X : X = {entries[i] : i \in DOMAIN entries} => X \in SUBSET Ids
    BY DEF TtlInv, E!LivingAreKept, E!TtlTypeOK
  <2> QED
    BY <1>2, <2>1, TtlPutKeeps, TtlMeetKeeps, TtlForgetKeeps, TtlTickKeeps DEF E!Next
<1> QED
  BY <1>1, <1>2

\* A key that nobody spared gets two fillings an interval at most and serves its
\* bans to the end; a session or a claimed id is kept while it lives; the last
\* message of a throttled topic goes out.
THEOREM PluginsKeepTheirLimits == PartsSpec => []LimitsAreKept
<1>1. PartsInit => RateInv /\ TtlInv /\ ThrottleInv
  BY RateInitHolds, TtlInitHolds, ThrottleInitHolds
<1>2. RateInv /\ [PartsNext]_<<part, vars, rateVars, ttlVars, throttleVars>> => RateInv'
  <2> SUFFICES ASSUME RateInv, [PartsNext]_<<part, vars, rateVars, ttlVars, throttleVars>> PROVE RateInv'
    OBVIOUS
  <2>1. L!Next \/ UNCHANGED rateVars
    BY DEF PartsNext
  <2> QED
    BY <2>1, RateStepKeeps
<1>3. TtlInv /\ [PartsNext]_<<part, vars, rateVars, ttlVars, throttleVars>> => TtlInv'
  <2> SUFFICES ASSUME TtlInv, [PartsNext]_<<part, vars, rateVars, ttlVars, throttleVars>> PROVE TtlInv'
    OBVIOUS
  <2>1. E!Next \/ UNCHANGED ttlVars
    BY DEF PartsNext
  <2> QED
    BY <2>1, TtlStepKeeps
<1>4. ThrottleInv /\ [PartsNext]_<<part, vars, rateVars, ttlVars, throttleVars>> => ThrottleInv'
  <2> SUFFICES ASSUME ThrottleInv, [PartsNext]_<<part, vars, rateVars, ttlVars, throttleVars>> PROVE ThrottleInv'
    OBVIOUS
  <2>1. T!Next \/ UNCHANGED throttleVars
    BY DEF PartsNext
  <2> QED
    BY <2>1, ThrottleStepKeeps
<1>5. RateInv /\ TtlInv /\ ThrottleInv => LimitsAreKept
  BY RateSound, ThrottleSound DEF TtlInv, LimitsAreKept
<1> QED
  BY <1>1, <1>2, <1>3, <1>4, <1>5, PTL DEF PartsSpec
=============================================================================
