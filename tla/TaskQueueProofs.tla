--------------------------- MODULE TaskQueueProofs ---------------------------
(***************************************************************************)
(* Proofs about TaskQueue: the books of the queue plugin and the order in  *)
(* which tasks start, for any number of pushes, keys and drains, any limit *)
(* and any size.                                                           *)
(***************************************************************************)
EXTENDS TaskQueue, FiniteSetTheorems, SequenceTheorems, TLAPS

Live(p) == phase[p] \in {"waiting", "running"}

\* The running tasks that were pushed to o.
RunningAt(o) == {p \in Pushes : phase[p] = "running" /\ at[p] = o}

\* A push that has not been made is in no table.
NewIsUntouched ==
    \A p \in Pushes : phase[p] = "new" =>
        /\ \A k \in Keys : queues[k] # p
        /\ \A q \in Pushes : at[q] # p
        /\ items[p] = <<>> /\ drains[p] = {}
        /\ \A d \in Drains : p \notin covers[d]

\* An object is registered for one key.
OneKeyPerQueue ==
    \A k, l \in Keys : queues[k] # None /\ queues[k] = queues[l] => k = l

\* A live task has its key, and its object is the one of the key.
LiveHasPlace ==
    \A p \in Pushes : Live(p) => /\ key[p] \in Keys /\ at[p] \in Pushes
                                 /\ queues[key[p]] = at[p]

\* The items of an object are its waiting tasks, each once.
ItemsAreWaiting ==
    /\ \A o \in Pushes : \A i \in DOMAIN items[o] :
          /\ phase[items[o][i]] = "waiting" /\ at[items[o][i]] = o
          /\ \A j \in DOMAIN items[o] : items[o][i] = items[o][j] => i = j
    /\ \A p \in Pushes : phase[p] = "waiting" =>
          \E i \in DOMAIN items[at[p]] : items[at[p]][i] = p

\* The counter counts, and nothing waits at an object with room.
CounterIsTrue ==
    \A o \in Pushes : /\ running[o] = Cardinality(RunningAt(o))
                      /\ items[o] # <<>> => running[o] = Concurrency

\* A live task a drain call is waiting for has the call on its object.
CoveredIsAwaited ==
    \A d \in Drains : \A p \in covers[d] :
        Live(p) => drained[d] = "pending" /\ d \in drains[at[p]]

IInv ==
    /\ TypeOK
    /\ NewIsUntouched
    /\ OneKeyPerQueue
    /\ LiveHasPlace
    /\ ItemsAreWaiting
    /\ CounterIsTrue
    /\ CoveredIsAwaited

-----------------------------------------------------------------------------
LEMMA RunningFinite ==
    ASSUME ConstantsOK, NEW o
    PROVE  IsFiniteSet(RunningAt(o)) /\ Cardinality(RunningAt(o)) \in Nat
BY FS_Subset, FS_CardinalityType DEF ConstantsOK, RunningAt

\* A task that runs is counted.
LEMMA RunningIsCounted ==
    ASSUME ConstantsOK, IInv, NEW p \in Pushes, phase[p] = "running"
    PROVE  running[at[p]] \in 1..Concurrency
<1>1. at[p] \in Pushes
  BY DEF IInv, LiveHasPlace, Live
<1>2. p \in RunningAt(at[p])
  BY DEF RunningAt
<1>3. Cardinality(RunningAt(at[p])) # 0
  BY <1>2, RunningFinite, FS_EmptySet
<1> QED
  BY <1>1, <1>3 DEF IInv, CounterIsTrue, TypeOK

\* What the invariant says in the words of the run.
LEMMA InvariantIsSound == ASSUME ConstantsOK, IInv PROVE Sound
<1> USE DEF IInv
<1>1. RunningOnRegistered
  BY DEF RunningOnRegistered, Unfinished, LiveHasPlace, Live
<1>2. NoIdleSlot
  <2> SUFFICES ASSUME NEW p \in Pushes, phase[p] = "waiting"
               PROVE  /\ \E i \in DOMAIN items[at[p]] : items[at[p]][i] = p
                      /\ Cardinality(Running(key[p])) = Concurrency
    BY DEF NoIdleSlot
  <2>1. /\ key[p] \in Keys /\ at[p] \in Pushes /\ queues[key[p]] = at[p]
    BY DEF LiveHasPlace, Live
  <2>2. \E i \in DOMAIN items[at[p]] : items[at[p]][i] = p
    BY DEF ItemsAreWaiting
  <2>3. items[at[p]] # <<>>
    BY <2>2
  <2>4. at[p] # None
    BY <2>1 DEF ConstantsOK
  <2>5. Running(key[p]) = RunningAt(at[p])
    BY <2>1, <2>4 DEF Running, RunningAt, LiveHasPlace, Live, OneKeyPerQueue
  <2> QED
    BY <2>1, <2>2, <2>3, <2>5 DEF CounterIsTrue
<1>3. DrainIsSound
  BY DEF DrainIsSound, CoveredIsAwaited, Unfinished, Live, TypeOK
<1> QED
  BY <1>1, <1>2, <1>3 DEF Sound

-----------------------------------------------------------------------------
(* process() starts at most one task: nothing waits at an object with room. *)

\* What a push does.
LEMMA PushStep ==
    ASSUME ConstantsOK, IInv, NEW p \in Pushes, NEW k \in Keys, Push(p, k)
    PROVE  \E o \in Pushes :
               /\ o = IF queues[k] = None THEN p ELSE queues[k]
               /\ \/ /\ o # p /\ phase' = [phase EXCEPT ![p] = "refused"]
                     /\ UNCHANGED <<items, running, at>>
                  \/ /\ running[o] < Concurrency /\ items[o] = <<>>
                     /\ phase' = [phase EXCEPT ![p] = "running"]
                     /\ running' = [running EXCEPT ![o] = @ + 1]
                     /\ at' = [at EXCEPT ![p] = o]
                     /\ UNCHANGED items
                  \/ /\ running[o] = Concurrency /\ Len(items[o]) < MaxSize
                     /\ phase' = [phase EXCEPT ![p] = "waiting"]
                     /\ items' = [items EXCEPT ![o] = Append(@, p)]
                     /\ at' = [at EXCEPT ![p] = o]
                     /\ UNCHANGED running
<1> USE DEF IInv
<1> DEFINE o == IF queues[k] = None THEN p ELSE queues[k]
           waiting == Append(items[o], p)
           n == Startable(waiting, running[o])
<1>1. o \in Pushes /\ phase[p] = "new" /\ items[p] = <<>>
  BY DEF TypeOK, Push, NewIsUntouched
<1>2. /\ items[o] \in Seq(Pushes) /\ running[o] \in 0..Concurrency
      /\ Concurrency \in Nat \ {0} /\ MaxSize \in Nat \ {0}
  BY <1>1 DEF TypeOK, ConstantsOK
<1>3. CASE Full(o)
  <2>1. o # p
    BY <1>1, <1>2, <1>3 DEF Full
  <2>2. phase' = [phase EXCEPT ![p] = "refused"] /\ UNCHANGED <<items, running, at>>
    BY <1>3 DEF Push
  <2> QED
    BY <1>1, <2>1, <2>2
<1>4. CASE ~Full(o)
  <2>1. /\ at' = [at EXCEPT ![p] = o]
        /\ items' = [items EXCEPT ![o] = SubSeq(waiting, n + 1, Len(waiting))]
        /\ running' = [running EXCEPT ![o] = running[o] + n]
        /\ phase' = [q \in Pushes |-> IF \E i \in 1..n : waiting[i] = q THEN "running"
                                      ELSE [phase EXCEPT ![p] = "waiting"][q]]
    BY <1>4 DEF Push, Start
  <2>2. waiting \in Seq(Pushes) /\ Len(waiting) = Len(items[o]) + 1
    BY <1>2
  <2>3. CASE running[o] < Concurrency
    <3>1. items[o] = <<>>
      BY <1>1, <1>2, <2>3 DEF CounterIsTrue
    <3>2. waiting = <<p>> /\ n = 1
      BY <1>2, <2>3, <3>1 DEF Startable
    <3>3. SubSeq(waiting, n + 1, Len(waiting)) = items[o]
      BY <3>1, <3>2
    <3>4. items' = items
      BY <1>1, <2>1, <3>3 DEF TypeOK
    <3>5. running' = [running EXCEPT ![o] = @ + 1]
      BY <2>1, <3>2
    <3>6. phase' = [phase EXCEPT ![p] = "running"]
      <4>1. \A i \in 1..n : waiting[i] = p
        BY <3>2
      <4>2. 1 \in 1..n
        BY <3>2
      <4> HIDE DEF waiting, n
      <4> QED
        BY <2>1, <4>1, <4>2 DEF TypeOK
    <3> QED
      BY <1>1, <2>1, <2>3, <3>1, <3>4, <3>5, <3>6
  <2>4. CASE ~(running[o] < Concurrency)
    <3>1. running[o] = Concurrency /\ n = 0
      BY <1>2, <2>4 DEF Startable
    <3>2. SubSeq(waiting, n + 1, Len(waiting)) = waiting
      BY <2>2, <3>1, SubSeqFull
    <3>3. items' = [items EXCEPT ![o] = Append(@, p)]
      BY <2>1, <3>2
    <3>4. running' = running
      BY <1>1, <1>2, <2>1, <3>1 DEF TypeOK
    <3>5. phase' = [phase EXCEPT ![p] = "waiting"]
      <4>1. 1..n = {}
        BY <3>1
      <4> HIDE DEF waiting, n
      <4> QED
        BY <2>1, <4>1 DEF TypeOK
    <3>6. Len(items[o]) < MaxSize
      BY <1>2, <1>4 DEF Full
    <3> QED
      BY <1>1, <2>1, <3>1, <3>3, <3>4, <3>5, <3>6
  <2> QED
    BY <2>3, <2>4
<1> QED
  BY <1>3, <1>4

\* What the end of a task does: nothing starts, or the first that waits.
LEMMA SettleStep ==
    ASSUME ConstantsOK, IInv, NEW p \in Pushes, Settle(p)
    PROVE  /\ phase[p] = "running"
           /\ \/ /\ items[at[p]] = <<>>
                 /\ phase' = [phase EXCEPT ![p] = "settled"]
                 /\ running' = [running EXCEPT ![at[p]] = @ - 1]
                 /\ UNCHANGED items
                 /\ \/ running'[at[p]] = 0 /\ Cleanup({at[p]})
                    \/ Cleanup({})
              \/ /\ items[at[p]] # <<>>
                 /\ phase' = [phase EXCEPT ![p] = "settled", ![Head(items[at[p]])] = "running"]
                 /\ items' = [items EXCEPT ![at[p]] = Tail(@)]
                 /\ UNCHANGED running
                 /\ Cleanup({})
           /\ UNCHANGED <<key, at, covers>>
<1> USE DEF IInv
<1> DEFINE o == at[p]
           active == running[o] - 1
           n == Startable(items[o], active)
<1>1. phase[p] = "running" /\ UNCHANGED <<key, at, covers>>
  BY DEF Settle
<1>2. key[p] \in Keys /\ o \in Pushes /\ queues[key[p]] = o
  BY <1>1 DEF LiveHasPlace, Live
<1>3. /\ items[o] \in Seq(Pushes) /\ Concurrency \in Nat \ {0}
      /\ running[o] \in 1..Concurrency /\ active \in 0..Concurrency - 1
  <2>1. running[o] \in 1..Concurrency
    BY <1>1, RunningIsCounted
  <2>2. items[o] \in Seq(Pushes) /\ Concurrency \in Nat \ {0}
    BY <1>2 DEF TypeOK, ConstantsOK
  <2> QED
    BY <2>1, <2>2
<1>4. /\ items' = [items EXCEPT ![o] = SubSeq(items[o], n + 1, Len(items[o]))]
      /\ running' = [running EXCEPT ![o] = active + n]
      /\ phase' = [q \in Pushes |-> IF \E i \in 1..n : items[o][i] = q THEN "running"
                                    ELSE [phase EXCEPT ![p] = "settled"][q]]
      /\ Cleanup(IF Idle(SubSeq(items[o], n + 1, Len(items[o])), active + n) THEN {o} ELSE {})
  BY <1>2 DEF Settle, Start
<1>5. CASE items[o] = <<>>
  <2>1. n = 0
    BY <1>3, <1>5 DEF Startable
  <2>2. SubSeq(items[o], n + 1, Len(items[o])) = items[o]
    BY <1>5, <2>1
  <2>3. items' = items
    BY <1>2, <1>4, <2>2 DEF TypeOK
  <2>4. running' = [running EXCEPT ![o] = @ - 1] /\ running'[o] = active
    <3>1. active + n = active
      BY <1>3, <2>1
    <3>2. running' = [running EXCEPT ![o] = active]
      BY <1>4, <3>1
    <3> QED
      BY <1>2, <3>2 DEF TypeOK
  <2>5. phase' = [phase EXCEPT ![p] = "settled"]
    <3>1. 1..n = {}
      BY <2>1
    <3> HIDE DEF n
    <3> QED
      BY <1>4, <3>1 DEF TypeOK
  <2>6. active + n = running'[o]
    BY <1>3, <2>1, <2>4
  <2>7. (running'[o] = 0 /\ Cleanup({o})) \/ Cleanup({})
    BY <1>4, <2>6 DEF Idle
  <2> QED
    BY <1>1, <1>5, <2>3, <2>4, <2>5, <2>7
<1>6. CASE items[o] # <<>>
  <2>1. running[o] = Concurrency /\ Len(items[o]) \in Nat \ {0}
    BY <1>2, <1>3, <1>6 DEF CounterIsTrue
  <2>2. n = 1
    <3>1. active = Concurrency - 1 /\ Concurrency - active = 1
      BY <1>3, <2>1
    <3>2. ~(active >= Concurrency)
      BY <1>3, <3>1
    <3>3. n = IF Len(items[o]) <= 1 THEN Len(items[o]) ELSE 1
      BY <3>1, <3>2 DEF Startable
    <3> QED
      BY <2>1, <3>3
  <2>3. SubSeq(items[o], n + 1, Len(items[o])) = Tail(items[o])
    <3>1. n + 1 = 2
      BY <2>2
    <3> QED
      BY <1>3, <1>6, <3>1, TailIsSubSeq
  <2>4. items' = [items EXCEPT ![o] = Tail(@)]
    BY <1>4, <2>3
  <2>5. running' = running
    BY <1>2, <1>3, <1>4, <2>2 DEF TypeOK
  <2>6. Head(items[o]) = items[o][1] /\ Head(items[o]) \in Pushes
    BY <1>3, <1>6
  <2>7. phase' = [phase EXCEPT ![p] = "settled", ![Head(items[o])] = "running"]
    <3>1. \A q : (\E i \in 1..n : items[o][i] = q) <=> q = Head(items[o])
      BY <2>2, <2>6
    <3> HIDE DEF n
    <3> QED
      BY <1>4, <2>6, <3>1 DEF TypeOK
  <2>8. ~Idle(SubSeq(items[o], n + 1, Len(items[o])), active + n)
    BY <1>3, <2>2 DEF Idle
  <2>9. Cleanup({})
    BY <1>4, <2>8
  <2> QED
    BY <1>1, <1>6, <2>4, <2>5, <2>7, <2>9
<1> QED
  BY <1>5, <1>6

-----------------------------------------------------------------------------
LEMMA PushKeeps ==
    ASSUME ConstantsOK, IInv, NEW p \in Pushes, NEW k \in Keys, Push(p, k)
    PROVE  IInv'
<1> USE DEF IInv
<1>1. PICK o \in Pushes :
          /\ o = IF queues[k] = None THEN p ELSE queues[k]
          /\ \/ /\ o # p /\ phase' = [phase EXCEPT ![p] = "refused"]
                /\ UNCHANGED <<items, running, at>>
             \/ /\ running[o] < Concurrency /\ items[o] = <<>>
                /\ phase' = [phase EXCEPT ![p] = "running"]
                /\ running' = [running EXCEPT ![o] = @ + 1]
                /\ at' = [at EXCEPT ![p] = o]
                /\ UNCHANGED items
             \/ /\ running[o] = Concurrency /\ Len(items[o]) < MaxSize
                /\ phase' = [phase EXCEPT ![p] = "waiting"]
                /\ items' = [items EXCEPT ![o] = Append(@, p)]
                /\ at' = [at EXCEPT ![p] = o]
                /\ UNCHANGED running
  BY PushStep
<1>2. /\ phase[p] = "new"
      /\ queues' = [queues EXCEPT ![k] = o]
      /\ key' = [key EXCEPT ![p] = k]
      /\ UNCHANGED <<drains, drained, covers>>
  BY <1>1 DEF Push
<1>3. /\ \A l \in Keys : queues[l] # p
      /\ \A q \in Pushes : at[q] # p
      /\ items[p] = <<>> /\ drains[p] = {}
      /\ \A d \in Drains : p \notin covers[d]
  BY <1>2 DEF NewIsUntouched
<1>4. /\ \A q \in Pushes : q # p => phase'[q] = phase[q] /\ key'[q] = key[q] /\ at'[q] = at[q]
      /\ phase'[p] \in {"waiting", "running", "refused"} /\ key'[p] = k
      /\ phase'[p] # "refused" => at'[p] = o
      /\ phase'[p] = "refused" => o # p /\ at' = at
  BY <1>1, <1>2, SMTT(30) DEF TypeOK
<1>5. TypeOK'
  <2>1. items' \in [Pushes -> Seq(Pushes)] /\ \A q \in Pushes : Len(items'[q]) <= MaxSize
    <3>1. CASE UNCHANGED items
      BY <3>1 DEF TypeOK
    <3>2. CASE items' = [items EXCEPT ![o] = Append(@, p)] /\ Len(items[o]) < MaxSize
      <4>1. items'[o] = Append(items[o], p) /\ items[o] \in Seq(Pushes)
        BY <3>2 DEF TypeOK
      <4>2. items'[o] \in Seq(Pushes) /\ Len(items'[o]) <= MaxSize
        BY <3>2, <4>1 DEF ConstantsOK
      <4>3. \A q \in Pushes : q # o => items'[q] = items[q]
        BY <3>2 DEF TypeOK
      <4>4. \A q \in Pushes : items'[q] \in Seq(Pushes) /\ Len(items'[q]) <= MaxSize
        BY <4>2, <4>3 DEF TypeOK
      <4>5. items' = [q \in Pushes |-> items'[q]]
        BY <3>2 DEF TypeOK
      <4> QED
        BY <4>4, <4>5
    <3> QED
      BY <1>1, <3>1, <3>2
  <2>2. running' \in [Pushes -> 0..Concurrency]
    BY <1>1, SMTT(30) DEF TypeOK, ConstantsOK
  <2>3. phase' \in [Pushes -> Phases] /\ at' \in [Pushes -> Pushes \cup {None}]
    <3>1. \E s \in Phases : phase' = [phase EXCEPT ![p] = s]
      BY <1>1 DEF Phases
    <3>2. at' = at \/ at' = [at EXCEPT ![p] = o]
      BY <1>1
    <3> QED
      BY <3>1, <3>2, ZenonT(40) DEF TypeOK
  <2> QED
    BY <1>2, <2>1, <2>2, <2>3 DEF TypeOK
<1>6. queues'[k] = o /\ \A l \in Keys : l # k => queues'[l] = queues[l]
  BY <1>2 DEF TypeOK
<1>7. phase'[o] # "new"
  <2>1. CASE o = p
    BY <1>4, <2>1
  <2>2. CASE o # p
    BY <1>1, <1>4, <2>2 DEF NewIsUntouched
  <2> QED
    BY <2>1, <2>2
<1>8. NewIsUntouched'
  <2> SUFFICES ASSUME NEW q \in Pushes, phase'[q] = "new"
               PROVE  /\ \A l \in Keys : queues'[l] # q
                      /\ \A r \in Pushes : at'[r] # q
                      /\ items'[q] = <<>> /\ drains'[q] = {}
                      /\ \A d \in Drains : q \notin covers'[d]
    BY DEF NewIsUntouched
  <2>1. q # p /\ q # o /\ phase[q] = "new"
    BY <1>4, <1>7
  <2>2. items'[q] = items[q]
    BY <1>1, <2>1 DEF TypeOK
  <2>3. \A r \in Pushes : at'[r] # q
    <3> SUFFICES ASSUME NEW r \in Pushes PROVE at'[r] # q
      OBVIOUS
    <3>1. CASE r # p
      BY <1>4, <2>1, <3>1 DEF NewIsUntouched
    <3>2. CASE r = p /\ phase'[p] # "refused"
      BY <1>4, <2>1, <3>2
    <3>3. CASE r = p /\ phase'[p] = "refused"
      BY <1>4, <2>1, <3>3 DEF NewIsUntouched
    <3> QED
      BY <3>1, <3>2, <3>3
  <2> QED
    BY <1>2, <1>6, <2>1, <2>2, <2>3 DEF NewIsUntouched
<1>9. OneKeyPerQueue'
  BY <1>1, <1>3, <1>6 DEF OneKeyPerQueue
<1>10. \A q \in Pushes : q # p => (Live(q)' <=> Live(q))
  BY <1>4 DEF Live
<1>11. LiveHasPlace'
  <2> SUFFICES ASSUME NEW q \in Pushes, Live(q)'
               PROVE  key'[q] \in Keys /\ at'[q] \in Pushes /\ queues'[key'[q]] = at'[q]
    BY DEF LiveHasPlace
  <2>1. CASE q = p
    BY <1>4, <1>6, <2>1 DEF Live
  <2>2. CASE q # p
    <3>1. key'[q] \in Keys /\ at'[q] \in Pushes /\ queues[key'[q]] = at'[q]
      BY <1>4, <1>10, <2>2 DEF LiveHasPlace
    <3>2. queues[key'[q]] # None
      BY <3>1 DEF ConstantsOK
    <3> QED
      BY <1>1, <1>6, <3>1, <3>2
  <2> QED
    BY <2>1, <2>2
<1>12. \A q \in Pushes : \A i \in DOMAIN items[q] : items[q][i] # p /\ items[q][i] \in Pushes
  BY <1>2 DEF ItemsAreWaiting, TypeOK
<1>13. ItemsAreWaiting'
  <2>1. CASE phase'[p] # "waiting"
    <3>1. UNCHANGED items
      BY <1>1, <1>4, <2>1 DEF TypeOK
    <3> QED
      BY <1>4, <1>12, <2>1, <3>1 DEF ItemsAreWaiting
  <2>2. CASE phase'[p] = "waiting"
    <3> DEFINE n == Len(items[o]) + 1
    <3>1. items' = [items EXCEPT ![o] = Append(@, p)] /\ at'[p] = o
      BY <1>1, <1>4, <2>2 DEF TypeOK
    <3>2. /\ n \in Nat \ {0} /\ DOMAIN items'[o] = 1..n /\ items'[o][n] = p
          /\ \A i \in 1..n : i # n => i \in DOMAIN items[o] /\ items'[o][i] = items[o][i]
          /\ \A i \in DOMAIN items[o] : i \in 1..n /\ i # n
      BY <3>1, SMTT(30) DEF TypeOK
    <3>3. \A q \in Pushes : q # o => items'[q] = items[q]
      BY <3>1 DEF TypeOK
    <3>4. \A q \in Pushes : \A i \in DOMAIN items'[q] :
            /\ phase'[items'[q][i]] = "waiting" /\ at'[items'[q][i]] = q
            /\ \A j \in DOMAIN items'[q] : items'[q][i] = items'[q][j] => i = j
      <4> SUFFICES ASSUME NEW q \in Pushes, NEW i \in DOMAIN items'[q]
                   PROVE  /\ phase'[items'[q][i]] = "waiting" /\ at'[items'[q][i]] = q
                          /\ \A j \in DOMAIN items'[q] : items'[q][i] = items'[q][j] => i = j
        OBVIOUS
      <4>1. CASE q # o
        BY <1>4, <1>12, <3>3, <4>1 DEF ItemsAreWaiting
      <4>2. CASE q = o /\ i = n
        BY <1>12, <2>2, <3>1, <3>2, <4>2
      <4>3. CASE q = o /\ i # n
        BY <1>4, <1>12, <3>2, <4>3 DEF ItemsAreWaiting
      <4> QED
        BY <4>1, <4>2, <4>3
    <3>5. \A q \in Pushes : phase'[q] = "waiting" =>
            \E i \in DOMAIN items'[at'[q]] : items'[at'[q]][i] = q
      <4> SUFFICES ASSUME NEW q \in Pushes, phase'[q] = "waiting"
                   PROVE  \E i \in DOMAIN items'[at'[q]] : items'[at'[q]][i] = q
        OBVIOUS
      <4>1. CASE q = p
        BY <3>1, <3>2, <4>1
      <4>2. CASE q # p
        <5>1. phase[q] = "waiting" /\ at'[q] = at[q] /\ at[q] \in Pushes
          BY <1>4, <4>2 DEF LiveHasPlace, Live
        <5>2. PICK i \in DOMAIN items[at[q]] : items[at[q]][i] = q
          BY <5>1 DEF ItemsAreWaiting
        <5> QED
          BY <3>2, <3>3, <5>1, <5>2
      <4> QED
        BY <4>1, <4>2
    <3> QED
      BY <3>4, <3>5 DEF ItemsAreWaiting
  <2> QED
    BY <2>1, <2>2
<1>14. CounterIsTrue'
  <2> SUFFICES ASSUME NEW q \in Pushes
               PROVE  /\ running'[q] = Cardinality(RunningAt(q)')
                      /\ items'[q] # <<>> => running'[q] = Concurrency
    BY DEF CounterIsTrue
  <2>1. CASE phase'[p] = "running" /\ q = o
    <3>1. running'[q] = running[q] + 1 /\ items'[q] = <<>>
      BY <1>1, <2>1 DEF TypeOK
    <3>2. RunningAt(q)' = RunningAt(q) \cup {p} /\ p \notin RunningAt(q)
      BY <1>2, <1>4, <2>1 DEF RunningAt
    <3>3. Cardinality(RunningAt(q)') = Cardinality(RunningAt(q)) + 1
      BY <3>2, RunningFinite, FS_AddElement
    <3> QED
      BY <3>1, <3>3 DEF CounterIsTrue
  <2>2. CASE ~(phase'[p] = "running" /\ q = o)
    <3>1. running'[q] = running[q]
      BY <1>1, <2>2 DEF TypeOK
    <3>2. RunningAt(q)' = RunningAt(q)
      BY <1>2, <1>4, <2>2 DEF RunningAt
    <3>3. items'[q] = items[q] \/ running[q] = Concurrency
      BY <1>1 DEF TypeOK
    <3> QED
      BY <3>1, <3>2, <3>3 DEF CounterIsTrue
  <2> QED
    BY <2>1, <2>2
<1>15. CoveredIsAwaited'
  BY <1>2, <1>3, <1>4, <1>10 DEF CoveredIsAwaited, TypeOK
<1> QED
  BY <1>5, <1>8, <1>9, <1>11, <1>13, <1>14, <1>15

\* A step that settles p and may start q, of the same object, in its place.
LEMMA SettleKeeps ==
    ASSUME ConstantsOK, IInv, NEW p \in Pushes, Settle(p)
    PROVE  IInv'
<1> USE DEF IInv
<1> DEFINE o == at[p]
<1>1. /\ phase[p] = "running"
      /\ UNCHANGED <<key, at, covers>>
      /\ o \in Pushes /\ o # None /\ key[p] \in Keys /\ queues[key[p]] = o
      /\ running[o] \in 1..Concurrency /\ Concurrency \in Nat \ {0}
  BY SettleStep, RunningIsCounted DEF LiveHasPlace, Live, ConstantsOK
<1>2. \/ /\ items[o] = <<>>
         /\ phase' = [phase EXCEPT ![p] = "settled"]
         /\ running' = [running EXCEPT ![o] = @ - 1]
         /\ UNCHANGED items
         /\ \/ running'[o] = 0 /\ Cleanup({o})
            \/ Cleanup({})
      \/ /\ items[o] # <<>>
         /\ phase' = [phase EXCEPT ![p] = "settled", ![Head(items[o])] = "running"]
         /\ items' = [items EXCEPT ![o] = Tail(@)]
         /\ UNCHANGED running
         /\ Cleanup({})
  BY SettleStep
<1>3. CASE items[o] = <<>>
  <2>1. /\ phase' = [phase EXCEPT ![p] = "settled"]
        /\ running' = [running EXCEPT ![o] = @ - 1]
        /\ UNCHANGED items
        /\ \/ running'[o] = 0 /\ Cleanup({o})
           \/ Cleanup({})
    BY <1>2, <1>3
  <2>2. PICK idle : /\ Cleanup(idle) /\ idle \subseteq {o}
                    /\ o \in idle => running'[o] = 0
    BY <2>1
  <2>3. /\ RunningAt(o)' = RunningAt(o) \ {p} /\ p \in RunningAt(o)
        /\ \A q \in Pushes : q # o => RunningAt(q)' = RunningAt(q)
    BY <1>1, <2>1 DEF RunningAt, TypeOK
  <2>4. /\ running'[o] = running[o] - 1
        /\ \A q \in Pushes : q # o => running'[q] = running[q]
    BY <1>1, <2>1 DEF TypeOK
  <2>5. Cardinality(RunningAt(o)') = Cardinality(RunningAt(o)) - 1
    BY <2>3, RunningFinite, FS_RemoveElement
  <2>6. CounterIsTrue'
    <3> SUFFICES ASSUME NEW q \in Pushes
                 PROVE  /\ running'[q] = Cardinality(RunningAt(q)')
                        /\ items'[q] # <<>> => running'[q] = Concurrency
      BY DEF CounterIsTrue
    <3>1. CASE q = o
      BY <1>1, <1>3, <2>1, <2>4, <2>5, <3>1 DEF CounterIsTrue
    <3>2. CASE q # o
      BY <1>1, <2>1, <2>3, <2>4, <3>2 DEF CounterIsTrue
    <3> QED
      BY <3>1, <3>2
  <2>7. TypeOK'
    <3>1. running' \in [Pushes -> 0..Concurrency]
      BY <1>1, <2>1 DEF TypeOK
    <3>2. phase' \in [Pushes -> Phases]
      BY <2>1 DEF TypeOK, Phases
    <3>3. /\ queues' \in [Keys -> Pushes \cup {None}]
          /\ drains' \in [Pushes -> SUBSET Drains]
          /\ drained' \in [Drains -> {"new", "pending", "done"}]
      BY <2>2 DEF TypeOK, Cleanup
    <3> QED
      BY <1>1, <2>1, <3>1, <3>2, <3>3 DEF TypeOK
  <2>8. /\ \A q \in Pushes : q # p => phase'[q] = phase[q]
        /\ phase'[p] = "settled"
    BY <2>1 DEF TypeOK
  <2>9. /\ \A k \in Keys : queues'[k] = queues[k] \/ (queues[k] \in idle /\ queues'[k] = None)
        /\ \A k \in Keys : queues[k] \notin idle => queues'[k] = queues[k]
        /\ \A q \in Pushes : drains'[q] = IF q \in idle THEN {} ELSE drains[q]
        /\ \A d \in Drains : \/ drained'[d] = drained[d]
                             \/ \A q \in Pushes : d \in drains[q] => q \in idle
    BY <2>2 DEF Cleanup
  <2>10. \A q \in Pushes : Live(q)' => Live(q) /\ at[q] \notin idle
    <3> SUFFICES ASSUME NEW q \in Pushes, Live(q)' PROVE Live(q) /\ at[q] \notin idle
      OBVIOUS
    <3>1. Live(q) /\ q # p /\ phase'[q] = phase[q]
      BY <2>8 DEF Live
    <3>2. ASSUME at[q] \in idle PROVE FALSE
      <4>1. at[q] = o /\ running'[o] = 0
        BY <2>2, <3>2
      <4>2. RunningAt(o)' = {}
        BY <2>4, <2>5, <2>6, <4>1, <1>1, RunningFinite, <2>3, FS_RemoveElement, FS_EmptySet DEF CounterIsTrue
      <4>3. phase[q] # "waiting"
        BY <1>3, <3>1, <4>1 DEF ItemsAreWaiting
      <4>4. q \in RunningAt(o)'
        BY <1>1, <3>1, <4>1, <4>3 DEF RunningAt, Live
      <4> QED
        BY <4>2, <4>4
    <3> QED
      BY <3>1, <3>2
  <2>11. NewIsUntouched'
    BY <1>1, <2>1, <2>8, <2>9 DEF NewIsUntouched, ConstantsOK
  <2>12. OneKeyPerQueue'
    BY <2>9 DEF OneKeyPerQueue
  <2>13. LiveHasPlace'
    BY <1>1, <2>9, <2>10 DEF LiveHasPlace
  <2>14. ItemsAreWaiting'
    BY <1>1, <2>1, <2>8 DEF ItemsAreWaiting
  <2>15. CoveredIsAwaited'
    BY <1>1, <2>9, <2>10 DEF CoveredIsAwaited, LiveHasPlace, TypeOK
  <2> QED
    BY <2>6, <2>7, <2>11, <2>12, <2>13, <2>14, <2>15
<1>4. CASE items[o] # <<>>
  <2> DEFINE h == Head(items[o])
  <2>1. /\ phase' = [phase EXCEPT ![p] = "settled", ![h] = "running"]
        /\ items' = [items EXCEPT ![o] = Tail(@)]
        /\ UNCHANGED running
        /\ Cleanup({})
    BY <1>2, <1>4
  <2>2. UNCHANGED <<queues, drains>> /\ \A d \in Drains : drained[d] = "pending" => drained'[d] \in {"pending", "done"}
    BY <2>1 DEF Cleanup, TypeOK
  <2>3. items[o] \in Seq(Pushes) /\ h = items[o][1] /\ 1 \in DOMAIN items[o] /\ h \in Pushes
    BY <1>1, <1>4 DEF TypeOK
  <2>4. phase[h] = "waiting" /\ at[h] = o /\ h # p
    BY <1>1, <2>3 DEF ItemsAreWaiting
  <2>5. /\ \A q \in Pushes : q # p /\ q # h => phase'[q] = phase[q]
        /\ phase'[p] = "settled" /\ phase'[h] = "running"
    BY <2>1, <2>3, <2>4 DEF TypeOK
  <2>6. /\ \A q \in Pushes : q # o => items'[q] = items[q]
        /\ \A i \in DOMAIN items'[o] : i + 1 \in DOMAIN items[o] /\ items'[o][i] = items[o][i + 1]
        /\ \A i \in DOMAIN items[o] : i # 1 => i - 1 \in DOMAIN items'[o] /\ items[o][i] = items'[o][i - 1]
        /\ DOMAIN items'[o] \subseteq Nat \ {0} /\ DOMAIN items[o] \subseteq Nat \ {0}
    <3>1. items'[o] = Tail(items[o]) /\ \A q \in Pushes : q # o => items'[q] = items[q]
      BY <1>1, <2>1 DEF TypeOK
    <3>2. /\ Len(Tail(items[o])) = Len(items[o]) - 1
          /\ \A i \in 1..Len(items[o]) - 1 : Tail(items[o])[i] = items[o][i + 1]
          /\ Tail(items[o]) \in Seq(Pushes)
      BY <1>4, <2>3, HeadTailProperties
    <3>3. DOMAIN Tail(items[o]) = 1..Len(items[o]) - 1 /\ DOMAIN items[o] = 1..Len(items[o])
          /\ Len(items[o]) \in Nat
      BY <2>3, <3>2
    <3> QED
      BY <3>1, <3>2, <3>3
  <2>7. TypeOK'
    <3>1. phase' \in [Pushes -> Phases]
      BY <2>1 DEF TypeOK, Phases
    <3>2. drained' \in [Drains -> {"new", "pending", "done"}]
      BY <2>1 DEF TypeOK, Cleanup
    <3>3. items' \in [Pushes -> Seq(Pushes)] /\ \A q \in Pushes : Len(items'[q]) <= MaxSize
      <4>1. Tail(items[o]) \in Seq(Pushes) /\ Len(Tail(items[o])) = Len(items[o]) - 1
        BY <1>4, <2>3, HeadTailProperties
      <4>2. Len(items[o]) \in Nat /\ Len(items[o]) <= MaxSize /\ MaxSize \in Nat
        <5>1. Len(items[o]) <= MaxSize
          BY <1>1 DEF TypeOK
        <5> QED
          BY <2>3, <5>1 DEF ConstantsOK
      <4>3. Len(Tail(items[o])) <= MaxSize
        BY <4>1, <4>2
      <4>4. items' \in [Pushes -> Seq(Pushes)]
        BY <2>1, <4>1 DEF TypeOK
      <4>5. \A q \in Pushes : Len(items'[q]) <= MaxSize
        BY <2>1, <4>3 DEF TypeOK
      <4> QED
        BY <4>4, <4>5
    <3> QED
      BY <1>1, <2>1, <2>2, <3>1, <3>2, <3>3 DEF TypeOK
  <2>8. NewIsUntouched'
    BY <1>1, <2>2, <2>4, <2>5, <2>6 DEF NewIsUntouched
  <2>9. \A q \in Pushes : Live(q)' => Live(q)
    BY <2>4, <2>5 DEF Live
  <2>10. LiveHasPlace'
    BY <1>1, <2>2, <2>9 DEF LiveHasPlace
  <2>11. ItemsAreWaiting'
    <3>1. \A q \in Pushes : \A i \in DOMAIN items'[q] :
            /\ phase'[items'[q][i]] = "waiting" /\ at'[items'[q][i]] = q
            /\ \A j \in DOMAIN items'[q] : items'[q][i] = items'[q][j] => i = j
      <4> SUFFICES ASSUME NEW q \in Pushes, NEW i \in DOMAIN items'[q]
                   PROVE  /\ phase'[items'[q][i]] = "waiting" /\ at'[items'[q][i]] = q
                          /\ \A j \in DOMAIN items'[q] : items'[q][i] = items'[q][j] => i = j
        OBVIOUS
      <4>1. CASE q # o
        <5>1. items[q][i] \in Pushes /\ i \in DOMAIN items[q]
          BY <2>6, <4>1 DEF TypeOK
        <5>2. phase[items[q][i]] = "waiting" /\ at[items[q][i]] = q
          BY <5>1 DEF ItemsAreWaiting
        <5>3. items[q][i] # p /\ items[q][i] # h
          BY <1>1, <2>4, <4>1, <5>2
        <5> QED
          BY <1>1, <2>5, <2>6, <4>1, <5>1, <5>2, <5>3 DEF ItemsAreWaiting
      <4>2. CASE q = o
        <5>1. i + 1 \in DOMAIN items[o] /\ items'[o][i] = items[o][i + 1] /\ i \in Nat \ {0}
          BY <2>6, <4>2
        <5>2. items[o][i + 1] \in Pushes
          BY <2>3, <5>1
        <5>3. phase[items[o][i + 1]] = "waiting" /\ at[items[o][i + 1]] = o
          BY <1>1, <5>1 DEF ItemsAreWaiting
        <5>4. items[o][i + 1] # h
          BY <1>1, <2>3, <5>1 DEF ItemsAreWaiting
        <5>5. items[o][i + 1] # p
          BY <1>1, <5>3
        <5>6. \A j \in DOMAIN items'[o] : items'[o][i] = items'[o][j] => i = j
          <6> SUFFICES ASSUME NEW j \in DOMAIN items'[o], items'[o][i] = items'[o][j] PROVE i = j
            OBVIOUS
          <6>1. j + 1 \in DOMAIN items[o] /\ items'[o][j] = items[o][j + 1] /\ j \in Nat
            BY <2>6
          <6>2. i + 1 = j + 1
            <7>1. items[o][i + 1] = items[o][j + 1]
              BY <5>1, <6>1
            <7> QED
              BY <1>1, <5>1, <6>1, <7>1 DEF ItemsAreWaiting
          <6> QED
            BY <5>1, <6>1, <6>2
        <5> QED
          BY <1>1, <2>5, <4>2, <5>1, <5>2, <5>3, <5>4, <5>5, <5>6
      <4> QED
        BY <4>1, <4>2
    <3>2. \A q \in Pushes : phase'[q] = "waiting" =>
            \E i \in DOMAIN items'[at'[q]] : items'[at'[q]][i] = q
      <4> SUFFICES ASSUME NEW q \in Pushes, phase'[q] = "waiting"
                   PROVE  \E i \in DOMAIN items'[at[q]] : items'[at[q]][i] = q
        BY <1>1
      <4>1. q # p /\ q # h /\ phase[q] = "waiting" /\ at[q] \in Pushes
        BY <2>5 DEF LiveHasPlace, Live
      <4>2. PICK i \in DOMAIN items[at[q]] : items[at[q]][i] = q
        BY <4>1 DEF ItemsAreWaiting
      <4>3. CASE at[q] = o
        <5>1. i # 1
          BY <2>3, <4>1, <4>2, <4>3
        <5>2. i - 1 \in DOMAIN items'[o] /\ items[o][i] = items'[o][i - 1]
          BY <2>6, <4>2, <4>3, <5>1
        <5> QED
          BY <4>2, <4>3, <5>2
      <4>4. CASE at[q] # o
        BY <2>6, <4>1, <4>2, <4>4
      <4> QED
        BY <4>3, <4>4
    <3> QED
      BY <3>1, <3>2 DEF ItemsAreWaiting
  <2>12. CounterIsTrue'
    <3> SUFFICES ASSUME NEW q \in Pushes
                 PROVE  /\ running'[q] = Cardinality(RunningAt(q)')
                        /\ items'[q] # <<>> => running'[q] = Concurrency
      BY DEF CounterIsTrue
    <3>1. CASE q = o
      <4>1. RunningAt(o)' = (RunningAt(o) \ {p}) \cup {h} /\ p \in RunningAt(o)
            /\ h \notin RunningAt(o) \ {p}
        BY <1>1, <2>3, <2>4, <2>5 DEF RunningAt
      <4> DEFINE R == RunningAt(o) \ {p}
      <4>2. IsFiniteSet(R) /\ Cardinality(R) = Cardinality(RunningAt(o)) - 1
        BY <4>1, RunningFinite, FS_RemoveElement
      <4>3. Cardinality(RunningAt(o)') = Cardinality(R) + 1
        BY <4>1, <4>2, FS_AddElement
      <4>4. Cardinality(RunningAt(o)') = Cardinality(RunningAt(o))
        BY <4>2, <4>3, RunningFinite
      <4> QED
        BY <1>1, <1>4, <2>1, <3>1, <4>4 DEF CounterIsTrue
    <3>2. CASE q # o
      <4>1. RunningAt(q)' = RunningAt(q)
        BY <1>1, <2>4, <2>5, <3>2 DEF RunningAt
      <4> QED
        BY <2>1, <2>6, <3>2, <4>1 DEF CounterIsTrue
    <3> QED
      BY <3>1, <3>2
  <2>13. CoveredIsAwaited'
    <3> SUFFICES ASSUME NEW d \in Drains, NEW q \in covers[d], Live(q)'
                 PROVE  drained'[d] = "pending" /\ d \in drains[at[q]]
      BY <1>1, <2>2 DEF CoveredIsAwaited
    <3>1. q \in Pushes
      BY DEF TypeOK
    <3>2. drained[d] = "pending" /\ d \in drains[at[q]] /\ at[q] \in Pushes
      BY <2>9, <3>1 DEF CoveredIsAwaited, LiveHasPlace
    <3> QED
      BY <2>1, <3>2 DEF Cleanup
  <2> QED
    BY <2>2, <2>7, <2>8, <2>10, <2>11, <2>12, <2>13 DEF OneKeyPerQueue
<1> QED
  BY <1>3, <1>4

LEMMA ClearKeeps ==
    ASSUME ConstantsOK, IInv, NEW ks \in SUBSET Keys, Clear(ks)
    PROVE  IInv'
<1> USE DEF IInv
<1> DEFINE cleared == Registered(ks)
           idle == {o \in cleared : Idle(<<>>, running[o])}
<1>1. /\ phase' = [p \in Pushes |->
                      IF phase[p] = "waiting" /\ at[p] \in cleared THEN "cleared" ELSE phase[p]]
      /\ items' = [o \in Pushes |-> IF o \in cleared THEN <<>> ELSE items[o]]
      /\ Cleanup(idle)
      /\ UNCHANGED <<running, key, at, covers>>
  BY DEF Clear
<1>2. cleared \subseteq Pushes /\ idle \subseteq cleared /\ \A o \in idle : running[o] = 0
  BY DEF Registered, TypeOK, Idle
<1> HIDE DEF cleared, idle
<1>3. TypeOK'
  <2>1. phase' \in [Pushes -> Phases]
    BY <1>1 DEF TypeOK, Phases
  <2>2. /\ queues' \in [Keys -> Pushes \cup {None}]
        /\ drains' \in [Pushes -> SUBSET Drains]
        /\ drained' \in [Drains -> {"new", "pending", "done"}]
    BY <1>1 DEF TypeOK, Cleanup
  <2>3. items' \in [Pushes -> Seq(Pushes)] /\ \A o \in Pushes : Len(items'[o]) <= MaxSize
    <3>1. <<>> \in Seq(Pushes) /\ Len(<<>>) <= MaxSize
      BY DEF ConstantsOK
    <3> QED
      BY <1>1, <3>1 DEF TypeOK
  <2> QED
    BY <1>1, <2>1, <2>2, <2>3 DEF TypeOK
<1>4. /\ \A p \in Pushes : phase'[p] # phase[p] => phase[p] = "waiting" /\ phase'[p] = "cleared"
      /\ \A p \in Pushes : phase'[p] = "running" <=> phase[p] = "running"
      /\ \A p \in Pushes : phase'[p] = "waiting" <=> phase[p] = "waiting" /\ at[p] \notin cleared
  BY <1>1
<1>5. /\ \A k \in Keys : queues'[k] = queues[k] \/ (queues[k] \in idle /\ queues'[k] = None)
      /\ \A k \in Keys : queues[k] \notin idle => queues'[k] = queues[k]
      /\ \A q \in Pushes : drains'[q] = IF q \in idle THEN {} ELSE drains[q]
      /\ \A d \in Drains : \/ drained'[d] = drained[d]
                           \/ \A q \in Pushes : d \in drains[q] => q \in idle
  BY <1>1 DEF Cleanup
<1>6. \A p \in Pushes : Live(p)' => Live(p) /\ at[p] \notin idle
  <2> SUFFICES ASSUME NEW p \in Pushes, Live(p)' PROVE Live(p) /\ at[p] \notin idle
    OBVIOUS
  <2>1. Live(p)
    BY <1>4 DEF Live
  <2>2. CASE phase[p] = "running"
    BY <1>2, <2>1, <2>2, RunningIsCounted
  <2>3. CASE phase[p] = "waiting"
    BY <1>2, <1>4, <2>1, <2>3 DEF Live
  <2> QED
    BY <2>1, <2>2, <2>3 DEF Live
<1>7. NewIsUntouched'
  <2> SUFFICES ASSUME NEW q \in Pushes, phase'[q] = "new"
               PROVE  /\ \A l \in Keys : queues'[l] # q
                      /\ \A r \in Pushes : at'[r] # q
                      /\ items'[q] = <<>> /\ drains'[q] = {}
                      /\ \A d \in Drains : q \notin covers'[d]
    BY DEF NewIsUntouched
  <2>1. phase[q] = "new"
    BY <1>4
  <2> QED
    BY <1>1, <1>5, <2>1 DEF NewIsUntouched, ConstantsOK
<1>8. OneKeyPerQueue'
  BY <1>5 DEF OneKeyPerQueue
<1>9. LiveHasPlace'
  BY <1>1, <1>5, <1>6 DEF LiveHasPlace
<1>10. ItemsAreWaiting'
  <2>1. \A o \in Pushes : \A i \in DOMAIN items'[o] :
            /\ phase'[items'[o][i]] = "waiting" /\ at'[items'[o][i]] = o
            /\ \A j \in DOMAIN items'[o] : items'[o][i] = items'[o][j] => i = j
    <3> SUFFICES ASSUME NEW o \in Pushes, NEW i \in DOMAIN items'[o]
                 PROVE  /\ phase'[items'[o][i]] = "waiting" /\ at'[items'[o][i]] = o
                        /\ \A j \in DOMAIN items'[o] : items'[o][i] = items'[o][j] => i = j
      OBVIOUS
    <3>1. o \notin cleared /\ items'[o] = items[o]
      BY <1>1
    <3>2. items[o][i] \in Pushes
      BY <3>1 DEF TypeOK
    <3> QED
      BY <1>1, <1>4, <3>1, <3>2 DEF ItemsAreWaiting
  <2>2. \A p \in Pushes : phase'[p] = "waiting" =>
            \E i \in DOMAIN items'[at'[p]] : items'[at'[p]][i] = p
    <3> SUFFICES ASSUME NEW p \in Pushes, phase'[p] = "waiting"
                 PROVE  \E i \in DOMAIN items'[at[p]] : items'[at[p]][i] = p
      BY <1>1
    <3>1. phase[p] = "waiting" /\ at[p] \notin cleared /\ at[p] \in Pushes
      BY <1>4 DEF LiveHasPlace, Live
    <3>2. items'[at[p]] = items[at[p]]
      BY <1>1, <3>1
    <3> QED
      BY <3>1, <3>2 DEF ItemsAreWaiting
  <2> QED
    BY <2>1, <2>2 DEF ItemsAreWaiting
<1>11. CounterIsTrue'
  <2>1. \A o \in Pushes : RunningAt(o)' = RunningAt(o)
    BY <1>1, <1>4 DEF RunningAt
  <2>2. \A o \in Pushes : items'[o] # <<>> => items'[o] = items[o]
    BY <1>1
  <2> QED
    BY <1>1, <2>1, <2>2 DEF CounterIsTrue
<1>12. CoveredIsAwaited'
  BY <1>1, <1>5, <1>6 DEF CoveredIsAwaited, LiveHasPlace, TypeOK
<1> QED
  BY <1>3, <1>7, <1>8, <1>9, <1>10, <1>11, <1>12

LEMMA DrainKeeps ==
    ASSUME ConstantsOK, IInv, NEW d \in Drains, NEW ks \in SUBSET Keys, Drain(d, ks)
    PROVE  IInv'
<1> USE DEF IInv
<1> DEFINE busy == {o \in Registered(ks) : Busy(o)}
<1>1. /\ drained[d] = "new"
      /\ drained' = [drained EXCEPT ![d] = IF busy = {} THEN "done" ELSE "pending"]
      /\ drains' = [o \in Pushes |-> IF o \in busy THEN drains[o] \cup {d} ELSE drains[o]]
      /\ covers' = [covers EXCEPT ![d] = {p \in Unfinished : key[p] \in ks}]
      /\ UNCHANGED <<queues, items, running, phase, key, at>>
  BY DEF Drain
<1>2. \A o \in busy : \E k \in Keys : queues[k] = o
  BY DEF Registered
<1>3. \A p \in Pushes : Live(p) /\ key[p] \in ks => at[p] \in busy
  <2> SUFFICES ASSUME NEW p \in Pushes, Live(p), key[p] \in ks PROVE at[p] \in busy
    OBVIOUS
  <2>1. at[p] \in Pushes /\ queues[key[p]] = at[p] /\ at[p] # None
    BY DEF LiveHasPlace, ConstantsOK
  <2>2. at[p] \in Registered(ks)
    BY <2>1 DEF Registered
  <2>3. CASE phase[p] = "waiting"
    <3>1. \E i \in DOMAIN items[at[p]] : items[at[p]][i] = p
      BY <2>3 DEF ItemsAreWaiting
    <3>2. items[at[p]] # <<>>
      BY <3>1
    <3> QED
      BY <2>2, <3>2 DEF Busy
  <2>4. CASE phase[p] = "running"
    <3>1. running[at[p]] # 0
      BY <2>4, RunningIsCounted
    <3> QED
      BY <2>2, <3>1 DEF Busy
  <2> QED
    BY <2>3, <2>4 DEF Live
<1> HIDE DEF busy
<1>4. TypeOK'
  <2>1. covers' \in [Drains -> SUBSET Pushes]
    BY <1>1 DEF TypeOK, Unfinished
  <2>2. drained' \in [Drains -> {"new", "pending", "done"}]
    BY <1>1 DEF TypeOK
  <2>3. drains' \in [Pushes -> SUBSET Drains]
    BY <1>1 DEF TypeOK
  <2> QED
    BY <1>1, <2>1, <2>2, <2>3 DEF TypeOK
<1>5. NewIsUntouched'
  <2> SUFFICES ASSUME NEW q \in Pushes, phase[q] = "new"
               PROVE  drains'[q] = {} /\ \A e \in Drains : q \notin covers'[e]
    BY <1>1 DEF NewIsUntouched
  <2>1. q \notin busy
    BY <1>2 DEF NewIsUntouched
  <2>2. drains'[q] = {}
    BY <1>1, <2>1 DEF NewIsUntouched
  <2>3. q \notin Unfinished
    BY DEF Unfinished
  <2> QED
    BY <1>1, <2>2, <2>3 DEF NewIsUntouched, TypeOK
<1>6. CoveredIsAwaited'
  <2> SUFFICES ASSUME NEW e \in Drains, NEW p \in covers'[e], Live(p)
               PROVE  drained'[e] = "pending" /\ e \in drains'[at[p]]
    BY <1>1 DEF CoveredIsAwaited, Live
  <2>1. p \in Pushes
    BY <1>4 DEF TypeOK
  <2>2. at[p] \in Pushes
    BY <2>1 DEF LiveHasPlace
  <2>3. CASE e = d
    <3>1. key[p] \in ks
      BY <1>1, <2>3 DEF TypeOK
    <3>2. at[p] \in busy
      BY <1>3, <2>1, <3>1
    <3> QED
      BY <1>1, <2>2, <2>3, <3>2 DEF TypeOK
  <2>4. CASE e # d
    <3>1. p \in covers[e] /\ drained'[e] = drained[e]
      BY <1>1, <2>4 DEF TypeOK
    <3>2. drained[e] = "pending" /\ e \in drains[at[p]]
      BY <2>1, <3>1 DEF CoveredIsAwaited
    <3> QED
      BY <1>1, <2>2, <3>1, <3>2
  <2> QED
    BY <2>3, <2>4
<1>7. \A o \in Pushes : RunningAt(o)' = RunningAt(o)
  BY <1>1 DEF RunningAt
<1>8. OneKeyPerQueue' /\ LiveHasPlace' /\ ItemsAreWaiting'
  BY <1>1 DEF OneKeyPerQueue, LiveHasPlace, ItemsAreWaiting, Live
<1>9. CounterIsTrue'
  BY <1>1, <1>7 DEF CounterIsTrue
<1> QED
  BY <1>4, <1>5, <1>6, <1>8, <1>9

-----------------------------------------------------------------------------
LEMMA InitHolds == ASSUME ConstantsOK, Init PROVE IInv
<1> USE DEF Init
<1>1. TypeOK
  <2>1. items \in [Pushes -> Seq(Pushes)] /\ \A o \in Pushes : Len(items[o]) <= MaxSize
    BY DEF ConstantsOK
  <2>2. running \in [Pushes -> 0..Concurrency]
    BY DEF ConstantsOK
  <2> QED
    BY <2>1, <2>2 DEF TypeOK, Phases
<1>2. NewIsUntouched /\ OneKeyPerQueue /\ LiveHasPlace /\ ItemsAreWaiting /\ CoveredIsAwaited
  BY DEF NewIsUntouched, OneKeyPerQueue, LiveHasPlace, ItemsAreWaiting, CoveredIsAwaited, Live,
         ConstantsOK
<1>3. \A o \in Pushes : RunningAt(o) = {}
  BY DEF RunningAt
<1>4. CounterIsTrue
  BY <1>3, FS_EmptySet DEF CounterIsTrue
<1> QED
  BY <1>1, <1>2, <1>4 DEF IInv

LEMMA StepKeeps == ASSUME ConstantsOK, IInv, [Next]_vars PROVE IInv'
<1>1. ASSUME NEW p \in Pushes, NEW k \in Keys, Push(p, k) PROVE IInv'
  BY <1>1, PushKeeps
<1>2. ASSUME NEW p \in Pushes, Settle(p) PROVE IInv'
  BY <1>2, SettleKeeps
<1>3. ASSUME NEW ks \in KeyChoices, Clear(ks) PROVE IInv'
  BY <1>3, ClearKeeps DEF KeyChoices
<1>4. ASSUME NEW d \in Drains, NEW ks \in KeyChoices, Drain(d, ks) PROVE IInv'
  BY <1>4, DrainKeeps DEF KeyChoices
<1>5. CASE UNCHANGED vars
  <2>1. UNCHANGED <<queues, items, running, drains, phase, key, at, drained, covers>>
    BY <1>5 DEF vars
  <2>2. TypeOK'
    BY <2>1 DEF IInv, TypeOK
  <2>3. NewIsUntouched' /\ OneKeyPerQueue' /\ LiveHasPlace'
    BY <2>1 DEF IInv, NewIsUntouched, OneKeyPerQueue, LiveHasPlace, Live
  <2>4. ItemsAreWaiting' /\ CounterIsTrue' /\ CoveredIsAwaited'
    BY <2>1 DEF IInv, ItemsAreWaiting, CounterIsTrue, CoveredIsAwaited, Live, RunningAt
  <2> QED
    BY <2>2, <2>3, <2>4 DEF IInv
<1> QED
  BY <1>1, <1>2, <1>3, <1>4, <1>5 DEF Next

LEMMA Invariance == ASSUME ConstantsOK PROVE Spec => []IInv
<1>1. Init => IInv
  BY InitHolds
<1>2. IInv /\ [Next]_vars => IInv'
  BY StepKeeps
<1> QED
  BY <1>1, <1>2, PTL DEF Spec

\* The books of the queue plugin (plugins/queue/server.js): no more tasks of a
\* key run than its limit, none waits while a slot is free, the counter a task
\* was added to is the one its end is taken from, and a drain resolves only
\* when all that was unfinished at the call has been settled.
THEOREM BooksAreKept == ASSUME ConstantsOK PROVE Spec => []Sound
<1>1. IInv => Sound
  BY InvariantIsSound
<1> QED
  BY <1>1, Invariance, PTL

\* Tasks of one queue start in the order in which they were pushed: no step of
\* process(), of a task's end, of clear() or of drain() starts a task while an
\* earlier one of its queue goes on waiting.
THEOREM StartsInOrder == ASSUME ConstantsOK PROVE Spec => StartedInOrder
<1> DEFINE Ordered == \A o \in Pushes : \A i, j \in DOMAIN items[o] :
              i < j /\ phase'[items[o][j]] = "running" => phase'[items[o][i]] # "waiting"
<1>1. ASSUME IInv, [Next]_vars PROVE [Ordered]_vars
  <2> SUFFICES ASSUME NEW o \in Pushes, NEW i \in DOMAIN items[o], NEW j \in DOMAIN items[o],
                      i < j, phase'[items[o][j]] = "running"
               PROVE  FALSE
    BY DEF Ordered
  <2> DEFINE q == items[o][j]
  <2>1. /\ items[o] \in Seq(Pushes) /\ i \in Nat \ {0} /\ j \in Nat \ {0}
        /\ q \in Pushes /\ phase[q] = "waiting" /\ at[q] = o
    BY <1>1, SMTT(30) DEF IInv, TypeOK, ItemsAreWaiting
  <2>2. ASSUME NEW p \in Pushes, NEW k \in Keys, Push(p, k) PROVE FALSE
    <3>1. phase[p] = "new" /\ q # p
      BY <2>1, <2>2 DEF Push
    <3>2. phase'[q] = phase[q]
      <4>1. \E s \in Phases : phase' = [phase EXCEPT ![p] = s]
        BY <1>1, <2>2, PushStep DEF Phases
      <4> QED
        BY <1>1, <2>1, <3>1, <4>1 DEF IInv, TypeOK
    <3> QED
      BY <2>1, <3>2
  <2>3. ASSUME NEW p \in Pushes, Settle(p) PROVE FALSE
    <3>1. phase[p] = "running"
      BY <1>1, <2>3, SettleStep
    <3>2. \/ phase' = [phase EXCEPT ![p] = "settled"]
          \/ /\ items[at[p]] # <<>>
             /\ phase' = [phase EXCEPT ![p] = "settled", ![Head(items[at[p]])] = "running"]
      BY <1>1, <2>3, SettleStep
    <3>3. q = Head(items[at[p]]) /\ items[at[p]] # <<>>
      BY <1>1, <2>1, <3>1, <3>2 DEF IInv, TypeOK
    <3>4. at[p] \in Pushes
      BY <1>1, <3>1 DEF IInv, LiveHasPlace, Live
    <3>5. items[at[p]] \in Seq(Pushes)
      BY <1>1, <3>4 DEF IInv, TypeOK
    <3>6. q = items[at[p]][1] /\ 1 \in DOMAIN items[at[p]]
      BY <3>3, <3>5
    <3>7. at[p] = o
      BY <1>1, <2>1, <3>4, <3>6 DEF IInv, ItemsAreWaiting
    <3>8. j = 1
      BY <1>1, <3>6, <3>7 DEF IInv, ItemsAreWaiting
    <3> QED
      BY <2>1, <3>8
  <2>4. ASSUME NEW ks \in KeyChoices, Clear(ks) PROVE FALSE
    BY <2>1, <2>4 DEF Clear
  <2>5. ASSUME NEW d \in Drains, NEW ks \in KeyChoices, Drain(d, ks) PROVE FALSE
    BY <2>1, <2>5 DEF Drain
  <2>6. CASE UNCHANGED vars
    BY <2>1, <2>6 DEF vars
  <2> QED
    BY <1>1, <2>2, <2>3, <2>4, <2>5, <2>6 DEF Next
<1> QED
  BY <1>1, Invariance, PTL DEF Spec, StartedInOrder
==============================================================================
