--------------------------- MODULE AdmissionProofs ---------------------------
(***************************************************************************)
(* Proofs about Admission: the controller's books, one answer per upgrade  *)
(* request, and the order of the queue, for any number of requests, any    *)
(* cap, any budget, with a timeout or without one. And about Ssr, as       *)
(* MCAdmission composes it: the pool, the dedup map and the bodies, for    *)
(* any requests, keys, pages and limits. And about what MCAdmission also   *)
(* composes, StaticFiles, Origins and UpgradeRate.                         *)
(***************************************************************************)
EXTENDS MCAdmission, FiniteSetTheorems, SequenceTheorems, TLAPS

Waiting(a) == stage[a] \in {"hook", "deferred"}

\* A request that has not come yet has left no trace.
NewIsUntouched ==
    \A a \in Attempts : stage[a] = "new" =>
        /\ answer[a] = <<>>
        /\ a \notin aborted /\ a \notin timedOut /\ a \notin timers
        /\ a \notin unreleased /\ a \notin bad

\* An armed timer belongs to a pending hook, and fires once.
TimersOnHooks ==
    \A a \in timers : stage[a] = "hook" /\ a \notin timedOut

\* Nothing is written while the attempt waits, but by the timeout, and the
\* timeout ends only a pending hook.
WaitingIsSilent ==
    \A a \in Attempts :
        /\ Waiting(a) /\ a \notin timedOut => answer[a] = <<>>
        /\ stage[a] = "deferred" => a \notin timedOut
        /\ stage[a] = "hook" => a \notin bad

\* A waiting attempt whose client is there holds a slot.
WaitingHoldsSlot ==
    \A a \in Attempts : Waiting(a) /\ ~Gone(a) => a \in unreleased

\* The queue holds each deferred attempt once, only while the budget of the tick
\* is spent, and a drain is on its way.
QueueIsProper ==
    /\ \A i, j \in DOMAIN deferred : deferred[i] = deferred[j] => i = j
    /\ \A i \in DOMAIN deferred : stage[deferred[i]] = "deferred"
    /\ deferred # <<>> => ~HasBudget /\ scheduled

IInv ==
    /\ TypeOK
    /\ NoSlotLeak
    /\ OneAnswer
    /\ NewIsUntouched
    /\ TimersOnHooks
    /\ WaitingIsSilent
    /\ WaitingHoldsSlot
    /\ QueueIsProper

-----------------------------------------------------------------------------
\* Adding a slot to the books.
LEMMA TakeSlot ==
    ASSUME TypeOK, NEW a \in Attempts, a \notin unreleased
    PROVE  Cardinality(unreleased \cup {a}) = Cardinality(unreleased) + 1
BY ConstantsOK, FS_Subset, FS_AddElement DEF TypeOK

\* Taking one away: the counter was positive.
LEMMA GiveSlotBack ==
    ASSUME TypeOK, inFlight = Cardinality(unreleased), NEW a \in Attempts, ReleaseInFlight(a)
    PROVE  /\ inFlight' = Cardinality(unreleased')
           /\ inFlight' \in Nat /\ inFlight' <= inFlight
<1>1. IsFiniteSet(unreleased)
  BY ConstantsOK, FS_Subset DEF TypeOK
<1>2. CASE a \in unreleased
  <2>1. Cardinality(unreleased \ {a}) = Cardinality(unreleased) - 1
    BY <1>1, <1>2, FS_RemoveElement
  <2>2. IsFiniteSet(unreleased \ {a})
    BY <1>1, FS_RemoveElement
  <2>3. Cardinality(unreleased \ {a}) \in Nat
    BY <2>2, FS_CardinalityType
  <2> QED
    BY <1>2, <2>1, <2>3 DEF ReleaseInFlight, TypeOK
<1>3. CASE a \notin unreleased
  <2>1. unreleased' = unreleased
    BY <1>3 DEF ReleaseInFlight
  <2>2. inFlight' = inFlight
    BY <1>3 DEF ReleaseInFlight
  <2> QED
    BY <2>1, <2>2 DEF TypeOK
<1> QED
  BY <1>2, <1>3

\* A step that answers a once, and nobody else.
LEMMA StillOneAnswer ==
    ASSUME OneAnswer, NEW a \in Attempts,
           Len(answer'[a]) <= 1,
           \A b \in Attempts : b # a => answer'[b] = answer[b]
    PROVE  \A b \in Attempts : Len(answer'[b]) <= 1
<1> SUFFICES ASSUME NEW b \in Attempts PROVE Len(answer'[b]) <= 1
  OBVIOUS
<1>1. CASE b = a
  BY <1>1
<1>2. CASE b # a
  <2>1. answer'[b] = answer[b]
    BY <1>2
  <2> QED
    BY <2>1 DEF OneAnswer
<1> QED
  BY <1>1, <1>2

\* What admit() does to an attempt that has not been answered and has, or is
\* given, a slot; the rest of the handler touches flags and timers only.
LEMMA AdmitKeeps ==
    ASSUME IInv, NEW a \in Attempts, NEW throws \in BOOLEAN, NEW acquired \in BOOLEAN,
           Admit(a, throws, acquired),
           answer[a] = <<>>, ~Gone(a), stage[a] \in {"new", "hook"},
           acquired <=> a \notin unreleased,
           acquired => ~AtCapacity,
           timers' = timers \ {a},
           bad' = IF throws THEN bad \cup {a} ELSE bad,
           UNCHANGED <<hasHook, aborted, timedOut, phase>>
    PROVE  IInv'
<1> USE DEF IInv
<1>0. IsFiniteSet(unreleased) /\ Cardinality(unreleased) \in Nat
  BY ConstantsOK, FS_Subset, FS_CardinalityType DEF TypeOK
<1>1. CASE HasBudget
  <2>1. /\ perTick' = IF PerTickBudget = 0 THEN perTick ELSE perTick + 1
        /\ stage' = [stage EXCEPT ![a] = "over"]
        /\ answer' = [answer EXCEPT ![a] =
                          Append(@, IF throws THEN "refused" ELSE "switched")]
        /\ unreleased' = unreleased \ {a}
        /\ inFlight' = IF acquired THEN inFlight ELSE inFlight - 1
        /\ UNCHANGED <<deferred, scheduled>>
    BY <1>1 DEF Admit, Say
  <2>2. answer'[a] \in Seq(Answers) /\ Len(answer'[a]) <= 1
    BY <2>1 DEF TypeOK, Answers
  <2>3. ReleaseInFlight(a)
    BY <2>1 DEF ReleaseInFlight
  <2>4. /\ inFlight' = Cardinality(unreleased')
        /\ inFlight' \in Nat /\ inFlight' <= inFlight
    BY <2>3, GiveSlotBack DEF NoSlotLeak
  <2>5. perTick' \in 0..PerTickBudget
    BY <1>1, <2>1, ConstantsOK DEF HasBudget, TypeOK
  <2>6. inFlight' \in Nat /\ (MaxConcurrent > 0 => inFlight' <= MaxConcurrent)
    BY <2>4, ConstantsOK DEF TypeOK
  <2>7. TypeOK'
    BY <2>1, <2>2, <2>5, <2>6 DEF TypeOK
  <2>8. deferred = <<>>
    BY <1>1 DEF QueueIsProper
  <2>9. \A b \in Attempts : b # a => stage'[b] = stage[b] /\ answer'[b] = answer[b]
    BY <2>1 DEF TypeOK
  <2>10. stage'[a] = "over"
    BY <2>1 DEF TypeOK
  <2>11. \A b \in Attempts : Gone(b)' <=> Gone(b)
    BY DEF Gone
  <2>12. NoSlotLeak'
    BY <2>1, <2>4, <2>9, <2>11 DEF NoSlotLeak, TypeOK
  <2>13. OneAnswer'
    <3>1. \A b \in Attempts : Len(answer'[b]) <= 1
      BY <2>2, <2>9, StillOneAnswer
    <3>2. \A b \in aborted' : b # a /\ b \in Attempts /\ answer[b] = <<>>
      BY DEF OneAnswer, Gone, TypeOK
    <3>3. \A b \in aborted' : answer'[b] = <<>>
      BY <2>9, <3>2
    <3> QED
      BY <3>1, <3>3 DEF OneAnswer
  <2>14. NewIsUntouched'
    BY <2>1, <2>9, <2>10 DEF NewIsUntouched
  <2>15. TimersOnHooks'
    BY <2>9 DEF TimersOnHooks, TypeOK
  <2>16. WaitingIsSilent'
    BY <2>9, <2>10 DEF WaitingIsSilent, Waiting
  <2>17. WaitingHoldsSlot'
    BY <2>1, <2>9, <2>10, <2>11 DEF WaitingHoldsSlot, Waiting
  <2>18. QueueIsProper'
    BY <2>1, <2>8 DEF QueueIsProper
  <2> QED
    BY <2>7, <2>12, <2>13, <2>14, <2>15, <2>16, <2>17, <2>18
<1>2. CASE ~HasBudget
  <2>1. /\ deferred' = Append(deferred, a)
        /\ scheduled'
        /\ stage' = [stage EXCEPT ![a] = "deferred"]
        /\ unreleased' = unreleased \cup {a}
        /\ inFlight' = IF acquired THEN inFlight + 1 ELSE inFlight
        /\ UNCHANGED <<perTick, answer>>
    BY <1>2 DEF Admit, Defer, Silent
  <2>2. inFlight' = Cardinality(unreleased')
    <3>1. CASE acquired
      BY <2>1, <3>1, TakeSlot DEF NoSlotLeak
    <3>2. CASE ~acquired
      <4>1. unreleased' = unreleased
        BY <2>1, <3>2
      <4> QED
        BY <2>1, <3>2, <4>1 DEF NoSlotLeak
    <3> QED
      BY <3>1, <3>2
  <2>3. inFlight' \in Nat /\ (MaxConcurrent > 0 => inFlight' <= MaxConcurrent)
    BY <2>1, ConstantsOK DEF TypeOK, AtCapacity
  <2>4. scheduled' = TRUE
    BY <1>2 DEF Admit, Defer
  <2>5. deferred' \in Seq(Attempts)
    BY <2>1 DEF TypeOK
  <2>6. TypeOK'
    BY <2>1, <2>3, <2>4, <2>5 DEF TypeOK
  <2>7. \A b \in Attempts : b # a => stage'[b] = stage[b]
    BY <2>1 DEF TypeOK
  <2>8. stage'[a] = "deferred"
    BY <2>1 DEF TypeOK
  <2>9. \A b \in Attempts : Gone(b)' <=> Gone(b)
    BY DEF Gone
  <2>10. NoSlotLeak'
    BY <2>1, <2>2, <2>7, <2>8, <2>9 DEF NoSlotLeak, TypeOK
  <2>11. OneAnswer'
    BY <2>1 DEF OneAnswer
  <2>12. NewIsUntouched'
    BY <2>1, <2>7, <2>8 DEF NewIsUntouched
  <2>13. TimersOnHooks'
    BY <2>7 DEF TimersOnHooks, TypeOK
  <2>14. WaitingIsSilent'
    BY <2>1, <2>7, <2>8 DEF WaitingIsSilent, Waiting, Gone
  <2>15. WaitingHoldsSlot'
    BY <2>1, <2>7, <2>8, <2>9 DEF WaitingHoldsSlot, Waiting
  <2>16. QueueIsProper'
    <3> DEFINE n == Len(deferred) + 1
    <3>1. /\ DOMAIN deferred' = 1..n /\ n \in Nat \ {0}
          /\ deferred'[n] = a
          /\ \A i \in 1..n : i # n => i \in DOMAIN deferred /\ deferred'[i] = deferred[i]
      <4>1. deferred \in Seq(Attempts) /\ deferred' = Append(deferred, a)
        BY <2>1 DEF TypeOK
      <4>2. Len(deferred) \in Nat /\ DOMAIN deferred = 1..Len(deferred)
        BY <4>1, LenProperties
      <4>3. /\ deferred' \in Seq(Attempts) /\ Len(deferred') = n
            /\ \A i \in 1..Len(deferred) : deferred'[i] = deferred[i]
            /\ deferred'[n] = a
        BY <4>1, AppendProperties
      <4>4. DOMAIN deferred' = 1..n
        BY <4>3, LenProperties
      <4> QED
        BY <4>2, <4>3, <4>4
    <3>2. \A i \in DOMAIN deferred : deferred[i] # a /\ deferred[i] \in Attempts
      BY DEF QueueIsProper, TypeOK
    <3>3. \A i, j \in DOMAIN deferred' : deferred'[i] = deferred'[j] => i = j
      BY <3>1, <3>2 DEF QueueIsProper
    <3>4. \A i \in DOMAIN deferred' : stage'[deferred'[i]] = "deferred"
      BY <2>7, <2>8, <3>1, <3>2 DEF QueueIsProper
    <3>5. ~HasBudget'
      BY <1>2, <2>1 DEF HasBudget
    <3> QED
      BY <2>1, <3>3, <3>4, <3>5 DEF QueueIsProper
  <2> QED
    BY <2>6, <2>10, <2>11, <2>12, <2>13, <2>14, <2>15, <2>16
<1> QED
  BY <1>1, <1>2

-----------------------------------------------------------------------------
\* A step that only ends a, which has answered nothing and holds no slot.
LEMMA EndNewKeeps ==
    ASSUME IInv, NEW a \in Attempts, Shed(a) \/ Refuse(a)
    PROVE  IInv'
<1> USE DEF IInv
<1>1. /\ stage[a] = "new" /\ answer[a] = <<>>
      /\ stage' = [stage EXCEPT ![a] = "over"]
      /\ answer' = [answer EXCEPT ![a] = Append(@, "refused")]
      /\ UNCHANGED <<hasHook, bad, aborted, timedOut, timers, unreleased, controller, phase>>
  BY DEF Shed, Refuse, Arrives, Say, NewIsUntouched
<1>2. answer'[a] \in Seq(Answers) /\ Len(answer'[a]) <= 1
  BY <1>1 DEF TypeOK, Answers
<1>3. /\ \A b \in Attempts : b # a => stage'[b] = stage[b] /\ answer'[b] = answer[b]
      /\ stage'[a] = "over"
  BY <1>1 DEF TypeOK
<1>4. \A b \in Attempts : Gone(b)' <=> Gone(b)
  BY <1>1 DEF Gone
<1>5. TypeOK'
  BY <1>1, <1>2 DEF TypeOK, controller
<1>6. NoSlotLeak'
  BY <1>1, <1>3, <1>4 DEF NoSlotLeak, NewIsUntouched, TypeOK, controller
<1>7. OneAnswer'
  <2>1. \A b \in Attempts : Len(answer'[b]) <= 1
    BY <1>2, <1>3, StillOneAnswer
  <2>2. \A b \in aborted' : b # a /\ b \in Attempts /\ answer[b] = <<>>
    BY <1>1 DEF OneAnswer, NewIsUntouched, TypeOK
  <2>3. \A b \in aborted' : answer'[b] = <<>>
    BY <1>3, <2>2
  <2> QED
    BY <2>1, <2>3 DEF OneAnswer
<1>8. NewIsUntouched'
  BY <1>1, <1>3 DEF NewIsUntouched
<1>9. TimersOnHooks'
  BY <1>1, <1>3 DEF TimersOnHooks, NewIsUntouched, TypeOK
<1>10. WaitingIsSilent'
  BY <1>1, <1>3 DEF WaitingIsSilent, Waiting
<1>11. WaitingHoldsSlot'
  BY <1>1, <1>3, <1>4 DEF WaitingHoldsSlot, Waiting
<1>12. QueueIsProper'
  BY <1>1, <1>3 DEF QueueIsProper, TypeOK, HasBudget, controller
<1> QED
  BY <1>5, <1>6, <1>7, <1>8, <1>9, <1>10, <1>11, <1>12

LEMMA FastPathKeeps ==
    ASSUME IInv, NEW a \in Attempts, FastPath(a)
    PROVE  IInv'
<1>1. /\ stage[a] = "new" /\ answer[a] = <<>> /\ ~Gone(a)
      /\ a \notin unreleased /\ a \notin timers
  BY DEF FastPath, Arrives, IInv, NewIsUntouched, Gone
<1>2. timers' = timers \ {a}
  BY <1>1 DEF FastPath
<1> QED
  BY <1>1, <1>2, AdmitKeeps DEF FastPath

LEMMA CallHookKeeps ==
    ASSUME IInv, NEW a \in Attempts, CallHook(a)
    PROVE  IInv'
<1> USE DEF IInv
<1>1. /\ stage[a] = "new" /\ answer[a] = <<>> /\ ~Gone(a)
      /\ a \notin unreleased /\ a \notin timers /\ a \notin bad
  BY DEF CallHook, Arrives, NewIsUntouched, Gone
<1>2. /\ stage' = [stage EXCEPT ![a] = "hook"]
      /\ unreleased' = unreleased \cup {a}
      /\ inFlight' = inFlight + 1
      /\ timers' \subseteq timers \cup {a}
      /\ UNCHANGED <<hasHook, bad, answer, aborted, timedOut, perTick, deferred, scheduled,
                     phase>>
  BY DEF CallHook
<1>3. /\ \A b \in Attempts : b # a => stage'[b] = stage[b]
      /\ stage'[a] = "hook"
  BY <1>2 DEF TypeOK
<1>4. \A b \in Attempts : Gone(b)' <=> Gone(b)
  BY <1>2 DEF Gone
<1>5. inFlight' = Cardinality(unreleased')
  BY <1>1, <1>2, TakeSlot DEF NoSlotLeak
<1>6. inFlight' \in Nat /\ (MaxConcurrent > 0 => inFlight' <= MaxConcurrent)
  BY <1>2, ConstantsOK DEF TypeOK, AtCapacity, CallHook
<1>7. TypeOK'
  BY <1>2, <1>6 DEF TypeOK
<1>8. NoSlotLeak'
  BY <1>1, <1>2, <1>3, <1>4, <1>5 DEF NoSlotLeak, TypeOK
<1>9. OneAnswer'
  BY <1>2 DEF OneAnswer
<1>10. NewIsUntouched'
  BY <1>2, <1>3 DEF NewIsUntouched
<1>11. TimersOnHooks'
  BY <1>1, <1>2, <1>3 DEF TimersOnHooks, TypeOK, Gone
<1>12. WaitingIsSilent'
  BY <1>1, <1>2, <1>3 DEF WaitingIsSilent, Waiting
<1>13. WaitingHoldsSlot'
  BY <1>1, <1>2, <1>3, <1>4 DEF WaitingHoldsSlot, Waiting
<1>14. QueueIsProper'
  BY <1>1, <1>2, <1>3 DEF QueueIsProper, TypeOK, HasBudget
<1> QED
  BY <1>7, <1>8, <1>9, <1>10, <1>11, <1>12, <1>13, <1>14

\* The two ways a waiting attempt ends before its handler does.
LEMMA AbortKeeps ==
    ASSUME IInv, NEW a \in Attempts, Abort(a)
    PROVE  IInv'
<1> USE DEF IInv
<1>1. /\ Waiting(a) /\ answer[a] = <<>> /\ stage[a] # "new"
      /\ aborted' = aborted \cup {a}
      /\ unreleased' = unreleased \ {a}
      /\ UNCHANGED <<hasHook, stage, bad, answer, timedOut, timers, perTick, deferred,
                     scheduled, phase>>
  BY DEF Abort, ReleaseInFlight, Waiting
<1>2. /\ inFlight' = Cardinality(unreleased')
      /\ inFlight' \in Nat /\ inFlight' <= inFlight
  BY GiveSlotBack DEF Abort, NoSlotLeak
<1>3. TypeOK'
  BY <1>1, <1>2, ConstantsOK DEF TypeOK
<1>4. \A b \in Attempts : b # a => (Gone(b)' <=> Gone(b))
  BY <1>1 DEF Gone
<1>5. NoSlotLeak'
  BY <1>1, <1>2, <1>4 DEF NoSlotLeak, TypeOK
<1>6. OneAnswer'
  BY <1>1 DEF OneAnswer
<1>7. NewIsUntouched'
  BY <1>1 DEF NewIsUntouched
<1>8. TimersOnHooks'
  BY <1>1 DEF TimersOnHooks
<1>9. WaitingIsSilent'
  BY <1>1 DEF WaitingIsSilent, Waiting
<1>10. WaitingHoldsSlot'
  BY <1>1 DEF WaitingHoldsSlot, Waiting, Gone
<1>11. QueueIsProper'
  BY <1>1 DEF QueueIsProper, HasBudget
<1> QED
  BY <1>3, <1>5, <1>6, <1>7, <1>8, <1>9, <1>10, <1>11

LEMMA TimeoutKeeps ==
    ASSUME IInv, NEW a \in Attempts, Timeout(a)
    PROVE  IInv'
<1> USE DEF IInv
<1>1. /\ stage[a] = "hook" /\ a \notin timedOut /\ answer[a] = <<>>
      /\ timers' = timers \ {a}
      /\ timedOut' = timedOut \cup {a}
      /\ unreleased' = unreleased \ {a}
      /\ UNCHANGED <<hasHook, stage, bad, aborted, perTick, deferred, scheduled, phase>>
  BY DEF Timeout, ReleaseInFlight, TimersOnHooks, WaitingIsSilent, Waiting, TypeOK
<1>2. /\ answer' \in [Attempts -> Seq(Answers)]
      /\ \A b \in Attempts : b # a \/ a \in aborted => answer'[b] = answer[b]
      /\ Len(answer'[a]) <= 1
  <2>1. CASE a \in aborted
    BY <2>1, <1>1 DEF Timeout, Silent, TypeOK
  <2>2. CASE a \notin aborted
    <3>1. answer' = [answer EXCEPT ![a] = Append(@, "refused")]
      BY <2>2 DEF Timeout, Say
    <3>2. answer'[a] \in Seq(Answers) /\ Len(answer'[a]) <= 1
      BY <1>1, <3>1 DEF TypeOK, Answers
    <3>3. answer' \in [Attempts -> Seq(Answers)]
      BY <3>1, <3>2 DEF TypeOK
    <3> QED
      BY <2>2, <3>1, <3>2, <3>3 DEF TypeOK
  <2> QED
    BY <2>1, <2>2
<1>3. /\ inFlight' = Cardinality(unreleased')
      /\ inFlight' \in Nat /\ inFlight' <= inFlight
  BY GiveSlotBack DEF Timeout, NoSlotLeak
<1>4. TypeOK'
  BY <1>1, <1>2, <1>3, ConstantsOK DEF TypeOK
<1>5. \A b \in Attempts : b # a => (Gone(b)' <=> Gone(b))
  BY <1>1 DEF Gone
<1>6. NoSlotLeak'
  BY <1>1, <1>3, <1>5 DEF NoSlotLeak, TypeOK
<1>7. OneAnswer'
  BY <1>1, <1>2 DEF OneAnswer, TypeOK
<1>8. NewIsUntouched'
  BY <1>1, <1>2 DEF NewIsUntouched
<1>9. TimersOnHooks'
  BY <1>1 DEF TimersOnHooks
<1>10. WaitingIsSilent'
  BY <1>1, <1>2 DEF WaitingIsSilent, Waiting
<1>11. WaitingHoldsSlot'
  BY <1>1 DEF WaitingHoldsSlot, Waiting, Gone
<1>12. QueueIsProper'
  BY <1>1 DEF QueueIsProper, HasBudget
<1> QED
  BY <1>4, <1>6, <1>7, <1>8, <1>9, <1>10, <1>11, <1>12

-----------------------------------------------------------------------------
(* The promise of the hook settles. *)

LEMMA SettleLateKeeps ==
    ASSUME IInv, NEW a \in Attempts, SettleLate(a)
    PROVE  IInv'
<1> USE DEF IInv
<1>1. /\ stage[a] = "hook" /\ Gone(a)
      /\ stage' = [stage EXCEPT ![a] = "over"]
      /\ timers' = timers \ {a}
      /\ UNCHANGED <<hasHook, bad, answer, aborted, timedOut, unreleased, inFlight, perTick,
                     deferred, scheduled, phase>>
  BY DEF SettleLate, controller
<1>2. /\ \A b \in Attempts : b # a => stage'[b] = stage[b]
      /\ stage'[a] = "over"
  BY <1>1 DEF TypeOK
<1>3. \A b \in Attempts : Gone(b)' <=> Gone(b)
  BY <1>1 DEF Gone
<1>4. TypeOK'
  BY <1>1 DEF TypeOK
<1>5. NoSlotLeak'
  BY <1>1, <1>2, <1>3 DEF NoSlotLeak, TypeOK
<1>6. OneAnswer'
  BY <1>1 DEF OneAnswer
<1>7. NewIsUntouched'
  BY <1>1, <1>2 DEF NewIsUntouched
<1>8. TimersOnHooks'
  BY <1>1, <1>2 DEF TimersOnHooks, TypeOK
<1>9. WaitingIsSilent'
  BY <1>1, <1>2 DEF WaitingIsSilent, Waiting
<1>10. WaitingHoldsSlot'
  BY <1>1, <1>2, <1>3 DEF WaitingHoldsSlot, Waiting
<1>11. QueueIsProper'
  BY <1>1, <1>2 DEF QueueIsProper, TypeOK, HasBudget
<1> QED
  BY <1>4, <1>5, <1>6, <1>7, <1>8, <1>9, <1>10, <1>11

LEMMA SettleRefusedKeeps ==
    ASSUME IInv, NEW a \in Attempts, SettleRefused(a)
    PROVE  IInv'
<1> USE DEF IInv
<1>1. /\ stage[a] = "hook" /\ ~Gone(a) /\ answer[a] = <<>>
      /\ stage' = [stage EXCEPT ![a] = "over"]
      /\ timers' = timers \ {a}
      /\ answer' = [answer EXCEPT ![a] = Append(@, "refused")]
      /\ unreleased' = unreleased \ {a}
      /\ UNCHANGED <<hasHook, bad, aborted, timedOut, perTick, deferred, scheduled, phase>>
  BY DEF SettleRefused, Say, ReleaseInFlight, WaitingIsSilent, Waiting, Gone
<1>2. answer'[a] \in Seq(Answers) /\ Len(answer'[a]) <= 1
  BY <1>1 DEF TypeOK, Answers
<1>3. /\ \A b \in Attempts : b # a => stage'[b] = stage[b] /\ answer'[b] = answer[b]
      /\ stage'[a] = "over"
  BY <1>1 DEF TypeOK
<1>4. \A b \in Attempts : Gone(b)' <=> Gone(b)
  BY <1>1 DEF Gone
<1>5. /\ inFlight' = Cardinality(unreleased')
      /\ inFlight' \in Nat /\ inFlight' <= inFlight
  BY GiveSlotBack DEF SettleRefused, NoSlotLeak
<1>6. TypeOK'
  BY <1>1, <1>2, <1>5, ConstantsOK DEF TypeOK
<1>7. NoSlotLeak'
  BY <1>1, <1>3, <1>4, <1>5 DEF NoSlotLeak, TypeOK
<1>8. OneAnswer'
  <2>1. \A b \in Attempts : Len(answer'[b]) <= 1
    BY <1>2, <1>3, StillOneAnswer
  <2>2. \A b \in aborted' : b # a /\ b \in Attempts /\ answer[b] = <<>>
    BY <1>1 DEF OneAnswer, Gone, TypeOK
  <2>3. \A b \in aborted' : answer'[b] = <<>>
    BY <1>3, <2>2
  <2> QED
    BY <2>1, <2>3 DEF OneAnswer
<1>9. NewIsUntouched'
  BY <1>1, <1>3 DEF NewIsUntouched
<1>10. TimersOnHooks'
  BY <1>1, <1>3 DEF TimersOnHooks, TypeOK
<1>11. WaitingIsSilent'
  BY <1>1, <1>3 DEF WaitingIsSilent, Waiting
<1>12. WaitingHoldsSlot'
  BY <1>1, <1>3, <1>4 DEF WaitingHoldsSlot, Waiting
<1>13. QueueIsProper'
  BY <1>1, <1>3 DEF QueueIsProper, TypeOK, HasBudget
<1> QED
  BY <1>6, <1>7, <1>8, <1>9, <1>10, <1>11, <1>12, <1>13

LEMMA SettleAcceptedKeeps ==
    ASSUME IInv, NEW a \in Attempts, SettleAccepted(a)
    PROVE  IInv'
<1>1. PICK throws \in BOOLEAN :
          /\ Admit(a, throws, FALSE)
          /\ bad' = IF throws THEN bad \cup {a} ELSE bad
  BY DEF SettleAccepted
<1>2. /\ stage[a] = "hook" /\ ~Gone(a)
      /\ timers' = timers \ {a}
      /\ UNCHANGED <<hasHook, aborted, timedOut, phase>>
  BY DEF SettleAccepted
<1>3. answer[a] = <<>> /\ a \in unreleased
  BY <1>2 DEF IInv, WaitingIsSilent, WaitingHoldsSlot, Waiting, Gone
<1> QED
  BY <1>1, <1>2, <1>3, AdmitKeeps

-----------------------------------------------------------------------------
(* The drain. *)

\* The length of what SubSeq(s, n + 1, m) holds of a sequence of m.
LEMMA LengthOfRest ==
    \A m \in Nat : \A n \in 0..m :
        (IF n + 1 <= m THEN m - (n + 1) + 1 ELSE 0) = m - n
OBVIOUS

\* What the first n places of a queue without repetitions, and the rest, hold.
LEMMA Shifting ==
    ASSUME TypeOK, QueueIsProper, NEW n \in 0..Len(deferred)
    PROVE  LET left == SubSeq(deferred, n + 1, Len(deferred))
           IN  /\ left \in Seq(Attempts) /\ Len(left) = Len(deferred) - n
               /\ \A i \in DOMAIN left : i + n \in DOMAIN deferred /\ left[i] = deferred[i + n]
               /\ \A i \in DOMAIN left : left[i] \notin Batch(n)
<1> DEFINE left == SubSeq(deferred, n + 1, Len(deferred))
<1>1. /\ deferred \in Seq(Attempts) /\ Len(deferred) \in Nat /\ n \in Nat
      /\ DOMAIN deferred = 1..Len(deferred)
  BY DEF TypeOK
<1>2. n + 1 \in Int /\ Len(deferred) \in Int /\ \A i \in n + 1..Len(deferred) : deferred[i] \in Attempts
  BY <1>1
<1>3. left \in Seq(Attempts) /\ Len(left) = Len(deferred) - n
  <2>1. /\ left \in Seq(Attempts)
        /\ Len(left) = IF n + 1 <= Len(deferred) THEN Len(deferred) - (n + 1) + 1 ELSE 0
    BY <1>2, SubSeqProperties
  <2>2. Len(deferred) \in Nat /\ n \in 0..Len(deferred)
    BY <1>1
  <2> QED
    BY <2>1, <2>2, LengthOfRest
<1>4. DOMAIN left = 1..Len(deferred) - n
  BY <1>3
<1>5. \A i \in DOMAIN left : i + n \in DOMAIN deferred /\ left[i] = deferred[i + n]
  BY <1>1, <1>4
<1>6. \A i \in DOMAIN left : left[i] \notin Batch(n)
  BY <1>1, <1>4, <1>5 DEF Batch, QueueIsProper
<1> QED
  BY <1>3, <1>5, <1>6

\* The calls a drain runs were deferred and wait no longer, the others stay as
\* they are.
LEMMA DrainStep ==
    ASSUME IInv, Drain
    PROVE  \E n \in 0..Len(deferred) :
               /\ n = IF Len(deferred) < PerTickBudget THEN Len(deferred) ELSE PerTickBudget
               /\ perTick' = n
               /\ deferred' = SubSeq(deferred, n + 1, Len(deferred))
               /\ scheduled' = (deferred' # <<>>)
               /\ \A a \in Batch(n) : a \in Attempts /\ stage[a] = "deferred"
               /\ stage' = [a \in Attempts |-> IF a \in Batch(n) THEN "over" ELSE stage[a]]
               /\ answer' = [a \in Attempts |->
                                IF a \in Live(Batch(n)) \ bad THEN Append(answer[a], "switched")
                                                              ELSE answer[a]]
               /\ unreleased' = unreleased \ Freed(Batch(n))
               /\ inFlight' = inFlight - Cardinality(Freed(Batch(n)))
<1> DEFINE n == IF Len(deferred) < PerTickBudget THEN Len(deferred) ELSE PerTickBudget
<1>1. Len(deferred) \in Nat /\ PerTickBudget \in Nat
  BY ConstantsOK DEF IInv, TypeOK
<1>2. n \in 0..Len(deferred)
  BY <1>1
<1>3. \A a \in Batch(n) : a \in Attempts /\ stage[a] = "deferred"
  <2>1. \A i \in 1..n : i \in DOMAIN deferred /\ deferred[i] \in Attempts
    BY <1>1, <1>2 DEF IInv, TypeOK
  <2> QED
    BY <2>1 DEF Batch, IInv, QueueIsProper
<1> QED
  BY <1>2, <1>3, Zenon DEF Drain, DrainAgain

LEMMA DrainKeeps ==
    ASSUME IInv, Drain
    PROVE  IInv'
<1> USE DEF IInv
<1>1. PICK n \in 0..Len(deferred) :
          /\ n = IF Len(deferred) < PerTickBudget THEN Len(deferred) ELSE PerTickBudget
          /\ perTick' = n
          /\ deferred' = SubSeq(deferred, n + 1, Len(deferred))
          /\ scheduled' = (deferred' # <<>>)
          /\ \A a \in Batch(n) : a \in Attempts /\ stage[a] = "deferred"
          /\ stage' = [a \in Attempts |-> IF a \in Batch(n) THEN "over" ELSE stage[a]]
          /\ answer' = [a \in Attempts |->
                           IF a \in Live(Batch(n)) \ bad THEN Append(answer[a], "switched")
                                                         ELSE answer[a]]
          /\ unreleased' = unreleased \ Freed(Batch(n))
          /\ inFlight' = inFlight - Cardinality(Freed(Batch(n)))
  BY DrainStep, Zenon
<1>2. /\ phase' = "check"
      /\ UNCHANGED <<hasHook, bad, aborted, timedOut, timers>>
  BY DEF Drain
<1>3. /\ deferred' \in Seq(Attempts) /\ Len(deferred') = Len(deferred) - n
      /\ \A i \in DOMAIN deferred' : i + n \in DOMAIN deferred /\ deferred'[i] = deferred[i + n]
      /\ \A i \in DOMAIN deferred' : deferred'[i] \notin Batch(n)
  BY <1>1, Shifting
<1>4. \A a \in Attempts : a \notin Batch(n) => stage'[a] = stage[a] /\ answer'[a] = answer[a]
  BY <1>1 DEF Live
<1>5. \A a \in Batch(n) : stage'[a] = "over" /\ answer[a] = <<>>
  BY <1>1 DEF WaitingIsSilent, Waiting
<1>6. \A a \in Attempts : Gone(a)' <=> Gone(a)
  BY <1>2 DEF Gone
<1>7. \A a \in Attempts : answer'[a] \in Seq(Answers) /\ Len(answer'[a]) <= 1
  <2> SUFFICES ASSUME NEW a \in Attempts
               PROVE  answer'[a] \in Seq(Answers) /\ Len(answer'[a]) <= 1
    OBVIOUS
  <2>1. CASE a \in Live(Batch(n)) \ bad
    <3>1. answer[a] = <<>> /\ answer'[a] = Append(answer[a], "switched")
      BY <1>1, <1>5, <2>1 DEF Live
    <3> QED
      BY <3>1 DEF Answers
  <2>2. CASE a \notin Live(Batch(n)) \ bad
    <3>1. answer'[a] = answer[a]
      BY <1>1, <2>2
    <3> QED
      BY <3>1 DEF TypeOK, OneAnswer
  <2> QED
    BY <2>1, <2>2
<1>8. /\ inFlight' = Cardinality(unreleased')
      /\ inFlight' \in Nat /\ inFlight' <= inFlight
  <2> DEFINE freed == Freed(Batch(n))
  <2>1. IsFiniteSet(unreleased) /\ unreleased \cap freed = freed /\ freed \subseteq unreleased
    BY ConstantsOK, FS_Subset DEF TypeOK, Freed
  <2>2. /\ IsFiniteSet(unreleased \ freed) /\ IsFiniteSet(freed)
        /\ Cardinality(unreleased \ freed) = Cardinality(unreleased) - Cardinality(freed)
    BY ZenonT(40), <2>1, FS_Difference, FS_Subset
  <2>3. Cardinality(freed) \in Nat /\ Cardinality(unreleased \ freed) \in Nat
    BY <2>2, FS_CardinalityType
  <2> QED
    BY <1>1, <2>2, <2>3 DEF NoSlotLeak, TypeOK
<1>9. TypeOK'
  <2>1. perTick' \in 0..PerTickBudget
    BY <1>1, ConstantsOK DEF TypeOK
  <2>2. inFlight' \in Nat /\ (MaxConcurrent > 0 => inFlight' <= MaxConcurrent)
    BY <1>8, ConstantsOK DEF TypeOK
  <2>3. stage' \in [Attempts -> {"new", "hook", "deferred", "over"}]
    BY <1>1 DEF TypeOK
  <2>4. answer' \in [Attempts -> Seq(Answers)]
    BY <1>1, <1>7
  <2>5. unreleased' \subseteq Attempts /\ scheduled' \in BOOLEAN
    BY <1>1 DEF TypeOK
  <2> QED
    BY <1>2, <1>3, <2>1, <2>2, <2>3, <2>4, <2>5 DEF TypeOK
<1>10. \A a \in unreleased' : a \in Attempts /\ a \in unreleased /\ (a \notin bad => a \notin Batch(n))
  BY <1>1 DEF Freed, TypeOK
<1>11. NoSlotLeak'
  BY <1>2, <1>4, <1>6, <1>8, <1>10 DEF NoSlotLeak
<1>12. OneAnswer'
  <2>1. \A a \in aborted' : a \in Attempts /\ answer'[a] = answer[a]
    BY <1>1, <1>2 DEF Live, TypeOK
  <2>2. \A a \in aborted' : answer'[a] = <<>>
    BY <1>2, <2>1 DEF OneAnswer
  <2> QED
    BY <1>7, <2>2 DEF OneAnswer
<1>13. NewIsUntouched'
  BY <1>1, <1>2, <1>4, <1>5 DEF NewIsUntouched
<1>14. TimersOnHooks'
  BY <1>1, <1>2, <1>4 DEF TimersOnHooks, TypeOK
<1>15. WaitingIsSilent'
  BY <1>2, <1>4, <1>5 DEF WaitingIsSilent, Waiting
<1>16. WaitingHoldsSlot'
  <2> SUFFICES ASSUME NEW a \in Attempts, Waiting(a)', ~Gone(a)'
               PROVE  a \in unreleased'
    BY DEF WaitingHoldsSlot
  <2>1. a \notin Batch(n)
    BY <1>5 DEF Waiting
  <2>2. Waiting(a) /\ ~Gone(a)
    BY <1>4, <1>6, <2>1 DEF Waiting
  <2> QED
    BY <1>1, <2>1, <2>2 DEF WaitingHoldsSlot, Freed
<1>17. QueueIsProper'
  <2>1. /\ Len(deferred) \in Nat /\ n \in Nat /\ Len(deferred') \in Nat
        /\ DOMAIN deferred' = 1..Len(deferred')
    BY <1>3 DEF TypeOK
  <2>2. \A i, j \in DOMAIN deferred' : deferred'[i] = deferred'[j] => i = j
    BY <1>3, <2>1 DEF QueueIsProper
  <2>3. \A i \in DOMAIN deferred' : deferred'[i] \in Attempts /\ stage[deferred'[i]] = "deferred"
    BY <1>3, <2>1 DEF QueueIsProper
  <2>4. \A i \in DOMAIN deferred' : stage'[deferred'[i]] = "deferred"
    BY <1>3, <1>4, <2>3
  <2>5. deferred' # <<>> => ~HasBudget' /\ scheduled'
    <3> SUFFICES ASSUME deferred' # <<>> PROVE ~HasBudget' /\ scheduled'
      OBVIOUS
    <3>1. Len(deferred') # 0
      BY <1>3
    <3>2. deferred # <<>>
      <4>1. Len(deferred) # 0
        BY <1>3, <2>1, <3>1
      <4> QED
        BY <4>1 DEF TypeOK
    <3>3. PerTickBudget # 0
      BY <3>2 DEF QueueIsProper, HasBudget
    <3>4. n = PerTickBudget
      <4>1. n # Len(deferred)
        BY <1>3, <2>1, <3>1
      <4> QED
        BY <1>1, <4>1
    <3>5. perTick' = PerTickBudget /\ scheduled'
      BY <1>1, <3>4
    <3> QED
      BY <3>3, <3>5, ConstantsOK DEF HasBudget
  <2> QED
    BY <2>2, <2>4, <2>5 DEF QueueIsProper
<1> QED
  BY <1>9, <1>11, <1>12, <1>13, <1>14, <1>15, <1>16, <1>17

-----------------------------------------------------------------------------
(* The specification. *)

LEMMA InitHolds == Init => IInv
<1> SUFFICES ASSUME Init PROVE IInv
  OBVIOUS
<1>1. TypeOK
  <2>1. answer \in [Attempts -> Seq(Answers)] /\ deferred \in Seq(Attempts)
    BY DEF Init
  <2>2. inFlight \in Nat /\ (MaxConcurrent > 0 => inFlight <= MaxConcurrent)
    BY ConstantsOK DEF Init
  <2>3. perTick \in 0..PerTickBudget
    BY ConstantsOK DEF Init
  <2> QED
    BY <2>1, <2>2, <2>3 DEF Init, TypeOK
<1>2. NoSlotLeak
  BY FS_EmptySet DEF Init, NoSlotLeak
<1>3. OneAnswer
  <2>1. \A a \in Attempts : answer[a] = <<>> /\ Len(<<>>) <= 1
    BY DEF Init
  <2> QED
    BY <2>1 DEF Init, OneAnswer
<1>4. QueueIsProper
  BY DEF Init, QueueIsProper
<1> QED
  BY <1>1, <1>2, <1>3, <1>4
     DEF Init, IInv, NewIsUntouched, TimersOnHooks, WaitingIsSilent, WaitingHoldsSlot, Waiting

LEMMA StepKeeps == IInv /\ [Next]_vars => IInv'
<1> SUFFICES ASSUME IInv, [Next]_vars PROVE IInv'
  OBVIOUS
<1>1. CASE UNCHANGED vars
  BY <1>1 DEF vars, requests, controller, IInv, TypeOK, NoSlotLeak, OneAnswer, NewIsUntouched,
              TimersOnHooks, WaitingIsSilent, WaitingHoldsSlot, QueueIsProper, Waiting, Gone,
              HasBudget
<1>2. ASSUME NEW a \in Attempts, Shed(a) \/ Refuse(a) PROVE IInv'
  BY <1>2, EndNewKeeps
<1>3. ASSUME NEW a \in Attempts, FastPath(a) PROVE IInv'
  BY <1>3, FastPathKeeps
<1>4. ASSUME NEW a \in Attempts, CallHook(a) PROVE IInv'
  BY <1>4, CallHookKeeps
<1>5. ASSUME NEW a \in Attempts, Abort(a) PROVE IInv'
  BY <1>5, AbortKeeps
<1>6. ASSUME NEW a \in Attempts, Timeout(a) PROVE IInv'
  BY <1>6, TimeoutKeeps
<1>7. ASSUME NEW a \in Attempts, SettleLate(a) PROVE IInv'
  BY <1>7, SettleLateKeeps
<1>8. ASSUME NEW a \in Attempts, SettleRefused(a) PROVE IInv'
  BY <1>8, SettleRefusedKeeps
<1>9. ASSUME NEW a \in Attempts, SettleAccepted(a) PROVE IInv'
  BY <1>9, SettleAcceptedKeeps
<1>10. CASE Drain
  BY <1>10, DrainKeeps
<1>11. CASE Iterate
  BY <1>11 DEF Iterate, requests, controller, IInv, TypeOK, NoSlotLeak, OneAnswer,
               NewIsUntouched, TimersOnHooks, WaitingIsSilent, WaitingHoldsSlot, QueueIsProper,
               Waiting, Gone, HasBudget
<1> QED
  BY <1>1, <1>2, <1>3, <1>4, <1>5, <1>6, <1>7, <1>8, <1>9, <1>10, <1>11 DEF Next

LEMMA Invariance == Spec => []IInv
<1>1. Init => IInv
  BY InitHolds
<1>2. IInv /\ [Next]_vars => IInv'
  BY StepKeeps
<1> QED
  BY <1>1, <1>2, PTL DEF Spec

\* The controller's numbers stay in range, the counter is the number of slots to
\* give back, and whoever holds one has a handler that will: upgradeAdmission of
\* utils.js with the upgrade handler, for every cap and every budget.
THEOREM BooksAreKept == Spec => []SlotBooks
<1>1. IInv => SlotBooks
  BY DEF IInv, SlotBooks
<1> QED
  BY <1>1, Invariance, PTL

\* The upgrade handler answers a request at most once, and not after its client
\* hung up, on whichever of its paths the answer comes.
THEOREM AnswersOnce == Spec => []OneAnswer
<1>1. IInv => OneAnswer
  BY DEF IInv
<1> QED
  BY <1>1, Invariance, PTL

\* What InOrder says of one step.
OrderKept ==
    \A a, b \in Attempts :
        /\ \E i \in DOMAIN deferred : deferred[i] = a
        /\ \E i \in DOMAIN deferred' : deferred'[i] = a
        /\ answer'[b] # answer[b] /\ answer'[b] = <<"switched">>
        => \E i, j \in DOMAIN deferred : deferred[i] = b /\ deferred[j] = a /\ i < j

\* A response that is refused is not one that is switched.
LEMMA RefusedIsNotSwitched ==
    ASSUME IInv, NEW a \in Attempts, Say(a, "refused"), NEW b \in Attempts,
           answer'[b] # answer[b]
    PROVE  answer'[b] # <<"switched">>
<1>1. answer'[b] = Append(answer[b], "refused") /\ answer[b] \in Seq(Answers)
  BY DEF Say, IInv, TypeOK
<1>2. /\ Len(answer[b]) \in Nat /\ Len(answer'[b]) = Len(answer[b]) + 1
      /\ answer'[b][Len(answer[b]) + 1] = "refused"
  BY <1>1
<1> SUFFICES ASSUME answer'[b] = <<"switched">> PROVE FALSE
  OBVIOUS
<1>3. Len(answer[b]) = 0
  BY <1>2
<1> QED
  BY <1>2, <1>3

\* The step of InOrder: while somebody is queued the budget is spent, so only a
\* drain upgrades anybody, and it takes them from the front.
LEMMA StepInOrder == IInv /\ [Next]_vars => OrderKept
<1> SUFFICES ASSUME IInv, [Next]_vars,
                    NEW a \in Attempts, NEW b \in Attempts,
                    NEW k \in DOMAIN deferred, deferred[k] = a,
                    NEW l \in DOMAIN deferred', deferred'[l] = a,
                    answer'[b] # answer[b], answer'[b] = <<"switched">>
             PROVE  \E i, j \in DOMAIN deferred : deferred[i] = b /\ deferred[j] = a /\ i < j
  BY DEF OrderKept
<1>1. ~HasBudget
  BY DEF IInv, QueueIsProper, TypeOK
<1>2. CASE UNCHANGED answer
  BY <1>2
<1>3. ASSUME NEW c \in Attempts, Say(c, "refused") PROVE FALSE
  BY <1>3, RefusedIsNotSwitched
<1>4. ASSUME NEW c \in Attempts,
             FastPath(c) \/ CallHook(c) \/ Abort(c) \/ SettleLate(c) \/ SettleAccepted(c)
      PROVE  UNCHANGED answer
  BY <1>1, <1>4 DEF FastPath, CallHook, Abort, SettleLate, SettleAccepted, Admit, Silent
<1>5. ASSUME NEW c \in Attempts, Shed(c) \/ Refuse(c) \/ Timeout(c) \/ SettleRefused(c)
      PROVE  UNCHANGED answer \/ Say(c, "refused")
  BY <1>5 DEF Shed, Refuse, Timeout, SettleRefused, Silent
<1>6. CASE Drain
  <2>1. PICK n \in 0..Len(deferred) :
            /\ deferred' = SubSeq(deferred, n + 1, Len(deferred))
            /\ answer' = [c \in Attempts |->
                             IF c \in Live(Batch(n)) \ bad THEN Append(answer[c], "switched")
                                                           ELSE answer[c]]
    BY <1>6, DrainStep, Zenon
  <2>2. b \in Batch(n)
    BY <2>1 DEF Live
  <2>3. PICK i \in 1..n : deferred[i] = b
    BY <2>2 DEF Batch
  <2>4. l + n \in DOMAIN deferred /\ deferred[l + n] = a /\ l \in Nat \ {0}
    <3> DEFINE left == SubSeq(deferred, n + 1, Len(deferred))
    <3>1. TypeOK /\ QueueIsProper
      BY DEF IInv
    <3>2. /\ left \in Seq(Attempts)
          /\ \A j \in DOMAIN left : j + n \in DOMAIN deferred /\ left[j] = deferred[j + n]
      BY <3>1, Shifting, Zenon
    <3>3. l \in DOMAIN left /\ left[l] = a
      BY <2>1
    <3> HIDE DEF left
    <3>4. l \in Nat \ {0}
      BY <3>2, <3>3
    <3> QED
      BY <3>2, <3>3, <3>4
  <2>5. i \in DOMAIN deferred /\ i < l + n
    BY <2>3, <2>4, SMTT(30) DEF IInv, TypeOK
  <2> QED
    BY <2>3, <2>4, <2>5
<1>7. CASE Iterate
  BY <1>2, <1>7 DEF Iterate, requests
<1> QED
  BY <1>2, <1>3, <1>4, <1>5, <1>6, <1>7 DEF Next, vars, requests

\* Queued upgrades run in the order they were queued, and none overtakes them.
THEOREM QueueInOrder == Spec => InOrder
<1>1. IInv /\ [Next]_vars => [OrderKept]_vars
  BY StepInOrder
<1>2. Spec => [][OrderKept]_vars
  BY <1>1, Invariance, PTL DEF Spec
<1> QED
  BY <1>2 DEF InOrder, OrderKept
-----------------------------------------------------------------------------
(* HTTP requests: the pool of states, the books of a shutdown, and bodies.   *)

Idle == {"new", "done"}
\* Before its first write, and after its last turn at the dedup map.
Early == {"new", "follow", "render", "buffer", "first", "second", "auth", "authbody"}
Sending == {"first", "second", "stream", "drain"}

\* The state object of r, as the handler of r reads it.
FlagsOf(r) == IF state[r] = 0 THEN Http!Fresh ELSE flags[state[r]]

\* A state object belongs to one running handler or to the pool, never to two.
PoolIsClean ==
    /\ \A r \in Reqs : state[r] # 0 <=> at[r] \notin Idle
    /\ \A r, q \in Reqs : state[r] # 0 /\ state[r] = state[q] => r = q
    /\ \A i \in DOMAIN pool : \A r \in Reqs : pool[i] # state[r]
    /\ \A i, j \in DOMAIN pool : pool[i] = pool[j] => i = j

\* o is the body of pg, read chunk by chunk or collected into one piece.
Fits(o, pg) ==
    /\ o.fails = pg.fails
    /\ \/ o.unit = 1 /\ o.reads = pg.size
       \/ o.unit = pg.size /\ o.reads = IF pg.size = 0 THEN 0 ELSE 1

\* What is written is what was read, but for the first chunk, which is held.
SentSoFar(a, o, p, s) ==
    /\ p <= o.reads
    /\ a = "first" => p = 0
    /\ a = "second" => p = 1
    /\ a \in {"stream", "drain"} => IF o.unit = 1 THEN s = p ELSE p = 1 /\ s = o.unit

\* What the handler of one request knows of its response, at each place.
Local(k, a, w, f, pg, o, p, s) ==
    /\ a = "new" => w = "unused"
    /\ a = "done" => w \notin {"unused", "open"}
    /\ a \notin Idle => w \in {"open", "aborted"} /\ (f.aborted <=> w = "aborted")
    /\ a \in {"new", "auth"} => pg = Http!NoPage
    /\ a \in Early => s = 0 /\ ~f.started
    /\ a \in {"new", "follow", "render"} => p = 0
    /\ a = "authbody" => o = Http!BodyOf(pg)
    /\ a = "buffer" => pg.class = "plain" /\ o = Http!BodyOf(pg) /\ p <= o.reads
    /\ a \in Sending => Fits(o, pg) /\ SentSoFar(a, o, p, s)
    /\ a = "done" /\ w = "page" /\ k # "head" /\ pg.class \in Http!Streams => s = pg.size /\ ~pg.fails

LocalOf(r) == Local(kind[r], at[r], wire[r], FlagsOf(r), page[r], out[r], pos[r], sent[r])

InProgress == {r \in Reqs : at[r] \notin {"new", "done"} /\ kind[r] # "auth"}
CountIsRight == rendering = Cardinality(InProgress) /\ (draining => rendering > 0)

\* The map holds the pending promises, each under its leader's key.
MapIsRight ==
    /\ \A r \in Reqs : promise[r] = "pending" => inflight[key[r]] = r
    /\ \A k \in Keys : inflight[k] # NoReq =>
          key[inflight[k]] = k /\ promise[inflight[k]] = "pending"

\* A leader has a promise, pending until its own answer starts, and what it
\* shares does not change; a follower waits while the promise is pending and
\* then has the leader's page or renders for itself.
RoleOf(r) ==
    /\ at[r] = "new" => leader[r] = NoReq /\ promise[r] = "none"
    /\ promise[r] # "none" => kind[r] = "get" /\ leader[r] = r
    /\ leader[r] = r => promise[r] # "none"
    /\ at[r] = "buffer" => promise[r] = "pending"
    /\ promise[r] = "pending" => at[r] \in {"render", "buffer"}
    /\ promise[r] \in {"null", "shared"} => at[r] \in Sending \cup {"done"}
    /\ promise[r] = "shared" => page[r].class = "plain" /\ Fits(out[r], page[r])
    /\ at[r] \in {"auth", "authbody"} => leader[r] = NoReq
    /\ at[r] = "follow" => leader[r] \notin {NoReq, r}
    /\ leader[r] \notin {NoReq, r} =>
          /\ promise[leader[r]] # "none" /\ key[leader[r]] = key[r]
          /\ at[r] # "follow" => promise[leader[r]] # "pending"
          /\ at[r] = "render" => promise[leader[r]] = "null"
          /\ promise[leader[r]] = "shared" /\ at[r] # "follow" /\ wire[r] # "aborted" =>
                page[r] = page[leader[r]]

HttpInv ==
    /\ Http!TypeOK /\ misuse = {}
    /\ PoolIsClean /\ CountIsRight /\ MapIsRight
    /\ \A r \in Reqs : LocalOf(r) /\ RoleOf(r)

\* TypeOK of Ssr without the pool and the counter.
OwnTypes ==
    /\ kind \in [Reqs -> Http!AllKinds] /\ key \in [Reqs -> Keys] /\ at \in [Reqs -> Http!Places]
    /\ upload \in [Reqs -> {"none", "reading", "read", "tooLarge", "failed"}]
    /\ leader \in [Reqs -> Reqs \cup {NoReq}]
    /\ promise \in [Reqs -> {"none", "pending", "null", "shared"}]
    /\ inflight \in [Keys -> Reqs \cup {NoReq}]
    /\ page \in [Reqs -> Http!AllPages] /\ out \in [Reqs -> Http!Body] /\ pos \in [Reqs -> Nat]
    /\ wire \in [Reqs -> {"unused", "open", "page", "error", "closed", "aborted"}]
    /\ sent \in [Reqs -> Nat] /\ misuse \subseteq Reqs
    /\ flags \in [Http!Ids -> Http!Flags]
PoolTypes ==
    /\ state \in [Reqs -> 0..Cardinality(Reqs)]
    /\ pool \in Seq(Http!Ids) /\ Len(pool) <= PoolMax

\* What a step of r does to the pool: the handler goes on, ends, begins, or is
\* over before it began.
Kept(r) ==
    /\ at[r] \notin Idle /\ at'[r] \notin Idle
    /\ UNCHANGED <<state, pool>>
Released(r) ==
    /\ at[r] \notin Idle /\ at'[r] = "done"
    /\ Http!Release(r)
Took(r) ==
    /\ at[r] = "new" /\ at'[r] \notin Idle
    /\ state' = [state EXCEPT ![r] = Http!Acquired]
    /\ pool' = IF pool = <<>> THEN pool ELSE SubSeq(pool, 1, Len(pool) - 1)
Returned(r) ==
    /\ at[r] = "new" /\ at'[r] = "done"
    /\ UNCHANGED state
    /\ pool' = IF pool = <<>> /\ PoolMax > 0 THEN <<Http!Acquired>> ELSE pool
PoolStep(r) == Kept(r) \/ Released(r) \/ Took(r) \/ Returned(r)

\* What it does to the counter of the shutdown.
CountStep(r) ==
    \/ /\ UNCHANGED <<rendering, draining>>
       /\ (r \in InProgress)' <=> r \in InProgress
    \/ /\ at[r] = "new" /\ (r \in InProgress)'
       /\ rendering' = rendering + 1 /\ UNCHANGED draining
    \/ /\ at[r] \notin Idle /\ at'[r] = "done" /\ kind'[r] = kind[r]
       /\ Http!RequestDone(r)

\* What it does to its promise and to the map.
DedupStep(r) ==
    /\ \/ UNCHANGED inflight /\ promise'[r] = promise[r]
       \/ /\ promise[r] = "pending" /\ promise'[r] \in {"null", "shared"}
          /\ inflight' = [inflight EXCEPT ![key[r]] = NoReq]
       \/ /\ promise[r] = "none" /\ promise'[r] = "pending" /\ inflight[key[r]] = NoReq
          /\ inflight' = [inflight EXCEPT ![key[r]] = r]
    /\ promise[r] = "shared" => page'[r] = page[r]

\* And to the others, which is nothing.
SparesOthers(r) ==
    \A q \in Reqs \ {r} :
        /\ kind'[q] = kind[q] /\ at'[q] = at[q] /\ leader'[q] = leader[q] /\ promise'[q] = promise[q]
        /\ page'[q] = page[q] /\ out'[q] = out[q] /\ pos'[q] = pos[q]
        /\ wire'[q] = wire[q] /\ sent'[q] = sent[q] /\ state'[q] = state[q]
        /\ state[q] # 0 => flags'[state[q]] = flags[state[q]]

StepOf(r) ==
    /\ OwnTypes' /\ key' = key /\ misuse' = {}
    /\ SparesOthers(r) /\ PoolStep(r) /\ CountStep(r) /\ DedupStep(r)
    /\ LocalOf(r)' /\ RoleOf(r)'

LEMMA HttpSets ==
    /\ IsFiniteSet(Reqs) /\ Cardinality(Reqs) \in Nat /\ NoReq \notin Reqs
    /\ \A T : Http!Cardinality(T) = Cardinality(T)
    /\ Http!Ids = 1..Cardinality(Reqs)
    /\ Http!Fresh \in Http!Flags
    /\ Http!NoPage \in Http!AllPages
    /\ PoolMax \in Nat
<1>1. \A T : Http!Cardinality(T) = Cardinality(T)
  BY DEF Http!Cardinality, Cardinality
<1>2. IsFiniteSet(Reqs) /\ Cardinality(Reqs) \in Nat /\ NoReq \notin Reqs /\ PoolMax \in Nat
  BY HttpConstantsOK, FS_CardinalityType
<1>3. Http!Ids = 1..Cardinality(Reqs)
  BY <1>1 DEF Http!Ids
<1>4. Http!Fresh \in Http!Flags
  BY DEF Http!Fresh, Http!Flags
<1>5. Http!NoPage \in Http!AllPages
  BY DEF Http!NoPage, Http!AllPages, Http!Streams
<1> QED
  BY <1>1, <1>2, <1>3, <1>4, <1>5

LEMMA Pushed ==
    ASSUME NEW S, NEW s \in Seq(S), NEW e \in S
    PROVE  Append(s, e) \in Seq(S) /\ Len(Append(s, e)) = Len(s) + 1 /\ Len(s) \in Nat
BY AppendProperties, LenProperties

LEMMA Popped ==
    ASSUME NEW S, NEW s \in Seq(S), s # <<>>
    PROVE  LET rest == SubSeq(s, 1, Len(s) - 1)
           IN  rest \in Seq(S) /\ Len(rest) = Len(s) - 1 /\ Len(s) \in Nat
<1> DEFINE n == Len(s) - 1
           rest == SubSeq(s, 1, n)
<1>1. Len(s) \in Nat /\ \A i \in 1..Len(s) : s[i] \in S
  BY LenProperties
<1>2. Len(s) # 0
  BY EmptySeq
<1>3. n \in Nat /\ \A i \in 1..n : s[i] \in S
  BY <1>1, <1>2
<1> HIDE DEF n
<1>4. rest \in Seq(S) /\ Len(rest) = IF 1 <= n THEN n - 1 + 1 ELSE 0
  BY <1>3, SubSeqProperties
<1> HIDE DEF rest
<1>5. Len(rest) = n
  BY <1>3, <1>4
<1> QED
  BY <1>1, <1>4, <1>5 DEF n, rest

LEMMA HttpTypes == Http!TypeOK <=>
    OwnTypes /\ PoolTypes /\ rendering \in Nat /\ draining \in BOOLEAN
BY HttpSets DEF Http!TypeOK, OwnTypes, PoolTypes

\* A request that has no state object leaves one for acquireState.
LEMMA AcquiredIsFree ==
    ASSUME PoolTypes, PoolIsClean, NEW r \in Reqs, at[r] = "new"
    PROVE  /\ Http!Acquired \in Http!Ids
           /\ \A q \in Reqs : state[q] # Http!Acquired
<1>1. CASE pool # <<>>
  BY <1>1 DEF Http!Acquired, PoolTypes, PoolIsClean
<1>2. CASE pool = <<>>
  <2> DEFINE others == Reqs \ {r}
             taken == {state[q] : q \in others}
             n == Cardinality(Reqs)
  <2>1. IsFiniteSet(others) /\ Cardinality(others) = n - 1 /\ n \in Nat
    BY HttpSets, FS_RemoveElement
  <2>2. IsFiniteSet(taken) /\ Cardinality(taken) <= n - 1 /\ Cardinality(taken) \in Nat
    <3>1. [q \in others |-> state[q]] \in Surjection(others, taken)
      BY DEF Surjection
    <3> HIDE DEF taken, others
    <3> QED
      BY <2>1, <3>1, FS_Surjection, FS_CardinalityType
  <2>3. IsFiniteSet(1..n) /\ Cardinality(1..n) = n
    BY <2>1, FS_Interval
  <2>4. ~(1..n \subseteq taken)
    <3> HIDE DEF taken, others
    <3> QED
      BY <2>1, <2>2, <2>3, FS_Subset
  <2>5. state[r] = 0
    BY DEF PoolIsClean, Idle
  <2>6. \E i \in Http!Ids : \A q \in Reqs : state[q] # i
    BY <2>4, <2>5, HttpSets
  <2> QED
    BY <1>2, <2>6 DEF Http!Acquired
<1> QED
  BY <1>1, <1>2

LEMMA PoolStepKeeps ==
    ASSUME OwnTypes, PoolTypes, PoolIsClean, NEW r \in Reqs, OwnTypes', SparesOthers(r), PoolStep(r)
    PROVE  PoolTypes' /\ PoolIsClean'
<1>1. CASE Kept(r)
  BY <1>1 DEF Kept, PoolTypes, PoolIsClean, SparesOthers
<1>2. CASE Released(r)
  <2>1. /\ state' = [state EXCEPT ![r] = 0]
        /\ pool' = IF Len(pool) < PoolMax THEN Append(pool, state[r]) ELSE pool
        /\ state[r] \in Http!Ids /\ at'[r] = "done"
    BY <1>2, HttpSets DEF Released, Http!Release, PoolTypes, PoolIsClean
  <2>2. PoolTypes'
    <3>1. state' \in [Reqs -> 0..Cardinality(Reqs)]
      BY <2>1, HttpSets DEF PoolTypes
    <3>2. pool' \in Seq(Http!Ids) /\ Len(pool') <= PoolMax
      <4>1. CASE Len(pool) < PoolMax
        <5>1. pool' = Append(pool, state[r]) /\ pool \in Seq(Http!Ids) /\ state[r] \in Http!Ids
          BY <2>1, <4>1 DEF PoolTypes
        <5>2. pool' \in Seq(Http!Ids) /\ Len(pool') = Len(pool) + 1 /\ Len(pool) \in Nat
          BY <5>1, Pushed
        <5> QED
          BY <4>1, <5>2, HttpSets
      <4> QED
        BY <2>1, <4>1 DEF PoolTypes
    <3> QED
      BY <3>1, <3>2 DEF PoolTypes
  <2>3. \A i \in DOMAIN pool' : \/ i \in DOMAIN pool /\ pool'[i] = pool[i]
                                \/ i = Len(pool) + 1 /\ i \notin DOMAIN pool /\ pool'[i] = state[r]
    BY <2>1 DEF PoolTypes
  <2>4. \A q \in Reqs : state'[q] = IF q = r THEN 0 ELSE state[q]
    BY <2>1 DEF PoolTypes
  <2>5. \A q \in Reqs : q # r => at'[q] = at[q]
    BY DEF SparesOthers
  <2>6. \A q \in Reqs : q # r /\ state[q] # 0 => state[q] # state[r]
    BY DEF PoolIsClean
  <2>7. \A i \in DOMAIN pool : pool[i] \in Http!Ids /\ pool[i] # 0
    BY HttpSets DEF PoolTypes
  <2>8. \A q \in Reqs : state'[q] # 0 <=> at'[q] \notin Idle
    BY <2>1, <2>4, <2>5 DEF PoolIsClean, Idle
  <2>9. \A q, p \in Reqs : state'[q] # 0 /\ state'[q] = state'[p] => q = p
    BY <2>4 DEF PoolIsClean
  <2>10. \A i \in DOMAIN pool' : \A q \in Reqs : pool'[i] # state'[q]
    BY <2>1, <2>3, <2>4, <2>6, <2>7, HttpSets DEF PoolIsClean
  <2>11. \A i, j \in DOMAIN pool' : pool'[i] = pool'[j] => i = j
    BY <2>3 DEF PoolIsClean
  <2> QED
    BY <2>2, <2>8, <2>9, <2>10, <2>11 DEF PoolIsClean
<1>3. CASE Took(r)
  <2> DEFINE a == Http!Acquired
  <2>1. /\ a \in Http!Ids /\ a # 0
        /\ \A q \in Reqs : state[q] # a
    BY <1>3, AcquiredIsFree, HttpSets DEF Took
  <2>2. /\ state' = [state EXCEPT ![r] = a]
        /\ pool' = IF pool = <<>> THEN pool ELSE SubSeq(pool, 1, Len(pool) - 1)
        /\ at'[r] \notin Idle
    BY <1>3 DEF Took
  <2>3. pool # <<>> => a = pool[Len(pool)]
    BY DEF Http!Acquired
  <2> HIDE DEF a
  <2>4. PoolTypes'
    <3>1. state' \in [Reqs -> 0..Cardinality(Reqs)]
      BY <2>1, <2>2, HttpSets DEF PoolTypes
    <3>2. pool' \in Seq(Http!Ids) /\ Len(pool') <= PoolMax
      <4>1. CASE pool # <<>>
        <5>1. pool' = SubSeq(pool, 1, Len(pool) - 1) /\ pool \in Seq(Http!Ids) /\ Len(pool) <= PoolMax
          BY <2>2, <4>1 DEF PoolTypes
        <5>2. pool' \in Seq(Http!Ids) /\ Len(pool') = Len(pool) - 1 /\ Len(pool) \in Nat
          BY <4>1, <5>1, Popped
        <5> QED
          BY <5>1, <5>2, HttpSets
      <4> QED
        BY <2>2, <4>1 DEF PoolTypes
    <3> QED
      BY <3>1, <3>2 DEF PoolTypes
  <2>5. /\ \A q \in Reqs : state'[q] = IF q = r THEN a ELSE state[q]
        /\ \A q \in Reqs : q # r => at'[q] = at[q]
    BY <2>2 DEF PoolTypes, SparesOthers
  <2>6. \A i \in DOMAIN pool' : /\ i \in DOMAIN pool /\ pool'[i] = pool[i]
                                /\ i # Len(pool) /\ pool # <<>>
    BY <2>2 DEF PoolTypes
  <2>7. \A i \in DOMAIN pool' : pool[i] # a
    BY <2>3, <2>6 DEF PoolIsClean, PoolTypes
  <2> QED
    BY <2>1, <2>2, <2>4, <2>5, <2>6, <2>7 DEF PoolIsClean
<1>4. CASE Returned(r)
  <2> DEFINE a == Http!Acquired
  <2>1. /\ a \in Http!Ids /\ a # 0
        /\ \A q \in Reqs : state[q] # a
    BY <1>4, AcquiredIsFree, HttpSets DEF Returned
  <2> HIDE DEF a
  <2>2. /\ state' = state /\ pool' \in {<<a>>, pool} /\ at'[r] = "done"
        /\ pool' = <<a>> => PoolMax > 0 \/ pool' = pool
    BY <1>4 DEF Returned, a
  <2>3. PoolTypes'
    <3>1. <<a>> \in Seq(Http!Ids) /\ Len(<<a>>) = 1
      BY <2>1
    <3>2. CASE pool' = pool
      BY <2>2, <3>2 DEF PoolTypes
    <3>3. CASE pool' = <<a>> /\ PoolMax > 0
      <4>1. Len(pool') <= PoolMax
        BY <3>1, <3>3, HttpSets
      <4> QED
        BY <2>2, <3>1, <3>3, <4>1 DEF PoolTypes
    <3> QED
      BY <2>2, <3>2, <3>3
  <2>4. \A q \in Reqs : at'[q] \in Idle <=> at[q] \in Idle
    BY <1>4, <2>2 DEF Returned, SparesOthers, Idle
  <2>5. CASE pool' = pool
    BY <2>2, <2>3, <2>4, <2>5 DEF PoolIsClean
  <2>6. CASE pool' = <<a>>
    BY <2>1, <2>2, <2>3, <2>4, <2>6 DEF PoolIsClean
  <2> QED
    BY <2>2, <2>5, <2>6
<1> QED
  BY <1>1, <1>2, <1>3, <1>4 DEF PoolStep

LEMMA CountStepKeeps ==
    ASSUME OwnTypes, CountIsRight, rendering \in Nat, draining \in BOOLEAN,
           NEW r \in Reqs, OwnTypes', SparesOthers(r), CountStep(r)
    PROVE  CountIsRight' /\ rendering' \in Nat /\ draining' \in BOOLEAN
<1>1. IsFiniteSet(InProgress) /\ InProgress \subseteq Reqs
  BY HttpSets, FS_Subset DEF InProgress
<1>2. \A q \in Reqs : q # r => (q \in InProgress' <=> q \in InProgress)
  BY DEF SparesOthers, InProgress
<1>3. InProgress' \subseteq Reqs
  BY DEF InProgress
<1>4. CASE UNCHANGED <<rendering, draining>> /\ ((r \in InProgress)' <=> r \in InProgress)
  <2>1. InProgress' = InProgress
    BY <1>1, <1>2, <1>3, <1>4
  <2> QED
    BY <1>4, <2>1 DEF CountIsRight
<1>5. CASE /\ at[r] = "new" /\ (r \in InProgress)'
           /\ rendering' = rendering + 1 /\ UNCHANGED draining
  <2>1. r \notin InProgress
    BY <1>5 DEF InProgress
  <2>2. InProgress' = InProgress \cup {r}
    BY <1>1, <1>2, <1>3, <1>5
  <2>3. Cardinality(InProgress') = Cardinality(InProgress) + 1
    BY <1>1, <2>1, <2>2, FS_AddElement
  <2> QED
    BY <1>5, <2>3 DEF CountIsRight
<1>6. CASE /\ at[r] \notin Idle /\ at'[r] = "done" /\ kind'[r] = kind[r]
           /\ Http!RequestDone(r)
  <2>1. r \notin InProgress'
    BY <1>6 DEF InProgress
  <2>2. InProgress' = InProgress \ {r}
    BY <1>1, <1>2, <1>3, <2>1
  <2>3. r \in InProgress <=> kind[r] # "auth"
    BY <1>6 DEF InProgress, Idle
  <2>4. Cardinality(InProgress') = IF kind[r] = "auth" THEN Cardinality(InProgress)
                                                        ELSE Cardinality(InProgress) - 1
    BY <1>1, <2>2, <2>3, FS_RemoveElement
  <2>5. IsFiniteSet(InProgress') /\ Cardinality(InProgress') \in Nat
    BY <1>1, <2>2, FS_RemoveElement, FS_CardinalityType
  <2>6. /\ rendering' = IF kind[r] = "auth" THEN rendering ELSE rendering - 1
        /\ draining' = (draining /\ rendering' # 0)
    BY <1>6 DEF Http!RequestDone
  <2>7. rendering' = Cardinality(InProgress') /\ rendering' \in Nat
    BY <2>4, <2>5, <2>6 DEF CountIsRight
  <2>8. rendering' # 0 => rendering' > 0
    BY <2>7
  <2>9. draining' \in BOOLEAN /\ (draining' => rendering' > 0)
    BY <2>6, <2>8, Zenon
  <2> QED
    BY <2>7, <2>9 DEF CountIsRight
<1> QED
  BY <1>4, <1>5, <1>6 DEF CountStep

LEMMA MapStepKeeps ==
    ASSUME OwnTypes, MapIsRight, NEW r \in Reqs, OwnTypes', key' = key, SparesOthers(r), DedupStep(r)
    PROVE  MapIsRight'
<1>1. \A q \in Reqs : q # r => promise'[q] = promise[q]
  BY DEF SparesOthers
<1>2. key \in [Reqs -> Keys] /\ inflight \in [Keys -> Reqs \cup {NoReq}]
  BY DEF OwnTypes
<1> QED
  BY <1>1, <1>2, HttpSets DEF MapIsRight, DedupStep

\* The others keep what they know, of themselves and of a leader they follow.
LEMMA OthersKeep ==
    ASSUME OwnTypes, NEW r \in Reqs, NEW q \in Reqs, q # r,
           LocalOf(q), RoleOf(q), RoleOf(r), key' = key, SparesOthers(r), DedupStep(r)
    PROVE  LocalOf(q)' /\ RoleOf(q)'
<1>1. LocalOf(q)'
  BY DEF SparesOthers, LocalOf, FlagsOf
<1>2. RoleOf(q)'
  <2>1. CASE leader[q] # r
    BY <2>1 DEF SparesOthers, RoleOf, OwnTypes
  <2>2. CASE leader[q] = r
    <3>1. leader[q] \notin {NoReq, q} /\ promise[r] # "none"
      BY <2>2, HttpSets DEF RoleOf
    <3>3. at[q] # "follow" => promise[r] # "pending"
      BY <2>2, <3>1 DEF RoleOf
    <3>2. at[q] # "follow" => promise'[r] = promise[r]
      BY <2>2, <3>1, <3>3 DEF DedupStep
    <3> QED
      BY <2>2, <3>1, <3>2 DEF SparesOthers, RoleOf, DedupStep, OwnTypes
  <2> QED
    BY <2>1, <2>2
<1> QED
  BY <1>1, <1>2

LEMMA StepOfKeeps ==
    ASSUME HttpInv, NEW r \in Reqs, StepOf(r)
    PROVE  HttpInv'
<1>1. /\ OwnTypes /\ PoolTypes /\ rendering \in Nat /\ draining \in BOOLEAN
  BY HttpTypes DEF HttpInv
<1>2. PoolTypes' /\ PoolIsClean'
  BY <1>1, PoolStepKeeps DEF HttpInv, StepOf
<1>3. CountIsRight' /\ rendering' \in Nat /\ draining' \in BOOLEAN
  BY <1>1, CountStepKeeps DEF HttpInv, StepOf
<1>4. MapIsRight'
  BY <1>1, MapStepKeeps DEF HttpInv, StepOf
<1>5. \A q \in Reqs : LocalOf(q)' /\ RoleOf(q)'
  BY <1>1, OthersKeep DEF HttpInv, StepOf
<1>6. Http!TypeOK'
  <2>1. OwnTypes'
    BY DEF StepOf
  <2> QED
    BY <1>2, <1>3, <2>1, HttpSets DEF Http!TypeOK, OwnTypes, PoolTypes
<1> QED
  BY <1>2, <1>3, <1>4, <1>5, <1>6 DEF HttpInv, StepOf

LEMMA Known ==
    ASSUME HttpInv, NEW r \in Reqs
    PROVE  /\ OwnTypes /\ PoolTypes /\ misuse = {} /\ LocalOf(r) /\ RoleOf(r)
           /\ at[r] \in Idle => state[r] = 0
           /\ at[r] \notin Idle =>
                 /\ state[r] \in Http!Ids /\ state[r] # 0 /\ FlagsOf(r) = flags[state[r]]
                 /\ \A q \in Reqs : q # r => state[q] # state[r]
BY HttpTypes, HttpSets DEF HttpInv, PoolIsClean, PoolTypes, FlagsOf

-----------------------------------------------------------------------------
(* A request comes, and its client goes.                                     *)

LEMMA ArriveKeeps ==
    ASSUME HttpInv, NEW r \in Reqs, NEW c \in Kinds[r], Http!Arrive(r, c)
    PROVE  HttpInv'
<1> DEFINE a == Http!Acquired
           first == inflight[key[r]]
<1>1. /\ OwnTypes /\ PoolTypes /\ misuse = {} /\ LocalOf(r) /\ RoleOf(r)
      /\ at[r] = "new" /\ c # "auth" /\ c \in Http!AllKinds
  BY Known, HttpConstantsOK DEF Http!Arrive
<1>2. /\ a \in Http!Ids /\ a # 0 /\ \A q \in Reqs : state[q] # a
  BY <1>1, AcquiredIsFree, HttpSets DEF HttpInv
<1> HIDE DEF a
<1>3. /\ kind' = [kind EXCEPT ![r] = c] /\ key' = key
      /\ upload' \in [Reqs -> {"none", "reading", "read", "tooLarge", "failed"}]
      /\ wire' = [wire EXCEPT ![r] = "open"]
      /\ state' = [state EXCEPT ![r] = a] /\ flags' = [flags EXCEPT ![a] = Http!Fresh]
      /\ rendering' = rendering + 1 /\ draining' = draining
      /\ page' = page /\ out' = out /\ pos' = pos /\ sent' = sent /\ misuse' = misuse
  BY <1>1 DEF Http!Arrive, Http!Acquire, Http!render, OwnTypes, a
<1>4. \/ /\ c = "get" /\ first # NoReq /\ leader' = [leader EXCEPT ![r] = first]
         /\ at' = [at EXCEPT ![r] = "follow"] /\ promise' = promise /\ inflight' = inflight
      \/ /\ c = "get" /\ first = NoReq /\ leader' = [leader EXCEPT ![r] = r]
         /\ promise' = [promise EXCEPT ![r] = "pending"]
         /\ inflight' = [inflight EXCEPT ![key[r]] = r] /\ at' = [at EXCEPT ![r] = "render"]
      \/ /\ at' = [at EXCEPT ![r] = "render"]
         /\ leader' = leader /\ promise' = promise /\ inflight' = inflight
  BY DEF Http!Arrive, Http!CanDedup, Http!dedup
<1>5. /\ leader[r] = NoReq /\ promise[r] = "none"
      /\ first # NoReq => /\ first \in Reqs /\ key[first] = key[r] /\ promise[first] = "pending"
                          /\ first # r
  BY <1>1 DEF RoleOf, HttpInv, MapIsRight, OwnTypes
<1> HIDE DEF first
<1>6. OwnTypes'
  <2>1. /\ at' \in [Reqs -> Http!Places] /\ leader' \in [Reqs -> Reqs \cup {NoReq}]
        /\ promise' \in [Reqs -> {"none", "pending", "null", "shared"}]
        /\ inflight' \in [Keys -> Reqs \cup {NoReq}]
    BY <1>1, <1>4, <1>5 DEF OwnTypes, Http!Places
  <2>2. /\ kind' \in [Reqs -> Http!AllKinds] /\ misuse' \subseteq Reqs
        /\ wire' \in [Reqs -> {"unused", "open", "page", "error", "closed", "aborted"}]
        /\ flags' \in [Http!Ids -> Http!Flags]
    BY <1>1, <1>2, <1>3, HttpSets DEF OwnTypes
  <2> QED
    BY <1>1, <1>3, <2>1, <2>2 DEF OwnTypes
<1>7. SparesOthers(r)
  BY <1>1, <1>2, <1>3, <1>4, HttpSets DEF OwnTypes, PoolTypes, SparesOthers
<1>8. at'[r] \in {"follow", "render"}
  BY <1>1, <1>4 DEF OwnTypes
<1>9. PoolStep(r)
  BY <1>1, <1>8 DEF PoolStep, Took, Idle, Http!Arrive, Http!Acquire
<1>10. CountStep(r)
  BY <1>1, <1>3, <1>8 DEF CountStep, InProgress, OwnTypes
<1>11. DedupStep(r)
  BY <1>1, <1>3, <1>4, <1>5 DEF DedupStep, OwnTypes, first
<1>12. LocalOf(r)'
  <2>1. FlagsOf(r)' = Http!Fresh
    BY <1>1, <1>2, <1>3, HttpSets DEF FlagsOf, OwnTypes, PoolTypes
  <2>2. wire'[r] = "open" /\ page'[r] = page[r] /\ pos'[r] = pos[r] /\ sent'[r] = sent[r]
    BY <1>1, <1>3 DEF OwnTypes
  <2> QED
    BY <1>1, <1>8, <2>1, <2>2 DEF LocalOf, Local, Idle, Early, Sending, Http!Fresh
<1>13. RoleOf(r)'
  BY <1>1, <1>3, <1>4, <1>5, HttpSets DEF RoleOf, OwnTypes
<1> QED
  BY <1>1, <1>3, <1>6, <1>7, <1>9, <1>10, <1>11, <1>12, <1>13, StepOfKeeps DEF StepOf

LEMMA AuthenticateKeeps ==
    ASSUME HttpInv, NEW r \in Reqs, Http!Authenticate(r)
    PROVE  HttpInv'
<1> DEFINE a == Http!Acquired
<1>1. /\ OwnTypes /\ PoolTypes /\ misuse = {} /\ LocalOf(r) /\ RoleOf(r) /\ at[r] = "new"
  BY Known DEF Http!Authenticate
<1>2. /\ a \in Http!Ids /\ a # 0 /\ \A q \in Reqs : state[q] # a
  BY <1>1, AcquiredIsFree, HttpSets DEF HttpInv
<1> HIDE DEF a
<1>3. /\ kind' = [kind EXCEPT ![r] = "auth"] /\ key' = key
      /\ upload' \in [Reqs -> {"none", "reading", "read", "tooLarge", "failed"}]
      /\ wire' = [wire EXCEPT ![r] = "open"] /\ at' = [at EXCEPT ![r] = "auth"]
      /\ state' = [state EXCEPT ![r] = a] /\ flags' = [flags EXCEPT ![a] = Http!Fresh]
      /\ rendering' = rendering /\ draining' = draining
      /\ page' = page /\ out' = out /\ pos' = pos /\ sent' = sent /\ misuse' = misuse
      /\ leader' = leader /\ promise' = promise /\ inflight' = inflight
  BY <1>1 DEF Http!Authenticate, Http!Acquire, Http!render, Http!dedup, OwnTypes, a
<1>4. OwnTypes'
  BY <1>1, <1>2, <1>3, HttpSets DEF OwnTypes, Http!Places, Http!AllKinds
<1>5. SparesOthers(r)
  BY <1>1, <1>2, <1>3, HttpSets DEF OwnTypes, PoolTypes, SparesOthers
<1>6. at'[r] = "auth" /\ kind'[r] = "auth"
  BY <1>1, <1>3 DEF OwnTypes
<1>7. PoolStep(r)
  BY <1>1, <1>6 DEF PoolStep, Took, Idle, Http!Authenticate, Http!Acquire
<1>8. CountStep(r)
  BY <1>1, <1>3, <1>6 DEF CountStep, InProgress
<1>9. DedupStep(r)
  BY <1>1, <1>3 DEF DedupStep
<1>10. LocalOf(r)'
  <2>1. FlagsOf(r)' = Http!Fresh
    BY <1>1, <1>2, <1>3, HttpSets DEF FlagsOf, OwnTypes, PoolTypes
  <2>2. wire'[r] = "open" /\ page'[r] = page[r] /\ pos'[r] = pos[r] /\ sent'[r] = sent[r]
    BY <1>1, <1>3 DEF OwnTypes
  <2> QED
    BY <1>1, <1>6, <2>1, <2>2 DEF LocalOf, Local, Idle, Early, Sending, Http!Fresh
<1>11. RoleOf(r)'
  BY <1>1, <1>3, <1>6, HttpSets DEF RoleOf
<1> QED
  BY <1>1, <1>3, <1>4, <1>5, <1>7, <1>8, <1>9, <1>10, <1>11, StepOfKeeps DEF StepOf

LEMMA RefuseKeeps ==
    ASSUME HttpInv, NEW r \in Reqs, Http!Refuse(r)
    PROVE  HttpInv'
<1> DEFINE a == Http!Acquired
<1>1. /\ OwnTypes /\ PoolTypes /\ misuse = {} /\ LocalOf(r) /\ RoleOf(r)
      /\ at[r] = "new" /\ state[r] = 0
  BY Known DEF Http!Refuse, Idle
<1>2. /\ a \in Http!Ids /\ a # 0 /\ \A q \in Reqs : state[q] # a
  BY <1>1, AcquiredIsFree, HttpSets DEF HttpInv
<1> HIDE DEF a
<1>3. /\ at' = [at EXCEPT ![r] = "done"] /\ wire' = [wire EXCEPT ![r] = "error"]
      /\ flags' = [flags EXCEPT ![a] = Http!Fresh] /\ state' = state
      /\ kind' = kind /\ key' = key /\ upload' = upload
      /\ rendering' = rendering /\ draining' = draining
      /\ page' = page /\ out' = out /\ pos' = pos /\ sent' = sent /\ misuse' = misuse
      /\ leader' = leader /\ promise' = promise /\ inflight' = inflight
  BY DEF Http!Refuse, Http!render, Http!dedup, Http!asked, a
<1>4. OwnTypes'
  BY <1>1, <1>2, <1>3, HttpSets DEF OwnTypes, Http!Places
<1>5. SparesOthers(r)
  BY <1>1, <1>2, <1>3 DEF OwnTypes, PoolTypes, SparesOthers
<1>6. at'[r] = "done" /\ wire'[r] = "error"
  BY <1>1, <1>3 DEF OwnTypes
<1>7. PoolStep(r)
  BY <1>1, <1>6 DEF PoolStep, Returned, Http!Refuse
<1>8. CountStep(r)
  BY <1>1, <1>3, <1>6 DEF CountStep, InProgress
<1>9. DedupStep(r)
  BY <1>1, <1>3 DEF DedupStep
<1>10. LocalOf(r)'
  BY <1>6 DEF LocalOf, Local, Idle, Early, Sending
<1>11. RoleOf(r)'
  BY <1>1, <1>3, <1>6, HttpSets DEF RoleOf
<1> QED
  BY <1>1, <1>3, <1>4, <1>5, <1>7, <1>8, <1>9, <1>10, <1>11, StepOfKeeps DEF StepOf

LEMMA UploadKeeps ==
    ASSUME HttpInv, NEW r \in Reqs, Http!Upload(r)
    PROVE  HttpInv'
<1>1. /\ upload' \in [Reqs -> {"none", "reading", "read", "tooLarge", "failed"}]
      /\ UNCHANGED <<kind, key, at, leader, promise, inflight, page, out, pos, wire, sent, misuse,
                     state, flags, pool, rendering, draining>>
  BY DEF Http!Upload, Http!dedup, Http!render, Http!response, Http!pooled, HttpInv, Http!TypeOK
<1>2. Http!TypeOK'
  BY <1>1 DEF HttpInv, Http!TypeOK
<1>3. PoolIsClean' /\ CountIsRight' /\ MapIsRight'
  BY <1>1 DEF HttpInv, PoolIsClean, CountIsRight, InProgress, MapIsRight
<1>4. \A q \in Reqs : LocalOf(q)' /\ RoleOf(q)'
  BY <1>1 DEF HttpInv, LocalOf, FlagsOf, RoleOf
<1> QED
  BY <1>1, <1>2, <1>3, <1>4 DEF HttpInv

LEMMA AbortKeepsHttp ==
    ASSUME HttpInv, NEW r \in Reqs, Http!Abort(r)
    PROVE  HttpInv'
<1>1. /\ OwnTypes /\ PoolTypes /\ misuse = {} /\ LocalOf(r) /\ RoleOf(r)
      /\ wire[r] = "open" /\ at[r] \notin Idle
  BY Known DEF Http!Abort, LocalOf, Local, Idle
<1>2. /\ state[r] \in Http!Ids /\ state[r] # 0 /\ FlagsOf(r) = flags[state[r]]
      /\ \A q \in Reqs : q # r => state[q] # state[r]
  BY <1>1, Known
<1>3. /\ wire' = [wire EXCEPT ![r] = "aborted"]
      /\ flags' = [flags EXCEPT ![state[r]] = [@ EXCEPT !.aborted = TRUE]]
      /\ upload' \in [Reqs -> {"none", "reading", "read", "tooLarge", "failed"}]
      /\ UNCHANGED <<kind, key, at, leader, promise, inflight, page, out, pos, sent, misuse,
                     state, pool, rendering, draining>>
  BY <1>1 DEF Http!Abort, Http!dedup, Http!render, OwnTypes
<1>4. flags[state[r]] \in Http!Flags
  BY <1>1, <1>2 DEF OwnTypes
<1>5. OwnTypes'
  BY <1>1, <1>2, <1>3, <1>4 DEF OwnTypes, Http!Flags
<1>6. SparesOthers(r)
  BY <1>1, <1>2, <1>3 DEF OwnTypes, SparesOthers
<1>7. PoolStep(r) /\ CountStep(r) /\ DedupStep(r)
  BY <1>1, <1>3 DEF PoolStep, Kept, CountStep, InProgress, DedupStep
<1>8. LocalOf(r)'
  <2>1. FlagsOf(r)' = [FlagsOf(r) EXCEPT !.aborted = TRUE]
    BY <1>1, <1>2, <1>3 DEF FlagsOf, OwnTypes
  <2>2. FlagsOf(r)'.aborted /\ FlagsOf(r)'.started = FlagsOf(r).started /\ wire'[r] = "aborted"
    BY <1>1, <1>2, <1>3, <1>4, <2>1 DEF OwnTypes, Http!Flags
  <2> QED
    BY <1>1, <1>3, <2>2 DEF LocalOf, Local, Idle
<1>9. RoleOf(r)'
  <2>1. wire'[r] = "aborted"
    BY <1>1, <1>3 DEF OwnTypes
  <2> QED
    BY <1>1, <1>3, <2>1 DEF RoleOf
<1> QED
  BY <1>1, <1>3, <1>5, <1>6, <1>7, <1>8, <1>9, StepOfKeeps DEF StepOf

-----------------------------------------------------------------------------
(* How a handler goes on or ends, and what it does to its response.          *)

\* The part of a step that is about r's place, body and response.
Turn(r) ==
    /\ at' \in [Reqs -> Http!Places] /\ out' \in [Reqs -> Http!Body] /\ pos' \in [Reqs -> Nat]
    /\ wire' \in [Reqs -> {"unused", "open", "page", "error", "closed", "aborted"}]
    /\ sent' \in [Reqs -> Nat] /\ flags' \in [Http!Ids -> Http!Flags]
    /\ misuse' = {}
    /\ \A q \in Reqs \ {r} :
          /\ at'[q] = at[q] /\ out'[q] = out[q] /\ pos'[q] = pos[q]
          /\ wire'[q] = wire[q] /\ sent'[q] = sent[q] /\ state'[q] = state[q]
          /\ state[q] # 0 => flags'[state[q]] = flags[state[q]]
    /\ PoolStep(r) /\ CountStep(r)
    /\ wire'[r] = "aborted" <=> wire[r] = "aborted"

LEMMA TurnKeeps ==
    ASSUME HttpInv, NEW r \in Reqs, Turn(r), DedupStep(r), LocalOf(r)', RoleOf(r)',
           kind' = kind, key' = key, upload' = upload, leader' = leader,
           page' \in [Reqs -> Http!AllPages],
           promise' \in [Reqs -> {"none", "pending", "null", "shared"}],
           inflight' \in [Keys -> Reqs \cup {NoReq}],
           \A q \in Reqs \ {r} : page'[q] = page[q] /\ promise'[q] = promise[q]
    PROVE  HttpInv'
<1>1. OwnTypes'
  BY Known DEF OwnTypes, Turn
<1>2. SparesOthers(r)
  BY DEF SparesOthers, Turn
<1> QED
  BY <1>1, <1>2, StepOfKeeps DEF StepOf, Turn

LEMMA Leaving ==
    ASSUME HttpInv, NEW r \in Reqs, at[r] \notin Idle, Http!Leave(r), kind' = kind
    PROVE  /\ at' = [at EXCEPT ![r] = "done"] /\ at'[r] = "done"
           /\ state' = [state EXCEPT ![r] = 0] /\ FlagsOf(r)' = Http!Fresh
           /\ PoolStep(r) /\ CountStep(r)
<1>1. /\ at' = [at EXCEPT ![r] = "done"] /\ Http!Release(r) /\ Http!RequestDone(r)
      /\ state' = [state EXCEPT ![r] = 0]
  BY DEF Http!Leave, Http!Release
<1>2. at'[r] = "done" /\ state'[r] = 0
  BY <1>1, Known DEF OwnTypes, PoolTypes
<1>3. FlagsOf(r)' = Http!Fresh
  BY <1>2 DEF FlagsOf
<1>4. PoolStep(r)
  BY <1>1, <1>2 DEF PoolStep, Released
<1>5. CountStep(r)
  BY <1>1, <1>2 DEF CountStep
<1> QED
  BY <1>1, <1>2, <1>3, <1>4, <1>5

LEMMA Moving ==
    ASSUME HttpInv, NEW r \in Reqs, at[r] \notin Idle,
           NEW place \in Http!Places \ Idle, Http!Moves(r, place), kind' = kind
    PROVE  /\ at' = [at EXCEPT ![r] = place] /\ at'[r] = place
           /\ state' = state
           /\ PoolStep(r) /\ CountStep(r)
<1>1. /\ at' = [at EXCEPT ![r] = place]
      /\ state' = state /\ pool' = pool /\ rendering' = rendering /\ draining' = draining
  BY DEF Http!Moves
<1>2. at'[r] = place
  BY <1>1, Known DEF OwnTypes
<1>3. PoolStep(r)
  BY <1>1, <1>2 DEF PoolStep, Kept
<1>4. CountStep(r)
  BY <1>1, <1>2 DEF CountStep, InProgress, Idle
<1> QED
  BY <1>1, <1>2, <1>3, <1>4

LEMMA Putting ==
    ASSUME HttpInv, NEW r \in Reqs, wire[r] = "open",
           NEW how \in {"page", "error"}, NEW chunks \in Nat, Http!Put(r, how, chunks)
    PROVE  /\ misuse' = {}
           /\ wire' = [wire EXCEPT ![r] = how] /\ wire'[r] = how
           /\ sent' = [sent EXCEPT ![r] = @ + chunks] /\ sent'[r] = sent[r] + chunks
           /\ wire' \in [Reqs -> {"unused", "open", "page", "error", "closed", "aborted"}]
           /\ sent' \in [Reqs -> Nat]
BY Known DEF Http!Put, OwnTypes

\* A handler that runs, and whether its client is there.
LEMMA Running ==
    ASSUME HttpInv, NEW r \in Reqs, at[r] \notin Idle
    PROVE  /\ OwnTypes /\ PoolTypes /\ misuse = {} /\ LocalOf(r) /\ RoleOf(r)
           /\ state[r] \in Http!Ids /\ state[r] # 0
           /\ \A q \in Reqs : q # r => state[q] # state[r]
           /\ flags[state[r]] \in Http!Flags /\ FlagsOf(r) = flags[state[r]]
           /\ Http!Aborted(r) <=> wire[r] = "aborted"
           /\ ~Http!Aborted(r) <=> wire[r] = "open"
           /\ at[r] \in Early => ~Http!Started(r) /\ sent[r] = 0
<1>1. /\ OwnTypes /\ PoolTypes /\ misuse = {} /\ LocalOf(r) /\ RoleOf(r)
      /\ state[r] \in Http!Ids /\ state[r] # 0 /\ FlagsOf(r) = flags[state[r]]
      /\ \A q \in Reqs : q # r => state[q] # state[r]
  BY Known
<1>2. flags[state[r]] \in Http!Flags
  BY <1>1 DEF OwnTypes
<1> QED
  BY <1>1, <1>2 DEF LocalOf, Local, Http!Aborted, Http!Started

\* A mark in r's own state object is nobody else's.
LEMMA Marking ==
    ASSUME HttpInv, NEW r \in Reqs, at[r] \notin Idle,
           Http!Starts(r) \/ flags' = [flags EXCEPT ![state[r]].aborted = TRUE]
    PROVE  /\ flags' \in [Http!Ids -> Http!Flags]
           /\ \A q \in Reqs \ {r} : state[q] # 0 => flags'[state[q]] = flags[state[q]]
           /\ Http!Starts(r) => flags'[state[r]].aborted = flags[state[r]].aborted
<1>1. /\ state[r] \in Http!Ids /\ flags \in [Http!Ids -> Http!Flags]
      /\ \A q \in Reqs : q # r => state[q] # state[r]
      /\ \A q \in Reqs : state[q] # 0 => state[q] \in Http!Ids
  BY Running, HttpSets DEF OwnTypes, PoolTypes
<1>2. flags[state[r]] \in Http!Flags
  BY <1>1
<1>3. CASE Http!Starts(r)
  <2>1. flags' = [flags EXCEPT ![state[r]] = [@ EXCEPT !.started = TRUE]]
    BY <1>3 DEF Http!Starts
  <2> QED
    BY <1>1, <1>2, <2>1 DEF Http!Flags
<1>4. CASE flags' = [flags EXCEPT ![state[r]].aborted = TRUE] /\ ~Http!Starts(r)
  <2>1. flags' = [flags EXCEPT ![state[r]] = [@ EXCEPT !.aborted = TRUE]]
    BY <1>4
  <2> QED
    BY <1>1, <1>2, <1>4, <2>1 DEF Http!Flags
<1> QED
  BY <1>3, <1>4

\* The client is gone: the handler ends and says nothing.
LEMMA LeavingSilently ==
    ASSUME HttpInv, NEW r \in Reqs, at[r] \notin Idle, Http!Aborted(r),
           Http!Silent, Http!Leave(r), kind' = kind, out' = out, pos' = pos
    PROVE  Turn(r) /\ LocalOf(r)' /\ at'[r] = "done" /\ wire'[r] = "aborted"
<1>1. /\ OwnTypes /\ PoolTypes /\ misuse = {} /\ wire[r] = "aborted"
      /\ wire' = wire /\ sent' = sent /\ misuse' = misuse /\ flags' = flags
  BY Running DEF Http!Silent, Http!response
<1>2. /\ at' = [at EXCEPT ![r] = "done"] /\ at'[r] = "done"
      /\ state' = [state EXCEPT ![r] = 0] /\ FlagsOf(r)' = Http!Fresh
      /\ PoolStep(r) /\ CountStep(r)
  BY Leaving
<1>3. Turn(r)
  BY <1>1, <1>2 DEF Turn, OwnTypes, PoolTypes, Http!Places
<1>4. LocalOf(r)'
  BY <1>1, <1>2 DEF LocalOf, Local, Idle, Early, Sending
<1> QED
  BY <1>1, <1>2, <1>3, <1>4

\* The handler goes on without a word.
LEMMA MovingSilently ==
    ASSUME HttpInv, NEW r \in Reqs, at[r] \notin Idle, NEW place \in Http!Places \ Idle,
           Http!Silent, Http!Moves(r, place), kind' = kind,
           out' \in [Reqs -> Http!Body], pos' \in [Reqs -> Nat],
           \A q \in Reqs \ {r} : out'[q] = out[q] /\ pos'[q] = pos[q]
    PROVE  /\ Turn(r) /\ at'[r] = place /\ FlagsOf(r)' = FlagsOf(r)
           /\ wire'[r] = wire[r] /\ sent'[r] = sent[r]
<1>1. /\ OwnTypes /\ PoolTypes /\ misuse = {}
      /\ wire' = wire /\ sent' = sent /\ misuse' = misuse /\ flags' = flags
  BY Running DEF Http!Silent, Http!response
<1>2. /\ at' = [at EXCEPT ![r] = place] /\ at'[r] = place /\ state' = state
      /\ PoolStep(r) /\ CountStep(r)
  BY Moving
<1>3. Turn(r)
  BY <1>1, <1>2 DEF Turn, OwnTypes, PoolTypes
<1> QED
  BY <1>1, <1>2, <1>3 DEF FlagsOf

\* The handler answers and ends.
LEMMA Answering ==
    ASSUME HttpInv, NEW r \in Reqs, at[r] \notin Idle, ~Http!Aborted(r),
           NEW how \in {"page", "error"}, NEW chunks \in Nat, Http!Put(r, how, chunks),
           flags' = flags \/ Http!Starts(r), Http!Leave(r), kind' = kind,
           out' \in [Reqs -> Http!Body], \A q \in Reqs \ {r} : out'[q] = out[q], pos' = pos
    PROVE  /\ Turn(r) /\ at'[r] = "done" /\ wire'[r] = how /\ sent'[r] = sent[r] + chunks
           /\ FlagsOf(r)' = Http!Fresh
<1>1. OwnTypes /\ PoolTypes /\ wire[r] = "open"
  BY Running
<1>2. /\ misuse' = {}
      /\ wire' = [wire EXCEPT ![r] = how] /\ wire'[r] = how
      /\ sent' = [sent EXCEPT ![r] = @ + chunks] /\ sent'[r] = sent[r] + chunks
      /\ wire' \in [Reqs -> {"unused", "open", "page", "error", "closed", "aborted"}]
      /\ sent' \in [Reqs -> Nat]
  BY <1>1, Putting
<1>3. /\ at' = [at EXCEPT ![r] = "done"] /\ at'[r] = "done"
      /\ state' = [state EXCEPT ![r] = 0] /\ FlagsOf(r)' = Http!Fresh
      /\ PoolStep(r) /\ CountStep(r)
  BY Leaving
<1>4. /\ flags' \in [Http!Ids -> Http!Flags]
      /\ \A q \in Reqs \ {r} : state[q] # 0 => flags'[state[q]] = flags[state[q]]
  BY <1>1, Marking DEF OwnTypes
<1>5. at' \in [Reqs -> Http!Places]
  BY <1>1, <1>3 DEF OwnTypes, Http!Places
<1>6. \A q \in Reqs \ {r} : at'[q] = at[q] /\ wire'[q] = wire[q] /\ sent'[q] = sent[q] /\ state'[q] = state[q]
  BY <1>1, <1>2, <1>3 DEF OwnTypes, PoolTypes
<1>7. wire'[r] # "aborted" /\ wire[r] # "aborted"
  BY <1>1, <1>2
<1>8. Turn(r)
  BY <1>1, <1>2, <1>3, <1>4, <1>5, <1>6, <1>7 DEF Turn, OwnTypes
<1> QED
  BY <1>2, <1>3, <1>8

\* Fail before the first byte: an error page, or nothing for nobody.
LEMMA Failing ==
    ASSUME HttpInv, NEW r \in Reqs, at[r] \in Early \ {"new"}, Http!Fail(r), kind' = kind,
           out' = out, pos' = pos
    PROVE  Turn(r) /\ LocalOf(r)' /\ at'[r] = "done"
<1>1. /\ OwnTypes /\ ~Http!Started(r) /\ at[r] \notin Idle
      /\ flags' = flags /\ Http!Leave(r)
  BY Running DEF Early, Idle, Http!Fail
<1>2. CASE Http!Aborted(r)
  <2>1. Http!Silent
    BY <1>1, <1>2 DEF Http!Fail, Http!Silent
  <2> QED
    BY <1>1, <1>2, <2>1, LeavingSilently
<1>3. CASE ~Http!Aborted(r)
  <2>1. Http!Put(r, "error", 0)
    BY <1>1, <1>3 DEF Http!Fail
  <2>2. \A q \in Reqs \ {r} : out'[q] = out[q]
    OBVIOUS
  <2>3. out' \in [Reqs -> Http!Body]
    BY <1>1 DEF OwnTypes
  <2>4. 0 \in Nat /\ "error" \in {"page", "error"}
    OBVIOUS
  <2>5. Turn(r) /\ at'[r] = "done" /\ wire'[r] = "error"
    BY <1>1, <1>3, <2>1, <2>2, <2>3, <2>4, Answering
  <2> QED
    BY <2>5 DEF LocalOf, Local, Idle, Early, Sending
<1> QED
  BY <1>2, <1>3

\* The first turn of writeResponse, for the body of the page that r has then.
LEMMA Responding ==
    ASSUME HttpInv, NEW r \in Reqs, at[r] \in {"render", "follow", "buffer"}, ~Http!Aborted(r),
           NEW class, NEW body \in Http!Body, Http!WriteResponse(r, class, body), kind' = kind,
           page'[r].class = class, class \in Http!Streams => Fits(body, page'[r])
    PROVE  /\ Turn(r) /\ LocalOf(r)' /\ at'[r] \in {"first", "done"}
           /\ class \in Http!Streams /\ kind[r] # "head" => out'[r] = body
<1>1. /\ OwnTypes /\ wire[r] = "open" /\ at[r] \in Early \ {"new"} /\ at[r] \notin Idle
      /\ sent[r] = 0 /\ LocalOf(r)
  BY Running DEF Early, Idle
<1>2. /\ out \in [Reqs -> Http!Body] /\ pos \in [Reqs -> Nat]
      /\ "error" \notin Http!Streams /\ "none" \notin Http!Streams
  BY <1>1 DEF OwnTypes, Http!Streams
<1>3. CASE class = "error" /\ Http!Fail(r) /\ UNCHANGED <<out, pos>>
  BY <1>1, <1>2, <1>3, Failing
<1>4. CASE /\ class = "none" \/ (class \in Http!Streams /\ kind[r] = "head")
           /\ Http!Put(r, "page", 0) /\ Http!Starts(r) /\ Http!Leave(r) /\ UNCHANGED <<out, pos>>
  <2>1. out' \in [Reqs -> Http!Body] /\ 0 \in Nat /\ "page" \in {"page", "error"}
    BY <1>2, <1>4
  <2>2. Turn(r) /\ at'[r] = "done" /\ wire'[r] = "page"
    BY <1>1, <1>4, <2>1, Answering
  <2>3. kind'[r] = "head" \/ page'[r].class \notin Http!Streams
    BY <1>2, <1>4
  <2>4. LocalOf(r)'
    BY <2>2, <2>3 DEF LocalOf, Local, Idle, Early, Sending
  <2> QED
    BY <1>2, <1>4, <2>2, <2>4
<1>5. CASE /\ class \in Http!Streams /\ kind[r] # "head"
           /\ out' = [out EXCEPT ![r] = body] /\ pos' = [pos EXCEPT ![r] = 0]
           /\ Http!Moves(r, "first") /\ Http!Silent
  <2>1. /\ out' \in [Reqs -> Http!Body] /\ pos' \in [Reqs -> Nat]
        /\ \A q \in Reqs \ {r} : out'[q] = out[q] /\ pos'[q] = pos[q]
        /\ out'[r] = body /\ pos'[r] = 0
        /\ "first" \in Http!Places \ Idle
    BY <1>2, <1>5 DEF Http!Places, Idle
  <2>2. /\ Turn(r) /\ at'[r] = "first" /\ FlagsOf(r)' = FlagsOf(r)
        /\ wire'[r] = wire[r] /\ sent'[r] = sent[r]
    BY <1>1, <1>5, <2>1, MovingSilently
  <2>3. body.reads >= 0
    BY DEF Http!Body
  <2>4. LocalOf(r)'
    BY <1>1, <1>5, <2>1, <2>2, <2>3 DEF LocalOf, Local, SentSoFar, Idle, Early, Sending
  <2> QED
    BY <2>1, <2>2, <2>4
<1> QED
  BY <1>3, <1>4, <1>5 DEF Http!WriteResponse

-----------------------------------------------------------------------------
(* The promise and the rendering.                                            *)

LEMMA Settled ==
    ASSUME HttpInv, NEW r \in Reqs, NEW value \in {"null", "shared"}, Http!Settle(r, value),
           promise[r] = "shared" => page'[r] = page[r]
    PROVE  /\ leader' = leader /\ DedupStep(r)
           /\ promise' \in [Reqs -> {"none", "pending", "null", "shared"}]
           /\ inflight' \in [Keys -> Reqs \cup {NoReq}]
           /\ \A q \in Reqs \ {r} : promise'[q] = promise[q]
           /\ promise'[r] = IF promise[r] = "pending" THEN value ELSE promise[r]
<1>1. OwnTypes
  BY Known
<1>2. CASE promise[r] = "pending"
  BY <1>1, <1>2 DEF Http!Settle, OwnTypes, DedupStep
<1>3. CASE promise[r] # "pending"
  BY <1>1, <1>3 DEF Http!Settle, Http!dedup, OwnTypes, DedupStep
<1> QED
  BY <1>2, <1>3

\* Nothing about the promise, the map, and what was rendered.
LEMMA Unsettled ==
    ASSUME HttpInv, NEW r \in Reqs, UNCHANGED <<leader, promise, inflight>>,
           promise[r] = "shared" => page'[r] = page[r]
    PROVE  /\ DedupStep(r)
           /\ promise' \in [Reqs -> {"none", "pending", "null", "shared"}]
           /\ inflight' \in [Keys -> Reqs \cup {NoReq}]
           /\ \A q \in Reqs \ {r} : promise'[q] = promise[q]
           /\ promise'[r] = promise[r]
BY Known DEF OwnTypes, DedupStep

LEMMA WholePage ==
    ASSUME NEW p \in Http!AllPages
    PROVE  Http!BodyOf(p) \in Http!Body /\ Fits(Http!BodyOf(p), p)
BY DEF Http!AllPages, Http!Body, Http!BodyOf, Fits

\* A rendering that is answered, but not by being collected, is nobody's
\* to share.
LEMMA RenderedRole ==
    ASSUME HttpInv, NEW r \in Reqs, at[r] = "render", at'[r] \in {"first", "done"},
           kind' = kind, key' = key, leader' = leader,
           \A q \in Reqs \ {r} : promise'[q] = promise[q],
           promise'[r] = IF promise[r] = "pending" THEN "null" ELSE promise[r]
    PROVE  RoleOf(r)'
<1>1. OwnTypes /\ RoleOf(r) /\ leader[r] \in Reqs \cup {NoReq}
  BY Known DEF OwnTypes
<1>2. promise'[r] \in {"none", "null"}
  BY <1>1 DEF RoleOf, OwnTypes, Sending
<1>3. leader[r] \notin {NoReq, r} => promise'[leader[r]] = "null"
  BY <1>1 DEF RoleOf
<1> QED
  BY <1>1, <1>2, <1>3 DEF RoleOf, Sending

LEMMA RespondKeeps ==
    ASSUME HttpInv, NEW r \in Reqs, NEW p \in Responses, Http!Respond(r, p)
    PROVE  HttpInv'
<1>1. /\ at[r] = "render" /\ at[r] \notin Idle /\ at[r] \in Early
      /\ page' = [page EXCEPT ![r] = p]
      /\ kind' = kind /\ key' = key /\ upload' = upload
  BY DEF Http!Respond, Http!asked, Idle, Early
<1>2. /\ p \in Http!AllPages /\ Http!BodyOf(p) \in Http!Body /\ Fits(Http!BodyOf(p), p)
  BY WholePage, HttpConstantsOK
<1>3. /\ OwnTypes /\ LocalOf(r) /\ RoleOf(r) /\ promise[r] # "shared"
      /\ sent[r] = 0 /\ pos[r] = 0
  BY <1>1, Running DEF RoleOf, Sending, LocalOf, Local
<1>4. /\ page' \in [Reqs -> Http!AllPages] /\ page'[r] = p
      /\ \A q \in Reqs \ {r} : page'[q] = page[q]
  BY <1>1, <1>2, <1>3 DEF OwnTypes
<1>5. CASE Http!Aborted(r) /\ Http!Settle(r, "null") /\ Http!Leave(r) /\ Http!Silent /\ UNCHANGED <<out, pos>>
  <2>1. Turn(r) /\ LocalOf(r)' /\ at'[r] = "done"
    BY <1>1, <1>5, LeavingSilently
  <2>2. /\ leader' = leader /\ DedupStep(r)
        /\ promise' \in [Reqs -> {"none", "pending", "null", "shared"}]
        /\ inflight' \in [Keys -> Reqs \cup {NoReq}]
        /\ \A q \in Reqs \ {r} : promise'[q] = promise[q]
        /\ promise'[r] = IF promise[r] = "pending" THEN "null" ELSE promise[r]
    BY <1>3, <1>5, Settled
  <2>3. RoleOf(r)'
    BY <1>1, <2>1, <2>2, RenderedRole
  <2> QED
    BY <1>1, <1>4, <2>1, <2>2, <2>3, TurnKeeps
<1>6. CASE /\ ~Http!Aborted(r) /\ promise[r] = "pending" /\ Http!Shareable(p)
           /\ out' = [out EXCEPT ![r] = Http!BodyOf(p)]
           /\ Http!Moves(r, "buffer") /\ Http!Silent /\ UNCHANGED <<leader, promise, inflight, pos>>
  <2>1. /\ out' \in [Reqs -> Http!Body] /\ pos' \in [Reqs -> Nat] /\ pos'[r] = pos[r]
        /\ \A q \in Reqs \ {r} : out'[q] = out[q] /\ pos'[q] = pos[q]
        /\ out'[r] = Http!BodyOf(p) /\ "buffer" \in Http!Places \ Idle
    BY <1>2, <1>3, <1>6 DEF OwnTypes, Http!Places, Idle
  <2>2. /\ Turn(r) /\ at'[r] = "buffer" /\ FlagsOf(r)' = FlagsOf(r)
        /\ wire'[r] = wire[r] /\ sent'[r] = sent[r]
    BY <1>1, <1>6, <2>1, MovingSilently
  <2>3. LocalOf(r)'
    <3>1. pos'[r] <= out'[r].reads
      BY <1>2, <1>3, <2>1 DEF Http!Body
    <3> QED
      BY <1>1, <1>3, <1>4, <1>6, <2>1, <2>2, <3>1
         DEF LocalOf, Local, Http!Shareable, Idle, Early, Sending
  <2>4. /\ DedupStep(r)
        /\ promise' \in [Reqs -> {"none", "pending", "null", "shared"}]
        /\ inflight' \in [Keys -> Reqs \cup {NoReq}]
        /\ \A q \in Reqs \ {r} : promise'[q] = promise[q]
        /\ promise'[r] = promise[r]
    BY <1>3, <1>6, Unsettled
  <2>5. RoleOf(r)'
    BY <1>1, <1>3, <1>6, <2>2 DEF RoleOf
  <2> QED
    BY <1>1, <1>4, <1>6, <2>2, <2>3, <2>4, <2>5, TurnKeeps
<1>7. CASE ~Http!Aborted(r) /\ Http!Settle(r, "null") /\ Http!WriteResponse(r, p.class, Http!BodyOf(p))
  <2>1. Turn(r) /\ LocalOf(r)' /\ at'[r] \in {"first", "done"}
    BY <1>1, <1>2, <1>4, <1>7, Responding
  <2>2. /\ leader' = leader /\ DedupStep(r)
        /\ promise' \in [Reqs -> {"none", "pending", "null", "shared"}]
        /\ inflight' \in [Keys -> Reqs \cup {NoReq}]
        /\ \A q \in Reqs \ {r} : promise'[q] = promise[q]
        /\ promise'[r] = IF promise[r] = "pending" THEN "null" ELSE promise[r]
    BY <1>3, <1>7, Settled
  <2>3. RoleOf(r)'
    BY <1>1, <2>1, <2>2, RenderedRole
  <2> QED
    BY <1>1, <1>4, <2>1, <2>2, <2>3, TurnKeeps
<1> QED
  BY <1>5, <1>6, <1>7 DEF Http!Respond, Http!dedup

LEMMA RespondThrowsKeeps ==
    ASSUME HttpInv, NEW r \in Reqs, Http!RespondThrows(r)
    PROVE  HttpInv'
<1>1. /\ at[r] = "render" /\ at[r] \notin Idle /\ at[r] \in Early \ {"new"}
      /\ kind' = kind /\ key' = key /\ upload' = upload
      /\ page' = page /\ out' = out /\ pos' = pos
      /\ Http!Settle(r, "null") /\ Http!Fail(r)
  BY DEF Http!RespondThrows, Http!asked, Http!render, Idle, Early
<1>2. OwnTypes
  BY Known
<1>3. Turn(r) /\ LocalOf(r)' /\ at'[r] = "done"
  BY <1>1, Failing
<1>4. /\ leader' = leader /\ DedupStep(r)
      /\ promise' \in [Reqs -> {"none", "pending", "null", "shared"}]
      /\ inflight' \in [Keys -> Reqs \cup {NoReq}]
      /\ \A q \in Reqs \ {r} : promise'[q] = promise[q]
      /\ promise'[r] = IF promise[r] = "pending" THEN "null" ELSE promise[r]
  BY <1>1, Settled
<1>5. RoleOf(r)'
  BY <1>1, <1>3, <1>4, RenderedRole
<1>6. page' \in [Reqs -> Http!AllPages] /\ \A q \in Reqs \ {r} : page'[q] = page[q]
  BY <1>1, <1>2 DEF OwnTypes
<1> QED
  BY <1>1, <1>3, <1>4, <1>5, <1>6, TurnKeeps

LEMMA ResumeKeeps ==
    ASSUME HttpInv, NEW r \in Reqs, Http!Resume(r)
    PROVE  HttpInv'
<1> DEFINE l == leader[r]
<1>1. /\ at[r] = "follow" /\ at[r] \notin Idle /\ promise[l] # "pending"
      /\ kind' = kind /\ key' = key /\ upload' = upload
      /\ leader' = leader /\ promise' = promise /\ inflight' = inflight
  BY DEF Http!Resume, Http!asked, Http!dedup, Idle
<1>2. /\ OwnTypes /\ LocalOf(r) /\ RoleOf(r) /\ pos[r] = 0
  BY <1>1, Running DEF LocalOf, Local
<1>3. /\ l \in Reqs /\ l # r /\ promise[r] = "none"
      /\ promise[l] # "none" /\ key[l] = key[r] /\ RoleOf(l)
  BY <1>1, <1>2, HttpSets DEF RoleOf, HttpInv, OwnTypes, Sending
<1> HIDE DEF l
<1>4. ASSUME page'[r] = page[r] \/ page'[r] = page[l],
             \A q \in Reqs \ {r} : page'[q] = page[q]
      PROVE  /\ DedupStep(r)
             /\ promise' \in [Reqs -> {"none", "pending", "null", "shared"}]
             /\ inflight' \in [Keys -> Reqs \cup {NoReq}]
             /\ \A q \in Reqs \ {r} : promise'[q] = promise[q]
  BY <1>1, <1>3, Unsettled
<1>5. CASE Http!Aborted(r) /\ Http!Leave(r) /\ Http!Silent /\ UNCHANGED <<page, out, pos>>
  <2>1. Turn(r) /\ LocalOf(r)' /\ at'[r] = "done" /\ wire'[r] = "aborted"
    BY <1>1, <1>5, LeavingSilently
  <2>2. RoleOf(r)'
    BY <1>1, <1>2, <1>3, <1>5, <2>1, HttpSets DEF RoleOf, Sending, l
  <2>3. page' \in [Reqs -> Http!AllPages] /\ \A q \in Reqs \ {r} : page'[q] = page[q]
    BY <1>2, <1>5 DEF OwnTypes
  <2> QED
    BY <1>1, <1>4, <1>5, <2>1, <2>2, <2>3, TurnKeeps
<1>6. CASE /\ ~Http!Aborted(r) /\ promise[l] = "shared"
           /\ Http!WriteResponse(r, "plain", out[l])
           /\ page' = [page EXCEPT ![r] = page[l]]
  <2>1. /\ page' \in [Reqs -> Http!AllPages] /\ page'[r] = page[l]
        /\ \A q \in Reqs \ {r} : page'[q] = page[q]
        /\ out[l] \in Http!Body
    BY <1>2, <1>3, <1>6 DEF OwnTypes
  <2>2. page'[r].class = "plain" /\ Fits(out[l], page'[r])
    BY <1>3, <1>6, <2>1 DEF RoleOf
  <2>3. Turn(r) /\ LocalOf(r)' /\ at'[r] \in {"first", "done"}
    BY <1>1, <1>6, <2>1, <2>2, Responding
  <2>4. RoleOf(r)'
    BY <1>1, <1>2, <1>3, <1>6, <2>1, <2>3, HttpSets DEF RoleOf, Sending, l
  <2> QED
    BY <1>1, <1>4, <2>1, <2>3, <2>4, TurnKeeps
<1>7. CASE /\ ~Http!Aborted(r) /\ promise[l] = "null"
           /\ Http!Moves(r, "render") /\ Http!Silent /\ UNCHANGED <<page, out, pos>>
  <2>1. /\ out' \in [Reqs -> Http!Body] /\ pos' \in [Reqs -> Nat]
        /\ \A q \in Reqs \ {r} : out'[q] = out[q] /\ pos'[q] = pos[q]
        /\ "render" \in Http!Places \ Idle
        /\ page' \in [Reqs -> Http!AllPages] /\ \A q \in Reqs \ {r} : page'[q] = page[q]
    BY <1>2, <1>7 DEF OwnTypes, Http!Places, Idle
  <2>2. /\ Turn(r) /\ at'[r] = "render" /\ FlagsOf(r)' = FlagsOf(r)
        /\ wire'[r] = wire[r] /\ sent'[r] = sent[r]
    BY <1>1, <1>7, <2>1, MovingSilently
  <2>3. LocalOf(r)'
    BY <1>1, <1>2, <1>7, <2>2 DEF LocalOf, Local, Idle, Early, Sending
  <2>4. RoleOf(r)'
    BY <1>1, <1>2, <1>3, <1>7, <2>2, HttpSets DEF RoleOf, l
  <2> QED
    BY <1>1, <1>4, <1>7, <2>1, <2>2, <2>3, <2>4, TurnKeeps
<1> QED
  BY <1>5, <1>6, <1>7 DEF Http!Resume, Http!render, l

-----------------------------------------------------------------------------
(* The body that a leader collects.                                          *)

LEMMA Collecting ==
    ASSUME HttpInv, NEW r \in Reqs, at[r] = "buffer"
    PROVE  /\ at[r] \notin Idle /\ at[r] \in Early \ {"new"}
           /\ promise[r] = "pending" /\ leader[r] = r /\ kind[r] = "get"
           /\ page[r] \in Http!AllPages /\ page[r].class = "plain" /\ out[r] = Http!BodyOf(page[r])
           /\ out[r] \in Http!Body /\ pos[r] \in Nat /\ pos[r] <= out[r].reads /\ sent[r] = 0
<1>1. OwnTypes /\ LocalOf(r) /\ RoleOf(r)
  BY Known
<1>2. at[r] \notin Idle /\ at[r] \in Early \ {"new"}
  BY DEF Idle, Early
<1> QED
  BY <1>1, <1>2 DEF LocalOf, Local, RoleOf, OwnTypes

LEMMA CollectedKeeps ==
    ASSUME HttpInv, NEW r \in Reqs, at[r] = "buffer", NEW value \in {"null", "shared"},
           Http!Settle(r, value), Turn(r), LocalOf(r)', at'[r] \in {"first", "done"},
           UNCHANGED <<kind, key, upload, page>>,
           value = "shared" => Fits(out'[r], page[r])
    PROVE  HttpInv'
<1>1. /\ promise[r] = "pending" /\ leader[r] = r /\ kind[r] = "get" /\ page[r].class = "plain"
  BY Collecting
<1>2. /\ leader' = leader /\ DedupStep(r)
      /\ promise' \in [Reqs -> {"none", "pending", "null", "shared"}]
      /\ inflight' \in [Keys -> Reqs \cup {NoReq}]
      /\ \A q \in Reqs \ {r} : promise'[q] = promise[q]
      /\ promise'[r] = value
  BY <1>1, Settled
<1>3. RoleOf(r)'
  BY <1>1, <1>2 DEF RoleOf, Sending
<1>4. page' \in [Reqs -> Http!AllPages] /\ \A q \in Reqs \ {r} : page'[q] = page[q]
  BY Known DEF OwnTypes
<1> QED
  BY <1>2, <1>3, <1>4, TurnKeeps

LEMMA StreamingKeeps ==
    ASSUME HttpInv, NEW r \in Reqs, at[r] = "buffer", ~Http!Aborted(r), Http!Streaming(r),
           UNCHANGED <<kind, key, upload, page>>
    PROVE  HttpInv'
<1>1. /\ page[r] \in Http!AllPages /\ page[r].class = "plain" /\ out[r] = Http!BodyOf(page[r])
      /\ out[r] \in Http!Body
  BY Collecting
<1>2. Fits(out[r], page[r])
  BY <1>1, WholePage
<1>3. Http!Settle(r, "null") /\ Http!WriteResponse(r, "plain", out[r])
  BY DEF Http!Streaming
<1>4. Turn(r) /\ LocalOf(r)' /\ at'[r] \in {"first", "done"}
  BY <1>1, <1>2, <1>3, Responding
<1> QED
  BY <1>3, <1>4, CollectedKeeps

LEMMA BufferPendingKeeps ==
    ASSUME HttpInv, NEW r \in Reqs, Http!BufferPending(r)
    PROVE  HttpInv'
BY StreamingKeeps DEF Http!BufferPending, Http!asked

LEMMA BufferReadKeeps ==
    ASSUME HttpInv, NEW r \in Reqs, Http!BufferRead(r)
    PROVE  HttpInv'
<1>1. at[r] = "buffer" /\ UNCHANGED <<kind, key, upload, page>>
  BY DEF Http!BufferRead, Http!asked
<1>2. /\ at[r] \notin Idle /\ at[r] \in Early \ {"new"} /\ kind[r] = "get"
      /\ page[r] \in Http!AllPages /\ page[r].class = "plain" /\ out[r] = Http!BodyOf(page[r])
      /\ out[r] \in Http!Body /\ pos[r] \in Nat /\ pos[r] <= out[r].reads /\ sent[r] = 0
      /\ OwnTypes /\ LocalOf(r) /\ RoleOf(r) /\ promise[r] = "pending"
  BY <1>1, Collecting, Known
<1>3. CASE Http!Aborted(r) /\ Http!Settle(r, "null") /\ Http!Leave(r) /\ Http!Silent /\ UNCHANGED <<out, pos>>
  <2>1. Turn(r) /\ LocalOf(r)' /\ at'[r] = "done"
    BY <1>1, <1>2, <1>3, LeavingSilently
  <2> QED
    BY <1>1, <1>3, <2>1, CollectedKeeps
<1>4. CASE /\ ~Http!Aborted(r) /\ pos[r] = out[r].reads /\ ~out[r].fails
           /\ Http!Settle(r, "shared") /\ Http!WriteResponse(r, "plain", Http!Whole(pos[r]))
  <2>1. Http!Whole(pos[r]) \in Http!Body
    BY <1>2 DEF Http!Whole, Http!Body
  <2>2. Fits(Http!Whole(pos[r]), page[r])
    <3>1. page[r].fails \in BOOLEAN
      BY <1>2 DEF Http!AllPages
    <3>2. out[r].fails = page[r].fails /\ out[r].reads = page[r].size
      BY <1>2 DEF Http!BodyOf
    <3>3. page[r].fails = FALSE
      BY <1>4, <3>1, <3>2, Zenon
    <3> QED
      BY <1>4, <3>2, <3>3 DEF Fits, Http!Whole
  <2>3. "plain" \in Http!Streams
    BY DEF Http!Streams
  <2>4. Turn(r) /\ LocalOf(r)' /\ at'[r] \in {"first", "done"} /\ out'[r] = Http!Whole(pos[r])
    BY <1>1, <1>2, <1>4, <2>1, <2>2, <2>3, Responding
  <2> QED
    BY <1>1, <1>4, <2>2, <2>4, CollectedKeeps
<1>5. CASE Http!Settle(r, "null") /\ Http!Fail(r) /\ UNCHANGED <<out, pos>>
  <2>1. Turn(r) /\ LocalOf(r)' /\ at'[r] = "done"
    BY <1>1, <1>2, <1>5, Failing
  <2> QED
    BY <1>1, <1>5, <2>1, CollectedKeeps
<1>6. CASE /\ pos[r] < out[r].reads /\ ~Http!Aborted(r)
           /\ pos' = [pos EXCEPT ![r] = @ + 1]
           /\ UNCHANGED <<at, out, leader, promise, inflight, wire, sent, misuse,
                          state, flags, pool, rendering, draining>>
  <2>1. /\ pos' \in [Reqs -> Nat] /\ pos'[r] = pos[r] + 1
        /\ \A q \in Reqs \ {r} : pos'[q] = pos[q]
    BY <1>2, <1>6 DEF OwnTypes
  <2>2. pos'[r] <= out[r].reads
    BY <1>2, <1>6, <2>1 DEF Http!Body
  <2>3. Turn(r)
    <3>1. PoolStep(r) /\ CountStep(r)
      BY <1>1, <1>2, <1>6 DEF PoolStep, Kept, CountStep, InProgress
    <3> QED
      BY <1>2, <1>6, <2>1, <3>1, Known DEF Turn, OwnTypes
  <2>4. LocalOf(r)'
    <3>1. FlagsOf(r)' = FlagsOf(r)
      BY <1>6 DEF FlagsOf
    <3> QED
      BY <1>1, <1>2, <1>6, <2>2, <3>1 DEF LocalOf, Local, Idle, Early, Sending
  <2>5. RoleOf(r)'
    BY <1>1, <1>2, <1>6 DEF RoleOf
  <2>6. DedupStep(r)
    BY <1>1, <1>6, Unsettled
  <2> QED
    BY <1>1, <1>2, <1>6, <2>3, <2>4, <2>5, <2>6, TurnKeeps DEF OwnTypes
<1>7. CASE ~Http!Aborted(r) /\ Http!Streaming(r)
  BY <1>1, <1>7, StreamingKeeps
<1> QED
  BY <1>3, <1>4, <1>5, <1>6, <1>7
     DEF Http!BufferRead, Http!Complete, Http!dedup, Http!response, Http!pooled

-----------------------------------------------------------------------------
(* The body that goes out.                                                   *)

\* A step of a handler that is past the dedup map.
LEMMA SendingKeeps ==
    ASSUME HttpInv, NEW r \in Reqs, at[r] \in Sending, at'[r] \in Sending \cup {"done"},
           Turn(r), LocalOf(r)', UNCHANGED <<kind, key, upload, leader, promise, inflight, page, out>>
    PROVE  HttpInv'
<1>1. OwnTypes /\ RoleOf(r)
  BY Known
<1>2. RoleOf(r)'
  BY <1>1 DEF RoleOf, Turn, Sending
<1>3. DedupStep(r)
  BY Unsettled
<1> QED
  BY <1>1, <1>2, <1>3, TurnKeeps DEF OwnTypes

LEMMA Reading ==
    ASSUME HttpInv, NEW r \in Reqs, at[r] \in Sending
    PROVE  /\ OwnTypes /\ PoolTypes /\ misuse = {} /\ LocalOf(r) /\ at[r] \notin Idle
           /\ page[r] \in Http!AllPages /\ out[r] \in Http!Body /\ pos[r] \in Nat /\ sent[r] \in Nat
           /\ Fits(out[r], page[r]) /\ SentSoFar(at[r], out[r], pos[r], sent[r])
           /\ at[r] \in {"first", "second"} => sent[r] = 0 /\ at[r] \in Early \ {"new"}
<1>1. at[r] \notin Idle /\ (at[r] \in {"first", "second"} => at[r] \in Early \ {"new"})
  BY DEF Idle, Early, Sending
<1> QED
  BY <1>1, Known DEF LocalOf, Local, OwnTypes

LEMMA ReadCancelledKeeps ==
    ASSUME HttpInv, NEW r \in Reqs, Http!ReadCancelled(r)
    PROVE  HttpInv'
<1>1. /\ at[r] \in Sending /\ Http!Aborted(r) /\ Http!Leave(r) /\ Http!Silent
      /\ UNCHANGED <<kind, key, upload, leader, promise, inflight, page, out, pos>>
  BY DEF Http!ReadCancelled, Sending, Http!asked, Http!dedup, Http!render
<1>2. Turn(r) /\ LocalOf(r)' /\ at'[r] = "done"
  BY <1>1, Reading, LeavingSilently
<1> QED
  BY <1>1, <1>2, SendingKeeps

LEMMA ReadEndKeeps ==
    ASSUME HttpInv, NEW r \in Reqs, Http!ReadEnd(r)
    PROVE  HttpInv'
<1> DEFINE n == IF at[r] = "second" THEN out[r].unit ELSE 0
<1>1. /\ at[r] \in {"first", "second", "stream"} /\ at[r] \in Sending
      /\ ~Http!Aborted(r) /\ Http!Over(r) /\ ~out[r].fails
      /\ Http!Put(r, "page", n) /\ Http!Starts(r) /\ Http!Leave(r)
      /\ UNCHANGED <<kind, key, upload, leader, promise, inflight, page, out, pos>>
  BY DEF Http!ReadEnd, Sending, Http!asked, Http!dedup, Http!render
<1>2. /\ OwnTypes /\ at[r] \notin Idle /\ page[r] \in Http!AllPages /\ out[r] \in Http!Body
      /\ pos[r] \in Nat /\ sent[r] \in Nat
      /\ Fits(out[r], page[r]) /\ SentSoFar(at[r], out[r], pos[r], sent[r])
      /\ at[r] \in {"first", "second"} => sent[r] = 0
  BY <1>1, Reading
<1>3. n \in Nat /\ "page" \in {"page", "error"} /\ out' \in [Reqs -> Http!Body]
  BY <1>1, <1>2 DEF Http!Body, OwnTypes
<1>4. sent[r] + n = page[r].size /\ ~page[r].fails
  <2>1. pos[r] = out[r].reads
    BY <1>1 DEF Http!Over
  <2>2. page[r].size \in Nat /\ out[r].unit \in Nat /\ out[r].reads \in Nat
    BY <1>2 DEF Http!AllPages, Http!Body
  <2> QED
    BY <1>1, <1>2, <2>1, <2>2 DEF Fits, SentSoFar
<1> HIDE DEF n
<1>5. Turn(r) /\ at'[r] = "done" /\ wire'[r] = "page" /\ sent'[r] = sent[r] + n
  BY <1>1, <1>2, <1>3, Answering
<1>6. LocalOf(r)'
  BY <1>1, <1>4, <1>5 DEF LocalOf, Local, Idle, Early, Sending
<1> QED
  BY <1>1, <1>5, <1>6, SendingKeeps

LEMMA ClosingKeeps ==
    ASSUME HttpInv, NEW r \in Reqs, at[r] \in Sending, ~Http!Aborted(r), Http!CloseByServer(r),
           UNCHANGED <<kind, key, upload, leader, promise, inflight, page, out, pos>>
    PROVE  HttpInv'
<1>1. /\ OwnTypes /\ PoolTypes /\ misuse = {} /\ at[r] \notin Idle /\ wire[r] = "open"
  BY Reading, Running
<1>2. /\ wire' = [wire EXCEPT ![r] = "closed"] /\ sent' = sent /\ misuse' = misuse
      /\ flags' = [flags EXCEPT ![state[r]].aborted = TRUE] /\ Http!Leave(r)
  BY DEF Http!CloseByServer
<1>3. /\ flags' \in [Http!Ids -> Http!Flags]
      /\ \A q \in Reqs \ {r} : state[q] # 0 => flags'[state[q]] = flags[state[q]]
  BY <1>1, <1>2, Marking
<1>4. /\ at' = [at EXCEPT ![r] = "done"] /\ at'[r] = "done"
      /\ state' = [state EXCEPT ![r] = 0]
      /\ PoolStep(r) /\ CountStep(r)
  BY <1>1, <1>2, Leaving
<1>5. Turn(r) /\ wire'[r] = "closed"
  BY <1>1, <1>2, <1>3, <1>4 DEF Turn, OwnTypes, PoolTypes, Http!Places
<1>6. LocalOf(r)'
  BY <1>4, <1>5 DEF LocalOf, Local, Idle, Early, Sending
<1> QED
  BY <1>4, <1>5, <1>6, SendingKeeps

LEMMA ReadErrorKeeps ==
    ASSUME HttpInv, NEW r \in Reqs, Http!ReadError(r)
    PROVE  HttpInv'
<1>1. /\ at[r] \in {"first", "second", "stream"} /\ at[r] \in Sending /\ ~Http!Aborted(r)
      /\ UNCHANGED <<kind, key, upload, leader, promise, inflight, page, out, pos>>
  BY DEF Http!ReadError, Sending, Http!asked, Http!dedup, Http!render
<1>2. CASE Http!CloseByServer(r)
  BY <1>1, <1>2, ClosingKeeps
<1>3. CASE at[r] # "stream" /\ Http!Fail(r)
  <2>1. Turn(r) /\ LocalOf(r)' /\ at'[r] = "done"
    BY <1>1, <1>3, Reading, Failing
  <2> QED
    BY <1>1, <2>1, SendingKeeps
<1> QED
  BY <1>2, <1>3 DEF Http!ReadError

LEMMA DrainTimeoutKeeps ==
    ASSUME HttpInv, NEW r \in Reqs, Http!DrainTimeout(r)
    PROVE  HttpInv'
<1>1. /\ at[r] \in Sending
      /\ UNCHANGED <<kind, key, upload, leader, promise, inflight, page, out, pos>>
  BY DEF Http!DrainTimeout, Sending, Http!asked, Http!dedup, Http!render
<1>2. CASE Http!Aborted(r) /\ Http!Silent /\ Http!Leave(r)
  <2>1. Turn(r) /\ LocalOf(r)' /\ at'[r] = "done"
    BY <1>1, <1>2, Reading, LeavingSilently
  <2> QED
    BY <1>1, <2>1, SendingKeeps
<1>3. CASE ~Http!Aborted(r) /\ Http!CloseByServer(r)
  BY <1>1, <1>3, ClosingKeeps
<1> QED
  BY <1>2, <1>3 DEF Http!DrainTimeout

LEMMA WritableKeeps ==
    ASSUME HttpInv, NEW r \in Reqs, Http!Writable(r)
    PROVE  HttpInv'
<1>1. /\ at[r] = "drain" /\ at[r] \in Sending
      /\ Http!Moves(r, "stream") /\ Http!Silent
      /\ UNCHANGED <<kind, key, upload, leader, promise, inflight, page, out, pos>>
  BY DEF Http!Writable, Sending, Http!asked, Http!dedup, Http!render
<1>2. /\ OwnTypes /\ LocalOf(r) /\ at[r] \notin Idle
      /\ Fits(out[r], page[r]) /\ SentSoFar(at[r], out[r], pos[r], sent[r])
  BY <1>1, Reading
<1>3. /\ out' \in [Reqs -> Http!Body] /\ pos' \in [Reqs -> Nat]
      /\ "stream" \in Http!Places \ Idle
  BY <1>1, <1>2 DEF OwnTypes, Http!Places, Idle
<1>4. /\ Turn(r) /\ at'[r] = "stream" /\ FlagsOf(r)' = FlagsOf(r)
      /\ wire'[r] = wire[r] /\ sent'[r] = sent[r]
  BY <1>1, <1>2, <1>3, MovingSilently
<1>5. LocalOf(r)'
  BY <1>1, <1>2, <1>4 DEF LocalOf, Local, SentSoFar, Idle, Early, Sending
<1>6. at'[r] \in Sending
  BY <1>4 DEF Sending
<1> QED
  BY <1>1, <1>4, <1>5, <1>6, SendingKeeps

\* A write into an open response, and the handler goes on.
LEMMA WritingKeeps ==
    ASSUME HttpInv, NEW r \in Reqs, at[r] \in {"second", "stream"}, ~Http!Aborted(r),
           NEW chunks \in Nat, Http!Write(r, chunks), flags' = flags \/ Http!Starts(r),
           NEW place \in {"stream", "drain"}, Http!Moves(r, place),
           pos' \in [Reqs -> Nat], \A q \in Reqs \ {r} : pos'[q] = pos[q],
           UNCHANGED <<kind, key, upload, leader, promise, inflight, page, out>>,
           SentSoFar(place, out[r], pos'[r], sent[r] + chunks)
    PROVE  HttpInv'
<1>1. /\ at[r] \in Sending /\ place \in Sending /\ place \in Http!Places \ Idle
  BY DEF Sending, Http!Places, Idle
<1>2. /\ OwnTypes /\ PoolTypes /\ misuse = {} /\ LocalOf(r) /\ at[r] \notin Idle
      /\ Fits(out[r], page[r]) /\ wire[r] = "open" /\ FlagsOf(r) = flags[state[r]]
      /\ state[r] # 0
  BY <1>1, Reading, Running
<1>3. /\ misuse' = {} /\ wire' = wire /\ sent' = [sent EXCEPT ![r] = @ + chunks]
  BY <1>2 DEF Http!Write
<1>4. /\ at' = [at EXCEPT ![r] = place] /\ at'[r] = place /\ state' = state
      /\ PoolStep(r) /\ CountStep(r)
  BY <1>1, <1>2, Moving
<1>5. /\ flags' \in [Http!Ids -> Http!Flags]
      /\ \A q \in Reqs \ {r} : state[q] # 0 => flags'[state[q]] = flags[state[q]]
      /\ flags'[state[r]].aborted = flags[state[r]].aborted
  BY <1>2, Marking DEF OwnTypes
<1>6. sent' \in [Reqs -> Nat] /\ sent'[r] = sent[r] + chunks /\ \A q \in Reqs \ {r} : sent'[q] = sent[q]
  BY <1>2, <1>3 DEF OwnTypes
<1>7. at' \in [Reqs -> Http!Places] /\ \A q \in Reqs \ {r} : at'[q] = at[q]
  BY <1>1, <1>2, <1>4 DEF OwnTypes
<1>8. Turn(r)
  BY <1>2, <1>3, <1>4, <1>5, <1>6, <1>7 DEF Turn, OwnTypes
<1>9. LocalOf(r)'
  <2>1. FlagsOf(r)'.aborted = FlagsOf(r).aborted
    BY <1>2, <1>4, <1>5 DEF FlagsOf
  <2>2. wire'[r] = wire[r] /\ place \notin Early
    BY <1>3 DEF Early
  <2> QED
    BY <1>1, <1>2, <1>4, <1>6, <2>1, <2>2 DEF LocalOf, Local, Idle
<1> QED
  BY <1>1, <1>4, <1>8, <1>9, SendingKeeps

LEMMA ReadChunkKeeps ==
    ASSUME HttpInv, NEW r \in Reqs, Http!ReadChunk(r)
    PROVE  HttpInv'
<1>1. /\ at[r] \in {"first", "second", "stream"} /\ at[r] \in Sending
      /\ ~Http!Aborted(r) /\ pos[r] # out[r].reads
      /\ pos' = [pos EXCEPT ![r] = @ + 1]
      /\ UNCHANGED <<kind, key, upload, leader, promise, inflight, page, out>>
  BY DEF Http!ReadChunk, Http!Over, Sending, Http!asked, Http!dedup
<1>2. /\ OwnTypes /\ LocalOf(r) /\ at[r] \notin Idle /\ out[r] \in Http!Body
      /\ pos[r] \in Nat /\ sent[r] \in Nat /\ page[r] \in Http!AllPages
      /\ Fits(out[r], page[r]) /\ SentSoFar(at[r], out[r], pos[r], sent[r])
      /\ at[r] \in {"first", "second"} => sent[r] = 0
  BY <1>1, Reading
<1>3. /\ out[r].reads \in Nat /\ out[r].unit \in Nat /\ pos[r] + 1 <= out[r].reads
      /\ out[r].unit # 1 => out[r].reads <= 1
  <2>1. out[r].reads \in Nat /\ out[r].unit \in Nat
    BY <1>2 DEF Http!Body
  <2> QED
    BY <1>1, <1>2, <2>1 DEF Fits, SentSoFar
<1>4. pos' \in [Reqs -> Nat] /\ pos'[r] = pos[r] + 1 /\ \A q \in Reqs \ {r} : pos'[q] = pos[q]
  BY <1>1, <1>2 DEF OwnTypes
<1>5. CASE at[r] = "first" /\ Http!Moves(r, "second") /\ Http!Silent
  <2>1. "second" \in Http!Places \ Idle /\ "second" \in Sending /\ out' \in [Reqs -> Http!Body]
    BY <1>1, <1>2 DEF Http!Places, Idle, Sending, OwnTypes
  <2>2. /\ Turn(r) /\ at'[r] = "second" /\ FlagsOf(r)' = FlagsOf(r)
        /\ wire'[r] = wire[r] /\ sent'[r] = sent[r]
    BY <1>1, <1>2, <1>4, <1>5, <2>1, MovingSilently
  <2>3. SentSoFar("second", out[r], pos[r] + 1, sent[r])
    BY <1>2, <1>3, <1>5 DEF SentSoFar
  <2>4. LocalOf(r)'
    BY <1>1, <1>2, <1>4, <1>5, <2>2, <2>3 DEF LocalOf, Local, Idle, Early, Sending
  <2> QED
    BY <1>1, <2>1, <2>2, <2>4, SendingKeeps
<1>6. CASE at[r] = "second" /\ Http!Write(r, 2 * out[r].unit) /\ Http!Starts(r) /\ Http!Moves(r, "stream")
  <2>1. 2 * out[r].unit \in Nat
    BY <1>3
  <2>2. SentSoFar("stream", out[r], pos'[r], sent[r] + 2 * out[r].unit)
    BY <1>2, <1>3, <1>4, <1>6 DEF SentSoFar
  <2> QED
    BY <1>1, <1>4, <1>6, <2>1, <2>2, WritingKeeps
<1>7. CASE /\ at[r] = "stream" /\ Http!Write(r, out[r].unit)
           /\ (Http!Moves(r, "stream") \/ Http!Moves(r, "drain")) /\ flags' = flags
  <2>1. /\ SentSoFar("stream", out[r], pos'[r], sent[r] + out[r].unit)
        /\ SentSoFar("drain", out[r], pos'[r], sent[r] + out[r].unit)
    BY <1>2, <1>3, <1>4, <1>7 DEF SentSoFar
  <2> QED
    BY <1>1, <1>3, <1>4, <1>7, <2>1, WritingKeeps
<1> QED
  BY <1>5, <1>6, <1>7 DEF Http!ReadChunk

LEMMA SecondPendingKeeps ==
    ASSUME HttpInv, NEW r \in Reqs, Http!SecondPending(r)
    PROVE  HttpInv'
<1>1. /\ at[r] = "second" /\ at[r] \in Sending /\ ~Http!Aborted(r)
      /\ Http!Write(r, out[r].unit) /\ Http!Starts(r) /\ Http!Moves(r, "stream")
      /\ UNCHANGED <<kind, key, upload, leader, promise, inflight, page, out, pos>>
  BY DEF Http!SecondPending, Sending, Http!asked, Http!dedup, Http!render
<1>2. /\ OwnTypes /\ out[r] \in Http!Body /\ sent[r] = 0
      /\ SentSoFar(at[r], out[r], pos[r], sent[r])
  BY <1>1, Reading
<1>3. /\ out[r].unit \in Nat /\ pos' \in [Reqs -> Nat]
      /\ SentSoFar("stream", out[r], pos'[r], sent[r] + out[r].unit)
  BY <1>1, <1>2 DEF SentSoFar, Http!Body, OwnTypes
<1> QED
  BY <1>1, <1>3, WritingKeeps

-----------------------------------------------------------------------------
(* The authenticate endpoint, and the theorem.                               *)

\* A step of the authenticate handler, whose request has no part in dedup.
LEMMA AuthStepKeeps ==
    ASSUME HttpInv, NEW r \in Reqs, at[r] \in {"auth", "authbody"}, at'[r] \in {"authbody", "done"},
           Turn(r), LocalOf(r)', UNCHANGED <<kind, key, upload, leader, promise, inflight>>,
           page' \in [Reqs -> Http!AllPages], \A q \in Reqs \ {r} : page'[q] = page[q]
    PROVE  HttpInv'
<1>1. OwnTypes /\ RoleOf(r)
  BY Known
<1>2. promise[r] = "none" /\ leader[r] = NoReq
  BY <1>1 DEF RoleOf, OwnTypes, Sending
<1>3. RoleOf(r)'
  BY <1>2, HttpSets DEF RoleOf
<1>4. DedupStep(r)
  BY <1>2, Unsettled
<1> QED
  BY <1>1, <1>3, <1>4, TurnKeeps DEF OwnTypes

LEMMA AuthSettlesKeeps ==
    ASSUME HttpInv, NEW r \in Reqs, Http!AuthSettles(r)
    PROVE  HttpInv'
<1>1. /\ at[r] = "auth" /\ at[r] \notin Idle /\ at[r] \in Early
      /\ UNCHANGED <<kind, key, upload, leader, promise, inflight, pos>>
  BY DEF Http!AuthSettles, Http!asked, Http!dedup, Idle, Early
<1>2. /\ OwnTypes /\ LocalOf(r) /\ sent[r] = 0 /\ page[r] = Http!NoPage
  BY <1>1, Running DEF LocalOf, Local
<1>3. CASE Http!Aborted(r) /\ Http!Leave(r) /\ Http!Silent /\ UNCHANGED <<page, out>>
  <2>1. Turn(r) /\ LocalOf(r)' /\ at'[r] = "done"
    BY <1>1, <1>3, LeavingSilently
  <2> QED
    BY <1>1, <1>2, <1>3, <2>1, AuthStepKeeps DEF OwnTypes
<1>4. CASE /\ ~Http!Aborted(r) /\ Http!Leave(r) /\ UNCHANGED <<flags, page, out>>
           /\ \E how \in {"page", "error"} : Http!Put(r, how, 0)
  <2>1. PICK how \in {"page", "error"} : Http!Put(r, how, 0)
    BY <1>4
  <2>2. Turn(r) /\ at'[r] = "done" /\ wire'[r] = how
    BY <1>1, <1>2, <1>4, <2>1, Answering DEF OwnTypes
  <2>3. page'[r].class \notin Http!Streams
    BY <1>2, <1>4 DEF Http!NoPage, Http!Streams
  <2>4. LocalOf(r)'
    BY <2>2, <2>3 DEF LocalOf, Local, Idle, Early, Sending
  <2> QED
    BY <1>1, <1>2, <1>4, <2>2, <2>4, AuthStepKeeps DEF OwnTypes
<1>5. CASE /\ ~Http!Aborted(r)
           /\ \E p \in {q \in Responses : q.class \in Http!Streams} :
                 page' = [page EXCEPT ![r] = p] /\ out' = [out EXCEPT ![r] = Http!BodyOf(p)]
           /\ Http!Moves(r, "authbody") /\ Http!Silent
  <2>1. PICK p \in Responses : /\ page' = [page EXCEPT ![r] = p]
                           /\ out' = [out EXCEPT ![r] = Http!BodyOf(p)]
    BY <1>5
  <2>2. p \in Http!AllPages /\ Http!BodyOf(p) \in Http!Body
    BY WholePage, HttpConstantsOK
  <2>3. /\ page' \in [Reqs -> Http!AllPages] /\ page'[r] = p
        /\ out' \in [Reqs -> Http!Body] /\ out'[r] = Http!BodyOf(p)
        /\ \A q \in Reqs \ {r} : page'[q] = page[q] /\ out'[q] = out[q]
        /\ pos' \in [Reqs -> Nat] /\ "authbody" \in Http!Places \ Idle
    BY <1>1, <1>2, <2>1, <2>2 DEF OwnTypes, Http!Places, Idle
  <2>4. /\ Turn(r) /\ at'[r] = "authbody" /\ FlagsOf(r)' = FlagsOf(r)
        /\ wire'[r] = wire[r] /\ sent'[r] = sent[r]
    BY <1>1, <1>5, <2>3, MovingSilently
  <2>5. LocalOf(r)'
    BY <1>1, <1>2, <2>3, <2>4 DEF LocalOf, Local, Idle, Early, Sending
  <2> QED
    BY <1>1, <2>3, <2>4, <2>5, AuthStepKeeps
<1> QED
  BY <1>3, <1>4, <1>5 DEF Http!AuthSettles

LEMMA AuthBodyKeeps ==
    ASSUME HttpInv, NEW r \in Reqs, Http!AuthBody(r)
    PROVE  HttpInv'
<1>1. /\ at[r] = "authbody" /\ at[r] \notin Idle /\ at[r] \in Early /\ Http!Leave(r)
      /\ UNCHANGED <<kind, key, upload, leader, promise, inflight, page, out, pos>>
  BY DEF Http!AuthBody, Http!asked, Http!dedup, Http!render, Idle, Early
<1>2. /\ OwnTypes /\ LocalOf(r) /\ sent[r] = 0 /\ out[r] = Http!BodyOf(page[r])
      /\ page[r] \in Http!AllPages
  BY <1>1, Running DEF LocalOf, Local, OwnTypes
<1>3. out[r].reads = page[r].size /\ out[r].fails = page[r].fails /\ page[r].size \in Nat
  BY <1>2 DEF Http!BodyOf, Http!AllPages
<1>4. Turn(r) /\ LocalOf(r)' /\ at'[r] = "done"
  <2>1. CASE Http!Aborted(r) /\ Http!Silent
    BY <1>1, <2>1, LeavingSilently
  <2>2. CASE ~Http!Aborted(r) /\ ~out[r].fails /\ Http!Put(r, "page", out[r].reads) /\ UNCHANGED flags
    <3>1. Turn(r) /\ at'[r] = "done" /\ wire'[r] = "page" /\ sent'[r] = sent[r] + out[r].reads
      BY <1>1, <1>2, <1>3, <2>2, Answering DEF OwnTypes
    <3>2. sent'[r] = page'[r].size /\ ~page'[r].fails
      BY <1>1, <1>2, <1>3, <2>2, <3>1
    <3> QED
      BY <3>1, <3>2 DEF LocalOf, Local, Idle, Early, Sending
  <2>3. CASE ~Http!Aborted(r) /\ Http!Put(r, "error", 0) /\ UNCHANGED flags
    <3>1. Turn(r) /\ at'[r] = "done" /\ wire'[r] = "error"
      BY <1>1, <1>2, <2>3, Answering DEF OwnTypes
    <3> QED
      BY <3>1 DEF LocalOf, Local, Idle, Early, Sending
  <2> QED
    BY <2>1, <2>2, <2>3 DEF Http!AuthBody
<1> QED
  BY <1>1, <1>2, <1>4, AuthStepKeeps DEF OwnTypes

LEMMA DrainKeepsHttp ==
    ASSUME HttpInv, Http!Drain
    PROVE  HttpInv'
<1>1. /\ rendering > 0 /\ draining' = TRUE
      /\ UNCHANGED <<kind, key, upload, at, leader, promise, inflight, page, out, pos, wire, sent,
                     misuse, state, flags, pool, rendering>>
  BY DEF Http!Drain, Http!asked, Http!dedup, Http!render, Http!response
<1>2. Http!TypeOK'
  BY <1>1 DEF HttpInv, Http!TypeOK
<1>3. PoolIsClean' /\ MapIsRight'
  BY <1>1 DEF HttpInv, PoolIsClean, MapIsRight
<1>4. CountIsRight'
  BY <1>1 DEF HttpInv, CountIsRight, InProgress
<1>5. \A q \in Reqs : LocalOf(q)' /\ RoleOf(q)'
  BY <1>1 DEF HttpInv, LocalOf, FlagsOf, RoleOf
<1> QED
  BY <1>1, <1>2, <1>3, <1>4, <1>5 DEF HttpInv

LEMMA HttpInitHolds == Http!Init => HttpInv
<1> SUFFICES ASSUME Http!Init PROVE HttpInv
  OBVIOUS
<1>1. Http!TypeOK
  <2>1. OwnTypes
    BY HttpSets DEF Http!Init, OwnTypes, Http!AllKinds, Http!Places, Http!Body
  <2>2. PoolTypes
    BY HttpSets, EmptySeq DEF Http!Init, PoolTypes
  <2> QED
    BY <2>1, <2>2, HttpTypes DEF Http!Init
<1>2. CountIsRight
  <2>1. InProgress = {}
    BY DEF Http!Init, InProgress
  <2> QED
    BY <2>1, FS_EmptySet DEF Http!Init, CountIsRight
<1>3. PoolIsClean
  BY DEF Http!Init, PoolIsClean, Idle
<1>4. MapIsRight
  BY DEF Http!Init, MapIsRight
<1>5. ASSUME NEW r \in Reqs PROVE LocalOf(r) /\ RoleOf(r)
  BY HttpSets DEF Http!Init, LocalOf, Local, FlagsOf, RoleOf, Idle, Early, Sending, Http!Fresh
<1> QED
  BY <1>1, <1>2, <1>3, <1>4, <1>5 DEF HttpInv, Http!Init

LEMMA HttpStepKeeps == HttpInv /\ [Http!Next]_httpVars => HttpInv'
<1> SUFFICES ASSUME HttpInv, [Http!Next]_httpVars PROVE HttpInv'
  OBVIOUS
<1>1. CASE UNCHANGED httpVars
  BY <1>1 DEF httpVars, HttpInv, Http!TypeOK, PoolIsClean, CountIsRight, InProgress, MapIsRight,
              LocalOf, FlagsOf, RoleOf
<1>2. CASE \E r \in Reqs : \E c \in Kinds[r] : Http!Arrive(r, c)
  BY <1>2, ArriveKeeps
<1>3. CASE \E r \in Reqs, p \in Responses : Http!Respond(r, p)
  BY <1>3, RespondKeeps
<1>4. CASE \E r \in Reqs : \/ Http!Refuse(r) \/ Http!Upload(r) \/ Http!Abort(r)
                           \/ Http!RespondThrows(r) \/ Http!Resume(r)
                           \/ Http!BufferRead(r) \/ Http!BufferPending(r)
  BY <1>4, RefuseKeeps, UploadKeeps, AbortKeepsHttp, RespondThrowsKeeps, ResumeKeeps,
     BufferReadKeeps, BufferPendingKeeps
<1>5. CASE \E r \in Reqs : \/ Http!ReadCancelled(r) \/ Http!ReadEnd(r) \/ Http!ReadError(r)
                           \/ Http!ReadChunk(r) \/ Http!SecondPending(r)
                           \/ Http!Writable(r) \/ Http!DrainTimeout(r)
  BY <1>5, ReadCancelledKeeps, ReadEndKeeps, ReadErrorKeeps, ReadChunkKeeps, SecondPendingKeeps,
     WritableKeeps, DrainTimeoutKeeps
<1>6. CASE \E r \in Reqs : Http!Authenticate(r) \/ Http!AuthSettles(r) \/ Http!AuthBody(r)
  BY <1>6, AuthenticateKeeps, AuthSettlesKeeps, AuthBodyKeeps
<1>7. CASE Http!Drain
  BY <1>7, DrainKeepsHttp
<1> QED
  BY <1>1, <1>2, <1>3, <1>4, <1>5, <1>6, <1>7 DEF Http!Next

LEMMA HttpInvIsEnough == HttpInv => HttpIsSound
<1> SUFFICES ASSUME HttpInv PROVE HttpIsSound
  OBVIOUS
<1>1. OwnTypes /\ PoolTypes /\ \A r \in Reqs : LocalOf(r) /\ RoleOf(r)
  BY HttpTypes DEF HttpInv
<1>2. Http!HttpBooks
  <2>1. rendering = Http!Cardinality({r \in Reqs : at[r] \notin {"new", "done"} /\ kind[r] # "auth"})
    BY HttpSets DEF HttpInv, CountIsRight, InProgress
  <2>2. ASSUME NEW r \in Reqs PROVE promise[r] = "pending" <=> inflight[key[r]] = r
    BY <1>1, HttpSets DEF HttpInv, MapIsRight, OwnTypes
  <2>3. ASSUME NEW k \in Keys, inflight[k] # NoReq
        PROVE  key[inflight[k]] = k /\ at[inflight[k]] \in {"render", "buffer"}
    BY <1>1, <2>3 DEF HttpInv, MapIsRight, OwnTypes, RoleOf
  <2> QED
    BY <2>1, <2>2, <2>3 DEF HttpInv, CountIsRight, Http!HttpBooks
<1>3. Http!OneAnswer
  <2>1. \A r \in Reqs : wire[r] = "open" => at[r] # "done" /\ state[r] # 0
    BY <1>1 DEF LocalOf, Local, Idle, HttpInv, PoolIsClean
  <2> QED
    BY <2>1 DEF HttpInv, PoolIsClean, Http!OneAnswer
<1>4. Http!WholeBody
  <2> SUFFICES ASSUME NEW r \in Reqs, wire[r] = "page", kind[r] # "head", page[r].class \in Http!Streams
               PROVE  /\ sent[r] = page[r].size /\ ~page[r].fails
                      /\ promise[r] = "none" /\ leader[r] # NoReq /\ promise[leader[r]] = "shared" =>
                            kind[leader[r]] = "get" /\ page[r].class = "plain" /\ key[r] = key[leader[r]]
    BY DEF Http!WholeBody
  <2>1. at[r] = "done"
    BY <1>1 DEF LocalOf, Local, Idle
  <2>2. sent[r] = page[r].size /\ ~page[r].fails
    BY <1>1, <2>1 DEF LocalOf, Local
  <2>3. ASSUME promise[r] = "none", leader[r] # NoReq, promise[leader[r]] = "shared"
        PROVE  kind[leader[r]] = "get" /\ page[r].class = "plain" /\ key[r] = key[leader[r]]
    <3>1. leader[r] \in Reqs /\ leader[r] # r
      BY <1>1, <2>3 DEF OwnTypes
    <3>2. RoleOf(r) /\ RoleOf(leader[r])
      BY <1>1, <3>1
    <3> QED
      BY <2>1, <2>3, <3>1, <3>2 DEF RoleOf
  <2> QED
    BY <2>2, <2>3
<1> QED
  BY <1>2, <1>3, <1>4 DEF HttpIsSound

\* handleRequest, handleSSR and writeResponse (handler.js): the counter a
\* shutdown waits on and the dedup map agree with the handlers, no response is
\* answered twice or touched after its client went, no state object has two
\* owners, and a response that ends cleanly has one whole body, shared only by
\* anonymous GETs of one key.
THEOREM HttpSoundness == PartsSpec => []HttpIsSound
<1>1. PartsInit => HttpInv
  BY HttpInitHolds DEF PartsInit
<1>2. HttpInv /\ [PartsNext]_<<part, vars, httpVars, fileVars, originVars, rateVars>> => HttpInv'
  <2> SUFFICES ASSUME HttpInv, [PartsNext]_<<part, vars, httpVars, fileVars, originVars, rateVars>>
               PROVE  HttpInv'
    OBVIOUS
  <2>1. [Http!Next]_httpVars
    BY DEF PartsNext
  <2> QED
    BY <2>1, HttpStepKeeps
<1>3. HttpInv => HttpIsSound
  BY HttpInvIsEnough
<1> QED
  BY <1>1, <1>2, <1>3, PTL DEF PartsSpec

-----------------------------------------------------------------------------
(* The limit on upgrades per address.                                        *)

\* What the address was granted up to and at tick t, which may lie before the start.
Upto(t) == IF t < 0 THEN 0 ELSE granted[t]

\* The history never goes back.
HistoryGrows == \A s, t \in 0..tick : s <= t => granted[s] <= granted[t]

\* What an entry counts was granted, in its own window and in the two before it.
CountsNoMore(e) ==
    /\ e.curr <= granted[tick] - Upto(e.windowStart - 1)
    /\ e.prev <= Upto(e.windowStart - 1) - Upto(e.windowStart - 2 * Window)

\* What was granted is counted: since the window began, and in a stretch of less
\* than a window before it.
CountsNoLess(e) ==
    /\ granted[tick] - Upto(e.windowStart - 1) <= e.curr
    /\ \A s \in -1..(e.windowStart - 1) : s >= e.windowStart - Window =>
          Upto(e.windowStart - 1) - Upto(s) <= e.prev

\* Nothing was granted after the window of the entry.
QuietSince(e) == \A t \in 0..tick : t >= e.windowStart + Window - 1 => granted[t] = granted[tick]

\* An entry that was not evicted tells the truth, and one that is not there had
\* nothing left to tell.
UpgradeRateInv ==
    /\ Rate!UpgradeRateTypeOK
    /\ HistoryGrows
    /\ known \/ evicted = 0 => CountsNoMore(entry) /\ QuietSince(entry)
    /\ evicted = 0 => CountsNoLess(entry)
    /\ evicted = 0 /\ ~known => granted[tick] = 0 \/ tick - entry.windowStart >= 2 * Window
    /\ Rate!RateIsLimited

LEMMA RateNumbers ==
    ASSUME Rate!UpgradeRateTypeOK
    PROVE  /\ tick \in Nat /\ tick \in Rate!Ticks /\ evicted \in Nat
           /\ 0..tick \subseteq Rate!Ticks /\ granted \in [Rate!Ticks -> Nat]
           /\ entry \in [prev: 0..PerWindow, curr: 0..PerWindow, windowStart: 0..tick]
           /\ PerWindow \in Nat \ {0} /\ Window \in Nat \ {0}
BY RateConstantsOK DEF Rate!UpgradeRateTypeOK, Rate!Ticks

\* The history as a count up to any moment.
LEMMA UptoGrows ==
    ASSUME Rate!UpgradeRateTypeOK, HistoryGrows
    PROVE  /\ \A t \in Int : t <= tick => Upto(t) \in Nat
           /\ \A s, t \in Int : s <= t /\ t <= tick => Upto(s) <= Upto(t)
           /\ Upto(tick) = granted[tick]
<1>1. ASSUME NEW t \in Int, t <= tick, t >= 0 PROVE t \in 0..tick /\ granted[t] \in Nat
  BY <1>1, RateNumbers
<1>2. \A t \in Int : t <= tick => Upto(t) \in Nat
  BY <1>1 DEF Upto
<1>3. ASSUME NEW s \in Int, NEW t \in Int, s <= t, t <= tick PROVE Upto(s) <= Upto(t)
  <2>1. CASE s < 0
    BY <1>2, <1>3, <2>1, RateNumbers DEF Upto
  <2>2. CASE s >= 0
    <3>1. s \in 0..tick /\ t \in 0..tick
      BY <1>1, <1>3, <2>2, RateNumbers
    <3> QED
      BY <1>3, <2>2, <3>1 DEF Upto, HistoryGrows
  <2> QED
    BY <1>3, <2>1, <2>2
<1>4. Upto(tick) = granted[tick]
  BY RateNumbers DEF Upto
<1> QED
  BY <1>2, <1>3, <1>4

\* The entry an upgrade request finds: of this window, and as true as the last one.
LEMMA RotatedIsRight ==
    ASSUME UpgradeRateInv
    PROVE  /\ Rate!Rotated \in [prev: 0..PerWindow, curr: 0..PerWindow, windowStart: 0..tick]
           /\ tick - Rate!Rotated.windowStart \in 0..(Window - 1)
           /\ CountsNoMore(Rate!Rotated)
           /\ evicted = 0 => CountsNoLess(Rate!Rotated)
<1> DEFINE elapsed == tick - entry.windowStart
           fresh == [prev |-> 0, curr |-> 0, windowStart |-> tick]
<1>1. Rate!UpgradeRateTypeOK /\ HistoryGrows
  BY DEF UpgradeRateInv
<1>2. /\ tick \in Nat /\ PerWindow \in Nat \ {0} /\ Window \in Nat \ {0}
      /\ entry \in [prev: 0..PerWindow, curr: 0..PerWindow, windowStart: 0..tick]
  BY <1>1, RateNumbers
<1>3. /\ \A t \in Int : t <= tick => Upto(t) \in Nat
      /\ \A s, t \in Int : s <= t /\ t <= tick => Upto(s) <= Upto(t)
      /\ Upto(tick) = granted[tick]
  BY <1>1, UptoGrows
<1>4. Upto(tick) \in Nat /\ Upto(tick - 1) \in Nat /\ Upto(tick - 1) <= Upto(tick)
  BY <1>2, <1>3
\* In a quiet time the count stands still.
<1>5. ASSUME QuietSince(entry), NEW s \in -1..(tick - 1), s >= entry.windowStart + Window - 1
      PROVE  Upto(s) = Upto(tick)
  <2>1. s \in 0..tick
    BY <1>2, <1>5
  <2> QED
    BY <1>2, <1>3, <1>5, <2>1 DEF QuietSince, Upto
<1>6. CASE ~known \/ elapsed >= 2 * Window
  <2>1. Rate!Rotated = fresh
    BY <1>6 DEF Rate!Rotated, Rate!Fresh
  <2>2. CountsNoMore(fresh)
    <3>1. Upto(tick - 2 * Window) <= Upto(tick - 1) /\ Upto(tick - 2 * Window) \in Nat
      BY <1>2, <1>3
    <3> QED
      BY <1>2, <1>3, <1>4, <3>1 DEF CountsNoMore
  <2>3. ASSUME evicted = 0 PROVE CountsNoLess(fresh)
    <3>1. ASSUME NEW s \in -1..(tick - 1), s >= tick - Window PROVE Upto(s) = Upto(tick)
      <4>1. CASE elapsed >= 2 * Window
        <5>1. QuietSince(entry) /\ s >= entry.windowStart + Window - 1
          BY <1>2, <2>3, <3>1, <4>1 DEF UpgradeRateInv
        <5> QED
          BY <1>5, <5>1
      <4>2. CASE ~(elapsed >= 2 * Window)
        <5>1. granted[tick] = 0
          BY <1>6, <2>3, <4>2 DEF UpgradeRateInv
        <5>2. Upto(s) \in Nat /\ Upto(s) <= Upto(tick)
          BY <1>2, <1>3
        <5> QED
          BY <1>3, <5>1, <5>2
      <4> QED
        BY <4>1, <4>2
    <3>2. Upto(tick - 1) = Upto(tick)
      BY <1>2, <3>1
    <3> QED
      BY <1>3, <1>4, <3>1, <3>2 DEF CountsNoLess
  <2> QED
    BY <1>2, <2>1, <2>2, <2>3
<1>7. CASE known /\ elapsed < 2 * Window /\ elapsed >= Window
  <2> DEFINE e == [prev |-> entry.curr, curr |-> 0, windowStart |-> tick]
  <2>1. Rate!Rotated = e
    BY <1>2, <1>7 DEF Rate!Rotated, Rate!Fresh
  <2>2. CountsNoMore(entry) /\ QuietSince(entry)
    BY <1>7 DEF UpgradeRateInv
  <2>3. Upto(tick - 1) = Upto(tick)
    BY <1>2, <1>5, <1>7, <2>2
  <2>4. Upto(tick - 2 * Window) <= Upto(entry.windowStart - 1)
        /\ Upto(tick - 2 * Window) \in Nat /\ Upto(entry.windowStart - 1) \in Nat
    BY <1>2, <1>3, <1>7
  <2>5. CountsNoMore(e)
    BY <1>2, <1>3, <1>4, <2>2, <2>3, <2>4 DEF CountsNoMore
  <2>6. ASSUME evicted = 0 PROVE CountsNoLess(e)
    <3>1. Upto(tick) - Upto(entry.windowStart - 1) <= entry.curr
      BY <1>3, <2>6 DEF UpgradeRateInv, CountsNoLess
    <3>2. ASSUME NEW s \in -1..(tick - 1), s >= tick - Window
          PROVE  Upto(tick - 1) - Upto(s) <= entry.curr
      <4>1. Upto(entry.windowStart - 1) <= Upto(s) /\ Upto(s) \in Nat
        BY <1>2, <1>3, <1>7, <3>2
      <4> QED
        BY <1>2, <1>4, <2>3, <2>4, <3>1, <4>1
    <3> QED
      BY <1>3, <1>4, <2>3, <3>2 DEF CountsNoLess
  <2> QED
    BY <1>2, <2>1, <2>5, <2>6
<1>8. CASE known /\ elapsed < Window
  <2>1. Rate!Rotated = entry
    BY <1>2, <1>8 DEF Rate!Rotated
  <2>2. elapsed \in 0..(Window - 1)
    BY <1>2, <1>8
  <2> QED
    BY <1>2, <1>8, <2>1, <2>2 DEF UpgradeRateInv
<1> QED
  BY <1>2, <1>6, <1>7, <1>8

\* A window that is full leaves no estimate below the limit.
LEMMA NotFull ==
    ASSUME NEW P \in Nat, NEW W \in Nat \ {0}, NEW p \in Nat, NEW c \in Nat, NEW d \in 0..(W - 1),
           p * (W - d) + c * W < P * W
    PROVE  c < P
<1>1. p * (W - d) \in Nat
  OBVIOUS
<1>2. SUFFICES ASSUME c >= P PROVE FALSE
  OBVIOUS
<1>3. PICK x \in Nat : c = P + x
  <2>1. c - P \in Nat /\ c = P + (c - P)
    BY <1>2
  <2> QED
    BY <2>1
<1>4. c * W = P * W + x * W /\ x * W \in Nat /\ P * W \in Nat
  BY <1>3
<1> QED
  BY <1>1, <1>4

\* While the estimate is below the limit, one more upgrade keeps a stretch over two
\* windows within what NotDoubled says.
LEMMA StretchBound ==
    ASSUME NEW P \in Nat, NEW W \in Nat \ {0}, NEW p \in 0..P, NEW c \in Nat, NEW d \in 0..(W - 1),
           NEW l \in Nat, d <= l, p * (W - d) + c * W < P * W, NEW g \in Int, g <= p + c + 1
    PROVE  g * W < (P + 1) * W + P * l
<1>1. PICK x \in Nat : l = d + x
  <2>1. l - d \in Nat /\ l = d + (l - d)
    OBVIOUS
  <2> QED
    BY <2>1
<1>2. PICK y \in Nat : P = p + y
  <2>1. P - p \in Nat /\ P = p + (P - p)
    OBVIOUS
  <2> QED
    BY <2>1
<1>3. PICK z \in Nat : p + c + 1 = g + z
  <2>1. p + c + 1 - g \in Nat /\ p + c + 1 = g + (p + c + 1 - g)
    OBVIOUS
  <2> QED
    BY <2>1
<1>4. /\ (p + c + 1) * W = p * W + c * W + W
      /\ (g + z) * W = g * W + z * W
      /\ z * W \in Nat /\ g * W \in Int /\ p * W \in Nat /\ c * W \in Nat
  BY <1>3
<1>5. g * W <= p * W + c * W + W
  BY <1>3, <1>4
<1>6. p * (W - d) = p * W - p * d /\ p * d \in Nat
  OBVIOUS
<1>7. P * l = p * d + y * d + P * x /\ y * d \in Nat /\ P * x \in Nat
  <2>1. P * l = P * d + P * x
    BY <1>1
  <2>2. P * d = p * d + y * d
    BY <1>2
  <2> QED
    BY <2>1, <2>2
<1>8. (P + 1) * W = P * W + W /\ P * W \in Nat
  OBVIOUS
<1> QED
  BY <1>4, <1>5, <1>6, <1>7, <1>8

\* So does the limit itself, for a stretch inside one window.
LEMMA ShortStretch ==
    ASSUME NEW P \in Nat, NEW W \in Nat \ {0}, NEW g \in Int, g <= P, NEW l \in Nat
    PROVE  g * W < (P + 1) * W + P * l
<1>1. PICK x \in Nat : P = g + x
  <2>1. P - g \in Nat /\ P = g + (P - g)
    OBVIOUS
  <2> QED
    BY <2>1
<1>2. P * W = g * W + x * W /\ x * W \in Nat /\ g * W \in Int /\ P * l \in Nat
  BY <1>1
<1>3. (P + 1) * W = P * W + W
  OBVIOUS
<1> QED
  BY <1>2, <1>3

\* Less than the limit, in the two windows, does not reach it.
LEMMA ReasonBound ==
    ASSUME NEW P \in Nat, NEW W \in Nat \ {0}, NEW p \in Nat, NEW c \in Nat, NEW d \in 0..(W - 1),
           p * (W - d) + c * W >= P * W
    PROVE  p + c >= P
<1>1. p * (W - d) = p * W - p * d /\ p * d \in Nat /\ p * W \in Nat /\ c * W \in Nat /\ P * W \in Nat
  OBVIOUS
<1>2. (p + c) * W = p * W + c * W
  OBVIOUS
<1>3. (p + c) * W >= P * W
  BY <1>1, <1>2
<1>4. SUFFICES ASSUME p + c < P PROVE FALSE
  OBVIOUS
<1>5. PICK x \in Nat : P = p + c + 1 + x
  <2>1. P - (p + c + 1) \in Nat /\ P = p + c + 1 + (P - (p + c + 1))
    BY <1>4
  <2> QED
    BY <2>1
<1>6. P * W = (p + c) * W + W + x * W /\ x * W \in Nat
  BY <1>5
<1> QED
  BY <1>2, <1>3, <1>6, <1>1

\* An upgrade request is judged by the entry it finds, and leaves one as true.
LEMMA AskKeeps ==
    ASSUME UpgradeRateInv, Rate!Ask
    PROVE  UpgradeRateInv'
<1> DEFINE e == Rate!Rotated
           age == tick - e.windowStart
           granting == Rate!Estimate(e) < PerWindow * Window
<1>1. Rate!UpgradeRateTypeOK /\ HistoryGrows
  BY DEF UpgradeRateInv
<1>2. /\ tick \in Nat /\ tick \in Rate!Ticks /\ evicted \in Nat /\ 0..tick \subseteq Rate!Ticks
      /\ PerWindow \in Nat \ {0} /\ Window \in Nat \ {0} /\ granted \in [Rate!Ticks -> Nat]
  BY <1>1, RateNumbers
<1>3. /\ \A t \in Int : t <= tick => Upto(t) \in Nat
      /\ \A s, t \in Int : s <= t /\ t <= tick => Upto(s) <= Upto(t)
      /\ Upto(tick) = granted[tick] /\ granted[tick] \in Nat
  BY <1>1, <1>2, UptoGrows
<1>4. /\ e \in [prev: 0..PerWindow, curr: 0..PerWindow, windowStart: 0..tick]
      /\ age \in 0..(Window - 1) /\ CountsNoMore(e) /\ (evicted = 0 => CountsNoLess(e))
  BY RotatedIsRight
<1> HIDE DEF e
<1>5. /\ e.prev \in 0..PerWindow /\ e.curr \in 0..PerWindow /\ e.windowStart \in 0..tick
      /\ e.prev * (Window - age) \in Int /\ e.curr * Window \in Int /\ PerWindow * Window \in Int
  BY <1>2, <1>4
<1>6. known' = TRUE /\ tick' = tick /\ evicted' = evicted
  BY DEF Rate!Ask
<1>7. CASE ~granting
  <2>1. verdict' = "refused" /\ entry' = e /\ granted' = granted
    BY <1>5, <1>7 DEF Rate!Ask, Rate!Estimate, e
  <2>2. Rate!UpgradeRateTypeOK'
    BY <1>1, <1>4, <1>6, <2>1 DEF Rate!UpgradeRateTypeOK, Rate!Ticks
  <2>3. /\ CountsNoMore(entry)' /\ (evicted = 0 => CountsNoLess(entry)') /\ HistoryGrows'
    BY <1>1, <1>4, <1>6, <2>1 DEF CountsNoMore, CountsNoLess, HistoryGrows, Upto
  <2>4. QuietSince(entry)'
    BY <1>2, <1>4, <1>5, <1>6, <2>1 DEF QuietSince
  <2>5. Rate!NotDoubled'
    BY <1>6, <2>1 DEF UpgradeRateInv, Rate!RateIsLimited, Rate!NotDoubled, Rate!GrantedIn
  <2>6. Rate!RefusedWithReason'
    <3>1. e.prev + e.curr >= PerWindow
      <4>1. e.prev * (Window - age) + e.curr * Window >= PerWindow * Window
        BY <1>5, <1>7 DEF Rate!Estimate
      <4> QED
        BY <1>2, <1>4, <1>5, <4>1, ReasonBound
    <3>2. granted[tick] - Upto(e.windowStart - 2 * Window) >= PerWindow
      <4>1. /\ Upto(e.windowStart - 1) \in Nat /\ Upto(e.windowStart - 2 * Window) \in Nat
        BY <1>2, <1>3, <1>5
      <4> QED
        BY <1>2, <1>3, <1>4, <1>5, <3>1, <4>1 DEF CountsNoMore
    <3>3. Upto(tick - 3 * Window) <= Upto(e.windowStart - 2 * Window)
          /\ Upto(tick - 3 * Window) \in Nat /\ Upto(e.windowStart - 2 * Window) \in Nat
      BY <1>2, <1>3, <1>4, <1>5
    <3>4. granted[tick] - Upto(tick - 3 * Window) >= PerWindow
      BY <1>2, <1>3, <3>2, <3>3
    <3>5. Rate!GrantedIn(tick - 3 * Window + 1, tick) = granted[tick] - Upto(tick - 3 * Window)
      BY <1>2 DEF Rate!GrantedIn, Upto
    <3> QED
      BY <1>6, <2>1, <3>4, <3>5 DEF Rate!RefusedWithReason, Rate!GrantedIn
  <2> QED
    BY <1>6, <2>2, <2>3, <2>4, <2>5, <2>6 DEF UpgradeRateInv, Rate!RateIsLimited
<1>8. CASE granting
  <2>1. /\ verdict' = "granted" /\ entry' = [e EXCEPT !.curr = @ + 1]
        /\ granted' = [granted EXCEPT ![tick] = @ + 1]
    BY <1>5, <1>8 DEF Rate!Ask, Rate!Estimate, e
  <2>2. e.prev * (Window - age) + e.curr * Window < PerWindow * Window
    BY <1>8 DEF Rate!Estimate
  <2>3. e.curr < PerWindow
    BY <1>2, <1>4, <1>5, <2>2, NotFull
  <2>4. /\ entry' \in [prev: 0..PerWindow, curr: 0..PerWindow, windowStart: 0..tick]
        /\ entry'.prev = e.prev /\ entry'.curr = e.curr + 1 /\ entry'.windowStart = e.windowStart
    BY <1>2, <1>4, <1>5, <2>1, <2>3
  <2>5. /\ granted' \in [Rate!Ticks -> Nat] /\ granted'[tick] = granted[tick] + 1
        /\ \A t \in Rate!Ticks : t # tick => granted'[t] = granted[t]
    BY <1>2, <1>3, <2>1
  <2>6. Rate!UpgradeRateTypeOK'
    BY <1>1, <1>6, <2>1, <2>4, <2>5 DEF Rate!UpgradeRateTypeOK, Rate!Ticks
  <2>7. ASSUME NEW t \in Int, t < tick PROVE Upto(t)' = Upto(t)
    BY <1>2, <2>5, <2>7 DEF Upto
  <2>8. HistoryGrows'
    <3> SUFFICES ASSUME NEW s \in 0..tick, NEW t \in 0..tick, s <= t PROVE granted'[s] <= granted'[t]
      BY <1>6 DEF HistoryGrows
    <3>1. granted[s] <= granted[t] /\ granted[s] \in Nat /\ granted[t] \in Nat
      BY <1>1, <1>2 DEF HistoryGrows
    <3>2. CASE t = tick
      BY <1>2, <2>5, <3>1, <3>2
    <3>3. CASE t # tick
      BY <1>2, <2>5, <3>1, <3>3
    <3> QED
      BY <3>2, <3>3
  <2>9. PICK start \in 0..tick : start = e.windowStart
    BY <1>5
  <2>10. /\ Upto(start - 1)' = Upto(start - 1)
        /\ Upto(start - 2 * Window)' = Upto(start - 2 * Window)
        /\ Upto(start - 1) \in Nat /\ Upto(start - 2 * Window) \in Nat
    <3>1. start - 1 \in Int /\ start - 1 < tick /\ start - 2 * Window \in Int /\ start - 2 * Window < tick
      BY <1>2
    <3> QED
      BY <1>2, <1>3, <2>7, <3>1
  <2>11. CountsNoMore(entry)'
    <3>1. /\ e.curr + 1 <= granted'[tick] - Upto(start - 1)'
          /\ e.prev <= Upto(start - 1)' - Upto(start - 2 * Window)'
      BY <1>3, <1>4, <1>5, <2>9, <2>5, <2>10 DEF CountsNoMore
    <3> QED
      BY <1>6, <2>9, <2>4, <3>1 DEF CountsNoMore, Upto
  <2>12. QuietSince(entry)'
    BY <1>2, <1>4, <1>5, <1>6, <2>4 DEF QuietSince
  <2>13. ASSUME evicted = 0 PROVE CountsNoLess(entry)'
    <3>1. granted'[tick] - Upto(start - 1)' <= e.curr + 1
      BY <1>3, <1>4, <1>5, <2>9, <2>5, <2>10, <2>13 DEF CountsNoLess
    <3>2. ASSUME NEW s \in -1..(start - 1), s >= start - Window
          PROVE  Upto(start - 1)' - Upto(s)' <= e.prev
      <4>1. Upto(s)' = Upto(s)
        BY <1>2, <2>9, <2>7
      <4> QED
        BY <1>4, <2>9, <2>10, <2>13, <3>2, <4>1 DEF CountsNoLess
    <3> QED
      BY <1>6, <2>9, <2>4, <3>1, <3>2 DEF CountsNoLess, Upto
  <2>14. Rate!NotDoubled'
    <3> SUFFICES ASSUME evicted = 0, NEW from \in 0..tick, NEW to \in 0..tick, to - from \in 0..(Window - 1)
                 PROVE  Rate!GrantedIn(from, to)' * Window
                           < (PerWindow + 1) * Window + PerWindow * (to - from)
      BY <1>6 DEF Rate!NotDoubled
    <3>1. CASE to # tick
      <4>1. Rate!GrantedIn(from, to)' = Rate!GrantedIn(from, to)
        BY <1>2, <2>5, <3>1 DEF Rate!GrantedIn
      <4> QED
        BY <4>1 DEF UpgradeRateInv, Rate!RateIsLimited, Rate!NotDoubled
    <3>2. CASE to = tick
      <4>1. /\ Rate!GrantedIn(from, to)' = granted[tick] + 1 - Upto(from - 1)
            /\ Upto(from - 1) \in Nat
        <5>1. Upto(from - 1)' = Upto(from - 1) /\ Upto(from - 1) \in Nat
          BY <1>2, <1>3, <2>7
        <5> QED
          BY <1>2, <2>5, <3>2, <5>1 DEF Rate!GrantedIn, Upto
      <4>2. granted[tick] - Upto(e.windowStart - 1) <= e.curr
        BY <1>4 DEF CountsNoLess
      <4>3. CASE from <= e.windowStart
        <5>1. from - 1 \in -1..(e.windowStart - 1) /\ from - 1 >= e.windowStart - Window
          BY <1>2, <1>5, <3>2, <4>3
        <5>2. Upto(e.windowStart - 1) - Upto(from - 1) <= e.prev
          BY <1>4, <5>1 DEF CountsNoLess
        <5>3. Rate!GrantedIn(from, to)' <= e.prev + e.curr + 1 /\ Rate!GrantedIn(from, to)' \in Int
          BY <1>3, <1>5, <2>9, <2>10, <4>1, <4>2, <5>2
        <5>4. age <= to - from /\ to - from \in Nat
          BY <1>2, <1>5, <3>2, <4>3
        <5> QED
          <6> DEFINE g == Rate!GrantedIn(from, to)'
                     l == to - from
                     p == e.prev
                     c == e.curr
                     d == tick - e.windowStart
          <6>1. /\ PerWindow \in Nat /\ Window \in Nat \ {0} /\ p \in 0..PerWindow /\ c \in Nat
                /\ d \in 0..(Window - 1) /\ l \in Nat /\ d <= l
                /\ p * (Window - d) + c * Window < PerWindow * Window
                /\ g \in Int /\ g <= p + c + 1
            BY <1>2, <1>4, <1>5, <2>2, <5>3, <5>4
          <6> HIDE DEF g, l, p, c, d
          <6>2. g * Window < (PerWindow + 1) * Window + PerWindow * l
            BY <6>1, StretchBound
          <6> QED
            BY <6>2 DEF g, l
      <4>4. CASE from > e.windowStart
        <5>1. Upto(e.windowStart - 1) <= Upto(from - 1)
          BY <1>2, <1>3, <1>5, <4>4
        <5>2. Rate!GrantedIn(from, to)' <= PerWindow /\ Rate!GrantedIn(from, to)' \in Int
          BY <1>2, <1>3, <1>5, <2>9, <2>3, <2>10, <4>1, <4>2, <5>1
        <5> QED
          BY <1>2, <5>2, ShortStretch
      <4> QED
        BY <1>5, <4>3, <4>4
    <3> QED
      BY <3>1, <3>2
  <2>15. Rate!RefusedWithReason'
    BY <2>1 DEF Rate!RefusedWithReason
  <2> QED
    BY <1>6, <2>6, <2>8, <2>11, <2>12, <2>13, <2>14, <2>15 DEF UpgradeRateInv, Rate!RateIsLimited
<1> QED
  BY <1>7, <1>8

LEMMA RateTickKeeps ==
    ASSUME UpgradeRateInv, Rate!Tick
    PROVE  UpgradeRateInv'
<1>1. Rate!UpgradeRateTypeOK /\ HistoryGrows
  BY DEF UpgradeRateInv
<1>2. /\ tick \in Nat /\ tick \in Rate!Ticks /\ 0..tick \subseteq Rate!Ticks
      /\ PerWindow \in Nat \ {0} /\ Window \in Nat \ {0} /\ granted \in [Rate!Ticks -> Nat]
      /\ entry \in [prev: 0..PerWindow, curr: 0..PerWindow, windowStart: 0..tick]
      /\ entry.windowStart \in 0..tick
  BY <1>1, RateNumbers
<1>3. /\ tick' = tick + 1 /\ tick + 1 \in Rate!Ticks /\ verdict' = "none"
      /\ UNCHANGED <<known, entry, evicted>>
      /\ granted' = [granted EXCEPT ![tick + 1] = granted[tick]]
  BY <1>2, RateConstantsOK DEF Rate!Tick, Rate!Ticks
<1>4. /\ granted' \in [Rate!Ticks -> Nat] /\ granted'[tick + 1] = granted[tick]
      /\ \A t \in 0..tick : granted'[t] = granted[t]
  BY <1>2, <1>3
<1>5. Rate!UpgradeRateTypeOK'
  <2>1. entry' \in [prev: 0..PerWindow, curr: 0..PerWindow, windowStart: 0..(tick + 1)]
    BY <1>2, <1>3
  <2> QED
    BY <1>1, <1>3, <1>4, <2>1 DEF Rate!UpgradeRateTypeOK, Rate!Ticks
<1>6. HistoryGrows'
  <2> SUFFICES ASSUME NEW s \in 0..(tick + 1), NEW t \in 0..(tick + 1), s <= t
               PROVE  granted'[s] <= granted'[t]
    BY <1>3 DEF HistoryGrows
  <2>1. CASE t = tick + 1 /\ s = tick + 1
    BY <1>2, <1>4, <2>1
  <2>2. CASE t = tick + 1 /\ s # tick + 1
    BY <1>1, <1>2, <1>4, <2>2 DEF HistoryGrows
  <2>3. CASE t # tick + 1
    BY <1>1, <1>2, <1>4, <2>3 DEF HistoryGrows
  <2> QED
    BY <2>1, <2>2, <2>3
<1>7. PICK start \in 0..tick : start = entry.windowStart
  BY <1>2
<1>8. ASSUME NEW t \in Int, t <= tick PROVE Upto(t)' = Upto(t)
  BY <1>2, <1>4, <1>8 DEF Upto
<1>9. /\ Upto(start - 1)' = Upto(start - 1)
      /\ Upto(start - 2 * Window)' = Upto(start - 2 * Window)
  <2>1. /\ start - 1 \in Int /\ start - 1 <= tick
        /\ start - 2 * Window \in Int /\ start - 2 * Window <= tick
    BY <1>2
  <2> QED
    BY <1>8, <2>1
<1>10. granted'[tick'] = granted[tick]
  BY <1>3, <1>4
<1>11. ASSUME CountsNoMore(entry) PROVE CountsNoMore(entry)'
  <2>1. /\ entry.curr <= granted'[tick'] - Upto(start - 1)'
        /\ entry.prev <= Upto(start - 1)' - Upto(start - 2 * Window)'
    BY <1>7, <1>9, <1>10, <1>11 DEF CountsNoMore
  <2> QED
    BY <1>3, <1>7, <2>1 DEF CountsNoMore, Upto
<1>12. ASSUME QuietSince(entry) PROVE QuietSince(entry)'
  BY <1>2, <1>3, <1>4, <1>10, <1>12 DEF QuietSince
<1>13. ASSUME CountsNoLess(entry) PROVE CountsNoLess(entry)'
  <2>1. granted'[tick'] - Upto(start - 1)' <= entry.curr
    BY <1>7, <1>9, <1>10, <1>13 DEF CountsNoLess
  <2>2. ASSUME NEW s \in -1..(start - 1), s >= start - Window
        PROVE  Upto(start - 1)' - Upto(s)' <= entry.prev
    <3>1. Upto(s)' = Upto(s)
      BY <1>2, <1>8
    <3> QED
      BY <1>7, <1>9, <1>13, <2>2, <3>1 DEF CountsNoLess
  <2> QED
    BY <1>3, <1>7, <2>1, <2>2 DEF CountsNoLess, Upto
<1>14. Rate!NotDoubled'
  <2> SUFFICES ASSUME evicted = 0, NEW from \in 0..(tick + 1), NEW to \in 0..(tick + 1),
                      to - from \in 0..(Window - 1)
               PROVE  Rate!GrantedIn(from, to)' * Window
                         < (PerWindow + 1) * Window + PerWindow * (to - from)
    BY <1>3 DEF Rate!NotDoubled
  <2>1. Rate!NotDoubled
    BY DEF UpgradeRateInv, Rate!RateIsLimited
  <2>2. CASE to <= tick
    <3>1. Rate!GrantedIn(from, to)' = Rate!GrantedIn(from, to) /\ from \in 0..tick /\ to \in 0..tick
      BY <1>2, <1>4, <2>2 DEF Rate!GrantedIn
    <3> QED
      BY <2>1, <3>1 DEF Rate!NotDoubled
  <2>3. CASE to = tick + 1 /\ from = tick + 1
    <3>1. Rate!GrantedIn(from, to)' = 0
      BY <1>2, <1>4, <2>3 DEF Rate!GrantedIn
    <3> QED
      BY <1>2, <2>3, <3>1, ShortStretch
  <2>4. CASE to = tick + 1 /\ from <= tick
    <3>1. Rate!GrantedIn(from, to)' = Rate!GrantedIn(from, tick)
      BY <1>2, <1>4, <2>4 DEF Rate!GrantedIn
    <3>2. tick - from \in 0..(Window - 1) /\ tick \in 0..tick /\ from \in 0..tick
      BY <1>2, <2>4
    <3>3. Rate!GrantedIn(from, tick) * Window < (PerWindow + 1) * Window + PerWindow * (tick - from)
      BY <2>1, <3>2 DEF Rate!NotDoubled
    <3>4. /\ PerWindow * (to - from) = PerWindow * (tick - from) + PerWindow
          /\ PerWindow * (tick - from) \in Nat /\ (PerWindow + 1) * Window \in Nat
      <4>1. to - from = (tick - from) + 1 /\ tick - from \in Nat
        BY <1>2, <2>4, <3>2
      <4> QED
        BY <1>2, <4>1
    <3>5. Rate!GrantedIn(from, tick) * Window \in Int
      <4>1. Rate!GrantedIn(from, tick) \in Int
        BY <1>2, <3>2 DEF Rate!GrantedIn
      <4> QED
        BY <1>2, <4>1
    <3> QED
      BY <1>2, <3>1, <3>3, <3>4, <3>5
  <2> QED
    BY <1>2, <2>2, <2>3, <2>4
<1>15. Rate!RefusedWithReason'
  BY <1>3 DEF Rate!RefusedWithReason
<1>16. evicted' = 0 /\ ~known' => granted'[tick'] = 0 \/ tick' - entry'.windowStart >= 2 * Window
  BY <1>2, <1>3, <1>10 DEF UpgradeRateInv
<1> QED
  BY <1>3, <1>5, <1>6, <1>11, <1>12, <1>13, <1>14, <1>15, <1>16 DEF UpgradeRateInv, Rate!RateIsLimited

\* The sweep and an eviction take an entry away and leave the history alone.
LEMMA ForgettingKeeps ==
    ASSUME UpgradeRateInv, Rate!Sweep \/ Rate!Evict
    PROVE  UpgradeRateInv'
<1>1. /\ UNCHANGED <<tick, entry, verdict, granted>> /\ known /\ known' = FALSE
      /\ \/ evicted' = evicted /\ tick - entry.windowStart >= 2 * Window
         \/ evicted' = evicted + 1 /\ evicted < MaxEvicted
  BY DEF Rate!Sweep, Rate!Evict
<1>2. Rate!UpgradeRateTypeOK /\ evicted \in 0..MaxEvicted
  BY DEF UpgradeRateInv, Rate!UpgradeRateTypeOK
<1>3. evicted' \in 0..MaxEvicted /\ (evicted' = 0 => evicted' = evicted /\ tick - entry.windowStart >= 2 * Window)
  BY <1>1, <1>2, RateConstantsOK
<1>4. Rate!UpgradeRateTypeOK'
  BY <1>1, <1>2, <1>3 DEF Rate!UpgradeRateTypeOK, Rate!Ticks
<1>5. /\ HistoryGrows' /\ CountsNoMore(entry)' = CountsNoMore(entry) /\ QuietSince(entry)' = QuietSince(entry)
      /\ CountsNoLess(entry)' = CountsNoLess(entry)
  BY <1>1 DEF UpgradeRateInv, HistoryGrows, CountsNoMore, QuietSince, CountsNoLess, Upto
<1>6. Rate!RateIsLimited'
  BY <1>1, <1>3 DEF UpgradeRateInv, Rate!RateIsLimited, Rate!NotDoubled, Rate!RefusedWithReason, Rate!GrantedIn
<1> QED
  BY <1>1, <1>3, <1>4, <1>5, <1>6 DEF UpgradeRateInv

LEMMA RateInitHolds == Rate!Init => UpgradeRateInv
<1> SUFFICES ASSUME Rate!Init PROVE UpgradeRateInv
  OBVIOUS
<1>1. /\ tick = 0 /\ known = FALSE /\ entry = [prev |-> 0, curr |-> 0, windowStart |-> 0]
      /\ verdict = "none" /\ granted = [t \in 0..MaxTicks |-> 0] /\ evicted = 0
  BY DEF Rate!Init, Rate!Fresh, Rate!Ticks
<1>2. granted[0] = 0 /\ granted \in [0..MaxTicks -> Nat] /\ 0..tick = {0}
  BY <1>1, RateConstantsOK
<1>3. Rate!UpgradeRateTypeOK
  <2>1. tick \in 0..MaxTicks /\ evicted \in 0..MaxEvicted
    BY <1>1, RateConstantsOK
  <2>2. entry \in [prev: 0..PerWindow, curr: 0..PerWindow, windowStart: 0..tick]
    BY <1>1, RateConstantsOK
  <2> QED
    BY <1>1, <1>2, <2>1, <2>2 DEF Rate!UpgradeRateTypeOK, Rate!Ticks
<1>4. HistoryGrows /\ QuietSince(entry)
  BY <1>1, <1>2 DEF HistoryGrows, QuietSince
<1>5. ASSUME NEW t \in Int, t < 0 PROVE Upto(t) = 0
  BY <1>5 DEF Upto
<1>6. CountsNoMore(entry) /\ CountsNoLess(entry)
  BY <1>1, <1>2, <1>5, RateConstantsOK DEF CountsNoMore, CountsNoLess
<1>7. Rate!RateIsLimited
  <2>1. ASSUME NEW from \in 0..tick, NEW to \in 0..tick, to - from \in 0..(Window - 1)
        PROVE  Rate!GrantedIn(from, to) * Window < (PerWindow + 1) * Window + PerWindow * (to - from)
    <3>1. Rate!GrantedIn(from, to) = 0 /\ to - from = 0
      BY <1>1, <1>2 DEF Rate!GrantedIn
    <3> QED
      BY <3>1, RateConstantsOK, ShortStretch
  <2> QED
    BY <1>1, <2>1 DEF Rate!RateIsLimited, Rate!NotDoubled, Rate!RefusedWithReason
<1> QED
  BY <1>1, <1>2, <1>3, <1>4, <1>6, <1>7 DEF UpgradeRateInv

LEMMA RateStepKeeps == UpgradeRateInv /\ [Rate!Next]_rateVars => UpgradeRateInv'
<1> SUFFICES ASSUME UpgradeRateInv, [Rate!Next]_rateVars PROVE UpgradeRateInv'
  OBVIOUS
<1>1. CASE UNCHANGED rateVars
  BY <1>1 DEF rateVars, UpgradeRateInv, Rate!UpgradeRateTypeOK, Rate!Ticks, HistoryGrows, CountsNoMore,
              QuietSince, CountsNoLess, Upto, Rate!RateIsLimited, Rate!NotDoubled,
              Rate!RefusedWithReason, Rate!GrantedIn
<1> QED
  BY <1>1, AskKeeps, RateTickKeeps, ForgettingKeeps DEF Rate!Next

-----------------------------------------------------------------------------
(* Files from memory.                                                        *)

\* The answer is the one to the request, whatever the manifest lists.
FilesInv ==
    /\ listed \subseteq DirPages
    /\ \/ fileRequest = Files!NoRequest /\ reply = Files!Reply(0, {}, Files!Nowhere)
       \/ fileRequest \in Files!Requests /\ reply = Files!Answer(fileRequest)

Served == {200, 206, 304, 416}

\* A range that is used holds the bytes that its header asks for.
LEMMA RangeIsWanted ==
    ASSUME NEW h \in [from: Files!Numbers, to: Files!Numbers, wellFormed: BOOLEAN],
           Files!parseRange(h).used
    PROVE  Files!parseRange(h).bytes = Files!Wanted(h)
<1>1. /\ h.from \in Nat \/ h.from = None
      /\ h.to \in Nat \/ h.to = None
      /\ None \notin Nat /\ Size \in Nat
  BY FilesConstantsOK DEF Files!Numbers
<1>2. CASE h.from = None
  <2>1. h.to \in Nat /\ h.to # 0 /\ h.wellFormed
    BY <1>1, <1>2 DEF Files!parseRange, Files!Ignored
  <2>2. Files!parseRange(h).bytes = Files!Larger(0, Size - h.to)..(Size - 1)
    BY <1>1, <1>2, <2>1 DEF Files!parseRange, Files!Interval
  <2>3. Files!Wanted(h) = {i \in 0..(Size - 1) : i >= Size - h.to}
    BY <1>1, <1>2, <2>1 DEF Files!Wanted, Files!All
  <2>4. Files!Larger(0, Size - h.to)..(Size - 1) = {i \in 0..(Size - 1) : i >= Size - h.to}
    BY <1>1, <2>1 DEF Files!Larger
  <2> QED
    BY <2>2, <2>3, <2>4
<1>3. CASE h.from \in Nat /\ h.to = None
  <2>1. Files!parseRange(h).bytes = h.from..(Size - 1)
    BY <1>1, <1>3 DEF Files!parseRange, Files!Interval, Files!Ignored
  <2>2. Files!Wanted(h) = {i \in 0..(Size - 1) : i >= h.from}
    BY <1>1, <1>3 DEF Files!Wanted, Files!All
  <2>3. h.from..(Size - 1) = {i \in 0..(Size - 1) : i >= h.from}
    BY <1>1, <1>3
  <2> QED
    BY <2>1, <2>2, <2>3
<1>4. CASE h.from \in Nat /\ h.to \in Nat
  <2>1. Files!parseRange(h).bytes = h.from..Files!Smaller(h.to, Size - 1)
    BY <1>1, <1>4 DEF Files!parseRange, Files!Interval, Files!Ignored
  <2>2. Files!Wanted(h) = {i \in 0..(Size - 1) : i >= h.from /\ i <= h.to}
    BY <1>1, <1>4 DEF Files!Wanted, Files!All
  <2>3. h.from..Files!Smaller(h.to, Size - 1) = {i \in 0..(Size - 1) : i >= h.from /\ i <= h.to}
    BY <1>1, <1>4 DEF Files!Smaller
  <2> QED
    BY <2>1, <2>2, <2>3
<1> QED
  BY <1>1, <1>2, <1>3, <1>4

\* What serveStatic answers is the file, a part of it, or what its headers call for.
LEMMA ServedExactly ==
    ASSUME NEW q \in Files!Requests, NEW n
    PROVE  LET r == Files!serveStatic(q, n)
           IN  /\ r.status \in Served
               /\ r.status = 206 => r.bytes = Files!Wanted(q.range) /\ r.bytes # {}
               /\ r.status = 416 => Files!Wanted(q.range) = {}
               /\ r.status = 200 => r.bytes = Files!All
<1> DEFINE range == Files!parseRange(q.range)
           r == Files!serveStatic(q, n)
           asked == n \notin Assets /\ (q.range.from # None \/ q.range.to # None) /\ q.ifRange # "stale"
<1>1. q.range \in [from: Files!Numbers, to: Files!Numbers, wellFormed: BOOLEAN]
  BY DEF Files!Requests
<1>2. range.used => range.bytes = Files!Wanted(q.range)
  BY <1>1, RangeIsWanted
<1> HIDE DEF range
<1>3. CASE n \notin Assets /\ q.etagMatches
  <2>1. r = [status |-> 304, bytes |-> {}, location |-> Files!Nowhere]
    BY <1>3 DEF Files!serveStatic, Files!Reply
  <2> QED
    BY <2>1 DEF Served
<1>4. CASE ~(n \notin Assets /\ q.etagMatches) /\ asked /\ range.used
  <2>1. r = [status |-> IF range.bytes = {} THEN 416 ELSE 206, bytes |-> range.bytes,
             location |-> Files!Nowhere]
    BY <1>4 DEF Files!serveStatic, Files!Reply, range
  <2>2. r.bytes = range.bytes /\ r.status = IF range.bytes = {} THEN 416 ELSE 206
    BY <2>1
  <2> QED
    BY <1>2, <1>4, <2>2 DEF Served
<1>5. CASE ~(n \notin Assets /\ q.etagMatches) /\ ~(asked /\ range.used)
  <2>1. r = [status |-> 200, bytes |-> Files!All, location |-> Files!Nowhere]
    BY <1>5 DEF Files!serveStatic, Files!Reply, range
  <2> QED
    BY <2>1 DEF Served
<1> QED
  BY <1>3, <1>4, <1>5

\* An answer is a file's, a redirect, or left to the application.
LEMMA AnswerIsOneOf ==
    ASSUME NEW q
    PROVE  \/ Files!Answer(q) = Files!serveStatic(q, q.path.name)
           \/ Files!Answer(q).status \in {0, 308}
<1>1. \A b, t : Files!Reply(0, b, t).status = 0 /\ Files!Reply(308, b, t).status = 308
  BY DEF Files!Reply
<1>2. \A s : Files!Clean(q.path.name, s).name = q.path.name
  BY DEF Files!Clean
<1> QED
  BY <1>1, <1>2 DEF Files!Answer, Files!tryPrerendered

LEMMA CleanIsPair ==
    /\ \A m, n : Files!Clean(m, TRUE) = Files!Clean(n, TRUE) => m = n
    /\ \A m, n : Files!Clean(m, FALSE) = Files!Clean(n, FALSE) => m = n
    /\ \A m, n : Files!Clean(m, TRUE) # Files!Clean(n, FALSE)
BY DEF Files!Clean

\* The manifest lists each page with a slash or without.
LEMMA StoredSpelling ==
    ASSUME NEW n \in Files!Pages
    PROVE  /\ Files!Clean(n, TRUE) \in Files!prerendered <=> n \in listed
           /\ Files!Clean(n, FALSE) \in Files!prerendered <=> n \notin listed
<1>1. ASSUME NEW x
      PROVE  x \in Files!prerendered <=> \E m \in Files!Pages : x = Files!Clean(m, m \in listed)
  BY DEF Files!prerendered
<1>2. ASSUME NEW m, m \in listed PROVE Files!Clean(m, m \in listed) = Files!Clean(m, TRUE)
  <2>1. (m \in listed) = TRUE
    BY <1>2
  <2> QED
    BY <2>1
<1>3. ASSUME NEW m, m \notin listed PROVE Files!Clean(m, m \in listed) = Files!Clean(m, FALSE)
  <2>1. (m \in listed) = FALSE
    BY <1>3
  <2> QED
    BY <2>1
<1>4. ASSUME Files!Clean(n, TRUE) \in Files!prerendered PROVE n \in listed
  <2>1. PICK m \in Files!Pages : Files!Clean(n, TRUE) = Files!Clean(m, m \in listed)
    BY <1>1, <1>4
  <2>2. CASE m \in listed
    BY <1>2, <2>1, <2>2, CleanIsPair
  <2>3. CASE m \notin listed
    BY <1>3, <2>1, <2>3, CleanIsPair
  <2> QED
    BY <2>2, <2>3
<1>5. ASSUME Files!Clean(n, FALSE) \in Files!prerendered PROVE n \notin listed
  <2>1. PICK m \in Files!Pages : Files!Clean(n, FALSE) = Files!Clean(m, m \in listed)
    BY <1>1, <1>5
  <2>2. CASE m \in listed
    BY <1>2, <2>1, <2>2, CleanIsPair
  <2>3. CASE m \notin listed
    BY <1>3, <2>1, <2>3, CleanIsPair
  <2> QED
    BY <2>2, <2>3
<1>6. ASSUME n \in listed PROVE Files!Clean(n, TRUE) \in Files!prerendered
  BY <1>1, <1>2, <1>6
<1>7. ASSUME n \notin listed PROVE Files!Clean(n, FALSE) \in Files!prerendered
  BY <1>1, <1>3, <1>7
<1> QED
  BY <1>4, <1>5, <1>6, <1>7

\* A page is stored under one spelling, and every other leads there.
LEMMA PageIsReached ==
    ASSUME listed \subseteq DirPages, NEW q \in Files!Requests, q.path.name \in Files!Pages
    PROVE  \/ Files!Answer(q) = Files!serveStatic(q, q.path.name)
           \/ /\ Files!Answer(q).status = 308 /\ Files!Answer(q).location \in Files!staticCache
              /\ Files!Answer(q).location \in Files!Paths
<1> DEFINE n == q.path.name
           bare == Files!Clean(n, FALSE)
           slashed == Files!Clean(n, TRUE)
<1>1. /\ n \in DirPages \/ n \in FilePages
      /\ q.path.slash \in BOOLEAN /\ n \in Files!Names
  BY DEF Files!Pages, Files!Requests, Files!Paths
<1>2. /\ bare.name = n /\ slashed.name = n /\ bare.slash = FALSE /\ slashed.slash = TRUE
      /\ bare # slashed /\ [bare EXCEPT !.slash = TRUE] = slashed
      /\ bare \in Files!Paths /\ slashed \in Files!Paths
      /\ Files!Clean(n, FALSE) = bare /\ Files!Clean(n, TRUE) = slashed
  <2>1. /\ bare = [name |-> n, slash |-> FALSE, escaped |-> FALSE]
        /\ slashed = [name |-> n, slash |-> TRUE, escaped |-> FALSE]
    BY DEF Files!Clean
  <2> HIDE DEF bare, slashed
  <2>2. bare \in Files!Paths /\ slashed \in Files!Paths
    BY <1>1, <2>1 DEF Files!Paths
  <2>3. [bare EXCEPT !.slash = TRUE] = slashed
    <3> SUFFICES ASSUME NEW c \in Files!Paths, c.name = n, c.escaped = FALSE
                 PROVE  [c EXCEPT !.slash = TRUE] = [name |-> n, slash |-> TRUE, escaped |-> FALSE]
      BY <2>1, <2>2
    <3> DEFINE d == [c EXCEPT !.slash = TRUE]
               t == [name |-> n, slash |-> TRUE, escaped |-> FALSE]
    <3>1. d \in Files!Paths /\ d.name = n /\ d.slash = TRUE /\ d.escaped = FALSE
      BY DEF Files!Paths
    <3>2. t \in Files!Paths /\ t.name = n /\ t.slash = TRUE /\ t.escaped = FALSE
      BY <1>1 DEF Files!Paths
    <3> HIDE DEF d, t
    <3>3. d = t
      BY <3>1, <3>2 DEF Files!Paths
    <3> QED
      BY <3>3 DEF d, t
  <2>4. bare.name = n /\ slashed.name = n /\ bare.slash = FALSE /\ slashed.slash = TRUE
    BY <2>1
  <2> QED
    BY <2>2, <2>3, <2>4 DEF bare, slashed
<1>3. \A t : Files!Reply(308, {}, t).status = 308 /\ Files!Reply(308, {}, t).location = t
  BY DEF Files!Reply
<1>4. /\ n \in DirPages => slashed \in Files!staticCache
      /\ n \in FilePages => bare \in Files!staticCache
      /\ bare \in Files!prerenderedDirStyle <=> n \in DirPages
      /\ slashed \notin Files!prerenderedDirStyle
      /\ slashed \in Files!prerendered <=> n \in listed
      /\ bare \in Files!prerendered <=> n \notin listed
  <2>2. /\ n \in DirPages => slashed \in Files!staticCache
        /\ n \in FilePages => bare \in Files!staticCache
    BY DEF Files!staticCache
  <2>3. /\ bare \in Files!prerenderedDirStyle <=> n \in DirPages
        /\ slashed \notin Files!prerenderedDirStyle
    BY CleanIsPair DEF Files!prerenderedDirStyle
  <2>4. /\ slashed \in Files!prerendered <=> n \in listed
        /\ bare \in Files!prerendered <=> n \notin listed
    BY StoredSpelling
  <2> QED
    BY <2>2, <2>3, <2>4
<1> HIDE DEF bare, slashed
<1>5. CASE q.path \in Files!staticCache
  BY <1>5 DEF Files!Answer
<1>6. CASE q.path \notin Files!staticCache
  <2>1. Files!Answer(q) = Files!tryPrerendered(q)
    BY <1>6 DEF Files!Answer
  <2>2. CASE q.path.slash = TRUE
    <3>1. CASE n \in DirPages
      <4>1. Files!tryPrerendered(q) = Files!serveStatic(q, n)
        BY <1>2, <1>4, <2>2, <3>1 DEF Files!tryPrerendered
      <4> QED
        BY <2>1, <4>1
    <3>2. CASE n \notin DirPages
      <4>1. Files!tryPrerendered(q) = Files!Reply(308, {}, bare)
        BY <1>2, <1>4, <2>2, <3>2 DEF Files!tryPrerendered
      <4> QED
        BY <1>3, <1>1, <1>2, <1>4, <2>1, <3>2, <4>1
    <3> QED
      BY <3>1, <3>2
  <2>3. CASE q.path.slash = FALSE
    <3>1. CASE n \in DirPages
      <4>1. Files!tryPrerendered(q) = Files!Reply(308, {}, slashed)
        BY <1>2, <1>4, <2>3, <3>1 DEF Files!tryPrerendered
      <4> QED
        BY <1>3, <1>2, <1>4, <2>1, <3>1, <4>1
    <3>2. CASE n \notin DirPages
      <4>1. Files!tryPrerendered(q) = Files!serveStatic(q, n)
        BY <1>1, <1>2, <1>4, <2>3, <3>2 DEF Files!tryPrerendered
      <4> QED
        BY <2>1, <4>1
    <3> QED
      BY <3>1, <3>2
  <2> QED
    BY <1>1, <2>2, <2>3
<1> QED
  BY <1>5, <1>6

LEMMA FilesInvIsEnough == FilesInv => Files!StaticIsRight
<1> SUFFICES ASSUME FilesInv PROVE Files!StaticIsRight
  OBVIOUS
<1>1. CASE fileRequest = Files!NoRequest /\ reply = Files!Reply(0, {}, Files!Nowhere)
  <2>1. reply.status = 0 /\ fileRequest.path.name = None
    BY <1>1 DEF Files!Reply, Files!NoRequest, Files!Nowhere, Files!Clean
  <2> QED
    BY <2>1, FilesConstantsOK DEF Files!StaticIsRight, Files!RangesAreExact, Files!PagesAreReached,
                                  Files!Pages
<1>2. CASE fileRequest \in Files!Requests /\ reply = Files!Answer(fileRequest)
  <2>1. Files!RangesAreExact
    <3>1. CASE reply = Files!serveStatic(fileRequest, fileRequest.path.name)
      BY <1>2, <3>1, ServedExactly DEF Files!RangesAreExact
    <3>2. CASE reply.status \in {0, 308}
      BY <3>2 DEF Files!RangesAreExact
    <3> QED
      BY <1>2, <3>1, <3>2, AnswerIsOneOf
  <2>2. ASSUME fileRequest.path.name \in Files!Pages
        PROVE  \/ reply.status \in Served
               \/ /\ reply.status = 308
                  /\ Files!Answer([fileRequest EXCEPT !.path = reply.location]).status \in Served
    <3>1. CASE reply = Files!serveStatic(fileRequest, fileRequest.path.name)
      BY <1>2, <3>1, ServedExactly
    <3>2. CASE reply.status = 308 /\ reply.location \in Files!staticCache /\ reply.location \in Files!Paths
      <4> DEFINE q == [fileRequest EXCEPT !.path = reply.location]
      <4>1. q \in Files!Requests /\ q.path = reply.location
        BY <1>2, <3>2 DEF Files!Requests
      <4>2. Files!Answer(q) = Files!serveStatic(q, q.path.name)
        BY <3>2, <4>1 DEF Files!Answer
      <4>3. Files!Answer(q).status \in Served
        BY <4>1, <4>2, ServedExactly
      <4> QED
        BY <3>2, <4>3
    <3> QED
      BY <1>2, <2>2, <3>1, <3>2, PageIsReached DEF FilesInv
  <2> QED
    BY <2>1, <2>2 DEF Files!StaticIsRight, Files!PagesAreReached, Served
<1> QED
  BY <1>1, <1>2 DEF FilesInv

LEMMA FilesStepKeeps == FilesInv /\ [Files!Next]_fileVars => FilesInv'
<1> SUFFICES ASSUME FilesInv, [Files!Next]_fileVars PROVE FilesInv'
  OBVIOUS
<1>1. CASE UNCHANGED fileVars
  BY <1>1 DEF fileVars, FilesInv, Files!Answer, Files!tryPrerendered, Files!prerendered
<1>2. CASE Files!Next
  <2>1. /\ fileRequest' \in Files!Requests /\ reply' = Files!Answer(fileRequest')
        /\ listed' = listed
    BY <1>2 DEF Files!Next, Files!Get
  <2>2. reply' = Files!Answer(fileRequest)'
    BY <2>1 DEF Files!Answer, Files!tryPrerendered, Files!prerendered
  <2> QED
    BY <2>1, <2>2 DEF FilesInv
<1> QED
  BY <1>1, <1>2

-----------------------------------------------------------------------------
(* Origins, and the three together.                                          *)

\* A server that is up has a configuration, the one it was started in.
OriginInv == setup \in Origin!Setups

\* The origin a request's headers make is no value of the wrong form.
LEMMA HostsAreHosts ==
    ASSUME NEW s, NEW q \in Origin!Requests(s),
           Origin!Claimed(q.fwdHost, q.host) \notin {None, Bad}
    PROVE  \E p \in Origin!Ports \cup {None} : Origin!Claimed(q.fwdHost, q.host) = Origin!Host(Own, p)
<1>1. /\ q.host \in {None, Bad} \cup {Origin!Host(Own, p) : p \in {None, "80", "8080"}}
      /\ q.fwdHost \in {None, Bad, Origin!Host(Own, None), Origin!Host(Own, "443")}
  BY DEF Origin!Requests
<1> QED
  BY <1>1 DEF Origin!Claimed, Origin!Ports

LEMMA OriginIsOrigin ==
    ASSUME NEW s, NEW q \in Origin!Requests(s), Origin!originFromHeaders(s, q) # None
    PROVE  LET host == Origin!Claimed(q.fwdHost, q.host)
               scheme == Origin!Claimed(q.proto, Origin!Listener(s))
               there == IF q.fwdPort = None THEN host ELSE Origin!Host(host.name, q.fwdPort)
           IN  /\ host \notin {None, Bad}
               /\ Origin!originFromHeaders(s, q) = Origin!Origin(scheme, there)
               /\ Origin!Origin(scheme, Origin!Stripped(there, scheme)) # Bad
<1> DEFINE host == Origin!Claimed(q.fwdHost, q.host)
           scheme == Origin!Claimed(q.proto, Origin!Listener(s))
           there == IF q.fwdPort = None THEN host ELSE Origin!Host(host.name, q.fwdPort)
<1>1. /\ scheme \in Origin!Schemes /\ host \notin {None, Bad} /\ q.fwdPort # Bad
      /\ Origin!originFromHeaders(s, q) = Origin!Origin(scheme, there)
  BY DEF Origin!originFromHeaders
<1> HIDE DEF scheme
<1>2. PICK p \in Origin!Ports \cup {None} : host = Origin!Host(Own, p)
  BY <1>1, HostsAreHosts
<1>3. host.name = Own
  BY <1>2 DEF Origin!Host
<1>4. q.fwdPort \in {None, Bad, "443", "8080"}
  BY DEF Origin!Requests
<1>5. PICK r \in Origin!Ports \cup {None} : there = Origin!Host(Own, r)
  BY <1>1, <1>2, <1>3, <1>4 DEF Origin!Ports
<1> HIDE DEF there
<1>6. \E r2 \in Origin!Ports \cup {None} : Origin!Stripped(there, scheme) = Origin!Host(Own, r2)
  <2>1. there.name = Own
    BY <1>5 DEF Origin!Host
  <2> QED
    BY <1>5, <2>1 DEF Origin!Stripped
<1>7. Origin!Origin(scheme, Origin!Stripped(there, scheme)) # Bad
  BY <1>1, <1>6, OriginConstantsOK
<1> QED
  BY <1>1, <1>7 DEF there, scheme

LEMMA OriginInvIsEnough == OriginInv => Origin!OneOwnOrigin
<1> SUFFICES ASSUME OriginInv, Origin!SameOriginOnly, setup.origin = None,
                    NEW q \in Origin!Requests(setup),
                    Origin!BaseOrigin(setup, q) # None, q.origin # None, ~q.sameSite
             PROVE  LET base == Origin!BaseOrigin(setup, q)
                    IN  Origin!Accepted(setup, q)
                           <=> q.origin = Origin!Origin(base.scheme, Origin!Stripped(base.host, base.scheme))
  BY DEF Origin!OneOwnOrigin
<1> DEFINE host == Origin!Claimed(q.fwdHost, q.host)
           scheme == Origin!Claimed(q.proto, Origin!Listener(setup))
           there == IF q.fwdPort = None THEN host ELSE Origin!Host(host.name, q.fwdPort)
           base == Origin!BaseOrigin(setup, q)
           own == Origin!Origin(scheme, Origin!Stripped(there, scheme))
<1>1. base = Origin!originFromHeaders(setup, q) /\ setup.allowedOrigins = "same-origin"
  BY DEF Origin!BaseOrigin, Origin!SameOriginOnly
<1>2. host \notin {None, Bad} /\ base = Origin!Origin(scheme, there) /\ own # Bad
  BY <1>1, OriginIsOrigin
<1>3. base.scheme = scheme /\ base.host = there
  BY <1>2 DEF Origin!Origin
<1>4. ASSUME NEW hook \in BOOLEAN PROVE Origin!isOriginAllowed(setup, q, hook) <=> q.origin = own
  BY <1>1, <1>2 DEF Origin!isOriginAllowed
<1>5. Origin!Accepted(setup, q) <=> q.origin = own
  <2>1. setup.upgradeHook \in BOOLEAN
    BY DEF OriginInv, Origin!Setups
  <2> QED
    BY <1>4, <2>1 DEF Origin!Accepted, Origin!isAuthOriginAccepted
<1> QED
  BY <1>3, <1>5

\* handler.js, on a request alone: ranges and redirects of files from memory are
\* exact for any files, pages and manifest, the origin check agrees with the URL
\* the application sees for every configuration and header, and the estimate of
\* the sliding window neither lets an address double its rate nor refuses it for
\* what it did long ago, for any limit and window.
THEOREM DecisionsSoundness == PartsSpec => []DecisionsAreRight
<1> DEFINE Inv == FilesInv /\ OriginInv /\ UpgradeRateInv
<1>1. PartsInit => Inv
  <2> SUFFICES ASSUME PartsInit PROVE Inv
    OBVIOUS
  <2>1. FilesInv
    BY DEF PartsInit, Files!Init, FilesInv
  <2>2. OriginInv
    BY DEF PartsInit, Origin!Init, OriginInv
  <2> QED
    BY <2>1, <2>2, RateInitHolds DEF PartsInit
<1>2. Inv /\ [PartsNext]_<<part, vars, httpVars, fileVars, originVars, rateVars>> => Inv'
  <2> SUFFICES ASSUME Inv, [PartsNext]_<<part, vars, httpVars, fileVars, originVars, rateVars>>
               PROVE  Inv'
    OBVIOUS
  <2>1. [Files!Next]_fileVars /\ [Origin!Next]_originVars /\ [Rate!Next]_rateVars
    BY DEF PartsNext
  <2>2. OriginInv'
    BY <2>1 DEF originVars, OriginInv, Origin!Next, Origin!Start
  <2> QED
    BY <2>1, <2>2, FilesStepKeeps, RateStepKeeps
<1>3. Inv => DecisionsAreRight
  BY FilesInvIsEnough, OriginInvIsEnough DEF UpgradeRateInv, DecisionsAreRight
<1> QED
  BY <1>1, <1>2, <1>3, PTL DEF PartsSpec
==============================================================================
