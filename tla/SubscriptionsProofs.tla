------------------------- MODULE SubscriptionsProofs -------------------------
(***************************************************************************)
(* What a worker does with topics, for every set of sockets, workers,      *)
(* topics and listeners and every bound.                                   *)
(*                                                                         *)
(* Subscriptions: the counter is exact, the cap holds, and nothing is      *)
(* delivered that the gate did not allow. The sampler: every listener that *)
(* looked knows the reason of the snapshot. The relay: nothing is lost,    *)
(* doubled, reordered or sent back between workers, and a shared frame     *)
(* gives every socket what one publish per event would have given it.      *)
(***************************************************************************)
EXTENDS MCSubscriptions, FiniteSetTheorems, SequenceTheorems, MapOrderProofs, TLAPS

-----------------------------------------------------------------------------
(* Facts about the pairs that totalSubscriptions counts. *)

LEMMA FiniteSubs ==
    ASSUME Shape, NEW c \in Conns, NEW S \in SUBSET Topics
    PROVE  /\ IsFiniteSet(S) /\ Cardinality(S) \in Nat
           /\ IsFiniteSet(subs[c]) /\ Cardinality(subs[c]) \in Nat
           /\ IsFiniteSet(Tracked) /\ Cardinality(Tracked) \in Nat
<1>1. IsFiniteSet(S) /\ IsFiniteSet(subs[c])
  BY ConstantsOK, FS_Subset DEF Shape
<1>2. IsFiniteSet(Conns \X Topics)
  BY ConstantsOK, FS_Product
<1>3. IsFiniteSet(Tracked)
  BY <1>2, FS_Subset DEF Tracked
<1> QED
  BY <1>1, <1>3, FS_CardinalityType

\* One socket's column of pairs has as many members as the set of its topics.
LEMMA ColumnSize ==
    ASSUME NEW c \in Conns, NEW S \in SUBSET Topics
    PROVE  IsFiniteSet({c} \X S) /\ Cardinality({c} \X S) = Cardinality(S)
<1>1. IsFiniteSet(S) /\ Cardinality(S) \in Nat
  BY ConstantsOK, FS_Subset, FS_CardinalityType
<1>2. IsFiniteSet({c}) /\ Cardinality({c}) = 1
  BY FS_Singleton
<1>3. Cardinality({c} \X S) = 1 * Cardinality(S)
  BY <1>1, <1>2, FS_Product
<1>4. IsFiniteSet({c} \X S)
  BY <1>1, <1>2, FS_Product
<1> QED
  BY <1>1, <1>3, <1>4

\* Adding a disjoint column adds its size, removing one subtracts it.
LEMMA ColumnAdded ==
    ASSUME NEW Q, IsFiniteSet(Q), NEW c \in Conns, NEW S \in SUBSET Topics,
           Q \cap ({c} \X S) = {}
    PROVE  Cardinality(Q \cup ({c} \X S)) = Cardinality(Q) + Cardinality(S)
<1>1. Cardinality(Q \cup ({c} \X S)) =
         Cardinality(Q) + Cardinality({c} \X S) - Cardinality(Q \cap ({c} \X S))
  BY ColumnSize, FS_Union
<1>2. Cardinality(Q \cap ({c} \X S)) = 0
  BY FS_EmptySet
<1>3. Cardinality({c} \X S) = Cardinality(S) /\ Cardinality(S) \in Nat
  BY ColumnSize, FS_CardinalityType
<1>4. Cardinality(Q) \in Nat
  BY FS_CardinalityType
<1> QED
  BY <1>1, <1>2, <1>3, <1>4

LEMMA ColumnRemoved ==
    ASSUME NEW Q, IsFiniteSet(Q), NEW c \in Conns, NEW S \in SUBSET Topics,
           {c} \X S \subseteq Q
    PROVE  Cardinality(Q \ ({c} \X S)) = Cardinality(Q) - Cardinality(S)
<1>1. Cardinality(Q \ ({c} \X S)) =
         Cardinality(Q) - Cardinality(Q \cap ({c} \X S))
  BY FS_Difference
<1>2. Q \cap ({c} \X S) = {c} \X S
  OBVIOUS
<1> QED
  BY <1>1, <1>2, ColumnSize

-----------------------------------------------------------------------------
(* Type correctness. *)

LEMMA TypeInit == Init => Shape
<1> SUFFICES ASSUME Init PROVE Shape
  OBVIOUS
<1>1. call \in [Calls -> CallRecord \cup {Idle}]
  <2>1. call = [k \in Calls |-> Idle]
    BY DEF Init
  <2>2. \A v : v = Idle => v \in CallRecord \cup {Idle}
    OBVIOUS
  <2> QED
    BY <2>1, <2>2
<1>2. /\ conn \in [Conns -> {"idle", "open", "closed"}]
      /\ subs \in [Conns -> SUBSET Topics]
      /\ native \in [Conns -> SUBSET Topics]
      /\ allowed \in [Conns -> SUBSET Topics]
  BY DEF Init
<1>3. total \in Int
  BY DEF Init
<1>4. crashed \in BOOLEAN
  BY DEF Init
<1> QED
  BY <1>1, <1>2, <1>3, <1>4 DEF Shape

LEMMA TypeStep == Shape /\ [Next]_vars => Shape'
<1> SUFFICES ASSUME Shape, [Next]_vars PROVE Shape'
  OBVIOUS
<1> USE DEF Shape
<1>1. ASSUME NEW c \in Conns, Open(c) PROVE Shape'
  BY <1>1 DEF Open, Running
<1>2. ASSUME NEW c \in Conns, Close(c) PROVE Shape'
  <2>1. PICK gone \in SUBSET subs[c] :
          /\ subs' = [subs EXCEPT ![c] = subs[c] \ gone]
          /\ total' = (total - Cardinality(gone)) - Cardinality(subs[c] \ gone)
    BY <1>2 DEF Close
  <2>2. gone \in SUBSET Topics /\ subs[c] \ gone \in SUBSET Topics
    OBVIOUS
  <2>3. Cardinality(gone) \in Nat /\ Cardinality(subs[c] \ gone) \in Nat
    BY <2>2, FiniteSubs
  <2> QED
    BY <1>2, <2>1, <2>2, <2>3 DEF Close, Running
<1>3. ASSUME NEW k \in Calls, NEW kind \in Kinds, NEW c \in Conns,
             NEW want \in SUBSET Topics, Enter(k, kind, c, want)
      PROVE  Shape'
  <2>1. [kind |-> kind, c |-> c, want |-> want] \in CallRecord
    BY DEF CallRecord
  <2> QED
    BY <1>3, <2>1 DEF Enter, Running
<1>4. ASSUME NEW k \in Calls, GateAnswers(k) PROVE Shape'
  <2>1. call[k] \in CallRecord
    BY <1>4 DEF GateAnswers, Idle
  <2> DEFINE c == call[k].c
  <2>2. c \in Conns /\ call[k].want \in SUBSET Topics
    BY <2>1 DEF CallRecord
  <2>3. PICK ans \in [call[k].want -> Answers] :
          LET granted == {t \in call[k].want : Admits(ans[t])}
          IN  /\ allowed' = [allowed EXCEPT ![c] =
                                @ \cup {t \in call[k].want : ans[t] = "allow"}]
              /\ \E new \in Additions(c, granted) : Record(c, new)
    BY <1>4 DEF GateAnswers
  <2>4. PICK new \in SUBSET Topics : Record(c, new)
    BY <2>2, <2>3 DEF Additions
  <2>5. Cardinality(new) \in Nat
    BY <2>2, <2>4, FiniteSubs
  <2>6. /\ native' \in [Conns -> SUBSET Topics]
        /\ subs' \in [Conns -> SUBSET Topics]
        /\ total' \in Int
    BY <2>2, <2>4, <2>5 DEF Record
  <2>7. allowed' \in [Conns -> SUBSET Topics]
    BY <2>2, <2>3
  <2>8. /\ call' = [call EXCEPT ![k] = Idle]
        /\ conn' = conn /\ crashed' = crashed
    BY <1>4 DEF GateAnswers, Running
  <2> QED
    BY <2>6, <2>7, <2>8
<1>5. ASSUME NEW k \in Calls, CheckAnswers(k) PROVE Shape'
  <2>1. call[k] \in CallRecord
    BY <1>5 DEF CheckAnswers, Idle
  <2>2. call[k].c \in Conns /\ call[k].want \in SUBSET Topics
    BY <2>1 DEF CallRecord
  <2> QED
    BY <1>5, <2>2 DEF CheckAnswers, Running
<1>6. ASSUME NEW k \in Calls, ResumeAnswers(k) PROVE Shape'
  BY <1>6 DEF ResumeAnswers
<1>7. ASSUME NEW c \in Conns, NEW t \in Topics,
             FrameUnsubscribe(c, t) \/ ServerUnsubscribe(c, t)
      PROVE  Shape'
  BY <1>7 DEF FrameUnsubscribe, ServerUnsubscribe, Forget, Running
<1>8. CASE UNCHANGED vars
  BY <1>8 DEF vars
<1> QED
  <2>1. ASSUME NEW c \in Conns, SocketStep(c) PROVE Shape'
    BY <2>1, <1>1, <1>2, <1>7 DEF SocketStep
  <2>2. ASSUME NEW k \in Calls, CallStep(k) PROVE Shape'
    <3>1. ASSUME NEW c \in Conns, NEW t \in Topics,
                 \/ FrameSubscribe(k, c, t)
                 \/ ServerSubscribe(k, c, t)
                 \/ CheckThenSubscribe(k, c, t)
          PROVE  Shape'
      <4>1. \E kind \in Kinds : Enter(k, kind, c, {t})
        BY <3>1 DEF FrameSubscribe, ServerSubscribe, CheckThenSubscribe, Kinds
      <4> QED
        BY <4>1, <1>3
    <3>2. ASSUME NEW c \in Conns, NEW want \in SUBSET Topics,
                 FrameSubscribeBatch(k, c, want) \/ FrameResume(k, c)
          PROVE  Shape'
      <4>1. \E kind \in Kinds, w \in SUBSET Topics : Enter(k, kind, c, w)
        BY <3>2 DEF FrameSubscribeBatch, FrameResume, Kinds
      <4> QED
        BY <4>1, <1>3
    <3> QED
      BY <2>2, <3>1, <3>2, <1>4, <1>5, <1>6 DEF CallStep
  <2> QED
    BY <2>1, <2>2, <1>8 DEF Next

\* Every variable keeps its shape, for every value of the constants.
LEMMA ShapeAlways == Spec => []Shape
BY TypeInit, TypeStep, PTL DEF Spec

-----------------------------------------------------------------------------
(* What the two ways of changing a Set do to the pairs, and so to the      *)
(* counter.                                                                *)

LEMMA RecordKeepsTotal ==
    ASSUME Shape, TotalExact, NEW c \in Conns, NEW new \in SUBSET Topics,
           new \cap subs[c] = {}, Record(c, new), conn' = conn
    PROVE  TotalExact'
<1>1. CASE conn[c] = "open"
  <2>1. subs' = [subs EXCEPT ![c] = @ \cup new] /\ total' = total + Cardinality(new)
    BY <1>1 DEF Record
  <2>2. Tracked' = Tracked \cup ({c} \X new)
    BY <1>1, <2>1 DEF Tracked, Shape
  <2>3. Tracked \cap ({c} \X new) = {}
    BY DEF Tracked
  <2>4. Cardinality(Tracked') = Cardinality(Tracked) + Cardinality(new)
    BY <2>2, <2>3, FiniteSubs, ColumnAdded
  <2> QED
    BY <2>1, <2>4 DEF TotalExact
<1>2. CASE conn[c] # "open"
  <2>1. subs' = subs /\ total' = total
    BY <1>2 DEF Record
  <2>2. Tracked' = Tracked
    BY <2>1 DEF Tracked
  <2> QED
    BY <2>1, <2>2 DEF TotalExact
<1> QED
  BY <1>1, <1>2

LEMMA ForgetKeepsTotal ==
    ASSUME Shape, TotalExact, NEW c \in Conns, NEW t \in Topics,
           conn[c] = "open", Forget(c, t), conn' = conn
    PROVE  TotalExact'
<1>1. subs' = [subs EXCEPT ![c] = @ \ {t}]
  BY DEF Forget
<1>2. Tracked' = Tracked \ {<<c, t>>}
  BY <1>1 DEF Tracked, Shape
<1>3. <<c, t>> \in Tracked <=> t \in subs[c]
  BY DEF Tracked
<1>4. IsFiniteSet(Tracked)
  BY FiniteSubs
<1>5. Cardinality(Tracked') =
        IF t \in subs[c] THEN Cardinality(Tracked) - 1 ELSE Cardinality(Tracked)
  BY <1>2, <1>3, <1>4, FS_RemoveElement
<1>6. total' = IF t \in subs[c] THEN total - 1 ELSE total
  BY DEF Forget
<1> QED
  BY <1>5, <1>6 DEF TotalExact

LEMMA OpenKeepsTotal ==
    ASSUME Shape, TotalExact, NEW c \in Conns, Open(c)
    PROVE  TotalExact'
<1>1. Tracked' = Tracked
  BY DEF Open, Tracked, Shape
<1> QED
  BY <1>1 DEF Open, TotalExact

LEMMA CloseKeepsTotal ==
    ASSUME Shape, TotalExact, NEW c \in Conns, Close(c)
    PROVE  TotalExact'
<1>1. PICK gone \in SUBSET subs[c] :
        /\ subs' = [subs EXCEPT ![c] = subs[c] \ gone]
        /\ total' = (total - Cardinality(gone)) - Cardinality(subs[c] \ gone)
  BY DEF Close
<1>2. conn[c] = "open" /\ conn' = [conn EXCEPT ![c] = "closed"]
  BY DEF Close
<1>3. Tracked' = Tracked \ ({c} \X subs[c])
  BY <1>1, <1>2 DEF Tracked, Shape
<1>4. subs[c] \in SUBSET Topics /\ {c} \X subs[c] \subseteq Tracked
  BY <1>2 DEF Tracked, Shape
<1>5. Cardinality(Tracked') = Cardinality(Tracked) - Cardinality(subs[c])
  BY <1>3, <1>4, FiniteSubs, ColumnRemoved
<1>6. /\ Cardinality(gone) \in Nat
      /\ Cardinality(subs[c]) \in Nat
      /\ Cardinality(subs[c] \ gone) = Cardinality(subs[c]) - Cardinality(gone)
  <2>1. gone \in SUBSET Topics
    BY <1>4
  <2>2. subs[c] \cap gone = gone
    OBVIOUS
  <2> QED
    BY ZenonT(40), <2>1, <2>2, FiniteSubs, FS_Difference
<1>7. Cardinality(Tracked) \in Nat
  BY FiniteSubs
<1> QED
  BY <1>1, <1>5, <1>6, <1>7 DEF TotalExact

-----------------------------------------------------------------------------
(* The inductive invariant: the safety invariants of Subscriptions support *)
(* one another and need no further strengthening than their types.         *)

Safe == TotalExact /\ TrackedIsDelivered /\ OnlyAllowed /\ CapHolds

IInv == Shape /\ Safe

LEMMA IInvInit == Init => IInv
<1> SUFFICES ASSUME Init PROVE IInv
  OBVIOUS
<1>1. Shape
  BY TypeInit
<1>2. TotalExact
  <2>1. Tracked = {}
    BY DEF Init, Tracked
  <2> QED
    BY <2>1, FS_EmptySet DEF Init, TotalExact
<1>3. TrackedIsDelivered /\ OnlyAllowed
  BY DEF Init, TrackedIsDelivered, OnlyAllowed
<1>4. CapHolds
  BY FS_EmptySet, ConstantsOK DEF Init, CapHolds
<1> QED
  BY <1>1, <1>2, <1>3, <1>4 DEF IInv, Safe

\* Reaching the gate changes nothing but the slot.
LEMMA EnterKeeps ==
    ASSUME IInv, NEW k \in Calls, NEW kind \in Kinds, NEW c \in Conns,
           NEW want \in SUBSET Topics, Enter(k, kind, c, want)
    PROVE  Safe'
BY DEF Enter, IInv, Safe, TotalExact, Tracked, TrackedIsDelivered, OnlyAllowed, CapHolds

LEMMA GateKeeps ==
    ASSUME IInv, NEW k \in Calls, GateAnswers(k)
    PROVE  Safe'
<1> USE DEF IInv, Safe
<1>1. call[k] \in CallRecord
  BY DEF GateAnswers, Idle, Shape
<1> DEFINE c == call[k].c
           want == call[k].want
<1>2. c \in Conns /\ want \in SUBSET Topics
  BY <1>1 DEF CallRecord
<1>3. PICK ans \in [want -> Answers] :
        /\ allowed' = [allowed EXCEPT ![c] = @ \cup {t \in want : ans[t] = "allow"}]
        /\ \E new \in Additions(c, {t \in want : Admits(ans[t])}) : Record(c, new)
  BY DEF GateAnswers
<1>4. PICK new \in Additions(c, {t \in want : Admits(ans[t])}) : Record(c, new)
  BY <1>3
<1>5. /\ new \in SUBSET Topics
      /\ new \cap subs[c] = {}
      /\ new \subseteq {t \in want : ans[t] = "allow"}
      /\ Cardinality(subs[c] \cup new) <= MaxSubs \/ new = {}
  BY <1>2, <1>4 DEF Additions, Admits
<1>6. conn' = conn
  BY DEF GateAnswers
<1>7. TotalExact'
  BY <1>2, <1>4, <1>5, <1>6, RecordKeepsTotal
<1>8. native' = [native EXCEPT ![c] = IF conn[c] = "open" THEN @ \cup new ELSE @]
  BY <1>2, <1>4 DEF Record, Shape
<1>9. subs' = [subs EXCEPT ![c] = IF conn[c] = "open" THEN @ \cup new ELSE @]
  BY <1>2, <1>4 DEF Record, Shape
<1>10. TrackedIsDelivered'
  BY <1>2, <1>6, <1>8, <1>9 DEF TrackedIsDelivered, Shape
<1>11. OnlyAllowed'
  BY <1>2, <1>3, <1>5, <1>8 DEF OnlyAllowed, Shape
<1>12. CapHolds'
  <2> SUFFICES ASSUME NEW d \in Conns PROVE Cardinality(subs'[d]) <= MaxSubs
    BY DEF CapHolds
  <2>1. Cardinality(subs[d]) <= MaxSubs
    BY DEF CapHolds
  <2>2. subs'[d] = subs[d] \/ (d = c /\ subs'[d] = subs[c] \cup new)
    BY <1>2, <1>9 DEF Shape
  <2>3. CASE subs'[d] = subs[d]
    BY <2>1, <2>3
  <2>4. CASE d = c /\ subs'[d] = subs[c] \cup new
    <3>1. CASE new = {}
      BY <2>1, <2>4, <3>1
    <3>2. CASE Cardinality(subs[c] \cup new) <= MaxSubs
      BY <2>4, <3>2
    <3> QED
      BY <1>5, <3>1, <3>2
  <2> QED
    BY <2>2, <2>3, <2>4
<1> QED
  BY <1>7, <1>10, <1>11, <1>12

LEMMA CheckKeeps ==
    ASSUME IInv, NEW k \in Calls, CheckAnswers(k)
    PROVE  Safe'
<1> USE DEF IInv, Safe
<1>1. call[k] \in CallRecord
  BY DEF CheckAnswers, Idle, Shape
<1>2. call[k].c \in Conns
  BY <1>1 DEF CallRecord
<1>3. conn' = conn /\ subs' = subs /\ total' = total
  BY DEF CheckAnswers
<1>4. TotalExact' /\ CapHolds'
  BY <1>3 DEF TotalExact, Tracked, CapHolds
<1>5. TrackedIsDelivered' /\ OnlyAllowed'
  BY <1>2, <1>3 DEF CheckAnswers, Admits, TrackedIsDelivered, OnlyAllowed, Shape
<1> QED
  BY <1>4, <1>5

LEMMA ForgetKeeps ==
    ASSUME IInv, NEW c \in Conns, NEW t \in Topics,
           FrameUnsubscribe(c, t) \/ ServerUnsubscribe(c, t)
    PROVE  Safe'
<1> USE DEF IInv, Safe
<1>1. /\ conn[c] = "open" /\ Forget(c, t)
      /\ conn' = conn /\ allowed' = allowed
  BY DEF FrameUnsubscribe, ServerUnsubscribe
<1>2. TotalExact'
  BY <1>1, ForgetKeepsTotal
<1>3. subs' = [subs EXCEPT ![c] = @ \ {t}] /\ native' = [native EXCEPT ![c] = @ \ {t}]
  BY <1>1 DEF Forget
<1>4. TrackedIsDelivered' /\ OnlyAllowed'
  BY <1>1, <1>3 DEF TrackedIsDelivered, OnlyAllowed, Shape
<1>5. CapHolds'
  <2> SUFFICES ASSUME NEW d \in Conns PROVE Cardinality(subs'[d]) <= MaxSubs
    BY DEF CapHolds
  <2>1. IsFiniteSet(subs[d]) /\ subs'[d] \in SUBSET subs[d]
    BY <1>3, FiniteSubs DEF Shape
  <2>2. Cardinality(subs'[d]) <= Cardinality(subs[d])
    BY <2>1, FS_Subset
  <2>3. Cardinality(subs'[d]) \in Nat /\ Cardinality(subs[d]) \in Nat
    BY <2>1, FS_Subset, FS_CardinalityType
  <2> QED
    BY <2>2, <2>3, ConstantsOK DEF CapHolds
<1> QED
  BY <1>2, <1>4, <1>5

LEMMA SocketKeeps ==
    ASSUME IInv, NEW c \in Conns, Open(c) \/ Close(c)
    PROVE  Safe'
<1> USE DEF IInv, Safe
<1>1. TotalExact'
  BY OpenKeepsTotal, CloseKeepsTotal
<1>2. TrackedIsDelivered' /\ OnlyAllowed'
  BY DEF Open, Close, TrackedIsDelivered, OnlyAllowed, Shape
<1>3. CapHolds'
  <2> SUFFICES ASSUME NEW d \in Conns PROVE Cardinality(subs'[d]) <= MaxSubs
    BY DEF CapHolds
  <2>1. subs'[d] \in SUBSET subs[d]
    <3>1. CASE Open(c)
      BY <3>1 DEF Open, Shape
    <3>2. CASE Close(c)
      <4>1. PICK gone \in SUBSET subs[c] : subs' = [subs EXCEPT ![c] = subs[c] \ gone]
        BY <3>2 DEF Close
      <4> QED
        BY <4>1 DEF Shape
    <3> QED
      BY <3>1, <3>2
  <2>2. IsFiniteSet(subs[d]) /\ Cardinality(subs[d]) \in Nat
    BY FiniteSubs
  <2>3. Cardinality(subs'[d]) <= Cardinality(subs[d])
    BY <2>1, <2>2, FS_Subset
  <2>4. Cardinality(subs'[d]) \in Nat
    BY <2>1, <2>2, FS_Subset, FS_CardinalityType
  <2> QED
    BY <2>2, <2>3, <2>4, ConstantsOK DEF CapHolds
<1> QED
  BY <1>1, <1>2, <1>3

LEMMA IInvStep == IInv /\ [Next]_vars => IInv'
<1> SUFFICES ASSUME IInv, [Next]_vars PROVE IInv'
  OBVIOUS
<1>1. SUFFICES Safe'
  BY TypeStep DEF IInv
<1>2. ASSUME NEW c \in Conns, SocketStep(c) PROVE Safe'
  BY <1>2, SocketKeeps, ForgetKeeps DEF SocketStep
<1>3. ASSUME NEW k \in Calls, CallStep(k) PROVE Safe'
  <2>1. ASSUME NEW c \in Conns, NEW t \in Topics,
               \/ FrameSubscribe(k, c, t)
               \/ ServerSubscribe(k, c, t)
               \/ CheckThenSubscribe(k, c, t)
        PROVE  Safe'
    <3>1. \E kind \in Kinds : Enter(k, kind, c, {t})
      BY <2>1 DEF FrameSubscribe, ServerSubscribe, CheckThenSubscribe, Kinds
    <3> QED
      BY <3>1, EnterKeeps
  <2>2. ASSUME NEW c \in Conns, NEW want \in SUBSET Topics,
               FrameSubscribeBatch(k, c, want) \/ FrameResume(k, c)
        PROVE  Safe'
    <3>1. \E kind \in Kinds, w \in SUBSET Topics : Enter(k, kind, c, w)
      BY <2>2 DEF FrameSubscribeBatch, FrameResume, Kinds
    <3> QED
      BY <3>1, EnterKeeps
  <2>3. CASE ResumeAnswers(k)
    BY <2>3 DEF ResumeAnswers, IInv, Safe, TotalExact, Tracked, TrackedIsDelivered,
                OnlyAllowed, CapHolds
  <2> QED
    BY <1>3, <2>1, <2>2, <2>3, GateKeeps, CheckKeeps DEF CallStep
<1>4. CASE Next
  BY <1>2, <1>3, <1>4 DEF Next
<1>5. CASE UNCHANGED vars
  <2>1. conn' = conn /\ subs' = subs /\ native' = native /\ total' = total /\ allowed' = allowed
    BY <1>5 DEF vars
  <2>2. TotalExact' /\ CapHolds'
    BY <2>1 DEF IInv, Safe, TotalExact, Tracked, CapHolds
  <2>3. TrackedIsDelivered' /\ OnlyAllowed'
    BY <2>1 DEF IInv, Safe, TrackedIsDelivered, OnlyAllowed
  <2> QED
    BY <2>2, <2>3 DEF Safe
<1> QED
  BY <1>4, <1>5

LEMMA IInvAlways == Spec => []IInv
BY IInvInit, IInvStep, PTL DEF Spec

\* Every variable has its type, and totalSubscriptions, which is only ever
\* counted up and down, does not become negative.
THEOREM TypeCorrect == Spec => []TypeOK
<1>1. IInv => TypeOK
  <2> SUFFICES ASSUME IInv PROVE TypeOK
    OBVIOUS
  <2>1. Shape /\ total = Cardinality(Tracked)
    BY DEF IInv, Safe, TotalExact
  <2>2. Cardinality(Tracked) \in Nat
    <3>1. IsFiniteSet(Conns \X Topics)
      BY ConstantsOK, FS_Product
    <3>2. IsFiniteSet(Tracked)
      BY <3>1, FS_Subset DEF Tracked
    <3> QED
      BY <3>2, FS_CardinalityType
  <2> QED
    BY <2>1, <2>2 DEF TypeOK
<1> QED
  BY <1>1, IInvAlways, PTL

\* totalSubscriptions is the number of live subscriptions in every reachable
\* state, for any number of sockets, topics and concurrent calls.
THEOREM CounterIsExact == Spec => []TotalExact
<1>1. IInv => TotalExact
  BY DEF IInv, Safe
<1> QED
  BY <1>1, IInvAlways, PTL

\* The gate is complete: no socket is ever in a topic no gate run allowed.
THEOREM GateIsComplete == Spec => []OnlyAllowed
<1>1. IInv => OnlyAllowed
  BY DEF IInv, Safe
<1> QED
  BY <1>1, IInvAlways, PTL

\* MAX_SUBSCRIPTIONS_PER_CONNECTION bounds every Set, whatever raced.
THEOREM CapIsRespected == Spec => []CapHolds
<1>1. IInv => CapHolds
  BY DEF IInv, Safe
<1> QED
  BY <1>1, IInvAlways, PTL

\* The Set and the topic tree agree, and a closed socket is in neither.
THEOREM SetMatchesTree == Spec => []TrackedIsDelivered
<1>1. IInv => TrackedIsDelivered
  BY DEF IInv, Safe
<1> QED
  BY <1>1, IInvAlways, PTL

\* The Set of a closed socket never changes again.
LEMMA FrozenStep ==
    ASSUME Shape, [Next]_vars, NEW d \in Conns, conn[d] = "closed"
    PROVE  subs'[d] = subs[d]
<1>1. ASSUME NEW c \in Conns, SocketStep(c) PROVE subs'[d] = subs[d]
  <2>1. CASE Open(c)
    BY <2>1 DEF Open, Shape
  <2>2. CASE Close(c)
    <3>1. conn[c] = "open" /\ \E s \in SUBSET Topics : subs' = [subs EXCEPT ![c] = s]
      BY <2>2 DEF Close, Shape
    <3> QED
      BY <3>1 DEF Shape
  <2>3. ASSUME NEW t \in Topics, FrameUnsubscribe(c, t) \/ ServerUnsubscribe(c, t)
        PROVE  subs'[d] = subs[d]
    BY <2>3 DEF FrameUnsubscribe, ServerUnsubscribe, Forget, Shape
  <2> QED
    BY <1>1, <2>1, <2>2, <2>3 DEF SocketStep
<1>2. ASSUME NEW k \in Calls, CallStep(k) PROVE subs'[d] = subs[d]
  <2>1. CASE GateAnswers(k)
    <3>1. call[k].c \in Conns
      BY <2>1 DEF GateAnswers, Idle, Shape, CallRecord
    <3>2. \E new : Record(call[k].c, new)
      BY <2>1 DEF GateAnswers
    <3> QED
      BY <3>1, <3>2 DEF Record, Shape
  <2>2. CASE CheckAnswers(k) \/ ResumeAnswers(k)
    BY <2>2 DEF CheckAnswers, ResumeAnswers
  <2> QED
    BY <1>2, <2>1, <2>2 DEF CallStep, FrameSubscribe, FrameSubscribeBatch,
       ServerSubscribe, CheckThenSubscribe, FrameResume, Enter
<1>3. CASE Next
  BY <1>1, <1>2, <1>3 DEF Next
<1>4. CASE UNCHANGED vars
  BY <1>4 DEF vars
<1> QED
  BY <1>3, <1>4

\* CloseContext.subscriptions, the live Set, is final once the socket is closed.
THEOREM ClosedSetStaysFrozen == Spec => ClosedSetIsFrozen
<1>1. Shape /\ [Next]_vars => [\A c \in Conns : conn[c] = "closed" => subs'[c] = subs[c]]_vars
  BY FrozenStep
<1> QED
  BY <1>1, ShapeAlways, PTL DEF Spec, ClosedSetIsFrozen

\* The counter, the Sets and the tree agree, whatever order gates answer in.
THEOREM BooksAlwaysAgree == Spec => []BooksAgree
BY TypeCorrect, CounterIsExact, SetMatchesTree, PTL DEF BooksAgree

\* The gate and the cap hold, though both are tested around an await.
THEOREM GateAndCap == Spec => []Gated
BY GateIsComplete, CapIsRespected, PTL DEF Gated

-----------------------------------------------------------------------------
(* The sampler of pressure. *)

LEMMA SamplerConstants ==
    /\ IsFiniteSet(Topics)
    /\ Rate \in Nat /\ TopicRate \in Nat /\ Ratio \in Nat
    /\ WarnMax \in Nat \ {0} /\ Minute \in Nat /\ MaxPublishes \in Nat
  BY SamplerOK DEF P!ConstantsOK, P!IsFiniteSet, IsFiniteSet

LEMMA SamplerWithin == \A s, K : P!Within(s, K) = Within(s, K)
  BY DEF P!Within, P!Nth, P!PlacesOf, P!Cardinality, Within, Nth, PlacesOf, Cardinality

\* The publishes counted by topic: topic and number.
Pairs(stats) == UNION {{t} \X (1..stats[t]) : t \in Topics}

\* A publish is one more, and the counts of a new sample are nought.
LEMMA PairsAdded ==
    ASSUME NEW stats \in [Topics -> Nat], NEW t \in Topics
    PROVE  /\ IsFiniteSet(Pairs(stats)) /\ Cardinality(Pairs(stats)) \in Nat
           /\ Cardinality(Pairs([stats EXCEPT ![t] = @ + 1])) = Cardinality(Pairs(stats)) + 1
<1> DEFINE more == [stats EXCEPT ![t] = @ + 1]
           new == <<t, stats[t] + 1>>
           cols == {{u} \X (1..stats[u]) : u \in Topics}
<1>1. IsFiniteSet(Pairs(stats))
  <2>1. IsFiniteSet(cols)
    <3> DEFINE col == [u \in Topics |-> {u} \X (1..stats[u])]
    <3>1. col \in Surjection(Topics, cols)
      BY DEF Surjection, Range
    <3> HIDE DEF col, cols
    <3> QED
      BY <3>1, SamplerConstants, FS_Surjection
  <2>2. \A C \in cols : IsFiniteSet(C)
    <3> SUFFICES ASSUME NEW u \in Topics PROVE IsFiniteSet({u} \X (1..stats[u]))
      OBVIOUS
    <3> DEFINE n == stats[u]
    <3>1. n \in Nat /\ 1 \in Int /\ n \in Int
      OBVIOUS
    <3> HIDE DEF n
    <3>2. IsFiniteSet({u}) /\ IsFiniteSet(1..n)
      BY <3>1, FS_Singleton, FS_Interval
    <3>3. IsFiniteSet({u} \X (1..n))
      BY <3>2, FS_Product
    <3> QED
      BY <3>3 DEF n
  <2> HIDE DEF cols
  <2>3. IsFiniteSet(UNION cols)
    BY <2>1, <2>2, FS_UNION
  <2> QED
    BY <2>3 DEF Pairs, cols
<1>2. \A p : p \in Pairs(stats) <=> \E u \in Topics : \E n \in 1..stats[u] : p = <<u, n>>
  BY DEF Pairs
<1>3. \A p : p \in Pairs(more) <=> \E u \in Topics : \E n \in 1..more[u] : p = <<u, n>>
  BY DEF Pairs
<1>4. \A u \in Topics : more[u] = IF u = t THEN stats[u] + 1 ELSE stats[u]
  OBVIOUS
<1>5. \A n : n \in 1..(stats[t] + 1) <=> n \in 1..stats[t] \/ n = stats[t] + 1
  <2>1. stats[t] \in Nat
    OBVIOUS
  <2> QED
    BY <2>1
<1> HIDE DEF more
<1>6. Pairs(more) = Pairs(stats) \cup {new}
  <2>1. ASSUME NEW p, p \in Pairs(more) PROVE p \in Pairs(stats) \cup {new}
    <3>1. PICK u \in Topics : \E n \in 1..more[u] : p = <<u, n>>
      BY <1>3, <2>1
    <3>2. PICK n \in 1..more[u] : p = <<u, n>>
      BY <3>1
    <3> QED
      BY <1>2, <1>4, <1>5, <3>2
  <2>2. ASSUME NEW p, p \in Pairs(stats) PROVE p \in Pairs(more)
    <3>1. PICK u \in Topics : \E n \in 1..stats[u] : p = <<u, n>>
      BY <1>2, <2>2
    <3>2. PICK n \in 1..stats[u] : p = <<u, n>>
      BY <3>1
    <3>3. n \in 1..more[u]
      BY <1>4, <1>5, <3>2
    <3> QED
      BY <1>3, <3>2, <3>3
  <2>3. new \in Pairs(more)
    BY <1>3, <1>4, <1>5
  <2> QED
    BY <2>1, <2>2, <2>3
<1>7. new \notin Pairs(stats)
  <2>1. stats[t] \in Nat /\ ~(stats[t] + 1 \in 1..stats[t])
    OBVIOUS
  <2> QED
    BY <1>2, <2>1
<1> HIDE DEF new
<1>8. Cardinality(Pairs(more)) = Cardinality(Pairs(stats)) + 1
  BY <1>1, <1>6, <1>7, FS_AddElement
<1> QED
  BY <1>1, <1>8, FS_CardinalityType DEF more

LEMMA PairsNone == Cardinality(Pairs([t \in Topics |-> 0])) = 0
<1>1. Pairs([t \in Topics |-> 0]) = {}
  BY DEF Pairs
<1> QED
  BY <1>1, FS_EmptySet

\* RatesAreHeard while rate listeners are being told.  The two rounds come one
\* after the other, and a sample with nothing to report has nobody to tell.
RatesInv ==
    /\ telling # <<>> => reporting = <<>> /\ (overThreshold = {} => heard = RateWatchers)
    /\ overThreshold = {} => reporting = <<>>
    /\ overThreshold = {} \/ reporting # <<>> =>
          P!Elements(rateListeners) \subseteq heard \cup P!Elements(reporting)

\* The inductive invariant: WatchersKnow while listeners are being told.
SamplerInv ==
    /\ P!PressureTypeOK
    /\ RatesInv
    /\ \A l \in P!Elements(pressureListeners) \ P!Elements(telling) : known[l] = reason
    /\ publishCountWindow = Cardinality(Pairs(topicPublishStats)) + refused
    /\ Len(warned) <= WarnMax
    /\ \A i, j \in DOMAIN warned : warned[i].topic = warned[j].topic => i = j

LEMMA RoundElements ==
    ASSUME NEW S, NEW s \in Seq(S)
    PROVE  /\ P!Elements(s) \subseteq S /\ P!Elements(<<>>) = {}
           /\ \A l \in S : P!Elements(Append(s, l)) = P!Elements(s) \cup {l}
           /\ \A K : P!Elements(P!Within(s, K)) = P!Elements(s) \cap K
           /\ s # <<>> => /\ Head(s) \in S /\ Tail(s) \in Seq(S)
                          /\ P!Elements(s) = {Head(s)} \cup P!Elements(Tail(s))
<1>1. P!Elements(s) \subseteq S /\ P!Elements(<<>>) = {}
  BY DEF P!Elements
<1>2. ASSUME NEW l \in S PROVE P!Elements(Append(s, l)) = P!Elements(s) \cup {l}
  <2>1. DOMAIN Append(s, l) = 1..(Len(s) + 1) /\ DOMAIN s = 1..Len(s) /\ Len(s) \in Nat
    OBVIOUS
  <2>2. \A i \in 1..Len(s) : Append(s, l)[i] = s[i]
    OBVIOUS
  <2>3. Append(s, l)[Len(s) + 1] = l /\ Len(s) + 1 \in 1..(Len(s) + 1)
    OBVIOUS
  <2>4. \A i \in 1..(Len(s) + 1) : i \in 1..Len(s) \/ i = Len(s) + 1
    BY <2>1
  <2>5. \A i \in 1..Len(s) : i \in 1..(Len(s) + 1)
    BY <2>1
  <2> QED
    BY <2>1, <2>2, <2>3, <2>4, <2>5 DEF P!Elements
<1>3. ASSUME NEW K PROVE P!Elements(P!Within(s, K)) = P!Elements(s) \cap K
  <2>1. /\ \A n \in DOMAIN Within(s, K) : \E i \in DOMAIN s : s[i] = Within(s, K)[n] /\ s[i] \in K
        /\ \A i \in DOMAIN s : s[i] \in K => \E n \in DOMAIN Within(s, K) : Within(s, K)[n] = s[i]
    BY WithinKeeps
  <2>2. P!Elements(Within(s, K)) = P!Elements(s) \cap K
    BY <2>1 DEF P!Elements
  <2> QED
    BY <2>2, SamplerWithin
<1>4. ASSUME s # <<>>
      PROVE  /\ Head(s) \in S /\ Tail(s) \in Seq(S)
             /\ P!Elements(s) = {Head(s)} \cup P!Elements(Tail(s))
  <2>1. Len(s) \in Nat \ {0} /\ DOMAIN s = 1..Len(s) /\ Head(s) = s[1]
    BY <1>4
  <2>2. Tail(s) \in Seq(S) /\ DOMAIN Tail(s) = 1..(Len(s) - 1)
    BY <1>4
  <2>3. \A i \in 1..(Len(s) - 1) : Tail(s)[i] = s[i + 1]
    BY <1>4, <2>1
  <2>4. \A i \in 1..Len(s) : i = 1 \/ (i - 1 \in 1..(Len(s) - 1) /\ (i - 1) + 1 = i)
    BY <2>1
  <2>5. \A i \in 1..(Len(s) - 1) : i + 1 \in 1..Len(s)
    BY <2>1
  <2>6. 1 \in 1..Len(s)
    BY <2>1
  <2>7. ASSUME NEW x, x \in P!Elements(s) PROVE x \in {Head(s)} \cup P!Elements(Tail(s))
    <3>1. PICK i \in 1..Len(s) : x = s[i]
      BY <2>1, <2>7 DEF P!Elements
    <3>2. CASE i = 1
      BY <2>1, <3>1, <3>2
    <3>3. CASE i # 1
      <4> DEFINE j == i - 1
      <4>1. j \in 1..(Len(s) - 1) /\ j + 1 = i
        BY <2>4, <3>3
      <4> HIDE DEF j
      <4>2. Tail(s)[j] = x
        BY <2>3, <3>1, <4>1
      <4> QED
        BY <2>2, <4>1, <4>2 DEF P!Elements
    <3> QED
      BY <3>2, <3>3
  <2>8. ASSUME NEW x, x \in P!Elements(Tail(s)) PROVE x \in P!Elements(s)
    <3>1. PICK i \in 1..(Len(s) - 1) : x = Tail(s)[i]
      BY <2>2, <2>8 DEF P!Elements
    <3>2. x = s[i + 1] /\ i + 1 \in 1..Len(s)
      BY <2>3, <2>5, <3>1
    <3> QED
      BY <2>1, <3>2 DEF P!Elements
  <2>9. Head(s) \in P!Elements(s)
    BY <2>1, <2>6 DEF P!Elements
  <2>10. Head(s) \in S
    BY <2>1, <2>6
  <2> QED
    BY <2>2, <2>7, <2>8, <2>9, <2>10
<1> QED
  BY <1>1, <1>2, <1>3, <1>4

LEMMA SamplerWithinType ==
    ASSUME NEW S, NEW s \in Seq(S), NEW K
    PROVE  P!Within(s, K) \in Seq(S)
  BY SamplerWithin, WithinShape

LEMMA SamplerInit == P!Init => SamplerInv
<1> SUFFICES ASSUME P!Init PROVE SamplerInv
  OBVIOUS
<1>1. P!PressureTypeOK
  BY SamplerConstants DEF P!Init, P!PressureTypeOK, P!Reasons
<1>2. P!Elements(pressureListeners) = {} /\ P!Elements(rateListeners) = {}
  BY DEF P!Init, P!Elements
<1>3. Len(warned) <= WarnMax /\ DOMAIN warned = {}
  BY SamplerConstants DEF P!Init
<1>4. RatesInv
  BY <1>2 DEF P!Init, RatesInv
<1> QED
  BY <1>1, <1>2, <1>3, <1>4, PairsNone DEF P!Init, SamplerInv

CountsRight ==
    /\ publishCountWindow \in Nat /\ topicPublishStats \in [Topics -> Nat] /\ refused \in Nat
    /\ publishCountWindow = Cardinality(Pairs(topicPublishStats)) + refused

\* What every conjunct of the invariant says after a step.
LEMMA SamplerParts ==
    ASSUME CountsRight',
           load' \in [connections: {0, 1}, subscriptions: 0..Ratio, heapFull: BOOLEAN],
           reason' \in P!Reasons, known' \in [Listeners -> P!Reasons],
           pressureListeners' \in Seq(Listeners), rateListeners' \in Seq(RateWatchers),
           telling' \in Seq(Listeners), reporting' \in Seq(RateWatchers),
           overThreshold' \subseteq Topics, heard' \subseteq RateWatchers,
           warned' \in Seq([topic: Topics, age: 0..Minute]),
           RatesInv',
           \A l \in P!Elements(pressureListeners') \ P!Elements(telling') : known'[l] = reason',
           Len(warned') <= WarnMax,
           \A i, j \in DOMAIN warned' : warned'[i].topic = warned'[j].topic => i = j
    PROVE  SamplerInv'
  BY DEF SamplerInv, P!PressureTypeOK, P!Elements, CountsRight

LEMMA SamplerTypes ==
    ASSUME SamplerInv
    PROVE  /\ CountsRight /\ RatesInv
           /\ load \in [connections: {0, 1}, subscriptions: 0..Ratio, heapFull: BOOLEAN]
           /\ reason \in P!Reasons /\ known \in [Listeners -> P!Reasons]
           /\ pressureListeners \in Seq(Listeners) /\ rateListeners \in Seq(RateWatchers)
           /\ telling \in Seq(Listeners) /\ reporting \in Seq(RateWatchers)
           /\ overThreshold \subseteq Topics /\ heard \subseteq RateWatchers
           /\ warned \in Seq([topic: Topics, age: 0..Minute])
           /\ \A l \in P!Elements(pressureListeners) \ P!Elements(telling) : known[l] = reason
           /\ Len(warned) <= WarnMax
           /\ \A i, j \in DOMAIN warned : warned[i].topic = warned[j].topic => i = j
  BY DEF SamplerInv, P!PressureTypeOK, CountsRight

LEMMA CountsKept ==
    ASSUME CountsRight, UNCHANGED <<publishCountWindow, topicPublishStats, refused>>
    PROVE  CountsRight'
  BY DEF CountsRight, Pairs

LEMMA RatesKept ==
    ASSUME RatesInv, UNCHANGED <<telling, overThreshold, reporting, rateListeners, heard>>
    PROVE  RatesInv'
<1>1. P!Elements(rateListeners') = P!Elements(rateListeners) /\ P!Elements(reporting') = P!Elements(reporting)
  OBVIOUS
<1> QED
  BY <1>1 DEF RatesInv

\* The counts and the load have no part in who is told.
LEMMA TellingKept ==
    ASSUME SamplerInv, CountsRight',
           load' \in [connections: {0, 1}, subscriptions: 0..Ratio, heapFull: BOOLEAN],
           UNCHANGED <<reason, pressureListeners, rateListeners, telling, overThreshold, reporting,
                       warned, known, heard>>
    PROVE  SamplerInv'
<1>1. RatesInv'
  BY SamplerTypes, RatesKept
<1>2. \A l \in P!Elements(pressureListeners') \ P!Elements(telling') : known'[l] = reason'
  <2>1. P!Elements(pressureListeners') = P!Elements(pressureListeners) /\ P!Elements(telling') = P!Elements(telling)
    OBVIOUS
  <2> QED
    BY <2>1, SamplerTypes
<1> QED
  BY <1>1, <1>2, SamplerTypes, SamplerParts

\* A publish is counted in both, or refused and counted in one.
LEMMA PublishedCounts ==
    ASSUME CountsRight, NEW t \in Topics, P!Published(t)
    PROVE  CountsRight'
<1>1. publishCountWindow \in Nat /\ topicPublishStats \in [Topics -> Nat] /\ refused \in Nat
  BY DEF CountsRight
<1> DEFINE more == [topicPublishStats EXCEPT ![t] = @ + 1]
<1>2. /\ Cardinality(Pairs(topicPublishStats)) \in Nat
      /\ Cardinality(Pairs(more)) = Cardinality(Pairs(topicPublishStats)) + 1
  BY <1>1, PairsAdded
<1>3. more \in [Topics -> Nat]
  BY <1>1
<1>4. /\ publishCountWindow' = publishCountWindow + 1
      /\ \/ topicPublishStats' = more /\ refused' = refused
         \/ topicPublishStats' = topicPublishStats /\ refused' = refused + 1
  BY DEF P!Published
<1> HIDE DEF more
<1>5. publishCountWindow = Cardinality(Pairs(topicPublishStats)) + refused
  BY DEF CountsRight
<1>6. CASE topicPublishStats' = more /\ refused' = refused
  <2>1. Pairs(topicPublishStats') = Pairs(more)
    BY <1>6
  <2> QED
    BY <1>1, <1>2, <1>3, <1>4, <1>5, <1>6, <2>1 DEF CountsRight
<1>7. CASE topicPublishStats' = topicPublishStats /\ refused' = refused + 1
  <2>1. Pairs(topicPublishStats') = Pairs(topicPublishStats)
    BY <1>7
  <2> QED
    BY <1>1, <1>2, <1>4, <1>5, <1>7, <2>1 DEF CountsRight
<1> QED
  BY <1>4, <1>6, <1>7

LEMMA PublishKeeps ==
    ASSUME SamplerInv, NEW t \in Topics, P!Publish(t)
    PROVE  SamplerInv'
<1>1. CountsRight'
  BY PublishedCounts, SamplerTypes DEF P!Publish
<1>2. UNCHANGED <<load, reason, pressureListeners, rateListeners, telling, overThreshold, reporting,
                  warned, known, heard>>
  BY DEF P!Publish
<1> QED
  BY <1>1, <1>2, SamplerTypes, TellingKept

LEMMA ApplicationKeeps ==
    ASSUME SamplerInv,
           \/ P!LoadChanges
           \/ \E l \in Listeners : P!onPressure(l)
           \/ \E w \in RateWatchers : P!onPublishRate(w)
    PROVE  SamplerInv'
<1>1. CASE P!LoadChanges
  <2>1. load' \in [connections: {0, 1}, subscriptions: 0..Ratio, heapFull: BOOLEAN]
    <3>1. {0, Ratio} \subseteq 0..Ratio
      BY SamplerConstants
    <3> QED
      BY <1>1, <3>1 DEF P!LoadChanges
  <2>2. UNCHANGED <<publishCountWindow, topicPublishStats, refused, reason, pressureListeners,
                    rateListeners, telling, overThreshold, reporting, warned, known, heard>>
    BY <1>1 DEF P!LoadChanges, P!countVars
  <2>3. CountsRight'
    BY <2>2, SamplerTypes, CountsKept
  <2> QED
    BY <2>1, <2>2, <2>3, TellingKept
<1>2. ASSUME NEW l \in Listeners, P!onPressure(l) PROVE SamplerInv'
  <2>1. /\ pressureListeners' = Append(pressureListeners, l)
        /\ known' = [known EXCEPT ![l] = reason] /\ l \notin P!Elements(pressureListeners)
        /\ UNCHANGED <<publishCountWindow, topicPublishStats, refused, load, reason, rateListeners,
                       telling, overThreshold, reporting, warned, heard>>
    BY <1>2 DEF P!onPressure, P!countVars
  <2>2. pressureListeners' \in Seq(Listeners) /\ known' \in [Listeners -> P!Reasons]
    BY <2>1, SamplerTypes
  <2>3. P!Elements(pressureListeners') = P!Elements(pressureListeners) \cup {l}
    BY <2>1, SamplerTypes, RoundElements
  <2>4. ASSUME NEW m \in P!Elements(pressureListeners') \ P!Elements(telling') PROVE known'[m] = reason'
    <3>1. m \in Listeners /\ P!Elements(telling') = P!Elements(telling)
      BY <2>1, <2>2, RoundElements DEF P!Elements
    <3>2. CASE m = l
      BY <2>1, <3>1, <3>2, SamplerTypes
    <3>3. CASE m # l
      BY <2>1, <2>3, <3>1, <3>3, SamplerTypes
    <3> QED
      BY <3>2, <3>3
  <2>5. CountsRight'
    BY <2>1, SamplerTypes, CountsKept
  <2>6. RatesInv'
    BY <2>1, SamplerTypes, RatesKept
  <2> QED
    BY <2>1, <2>2, <2>4, <2>5, <2>6, SamplerTypes, SamplerParts
<1>3. ASSUME NEW w \in RateWatchers, P!onPublishRate(w) PROVE SamplerInv'
  <2> DEFINE K == RateWatchers \ {w}
  <2>1. /\ telling = <<>> /\ overThreshold = {}
        /\ \/ rateListeners' = Append(rateListeners, w) /\ heard' = heard \cup {w}
           \/ rateListeners' = P!Within(rateListeners, K) /\ heard' = heard
        /\ UNCHANGED <<publishCountWindow, topicPublishStats, refused, load, reason, pressureListeners,
                       telling, overThreshold, reporting, warned, known>>
    BY <1>3 DEF P!onPublishRate, P!countVars, P!Idle
  <2> HIDE DEF K
  <2>2. P!Elements(rateListeners) \subseteq heard /\ reporting = <<>>
    <3>1. reporting = <<>> /\ P!Elements(<<>>) = {}
      BY <2>1, SamplerTypes DEF RatesInv, P!Elements
    <3> QED
      BY <2>1, <3>1, SamplerTypes DEF RatesInv
  <2> DEFINE Fits == /\ rateListeners' \in Seq(RateWatchers) /\ heard' \subseteq RateWatchers
                     /\ P!Elements(rateListeners') \subseteq heard'
  <2>3. ASSUME rateListeners' = Append(rateListeners, w) /\ heard' = heard \cup {w} PROVE Fits
    <3>1. /\ rateListeners' \in Seq(RateWatchers)
          /\ P!Elements(rateListeners') = P!Elements(rateListeners) \cup {w}
      BY <2>3, SamplerTypes, RoundElements
    <3>2. heard' \subseteq RateWatchers /\ P!Elements(rateListeners') \subseteq heard'
      BY <2>2, <2>3, <3>1, SamplerTypes
    <3> QED
      BY <3>1, <3>2
  <2>4. ASSUME rateListeners' = P!Within(rateListeners, K) /\ heard' = heard PROVE Fits
    <3>1. rateListeners' \in Seq(RateWatchers)
      BY <2>4, SamplerTypes, SamplerWithinType
    <3>2. P!Elements(rateListeners') = P!Elements(rateListeners) \cap K
      BY <2>4, SamplerTypes, RoundElements
    <3> QED
      BY <2>2, <2>4, <3>1, <3>2, SamplerTypes
  <2>5. Fits
    BY <2>1, <2>3, <2>4
  <2>6. CountsRight'
    BY <2>1, SamplerTypes, CountsKept
  <2>7. RatesInv'
    BY <2>1, <2>2, <2>5 DEF RatesInv
  <2>8. P!Elements(pressureListeners') = P!Elements(pressureListeners) /\ P!Elements(telling') = P!Elements(telling)
    BY <2>1
  <2> QED
    BY <2>1, <2>5, <2>6, <2>7, <2>8, SamplerTypes, SamplerParts
<1> QED
  BY <1>1, <1>2, <1>3

\* A sample: everybody is to be told of a change, or there is none.
LEMMA SampleKeeps ==
    ASSUME SamplerInv, P!samplePressure
    PROVE  SamplerInv'
<1> DEFINE aged == [i \in DOMAIN warned |-> [warned[i] EXCEPT !.age = IF @ < Minute THEN @ + 1 ELSE @]]
<1>1. /\ telling = <<>> /\ overThreshold = {} /\ reason' = P!computePressureReason
      /\ telling' = IF P!computePressureReason # reason THEN pressureListeners ELSE <<>>
      /\ overThreshold' = P!computeTopPublishers
      /\ heard' = IF P!computeTopPublishers = {} THEN RateWatchers ELSE {}
      /\ publishCountWindow' = 0 /\ topicPublishStats' = [t \in Topics |-> 0] /\ refused' = 0
      /\ warned' = aged
      /\ UNCHANGED <<load, pressureListeners, rateListeners, reporting, known>>
  BY DEF P!samplePressure, P!Idle
<1>2. reason' \in P!Reasons /\ overThreshold' \subseteq Topics /\ telling' \in Seq(Listeners)
  BY <1>1, SamplerTypes DEF P!computePressureReason, P!computeTopPublishers, P!Reasons
<1>3. /\ warned' \in Seq([topic: Topics, age: 0..Minute]) /\ Len(warned') <= WarnMax
      /\ \A i, j \in DOMAIN warned' : warned'[i].topic = warned'[j].topic => i = j
  <2>1. ASSUME NEW i \in DOMAIN warned PROVE aged[i] \in [topic: Topics, age: 0..Minute] /\ aged[i].topic = warned[i].topic
    <3>1. warned[i] \in [topic: Topics, age: 0..Minute]
      <4> DEFINE Entries == [topic: Topics, age: 0..Minute]
      <4>1. warned \in Seq(Entries)
        BY SamplerTypes
      <4> HIDE DEF Entries, aged
      <4>2. warned[i] \in Entries
        BY <4>1
      <4> QED
        BY <4>2 DEF Entries
    <3> DEFINE e == warned[i]
    <3>2. aged[i] = [e EXCEPT !.age = IF @ < Minute THEN @ + 1 ELSE @]
      OBVIOUS
    <3>3. e \in [topic: Topics, age: 0..Minute]
      BY <3>1
    <3> HIDE DEF e, aged
    <3>4. (IF e.age < Minute THEN e.age + 1 ELSE e.age) \in 0..Minute
      BY <3>3, SamplerConstants
    <3>5. aged[i] \in [topic: Topics, age: 0..Minute] /\ aged[i].topic = e.topic
      BY <3>2, <3>3, <3>4
    <3> QED
      BY <3>5 DEF e
  <2>2. DOMAIN warned = 1..Len(warned) /\ Len(warned) \in Nat /\ DOMAIN aged = DOMAIN warned
    BY SamplerTypes
  <2> HIDE DEF aged
  <2>3. aged \in [1..Len(warned) -> [topic: Topics, age: 0..Minute]]
    <3>1. aged = [i \in DOMAIN warned |-> aged[i]]
      BY DEF aged
    <3> QED
      BY <2>1, <2>2, <3>1
  <2>4. aged \in Seq([topic: Topics, age: 0..Minute]) /\ Len(aged) = Len(warned)
    <3> DEFINE Entries == [topic: Topics, age: 0..Minute]
               n == Len(warned)
    <3>1. aged \in [1..n -> Entries] /\ n \in Nat
      BY <2>2, <2>3
    <3> HIDE DEF Entries, n
    <3>2. aged \in Seq(Entries) /\ Len(aged) = n
      BY <3>1
    <3> QED
      BY <3>2 DEF Entries, n
  <2> QED
    BY <1>1, <2>1, <2>2, <2>4, SamplerTypes
<1>4. ASSUME NEW l \in P!Elements(pressureListeners') \ P!Elements(telling') PROVE known'[l] = reason'
  <2>1. P!Elements(pressureListeners') = P!Elements(pressureListeners)
    BY <1>1 DEF P!Elements
  <2>2. CASE P!computePressureReason # reason
    <3>1. P!Elements(telling') = P!Elements(pressureListeners)
      BY <1>1, <2>2 DEF P!Elements
    <3> QED
      BY <2>1, <3>1
  <2>3. CASE P!computePressureReason = reason
    <3>1. P!Elements(telling) = {}
      BY <1>1 DEF P!Elements
    <3> QED
      BY <1>1, <2>1, <2>3, <3>1, SamplerTypes
  <2> QED
    BY <2>2, <2>3
<1>5. CountsRight'
  <2>1. topicPublishStats' \in [Topics -> Nat]
    BY <1>1
  <2>2. Pairs(topicPublishStats') = Pairs([t \in Topics |-> 0])
    BY <1>1
  <2> QED
    BY <1>1, <2>1, <2>2, PairsNone DEF CountsRight
<1>6. RatesInv' /\ heard' \subseteq RateWatchers
  <2>1. reporting = <<>> /\ P!Elements(rateListeners) \subseteq RateWatchers /\ P!Elements(<<>>) = {}
    BY <1>1, SamplerTypes, RoundElements DEF RatesInv
  <2>2. reporting' = <<>> /\ rateListeners' = rateListeners
    BY <1>1, <2>1
  <2>3. heard' \subseteq RateWatchers /\ (overThreshold' = {} => heard' = RateWatchers)
    BY <1>1
  <2> QED
    BY <2>1, <2>2, <2>3 DEF RatesInv
<1> QED
  BY <1>1, <1>2, <1>3, <1>4, <1>5, <1>6, SamplerTypes, SamplerParts

\* What is left of a round after a call, and who registers in it.
LEMMA RoundGoesOn ==
    ASSUME NEW S, NEW round \in Seq(S), NEW threw
    PROVE  /\ P!Round(round, threw) \in Seq(S)
           /\ round = <<>> => P!Round(round, threw) = <<>>
           /\ round # <<>> => /\ Head(round) \in S
                              /\ P!Elements(round) = {Head(round)} \cup P!Elements(P!Round(round, threw))
           /\ \A x \in S : \A rest \in Seq(S) :
                 /\ P!Joins(round, rest, x) \in Seq(S)
                 /\ round = <<>> => P!Joins(round, rest, x) = rest
                 /\ round # <<>> => P!Elements(P!Joins(round, rest, x)) = P!Elements(rest) \cup {x}
<1>1. CASE round = <<>>
  BY <1>1 DEF P!Round, P!Rest, P!Joins
<1>2. CASE round # <<>>
  <2>1. P!Round(round, threw) = Tail(round) /\ \A x \in S : \A rest \in Seq(S) : P!Joins(round, rest, x) = Append(rest, x)
    BY <1>2 DEF P!Round, P!Rest, P!Joins
  <2>2. \A x \in S : \A rest \in Seq(S) :
           Append(rest, x) \in Seq(S) /\ P!Elements(Append(rest, x)) = P!Elements(rest) \cup {x}
    BY RoundElements
  <2>3. /\ Head(round) \in S /\ Tail(round) \in Seq(S)
        /\ P!Elements(round) = {Head(round)} \cup P!Elements(Tail(round))
    BY <1>2, RoundElements
  <2> QED
    BY <1>2, <2>1, <2>2, <2>3
<1> QED
  BY <1>1, <1>2

\* How a callback leaves one Set, set, of what S and its round behind: the
\* others of the round are still to come, and so is who joined a round that goes.
Behind(S, set, round, rest, set1, round1) ==
    /\ set1 \in Seq(S) /\ round1 \in Seq(S)
    /\ round = <<>> => round1 = <<>>
    /\ \A x \in P!Elements(set1) \ P!Elements(round1) :
          IF x \in P!Elements(set) THEN x \notin P!Elements(rest) ELSE round = <<>>

\* A callback leaves a Set and its round alone, ends a registration, or makes one.
LEMMA LeavesBehind ==
    ASSUME NEW S, NEW set \in Seq(S), NEW round \in Seq(S), NEW threw, NEW set1, NEW round1,
           LET rest == P!Round(round, threw)
           IN  \/ set1 = set /\ round1 = rest
               \/ \E x \in S : set1 = P!Within(set, S \ {x}) /\ round1 = P!Within(rest, S \ {x})
               \/ \E x \in S : set1 = Append(set, x) /\ round1 = P!Joins(round, rest, x)
    PROVE  Behind(S, set, round, P!Round(round, threw), set1, round1)
<1> DEFINE rest == P!Round(round, threw)
<1>1. /\ rest \in Seq(S) /\ (round = <<>> => rest = <<>>)
      /\ \A x \in S : /\ P!Joins(round, rest, x) \in Seq(S)
                      /\ round = <<>> => P!Joins(round, rest, x) = rest
                      /\ round # <<>> => P!Elements(P!Joins(round, rest, x)) = P!Elements(rest) \cup {x}
  BY RoundGoesOn
<1>2. \/ set1 = set /\ round1 = rest
      \/ \E x \in S : set1 = P!Within(set, S \ {x}) /\ round1 = P!Within(rest, S \ {x})
      \/ \E x \in S : set1 = Append(set, x) /\ round1 = P!Joins(round, rest, x)
  OBVIOUS
<1> SUFFICES Behind(S, set, round, rest, set1, round1)
  OBVIOUS
<1> HIDE DEF rest
<1>3. CASE set1 = set /\ round1 = rest
  BY <1>1, <1>3 DEF Behind
<1>4. ASSUME NEW x \in S, set1 = P!Within(set, S \ {x}), round1 = P!Within(rest, S \ {x})
      PROVE  Behind(S, set, round, rest, set1, round1)
  <2> DEFINE K == S \ {x}
  <2>1. set1 = P!Within(set, K) /\ round1 = P!Within(rest, K)
    BY <1>4
  <2> HIDE DEF K
  <2>2. set1 \in Seq(S) /\ round1 \in Seq(S)
    BY <1>1, <2>1, SamplerWithinType
  <2>3. P!Elements(set1) = P!Elements(set) \cap K /\ P!Elements(round1) = P!Elements(rest) \cap K
    BY <1>1, <2>1, RoundElements
  <2>4. rest = <<>> => round1 = <<>>
    <3> SUFFICES ASSUME rest = <<>> PROVE round1 = <<>>
      OBVIOUS
    <3>1. \A i \in DOMAIN rest : rest[i] \notin K
      OBVIOUS
    <3>2. Within(rest, K) = <<>>
      BY <1>1, <3>1, WithinNone
    <3> QED
      BY <2>1, <3>2, SamplerWithin
  <2> QED
    BY <1>1, <2>2, <2>3, <2>4 DEF Behind
<1>5. ASSUME NEW x \in S, set1 = Append(set, x), round1 = P!Joins(round, rest, x)
      PROVE  Behind(S, set, round, rest, set1, round1)
  <2>1. set1 \in Seq(S) /\ P!Elements(set1) = P!Elements(set) \cup {x}
    BY <1>5, RoundElements
  <2> QED
    BY <1>1, <1>5, <2>1 DEF Behind
<1> QED
  BY <1>2, <1>3, <1>4, <1>5

\* The next listener is called, whatever it does.
LEMMA CallKeeps ==
    ASSUME SamplerInv, P!Call
    PROVE  SamplerInv'
<1>1. PICK threw \in BOOLEAN :
        LET toTell == P!Round(telling, threw)
            toReport == P!Round(reporting, threw)
        IN  /\ \/ /\ telling' = toTell /\ reporting' = toReport
                  /\ (\E t \in Topics : P!Published(t)) \/ UNCHANGED <<publishCountWindow, topicPublishStats, refused>>
                  /\ UNCHANGED <<pressureListeners, rateListeners>>
               \/ /\ \E l \in Listeners : /\ pressureListeners' = P!Within(pressureListeners, Listeners \ {l})
                                          /\ telling' = P!Within(toTell, Listeners \ {l})
                  /\ reporting' = toReport
                  /\ UNCHANGED <<publishCountWindow, topicPublishStats, refused, rateListeners>>
               \/ /\ \E l \in Listeners : /\ pressureListeners' = Append(pressureListeners, l)
                                          /\ telling' = P!Joins(telling, toTell, l)
                  /\ reporting' = toReport
                  /\ UNCHANGED <<publishCountWindow, topicPublishStats, refused, rateListeners>>
               \/ /\ \E w \in RateWatchers : /\ rateListeners' = P!Within(rateListeners, RateWatchers \ {w})
                                             /\ reporting' = P!Within(toReport, RateWatchers \ {w})
                  /\ telling' = toTell
                  /\ UNCHANGED <<publishCountWindow, topicPublishStats, refused, pressureListeners>>
               \/ /\ \E w \in RateWatchers : /\ rateListeners' = Append(rateListeners, w)
                                             /\ reporting' = P!Joins(reporting, toReport, w)
                  /\ telling' = toTell
                  /\ UNCHANGED <<publishCountWindow, topicPublishStats, refused, pressureListeners>>
  <2>1. P!Elements(pressureListeners) \subseteq Listeners /\ P!Elements(rateListeners) \subseteq RateWatchers
    BY SamplerTypes, RoundElements
  <2> QED
    BY <2>1 DEF P!Call, P!countVars
<1>2. /\ telling # <<>> \/ reporting # <<>>
      /\ known' = [l \in Listeners |->
           IF (telling # <<>> /\ l = Head(telling)) \/ l \in P!Elements(pressureListeners') \ P!Elements(pressureListeners)
           THEN reason ELSE known[l]]
      /\ heard' = IF reporting = <<>> THEN heard ELSE heard \cup {Head(reporting)}
      /\ overThreshold' = IF reporting # <<>> /\ reporting' = <<>> THEN {} ELSE overThreshold
      /\ UNCHANGED <<load, reason, warned>>
  BY DEF P!Call
<1> DEFINE toTell == P!Round(telling, threw)
           toReport == P!Round(reporting, threw)
<1>3. Behind(Listeners, pressureListeners, telling, toTell, pressureListeners', telling')
  <2>1. \/ pressureListeners' = pressureListeners /\ telling' = toTell
        \/ \E l \in Listeners : /\ pressureListeners' = P!Within(pressureListeners, Listeners \ {l})
                                /\ telling' = P!Within(toTell, Listeners \ {l})
        \/ \E l \in Listeners : /\ pressureListeners' = Append(pressureListeners, l)
                                /\ telling' = P!Joins(telling, toTell, l)
    BY <1>1
  <2> QED
    BY <2>1, SamplerTypes, LeavesBehind
<1>4. Behind(RateWatchers, rateListeners, reporting, toReport, rateListeners', reporting')
  <2>1. \/ rateListeners' = rateListeners /\ reporting' = toReport
        \/ \E w \in RateWatchers : /\ rateListeners' = P!Within(rateListeners, RateWatchers \ {w})
                                   /\ reporting' = P!Within(toReport, RateWatchers \ {w})
        \/ \E w \in RateWatchers : /\ rateListeners' = Append(rateListeners, w)
                                   /\ reporting' = P!Joins(reporting, toReport, w)
    BY <1>1
  <2> QED
    BY <2>1, SamplerTypes, LeavesBehind
<1>5. CountsRight'
  <2>1. CASE UNCHANGED <<publishCountWindow, topicPublishStats, refused>>
    BY <2>1, SamplerTypes, CountsKept
  <2>2. CASE \E t \in Topics : P!Published(t)
    BY <2>2, SamplerTypes, PublishedCounts
  <2> QED
    BY <1>1, <2>1, <2>2
<1>6. /\ telling # <<>> => Head(telling) \in Listeners /\ P!Elements(telling) = {Head(telling)} \cup P!Elements(toTell)
      /\ reporting # <<>> => /\ Head(reporting) \in RateWatchers
                             /\ P!Elements(reporting) = {Head(reporting)} \cup P!Elements(toReport)
  BY SamplerTypes, RoundGoesOn
<1> HIDE DEF toTell, toReport
<1>7. pressureListeners' \in Seq(Listeners) /\ telling' \in Seq(Listeners)
  BY <1>3 DEF Behind
<1>8. rateListeners' \in Seq(RateWatchers) /\ reporting' \in Seq(RateWatchers)
  BY <1>4 DEF Behind
<1>9. known' \in [Listeners -> P!Reasons]
  BY <1>2, SamplerTypes
\* Who is in the Set afterwards and not to be called was told, or is new.
<1>10. ASSUME NEW l \in P!Elements(pressureListeners') \ P!Elements(telling')
       PROVE  known'[l] = reason'
  <2>1. l \in Listeners
    BY <1>7, RoundElements
  <2>2. CASE (telling # <<>> /\ l = Head(telling)) \/ l \notin P!Elements(pressureListeners)
    BY <1>2, <2>1, <2>2
  <2>3. CASE ~(telling # <<>> /\ l = Head(telling)) /\ l \in P!Elements(pressureListeners)
    <3>1. l \notin P!Elements(toTell)
      BY <1>3, <2>3 DEF Behind
    <3>2. l \notin P!Elements(telling)
      BY <1>6, <2>3, <3>1 DEF P!Elements
    <3>3. known[l] = reason
      BY <2>3, <3>2, SamplerTypes
    <3> QED
      BY <1>2, <2>1, <3>3
  <2> QED
    BY <2>2, <2>3
<1>11. heard' \subseteq RateWatchers /\ overThreshold' \subseteq Topics
  BY <1>2, <1>6, SamplerTypes
<1>12. RatesInv'
  <2>1. CASE telling # <<>>
    <3>1. reporting = <<>> /\ (overThreshold = {} => heard = RateWatchers)
      BY <2>1, SamplerTypes DEF RatesInv
    <3>2. reporting' = <<>> /\ heard' = heard /\ overThreshold' = overThreshold
      BY <1>2, <1>4, <3>1 DEF Behind
    <3>3. P!Elements(rateListeners') \subseteq RateWatchers
      BY <1>8, RoundElements
    <3> QED
      BY <3>1, <3>2, <3>3 DEF RatesInv
  <2>2. CASE telling = <<>>
    <3>1. reporting # <<>> /\ telling' = <<>> /\ overThreshold # {}
      BY <1>2, <1>3, <2>2, SamplerTypes DEF Behind, RatesInv
    <3>2. P!Elements(rateListeners) \subseteq heard \cup P!Elements(reporting)
      BY <3>1, SamplerTypes DEF RatesInv
    <3>3. heard' = heard \cup {Head(reporting)} /\ (overThreshold' = {} <=> reporting' = <<>>)
      BY <1>2, <3>1
    <3>4. P!Elements(rateListeners') \subseteq heard' \cup P!Elements(reporting')
      <4> SUFFICES ASSUME NEW w \in P!Elements(rateListeners') \ P!Elements(reporting') PROVE w \in heard'
        OBVIOUS
      <4>1. w \in P!Elements(rateListeners) /\ w \notin P!Elements(toReport)
        BY <1>4, <3>1 DEF Behind
      <4> QED
        BY <1>6, <3>1, <3>2, <3>3, <4>1
    <3> QED
      BY <3>1, <3>3, <3>4 DEF RatesInv
  <2> QED
    BY <2>1, <2>2
<1> QED
  BY <1>2, <1>5, <1>7, <1>8, <1>9, <1>10, <1>11, <1>12, SamplerTypes, SamplerParts

\* The rate listeners' round begins with all of them.
LEMMA ReportKeeps ==
    ASSUME SamplerInv, P!ReportToListeners
    PROVE  SamplerInv'
<1>1. /\ telling = <<>> /\ overThreshold # {} /\ reporting' = rateListeners
      /\ UNCHANGED <<publishCountWindow, topicPublishStats, refused, load, reason, pressureListeners,
                     rateListeners, telling, overThreshold, warned, known, heard>>
  BY DEF P!ReportToListeners, P!countVars
<1>2. CountsRight' /\ RatesInv'
  BY <1>1, SamplerTypes, CountsKept DEF RatesInv
<1>3. P!Elements(pressureListeners') = P!Elements(pressureListeners) /\ P!Elements(telling') = P!Elements(telling)
  BY <1>1 DEF P!Elements
<1> QED
  BY <1>1, <1>2, <1>3, SamplerTypes, SamplerParts

\* Entries of the log: what a topic's report makes of them.
LEMMA LogKeeps ==
    ASSUME SamplerInv, NEW t \in Topics, P!ReportInLog(t)
    PROVE  /\ warned' \in Seq([topic: Topics, age: 0..Minute]) /\ Len(warned') <= WarnMax
           /\ \A i, j \in DOMAIN warned' : warned'[i].topic = warned'[j].topic => i = j
<1> DEFINE Entries == [topic: Topics, age: 0..Minute]
           new == P!Entry(t)
           kept == IF Len(warned) >= WarnMax THEN Tail(warned) ELSE warned
           again == [i \in DOMAIN warned |-> IF warned[i].topic = t THEN new ELSE warned[i]]
<1>1. warned \in Seq(Entries) /\ Len(warned) <= WarnMax /\ Len(warned) \in Nat /\ DOMAIN warned = 1..Len(warned)
  BY SamplerTypes
<1>2. \A i, j \in DOMAIN warned : warned[i].topic = warned[j].topic => i = j
  BY SamplerTypes
<1>3. new \in Entries /\ new.topic = t
  BY SamplerConstants DEF P!Entry
<1>4. \/ warned' = warned
      \/ warned' = again
      \/ ~P!Logged(t) /\ warned' = Append(kept, new)
  BY DEF P!ReportInLog
<1> HIDE DEF Entries, new
<1>5. CASE warned' = warned
  BY <1>1, <1>2, <1>5 DEF Entries
<1>6. CASE warned' = again
  <2>1. DOMAIN again = DOMAIN warned /\ \A i \in DOMAIN warned : again[i] \in Entries /\ again[i].topic = warned[i].topic
    BY <1>1, <1>3
  <2> DEFINE n == Len(warned)
  <2>2. again \in [1..n -> Entries] /\ n \in Nat
    <3>1. again = [i \in 1..n |-> again[i]]
      BY <1>1
    <3> HIDE DEF again
    <3> QED
      BY <1>1, <2>1, <3>1
  <2> HIDE DEF again, n
  <2>3. again \in Seq(Entries) /\ Len(again) = n
    BY <2>2
  <2> QED
    BY <1>1, <1>2, <1>6, <2>1, <2>3 DEF Entries, n
<1>7. CASE ~P!Logged(t) /\ warned' = Append(kept, new)
  <2>1. \A i \in DOMAIN warned : warned[i].topic # t
    BY <1>7 DEF P!Logged
  <2>2. WarnMax \in Nat \ {0}
    BY SamplerConstants
  <2>3. /\ kept \in Seq(Entries) /\ Len(kept) \in Nat /\ Len(kept) < WarnMax /\ DOMAIN kept = 1..Len(kept)
        /\ \A i \in DOMAIN kept : kept[i].topic # t
        /\ \A i, j \in DOMAIN kept : kept[i].topic = kept[j].topic => i = j
    <3>1. CASE Len(warned) >= WarnMax
      <4>1. kept = Tail(warned) /\ warned # <<>> /\ Len(warned) = WarnMax
        <5>1. kept = Tail(warned)
          BY <3>1
        <5> HIDE DEF kept
        <5>2. Len(warned) = WarnMax /\ Len(warned) # 0
          <6> DEFINE n == Len(warned)
          <6>1. n \in Nat /\ n <= WarnMax /\ n >= WarnMax
            BY <1>1, <3>1
          <6> HIDE DEF n
          <6>2. n = WarnMax /\ n # 0
            BY <2>2, <6>1
          <6> QED
            BY <6>2 DEF n
        <5>3. warned # <<>>
          BY <5>2
        <5> QED
          BY <5>1, <5>2, <5>3
      <4>2. Tail(warned) \in Seq(Entries) /\ Len(Tail(warned)) = Len(warned) - 1
        BY <1>1, <4>1
      <4>3. \A i \in 1..(Len(warned) - 1) : Tail(warned)[i] = warned[i + 1] /\ i + 1 \in DOMAIN warned
        BY <1>1, <4>1
      <4>4. Len(kept) \in Nat /\ DOMAIN kept = 1..(Len(warned) - 1) /\ Len(kept) = Len(warned) - 1
        BY <1>1, <4>1, <4>2
      <4>5. \A i \in DOMAIN kept : kept[i] = warned[i + 1] /\ i + 1 \in DOMAIN warned
        BY <4>1, <4>3, <4>4
      <4>6. \A i \in DOMAIN kept : i \in Int
        BY <4>4
      <4> HIDE DEF kept
      <4>7. ASSUME NEW i \in DOMAIN kept, NEW j \in DOMAIN kept, kept[i].topic = kept[j].topic PROVE i = j
        <5>1. warned[i + 1].topic = warned[j + 1].topic
          BY <4>5, <4>7
        <5>2. i + 1 = j + 1
          BY <1>2, <4>5, <5>1
        <5> QED
          BY <4>6, <5>2
      <4>8. \A i \in DOMAIN kept : kept[i].topic # t
        BY <2>1, <4>5
      <4>9. Len(kept) < WarnMax
        BY <1>1, <2>2, <4>1, <4>4
      <4> QED
        BY <4>1, <4>2, <4>4, <4>7, <4>8, <4>9
    <3>2. CASE ~(Len(warned) >= WarnMax)
      <4>1. kept = warned /\ Len(warned) < WarnMax
        BY <1>1, <2>2, <3>2
      <4> HIDE DEF kept
      <4> QED
        BY <1>1, <1>2, <2>1, <4>1
    <3> QED
      BY <3>1, <3>2
  <2> HIDE DEF kept
  <2> DEFINE s == Append(kept, new)
             n == Len(kept)
  <2>4. s \in Seq(Entries) /\ Len(s) = n + 1 /\ DOMAIN s = 1..(n + 1)
    BY <1>3, <2>3
  <2>5. \A i \in 1..n : s[i] = kept[i]
    BY <1>3, <2>3
  <2>6. s[n + 1] = new
    BY <1>3, <2>3
  <2>7. n \in Nat /\ n < WarnMax /\ DOMAIN kept = 1..n
    BY <2>3
  <2> HIDE DEF s, n
  <2>8. \A i \in 1..(n + 1) : i \in 1..n \/ i = n + 1
    BY <2>7
  <2>9. ASSUME NEW i \in DOMAIN s, NEW j \in DOMAIN s, s[i].topic = s[j].topic PROVE i = j
    BY <1>3, <2>3, <2>4, <2>5, <2>6, <2>7, <2>8, <2>9
  <2>10. Len(s) <= WarnMax
    BY <2>2, <2>4, <2>7
  <2> QED
    BY <1>7, <2>4, <2>9, <2>10 DEF s, Entries
<1> QED
  BY <1>4, <1>5, <1>6, <1>7

LEMMA ReportInLogKeeps ==
    ASSUME SamplerInv, NEW t \in Topics, P!ReportInLog(t)
    PROVE  SamplerInv'
<1>1. /\ overThreshold' = overThreshold \ {t} /\ telling = <<>> /\ reporting = <<>> /\ rateListeners = <<>>
      /\ UNCHANGED <<publishCountWindow, topicPublishStats, refused, load, reason, pressureListeners,
                     rateListeners, telling, reporting, known, heard>>
  BY DEF P!ReportInLog, P!countVars
<1>2. overThreshold' \subseteq Topics
  BY <1>1, SamplerTypes
<1>3. \A l \in P!Elements(pressureListeners') \ P!Elements(telling') : known'[l] = reason'
  <2>1. P!Elements(pressureListeners') = P!Elements(pressureListeners) /\ P!Elements(telling') = P!Elements(telling)
    BY <1>1 DEF P!Elements
  <2> QED
    BY <1>1, <2>1, SamplerTypes
<1>4. CountsRight' /\ RatesInv'
  BY <1>1, SamplerTypes, CountsKept DEF RatesInv, P!Elements
<1> QED
  BY <1>1, <1>2, <1>3, <1>4, LogKeeps, SamplerTypes, SamplerParts

LEMMA SamplerStep == SamplerInv /\ [P!Next]_pressureVars => SamplerInv'
<1> SUFFICES ASSUME SamplerInv, [P!Next]_pressureVars PROVE SamplerInv'
  OBVIOUS
<1>1. CASE UNCHANGED pressureVars
  <2>1. CountsRight'
    BY <1>1, SamplerTypes, CountsKept DEF pressureVars
  <2> QED
    BY <1>1, <2>1, SamplerTypes, TellingKept DEF pressureVars
<1>2. CASE P!Next
  BY <1>2, PublishKeeps, ApplicationKeeps, SampleKeeps, CallKeeps, ReportKeeps, ReportInLogKeeps DEF P!Next
<1> QED
  BY <1>1, <1>2

\* What the sampler keeps is as it should be: a listener that looked at
\* platform.pressure when it registered knows the reason the snapshot gives, and
\* every rate listener was told of the sample's topics, whatever the listeners
\* before them threw, registered or ended; the two counts of publishes differ by
\* those that threw before their topic was counted.
THEOREM EveryWatcherIsTold == PartsSpec => []PressureIsTold
<1>1. PartsInit => SamplerInv
  BY SamplerInit DEF PartsInit
<1>2. SamplerInv /\ [PartsNext]_<<part, vars, relayVars, pressureVars>> => SamplerInv'
  <2> SUFFICES ASSUME SamplerInv, [PartsNext]_<<part, vars, relayVars, pressureVars>> PROVE SamplerInv'
    OBVIOUS
  <2>1. [P!Next]_pressureVars
    BY DEF PartsNext
  <2> QED
    BY <2>1, SamplerStep
<1>3. SamplerInv => PressureIsTold
  <2> SUFFICES ASSUME SamplerInv PROVE PressureIsTold
    OBVIOUS
  <2>1. P!Counted = Pairs(topicPublishStats)
    BY DEF P!Counted, Pairs
  <2>2. P!Cardinality(P!Counted) = Cardinality(Pairs(topicPublishStats))
    BY <2>1 DEF P!Cardinality, Cardinality
  <2>3. P!CountsAgree
    BY <2>2 DEF P!CountsAgree, SamplerInv
  <2>4. P!WatchersKnow
    BY DEF P!WatchersKnow, P!Elements, SamplerInv
  <2>5. P!RatesAreHeard
    BY DEF P!RatesAreHeard, P!Idle, P!Elements, SamplerInv, RatesInv
  <2> QED
    BY <2>3, <2>4, <2>5 DEF PressureIsTold, P!PressureIsTold, SamplerInv
<1> QED
  BY <1>1, <1>2, <1>3, PTL DEF PartsSpec

-----------------------------------------------------------------------------
(* Publishing across a cluster: what FlattenSeq and Within do to lines. *)

\* FlattenSeq goes through a line of lines and joins one after the other.
Stepped(S, ss) ==
    \E f \in [0..Len(ss) -> Seq(S)] :
        /\ f[0] = <<>> /\ R!FlattenSeq(ss) = f[Len(ss)]
        /\ \A i \in 0..(Len(ss) - 1) : f[i + 1] = f[i] \o ss[i + 1]

LEMMA FlattenSteps ==
    ASSUME NEW S
    PROVE  \A ss \in Seq(Seq(S)) : Stepped(S, ss)
<1> SUFFICES ASSUME NEW ss \in Seq(Seq(S))
             PROVE  \E f \in [0..Len(ss) -> Seq(S)] :
                       /\ f[0] = <<>> /\ R!FlattenSeq(ss) = f[Len(ss)]
                       /\ \A i \in 0..(Len(ss) - 1) : f[i + 1] = f[i] \o ss[i + 1]
  BY Zenon DEF Stepped
<1> DEFINE L == Len(ss)
           Step(g) == [i \in 1..L |-> IF i = 1 THEN ss[i] ELSE g[i - 1] \o ss[i]]
           Upto(n, g) == \A i \in 1..n : g[i] = IF i = 1 THEN ss[i] ELSE g[i - 1] \o ss[i]
           G == {n \in 0..L : \E g \in [1..n -> Seq(S)] : Upto(n, g)}
<1>1. L \in Nat /\ \A i \in 1..L : ss[i] \in Seq(S)
  OBVIOUS
<1>2. CASE L = 0
  <2>1. ss = <<>>
    BY <1>2
  <2>2. R!FlattenSeq(ss) = <<>>
    BY <2>1, <1>2 DEF R!FlattenSeq
  <2> DEFINE f == [i \in 0..L |-> <<>>]
  <2>3. f \in [0..L -> Seq(S)] /\ f[0] = <<>> /\ f[L] = <<>>
    BY <1>1
  <2>4. 0..(L - 1) = {}
    BY <1>2
  <2> QED
    BY <2>2, <2>3, <2>4
<1>3. CASE L # 0
  <2>1. 0 \in G
    <3> DEFINE none == [i \in 1..0 |-> <<>>]
    <3>0. 1..0 = {}
      OBVIOUS
    <3>3. none \in [1..0 -> Seq(S)]
      BY <3>0
    <3>4. Upto(0, none)
      BY <3>0
    <3> HIDE DEF none, Upto
    <3>1. \E g \in [1..0 -> Seq(S)] : Upto(0, g)
      BY <3>3, <3>4
    <3>2. 0 \in 0..L
      BY <1>1
    <3> QED
      BY <3>1, <3>2 DEF Upto
  <2>2. ASSUME NEW n \in 0..(L - 1), n \in G PROVE n + 1 \in G
    <3>1. PICK g \in [1..n -> Seq(S)] : Upto(n, g)
      BY <2>2
    <3> DEFINE new == IF n = 0 THEN ss[1] ELSE g[n] \o ss[n + 1]
               h == [i \in 1..(n + 1) |-> IF i = n + 1 THEN new ELSE g[i]]
    <3>2. n \in Nat /\ n + 1 \in 1..L /\ n + 1 \in 0..L /\ (n = 0 => 1 \in 1..L)
      BY <1>1
    <3>3. new \in Seq(S)
      <4>1. ss[n + 1] \in Seq(S) /\ (n = 0 => ss[1] \in Seq(S))
        BY <1>1, <3>2
      <4>2. n # 0 => g[n] \in Seq(S)
        BY <3>2
      <4> QED
        BY <4>1, <4>2
    <3>4. h \in [1..(n + 1) -> Seq(S)]
      <4>1. \A i \in 1..(n + 1) : i # n + 1 => i \in 1..n
        BY <3>2
      <4> HIDE DEF new
      <4> QED
        BY <3>3, <4>1
    <3>5. \A i \in 1..(n + 1) : h[i] = IF i = n + 1 THEN new ELSE g[i]
      OBVIOUS
    <3> HIDE DEF h
    <3>6. ASSUME NEW i \in 1..(n + 1) PROVE h[i] = IF i = 1 THEN ss[i] ELSE h[i - 1] \o ss[i]
      <4>1. CASE i = n + 1
        <5>1. CASE n = 0
          BY <3>5, <4>1, <5>1
        <5>2. CASE n # 0
          <6>1. i - 1 = n /\ n \in 1..(n + 1) /\ n # n + 1 /\ i # 1
            BY <3>2, <4>1, <5>2
          <6>2. h[n] = g[n] /\ h[i] = new
            BY <3>5, <4>1, <6>1
          <6> QED
            BY <4>1, <5>2, <6>1, <6>2
        <5> QED
          BY <5>1, <5>2
      <4>2. CASE i # n + 1
        <5>1. i \in 1..n
          BY <3>2, <4>2
        <5>2. g[i] = IF i = 1 THEN ss[i] ELSE g[i - 1] \o ss[i]
          BY <3>1, <5>1
        <5>3. i # 1 => i - 1 \in 1..(n + 1) /\ i - 1 # n + 1
          BY <3>2, <5>1
        <5>4. h[i] = g[i] /\ (i # 1 => h[i - 1] = g[i - 1])
          BY <3>5, <4>2, <5>3
        <5> QED
          BY <5>2, <5>4
      <4> QED
        BY <4>1, <4>2
    <3>7. Upto(n + 1, h)
      BY <3>6
    <3> QED
      BY <3>2, <3>4, <3>7
  <2>3. L \in G
    <3>1. L \in 0..L
      BY <1>1
    <3> HIDE DEF G, L
    <3> QED
      BY <1>1, <2>1, <2>2, <3>1, Climb
  <2>4. PICK g \in [1..L -> Seq(S)] : Upto(L, g)
    BY <2>3
  <2>5. g = Step(g)
    <3>1. g = [i \in 1..L |-> g[i]]
      OBVIOUS
    <3>2. \A i \in 1..L : g[i] = IF i = 1 THEN ss[i] ELSE g[i - 1] \o ss[i]
      BY <2>4
    <3> QED
      BY <3>1, <3>2
  <2> DEFINE c == CHOOSE x : x = Step(x)
  <2>6. c = Step(c)
    <3> HIDE DEF Step
    <3> QED
      BY <2>5
  <2>7. R!FlattenSeq(ss) = c[L]
    BY <1>3 DEF R!FlattenSeq
  <2> HIDE DEF c
  <2>8. \A i \in 1..L : c[i] = IF i = 1 THEN ss[i] ELSE c[i - 1] \o ss[i]
    BY <2>6
  <2> DEFINE H == {n \in 0..L : n = 0 \/ c[n] \in Seq(S)}
  <2>9. ASSUME NEW n \in 0..(L - 1), n \in H PROVE n + 1 \in H
    <3>1. n + 1 \in 1..L /\ n + 1 \in 0..L /\ (n + 1) - 1 = n /\ (n + 1 = 1 <=> n = 0)
      BY <1>1
    <3>2. ss[n + 1] \in Seq(S)
      BY <1>1, <3>1
    <3>3. c[n + 1] = IF n = 0 THEN ss[n + 1] ELSE c[n] \o ss[n + 1]
      BY <2>8, <3>1
    <3>4. c[n + 1] \in Seq(S)
      BY <2>9, <3>2, <3>3
    <3> QED
      BY <3>1, <3>4
  <2>10. \A n \in 0..L : n \in H
    <3>1. 0 \in H
      BY <1>1
    <3> HIDE DEF H, L
    <3> QED
      BY <1>1, <2>9, <3>1, Climb
  <2> DEFINE f == [i \in 0..L |-> IF i = 0 THEN <<>> ELSE c[i]]
  <2>11. f \in [0..L -> Seq(S)]
    BY <2>10
  <2>12. f[0] = <<>> /\ f[L] = c[L]
    BY <1>1, <1>3
  <2>13. ASSUME NEW i \in 0..(L - 1) PROVE f[i + 1] = f[i] \o ss[i + 1]
    <3>1. i + 1 \in 1..L /\ i + 1 \in 0..L /\ i \in 0..L /\ (i + 1) - 1 = i /\ (i + 1 = 1 <=> i = 0)
      BY <1>1
    <3>2. ss[i + 1] \in Seq(S)
      BY <1>1, <3>1
    <3>3. c[i + 1] = IF i = 0 THEN ss[i + 1] ELSE c[i] \o ss[i + 1]
      BY <2>8, <3>1
    <3>4. f[i + 1] = c[i + 1] /\ f[i] = IF i = 0 THEN <<>> ELSE c[i]
      BY <3>1
    <3> HIDE DEF f
    <3>5. CASE i = 0
      <4>1. f[i] = <<>> /\ f[i + 1] = ss[i + 1]
        BY <3>3, <3>4, <3>5
      <4>2. <<>> \o ss[i + 1] = ss[i + 1]
        BY <3>2
      <4> QED
        BY <4>1, <4>2
    <3>6. CASE i # 0
      BY <3>3, <3>4, <3>6
    <3> QED
      BY <3>5, <3>6
  <2> HIDE DEF f
  <2> QED
    BY <2>7, <2>11, <2>12, <2>13
<1> QED
  BY <1>2, <1>3

\* Lines are joined from either end.
Assoc(x, y, z) == (x \o y) \o z = x \o (y \o z)

LEMMA JoinIsAssociative ==
    ASSUME NEW S
    PROVE  \A x, y, z \in Seq(S) : Assoc(x, y, z)
  BY ConcatAssociative DEF Assoc

LEMMA FlattenJoins ==
    ASSUME NEW S, NEW a \in Seq(Seq(S)), NEW b \in Seq(Seq(S))
    PROVE  /\ R!FlattenSeq(a \o b) = R!FlattenSeq(a) \o R!FlattenSeq(b)
           /\ R!FlattenSeq(a) \in Seq(S)
<1> DEFINE l == Len(a)
           m == Len(b)
           ab == a \o b
<1>1. /\ l \in Nat /\ m \in Nat /\ ab \in Seq(Seq(S)) /\ Len(ab) = l + m
      /\ \A i \in 1..l : ab[i] = a[i] /\ a[i] \in Seq(S)
      /\ \A i \in 1..m : ab[l + i] = b[i] /\ b[i] \in Seq(S)
  OBVIOUS
<1>2. PICK f \in [0..l -> Seq(S)] :
         /\ f[0] = <<>> /\ R!FlattenSeq(a) = f[l]
         /\ \A i \in 0..(l - 1) : f[i + 1] = f[i] \o a[i + 1]
  <2>1. \E e \in [0..Len(a) -> Seq(S)] :
           /\ e[0] = <<>> /\ R!FlattenSeq(a) = e[Len(a)]
           /\ \A i \in 0..(Len(a) - 1) : e[i + 1] = e[i] \o a[i + 1]
    BY FlattenSteps, Zenon DEF Stepped
  <2> QED
    BY <2>1
<1>3. PICK g \in [0..m -> Seq(S)] :
         /\ g[0] = <<>> /\ R!FlattenSeq(b) = g[m]
         /\ \A i \in 0..(m - 1) : g[i + 1] = g[i] \o b[i + 1]
  <2>1. \E e \in [0..Len(b) -> Seq(S)] :
           /\ e[0] = <<>> /\ R!FlattenSeq(b) = e[Len(b)]
           /\ \A i \in 0..(Len(b) - 1) : e[i + 1] = e[i] \o b[i + 1]
    BY FlattenSteps, Zenon DEF Stepped
  <2> QED
    BY <2>1
<1> HIDE DEF ab
<1>4. PICK h \in [0..(l + m) -> Seq(S)] :
         /\ h[0] = <<>> /\ R!FlattenSeq(ab) = h[l + m]
         /\ \A i \in 0..((l + m) - 1) : h[i + 1] = h[i] \o ab[i + 1]
  <2>1. \E h \in [0..Len(ab) -> Seq(S)] :
           /\ h[0] = <<>> /\ R!FlattenSeq(ab) = h[Len(ab)]
           /\ \A i \in 0..(Len(ab) - 1) : h[i + 1] = h[i] \o ab[i + 1]
    <3>1. ab \in Seq(Seq(S))
      BY <1>1
    <3>2. Stepped(S, ab)
      BY <3>1, FlattenSteps, Zenon
    <3> QED
      BY <3>2, Zenon DEF Stepped
  <2> QED
    BY <1>1, <2>1
<1> HIDE DEF l, m
<1> DEFINE G == {n \in 0..l : h[n] = f[n]}
           H == {n \in 0..m : h[l + n] = f[l] \o g[n]}
<1>5. \A n \in 0..l : n \in G
  <2>1. 0 \in G
    BY <1>1, <1>2, <1>4
  <2>2. ASSUME NEW n \in 0..(l - 1), n \in G PROVE n + 1 \in G
    <3>1. n + 1 \in 1..l /\ n + 1 \in 0..l /\ n \in 0..((l + m) - 1)
      BY <1>1
    <3>2. h[n + 1] = h[n] \o ab[n + 1] /\ f[n + 1] = f[n] \o a[n + 1] /\ ab[n + 1] = a[n + 1]
      BY <1>1, <1>2, <1>4, <3>1
    <3> QED
      BY <2>2, <3>1, <3>2
  <2> HIDE DEF G
  <2> QED
    BY <1>1, <2>1, <2>2, Climb
<1>6. \A n \in 0..m : n \in H
  <2>1. 0 \in H
    <3>1. l \in 0..l /\ l + 0 = l /\ 0 \in 0..m
      BY <1>1
    <3>2. h[l] = f[l] /\ f[l] \in Seq(S)
      BY <1>5, <3>1
    <3>3. f[l] \o <<>> = f[l]
      BY <3>2
    <3> QED
      BY <1>3, <3>1, <3>2, <3>3
  <2>2. ASSUME NEW n \in 0..(m - 1), n \in H PROVE n + 1 \in H
    <3> DEFINE k == l + n
               j == n + 1
    <3>1. k \in 0..((l + m) - 1) /\ j \in 1..m /\ j \in 0..m /\ n \in 0..m /\ k + 1 = l + j /\ l \in 0..l
      BY <1>1
    <3>2. h[k] = f[l] \o g[n]
      BY <2>2
    <3>3. h[k + 1] = h[k] \o ab[k + 1] /\ g[n + 1] = g[n] \o b[n + 1]
      BY <1>3, <1>4, <3>1
    <3> HIDE DEF k
    <3>4. ab[k + 1] = b[j] /\ b[j] \in Seq(S) /\ f[l] \in Seq(S) /\ g[n] \in Seq(S)
      <4>1. ab[l + j] = b[j] /\ b[j] \in Seq(S)
        BY <1>1, <3>1
      <4>2. f[l] \in Seq(S) /\ g[n] \in Seq(S)
        BY <3>1
      <4> QED
        BY <3>1, <4>1, <4>2
    <3>5. g[j] = g[n] \o b[j]
      BY <3>3
    <3> HIDE DEF j
    <3>6. h[l + j] = (f[l] \o g[n]) \o b[j]
      BY <3>1, <3>2, <3>3, <3>4
    <3>7. (f[l] \o g[n]) \o b[j] = f[l] \o (g[n] \o b[j])
      <4> DEFINE x == f[l]
                 y == g[n]
                 z == b[j]
      <4>1. x \in Seq(S) /\ y \in Seq(S) /\ z \in Seq(S)
        BY <3>4
      <4> HIDE DEF x, y, z
      <4>2. \A r, s, t \in Seq(S) : Assoc(r, s, t)
        BY JoinIsAssociative
      <4>3. Assoc(x, y, z)
        BY <4>1, <4>2, Zenon
      <4> QED
        BY <4>3 DEF x, y, z, Assoc
    <3>8. h[l + j] = f[l] \o g[j]
      BY <3>5, <3>6, <3>7
    <3> QED
      BY <3>1, <3>8 DEF j
  <2> HIDE DEF H
  <2> QED
    BY <1>1, <2>1, <2>2, Climb
<1>7. h[l + m] = f[l] \o g[m] /\ f[l] \in Seq(S)
  <2>1. m \in 0..m /\ l \in 0..l
    BY <1>1
  <2> QED
    BY <1>6, <2>1
<1> QED
  BY <1>2, <1>3, <1>4, <1>7 DEF ab

\* Lines of one, one after the other.
LEMMA FlattenSingles ==
    ASSUME NEW S, NEW s \in Seq(S)
    PROVE  /\ [i \in DOMAIN s |-> <<s[i]>>] \in Seq(Seq(S))
           /\ R!FlattenSeq([i \in DOMAIN s |-> <<s[i]>>]) = s
<1> DEFINE L == Len(s)
           ss == [i \in DOMAIN s |-> <<s[i]>>]
           first(n) == [i \in 1..n |-> s[i]]
<1>1. L \in Nat /\ DOMAIN s = 1..L /\ \A i \in 1..L : s[i] \in S /\ <<s[i]>> \in Seq(S) /\ ss[i] = <<s[i]>>
  OBVIOUS
<1>2. ss \in Seq(Seq(S)) /\ Len(ss) = L
  <2>1. ss \in [1..L -> Seq(S)]
    BY <1>1
  <2> HIDE DEF ss, L
  <2> QED
    BY <1>1, <2>1
<1> HIDE DEF ss
<1>3. PICK f \in [0..L -> Seq(S)] :
         /\ f[0] = <<>> /\ R!FlattenSeq(ss) = f[L]
         /\ \A i \in 0..(L - 1) : f[i + 1] = f[i] \o ss[i + 1]
  <2>1. \E f \in [0..Len(ss) -> Seq(S)] :
           /\ f[0] = <<>> /\ R!FlattenSeq(ss) = f[Len(ss)]
           /\ \A i \in 0..(Len(ss) - 1) : f[i + 1] = f[i] \o ss[i + 1]
    BY <1>2, FlattenSteps, Zenon DEF Stepped
  <2> QED
    BY <1>2, <2>1
<1> HIDE DEF L
<1>4. ASSUME NEW n \in 0..L PROVE first(n) \in Seq(S) /\ Len(first(n)) = n
  <2>1. first(n) \in [1..n -> S] /\ n \in Nat
    BY <1>1
  <2> HIDE DEF first
  <2> QED
    BY <2>1
<1> DEFINE G == {n \in 0..L : f[n] = first(n)}
<1>5. ASSUME NEW n \in 0..(L - 1), n \in G PROVE n + 1 \in G
  <2> DEFINE j == n + 1
             x == f[n] \o <<s[j]>>
             y == first(j)
  <2>1. j \in 1..L /\ j \in 0..L /\ n \in 0..L /\ n \in Nat /\ \A i \in 1..j : i \in 1..n \/ i = n + 1
    BY <1>1
  <2>2. f[j] = x /\ f[n] = first(n) /\ s[j] \in S
    <3>1. f[n + 1] = f[n] \o ss[n + 1]
      BY <1>3
    <3>2. f[j] = f[n] \o ss[j]
      BY <3>1
    <3>3. ss[j] = <<s[j]>> /\ s[j] \in S
      BY <1>1, <2>1
    <3> QED
      BY <1>5, <3>2, <3>3
  <2>3. first(n) \in Seq(S) /\ Len(first(n)) = n /\ y \in Seq(S) /\ Len(y) = j
    <3> HIDE DEF first, j
    <3> QED
      BY <1>4, <2>1
  <2>4. /\ \A i \in 1..n : first(n)[i] = s[i]
        /\ \A i \in 1..j : y[i] = s[i]
    OBVIOUS
  <2> DEFINE z == first(n)
  <2> HIDE DEF first, y, z
  <2>5. x = z \o <<s[j]>> /\ z \in Seq(S) /\ Len(z) = n
    BY <2>2, <2>3 DEF z
  <2>6. x \in Seq(S) /\ Len(x) = n + 1 /\ \A i \in 1..(n + 1) : x[i] = IF i <= n THEN z[i] ELSE s[j]
    BY <2>1, <2>2, <2>5
  <2> HIDE DEF x
  <2>7. \A i \in 1..j : x[i] = y[i]
    BY <2>1, <2>4, <2>6 DEF z
  <2>8. x = y
    BY <2>3, <2>6, <2>7, SeqEqual
  <2> QED
    BY <2>1, <2>2, <2>8 DEF y
<1>6. L \in G
  <2>1. first(0) = <<>>
    OBVIOUS
  <2>2. 0 \in G
    BY <1>1, <1>3, <2>1
  <2>3. L \in 0..L
    BY <1>1
  <2> HIDE DEF G
  <2> QED
    BY <1>1, <1>5, <2>2, <2>3, Climb
<1>7. first(L) = s
  BY <1>1 DEF L
<1>8. f[L] = s
  BY <1>6, <1>7
<1> QED
  BY <1>2, <1>3, <1>8 DEF ss

LEMMA RelayConstants ==
    /\ IsFiniteSet(Workers) /\ IsFiniteSet(Topics) /\ Home \in [Socks -> Workers]
    /\ MaxEvents \in Nat /\ MaxBatch \in Nat /\ Null \notin Seq(R!Events)
  BY RelayOK DEF R!ConstantsOK, R!IsFiniteSet, IsFiniteSet

LEMMA RelayWithin == \A s, K : R!Within(s, K) = Within(s, K)
  BY DEF R!Within, R!Nth, R!PlacesOf, R!Cardinality, Within, Nth, PlacesOf, Cardinality

\* What Within, by the origin and the path, makes of lines of events.
LEMMA FromJoins ==
    ASSUME NEW o, NEW path, NEW s \in Seq(R!Events), NEW t \in Seq(R!Events)
    PROVE  /\ R!From(o, path, s) \in Seq(R!Events)
           /\ R!From(o, path, s \o t) = R!From(o, path, s) \o R!From(o, path, t)
           /\ (\A i \in DOMAIN s : s[i].origin # o \/ s[i].via # path) => R!From(o, path, s) = <<>>
           /\ R!From(o, path, <<>>) = <<>>
<1> DEFINE K == R!About({o}, Topics, {path})
           E == R!Events
<1>1. /\ R!From(o, path, s) = Within(s, K) /\ R!From(o, path, t) = Within(t, K)
      /\ R!From(o, path, s \o t) = Within(s \o t, K) /\ R!From(o, path, <<>>) = Within(<<>>, K)
  BY RelayWithin DEF R!From
<1>2. ASSUME \A i \in DOMAIN s : s[i].origin # o \/ s[i].via # path PROVE \A i \in DOMAIN s : s[i] \notin K
  BY <1>2 DEF R!About
<1>3. s \in Seq(E) /\ t \in Seq(E) /\ <<>> \in Seq(E) /\ \A i \in DOMAIN <<>> : <<>>[i] \notin K
  OBVIOUS
<1> HIDE DEF K, E
<1>4. Within(s, K) \in Seq(E) /\ Within(s \o t, K) = Within(s, K) \o Within(t, K)
  <2>1. Within(s, K) \in Seq(E)
    BY <1>3, WithinShape
  <2>2. Within(s \o t, K) = Within(s, K) \o Within(t, K)
    BY <1>3, WithinJoins
  <2> QED
    BY <2>1, <2>2
<1>5. (\A i \in DOMAIN s : s[i].origin # o \/ s[i].via # path) => Within(s, K) = <<>>
  BY <1>2, <1>3, WithinNone
<1>6. Within(<<>>, K) = <<>>
  BY <1>3, WithinNone
<1> QED
  BY <1>1, <1>4, <1>5, <1>6 DEF E

LEMMA MessagesJoin ==
    ASSUME NEW a \in Seq(R!Message), NEW b \in Seq(R!Message)
    PROVE  /\ R!InMessages(a) \in Seq(R!Events)
           /\ R!InMessages(a \o b) = R!InMessages(a) \o R!InMessages(b)
<1> DEFINE E == R!Events
           ea == [i \in DOMAIN a |-> a[i].events]
           eb == [i \in DOMAIN b |-> b[i].events]
           eab == [i \in DOMAIN (a \o b) |-> (a \o b)[i].events]
<1>1. \A m \in R!Message : m.events \in Seq(E)
  BY DEF R!Message
<1>2. /\ Len(a) \in Nat /\ DOMAIN a = 1..Len(a) /\ \A i \in 1..Len(a) : a[i] \in R!Message
      /\ Len(b) \in Nat /\ DOMAIN b = 1..Len(b) /\ \A i \in 1..Len(b) : b[i] \in R!Message
  OBVIOUS
<1>3. /\ DOMAIN (a \o b) = 1..(Len(a) + Len(b)) /\ a \o b \in Seq(R!Message)
      /\ \A i \in 1..(Len(a) + Len(b)) : (a \o b)[i] = IF i <= Len(a) THEN a[i] ELSE b[i - Len(a)]
  OBVIOUS
<1>4. \A i \in 1..(Len(a) + Len(b)) : (i <= Len(a) => i \in 1..Len(a)) /\ (~(i <= Len(a)) => i - Len(a) \in 1..Len(b))
  BY <1>2
<1> HIDE DEF E
<1>5. ea \in Seq(Seq(E)) /\ Len(ea) = Len(a) /\ \A i \in 1..Len(a) : ea[i] = a[i].events
  <2> DEFINE n == Len(a)
  <2>1. ea \in [1..n -> Seq(E)] /\ n \in Nat /\ \A i \in 1..n : ea[i] = a[i].events
    BY <1>1, <1>2
  <2> HIDE DEF ea, n
  <2>2. ea \in Seq(Seq(E)) /\ Len(ea) = n
    BY <2>1
  <2> QED
    BY <2>1, <2>2 DEF n
<1>6. eb \in Seq(Seq(E)) /\ Len(eb) = Len(b) /\ \A i \in 1..Len(b) : eb[i] = b[i].events
  <2> DEFINE n == Len(b)
  <2>1. eb \in [1..n -> Seq(E)] /\ n \in Nat /\ \A i \in 1..n : eb[i] = b[i].events
    BY <1>1, <1>2
  <2> HIDE DEF eb, n
  <2>2. eb \in Seq(Seq(E)) /\ Len(eb) = n
    BY <2>1
  <2> QED
    BY <2>1, <2>2 DEF n
<1> DEFINE n == Len(a)
           m == Len(b)
<1>7. eab = ea \o eb
  <2>1. ea \o eb \in Seq(Seq(E)) /\ Len(ea \o eb) = n + m
    <3> HIDE DEF ea, eb
    <3>1. ea \o eb \in Seq(Seq(E)) /\ Len(ea \o eb) = Len(ea) + Len(eb)
      <4> DEFINE T == Seq(E)
      <4>1. ea \in Seq(T) /\ eb \in Seq(T)
        BY <1>5, <1>6
      <4> HIDE DEF T
      <4>2. ea \o eb \in Seq(T) /\ Len(ea \o eb) = Len(ea) + Len(eb)
        BY <4>1, ConcatProperties
      <4> QED
        BY <4>2 DEF T
    <3> QED
      BY <1>5, <1>6, <3>1
  <2>2. ASSUME NEW i \in 1..(n + m) PROVE (ea \o eb)[i] = eab[i]
    <3>1. eab[i] = IF i <= n THEN a[i].events ELSE b[i - n].events
      BY <1>3
    <3>2. (ea \o eb)[i] = IF i <= n THEN ea[i] ELSE eb[i - n]
      <4> HIDE DEF ea, eb
      <4>1. i \in 1..(Len(ea) + Len(eb))
        BY <1>5, <1>6
      <4>2. (ea \o eb)[i] = IF i <= Len(ea) THEN ea[i] ELSE eb[i - Len(ea)]
        BY <1>5, <1>6, <4>1, ConcatProperties
      <4> QED
        BY <1>5, <4>2
    <3> HIDE DEF ea, eb, eab
    <3> QED
      BY <1>4, <1>5, <1>6, <3>1, <3>2
  <2>3. eab \in Seq(Seq(E)) /\ Len(eab) = n + m
    <3>1. DOMAIN eab = 1..(n + m) /\ n + m \in Nat /\ n \in Nat /\ m \in Nat
      BY <1>2, <1>3
    <3>2. \A i \in 1..(n + m) : eab[i] = (ea \o eb)[i] /\ (ea \o eb)[i] \in Seq(E)
      <4> HIDE DEF ea, eb, eab, n, m
      <4> QED
        BY <2>1, <2>2
    <3>3. eab = [i \in 1..(n + m) |-> eab[i]]
      BY <3>1
    <3> DEFINE k == n + m
    <3> HIDE DEF ea, eb, eab, n, m
    <3>4. eab \in [1..k -> Seq(E)] /\ k \in Nat
      BY <3>1, <3>2, <3>3
    <3> HIDE DEF k
    <3>5. eab \in Seq(Seq(E)) /\ Len(eab) = k
      BY <3>4
    <3> QED
      BY <3>5 DEF k
  <2> HIDE DEF ea, eb, eab, n, m
  <2> QED
    BY <2>1, <2>2, <2>3, SeqEqual
<1>8. R!InMessages(a) = R!FlattenSeq(ea) /\ R!InMessages(b) = R!FlattenSeq(eb) /\ R!InMessages(a \o b) = R!FlattenSeq(eab)
  BY DEF R!InMessages
<1> HIDE DEF ea, eb, eab
<1> QED
  BY <1>5, <1>6, <1>7, <1>8, FlattenJoins DEF E

LEMMA MessagesOne ==
    /\ R!InMessages(<<>>) = <<>>
    /\ \A m \in R!Message : R!InMessages(<<m>>) = m.events /\ m.events \in Seq(R!Events)
<1>1. R!InMessages(<<>>) = <<>>
  BY DEF R!InMessages, R!FlattenSeq
<1>2. ASSUME NEW m \in R!Message PROVE R!InMessages(<<m>>) = m.events /\ m.events \in Seq(R!Events)
  <2> DEFINE E == R!Events
             e == m.events
             ss == <<e>>
  <2>1. e \in Seq(E)
    BY DEF R!Message
  <2>2. [i \in DOMAIN <<m>> |-> <<m>>[i].events] = ss
    OBVIOUS
  <2>3. R!InMessages(<<m>>) = R!FlattenSeq(ss)
    BY <2>2 DEF R!InMessages
  <2> HIDE DEF e, E
  <2>4. ss \in Seq(Seq(E)) /\ Len(ss) = 1 /\ ss[1] = e
    BY <2>1
  <2> HIDE DEF ss
  <2>5. PICK f \in [0..Len(ss) -> Seq(E)] :
           /\ f[0] = <<>> /\ R!FlattenSeq(ss) = f[Len(ss)]
           /\ \A i \in 0..(Len(ss) - 1) : f[i + 1] = f[i] \o ss[i + 1]
    <3>1. Stepped(E, ss)
      BY <2>4, FlattenSteps, Zenon
    <3> QED
      BY <3>1, Zenon DEF Stepped
  <2>6. f[0 + 1] = f[0] \o ss[0 + 1]
    <3>1. 0 \in 0..(Len(ss) - 1)
      BY <2>4
    <3> QED
      BY <2>5, <3>1
  <2>7. f[1] = e
    BY <2>1, <2>4, <2>5, <2>6
  <2> QED
    BY <2>1, <2>3, <2>4, <2>5, <2>7 DEF e, E
<1> QED
  BY <1>1, <1>2

LEMMA MessagesSteps ==
    ASSUME NEW a \in Seq(R!Message)
    PROVE  /\ \A m \in R!Message : R!InMessages(Append(a, m)) = R!InMessages(a) \o m.events
           /\ a # <<>> => /\ Head(a) \in R!Message /\ Tail(a) \in Seq(R!Message)
                          /\ R!InMessages(a) = Head(a).events \o R!InMessages(Tail(a))
<1>1. ASSUME NEW m \in R!Message PROVE R!InMessages(Append(a, m)) = R!InMessages(a) \o m.events
  <2>1. Append(a, m) = a \o <<m>> /\ <<m>> \in Seq(R!Message)
    OBVIOUS
  <2> QED
    BY <2>1, MessagesJoin, MessagesOne
<1>2. ASSUME a # <<>>
      PROVE  /\ Head(a) \in R!Message /\ Tail(a) \in Seq(R!Message)
             /\ R!InMessages(a) = Head(a).events \o R!InMessages(Tail(a))
  <2> DEFINE h == Head(a)
             t == Tail(a)
             hs == <<h>>
  <2>1. h \in R!Message /\ t \in Seq(R!Message) /\ a = hs \o t /\ hs \in Seq(R!Message)
    BY <1>2
  <2>2. R!InMessages(hs) = h.events
    BY <2>1, MessagesOne
  <2> HIDE DEF h, t, hs
  <2>3. R!InMessages(hs \o t) = R!InMessages(hs) \o R!InMessages(t)
    BY <2>1, MessagesJoin
  <2> QED
    BY <2>1, <2>2, <2>3 DEF h, t
<1> QED
  BY <1>1, <1>2

-----------------------------------------------------------------------------
(* What is on its way from one worker to another. *)

Waits(b, o, path) == IF b = Null THEN <<>> ELSE R!From(o, path, b)

\* Seen, posted to the worker, posted to the primary, on the relay batch.
Way(s, d, u, b, o, path) ==
    R!From(o, path, s) \o R!From(o, path, R!InMessages(d)) \o R!From(o, path, R!InMessages(u))
        \o Waits(b, o, path)

\* An event that worker w publishes, on one path.
Own(w, path, e) == e.origin = w /\ e.via = path

\* Who published what is on its way; a frame that is shared is of something.
Postmarks ==
    /\ \A w \in Workers : relayBatch[w] # Null => \A i \in DOMAIN relayBatch[w] : Own(w, "publish", relayBatch[w][i])
    /\ \A w \in Workers : \A i \in DOMAIN up[w] :
          /\ up[w][i].type = "publish-batched" => up[w][i].events # <<>>
          /\ \A j \in DOMAIN up[w][i].events : up[w][i].events[j].origin = w
    /\ \A w \in Workers : \A i \in DOMAIN down[w] :
          /\ down[w][i].type = "publish-batched" => down[w][i].events # <<>>
          /\ \A j \in DOMAIN down[w][i].events : down[w][i].events[j].origin # w

Arrives(v, o, path) ==
    LET way == Way(seen[v], down[v], up[o], relayBatch[o], o, path)
    IN  IF o \in alive THEN way = R!From(o, path, sent[o])
                       ELSE R!IsPrefix(way, R!From(o, path, sent[o]))

\* The inductive invariant of the relay.
RelayInv ==
    /\ R!TypeOK /\ Postmarks
    /\ \A v \in alive : \A o \in Workers \ {v} : \A path \in R!Paths : Arrives(v, o, path)
    /\ sockSubs = sockNative /\ got = due

\* What comes from o by the path, of two lines one after the other.
FromSplits(o, path) ==
    \A x, y \in Seq(R!Events) : R!From(o, path, x \o y) = R!From(o, path, x) \o R!From(o, path, y)

LEMMA FromSplitsAlways ==
    ASSUME NEW o, NEW path
    PROVE  FromSplits(o, path)
<1> SUFFICES ASSUME NEW x \in Seq(R!Events), NEW y \in Seq(R!Events)
             PROVE  R!From(o, path, x \o y) = R!From(o, path, x) \o R!From(o, path, y)
  BY Zenon DEF FromSplits
<1> QED
  BY FromJoins

LEMMA WayType ==
    ASSUME NEW s \in Seq(R!Events), NEW d \in Seq(R!Message), NEW u \in Seq(R!Message),
           NEW b \in Seq(R!Events) \cup {Null}, NEW o, NEW path
    PROVE  /\ R!From(o, path, s) \in Seq(R!Events)
           /\ R!From(o, path, R!InMessages(d)) \in Seq(R!Events)
           /\ R!From(o, path, R!InMessages(u)) \in Seq(R!Events)
           /\ Waits(b, o, path) \in Seq(R!Events)
           /\ Way(s, d, u, b, o, path) \in Seq(R!Events)
<1>1. R!InMessages(d) \in Seq(R!Events) /\ R!InMessages(u) \in Seq(R!Events)
  BY MessagesJoin
<1>2. /\ R!From(o, path, s) \in Seq(R!Events)
      /\ R!From(o, path, R!InMessages(d)) \in Seq(R!Events)
      /\ R!From(o, path, R!InMessages(u)) \in Seq(R!Events)
  BY <1>1, FromJoins
<1>3. Waits(b, o, path) \in Seq(R!Events)
  <2>1. CASE b = Null
    BY <2>1 DEF Waits
  <2>2. CASE b # Null
    BY <2>2, FromJoins DEF Waits
  <2> QED
    BY <2>1, <2>2
<1> DEFINE E == R!Events
           a1 == R!From(o, path, s)
           a2 == R!From(o, path, R!InMessages(d))
           a3 == R!From(o, path, R!InMessages(u))
           a4 == Waits(b, o, path)
<1>4. a1 \in Seq(E) /\ a2 \in Seq(E) /\ a3 \in Seq(E) /\ a4 \in Seq(E)
  BY <1>2, <1>3
<1>5. Way(s, d, u, b, o, path) = ((a1 \o a2) \o a3) \o a4
  BY DEF Way
<1> HIDE DEF E, a1, a2, a3, a4
<1>6. ((a1 \o a2) \o a3) \o a4 \in Seq(E)
  BY <1>4
<1> QED
  BY <1>2, <1>3, <1>5, <1>6 DEF E

\* A line of lines falls into two wherever it is cut.
Cuts(a, b, c, d, r) ==
    /\ ((a \o b) \o c) \o (d \o r) = (((a \o b) \o c) \o d) \o r
    /\ ((a \o b) \o (c \o r)) \o d = (((a \o b) \o c) \o r) \o d
    /\ ((a \o (b \o r)) \o c) \o d = ((a \o b) \o (r \o c)) \o d
    /\ (((a \o r) \o b) \o c) \o d = ((a \o (r \o b)) \o c) \o d

LEMMA FourLines ==
    ASSUME NEW S, NEW a \in Seq(S), NEW b \in Seq(S), NEW c \in Seq(S), NEW d \in Seq(S), NEW r \in Seq(S)
    PROVE  Cuts(a, b, c, d, r)
<1>0. \A x, y, z \in Seq(S) : Assoc(x, y, z)
  BY JoinIsAssociative
<1>1. a \o b \in Seq(S)
  OBVIOUS
<1> DEFINE x == a \o b
           y == x \o c
<1>2. y \in Seq(S)
  BY <1>1
<1>3. Assoc(y, d, r)
  <2> HIDE DEF y
  <2> QED
    BY <1>0, <1>2, Zenon
<1>4. Assoc(x, c, r) /\ Assoc(x, r, c)
  <2>1. x \in Seq(S)
    BY <1>1
  <2> HIDE DEF x
  <2> QED
    BY <1>0, <2>1, Zenon
<1>5. Assoc(a, b, r) /\ Assoc(a, r, b)
  BY <1>0, Zenon
<1> QED
  BY <1>3, <1>4, <1>5 DEF Cuts, Assoc

LEMMA LineEnds ==
    ASSUME NEW S, NEW a \in Seq(S)
    PROVE  a \o <<>> = a /\ <<>> \o a = a
  BY ConcatEmptySeq

\* Events are put on the relay batch.
Grows(s, d, u, b, c, o, path, r) == Way(s, d, u, c, o, path) = Way(s, d, u, b, o, path) \o R!From(o, path, r)

Batches == Seq(R!Events) \cup {Null}

LEMMA BatchGrows ==
    ASSUME NEW o, NEW path
    PROVE  \A s \in Seq(R!Events) : \A d \in Seq(R!Message) : \A u \in Seq(R!Message) :
           \A b \in Batches : \A c \in Seq(R!Events) : \A r \in Seq(R!Events) :
               (b = Null => c = r) /\ (b # Null => c = b \o r) => Grows(s, d, u, b, c, o, path, r)
<1> SUFFICES ASSUME NEW s \in Seq(R!Events), NEW d \in Seq(R!Message), NEW u \in Seq(R!Message),
                    NEW b \in Batches, NEW c \in Seq(R!Events), NEW r \in Seq(R!Events),
                    (b = Null => c = r) /\ (b # Null => c = b \o r)
             PROVE  Grows(s, d, u, b, c, o, path, r)
  OBVIOUS
<1>00. b \in Seq(R!Events) \cup {Null}
  BY DEF Batches
<1> DEFINE E == R!Events
           a1 == R!From(o, path, s)
           a2 == R!From(o, path, R!InMessages(d))
           a3 == R!From(o, path, R!InMessages(u))
           a4 == Waits(b, o, path)
           ar == R!From(o, path, r)
<1>0. FromSplits(o, path)
  BY FromSplitsAlways
<1>1. a1 \in Seq(E) /\ a2 \in Seq(E) /\ a3 \in Seq(E) /\ a4 \in Seq(E)
  BY <1>00, WayType
<1>2. Way(s, d, u, b, o, path) = ((a1 \o a2) \o a3) \o a4
  BY DEF Way
<1>3. ar \in Seq(E)
  BY FromJoins
<1>4. Waits(c, o, path) = a4 \o ar
  <2>1. c # Null
    BY RelayConstants
  <2>2. Waits(c, o, path) = R!From(o, path, c)
    BY <2>1 DEF Waits
  <2>3. CASE b = Null
    <3>1. a4 = <<>> /\ c = r
      BY <2>3 DEF Waits
    <3> HIDE DEF a4, ar, E
    <3>2. <<>> \o ar = ar
      BY <1>3, LineEnds
    <3> QED
      BY <2>2, <3>1, <3>2 DEF ar
  <2>4. CASE b # Null
    <3>1. a4 = R!From(o, path, b) /\ c = b \o r /\ b \in Seq(R!Events)
      BY <1>00, <2>4 DEF Waits
    <3>2. R!From(o, path, b \o r) = R!From(o, path, b) \o ar
      BY <1>0, <3>1, Zenon DEF FromSplits
    <3> QED
      BY <2>2, <3>1, <3>2
  <2> QED
    BY <2>3, <2>4
<1>5. Way(s, d, u, c, o, path) = ((a1 \o a2) \o a3) \o Waits(c, o, path)
  BY DEF Way
<1> HIDE DEF E, a1, a2, a3, a4, ar
<1>6. Cuts(a1, a2, a3, a4, ar)
  BY <1>1, <1>3, FourLines
<1> QED
  BY <1>2, <1>4, <1>5, <1>6 DEF Cuts, ar, Grows

\* A message is posted, past a batch without anything for the same path.
Posts(s, d, u, b, m, o, path) ==
    Way(s, d, Append(u, m), b, o, path) = Way(s, d, u, b, o, path) \o R!From(o, path, m.events)

LEMMA PostedPast ==
    ASSUME NEW o, NEW path
    PROVE  \A s \in Seq(R!Events) : \A d \in Seq(R!Message) : \A u \in Seq(R!Message) :
           \A b \in Batches : \A m \in R!Message :
               Waits(b, o, path) = <<>> \/ R!From(o, path, m.events) = <<>> => Posts(s, d, u, b, m, o, path)
<1> SUFFICES ASSUME NEW s \in Seq(R!Events), NEW d \in Seq(R!Message), NEW u \in Seq(R!Message),
                    NEW b \in Batches, NEW m \in R!Message,
                    Waits(b, o, path) = <<>> \/ R!From(o, path, m.events) = <<>>
             PROVE  Posts(s, d, u, b, m, o, path)
  OBVIOUS
<1>00. b \in Seq(R!Events) \cup {Null}
  BY DEF Batches
<1> DEFINE E == R!Events
           a1 == R!From(o, path, s)
           a2 == R!From(o, path, R!InMessages(d))
           a3 == R!From(o, path, R!InMessages(u))
           a4 == Waits(b, o, path)
           ar == R!From(o, path, m.events)
<1>0. FromSplits(o, path)
  BY FromSplitsAlways
<1>1. a1 \in Seq(E) /\ a2 \in Seq(E) /\ a3 \in Seq(E) /\ a4 \in Seq(E)
  BY <1>00, WayType
<1>2. Way(s, d, u, b, o, path) = ((a1 \o a2) \o a3) \o a4
  BY DEF Way
<1>3. m.events \in Seq(R!Events)
  BY MessagesOne
<1>4. ar \in Seq(E)
  BY <1>3, FromJoins
<1>5. R!From(o, path, R!InMessages(Append(u, m))) = a3 \o ar
  <2>1. R!InMessages(Append(u, m)) = R!InMessages(u) \o m.events /\ R!InMessages(u) \in Seq(R!Events)
    BY MessagesSteps, MessagesJoin
  <2>2. R!From(o, path, R!InMessages(u) \o m.events) = a3 \o ar
    BY <1>0, <1>3, <2>1, Zenon DEF FromSplits
  <2> QED
    BY <2>1, <2>2
<1>6. Way(s, d, Append(u, m), b, o, path) = ((a1 \o a2) \o R!From(o, path, R!InMessages(Append(u, m)))) \o a4
  BY DEF Way
<1>7. a4 = <<>> \/ ar = <<>>
  OBVIOUS
<1> HIDE DEF E, a1, a2, a3, a4, ar
<1>8. Cuts(a1, a2, a3, a4, ar)
  BY <1>1, <1>4, FourLines
<1>9. Way(s, d, Append(u, m), b, o, path) = (((a1 \o a2) \o a3) \o ar) \o a4
  BY <1>5, <1>6, <1>8 DEF Cuts
<1> DEFINE x == (a1 \o a2) \o a3
<1>10. x \in Seq(E) /\ x \o ar \in Seq(E)
  BY <1>1, <1>4
<1> HIDE DEF x
<1>11. x \o <<>> = x /\ (x \o ar) \o <<>> = x \o ar
  BY <1>10, LineEnds
<1>12. (x \o ar) \o a4 = (x \o a4) \o ar
  <2>1. CASE a4 = <<>>
    BY <1>11, <2>1
  <2>2. CASE ar = <<>>
    <3>1. (x \o a4) \o <<>> = x \o a4
      <4>1. x \o a4 \in Seq(E)
        BY <1>1, <1>10
      <4> QED
        BY <4>1, LineEnds
    <3> QED
      BY <1>11, <2>2, <3>1
  <2> QED
    BY <1>7, <2>1, <2>2
<1> QED
  BY <1>2, <1>9, <1>12 DEF x, ar, Posts

\* The batch is posted.
LEMMA BatchPosted ==
    ASSUME NEW s \in Seq(R!Events), NEW d \in Seq(R!Message), NEW u \in Seq(R!Message),
           NEW b \in Seq(R!Events) \cup {Null}, NEW o, NEW path, NEW m \in R!Message, b # Null, m.events = b
    PROVE  Way(s, d, Append(u, m), Null, o, path) = Way(s, d, u, b, o, path)
<1> DEFINE E == R!Events
           a1 == R!From(o, path, s)
           a2 == R!From(o, path, R!InMessages(d))
           a3 == R!From(o, path, R!InMessages(u))
           a4 == Waits(b, o, path)
<1>0. FromSplits(o, path)
  BY FromSplitsAlways
<1>1. a1 \in Seq(E) /\ a2 \in Seq(E) /\ a3 \in Seq(E) /\ a4 \in Seq(E)
  BY WayType
<1>2. Way(s, d, u, b, o, path) = ((a1 \o a2) \o a3) \o a4
  BY DEF Way
<1>3. R!From(o, path, R!InMessages(Append(u, m))) = a3 \o a4
  <2>1. R!InMessages(Append(u, m)) = R!InMessages(u) \o b /\ R!InMessages(u) \in Seq(R!Events)
    BY MessagesSteps, MessagesJoin
  <2>2. a4 = R!From(o, path, b) /\ b \in Seq(R!Events)
    BY DEF Waits
  <2>3. R!From(o, path, R!InMessages(u) \o b) = a3 \o a4
    BY <1>0, <2>1, <2>2, Zenon DEF FromSplits
  <2> QED
    BY <2>1, <2>3
<1>4. Waits(Null, o, path) = <<>>
  BY DEF Waits
<1>5. Way(s, d, Append(u, m), Null, o, path)
         = ((a1 \o a2) \o R!From(o, path, R!InMessages(Append(u, m)))) \o Waits(Null, o, path)
  BY DEF Way
<1> HIDE DEF E, a1, a2, a3, a4
<1>6. Cuts(a1, a2, a3, <<>>, a4)
  <2>1. <<>> \in Seq(E)
    OBVIOUS
  <2> DEFINE none == <<>>
  <2> HIDE DEF none
  <2>2. none \in Seq(E)
    BY <2>1 DEF none
  <2>3. Cuts(a1, a2, a3, none, a4)
    BY <1>1, <2>2, FourLines
  <2> QED
    BY <2>3 DEF none
<1>7. Way(s, d, Append(u, m), Null, o, path) = (((a1 \o a2) \o a3) \o a4) \o <<>>
  BY <1>3, <1>4, <1>5, <1>6 DEF Cuts
<1> DEFINE x == ((a1 \o a2) \o a3) \o a4
<1>8. x \in Seq(E)
  BY <1>1
<1> HIDE DEF x
<1>9. x \o <<>> = x
  BY <1>8, LineEnds
<1> QED
  BY <1>2, <1>7, <1>9 DEF x

\* The first message posted to the primary is forwarded, in the pieces of p.
LEMMA ForwardedOn ==
    ASSUME NEW s \in Seq(R!Events), NEW d \in Seq(R!Message), NEW u \in Seq(R!Message),
           NEW b \in Seq(R!Events) \cup {Null}, NEW o, NEW path,
           u # <<>>, NEW p \in Seq(R!Message), R!InMessages(p) = Head(u).events
    PROVE  Way(s, d \o p, Tail(u), b, o, path) = Way(s, d, u, b, o, path)
<1> DEFINE E == R!Events
           a1 == R!From(o, path, s)
           a2 == R!From(o, path, R!InMessages(d))
           a3 == R!From(o, path, R!InMessages(u))
           a4 == Waits(b, o, path)
           x == R!From(o, path, R!InMessages(p))
           y == R!From(o, path, R!InMessages(Tail(u)))
<1>0. FromSplits(o, path)
  BY FromSplitsAlways
<1>1. a1 \in Seq(E) /\ a2 \in Seq(E) /\ a3 \in Seq(E) /\ a4 \in Seq(E)
  BY WayType
<1>2. Way(s, d, u, b, o, path) = ((a1 \o a2) \o a3) \o a4
  BY DEF Way
<1>3. R!InMessages(d) \in Seq(E) /\ R!InMessages(p) \in Seq(E) /\ R!InMessages(d \o p) = R!InMessages(d) \o R!InMessages(p)
  BY MessagesJoin
<1>4. Tail(u) \in Seq(R!Message) /\ R!InMessages(u) = R!InMessages(p) \o R!InMessages(Tail(u))
  BY MessagesSteps
<1>5. R!InMessages(Tail(u)) \in Seq(E)
  BY <1>4, MessagesJoin
<1>6. R!From(o, path, R!InMessages(d \o p)) = a2 \o x /\ x \in Seq(E)
  <2>1. R!From(o, path, R!InMessages(d) \o R!InMessages(p)) = a2 \o x
    BY <1>0, <1>3, Zenon DEF FromSplits
  <2>2. x \in Seq(E)
    BY <1>3, FromJoins
  <2> QED
    BY <1>3, <2>1, <2>2
<1>7. a3 = x \o y /\ y \in Seq(E)
  <2>1. R!From(o, path, R!InMessages(p) \o R!InMessages(Tail(u))) = x \o y
    BY <1>0, <1>3, <1>5, Zenon DEF FromSplits
  <2>2. y \in Seq(E)
    BY <1>5, FromJoins
  <2> QED
    BY <1>4, <2>1, <2>2
<1>8. Way(s, d \o p, Tail(u), b, o, path) = ((a1 \o R!From(o, path, R!InMessages(d \o p))) \o y) \o a4
  BY DEF Way
<1> HIDE DEF E, a1, a2, a3, a4, x, y
<1>9. Cuts(a1, a2, y, a4, x)
  BY <1>1, <1>6, <1>7, FourLines
<1>10. ((a1 \o (a2 \o x)) \o y) \o a4 = ((a1 \o a2) \o (x \o y)) \o a4
  BY <1>9 DEF Cuts
<1> QED
  BY <1>2, <1>6, <1>7, <1>8, <1>10

\* The first message posted to the worker is delivered.
LEMMA DeliveredTo ==
    ASSUME NEW s \in Seq(R!Events), NEW d \in Seq(R!Message), NEW u \in Seq(R!Message),
           NEW b \in Seq(R!Events) \cup {Null}, NEW o, NEW path, d # <<>>
    PROVE  Way(s \o Head(d).events, Tail(d), u, b, o, path) = Way(s, d, u, b, o, path)
<1> DEFINE E == R!Events
           a1 == R!From(o, path, s)
           a2 == R!From(o, path, R!InMessages(d))
           a3 == R!From(o, path, R!InMessages(u))
           a4 == Waits(b, o, path)
           e == Head(d).events
           x == R!From(o, path, e)
           y == R!From(o, path, R!InMessages(Tail(d)))
<1>0. FromSplits(o, path)
  BY FromSplitsAlways
<1>1. a1 \in Seq(E) /\ a2 \in Seq(E) /\ a3 \in Seq(E) /\ a4 \in Seq(E)
  BY WayType
<1>2. Way(s, d, u, b, o, path) = ((a1 \o a2) \o a3) \o a4
  BY DEF Way
<1>3. /\ e \in Seq(E) /\ Tail(d) \in Seq(R!Message)
      /\ R!InMessages(d) = e \o R!InMessages(Tail(d))
  BY MessagesSteps, MessagesOne
<1>4. R!InMessages(Tail(d)) \in Seq(E)
  BY <1>3, MessagesJoin
<1>5. R!From(o, path, s \o e) = a1 \o x /\ x \in Seq(E)
  <2>1. R!From(o, path, s \o e) = a1 \o x
    BY <1>0, <1>3, Zenon DEF FromSplits
  <2>2. x \in Seq(E)
    BY <1>3, FromJoins
  <2> QED
    BY <2>1, <2>2
<1>6. a2 = x \o y /\ y \in Seq(E)
  <2>1. R!From(o, path, e \o R!InMessages(Tail(d))) = x \o y
    BY <1>0, <1>3, <1>4, Zenon DEF FromSplits
  <2>2. y \in Seq(E)
    BY <1>4, FromJoins
  <2> QED
    BY <1>3, <2>1, <2>2
<1>7. Way(s \o e, Tail(d), u, b, o, path) = ((R!From(o, path, s \o e) \o y) \o a3) \o a4
  BY DEF Way
<1> HIDE DEF E, a1, a2, a3, a4, x, y, e
<1>8. Cuts(a1, y, a3, a4, x)
  BY <1>1, <1>5, <1>6, FourLines
<1>9. (((a1 \o x) \o y) \o a3) \o a4 = ((a1 \o (x \o y)) \o a3) \o a4
  BY <1>8 DEF Cuts
<1> QED
  BY <1>2, <1>5, <1>6, <1>7, <1>9 DEF e

\* Events of others, or of another path, are seen or forwarded.
LEMMA OthersPass ==
    ASSUME NEW s \in Seq(R!Events), NEW d \in Seq(R!Message), NEW u \in Seq(R!Message),
           NEW b \in Seq(R!Events) \cup {Null}, NEW o, NEW path, NEW r \in Seq(R!Events), R!From(o, path, r) = <<>>,
           NEW p \in Seq(R!Message), R!InMessages(p) = r
    PROVE  /\ Way(s \o r, d, u, b, o, path) = Way(s, d, u, b, o, path)
           /\ Way(s, d \o p, u, b, o, path) = Way(s, d, u, b, o, path)
<1> DEFINE E == R!Events
           a1 == R!From(o, path, s)
           a2 == R!From(o, path, R!InMessages(d))
           a3 == R!From(o, path, R!InMessages(u))
           a4 == Waits(b, o, path)
<1>0. FromSplits(o, path)
  BY FromSplitsAlways
<1>1. a1 \in Seq(E) /\ a2 \in Seq(E) /\ a3 \in Seq(E) /\ a4 \in Seq(E)
  BY WayType
<1>2. Way(s, d, u, b, o, path) = ((a1 \o a2) \o a3) \o a4
  BY DEF Way
<1>3. R!From(o, path, s \o r) = a1 \o <<>>
  <2>1. R!From(o, path, s \o r) = a1 \o R!From(o, path, r)
    BY <1>0, Zenon DEF FromSplits
  <2> QED
    BY <2>1
<1>4. R!From(o, path, R!InMessages(d \o p)) = a2 \o <<>>
  <2>1. R!InMessages(d) \in Seq(R!Events) /\ R!InMessages(d \o p) = R!InMessages(d) \o r
    BY MessagesJoin
  <2>2. R!From(o, path, R!InMessages(d) \o r) = a2 \o R!From(o, path, r)
    BY <1>0, <2>1, Zenon DEF FromSplits
  <2> QED
    BY <2>1, <2>2
<1>5. Way(s \o r, d, u, b, o, path) = ((R!From(o, path, s \o r) \o a2) \o a3) \o a4
  BY DEF Way
<1>6. Way(s, d \o p, u, b, o, path) = ((a1 \o R!From(o, path, R!InMessages(d \o p))) \o a3) \o a4
  BY DEF Way
<1> HIDE DEF E, a1, a2, a3, a4
<1>7. a1 \o <<>> = a1 /\ a2 \o <<>> = a2
  BY <1>1, LineEnds
<1> QED
  BY <1>2, <1>3, <1>4, <1>5, <1>6, <1>7

-----------------------------------------------------------------------------
(* Publishing. *)

LEMMA RelayTypes ==
    ASSUME R!TypeOK
    PROVE  /\ alive \in SUBSET Workers
           /\ topicSeqs \in [Workers -> [Topics -> 0..MaxEvents]]
           /\ relayBatch \in [Workers -> Seq(R!Events) \cup {Null}]
           /\ timer \in [Workers -> BOOLEAN]
           /\ \A w \in alive : timer[w] <=> relayBatch[w] # Null
           /\ up \in [Workers -> Seq(R!Message)]
           /\ down \in [Workers -> Seq(R!Message)]
           /\ sockSubs \in [Socks -> SUBSET Topics] /\ sockNative \in [Socks -> SUBSET Topics]
           /\ capable \in SUBSET Socks
           /\ sent \in [Workers -> Seq(R!Events)] /\ seen \in [Workers -> Seq(R!Events)]
           /\ got \in [Socks -> Seq(R!Events)] /\ due \in [Socks -> Seq(R!Events)]
  BY DEF R!TypeOK

LEMMA Counted ==
    ASSUME NEW n \in Nat
    PROVE  IsFiniteSet(1..n) /\ Cardinality(1..n) = n
<1>1. 1 \in Int /\ n \in Int
  OBVIOUS
<1>2. IsFiniteSet(1..n) /\ Cardinality(1..n) = IF 1 > n THEN 0 ELSE (n - 1) + 1
  BY <1>1, FS_Interval
<1> QED
  BY <1>2

\* No topic of a worker has more numbers than were given in all.
LEMMA PublishedBounds ==
    ASSUME R!TypeOK, NEW w \in Workers, NEW t \in Topics
    PROVE  /\ R!Published \in Nat
           /\ topicSeqs[w][t] \in Nat /\ topicSeqs[w][t] <= R!Published
<1> DEFINE All == (Workers \X Topics) \X (1..MaxEvents)
           e == <<w, t>>
           k == topicSeqs[w][t]
           mine == {e} \X (1..k)
<1>1. k \in 0..MaxEvents /\ MaxEvents \in Nat
  BY RelayTypes, RelayConstants
<1>2. IsFiniteSet(All)
  <2>1. IsFiniteSet(Workers \X Topics)
    BY RelayConstants, FS_Product
  <2>2. IsFiniteSet(1..MaxEvents)
    BY <1>1, Counted
  <2> QED
    BY <2>1, <2>2, FS_Product
<1>3. R!Stamps \subseteq All
  <2> SUFFICES ASSUME NEW u \in Workers \X Topics, NEW n \in 1..topicSeqs[u[1]][u[2]]
               PROVE  <<u, n>> \in All
    BY DEF R!Stamps
  <2>1. topicSeqs[u[1]][u[2]] \in 0..MaxEvents
    BY RelayTypes
  <2> QED
    BY <1>1, <2>1
<1>4. mine \subseteq R!Stamps
  <2>1. e \in Workers \X Topics /\ e[1] = w /\ e[2] = t
    OBVIOUS
  <2>2. mine = {e} \X (1..topicSeqs[e[1]][e[2]])
    OBVIOUS
  <2> HIDE DEF e, mine
  <2> QED
    BY <2>1, <2>2 DEF R!Stamps
<1>5. Cardinality(mine) = k
  <2> DEFINE a == {e}
             b == 1..k
  <2>1. k \in Nat
    BY <1>1
  <2> HIDE DEF k, e
  <2>3. IsFiniteSet(a) /\ Cardinality(a) = 1
    BY FS_Singleton
  <2>4. IsFiniteSet(b) /\ Cardinality(b) = k
    BY <2>1, Counted
  <2>5. mine = a \X b
    OBVIOUS
  <2> HIDE DEF a, b, mine
  <2>6. Cardinality(a \X b) = Cardinality(a) * Cardinality(b)
    BY <2>3, <2>4, FS_Product
  <2>2. Cardinality(mine) = 1 * k
    BY <2>3, <2>4, <2>5, <2>6
  <2> QED
    BY <1>1, <2>2
<1> HIDE DEF mine, All
<1>6. IsFiniteSet(R!Stamps) /\ Cardinality(mine) <= Cardinality(R!Stamps) /\ Cardinality(R!Stamps) \in Nat
  <2>1. IsFiniteSet(R!Stamps)
    BY <1>2, <1>3, FS_Subset
  <2> QED
    BY <1>4, <2>1, FS_Subset, FS_CardinalityType
<1>7. R!Published = Cardinality(R!Stamps)
  BY DEF R!Published, R!Cardinality, Cardinality
<1> HIDE DEF k
<1>8. k \in Nat /\ k <= R!Published /\ R!Published \in Nat
  BY <1>1, <1>5, <1>6, <1>7
<1> QED
  BY <1>8 DEF k

\* Some places of a line of n are from none to n.
LEMMA PlacesCount ==
    ASSUME NEW n \in Nat, NEW X \in SUBSET (1..n)
    PROVE  Cardinality(X) \in 0..n /\ R!Cardinality(X) = Cardinality(X)
<1>1. IsFiniteSet(1..n) /\ Cardinality(1..n) = n
  BY Counted
<1>2. Cardinality(X) \in Nat /\ Cardinality(X) <= n
  BY <1>1, FS_Subset, FS_CardinalityType
<1>3. R!Cardinality(X) = Cardinality(X)
  BY DEF R!Cardinality, Cardinality
<1> QED
  BY <1>2, <1>3

\* What publish stamps are events of the worker and the path.
LEMMA StampType ==
    ASSUME R!TypeOK, NEW w \in Workers, NEW items \in Seq(R!Items), R!Room(w, Len(items)), NEW path \in R!Paths
    PROVE  /\ R!Stamp(w, items, path) \in Seq(R!Events)
           /\ Len(R!Stamp(w, items, path)) = Len(items)
           /\ \A i \in DOMAIN items : Own(w, path, R!Stamp(w, items, path)[i])
<1> DEFINE ev == R!Stamp(w, items, path)
           L == Len(items)
           same(i) == {j \in 1..i : items[j].topic = items[i].topic}
           num(i) == topicSeqs[w][items[i].topic] + R!Cardinality(same(i))
<1>1. L \in Nat /\ DOMAIN items = 1..L /\ \A i \in 1..L : items[i].topic \in Topics
  <2>1. L \in Nat /\ DOMAIN items = 1..L /\ \A i \in 1..L : items[i] \in R!Items
    OBVIOUS
  <2>2. \A x \in R!Items : x.topic \in Topics
    BY DEF R!Items
  <2> QED
    BY <2>1, <2>2
<1>2. ASSUME NEW i \in 1..L PROVE num(i) \in 1..MaxEvents
  <2> DEFINE t == items[i].topic
             k == topicSeqs[w][t]
             c == R!Cardinality(same(i))
  <2>1. t \in Topics
    BY <1>1
  <2>2. i \in Nat /\ i <= L /\ i \in same(i) /\ same(i) \in SUBSET (1..i)
    BY <1>1
  <2>3. c \in 1..i
    <3>1. Cardinality(same(i)) \in 0..i /\ R!Cardinality(same(i)) = Cardinality(same(i))
      <4> HIDE DEF same
      <4> QED
        BY <2>2, PlacesCount
    <3>2. Cardinality(same(i)) # 0
      <4>1. IsFiniteSet(same(i))
        <5>1. IsFiniteSet(1..i)
          BY <2>2, Counted
        <5> HIDE DEF same
        <5> QED
          BY <2>2, <5>1, FS_Subset
      <4> HIDE DEF same
      <4> QED
        BY <2>2, <4>1, FS_EmptySet
    <3> HIDE DEF same
    <3> QED
      BY <2>2, <3>1, <3>2
  <2>4. k \in Nat /\ k <= R!Published /\ R!Published \in Nat
    BY <2>1, PublishedBounds
  <2>5. R!Published + L <= MaxEvents /\ MaxEvents \in Nat
    BY RelayConstants DEF R!Room
  <2> HIDE DEF k, c, L, same
  <2>6. k + c \in 1..MaxEvents
    BY <2>2, <2>3, <2>4, <2>5, <1>1
  <2> QED
    BY <2>6 DEF k, c
<1>3. ev = [i \in 1..L |-> [origin |-> w, topic |-> items[i].topic, via |-> path, seq |-> num(i)]]
  BY <1>1 DEF R!Stamp
<1> HIDE DEF num
<1>4. \A i \in 1..L : [origin |-> w, topic |-> items[i].topic, via |-> path, seq |-> num(i)] \in R!Events
  BY <1>1, <1>2 DEF R!Events
<1>5. ev \in [1..L -> R!Events] /\ \A i \in 1..L : Own(w, path, ev[i])
  <2> HIDE DEF ev, L
  <2>1. ev \in [1..L -> R!Events]
    BY <1>3, <1>4
  <2>2. \A i \in 1..L : ev[i].origin = w /\ ev[i].via = path
    BY <1>3
  <2> QED
    BY <2>1, <2>2 DEF Own
<1> HIDE DEF ev, L
<1>6. ev \in Seq(R!Events) /\ Len(ev) = L
  BY <1>1, <1>5
<1> QED
  BY <1>1, <1>5, <1>6 DEF ev, L

LEMMA BumpType ==
    ASSUME R!TypeOK, NEW w \in Workers, NEW items \in Seq(R!Items), R!Room(w, Len(items)), R!Bump(w, items)
    PROVE  topicSeqs' \in [Workers -> [Topics -> 0..MaxEvents]]
<1> DEFINE L == Len(items)
           about(t) == {i \in DOMAIN items : items[i].topic = t}
<1>1. L \in Nat /\ DOMAIN items = 1..L
  OBVIOUS
<1>2. ASSUME NEW t \in Topics PROVE topicSeqs[w][t] + R!Cardinality(about(t)) \in 0..MaxEvents
  <2> DEFINE k == topicSeqs[w][t]
             c == R!Cardinality(about(t))
  <2>1. c \in 0..L
    <3>1. about(t) \in SUBSET (1..L)
      BY <1>1
    <3> HIDE DEF about, L
    <3> QED
      BY <1>1, <3>1, PlacesCount
  <2>2. k \in Nat /\ k <= R!Published /\ R!Published \in Nat
    BY PublishedBounds
  <2>3. R!Published + L <= MaxEvents /\ MaxEvents \in Nat
    BY RelayConstants DEF R!Room
  <2> HIDE DEF k, c, L
  <2>4. k + c \in 0..MaxEvents
    BY <1>1, <2>1, <2>2, <2>3
  <2> QED
    BY <2>4 DEF k, c
<1>3. topicSeqs \in [Workers -> [Topics -> 0..MaxEvents]]
  BY RelayTypes
<1> DEFINE row == [t \in Topics |-> topicSeqs[w][t] + R!Cardinality(about(t))]
<1>4. topicSeqs' = [topicSeqs EXCEPT ![w] = row]
  BY <1>3 DEF R!Bump
<1>5. row \in [Topics -> 0..MaxEvents]
  BY <1>2
<1> HIDE DEF row
<1> QED
  BY <1>3, <1>4, <1>5

\* What is relayed are some of the events.
LEMMA RelayedType ==
    ASSUME NEW items \in Seq(R!Items), NEW ev \in Seq(R!Events), Len(ev) = Len(items)
    PROVE  /\ R!Relayed(items, ev) \in Seq(R!Events)
           /\ \A n \in DOMAIN R!Relayed(items, ev) : \E i \in DOMAIN ev : R!Relayed(items, ev)[n] = ev[i]
<1> DEFINE L == Len(items)
           picked == {i \in DOMAIN items : items[i].relay}
           c == Cardinality(picked)
           rel == R!Relayed(items, ev)
<1>1. L \in Nat /\ DOMAIN items = 1..L /\ DOMAIN ev = 1..L /\ picked \in SUBSET (1..L)
  OBVIOUS
<1>2. R!Cardinality(picked) = c /\ c \in Nat
  <2> HIDE DEF picked, L
  <2> QED
    BY <1>1, PlacesCount
<1>3. \A n : R!Nth(picked, n) = Nth(picked, n)
  BY DEF R!Nth, R!Cardinality, Nth, Cardinality
<1>4. rel = [n \in 1..R!Cardinality(picked) |-> ev[R!Nth(picked, n)]]
  BY DEF R!Relayed
<1> HIDE DEF picked, L, rel
<1>5. rel = [n \in 1..c |-> ev[Nth(picked, n)]]
  BY <1>2, <1>3, <1>4
<1>6. \A n \in 1..c : Nth(picked, n) \in picked
  BY <1>1, NthIsOne
<1> HIDE DEF c
<1>7. rel \in [1..c -> R!Events] /\ \A n \in 1..c : \E i \in DOMAIN ev : rel[n] = ev[i]
  <2>0. \A i \in 1..L : ev[i] \in R!Events
    BY <1>1
  <2>1. \A n \in 1..c : Nth(picked, n) \in 1..L /\ ev[Nth(picked, n)] \in R!Events
    BY <1>1, <1>6, <2>0
  <2> QED
    BY <1>1, <1>5, <2>1
<1>8. rel \in Seq(R!Events) /\ DOMAIN rel = 1..c
  BY <1>2, <1>7
<1> QED
  BY <1>7, <1>8 DEF rel

-----------------------------------------------------------------------------
(* Handing events to uWS. *)

\* What a socket is given of a list of events, by one publish each.
LEMMA WantedOf ==
    ASSUME R!TypeOK, NEW s \in Socks, NEW ev \in Seq(R!Events)
    PROVE  /\ R!Wanted(s, ev) \in Seq(R!Events)
           /\ R!TopicsOf(ev) \subseteq sockNative[s] => R!Wanted(s, ev) = ev
           /\ R!TopicsOf(ev) \cap sockNative[s] = {} => R!Wanted(s, ev) = <<>>
<1> DEFINE K == R!About(Workers, sockNative[s], R!Paths)
           E == R!Events
<1>1. R!Wanted(s, ev) = Within(ev, K)
  BY RelayWithin DEF R!Wanted
<1>2. \A i \in DOMAIN ev : ev[i] \in E /\ ev[i].topic \in R!TopicsOf(ev)
  BY DEF R!TopicsOf
<1>3. \A e \in E : e \in K <=> e.topic \in sockNative[s]
  BY DEF R!About, R!Events
<1>4. ev \in Seq(E)
  OBVIOUS
<1> HIDE DEF K, E
<1>5. Within(ev, K) \in Seq(E)
  BY <1>4, WithinShape
<1>6. R!TopicsOf(ev) \subseteq sockNative[s] => Within(ev, K) = ev
  <2>1. R!TopicsOf(ev) \subseteq sockNative[s] => \A i \in DOMAIN ev : ev[i] \in K
    BY <1>2, <1>3
  <2> QED
    BY <1>4, <2>1, WithinAll
<1>7. R!TopicsOf(ev) \cap sockNative[s] = {} => Within(ev, K) = <<>>
  <2>1. R!TopicsOf(ev) \cap sockNative[s] = {} => \A i \in DOMAIN ev : ev[i] \notin K
    BY <1>2, <1>3
  <2> QED
    BY <1>4, <2>1, WithinNone
<1> QED
  BY <1>1, <1>5, <1>6, <1>7 DEF E

\* One event at a time, or in a frame that all who are interested can use.
Dispatch(w, ev) ==
    \/ R!DispatchEach(w, ev)
    \/ ev # <<>> /\ R!SharesFrame(w, R!TopicsOf(ev)) /\ R!DispatchFrame(w, ev)

LEMMA Dispatched ==
    ASSUME RelayInv, NEW w \in Workers, NEW ev \in Seq(R!Events), Dispatch(w, ev), R!Account(w, ev)
    PROVE  /\ got' = due' /\ got' \in [Socks -> Seq(R!Events)]
           /\ seen' = [seen EXCEPT ![w] = seen[w] \o ev] /\ seen' \in [Workers -> Seq(R!Events)]
<1> DEFINE E == R!Events
           T == R!TopicsOf(ev)
<1>0. R!TypeOK /\ got = due /\ sockSubs = sockNative
  BY DEF RelayInv
<1>1. /\ got \in [Socks -> Seq(E)] /\ seen \in [Workers -> Seq(E)]
      /\ sockNative \in [Socks -> SUBSET Topics] /\ capable \in SUBSET Socks
  BY <1>0, RelayTypes
<1>2. due' = [s \in Socks |-> IF Home[s] = w THEN due[s] \o R!Wanted(s, ev) ELSE due[s]]
  BY DEF R!Account
<1>3. \A s \in Socks : R!Wanted(s, ev) \in Seq(E)
  BY <1>0, WantedOf
<1>4. seen' = [seen EXCEPT ![w] = seen[w] \o ev]
  BY DEF R!Account
<1>5. seen' \in [Workers -> Seq(E)]
  <2> HIDE DEF E
  <2>1. ev \in Seq(E)
    BY DEF E
  <2>2. seen[w] \o ev \in Seq(E)
    BY <1>1, <2>1
  <2> QED
    BY <1>1, <1>4, <2>2
<1>6. due' \in [Socks -> Seq(E)]
  <2>1. \A s \in Socks : due[s] \in Seq(E) /\ due[s] \o R!Wanted(s, ev) \in Seq(E)
    <3> HIDE DEF E
    <3> QED
      BY <1>0, <1>1, <1>3
  <2> HIDE DEF E
  <2> QED
    BY <1>2, <2>1
<1>7. CASE R!DispatchEach(w, ev)
  <2>1. got' = [s \in Socks |-> IF Home[s] = w THEN got[s] \o R!Wanted(s, ev) ELSE got[s]]
    BY <1>7 DEF R!DispatchEach
  <2> QED
    BY <1>0, <1>2, <1>4, <1>5, <1>6, <2>1
<1>8. CASE ev # <<>> /\ R!SharesFrame(w, T) /\ R!DispatchFrame(w, ev)
  <2> DEFINE readers == {s \in capable : Home[s] = w /\ ev[1].topic \in sockNative[s]}
  <2>1. got' = [s \in Socks |-> IF s \in readers THEN got[s] \o ev ELSE got[s]]
    BY <1>8 DEF R!DispatchFrame
  <2>2. ev[1].topic \in T
    <3>1. 1 \in DOMAIN ev
      BY <1>8
    <3> QED
      BY <3>1 DEF R!TopicsOf
  <2>3. \A s \in Socks : Home[s] = w /\ sockNative[s] \cap T # {} => T \subseteq sockNative[s] /\ s \in capable
    BY <1>0, <1>8 DEF R!SharesFrame, R!Interested
  <2>4. ASSUME NEW s \in Socks
        PROVE  (IF s \in readers THEN got[s] \o ev ELSE got[s])
                  = IF Home[s] = w THEN due[s] \o R!Wanted(s, ev) ELSE due[s]
    <3>1. got[s] = due[s] /\ got[s] \in Seq(E)
      BY <1>0, <1>1
    <3> HIDE DEF T
    <3>2. CASE Home[s] = w /\ sockNative[s] \cap T # {}
      <4>1. T \subseteq sockNative[s] /\ s \in capable
        BY <2>3, <3>2
      <4>2. s \in readers
        BY <2>2, <3>2, <4>1
      <4>3. R!Wanted(s, ev) = ev
        BY <1>0, <4>1, WantedOf DEF T
      <4> QED
        BY <3>1, <3>2, <4>2, <4>3
    <3>3. CASE Home[s] = w /\ sockNative[s] \cap T = {}
      <4>1. s \notin readers
        BY <2>2, <3>3
      <4>2. R!Wanted(s, ev) = <<>>
        BY <1>0, <3>3, WantedOf DEF T
      <4>3. got[s] \o <<>> = got[s]
        <5> HIDE DEF E
        <5> QED
          BY <3>1, LineEnds
      <4> QED
        BY <3>1, <3>3, <4>1, <4>2, <4>3
    <3>4. CASE Home[s] # w
      BY <3>1, <3>4
    <3> QED
      BY <3>2, <3>3, <3>4
  <2>5. got' = due'
    <3> HIDE DEF readers
    <3> QED
      BY <1>2, <2>1, <2>4
  <2> QED
    BY <1>4, <1>5, <1>6, <2>5
<1> QED
  BY <1>7, <1>8 DEF Dispatch

-----------------------------------------------------------------------------
(* The steps keep what is on the way. *)

LEMMA RelayParts ==
    ASSUME RelayInv
    PROVE  /\ R!TypeOK /\ Postmarks /\ sockSubs = sockNative /\ got = due
           /\ \A v \in alive : \A o \in Workers \ {v} : \A path \in R!Paths : Arrives(v, o, path)
  BY DEF RelayInv

\* What worker w publishes is new on the way to the others and nothing else is.
LEMMA PublishArrives ==
    ASSUME RelayInv, NEW w \in alive, NEW ev \in Seq(R!Events), NEW rel \in Seq(R!Events),
           \A i \in DOMAIN ev : ev[i].origin = w,
           alive' = alive, down' = down, seen' = [seen EXCEPT ![w] = seen[w] \o ev],
           sent' = [sent EXCEPT ![w] = sent[w] \o rel],
           \A o \in Workers \ {w} : up'[o] = up[o] /\ relayBatch'[o] = relayBatch[o],
           \A v \in Workers : \A path \in R!Paths :
              Way(seen[v], down[v], up'[w], relayBatch'[w], w, path)
                 = Way(seen[v], down[v], up[w], relayBatch[w], w, path) \o R!From(w, path, rel)
    PROVE  \A v \in alive' : \A o \in Workers \ {v} : \A path \in R!Paths : Arrives(v, o, path)'
<1> SUFFICES ASSUME NEW v \in alive, NEW o \in Workers \ {v}, NEW path \in R!Paths
             PROVE  Arrives(v, o, path)'
  OBVIOUS
<1>1. R!TypeOK /\ Arrives(v, o, path)
  BY RelayParts
<1>2. v \in Workers /\ w \in Workers
  BY <1>1, RelayTypes
<1>3. /\ seen \in [Workers -> Seq(R!Events)] /\ sent \in [Workers -> Seq(R!Events)]
      /\ down \in [Workers -> Seq(R!Message)] /\ up \in [Workers -> Seq(R!Message)]
      /\ relayBatch \in [Workers -> Seq(R!Events) \cup {Null}]
  BY <1>1, RelayTypes
<1>4. CASE o = w
  <2>1. seen'[v] = seen[v] /\ down'[v] = down[v]
    BY <1>2, <1>3, <1>4
  <2>2. sent'[w] = sent[w] \o rel
    BY <1>2, <1>3
  <2>3. R!From(w, path, sent[w] \o rel) = R!From(w, path, sent[w]) \o R!From(w, path, rel)
    <3>1. sent[w] \in Seq(R!Events)
      BY <1>2, <1>3
    <3> QED
      BY <3>1, FromSplitsAlways, Zenon DEF FromSplits
  <2>4. Way(seen[v], down[v], up[w], relayBatch[w], w, path) = R!From(w, path, sent[w])
    BY <1>1, <1>4 DEF Arrives
  <2>5. Way(seen'[v], down'[v], up'[w], relayBatch'[w], w, path) = R!From(w, path, sent'[w])
    BY <1>2, <2>1, <2>2, <2>3, <2>4
  <2> QED
    BY <1>4, <2>5 DEF Arrives
<1>5. CASE o # w
  <2>1. up'[o] = up[o] /\ relayBatch'[o] = relayBatch[o] /\ sent'[o] = sent[o] /\ down'[v] = down[v]
    BY <1>2, <1>3, <1>5
  <2>2. Way(seen'[v], down[v], up[o], relayBatch[o], o, path) = Way(seen[v], down[v], up[o], relayBatch[o], o, path)
    <3>1. CASE v = w
      <4> DEFINE m == [type |-> "publish-batched", events |-> ev]
                 p == <<m>>
      <4>1. m \in R!Message /\ m.events = ev /\ p \in Seq(R!Message)
        BY DEF R!Message
      <4>2. R!InMessages(p) = ev
        BY <4>1, MessagesOne
      <4>3. R!From(o, path, ev) = <<>>
        <5>1. \A i \in DOMAIN ev : ev[i].origin # o \/ ev[i].via # path
          BY <1>5
        <5> QED
          BY <5>1, FromJoins
      <4>4. seen'[v] = seen[v] \o ev
        BY <1>2, <1>3, <3>1
      <4>5. /\ seen[v] \in Seq(R!Events) /\ down[v] \in Seq(R!Message) /\ up[o] \in Seq(R!Message)
            /\ relayBatch[o] \in Seq(R!Events) \cup {Null}
        BY <1>2, <1>3
      <4> HIDE DEF p, m
      <4> QED
        BY <4>1, <4>2, <4>3, <4>4, <4>5, OthersPass
    <3>2. CASE v # w
      BY <1>2, <1>3, <3>2
    <3> QED
      BY <3>1, <3>2
  <2> QED
    BY <1>1, <2>1, <2>2 DEF Arrives
<1> QED
  BY <1>4, <1>5

\* Stamping keeps the topics.
LEMMA StampTopics ==
    ASSUME NEW w, NEW items \in Seq(R!Items), NEW path
    PROVE  R!TopicsOf(R!Stamp(w, items, path)) = R!TopicsOf(items)
<1> DEFINE ev == R!Stamp(w, items, path)
<1>1. DOMAIN ev = DOMAIN items /\ \A i \in DOMAIN items : ev[i].topic = items[i].topic
  BY DEF R!Stamp
<1> HIDE DEF ev
<1>2. R!TopicsOf(ev) = R!TopicsOf(items)
  BY <1>1 DEF R!TopicsOf
<1> QED
  BY <1>2 DEF ev

\* publish, and the loop over it.
LEMMA PublishEachKeeps ==
    ASSUME RelayInv, NEW w \in alive, NEW items \in Seq(R!Items), R!Room(w, Len(items)), R!PublishEach(w, items),
           UNCHANGED <<alive, down, sockSubs, sockNative, capable>>
    PROVE  RelayInv'
<1> DEFINE E == R!Events
           ev == R!Stamp(w, items, "publish")
           rel == R!Relayed(items, ev)
<1>0. /\ R!TypeOK /\ Postmarks /\ sockSubs = sockNative /\ got = due
      /\ \A v \in alive : \A o \in Workers \ {v} : \A path \in R!Paths : Arrives(v, o, path)
  BY RelayParts
<1>1. /\ alive \in SUBSET Workers /\ w \in Workers /\ "publish" \in R!Paths
      /\ relayBatch \in [Workers -> Seq(E) \cup {Null}]
      /\ timer \in [Workers -> BOOLEAN] /\ sent \in [Workers -> Seq(E)]
      /\ \A u \in alive : timer[u] <=> relayBatch[u] # Null
  BY <1>0, RelayTypes DEF R!Paths
<1>2. /\ ev \in Seq(E) /\ Len(ev) = Len(items) /\ \A i \in DOMAIN items : Own(w, "publish", ev[i])
      /\ DOMAIN ev = DOMAIN items
  <2>1. ev \in Seq(E) /\ Len(ev) = Len(items) /\ \A i \in DOMAIN items : Own(w, "publish", ev[i])
    BY <1>0, <1>1, StampType
  <2>2. DOMAIN ev = DOMAIN items
    BY DEF R!Stamp
  <2> QED
    BY <2>1, <2>2
<1>3. /\ R!Bump(w, items) /\ R!DispatchEach(w, ev) /\ R!Account(w, ev) /\ R!BatchRelay(w, rel)
      /\ sent' = [sent EXCEPT ![w] = sent[w] \o rel] /\ up' = up
  BY DEF R!PublishEach
<1> HIDE DEF ev
<1>4. rel \in Seq(E) /\ \A n \in DOMAIN rel : Own(w, "publish", rel[n])
  <2>1. rel \in Seq(E) /\ \A n \in DOMAIN rel : \E i \in DOMAIN ev : rel[n] = ev[i]
    BY <1>2, RelayedType
  <2> HIDE DEF rel
  <2> QED
    BY <1>2, <2>1
<1> HIDE DEF rel
<1>5. /\ got' = due' /\ got' \in [Socks -> Seq(E)]
      /\ seen' = [seen EXCEPT ![w] = seen[w] \o ev] /\ seen' \in [Workers -> Seq(E)]
  BY <1>1, <1>2, <1>3, Dispatched DEF Dispatch
<1>6. topicSeqs' \in [Workers -> [Topics -> 0..MaxEvents]]
  BY <1>0, <1>1, <1>3, BumpType
<1>7. sent' \in [Workers -> Seq(E)]
  <2> HIDE DEF E
  <2>1. sent[w] \o rel \in Seq(E)
    BY <1>1, <1>4
  <2> QED
    BY <1>1, <1>3, <2>1
<1> DEFINE grown == IF relayBatch[w] = Null THEN rel ELSE relayBatch[w] \o rel
<1>8. /\ rel = <<>> => relayBatch' = relayBatch /\ timer' = timer
      /\ rel # <<>> => /\ relayBatch' = [relayBatch EXCEPT ![w] = grown]
                       /\ timer' = [timer EXCEPT ![w] = timer[w] \/ relayBatch[w] = Null]
  BY <1>3 DEF R!BatchRelay
<1>9. /\ grown \in Seq(E) /\ grown # Null
      /\ \A i \in DOMAIN grown : Own(w, "publish", grown[i])
  <2>1. CASE relayBatch[w] = Null
    <3>1. grown = rel
      BY <2>1
    <3> QED
      BY <1>4, <3>1, RelayConstants
  <2>2. CASE relayBatch[w] # Null
    <3>1. relayBatch[w] \in Seq(E) /\ \A i \in DOMAIN relayBatch[w] : Own(w, "publish", relayBatch[w][i])
      BY <1>0, <1>1, <2>2 DEF Postmarks
    <3> DEFINE b == relayBatch[w]
    <3>2. grown = b \o rel
      BY <2>2
    <3> HIDE DEF E, b, grown
    <3>3. b \o rel \in Seq(E)
      BY <1>4, <3>1 DEF b
    <3>4. ASSUME NEW i \in DOMAIN (b \o rel) PROVE Own(w, "publish", (b \o rel)[i])
      <4>1. Len(b) \in Nat /\ Len(rel) \in Nat /\ DOMAIN b = 1..Len(b) /\ DOMAIN rel = 1..Len(rel)
        BY <1>4, <3>1 DEF b
      <4>2. i \in 1..(Len(b) + Len(rel)) /\ (b \o rel)[i] = IF i <= Len(b) THEN b[i] ELSE rel[i - Len(b)]
        BY <1>4, <3>1 DEF b
      <4>3. (i <= Len(b) => i \in DOMAIN b) /\ (~(i <= Len(b)) => i - Len(b) \in DOMAIN rel)
        BY <4>1, <4>2
      <4>4. i \in DOMAIN b => Own(w, "publish", b[i])
        BY <3>1 DEF b
      <4> QED
        BY <1>4, <4>2, <4>3, <4>4
    <3> QED
      BY <3>2, <3>3, <3>4, RelayConstants DEF E
  <2> QED
    BY <2>1, <2>2
<1>10. /\ relayBatch' \in [Workers -> Seq(E) \cup {Null}] /\ timer' \in [Workers -> BOOLEAN]
       /\ \A u \in alive : timer'[u] <=> relayBatch'[u] # Null
       /\ \A u \in Workers \ {w} : relayBatch'[u] = relayBatch[u]
       /\ rel # <<>> => relayBatch'[w] = grown
  <2> HIDE DEF E, grown
  <2>1. CASE rel = <<>>
    BY <1>1, <1>8, <2>1
  <2>2. CASE rel # <<>>
    BY <1>1, <1>8, <1>9, <2>2
  <2> QED
    BY <2>1, <2>2
<1>11. R!TypeOK'
  BY <1>0, <1>1, <1>3, <1>5, <1>6, <1>7, <1>10, RelayTypes DEF R!TypeOK
<1>12. Postmarks'
  <2>1. ASSUME NEW u \in Workers, relayBatch'[u] # Null
        PROVE  \A i \in DOMAIN relayBatch'[u] : Own(u, "publish", relayBatch'[u][i])
    <3>1. relayBatch[u] # Null => \A i \in DOMAIN relayBatch[u] : Own(u, "publish", relayBatch[u][i])
      BY <1>0 DEF Postmarks
    <3> HIDE DEF grown, E
    <3>2. CASE relayBatch'[u] = relayBatch[u]
      BY <2>1, <3>1, <3>2
    <3>3. CASE relayBatch'[u] # relayBatch[u]
      <4>1. u = w /\ relayBatch'[u] = grown
        BY <1>8, <1>10, <3>3
      <4> QED
        BY <1>9, <4>1
    <3> QED
      BY <3>2, <3>3
  <2> QED
    BY <1>0, <1>3, <2>1 DEF Postmarks
<1>13. \A v \in Workers : \A path \in R!Paths :
          Way(seen[v], down[v], up'[w], relayBatch'[w], w, path)
             = Way(seen[v], down[v], up[w], relayBatch[w], w, path) \o R!From(w, path, rel)
  <2> SUFFICES ASSUME NEW v \in Workers, NEW path \in R!Paths
               PROVE  Way(seen[v], down[v], up[w], relayBatch'[w], w, path)
                         = Way(seen[v], down[v], up[w], relayBatch[w], w, path) \o R!From(w, path, rel)
    BY <1>3
  <2>1. /\ seen[v] \in Seq(R!Events) /\ down[v] \in Seq(R!Message) /\ up[w] \in Seq(R!Message)
        /\ relayBatch[w] \in Seq(R!Events) \cup {Null} /\ rel \in Seq(R!Events)
    BY <1>0, <1>1, <1>4, RelayTypes
  <2>2. CASE rel = <<>>
    <3>1. R!From(w, path, rel) = <<>> /\ relayBatch' = relayBatch
      BY <1>8, <2>1, <2>2, FromJoins
    <3> DEFINE way == Way(seen[v], down[v], up[w], relayBatch[w], w, path)
    <3>2. way \in Seq(R!Events)
      BY <2>1, WayType
    <3> HIDE DEF way
    <3>3. way \o <<>> = way
      BY <3>2, LineEnds
    <3> QED
      BY <3>1, <3>3 DEF way
  <2>3. CASE rel # <<>>
    <3>1. relayBatch'[w] = grown /\ grown \in Seq(R!Events)
      BY <1>9, <1>10, <2>3
    <3> DEFINE s == seen[v]
               d == down[v]
               u == up[w]
               b == relayBatch[w]
    <3>2. (b = Null => grown = rel) /\ (b # Null => grown = b \o rel)
      OBVIOUS
    <3>4. /\ s \in Seq(R!Events) /\ d \in Seq(R!Message) /\ u \in Seq(R!Message)
          /\ b \in Seq(R!Events) \cup {Null} /\ rel \in Seq(R!Events) /\ grown \in Seq(R!Events)
      BY <2>1, <3>1
    <3> HIDE DEF s, d, u, b, grown
    <3>3. Way(s, d, u, grown, w, path) = Way(s, d, u, b, w, path) \o R!From(w, path, rel)
      <4>1. \A x \in Seq(R!Events) : \A y \in Seq(R!Message) : \A z \in Seq(R!Message) :
            \A k \in Batches : \A l \in Seq(R!Events) : \A m \in Seq(R!Events) :
               (k = Null => l = m) /\ (k # Null => l = k \o m) => Grows(x, y, z, k, l, w, path, m)
        BY BatchGrows
      <4>2. \A k \in Batches : \A l \in Seq(R!Events) : \A m \in Seq(R!Events) :
               (k = Null => l = m) /\ (k # Null => l = k \o m) => Grows(s, d, u, k, l, w, path, m)
        BY <3>4, <4>1, Zenon
      <4>3. b \in Batches
        BY <3>4 DEF Batches
      <4>4. (b = Null => grown = rel) /\ (b # Null => grown = b \o rel) => Grows(s, d, u, b, grown, w, path, rel)
        BY <3>4, <4>2, <4>3, Zenon
      <4> QED
        BY <3>2, <4>4, Zenon DEF Grows
    <3> QED
      BY <3>1, <3>3 DEF s, d, u, b
  <2> QED
    BY <2>2, <2>3
<1>14. \A v \in alive' : \A o \in Workers \ {v} : \A path \in R!Paths : Arrives(v, o, path)'
  <2>1. \A i \in DOMAIN ev : ev[i].origin = w
    BY <1>2 DEF Own
  <2>2. \A o \in Workers \ {w} : up'[o] = up[o] /\ relayBatch'[o] = relayBatch[o]
    BY <1>3, <1>10
  <2>3. alive' = alive /\ down' = down
    OBVIOUS
  <2> QED
    BY <1>2, <1>3, <1>4, <1>5, <1>13, <2>1, <2>2, <2>3, PublishArrives
<1> QED
  BY <1>0, <1>5, <1>11, <1>12, <1>14 DEF RelayInv

\* publishBatched on the fast path: the relay is posted at once.
LEMMA PublishFrameKeeps ==
    ASSUME RelayInv, NEW w \in alive, NEW items \in Seq(R!Items), items # <<>>, R!Room(w, Len(items)),
           R!SharesFrame(w, R!TopicsOf(items)), R!PublishFrame(w, items),
           UNCHANGED <<alive, down, sockSubs, sockNative, capable>>
    PROVE  RelayInv'
<1> DEFINE E == R!Events
           ev == R!Stamp(w, items, "batched")
           rel == R!Relayed(items, ev)
           m == [type |-> "publish-batched", events |-> rel]
<1>0. /\ R!TypeOK /\ Postmarks /\ sockSubs = sockNative /\ got = due
      /\ \A v \in alive : \A o \in Workers \ {v} : \A path \in R!Paths : Arrives(v, o, path)
  BY RelayParts
<1>1. /\ alive \in SUBSET Workers /\ w \in Workers /\ "batched" \in R!Paths
      /\ up \in [Workers -> Seq(R!Message)] /\ sent \in [Workers -> Seq(E)]
      /\ relayBatch \in [Workers -> Seq(E) \cup {Null}]
  BY <1>0, RelayTypes DEF R!Paths
<1>2. /\ ev \in Seq(E) /\ ev # <<>> /\ \A i \in DOMAIN items : Own(w, "batched", ev[i])
      /\ DOMAIN ev = DOMAIN items /\ Len(ev) = Len(items)
      /\ R!SharesFrame(w, R!TopicsOf(ev))
  <2>1. ev \in Seq(E) /\ Len(ev) = Len(items) /\ \A i \in DOMAIN items : Own(w, "batched", ev[i])
    BY <1>0, <1>1, StampType
  <2>2. DOMAIN ev = DOMAIN items
    BY DEF R!Stamp
  <2>3. R!SharesFrame(w, R!TopicsOf(ev))
    <3>1. R!TopicsOf(ev) = R!TopicsOf(items)
      BY StampTopics
    <3> QED
      BY <3>1
  <2>4. ev # <<>>
    <3> HIDE DEF ev, E
    <3> QED
      BY <2>1
  <2> QED
    BY <2>1, <2>2, <2>3, <2>4
<1>3. /\ R!Bump(w, items) /\ R!DispatchFrame(w, ev) /\ R!Account(w, ev)
      /\ sent' = [sent EXCEPT ![w] = sent[w] \o rel]
      /\ up' = IF rel = <<>> THEN up ELSE [up EXCEPT ![w] = Append(up[w], m)]
      /\ relayBatch' = relayBatch /\ timer' = timer
  BY DEF R!PublishFrame
<1> HIDE DEF ev
<1>4. rel \in Seq(E) /\ \A n \in DOMAIN rel : Own(w, "batched", rel[n])
  <2>1. rel \in Seq(E) /\ \A n \in DOMAIN rel : \E i \in DOMAIN ev : rel[n] = ev[i]
    BY <1>2, RelayedType
  <2> HIDE DEF rel
  <2> QED
    BY <1>2, <2>1
<1> HIDE DEF rel
<1>5. /\ got' = due' /\ got' \in [Socks -> Seq(E)]
      /\ seen' = [seen EXCEPT ![w] = seen[w] \o ev] /\ seen' \in [Workers -> Seq(E)]
  BY <1>1, <1>2, <1>3, Dispatched DEF Dispatch
<1>6. topicSeqs' \in [Workers -> [Topics -> 0..MaxEvents]]
  BY <1>0, <1>1, <1>3, BumpType
<1>7. sent' \in [Workers -> Seq(E)]
  <2> HIDE DEF E
  <2>1. sent[w] \o rel \in Seq(E)
    BY <1>1, <1>4
  <2> QED
    BY <1>1, <1>3, <2>1
<1>8. m \in R!Message /\ m.events = rel /\ m.type = "publish-batched"
  BY <1>4 DEF R!Message
<1> HIDE DEF m
<1>9. Append(up[w], m) \in Seq(R!Message) /\ up' \in [Workers -> Seq(R!Message)]
  BY <1>1, <1>3, <1>8
<1>10. \A u \in Workers \ {w} : up'[u] = up[u]
  BY <1>1, <1>3
<1>11. R!TypeOK'
  BY <1>0, <1>3, <1>5, <1>6, <1>7, <1>9, RelayTypes DEF R!TypeOK
<1>12. Postmarks'
  <2>1. ASSUME NEW u \in Workers, NEW i \in DOMAIN up'[u]
        PROVE  /\ up'[u][i].type = "publish-batched" => up'[u][i].events # <<>>
               /\ \A j \in DOMAIN up'[u][i].events : up'[u][i].events[j].origin = u
    <3>1. \A k \in DOMAIN up[u] :
             /\ up[u][k].type = "publish-batched" => up[u][k].events # <<>>
             /\ \A j \in DOMAIN up[u][k].events : up[u][k].events[j].origin = u
      BY <1>0 DEF Postmarks
    <3>2. CASE up'[u] = up[u]
      <4>1. i \in DOMAIN up[u] /\ up'[u][i] = up[u][i]
        BY <3>2
      <4> QED
        BY <3>1, <4>1
    <3>3. CASE up'[u] # up[u]
      <4>1. u = w /\ rel # <<>> /\ up'[w] = Append(up[w], m)
        BY <1>1, <1>3, <1>10, <3>3
      <4>2. up[w] \in Seq(R!Message) /\ Len(up[w]) \in Nat /\ DOMAIN up[w] = 1..Len(up[w])
        BY <1>1
      <4>3. CASE i \in DOMAIN up[w]
        <5>1. up'[w][i] = up[w][i]
          BY <1>8, <4>1, <4>2, <4>3
        <5> QED
          BY <3>1, <4>1, <4>3, <5>1
      <4>4. CASE i \notin DOMAIN up[w]
        <5>1. up'[w][i] = m
          <6>1. i = Len(up[w]) + 1
            BY <1>8, <4>1, <4>2, <4>4
          <6> QED
            BY <1>8, <4>1, <4>2, <6>1
        <5>2. \A j \in DOMAIN rel : rel[j].origin = w
          BY <1>4 DEF Own
        <5> QED
          BY <1>8, <4>1, <5>1, <5>2
      <4> QED
        BY <4>3, <4>4
    <3> QED
      BY <3>2, <3>3
  <2> QED
    BY <1>0, <1>3, <2>1 DEF Postmarks
<1>13. \A v \in Workers : \A path \in R!Paths :
          Way(seen[v], down[v], up'[w], relayBatch'[w], w, path)
             = Way(seen[v], down[v], up[w], relayBatch[w], w, path) \o R!From(w, path, rel)
  <2> SUFFICES ASSUME NEW v \in Workers, NEW path \in R!Paths
               PROVE  Way(seen[v], down[v], up'[w], relayBatch[w], w, path)
                         = Way(seen[v], down[v], up[w], relayBatch[w], w, path) \o R!From(w, path, rel)
    BY <1>3
  <2>1. /\ seen[v] \in Seq(R!Events) /\ down[v] \in Seq(R!Message) /\ up[w] \in Seq(R!Message)
        /\ relayBatch[w] \in Seq(R!Events) \cup {Null} /\ rel \in Seq(R!Events)
    BY <1>0, <1>1, <1>4, RelayTypes
  <2>2. CASE rel = <<>>
    <3>1. R!From(w, path, rel) = <<>> /\ up' = up
      BY <1>3, <2>1, <2>2, FromJoins
    <3> DEFINE way == Way(seen[v], down[v], up[w], relayBatch[w], w, path)
    <3>2. way \in Seq(R!Events)
      BY <2>1, WayType
    <3> HIDE DEF way
    <3>3. way \o <<>> = way
      BY <3>2, LineEnds
    <3> QED
      BY <3>1, <3>3 DEF way
  <2>3. CASE rel # <<>>
    <3>1. up'[w] = Append(up[w], m)
      BY <1>1, <1>3, <2>3
    <3>2. Waits(relayBatch[w], w, path) = <<>> \/ R!From(w, path, rel) = <<>>
      <4>1. CASE path = "publish"
        <5>1. \A n \in DOMAIN rel : rel[n].origin # w \/ rel[n].via # path
          BY <1>4, <4>1 DEF Own
        <5> QED
          BY <2>1, <5>1, FromJoins
      <4>2. CASE path # "publish"
        <5>1. CASE relayBatch[w] = Null
          BY <5>1 DEF Waits
        <5>2. CASE relayBatch[w] # Null
          <6>1. relayBatch[w] \in Seq(R!Events)
            BY <2>1, <5>2
          <6>2. \A i \in DOMAIN relayBatch[w] : relayBatch[w][i].origin # w \/ relayBatch[w][i].via # path
            BY <1>0, <1>1, <4>2, <5>2 DEF Postmarks, Own
          <6>3. R!From(w, path, relayBatch[w]) = <<>>
            BY <6>1, <6>2, FromJoins
          <6> QED
            BY <5>2, <6>3 DEF Waits
        <5> QED
          BY <5>1, <5>2
      <4> QED
        BY <4>1, <4>2
    <3> DEFINE s == seen[v]
               d == down[v]
               u == up[w]
               b == relayBatch[w]
    <3>3. /\ s \in Seq(R!Events) /\ d \in Seq(R!Message) /\ u \in Seq(R!Message) /\ m \in R!Message
          /\ b \in Seq(R!Events) \cup {Null} /\ (Waits(b, w, path) = <<>> \/ R!From(w, path, m.events) = <<>>)
      BY <1>8, <2>1, <3>2
    <3> HIDE DEF s, d, u, b
    <3>4. Way(s, d, Append(u, m), b, w, path) = Way(s, d, u, b, w, path) \o R!From(w, path, m.events)
      <4>1. \A x \in Seq(R!Events) : \A y \in Seq(R!Message) : \A z \in Seq(R!Message) :
            \A k \in Batches : \A n \in R!Message :
               Waits(k, w, path) = <<>> \/ R!From(w, path, n.events) = <<>> => Posts(x, y, z, k, n, w, path)
        BY PostedPast
      <4>2. b \in Batches
        BY <3>3 DEF Batches
      <4>3. Posts(s, d, u, b, m, w, path)
        BY <3>3, <4>1, <4>2, Zenon
      <4> QED
        BY <4>3, Zenon DEF Posts
    <3> QED
      BY <1>8, <3>1, <3>4 DEF s, d, u, b
  <2> QED
    BY <2>2, <2>3
<1>14. \A v \in alive' : \A o \in Workers \ {v} : \A path \in R!Paths : Arrives(v, o, path)'
  <2>1. \A i \in DOMAIN ev : ev[i].origin = w
    BY <1>2 DEF Own
  <2>2. \A o \in Workers \ {w} : up'[o] = up[o] /\ relayBatch'[o] = relayBatch[o]
    BY <1>3, <1>10
  <2>3. alive' = alive /\ down' = down
    OBVIOUS
  <2> QED
    BY <1>2, <1>3, <1>4, <1>5, <1>13, <2>1, <2>2, <2>3, PublishArrives
<1> QED
  BY <1>0, <1>5, <1>11, <1>12, <1>14 DEF RelayInv

\* A publication, of one or of a list.
LEMMA PublicationKeeps ==
    ASSUME RelayInv, NEW w \in Workers,
           \/ \E item \in R!Items : R!Publish(w, item)
           \/ \E items \in UNION {[1..n -> R!Items] : n \in 1..MaxBatch} : R!PublishBatched(w, items)
    PROVE  RelayInv'
<1>1. ASSUME NEW item \in R!Items, R!Publish(w, item) PROVE RelayInv'
  <2> DEFINE items == <<item>>
  <2>1. items \in Seq(R!Items) /\ Len(items) = 1
    OBVIOUS
  <2>2. w \in alive /\ R!Room(w, 1) /\ R!PublishEach(w, items) /\ UNCHANGED <<alive, down, sockSubs, sockNative, capable>>
    BY <1>1 DEF R!Publish, R!Room, R!sockVars
  <2> HIDE DEF items
  <2> QED
    BY <2>1, <2>2, PublishEachKeeps
<1>2. ASSUME NEW items \in UNION {[1..n -> R!Items] : n \in 1..MaxBatch}, R!PublishBatched(w, items) PROVE RelayInv'
  <2>1. PICK n \in 1..MaxBatch : items \in [1..n -> R!Items]
    OBVIOUS
  <2>2. items \in Seq(R!Items) /\ items # <<>>
    <3>1. n \in Nat /\ n >= 1
      BY RelayConstants
    <3>2. items \in Seq(R!Items) /\ Len(items) = n
      BY <2>1, <3>1
    <3> QED
      BY <3>1, <3>2
  <2>3. w \in alive /\ R!Room(w, Len(items)) /\ UNCHANGED <<alive, down, sockSubs, sockNative, capable>>
    BY <1>2 DEF R!PublishBatched, R!Room, R!sockVars
  <2>4. CASE R!SharesFrame(w, R!TopicsOf(items)) /\ R!PublishFrame(w, items)
    BY <2>2, <2>3, <2>4, PublishFrameKeeps
  <2>5. CASE R!PublishEach(w, items)
    BY <2>2, <2>3, <2>5, PublishEachKeeps
  <2> QED
    BY <1>2, <2>4, <2>5 DEF R!PublishBatched
<1> QED
  BY <1>1, <1>2

\* The timer fires.
LEMMA FlushKeeps ==
    ASSUME RelayInv, NEW w \in Workers, R!FlushRelay(w)
    PROVE  RelayInv'
<1> DEFINE E == R!Events
           m == [type |-> "publish-batch", events |-> relayBatch[w]]
<1>0. /\ R!TypeOK /\ Postmarks /\ sockSubs = sockNative /\ got = due
      /\ \A v \in alive : \A o \in Workers \ {v} : \A path \in R!Paths : Arrives(v, o, path)
  BY RelayParts
<1>1. /\ alive \in SUBSET Workers /\ up \in [Workers -> Seq(R!Message)] /\ timer \in [Workers -> BOOLEAN]
      /\ relayBatch \in [Workers -> Seq(E) \cup {Null}] /\ \A u \in alive : timer[u] <=> relayBatch[u] # Null
  BY <1>0, RelayTypes
<1>2. /\ w \in alive /\ relayBatch[w] # Null /\ up' = [up EXCEPT ![w] = Append(up[w], m)]
      /\ relayBatch' = [relayBatch EXCEPT ![w] = Null] /\ timer' = [timer EXCEPT ![w] = FALSE]
      /\ UNCHANGED <<alive, topicSeqs, down, sockSubs, sockNative, capable, sent, seen, got, due>>
  BY <1>1 DEF R!FlushRelay, R!sockVars
<1>3. m \in R!Message /\ m.events = relayBatch[w] /\ m.type # "publish-batched" /\ m.events \in Seq(E)
  BY <1>1, <1>2 DEF R!Message
<1> HIDE DEF m
<1>4. up' \in [Workers -> Seq(R!Message)]
  BY <1>1, <1>2, <1>3
<1>5. /\ relayBatch' \in [Workers -> Seq(E) \cup {Null}] /\ timer' \in [Workers -> BOOLEAN]
      /\ \A u \in alive : timer'[u] <=> relayBatch'[u] # Null
  <2> HIDE DEF E
  <2> QED
    BY <1>1, <1>2
<1>6. R!TypeOK'
  BY <1>0, <1>2, <1>4, <1>5, RelayTypes DEF R!TypeOK
<1>7. Postmarks'
  <2>1. ASSUME NEW u \in Workers, NEW i \in DOMAIN up'[u]
        PROVE  /\ up'[u][i].type = "publish-batched" => up'[u][i].events # <<>>
               /\ \A j \in DOMAIN up'[u][i].events : up'[u][i].events[j].origin = u
    <3>1. \A k \in DOMAIN up[u] :
             /\ up[u][k].type = "publish-batched" => up[u][k].events # <<>>
             /\ \A j \in DOMAIN up[u][k].events : up[u][k].events[j].origin = u
      BY <1>0 DEF Postmarks
    <3>2. CASE u # w
      BY <1>1, <1>2, <3>1, <3>2
    <3>3. CASE u = w
      <4>1. up'[w] = Append(up[w], m) /\ up[w] \in Seq(R!Message)
        BY <1>1, <1>2
      <4>2. CASE i \in DOMAIN up[w]
        <5>1. up'[w][i] = up[w][i]
          BY <1>3, <4>1, <4>2
        <5> QED
          BY <3>1, <3>3, <4>2, <5>1
      <4>3. CASE i \notin DOMAIN up[w]
        <5>1. up'[w][i] = m
          <6>1. i = Len(up[w]) + 1
            BY <1>3, <3>3, <4>1, <4>3
          <6> QED
            BY <1>3, <4>1, <6>1
        <5>2. \A j \in DOMAIN relayBatch[w] : relayBatch[w][j].origin = w
          BY <1>0, <1>2 DEF Postmarks, Own
        <5> QED
          BY <1>3, <3>3, <5>1, <5>2
      <4> QED
        BY <4>2, <4>3
    <3> QED
      BY <3>2, <3>3
  <2>2. \A u \in Workers : relayBatch'[u] # Null => relayBatch'[u] = relayBatch[u]
    BY <1>1, <1>2
  <2> QED
    BY <1>0, <1>2, <2>1, <2>2 DEF Postmarks
<1>8. ASSUME NEW v \in alive, NEW o \in Workers \ {v}, NEW path \in R!Paths
      PROVE  Arrives(v, o, path)'
  <2>1. Arrives(v, o, path)
    BY <1>0
  <2>2. CASE o # w
    <3>1. up'[o] = up[o] /\ relayBatch'[o] = relayBatch[o]
      BY <1>1, <1>2, <2>2
    <3> QED
      BY <1>2, <2>1, <3>1 DEF Arrives
  <2>3. CASE o = w
    <3>1. up'[w] = Append(up[w], m) /\ relayBatch'[w] = Null
      BY <1>1, <1>2
    <3> DEFINE s == seen[v]
               d == down[v]
               u == up[w]
               b == relayBatch[w]
    <3>2. /\ s \in Seq(R!Events) /\ d \in Seq(R!Message) /\ u \in Seq(R!Message) /\ m \in R!Message
          /\ b \in Seq(R!Events) \cup {Null} /\ b # Null /\ m.events = b
      BY <1>0, <1>1, <1>2, <1>3, RelayTypes
    <3> HIDE DEF s, d, u, b
    <3>3. Way(s, d, Append(u, m), Null, w, path) = Way(s, d, u, b, w, path)
      BY <3>2, BatchPosted
    <3> QED
      BY <1>2, <2>1, <2>3, <3>1, <3>3 DEF Arrives, s, d, u, b
  <2> QED
    BY <2>2, <2>3
<1> QED
  BY <1>0, <1>2, <1>6, <1>7, <1>8 DEF RelayInv

\* Lines joined have the elements of both.
LEMMA JoinedHas ==
    ASSUME NEW S, NEW a \in Seq(S), NEW b \in Seq(S), NEW i \in DOMAIN (a \o b)
    PROVE  (\E j \in DOMAIN a : (a \o b)[i] = a[j]) \/ (\E j \in DOMAIN b : (a \o b)[i] = b[j])
<1>1. Len(a) \in Nat /\ Len(b) \in Nat /\ DOMAIN a = 1..Len(a) /\ DOMAIN b = 1..Len(b)
  OBVIOUS
<1>2. i \in 1..(Len(a) + Len(b)) /\ (a \o b)[i] = IF i <= Len(a) THEN a[i] ELSE b[i - Len(a)]
  OBVIOUS
<1>3. (i <= Len(a) => i \in DOMAIN a) /\ (~(i <= Len(a)) => i - Len(a) \in DOMAIN b)
  BY <1>1, <1>2
<1> QED
  BY <1>2, <1>3

LEMMA TailHas ==
    ASSUME NEW S, NEW a \in Seq(S), a # <<>>, NEW i \in DOMAIN Tail(a)
    PROVE  i + 1 \in DOMAIN a /\ Tail(a)[i] = a[i + 1]
<1>1. Len(a) \in Nat /\ Len(a) # 0 /\ DOMAIN a = 1..Len(a) /\ DOMAIN Tail(a) = 1..(Len(a) - 1)
  OBVIOUS
<1>2. Tail(a)[i] = a[i + 1]
  BY <1>1
<1> QED
  BY <1>1, <1>2

\* What the primary makes of a message.
Posted(msg) ==
    IF msg.type = "publish-batched" THEN <<msg>>
    ELSE [i \in DOMAIN msg.events |-> [type |-> "publish", events |-> <<msg.events[i]>>]]

LEMMA PostedIs ==
    ASSUME NEW msg \in R!Message
    PROVE  /\ Posted(msg) \in Seq(R!Message) /\ R!InMessages(Posted(msg)) = msg.events
           /\ \A i \in DOMAIN Posted(msg) :
                 /\ Posted(msg)[i].type = "publish-batched" => msg.type = "publish-batched" /\ Posted(msg)[i].events = msg.events
                 /\ \A j \in DOMAIN Posted(msg)[i].events :
                       \E k \in DOMAIN msg.events : Posted(msg)[i].events[j] = msg.events[k]
<1>1. CASE msg.type = "publish-batched"
  <2>1. Posted(msg) = <<msg>>
    BY <1>1 DEF Posted
  <2>2. <<msg>> \in Seq(R!Message) /\ R!InMessages(<<msg>>) = msg.events
    BY MessagesOne
  <2>3. \A i \in DOMAIN <<msg>> : <<msg>>[i] = msg
    OBVIOUS
  <2> QED
    BY <1>1, <2>1, <2>2, <2>3
<1>2. CASE msg.type # "publish-batched"
  <2> DEFINE E == R!Events
             e == msg.events
             n == Len(e)
             one(i) == [type |-> "publish", events |-> <<e[i]>>]
             p == [i \in DOMAIN e |-> one(i)]
             ss == [i \in DOMAIN e |-> <<e[i]>>]
  <2>1. Posted(msg) = p
    BY <1>2 DEF Posted
  <2>2. e \in Seq(E)
    BY MessagesOne
  <2>3. n \in Nat /\ DOMAIN e = 1..n /\ \A i \in 1..n : e[i] \in E
    <3> HIDE DEF e, E
    <3> QED
      BY <2>2
  <2>4. \A i \in 1..n : one(i) \in R!Message
    BY <2>3 DEF R!Message
  <2>5. p \in Seq(R!Message)
    <3>1. p \in [1..n -> R!Message]
      BY <2>3, <2>4
    <3> HIDE DEF p, n
    <3> QED
      BY <2>3, <3>1
  <2>6. \A i \in DOMAIN p : i \in DOMAIN e /\ p[i] = one(i)
    OBVIOUS
  <2>7. R!InMessages(p) = R!FlattenSeq(ss)
    <3>1. [i \in DOMAIN p |-> p[i].events] = ss
      OBVIOUS
    <3> HIDE DEF p, ss
    <3> QED
      BY <3>1 DEF R!InMessages
  <2>8. R!FlattenSeq(ss) = e
    <3> HIDE DEF e, E
    <3> QED
      BY <2>2, FlattenSingles
  <2>9. ASSUME NEW i \in DOMAIN p
        PROVE  /\ p[i].type # "publish-batched"
               /\ \A j \in DOMAIN p[i].events : \E k \in DOMAIN e : p[i].events[j] = e[k]
    <3>1. p[i].type = "publish" /\ p[i].events = <<e[i]>> /\ i \in DOMAIN e
      BY <2>6
    <3> HIDE DEF p, e
    <3> QED
      BY <3>1
  <2> HIDE DEF p, ss
  <2> QED
    BY <2>1, <2>5, <2>7, <2>8, <2>9
<1> QED
  BY <1>1, <1>2

\* The primary takes a message of w.
LEMMA ForwardKeeps ==
    ASSUME RelayInv, NEW w \in Workers, R!Forward(w)
    PROVE  RelayInv'
<1> DEFINE E == R!Events
           msg == Head(up[w])
           p == Posted(msg)
<1>0. /\ R!TypeOK /\ Postmarks /\ sockSubs = sockNative /\ got = due
      /\ \A v \in alive : \A o \in Workers \ {v} : \A path \in R!Paths : Arrives(v, o, path)
  BY RelayParts
<1>1. /\ alive \in SUBSET Workers /\ up \in [Workers -> Seq(R!Message)] /\ down \in [Workers -> Seq(R!Message)]
  BY <1>0, RelayTypes
<1>2. /\ up[w] # <<>> /\ up' = [up EXCEPT ![w] = Tail(up[w])]
      /\ down' = [v \in Workers |-> IF v \in alive \ {w} THEN down[v] \o p ELSE down[v]]
      /\ UNCHANGED <<alive, topicSeqs, relayBatch, timer, sockSubs, sockNative, capable, sent, seen, got, due>>
  BY DEF R!Forward, R!sockVars, R!Others, Posted
<1>3. msg \in R!Message /\ Tail(up[w]) \in Seq(R!Message) /\ 1 \in DOMAIN up[w] /\ msg = up[w][1]
  BY <1>1, <1>2
<1>4. /\ p \in Seq(R!Message) /\ R!InMessages(p) = msg.events
      /\ \A i \in DOMAIN p :
            /\ p[i].type = "publish-batched" => msg.type = "publish-batched" /\ p[i].events = msg.events
            /\ \A j \in DOMAIN p[i].events : \E k \in DOMAIN msg.events : p[i].events[j] = msg.events[k]
  BY <1>3, PostedIs
<1>5. /\ msg.type = "publish-batched" => msg.events # <<>>
      /\ \A j \in DOMAIN msg.events : msg.events[j].origin = w
      /\ msg.events \in Seq(E)
  <2>1. msg.events \in Seq(E)
    BY <1>3, MessagesOne
  <2> QED
    BY <1>0, <1>3, <2>1 DEF Postmarks
<1> HIDE DEF p, msg
<1>6. up' \in [Workers -> Seq(R!Message)] /\ \A u \in Workers \ {w} : up'[u] = up[u]
  BY <1>1, <1>2, <1>3
<1>7. down' \in [Workers -> Seq(R!Message)]
  <2>1. \A v \in Workers : down[v] \o p \in Seq(R!Message)
    BY <1>1, <1>4
  <2> QED
    BY <1>1, <1>2, <2>1
<1>8. R!TypeOK'
  BY <1>0, <1>2, <1>6, <1>7, RelayTypes DEF R!TypeOK
<1>9. Postmarks'
  <2>1. ASSUME NEW u \in Workers, NEW i \in DOMAIN up'[u]
        PROVE  /\ up'[u][i].type = "publish-batched" => up'[u][i].events # <<>>
               /\ \A j \in DOMAIN up'[u][i].events : up'[u][i].events[j].origin = u
    <3>1. \A k \in DOMAIN up[u] :
             /\ up[u][k].type = "publish-batched" => up[u][k].events # <<>>
             /\ \A j \in DOMAIN up[u][k].events : up[u][k].events[j].origin = u
      BY <1>0 DEF Postmarks
    <3>2. \E k \in DOMAIN up[u] : up'[u][i] = up[u][k]
      <4>1. CASE u # w
        BY <1>1, <1>2, <4>1
      <4>2. CASE u = w
        <5>1. up'[w] = Tail(up[w]) /\ up[w] \in Seq(R!Message)
          BY <1>1, <1>2
        <5>2. i + 1 \in DOMAIN up[w] /\ Tail(up[w])[i] = up[w][i + 1]
          <6>1. i \in DOMAIN Tail(up[w]) /\ up[w] # <<>>
            BY <1>2, <4>2, <5>1
          <6> QED
            BY <5>1, <6>1, TailHas
        <5> QED
          BY <4>2, <5>1, <5>2
      <4> QED
        BY <4>1, <4>2
    <3> QED
      BY <3>1, <3>2
  <2>2. ASSUME NEW u \in Workers, NEW i \in DOMAIN down'[u]
        PROVE  /\ down'[u][i].type = "publish-batched" => down'[u][i].events # <<>>
               /\ \A j \in DOMAIN down'[u][i].events : down'[u][i].events[j].origin # u
    <3>1. \A k \in DOMAIN down[u] :
             /\ down[u][k].type = "publish-batched" => down[u][k].events # <<>>
             /\ \A j \in DOMAIN down[u][k].events : down[u][k].events[j].origin # u
      BY <1>0 DEF Postmarks
    <3>2. CASE u \in alive \ {w}
      <4>1. down'[u] = down[u] \o p /\ down[u] \in Seq(R!Message)
        BY <1>1, <1>2, <3>2
      <4>2. (\E k \in DOMAIN down[u] : down'[u][i] = down[u][k]) \/ (\E k \in DOMAIN p : down'[u][i] = p[k])
        <5> DEFINE x == down[u]
        <5>1. x \in Seq(R!Message) /\ p \in Seq(R!Message) /\ i \in DOMAIN (x \o p) /\ down'[u] = x \o p
          BY <1>4, <4>1
        <5> HIDE DEF x
        <5>2. (\E k \in DOMAIN x : (x \o p)[i] = x[k]) \/ (\E k \in DOMAIN p : (x \o p)[i] = p[k])
          BY <5>1, JoinedHas
        <5> QED
          BY <5>1, <5>2 DEF x
      <4>3. \A k \in DOMAIN p :
               /\ p[k].type = "publish-batched" => p[k].events # <<>>
               /\ \A j \in DOMAIN p[k].events : p[k].events[j].origin # u
        BY <1>4, <1>5, <3>2
      <4> QED
        BY <3>1, <4>2, <4>3
    <3>3. CASE u \notin alive \ {w}
      <4>1. down'[u] = down[u]
        BY <1>2, <3>3
      <4> QED
        BY <3>1, <4>1
    <3> QED
      BY <3>2, <3>3
  <2> QED
    BY <1>0, <1>2, <2>1, <2>2 DEF Postmarks
<1>10. ASSUME NEW v \in alive, NEW o \in Workers \ {v}, NEW path \in R!Paths
       PROVE  Arrives(v, o, path)'
  <2>1. Arrives(v, o, path)
    BY <1>0
  <2>2. v \in Workers
    BY <1>1
  <2> DEFINE s == seen[v]
             d == down[v]
             u == up[o]
             b == relayBatch[o]
  <2>3. /\ s \in Seq(R!Events) /\ d \in Seq(R!Message) /\ u \in Seq(R!Message)
        /\ b \in Seq(R!Events) \cup {Null}
    BY <1>0, <2>2, RelayTypes
  <2>4. CASE v = w
    <3>1. down'[v] = down[v] /\ up'[o] = up[o]
      BY <1>2, <1>6, <2>2, <2>4
    <3> QED
      BY <1>2, <2>1, <3>1 DEF Arrives
  <2>5. CASE v # w /\ o = w
    <3>1. down'[v] = d \o p /\ up'[o] = Tail(u) /\ u # <<>> /\ R!InMessages(p) = Head(u).events
      BY <1>1, <1>2, <1>4, <2>2, <2>5 DEF msg
    <3>2. Way(s, d \o p, Tail(u), b, o, path) = Way(s, d, u, b, o, path)
      <4> HIDE DEF s, d, u, b
      <4> QED
        BY <1>4, <2>3, <3>1, ForwardedOn
    <3> QED
      BY <1>2, <2>1, <3>1, <3>2 DEF Arrives
  <2>6. CASE v # w /\ o # w
    <3>1. down'[v] = d \o p /\ up'[o] = u
      BY <1>2, <1>6, <2>2, <2>6
    <3> DEFINE r == msg.events
    <3>2. r \in Seq(R!Events) /\ R!InMessages(p) = r /\ R!From(o, path, r) = <<>>
      <4>1. \A i \in DOMAIN r : r[i].origin # o \/ r[i].via # path
        BY <1>5, <2>6
      <4>2. r \in Seq(R!Events)
        BY <1>5
      <4>3. R!From(o, path, r) = <<>>
        <5> HIDE DEF r
        <5> QED
          BY <4>1, <4>2, FromJoins
      <4> QED
        BY <1>4, <4>2, <4>3
    <3>3. Way(s, d \o p, u, b, o, path) = Way(s, d, u, b, o, path)
      <4> HIDE DEF s, d, u, b, r
      <4> QED
        BY <1>4, <2>3, <3>2, OthersPass
    <3> QED
      BY <1>2, <2>1, <3>1, <3>3 DEF Arrives
  <2> QED
    BY <2>4, <2>5, <2>6
<1> QED
  BY <1>0, <1>2, <1>8, <1>9, <1>10 DEF RelayInv

\* A worker takes a message from the primary.
LEMMA DeliverKeeps ==
    ASSUME RelayInv, NEW w \in Workers, R!Deliver(w)
    PROVE  RelayInv'
<1> DEFINE E == R!Events
           msg == Head(down[w])
           ev == msg.events
<1>0. /\ R!TypeOK /\ Postmarks /\ sockSubs = sockNative /\ got = due
      /\ \A v \in alive : \A o \in Workers \ {v} : \A path \in R!Paths : Arrives(v, o, path)
  BY RelayParts
<1>1. /\ alive \in SUBSET Workers /\ down \in [Workers -> Seq(R!Message)] /\ seen \in [Workers -> Seq(E)]
  BY <1>0, RelayTypes
<1>2. /\ w \in alive /\ down[w] # <<>> /\ down' = [down EXCEPT ![w] = Tail(down[w])]
      /\ \/ msg.type = "publish-batched" /\ R!SharesFrame(w, R!TopicsOf(ev)) /\ R!DispatchFrame(w, ev)
         \/ R!DispatchEach(w, ev)
      /\ R!Account(w, ev)
      /\ UNCHANGED <<alive, topicSeqs, relayBatch, timer, up, sockSubs, sockNative, capable, sent>>
  BY DEF R!Deliver, R!sockVars
<1>3. msg \in R!Message /\ Tail(down[w]) \in Seq(R!Message) /\ 1 \in DOMAIN down[w] /\ msg = down[w][1]
  BY <1>1, <1>2
<1>4. ev \in Seq(E) /\ (msg.type = "publish-batched" => ev # <<>>)
  <2>1. ev \in Seq(E)
    BY <1>3, MessagesOne
  <2> QED
    BY <1>0, <1>3, <2>1 DEF Postmarks
<1> HIDE DEF msg
<1>5. Dispatch(w, ev)
  BY <1>2, <1>4 DEF Dispatch
<1>6. /\ got' = due' /\ got' \in [Socks -> Seq(E)]
      /\ seen' = [seen EXCEPT ![w] = seen[w] \o ev] /\ seen' \in [Workers -> Seq(E)]
  <2> DEFINE e == ev
  <2>1. e \in Seq(R!Events) /\ Dispatch(w, e) /\ R!Account(w, e)
    BY <1>2, <1>4, <1>5
  <2> HIDE DEF e
  <2>2. /\ got' = due' /\ got' \in [Socks -> Seq(R!Events)]
        /\ seen' = [seen EXCEPT ![w] = seen[w] \o e] /\ seen' \in [Workers -> Seq(R!Events)]
    BY <2>1, Dispatched
  <2> QED
    BY <2>2 DEF e
<1>7. down' \in [Workers -> Seq(R!Message)]
  BY <1>1, <1>2, <1>3
<1>8. R!TypeOK'
  BY <1>0, <1>2, <1>6, <1>7, RelayTypes DEF R!TypeOK
<1>9. Postmarks'
  <2>1. ASSUME NEW u \in Workers, NEW i \in DOMAIN down'[u]
        PROVE  /\ down'[u][i].type = "publish-batched" => down'[u][i].events # <<>>
               /\ \A j \in DOMAIN down'[u][i].events : down'[u][i].events[j].origin # u
    <3>1. \A k \in DOMAIN down[u] :
             /\ down[u][k].type = "publish-batched" => down[u][k].events # <<>>
             /\ \A j \in DOMAIN down[u][k].events : down[u][k].events[j].origin # u
      BY <1>0 DEF Postmarks
    <3>2. \E k \in DOMAIN down[u] : down'[u][i] = down[u][k]
      <4>1. CASE u # w
        BY <1>1, <1>2, <4>1
      <4>2. CASE u = w
        <5>1. down'[w] = Tail(down[w]) /\ down[w] \in Seq(R!Message) /\ down[w] # <<>>
          BY <1>1, <1>2
        <5>2. i + 1 \in DOMAIN down[w] /\ Tail(down[w])[i] = down[w][i + 1]
          <6>1. i \in DOMAIN Tail(down[w])
            BY <4>2, <5>1
          <6> QED
            BY <5>1, <6>1, TailHas
        <5> QED
          BY <4>2, <5>1, <5>2
      <4> QED
        BY <4>1, <4>2
    <3> QED
      BY <3>1, <3>2
  <2> QED
    BY <1>0, <1>2, <2>1 DEF Postmarks
<1>10. ASSUME NEW v \in alive, NEW o \in Workers \ {v}, NEW path \in R!Paths
       PROVE  Arrives(v, o, path)'
  <2>1. Arrives(v, o, path)
    BY <1>0
  <2>2. v \in Workers
    BY <1>1
  <2> DEFINE s == seen[v]
             d == down[v]
             u == up[o]
             b == relayBatch[o]
  <2>3. /\ s \in Seq(R!Events) /\ d \in Seq(R!Message) /\ u \in Seq(R!Message)
        /\ b \in Seq(R!Events) \cup {Null}
    BY <1>0, <2>2, RelayTypes
  <2>4. CASE v # w
    <3>1. down'[v] = down[v] /\ seen'[v] = seen[v]
      BY <1>1, <1>2, <1>6, <2>2, <2>4
    <3> QED
      BY <1>2, <2>1, <3>1 DEF Arrives
  <2>5. CASE v = w
    <3>1. down'[v] = Tail(d) /\ seen'[v] = s \o Head(d).events /\ d # <<>>
      BY <1>1, <1>2, <1>6, <2>2, <2>5 DEF msg
    <3>2. Way(s \o Head(d).events, Tail(d), u, b, o, path) = Way(s, d, u, b, o, path)
      <4>1. /\ s \in Seq(R!Events) /\ d \in Seq(R!Message) /\ u \in Seq(R!Message)
            /\ b \in Seq(R!Events) \cup {Null} /\ d # <<>>
        BY <2>3, <3>1
      <4> HIDE DEF s, d, u, b
      <4> QED
        BY <4>1, DeliveredTo
    <3> QED
      BY <1>2, <2>1, <3>1, <3>2 DEF Arrives
  <2> QED
    BY <2>4, <2>5
<1> QED
  BY <1>0, <1>2, <1>6, <1>8, <1>9, <1>10 DEF RelayInv

\* The front of a line.
LEMMA FrontIsPrefix ==
    ASSUME NEW S, NEW a \in Seq(S), NEW b \in Seq(S)
    PROVE  R!IsPrefix(a, a \o b)
<1> DEFINE n == Len(a)
           ab == a \o b
           p == SubSeq(a, 1, n)
           q == SubSeq(ab, 1, n)
<1>1. n \in Nat /\ ab \in Seq(S) /\ n <= Len(ab) /\ \A i \in 1..n : ab[i] = a[i]
  OBVIOUS
<1> HIDE DEF ab
<1>2. p \in Seq(S) /\ Len(p) = n /\ \A i \in 1..n : p[i] = a[i]
  OBVIOUS
<1>3. q \in Seq(S) /\ Len(q) = n /\ \A i \in 1..n : q[i] = ab[i]
  BY <1>1
<1> HIDE DEF p, q
<1>4. p = q
  BY <1>1, <1>2, <1>3, SeqEqual
<1> QED
  BY <1>1, <1>4 DEF R!IsPrefix, p, q, ab

\* Nothing is left of the batch of a worker that died.
LEMMA BatchLost ==
    ASSUME NEW s \in Seq(R!Events), NEW d \in Seq(R!Message), NEW u \in Seq(R!Message),
           NEW b \in Seq(R!Events) \cup {Null}, NEW o, NEW path
    PROVE  R!IsPrefix(Way(s, d, u, Null, o, path), Way(s, d, u, b, o, path))
<1> DEFINE E == R!Events
           a1 == R!From(o, path, s)
           a2 == R!From(o, path, R!InMessages(d))
           a3 == R!From(o, path, R!InMessages(u))
           a4 == Waits(b, o, path)
           x == (a1 \o a2) \o a3
<1>1. a1 \in Seq(E) /\ a2 \in Seq(E) /\ a3 \in Seq(E) /\ a4 \in Seq(E)
  BY WayType
<1>2. Way(s, d, u, b, o, path) = x \o a4
  BY DEF Way
<1>3. Way(s, d, u, Null, o, path) = x \o Waits(Null, o, path) /\ Waits(Null, o, path) = <<>>
  BY DEF Way, Waits
<1> HIDE DEF E, a1, a2, a3, a4
<1>4. x \in Seq(E)
  BY <1>1
<1> HIDE DEF x
<1>5. x \o <<>> = x
  BY <1>4, LineEnds
<1>6. R!IsPrefix(x, x \o a4)
  BY <1>1, <1>4, FrontIsPrefix
<1> QED
  BY <1>2, <1>3, <1>5, <1>6

\* A worker ends.
LEMMA DieKeeps ==
    ASSUME RelayInv, NEW w \in Workers, R!Die(w)
    PROVE  RelayInv'
<1> DEFINE E == R!Events
<1>0. /\ R!TypeOK /\ Postmarks /\ sockSubs = sockNative /\ got = due
      /\ \A v \in alive : \A o \in Workers \ {v} : \A path \in R!Paths : Arrives(v, o, path)
  BY RelayParts
<1>1. /\ alive \in SUBSET Workers /\ down \in [Workers -> Seq(R!Message)]
      /\ relayBatch \in [Workers -> Seq(E) \cup {Null}] /\ timer \in [Workers -> BOOLEAN]
      /\ \A u \in alive : timer[u] <=> relayBatch[u] # Null
      /\ sockSubs \in [Socks -> SUBSET Topics] /\ sockNative \in [Socks -> SUBSET Topics]
  BY <1>0, RelayTypes
<1>2. /\ w \in alive /\ alive' = alive \ {w} /\ relayBatch' = [relayBatch EXCEPT ![w] = Null]
      /\ timer' = [timer EXCEPT ![w] = FALSE] /\ down' = [down EXCEPT ![w] = <<>>]
      /\ sockSubs' = [s \in Socks |-> IF Home[s] = w THEN {} ELSE sockSubs[s]]
      /\ sockNative' = [s \in Socks |-> IF Home[s] = w THEN {} ELSE sockNative[s]]
      /\ UNCHANGED <<topicSeqs, up, capable, sent, seen, got, due>>
  BY DEF R!Die
<1>3. sockSubs' = sockNative' /\ sockSubs' \in [Socks -> SUBSET Topics]
  BY <1>0, <1>1, <1>2
<1>4. /\ relayBatch' \in [Workers -> Seq(E) \cup {Null}] /\ timer' \in [Workers -> BOOLEAN]
      /\ \A u \in alive' : timer'[u] <=> relayBatch'[u] # Null
      /\ alive' \in SUBSET Workers /\ \A u \in Workers \ {w} : relayBatch'[u] = relayBatch[u]
      /\ relayBatch'[w] = Null
  <2> HIDE DEF E
  <2> QED
    BY <1>1, <1>2
<1>5. /\ down' \in [Workers -> Seq(R!Message)] /\ down'[w] = <<>>
      /\ \A u \in Workers \ {w} : down'[u] = down[u]
  <2>1. <<>> \in Seq(R!Message)
    OBVIOUS
  <2> QED
    BY <1>1, <1>2, <2>1
<1>6. R!TypeOK'
  BY <1>0, <1>2, <1>3, <1>4, <1>5, RelayTypes DEF R!TypeOK
<1>7. Postmarks'
  <2>1. ASSUME NEW u \in Workers, NEW i \in DOMAIN down'[u]
        PROVE  /\ down'[u][i].type = "publish-batched" => down'[u][i].events # <<>>
               /\ \A j \in DOMAIN down'[u][i].events : down'[u][i].events[j].origin # u
    <3>1. u # w
      BY <1>5
    <3>2. down'[u] = down[u]
      BY <1>5, <3>1
    <3> QED
      BY <1>0, <3>2 DEF Postmarks
  <2>2. \A u \in Workers : relayBatch'[u] # Null => relayBatch'[u] = relayBatch[u]
    BY <1>4
  <2> QED
    BY <1>0, <1>2, <2>1, <2>2 DEF Postmarks
<1>8. ASSUME NEW v \in alive', NEW o \in Workers \ {v}, NEW path \in R!Paths
      PROVE  Arrives(v, o, path)'
  <2>1. v \in alive /\ v \in Workers /\ v # w
    BY <1>1, <1>2
  <2>2. Arrives(v, o, path) /\ down'[v] = down[v]
    BY <1>0, <1>5, <2>1
  <2>3. CASE o # w
    <3>1. relayBatch'[o] = relayBatch[o] /\ (o \in alive' <=> o \in alive)
      BY <1>2, <1>4, <2>3
    <3> QED
      BY <1>2, <2>2, <3>1 DEF Arrives
  <2>4. CASE o = w
    <3> DEFINE s == seen[v]
               d == down[v]
               u == up[w]
               b == relayBatch[w]
    <3>1. /\ s \in Seq(R!Events) /\ d \in Seq(R!Message) /\ u \in Seq(R!Message)
          /\ b \in Seq(R!Events) \cup {Null}
      BY <1>0, <2>1, RelayTypes
    <3>2. Way(s, d, u, b, w, path) = R!From(w, path, sent[w])
      BY <1>2, <2>2, <2>4 DEF Arrives
    <3> HIDE DEF s, d, u, b
    <3>3. R!IsPrefix(Way(s, d, u, Null, w, path), Way(s, d, u, b, w, path))
      BY <3>1, BatchLost
    <3>4. R!IsPrefix(Way(s, d, u, Null, w, path), R!From(w, path, sent[w]))
      BY <3>2, <3>3
    <3>5. o \notin alive'
      BY <1>2, <2>4
    <3> QED
      BY <1>2, <1>4, <2>2, <2>4, <3>4, <3>5 DEF Arrives, s, d, u
  <2> QED
    BY <2>3, <2>4
<1> QED
  BY <1>0, <1>2, <1>3, <1>6, <1>7, <1>8 DEF RelayInv

\* A socket subscribes, unsubscribes or says hello.
LEMMA RelaySocketKeeps ==
    ASSUME RelayInv, NEW s \in Socks, R!SocketStep(s)
    PROVE  RelayInv'
<1>0. /\ R!TypeOK /\ Postmarks /\ sockSubs = sockNative /\ got = due
      /\ \A v \in alive : \A o \in Workers \ {v} : \A path \in R!Paths : Arrives(v, o, path)
  BY RelayParts
<1>1. sockSubs \in [Socks -> SUBSET Topics] /\ sockNative \in [Socks -> SUBSET Topics] /\ capable \in SUBSET Socks
  BY <1>0, RelayTypes
<1>2. UNCHANGED <<alive, topicSeqs, relayBatch, timer, up, down, sent, seen, got, due>>
  BY DEF R!SocketStep
<1>3. (\E t \in Topics : R!Subscribe(s, t) \/ R!Unsubscribe(s, t)) \/ R!Hello(s)
  BY DEF R!SocketStep
<1>4. /\ sockSubs' = sockNative' /\ sockSubs' \in [Socks -> SUBSET Topics] /\ capable' \in SUBSET Socks
  <2>1. ASSUME NEW t \in Topics, R!Subscribe(s, t)
        PROVE  sockSubs' = sockNative' /\ sockSubs' \in [Socks -> SUBSET Topics] /\ capable' = capable
    BY <1>0, <1>1, <2>1 DEF R!Subscribe
  <2>2. ASSUME NEW t \in Topics, R!Unsubscribe(s, t)
        PROVE  sockSubs' = sockNative' /\ sockSubs' \in [Socks -> SUBSET Topics] /\ capable' = capable
    BY <1>0, <1>1, <2>2 DEF R!Unsubscribe
  <2>3. CASE R!Hello(s)
    BY <1>0, <1>1, <2>3 DEF R!Hello
  <2> QED
    BY <1>1, <1>3, <2>1, <2>2, <2>3
<1>5. R!TypeOK'
  BY <1>0, <1>2, <1>4, RelayTypes DEF R!TypeOK
<1>6. Postmarks'
  BY <1>0, <1>2 DEF Postmarks
<1>7. ASSUME NEW v \in alive', NEW o \in Workers \ {v}, NEW path \in R!Paths
      PROVE  Arrives(v, o, path)'
  <2>1. Arrives(v, o, path)
    BY <1>0, <1>2
  <2> QED
    BY <1>2, <2>1 DEF Arrives
<1> QED
  BY <1>0, <1>2, <1>4, <1>5, <1>6, <1>7 DEF RelayInv

-----------------------------------------------------------------------------
(* The relay, all in all. *)

LEMMA RelayInit == R!Init => RelayInv
<1> SUFFICES ASSUME R!Init PROVE RelayInv
  OBVIOUS
<1>0. MaxEvents \in Nat /\ \A w \in Workers : w \in alive
  BY RelayConstants DEF R!Init
<1>1. R!TypeOK
  <2>1. 0 \in 0..MaxEvents /\ <<>> \in Seq(R!Events) /\ <<>> \in Seq(R!Message)
    BY <1>0
  <2>2. /\ alive = Workers
        /\ topicSeqs = [w \in Workers |-> [t \in Topics |-> 0]]
        /\ relayBatch = [w \in Workers |-> Null] /\ timer = [w \in Workers |-> FALSE]
        /\ up = [w \in Workers |-> <<>>] /\ down = [w \in Workers |-> <<>>]
        /\ sockSubs = [s \in Socks |-> {}] /\ sockNative = [s \in Socks |-> {}] /\ capable = {}
        /\ sent = [w \in Workers |-> <<>>] /\ seen = [w \in Workers |-> <<>>]
        /\ got = [s \in Socks |-> <<>>] /\ due = [s \in Socks |-> <<>>]
    BY DEF R!Init
  <2>3. /\ topicSeqs \in [Workers -> [Topics -> 0..MaxEvents]]
        /\ relayBatch \in [Workers -> Seq(R!Events) \cup {Null}] /\ timer \in [Workers -> BOOLEAN]
        /\ \A w \in alive : timer[w] <=> relayBatch[w] # Null
    BY <2>1, <2>2
  <2>4. /\ up \in [Workers -> Seq(R!Message)] /\ down \in [Workers -> Seq(R!Message)]
        /\ sent \in [Workers -> Seq(R!Events)] /\ seen \in [Workers -> Seq(R!Events)]
        /\ got \in [Socks -> Seq(R!Events)] /\ due \in [Socks -> Seq(R!Events)]
    BY <2>1, <2>2
  <2> QED
    BY <2>2, <2>3, <2>4 DEF R!TypeOK
<1>2. Postmarks
  BY DEF R!Init, Postmarks
<1>3. ASSUME NEW v \in alive, NEW o \in Workers \ {v}, NEW path \in R!Paths PROVE Arrives(v, o, path)
  <2>1. /\ seen[v] = <<>> /\ down[v] = <<>> /\ up[o] = <<>> /\ relayBatch[o] = Null /\ sent[o] = <<>>
        /\ o \in alive
    BY DEF R!Init
  <2>2. R!InMessages(<<>>) = <<>>
    BY MessagesOne
  <2>3. R!From(o, path, <<>>) = <<>>
    <3>1. <<>> \in Seq(R!Events)
      OBVIOUS
    <3> QED
      BY <3>1, FromJoins
  <2>4. Way(<<>>, <<>>, <<>>, Null, o, path) = <<>>
    BY <2>2, <2>3 DEF Way, Waits
  <2> QED
    BY <2>1, <2>3, <2>4 DEF Arrives
<1>4. sockSubs = sockNative /\ got = due
  BY DEF R!Init
<1> QED
  BY <1>1, <1>2, <1>3, <1>4 DEF RelayInv

LEMMA RelayStep == RelayInv /\ [R!Next]_relayVars => RelayInv'
<1> SUFFICES ASSUME RelayInv, [R!Next]_relayVars PROVE RelayInv'
  OBVIOUS
<1>1. CASE UNCHANGED relayVars
  <2>1. /\ R!TypeOK /\ Postmarks /\ sockSubs = sockNative /\ got = due
        /\ \A v \in alive : \A o \in Workers \ {v} : \A path \in R!Paths : Arrives(v, o, path)
    BY RelayParts
  <2>2. R!TypeOK'
    BY <1>1, <2>1, RelayTypes DEF R!TypeOK, relayVars
  <2>3. Postmarks'
    BY <1>1, <2>1 DEF Postmarks, relayVars
  <2>4. ASSUME NEW v \in alive', NEW o \in Workers \ {v}, NEW path \in R!Paths PROVE Arrives(v, o, path)'
    <3>1. Arrives(v, o, path)
      BY <1>1, <2>1 DEF relayVars
    <3> QED
      BY <1>1, <3>1 DEF Arrives, relayVars
  <2>5. sockSubs' = sockNative' /\ got' = due'
    BY <1>1, <2>1 DEF relayVars
  <2> QED
    BY <2>2, <2>3, <2>4, <2>5 DEF RelayInv
<1>2. CASE R!Next
  <2>1. \/ \E w \in Workers : \/ \E item \in R!Items : R!Publish(w, item)
                              \/ \E items \in UNION {[1..n -> R!Items] : n \in 1..MaxBatch} : R!PublishBatched(w, items)
        \/ \E w \in Workers : R!FlushRelay(w) \/ R!Forward(w) \/ R!Deliver(w) \/ R!Die(w)
        \/ \E s \in Socks : R!SocketStep(s)
    BY <1>2 DEF R!Next
  <2> QED
    BY <2>1, PublicationKeeps, FlushKeeps, ForwardKeeps, DeliverKeeps, DieKeeps, RelaySocketKeeps
<1> QED
  BY <1>1, <1>2

LEMMA RelayAlways == PartsSpec => []RelayInv
<1>1. PartsInit => RelayInv
  BY RelayInit DEF PartsInit
<1>2. RelayInv /\ [PartsNext]_<<part, vars, relayVars, pressureVars>> => RelayInv'
  <2> SUFFICES ASSUME RelayInv, [PartsNext]_<<part, vars, relayVars, pressureVars>> PROVE RelayInv'
    OBVIOUS
  <2>1. [R!Next]_relayVars
    BY DEF PartsNext
  <2> QED
    BY <2>1, RelayStep
<1> QED
  BY <1>1, <1>2, PTL DEF PartsSpec

\* The relay loses, duplicates and reorders nothing on either of its paths, and
\* sends nothing back: for every live worker, what it has seen of another and
\* what is posted or waiting is what that one sent, in order. Only the end of
\* it, the batch whose timer did not fire, is missing when the other has died.
THEOREM RelayLosesNothing == PartsSpec => []RelayIsAPipe
<1>1. RelayInv => RelayIsAPipe
  <2> SUFFICES ASSUME RelayInv PROVE RelayIsAPipe
    OBVIOUS
  <2>1. /\ R!TypeOK /\ Postmarks
        /\ \A v \in alive : \A o \in Workers \ {v} : \A path \in R!Paths : Arrives(v, o, path)
    BY RelayParts
  <2>2. ASSUME NEW v \in alive
        PROVE  \A i \in DOMAIN down[v] : \A j \in DOMAIN down[v][i].events : down[v][i].events[j].origin # v
    <3>1. v \in Workers
      BY <2>1, RelayTypes
    <3> QED
      BY <2>1, <3>1 DEF Postmarks
  <2>3. ASSUME NEW v \in alive, NEW o \in Workers \ {v}, NEW path \in R!Paths
        PROVE  IF o \in alive THEN R!Pipe(o, v, path) = R!From(o, path, sent[o])
                              ELSE R!IsPrefix(R!Pipe(o, v, path), R!From(o, path, sent[o]))
    <3>1. R!Pipe(o, v, path) = Way(seen[v], down[v], up[o], relayBatch[o], o, path)
      BY DEF R!Pipe, Way, Waits
    <3>2. Arrives(v, o, path)
      BY <2>1
    <3> QED
      BY <3>1, <3>2 DEF Arrives
  <2>4. R!RelayIsAPipe
    BY <2>2, <2>3 DEF R!RelayIsAPipe
  <2> QED
    BY <2>1, <2>4 DEF RelayIsAPipe
<1> QED
  BY <1>1, RelayAlways, PTL

\* publishBatched's shared frame is only an optimisation: every socket gets the
\* events that one publish for each would have given it, in the same order.
THEOREM SharedFrameIsALoop == PartsSpec => []SameAsPublishLoop
<1>1. RelayInv => SameAsPublishLoop
  BY DEF RelayInv, SameAsPublishLoop, R!SameAsPublishLoop
<1> QED
  BY <1>1, RelayAlways, PTL
=============================================================================
