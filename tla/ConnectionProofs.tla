-------------------------- MODULE ConnectionProofs --------------------------
(***************************************************************************)
(* Proofs about Connection: that every waiting request is watched, that    *)
(* no table passes its cap, and that what goes out for a coalesce key is   *)
(* its latest value, for any number of requests, keys and values; and, of  *)
(* the parts MCConnection composes with it, about TaskQueue, Rpc, Resume   *)
(* and Replay.                                                             *)
(***************************************************************************)
EXTENDS MCConnection, MapOrderProofs, FiniteSetTheorems, SequenceTheorems, WellFoundedInduction,
        TLAPS

\* values holds one value per key, each the last one given.
Proper(values, latest) ==
    /\ values \in Seq(Entry) /\ Len(values) <= MaxKeys
    /\ \A i, j \in DOMAIN values : values[i].key = values[j].key => i = j
    /\ \A i \in DOMAIN values : values[i].version = latest[values[i].key]

\* LatestKept with its variables as parameters.
Represented(values, wire, latest, gone) ==
    \A k \in Keys \ gone :
        latest[k] > 0 =>
            \/ wire[k] = latest[k]
            \/ \E i \in DOMAIN values : values[i].key = k /\ values[i].version = latest[k]

IInv ==
    /\ TypeOK
    /\ EntriesAreWatched
    /\ Proper(pending, newest)
    /\ LatestKept

-----------------------------------------------------------------------------
(* Requests. *)

LEMMA EntriesFinite == TypeOK => IsFiniteSet(entries)
BY ConstantsOK, FS_Subset DEF TypeOK

\* A step that leaves the coalesced values alone keeps what is said of them.
LEMMA CoalescedUnchanged ==
    ASSUME IInv, UNCHANGED coalesced
    PROVE  Proper(pending, newest)' /\ LatestKept'
BY DEF IInv, coalesced, Proper, LatestKept

LEMMA RefusedKeeps ==
    ASSUME IInv, NEW r \in Refs, Refused(r)
    PROVE  IInv'
<1>1. TypeOK'
  BY DEF IInv, TypeOK, Refused, Settled, coalesced
<1>2. EntriesAreWatched'
  BY DEF IInv, TypeOK, EntriesAreWatched, Refused
<1> QED
  BY <1>1, <1>2, CoalescedUnchanged DEF IInv, Refused

\* The buffer grows by the frame uWS answers Backpressure to.
LEMMA OneFrame ==
    ASSUME NEW b \in 0..MaxBuffered + 1, NEW code \in {Success, Backpressure},
           UwsAccepts(b, <<code>>)
    PROVE  BufferAfter(b, <<code>>, 1) \in 0..MaxBuffered + 1
<1> DEFINE B == {j \in 1..1 : <<code>>[j] = Backpressure}
<1>1. CASE code = Success
  <2>1. B = {}
    BY <1>1 DEF Success, Backpressure
  <2> QED
    BY <2>1, FS_EmptySet, ConstantsOK DEF BufferAfter
<1>2. CASE code = Backpressure
  <2>1. B = {1}
    BY <1>2
  <2>2. {j \in 1..0 : <<code>>[j] = Backpressure} = {}
    OBVIOUS
  <2>3. BufferAfter(b, <<code>>, 0) = b
    BY <2>2, FS_EmptySet, ConstantsOK DEF BufferAfter
  <2>4. b <= MaxBuffered
    BY <1>2, <2>3 DEF UwsAccepts, Success, Backpressure
  <2>5. Cardinality(B) = 1
    BY <2>1, FS_Singleton
  <2>6. BufferAfter(b, <<code>>, 1) = b + 1
    BY <2>5 DEF BufferAfter
  <2> QED
    BY <2>4, <2>6, ConstantsOK
<1> QED
  BY <1>1, <1>2

LEMMA RequestKeeps ==
    ASSUME IInv, NEW r \in Refs, Request(r)
    PROVE  IInv'
<1>1. /\ outcome[r] = "new" /\ ~AtCap
      /\ entries' = entries \cup {r}
      /\ armed' = armed \cup {r}
      /\ outcome' \in { [outcome EXCEPT ![r] = "threw"], [outcome EXCEPT ![r] = "waiting"] }
      /\ UNCHANGED <<open, coalesced>>
  BY DEF Request
<1>2. buffered' \in 0..MaxBuffered + 1
  BY OneFrame DEF Request, IInv, TypeOK
<1>3. Cardinality(entries') <= MaxPending
  <2>1. IsFiniteSet(entries) /\ Cardinality(entries) \in Nat
    BY EntriesFinite, FS_CardinalityType DEF IInv
  <2>2. Cardinality(entries) < MaxPending
    BY <1>1, <2>1, ConstantsOK DEF AtCap
  <2>3. Cardinality(entries') = Cardinality(entries) \/ Cardinality(entries') = Cardinality(entries) + 1
    BY <1>1, <2>1, FS_AddElement
  <2> QED
    BY <2>1, <2>2, <2>3, ConstantsOK
<1>4. TypeOK'
  BY <1>1, <1>2, <1>3 DEF IInv, TypeOK, Settled, coalesced
<1>5. EntriesAreWatched'
  BY <1>1 DEF IInv, TypeOK, EntriesAreWatched
<1> QED
  BY <1>1, <1>4, <1>5, CoalescedUnchanged DEF IInv

\* An entry leaves the Map with its timer, and its promise is settled.
LEMMA EntryLeaves ==
    ASSUME IInv, NEW r \in entries, NEW result \in Settled,
           entries' = entries \ {r}, armed' = armed \ {r},
           outcome' = Settle({r}, result),
           UNCHANGED <<open, buffered, coalesced>>
    PROVE  IInv'
<1>1. Cardinality(entries') <= MaxPending
  <2>1. IsFiniteSet(entries) /\ Cardinality(entries) \in Nat
    BY EntriesFinite, FS_CardinalityType DEF IInv
  <2>2. Cardinality(entries') = Cardinality(entries) - 1
    BY <2>1, FS_RemoveElement
  <2> QED
    BY <2>1, <2>2, ConstantsOK DEF IInv, TypeOK
<1>2. TypeOK'
  BY <1>1 DEF IInv, TypeOK, Settle, coalesced
<1>3. EntriesAreWatched'
  BY DEF IInv, TypeOK, EntriesAreWatched, Settle, Settled
<1> QED
  BY <1>2, <1>3, CoalescedUnchanged DEF IInv

LEMMA ReplyKeeps ==
    ASSUME IInv, NEW r \in Refs, Reply(r)
    PROVE  IInv'
BY EntryLeaves DEF Reply, Settled

LEMMA TimeoutKeeps ==
    ASSUME IInv, NEW r \in Refs, Timeout(r)
    PROVE  IInv'
<1>1. r \in entries /\ {r} \cap entries = {r}
  BY DEF Timeout, IInv, EntriesAreWatched
<1>2. /\ entries' = entries \ {r} /\ armed' = armed \ {r}
      /\ outcome' = Settle({r}, "timeout")
      /\ UNCHANGED <<open, buffered, coalesced>>
  BY <1>1 DEF Timeout
<1> QED
  BY <1>1, <1>2, EntryLeaves DEF Settled

LEMMA CloseKeeps ==
    ASSUME IInv, Close
    PROVE  IInv'
<1>1. PICK late \in FromCloseHook :
          /\ entries' = late
          /\ armed' = (armed \ entries) \cup late
          /\ outcome' = [r \in Refs |-> IF r \in late THEN "waiting"
                                        ELSE Settle(entries, "closed")[r]]
  BY DEF Close
<1>2. late \subseteq Refs /\ Cardinality(late) <= MaxPending
  BY DEF FromCloseHook
<1>3. open' = FALSE /\ UNCHANGED <<buffered, coalesced>>
  BY DEF Close
<1>4. TypeOK'
  BY <1>1, <1>2, <1>3 DEF IInv, TypeOK, Settle, Settled, coalesced
<1>5. EntriesAreWatched'
  BY <1>1, <1>2 DEF IInv, TypeOK, EntriesAreWatched, Settle
<1> QED
  BY <1>3, <1>4, <1>5, CoalescedUnchanged DEF IInv

-----------------------------------------------------------------------------
(* Coalesced values. *)

\* A set of naturals with a bound has a greatest element.
LEMMA Greatest ==
    ASSUME NEW n \in Nat, NEW B \in SUBSET (1..n), B # {}
    PROVE  \E m \in B : \A j \in B : j <= m
<1> DEFINE S == 1..n
           above(j) == (j + 1)..n
           T == {above(j) : j \in B}
<1>1. IsFiniteSet(S)
  BY FS_Interval
<1>2. IsWellFoundedOn(StrictSubsetOrdering(S), SUBSET S)
  BY <1>1, FS_StrictSubsetOrderingWellFounded, FS_FiniteSubsetsOfFinite
<1>3. T \subseteq SUBSET S /\ T # {}
  <2>1. \A j \in B : above(j) \subseteq S
    OBVIOUS
  <2> QED
    BY <2>1
<1>4. PICK x \in T : \A y \in T : <<y, x>> \notin StrictSubsetOrdering(S)
  <2> HIDE DEF T, S
  <2> QED
    BY <1>2, <1>3, WFMin
<1>5. PICK m \in B : x = above(m)
  OBVIOUS
<1>6. ASSUME NEW j \in B, ~(j <= m) PROVE FALSE
  <2>1. j \in 1..n /\ m \in 1..n /\ m < j
    BY <1>6
  <2>2. above(j) \subseteq above(m)
    BY <2>1
  <2>3. j \in above(m) /\ j \notin above(j)
    BY <2>1
  <2>4. above(j) \in SUBSET S /\ above(m) \in SUBSET S
    BY <1>3
  <2>5. <<above(j), above(m)>> \in StrictSubsetOrdering(S)
    BY <2>2, <2>3, <2>4 DEF StrictSubsetOrdering
  <2> QED
    BY <1>4, <1>5, <2>5
<1> QED
  BY <1>6

\* However many frames uWS takes, the buffer ends at most one over its limit.
LEMMA BufferBounded ==
    ASSUME NEW b \in 0..MaxBuffered + 1, NEW n \in Nat,
           NEW codes \in [1..n -> {Success, Backpressure}], UwsAccepts(b, codes)
    PROVE  BufferAfter(b, codes, n) \in 0..MaxBuffered + 1
<1> DEFINE B(i) == {j \in 1..i : codes[j] = Backpressure}
<1>1. CASE B(n) = {}
  <2>1. BufferAfter(b, codes, n) = b + Cardinality({})
    BY <1>1 DEF BufferAfter
  <2>2. BufferAfter(b, codes, n) = b
    BY <2>1, FS_EmptySet, ConstantsOK
  <2> QED
    BY <2>2
<1>2. CASE B(n) # {}
  <2>1. PICK m \in B(n) : \A j \in B(n) : j <= m
    <3>1. B(n) \in SUBSET (1..n)
      OBVIOUS
    <3> HIDE DEF B
    <3> QED
      BY <1>2, <3>1, Greatest
  <2>2. m \in 1..n /\ codes[m] = Backpressure /\ m - 1 \in Nat
    BY <2>1
  <2>3. B(n) = B(m - 1) \cup {m} /\ m \notin B(m - 1)
    BY <2>1, <2>2
  <2>4. IsFiniteSet(B(m - 1))
    <3>1. B(m - 1) \in SUBSET (1..m - 1) /\ IsFiniteSet(1..m - 1)
      BY <2>2, FS_Interval
    <3> HIDE DEF B
    <3> QED
      BY <3>1, FS_Subset
  <2>5. /\ Cardinality(B(n)) = Cardinality(B(m - 1)) + 1
        /\ Cardinality(B(m - 1)) \in Nat
    <3> HIDE DEF B
    <3> QED
      BY <2>3, <2>4, FS_AddElement, FS_CardinalityType
  <2>6. BufferAfter(b, codes, m - 1) <= MaxBuffered
    BY <2>2 DEF UwsAccepts, Success, Backpressure
  <2>7. b + Cardinality(B(m - 1)) <= MaxBuffered
    BY <2>6 DEF BufferAfter
  <2>8. BufferAfter(b, codes, n) = b + Cardinality(B(n))
    BY DEF BufferAfter
  <2> HIDE DEF B
  <2> QED
    BY <2>5, <2>7, <2>8, ConstantsOK
<1> QED
  BY <1>1, <1>2

\* flushCoalescedFor sends the values of the first n places, each the latest of
\* its key, and keeps the others.
LEMMA FlushKeeps ==
    ASSUME TypeOK, newest' \in [Keys -> 0..MaxWrites],
           NEW values, NEW b \in 0..MaxBuffered + 1, Flush(values, b),
           Proper(values, newest'),
           Represented(values, sent, newest', evicted')
    PROVE  /\ buffered' \in 0..MaxBuffered + 1
           /\ sent' \in [Keys -> 0..MaxWrites]
           /\ Proper(pending, newest)'
           /\ LatestKept'
           /\ FreshOnly
<1>1. PICK n \in 0..Len(values) : \E codes \in [1..n -> {Success, Backpressure}] :
        /\ Pumps(values, b, codes)
        /\ pending' = Kept(values, n)
        /\ buffered' = BufferAfter(b, codes, n)
        /\ sent' = [k \in Keys |->
                       LET now == {i \in 1..n : values[i].key = k}
                       IN  IF now = {} THEN sent[k]
                           ELSE values[CHOOSE i \in now : TRUE].version]
  BY DEF Flush
<1>2. PICK codes \in [1..n -> {Success, Backpressure}] :
        /\ Pumps(values, b, codes)
        /\ pending' = Kept(values, n)
        /\ buffered' = BufferAfter(b, codes, n)
        /\ sent' = [k \in Keys |->
                       LET now == {i \in 1..n : values[i].key = k}
                       IN  IF now = {} THEN sent[k]
                           ELSE values[CHOOSE i \in now : TRUE].version]
  BY <1>1
<1> DEFINE L == Len(values)
<1>3. /\ values \in Seq(Entry) /\ L \in Nat /\ n \in Nat /\ n <= L
      /\ DOMAIN values = 1..L
      /\ \A i \in 1..L : values[i] \in Entry
  BY DEF Proper
<1>4. \A i \in 1..L : /\ values[i].key \in Keys
                      /\ values[i].version \in 1..MaxWrites
                      /\ values[i].version = newest'[values[i].key]
  BY <1>3 DEF Entry, Proper
<1>5. buffered' \in 0..MaxBuffered + 1
  BY <1>2, <1>3, BufferBounded DEF Pumps
<1>6. \A k \in Keys :
          \/ /\ \A i \in 1..n : values[i].key # k
             /\ sent'[k] = sent[k]
          \/ /\ \E i \in 1..n : values[i].key = k
             /\ sent'[k] = newest'[k]
  <2> SUFFICES ASSUME NEW k \in Keys
               PROVE  \/ /\ \A i \in 1..n : values[i].key # k
                         /\ sent'[k] = sent[k]
                      \/ /\ \E i \in 1..n : values[i].key = k
                         /\ sent'[k] = newest'[k]
    OBVIOUS
  <2> DEFINE now == {i \in 1..n : values[i].key = k}
  <2>1. sent'[k] = IF now = {} THEN sent[k] ELSE values[CHOOSE i \in now : TRUE].version
    BY <1>2
  <2>2. CASE now = {}
    BY <2>1, <2>2
  <2>3. CASE now # {}
    <3>1. (CHOOSE i \in now : TRUE) \in now
      BY <2>3
    <3>2. PICK i \in now : i = CHOOSE j \in now : TRUE
      BY <3>1
    <3>3. i \in 1..L /\ values[i].key = k
      BY <1>3, <3>2
    <3>4. sent'[k] = values[i].version
      BY <2>1, <2>3, <3>2
    <3> QED
      BY <1>4, <3>2, <3>3, <3>4
  <2> QED
    BY <2>2, <2>3
<1>7. sent' \in [Keys -> 0..MaxWrites]
  <2>1. \A k \in Keys : sent'[k] \in 0..MaxWrites
    BY <1>6 DEF TypeOK
  <2>2. sent' = [k \in Keys |-> sent'[k]]
    BY <1>2
  <2> QED
    BY <2>1, <2>2
<1>8. FreshOnly
  BY <1>6 DEF FreshOnly
<1>9. pending' \in Seq(Entry) /\ Len(pending') = L - n
  BY <1>2, <1>3 DEF Kept
<1>10. \A i \in 1..L - n : pending'[i] = values[i + n] /\ i + n \in 1..L
  BY <1>2, <1>3 DEF Kept
<1>11. DOMAIN pending' = 1..L - n
  BY <1>9
<1>12. Proper(pending, newest)'
  <2>1. Len(pending') <= MaxKeys
    BY <1>3, <1>9, ConstantsOK DEF Proper
  <2>2. ASSUME NEW i \in 1..L - n, NEW j \in 1..L - n, pending'[i].key = pending'[j].key
        PROVE  i = j
    <3>1. i + n \in DOMAIN values /\ j + n \in DOMAIN values
          /\ values[i + n].key = values[j + n].key
      BY <1>3, <1>10, <2>2
    <3>2. \A p, q \in DOMAIN values : values[p].key = values[q].key => p = q
      BY DEF Proper
    <3>3. i + n = j + n
      BY <3>1, <3>2, Zenon
    <3> QED
      BY <1>3, <3>3
  <2>3. \A i \in 1..L - n : pending'[i].version = newest'[pending'[i].key]
    BY <1>4, <1>10
  <2> QED
    BY <1>9, <1>11, <2>1, <2>2, <2>3 DEF Proper
<1>13. LatestKept'
  <2> SUFFICES ASSUME NEW k \in Keys \ evicted', newest'[k] > 0, sent'[k] # newest'[k]
               PROVE  \E i \in DOMAIN pending' :
                         pending'[i].key = k /\ pending'[i].version = newest'[k]
    BY DEF LatestKept
  <2>1. sent'[k] = sent[k] /\ \A i \in 1..n : values[i].key # k
    BY <1>6
  <2>2. PICK i \in 1..L : values[i].key = k /\ values[i].version = newest'[k]
    BY <1>3, <2>1 DEF Represented
  <2>3. i - n \in 1..L - n /\ (i - n) + n = i
    BY <1>3, <2>1, <2>2
  <2>4. pending'[i - n] = values[i]
    BY <1>10, <2>3
  <2> QED
    BY <1>11, <2>2, <2>3, <2>4
<1> QED
  BY <1>5, <1>7, <1>8, <1>12, <1>13

\* What sendCoalesced hands to the flush: the pending values with the new one in
\* them, at the place its key had or at the end.
LEMMA PutIsProper ==
    ASSUME IInv, NEW k \in Keys, NEW good \in BOOLEAN, newest[k] < MaxWrites,
           newest' = [newest EXCEPT ![k] = @ + 1],
           evicted' = (IF Evicts(k) THEN evicted \cup {Head(pending).key} ELSE evicted) \ {k}
    PROVE  LET v == [key |-> k, version |-> newest[k] + 1, good |-> good]
           IN  /\ Proper(Put(k, v), newest')
               /\ Represented(Put(k, v), sent, newest', evicted')
<1> USE DEF IInv
<1> DEFINE v == [key |-> k, version |-> newest[k] + 1, good |-> good]
           L == Len(pending)
<1>1. /\ pending \in Seq(Entry) /\ L \in Nat /\ L <= MaxKeys /\ DOMAIN pending = 1..L
      /\ \A i \in 1..L : pending[i] \in Entry
  BY DEF TypeOK
<1>2. \A i \in 1..L : /\ pending[i].key \in Keys
                      /\ pending[i].version = newest[pending[i].key]
  BY <1>1 DEF Proper, Entry
<1>3. \A i, j \in 1..L : pending[i].key = pending[j].key => i = j
  BY <1>1 DEF Proper
<1>4. v \in Entry /\ v.key = k /\ v.version = newest'[k] /\ newest'[k] = newest[k] + 1
  <2>1. newest[k] + 1 \in 1..MaxWrites
    BY ConstantsOK DEF TypeOK
  <2>2. newest'[k] = newest[k] + 1
    BY DEF TypeOK
  <2> QED
    BY <2>1, <2>2 DEF Entry
<1>5. \A c \in Keys : c # k => newest'[c] = newest[c]
  BY DEF TypeOK
<1>6. CASE HasKey(pending, k)
  <2> DEFINE values == [i \in DOMAIN pending |-> IF pending[i].key = k THEN v ELSE pending[i]]
  <2>1. Put(k, v) = values
    BY <1>6 DEF Put
  <2>2. DOMAIN values = 1..L /\ \A i \in 1..L : values[i] \in Entry
    BY <1>1, <1>4
  <2>3. values \in Seq(Entry) /\ Len(values) = L
    BY <1>1, <2>2
  <2>4. \A i \in 1..L : values[i].key = pending[i].key
    BY <1>1, <1>4
  <2>5. \A i, j \in 1..L : values[i].key = values[j].key => i = j
    BY <1>3, <2>4
  <2>6. \A i \in 1..L : values[i].version = newest'[values[i].key]
    <3> SUFFICES ASSUME NEW i \in 1..L PROVE values[i].version = newest'[values[i].key]
      OBVIOUS
    <3>1. CASE pending[i].key = k
      BY <1>1, <1>4, <3>1
    <3>2. CASE pending[i].key # k
      BY <1>1, <1>2, <1>5, <3>2
    <3> QED
      BY <3>1, <3>2
  <2>7. Proper(values, newest')
    BY <1>1, <2>2, <2>3, <2>5, <2>6 DEF Proper
  <2>8. ~Evicts(k)
    BY <1>6 DEF Evicts
  <2>9. Represented(values, sent, newest', evicted')
    <3> SUFFICES ASSUME NEW c \in Keys \ evicted', newest'[c] > 0, sent[c] # newest'[c]
                 PROVE  \E i \in 1..L : values[i].key = c /\ values[i].version = newest'[c]
      BY <2>2 DEF Represented
    <3>1. CASE c = k
      <4>1. PICK i \in 1..L : pending[i].key = k
        BY <1>1, <1>6 DEF HasKey
      <4> QED
        BY <2>4, <2>6, <3>1, <4>1
    <3>2. CASE c # k
      <4>1. c \notin evicted /\ newest'[c] = newest[c]
        BY <1>5, <2>8, <3>2
      <4>2. PICK i \in 1..L : pending[i].key = c
        BY <1>1, <4>1 DEF LatestKept
      <4> QED
        BY <2>4, <2>6, <4>2
    <3> QED
      BY <3>1, <3>2
  <2> QED
    BY <2>1, <2>7, <2>9
<1>7. CASE ~HasKey(pending, k)
  <2> DEFINE room == Room(k)
             m == Len(room)
             values == Append(room, v)
  <2>1. Put(k, v) = values
    BY <1>7 DEF Put
  <2>2. /\ room \in Seq(Entry) /\ m \in Nat /\ m + 1 <= MaxKeys
        /\ \/ /\ ~Evicts(k) /\ room = pending /\ m = L
           \/ /\ Evicts(k) /\ L # 0 /\ m = L - 1
              /\ \A i \in 1..m : room[i] = pending[i + 1]
              /\ Head(pending) = pending[1]
    <3>1. CASE Evicts(k)
      <4>1. pending # <<>> /\ L # 0
        BY <1>1, <3>1, ConstantsOK DEF Evicts
      <4>2. room = Tail(pending)
        BY <3>1 DEF Room
      <4>3. /\ room \in Seq(Entry) /\ m = L - 1
            /\ \A i \in 1..m : room[i] = pending[i + 1]
        BY <1>1, <4>1, <4>2, HeadTailProperties
      <4>4. Head(pending) = pending[1]
        BY <1>1, <4>1
      <4> QED
        BY <1>1, <3>1, <4>1, <4>3, <4>4, ConstantsOK
    <3>2. CASE ~Evicts(k)
      <4>1. room = pending
        BY <3>2 DEF Room
      <4>2. L < MaxKeys
        BY <1>1, <1>7, <3>2, ConstantsOK DEF Evicts
      <4>3. m = L
        BY <4>1
      <4>4. m + 1 <= MaxKeys
        BY <1>1, <4>2, <4>3, ConstantsOK
      <4> QED
        BY <1>1, <3>2, <4>1, <4>3, <4>4
    <3> QED
      BY <3>1, <3>2
  <2> DEFINE d == IF Evicts(k) THEN 1 ELSE 0
  <2>3. \A i \in 1..m : i + d \in 1..L /\ room[i] = pending[i + d]
    <3>1. CASE Evicts(k)
      BY <1>1, <2>2, <3>1
    <3>2. CASE ~Evicts(k)
      <4>1. d = 0 /\ room = pending /\ m = L
        BY <2>2, <3>2
      <4> HIDE DEF d, m, room
      <4> QED
        BY <1>1, <4>1
    <3> QED
      BY <3>1, <3>2
  <2>4. /\ values \in Seq(Entry) /\ Len(values) = m + 1 /\ DOMAIN values = 1..m + 1
        /\ values[m + 1] = v
        /\ \A i \in 1..m : values[i] = room[i]
    <3> HIDE DEF room, v
    <3> QED
      BY <1>4, <2>2
  <2>5. \A i \in 1..m : /\ values[i].key \in Keys \ {k}
                        /\ values[i].version = newest[values[i].key]
    <3> SUFFICES ASSUME NEW i \in 1..m
                 PROVE  /\ values[i].key \in Keys \ {k}
                        /\ values[i].version = newest[values[i].key]
      OBVIOUS
    <3>1. i + d \in 1..L /\ values[i] = pending[i + d]
      BY <2>3, <2>4
    <3> QED
      BY <1>1, <1>2, <1>7, <3>1 DEF HasKey
  <2>6. \A i, j \in 1..m : values[i].key = values[j].key => i = j
    <3> SUFFICES ASSUME NEW i \in 1..m, NEW j \in 1..m, values[i].key = values[j].key
                 PROVE  i = j
      OBVIOUS
    <3>1. i + d \in 1..L /\ values[i] = pending[i + d]
      BY <2>3, <2>4
    <3>2. j + d \in 1..L /\ values[j] = pending[j + d]
      BY <2>3, <2>4
    <3>3. i + d = j + d
      BY <1>3, <3>1, <3>2
    <3>4. d \in Int /\ i \in Int /\ j \in Int
      BY <2>2
    <3> HIDE DEF d
    <3> QED
      BY <3>3, <3>4
  <2>7. Proper(values, newest')
    <3>1. \A i, j \in 1..m + 1 : values[i].key = values[j].key => i = j
      <4>1. \A i \in 1..m + 1 : i = m + 1 \/ i \in 1..m
        BY <2>2
      <4> HIDE DEF room, values, v
      <4> QED
        BY <1>4, <2>4, <2>5, <2>6, <4>1
    <3>2. \A i \in 1..m + 1 : values[i].version = newest'[values[i].key]
      <4>1. \A i \in 1..m + 1 : i = m + 1 \/ i \in 1..m
        BY <2>2
      <4> HIDE DEF room, values, v
      <4> QED
        BY <1>4, <1>5, <2>4, <2>5, <4>1
    <3> HIDE DEF room, values, v
    <3> QED
      BY <2>2, <2>4, <3>1, <3>2 DEF Proper
  <2>8. Represented(values, sent, newest', evicted')
    <3> SUFFICES ASSUME NEW c \in Keys \ evicted', newest'[c] > 0, sent[c] # newest'[c]
                 PROVE  \E i \in DOMAIN values :
                           values[i].key = c /\ values[i].version = newest'[c]
      BY DEF Represented
    <3>1. CASE c = k
      <4>1. m + 1 \in DOMAIN values /\ values[m + 1].key = k
            /\ values[m + 1].version = newest'[k]
        <5> HIDE DEF values, v, room
        <5> QED
          BY <1>4, <2>2, <2>4
      <4> HIDE DEF values, room, v
      <4> QED
        BY <3>1, <4>1
    <3>2. CASE c # k
      <4>1. c \notin evicted /\ newest'[c] = newest[c]
        BY <1>5, <3>2
      <4>2. PICK j \in 1..L : pending[j].key = c /\ pending[j].version = newest[c]
        BY <1>1, <4>1 DEF LatestKept
      <4>3. \E i \in 1..m : values[i] = pending[j]
        <5>1. CASE ~Evicts(k)
          BY <2>2, <2>4, <4>2, <5>1
        <5>2. CASE Evicts(k)
          <6>1. j # 1
            BY <2>2, <3>2, <4>2, <5>2
          <6>2. j - 1 \in 1..m /\ (j - 1) + 1 = j
            BY <1>1, <2>2, <5>2, <6>1
          <6>3. values[j - 1] = pending[j]
            BY <2>2, <2>4, <5>2, <6>2
          <6> QED
            BY <6>2, <6>3
        <5> QED
          BY <5>1, <5>2
      <4>4. PICK i \in 1..m : values[i] = pending[j]
        BY <4>3
      <4>5. i \in DOMAIN values
        BY <2>2, <2>4
      <4> HIDE DEF values, room, v
      <4> QED
        BY <4>1, <4>2, <4>4, <4>5
    <3> QED
      BY <3>1, <3>2
  <2> QED
    BY <2>1, <2>7, <2>8
<1> QED
  BY <1>6, <1>7

LEMMA SendCoalescedKeeps ==
    ASSUME IInv, NEW k \in Keys, SendCoalesced(k)
    PROVE  IInv' /\ FreshOnly
<1> USE DEF IInv
<1>1. PICK good \in BOOLEAN :
          Flush(Put(k, [key |-> k, version |-> newest[k] + 1, good |-> good]), buffered)
  BY DEF SendCoalesced
<1>2. /\ newest[k] < MaxWrites
      /\ newest' = [newest EXCEPT ![k] = @ + 1]
      /\ evicted' = (IF Evicts(k) THEN evicted \cup {Head(pending).key} ELSE evicted) \ {k}
      /\ UNCHANGED <<open, requests>>
  BY DEF SendCoalesced
<1> DEFINE values == Put(k, [key |-> k, version |-> newest[k] + 1, good |-> good])
<1>3. Proper(values, newest') /\ Represented(values, sent, newest', evicted')
  BY <1>2, PutIsProper
<1>4. newest' \in [Keys -> 0..MaxWrites]
  <2>1. newest[k] + 1 \in 0..MaxWrites
    BY <1>2, ConstantsOK DEF TypeOK
  <2> QED
    BY <1>2, <2>1 DEF TypeOK
<1>5. /\ buffered' \in 0..MaxBuffered + 1
      /\ sent' \in [Keys -> 0..MaxWrites]
      /\ Proper(pending, newest)'
      /\ LatestKept'
      /\ FreshOnly
  <2>1. Flush(values, buffered) /\ buffered \in 0..MaxBuffered + 1
    BY <1>1 DEF TypeOK
  <2> HIDE DEF values
  <2> QED
    BY <1>3, <1>4, <2>1, FlushKeeps
<1>6. evicted' \subseteq Keys
  <2>1. CASE Evicts(k)
    <3>1. pending # <<>>
      BY <2>1, ConstantsOK DEF Evicts
    <3>2. Head(pending) \in Entry
      BY <3>1 DEF TypeOK
    <3> QED
      BY <1>2, <2>1, <3>2 DEF TypeOK, Entry
  <2>2. CASE ~Evicts(k)
    BY <1>2, <2>2 DEF TypeOK
  <2> QED
    BY <2>1, <2>2
<1>7. TypeOK' /\ EntriesAreWatched'
  BY <1>2, <1>4, <1>5, <1>6 DEF TypeOK, EntriesAreWatched, Proper, requests
<1> QED
  BY <1>5, <1>7

LEMMA DrainKeeps ==
    ASSUME IInv, Drain
    PROVE  IInv' /\ FreshOnly
<1> USE DEF IInv
<1>1. PICK rest \in 0..buffered - 1 : Flush(pending, rest)
  BY DEF Drain
<1>2. UNCHANGED <<newest, evicted, open, requests>>
  BY DEF Drain
<1>3. rest \in 0..MaxBuffered + 1
  BY <1>1, ConstantsOK DEF TypeOK
<1>4. /\ Proper(pending, newest') /\ Represented(pending, sent, newest', evicted')
      /\ newest' \in [Keys -> 0..MaxWrites]
  BY <1>2 DEF LatestKept, Represented, TypeOK
<1>5. /\ buffered' \in 0..MaxBuffered + 1
      /\ sent' \in [Keys -> 0..MaxWrites]
      /\ Proper(pending, newest)'
      /\ LatestKept'
      /\ FreshOnly
  BY <1>1, <1>3, <1>4, FlushKeeps
<1>6. TypeOK' /\ EntriesAreWatched'
  BY <1>2, <1>5 DEF TypeOK, EntriesAreWatched, Proper, requests
<1> QED
  BY <1>5, <1>6

-----------------------------------------------------------------------------
(* The specification. *)

LEMMA InitHolds == Init => IInv
<1> SUFFICES ASSUME Init PROVE IInv
  OBVIOUS
<1>1. Cardinality(entries) <= MaxPending
  BY FS_EmptySet, ConstantsOK DEF Init
<1>2. pending \in Seq(Entry) /\ Len(pending) <= MaxKeys /\ DOMAIN pending = {}
  BY ConstantsOK DEF Init
<1>3. TypeOK
  BY <1>1, <1>2, ConstantsOK DEF Init, TypeOK
<1>4. EntriesAreWatched
  BY DEF Init, EntriesAreWatched
<1>5. Proper(pending, newest)
  BY <1>2 DEF Proper
<1>6. LatestKept
  BY DEF Init, LatestKept
<1> QED
  BY <1>3, <1>4, <1>5, <1>6 DEF IInv

LEMMA StepKeeps == IInv /\ [Next]_vars => IInv' /\ FreshOnly
<1> SUFFICES ASSUME IInv, [Next]_vars PROVE IInv' /\ FreshOnly
  OBVIOUS
<1>1. CASE UNCHANGED coalesced
  <2>1. FreshOnly
    BY <1>1 DEF FreshOnly, coalesced
  <2>2. CASE UNCHANGED vars
    <3>1. TypeOK' /\ EntriesAreWatched'
      BY <2>2 DEF IInv, TypeOK, EntriesAreWatched, vars, requests, coalesced
    <3> QED
      BY <1>1, <2>1, <3>1, CoalescedUnchanged DEF IInv
  <2>3. ASSUME NEW r \in Refs, Refused(r) \/ Request(r) \/ Reply(r) \/ Timeout(r)
        PROVE  IInv'
    BY <2>3, RefusedKeeps, RequestKeeps, ReplyKeeps, TimeoutKeeps
  <2>4. CASE Close
    BY <2>1, <2>4, CloseKeeps
  <2>5. ASSUME NEW k \in Keys, SendCoalesced(k) PROVE IInv'
    BY <2>5, SendCoalescedKeeps
  <2>6. CASE Drain
    BY <2>6, DrainKeeps
  <2> QED
    BY <2>1, <2>2, <2>3, <2>4, <2>5, <2>6 DEF Next
<1>2. CASE ~UNCHANGED coalesced
  <2>1. ~UNCHANGED vars
    BY <1>2 DEF vars
  <2>2. ASSUME NEW r \in Refs PROVE ~(Refused(r) \/ Request(r) \/ Reply(r) \/ Timeout(r))
    BY <1>2 DEF Refused, Request, Reply, Timeout
  <2>3. ~Close
    BY <1>2 DEF Close
  <2>4. ASSUME NEW k \in Keys, SendCoalesced(k) PROVE IInv' /\ FreshOnly
    BY <2>4, SendCoalescedKeeps
  <2>5. CASE Drain
    BY <2>5, DrainKeeps
  <2> QED
    BY <2>1, <2>2, <2>3, <2>4, <2>5 DEF Next
<1> QED
  BY <1>1, <1>2

LEMMA Invariance == Spec => []IInv
<1>1. Init => IInv
  BY InitHolds
<1>2. IInv /\ [Next]_vars => IInv'
  BY StepKeeps
<1> QED
  BY <1>1, <1>2, PTL DEF Spec

\* A waiting promise of platform.request has its entry and its timer, and the
\* Maps of a connection stay within their caps.
THEOREM RequestsAreWatched == Spec => []SettlingIsSure
<1>1. IInv => SettlingIsSure
  BY DEF IInv, SettlingIsSure
<1> QED
  BY <1>1, Invariance, PTL

\* sendCoalesced with its flushes: the latest value of a key is on the wire or
\* held back, and nothing older than the latest is ever sent.
THEOREM LatestValueGoesOut == Spec => LatestGoesOut
<1>1. IInv /\ [Next]_vars => [LatestKept' /\ FreshOnly]_vars
  BY StepKeeps DEF IInv
<1>2. Spec => [][LatestKept' /\ FreshOnly]_vars
  BY <1>1, Invariance, PTL DEF Spec
<1> QED
  BY <1>2 DEF LatestGoesOut

-----------------------------------------------------------------------------
(* The parts MCConnection composes with Connection: TaskQueue. *)

QP == INSTANCE TaskQueueProofs WITH Keys <- QueueKeys, key <- label, at <- place

\* Both instances of TaskQueue say the same.
LEMMA SameQueue ==
    /\ QP!ConstantsOK = Q!ConstantsOK /\ QP!Init = Q!Init /\ QP!vars = Q!vars
    /\ QP!Next = Q!Next /\ QP!Sound = Q!Sound
<1>1. QP!ConstantsOK = Q!ConstantsOK
  BY DEF Q!ConstantsOK, QP!ConstantsOK, Q!IsFiniteSet, QP!IsFiniteSet
<1>2. QP!Init = Q!Init /\ QP!vars = Q!vars
  BY DEF Q!Init, QP!Init, Q!vars, QP!vars
<1>3. QP!TypeOK = Q!TypeOK
  BY DEF Q!TypeOK, QP!TypeOK, Q!Phases, QP!Phases
<1>4. QP!RunningOnRegistered = Q!RunningOnRegistered /\ QP!DrainIsSound = Q!DrainIsSound
  BY DEF Q!RunningOnRegistered, QP!RunningOnRegistered, Q!Unfinished, QP!Unfinished,
         Q!DrainIsSound, QP!DrainIsSound
<1>5. QP!NoIdleSlot = Q!NoIdleSlot
  BY DEF Q!NoIdleSlot, QP!NoIdleSlot, Q!Running, QP!Running, Q!Cardinality, QP!Cardinality
<1>6. QP!Sound = Q!Sound
  BY <1>3, <1>4, <1>5 DEF Q!Sound, QP!Sound
<1>7. ASSUME NEW p \in Pushes, NEW k \in QueueKeys PROVE QP!Push(p, k) = Q!Push(p, k)
  BY DEF Q!Push, QP!Push, Q!Full, QP!Full, Q!Start, QP!Start, Q!Startable, QP!Startable
<1>8. ASSUME NEW p \in Pushes PROVE QP!Settle(p) = Q!Settle(p)
  BY DEF Q!Settle, QP!Settle, Q!Start, QP!Start, Q!Startable, QP!Startable, Q!Idle, QP!Idle,
         Q!Cleanup, QP!Cleanup
<1>9. ASSUME NEW ks PROVE QP!Clear(ks) = Q!Clear(ks)
  BY DEF Q!Clear, QP!Clear, Q!Registered, QP!Registered, Q!Idle, QP!Idle, Q!Cleanup, QP!Cleanup
<1>10. ASSUME NEW d, NEW ks PROVE QP!Drain(d, ks) = Q!Drain(d, ks)
  BY DEF Q!Drain, QP!Drain, Q!Registered, QP!Registered, Q!Busy, QP!Busy,
         Q!Unfinished, QP!Unfinished
<1>11. QP!KeyChoices = Q!KeyChoices
  BY DEF Q!KeyChoices, QP!KeyChoices
<1>12. QP!Next = Q!Next
  BY <1>7, <1>8, <1>9, <1>10, <1>11 DEF Q!Next, QP!Next
<1> QED
  BY <1>1, <1>2, <1>6, <1>12

\* The queue part of the composition is a behaviour of TaskQueue.
LEMMA QueuePart == PartsSpec => QP!Spec
<1>1. PartsInit => QP!Init
  BY SameQueue DEF PartsInit
<1>2. [PartsNext]_<<part, vars, rpcVars, queueVars, replayVars, resumeVars>> => [QP!Next]_(QP!vars)
  BY SameQueue DEF PartsNext, queueVars, QP!vars
<1> QED
  BY <1>1, <1>2, PTL DEF PartsSpec, QP!Spec

\* In every composition the queue plugin (plugins/queue/server.js) keeps its
\* books: the limit, no idle slot, tasks on the registered object, honest drains.
THEOREM QueueBooksHold == PartsSpec => []QueueBooks
<1>1. QP!Spec => []QP!Sound
  BY QueueConstantsOK, SameQueue, QP!BooksAreKept
<1>2. QP!Sound => QueueBooks
  BY SameQueue DEF QueueBooks
<1> QED
  BY <1>1, <1>2, QueuePart, PTL

-----------------------------------------------------------------------------
(* Rpc. *)

Made == {r \in Requests : state[r] # "none"}

\* A worker never gives two requests the same number.
RefsDiffer ==
    /\ \A w \in Workers : nextRef[w] = Cardinality(Made) + 1
    /\ \A r \in Made : ref[r] <= Cardinality(Made)
    /\ \A r, q \in Made : ref[r] = ref[q] => r = q

RpcInv ==
    /\ C!RpcTypeOK
    /\ tasks \subseteq Made
    /\ RefsDiffer
    /\ C!OwnAnswer

LEMMA SameCardinality == C!Cardinality(Requests) = Cardinality(Requests)
BY DEF C!Cardinality, Cardinality

LEMMA MadeIsFinite ==
    /\ IsFiniteSet(Made) /\ Cardinality(Made) \in Nat
    /\ Cardinality(Made) <= Cardinality(Requests) /\ Cardinality(Requests) \in Nat
<1>1. Made \subseteq Requests /\ IsFiniteSet(Requests)
  BY RpcConstantsOK DEF Made
<1> QED
  BY <1>1, FS_Subset, FS_CardinalityType

LEMMA RpcInitHolds == C!Init => RpcInv
<1> SUFFICES ASSUME C!Init PROVE RpcInv
  OBVIOUS
<1>1. Made = {} /\ Cardinality(Made) = 0
  BY FS_EmptySet DEF C!Init, Made
<1>2. Cardinality(Requests) \in Nat
  BY MadeIsFinite
<1> QED
  BY SameCardinality, <1>1, <1>2, RpcConstantsOK DEF C!Init, RpcInv, C!RpcTypeOK, RefsDiffer, C!OwnAnswer

LEMMA RpcRequestKeeps ==
    ASSUME RpcInv, NEW r \in Requests, C!Request(r)
    PROVE  RpcInv'
<1>1. /\ home \in Workers /\ state[r] = "none"
      /\ state' = [state EXCEPT ![r] = "waiting"]
      /\ ref' = [ref EXCEPT ![r] = nextRef[home]]
      /\ onConn' = [onConn EXCEPT ![r] = conns]
      /\ nextRef' = [nextRef EXCEPT ![home] = @ + 1]
      /\ tasks' \subseteq tasks \cup {r}
      /\ UNCHANGED <<home, conns, answer>>
  BY SameCardinality DEF C!Request, RpcInv, C!RpcTypeOK
<1>2. Made' = Made \cup {r} /\ r \notin Made
  BY SameCardinality, <1>1 DEF Made, RpcInv, C!RpcTypeOK
<1>3. Cardinality(Made') = Cardinality(Made) + 1 /\ Cardinality(Made) \in Nat
  BY <1>2, MadeIsFinite, FS_AddElement
<1>4. Cardinality(Made') <= Cardinality(Requests)
  <2>1. Made' \subseteq Requests /\ IsFiniteSet(Requests)
    BY RpcConstantsOK DEF Made
  <2> QED
    BY <2>1, FS_Subset
<1>5. nextRef[home] = Cardinality(Made) + 1 /\ Cardinality(Requests) \in Nat
  BY <1>1, MadeIsFinite DEF RpcInv, RefsDiffer
<1>6. ref[r] \in 0..Cardinality(Requests) /\ ref'[r] = Cardinality(Made) + 1
      /\ \A q \in Requests : q # r => ref'[q] = ref[q]
  BY SameCardinality, <1>1, <1>5 DEF RpcInv, C!RpcTypeOK
<1>7. C!RpcTypeOK'
  <2> DEFINE N == Cardinality(Requests)
  <2>0. /\ nextRef \in [Workers -> 1..(N + 1)] /\ ref \in [Requests -> 0..N] /\ N \in Nat
    BY SameCardinality, <1>5 DEF RpcInv, C!RpcTypeOK
  <2>4. nextRef[home] \in 0..N /\ nextRef[home] + 1 \in 1..(N + 1)
    BY <1>3, <1>4, <1>5
  <2> HIDE DEF N
  <2>1. nextRef' \in [Workers -> 1..(N + 1)]
    BY <1>1, <2>0, <2>4
  <2>2. ref' \in [Requests -> 0..N]
    BY <1>1, <2>0, <2>4
  <2>3. tasks' \subseteq Requests
    BY SameCardinality, <1>1 DEF RpcInv, C!RpcTypeOK
  <2> QED
    BY SameCardinality, <1>1, <2>1, <2>2, <2>3 DEF N, RpcInv, C!RpcTypeOK
<1>8. tasks' \subseteq Made'
  BY <1>1, <1>2 DEF RpcInv
<1>9. RefsDiffer'
  <2>1. ASSUME NEW w \in Workers PROVE nextRef'[w] = Cardinality(Made') + 1
    <3>1. w = home
      BY <1>1, RpcConstantsOK
    <3> QED
      BY SameCardinality, <1>1, <1>3, <1>5, <3>1 DEF RpcInv, C!RpcTypeOK
  <2>2. ASSUME NEW q \in Made PROVE ref'[q] = ref[q] /\ ref'[q] <= Cardinality(Made)
                                    /\ ref'[q] \in Int
    <3>1. q # r /\ q \in Requests
      BY <1>2 DEF Made
    <3>2. ref[q] \in 0..C!Cardinality(Requests) /\ ref[q] <= Cardinality(Made)
      BY <3>1 DEF RpcInv, RefsDiffer, C!RpcTypeOK
    <3> QED
      BY <1>6, <3>1, <3>2
  <2>3. \A q \in Made' : ref'[q] <= Cardinality(Made')
    BY <1>2, <1>3, <1>6, <2>2
  <2>4. \A p, q \in Made' : ref'[p] = ref'[q] => p = q
    BY <1>2, <1>3, <1>6, <2>2 DEF RpcInv, RefsDiffer
  <2> QED
    BY <2>1, <2>3, <2>4 DEF RefsDiffer
<1>10. C!OwnAnswer'
  BY SameCardinality, <1>1 DEF RpcInv, C!OwnAnswer, C!RpcTypeOK
<1> QED
  BY <1>7, <1>8, <1>9, <1>10 DEF RpcInv

\* Steps that make no request and give no answer.
LEMMA RpcSettleKeeps ==
    ASSUME RpcInv, UNCHANGED <<nextRef, ref, onConn, answer>>,
           tasks' \subseteq tasks,
           home' \in Workers \cup {NoConn}, conns' \in 0..MaxConns,
           state' \in [Requests -> {"none", "waiting", "resolved", "timed out", "closed"}],
           \A r \in Requests : state'[r] = state[r] \/ (state[r] = "waiting" /\ state'[r] # "none")
    PROVE  RpcInv'
<1>1. Made' = Made
  BY DEF Made
<1>2. C!RpcTypeOK' /\ tasks' \subseteq Made'
  BY SameCardinality, <1>1 DEF RpcInv, C!RpcTypeOK
<1>3. RefsDiffer'
  BY <1>1 DEF RpcInv, RefsDiffer
<1>4. C!OwnAnswer'
  BY DEF RpcInv, C!OwnAnswer
<1> QED
  BY <1>2, <1>3, <1>4 DEF RpcInv

\* The entry a reply resolves is that of its own request.
LEMMA RpcReplyKeeps ==
    ASSUME RpcInv, NEW t \in Requests, C!Reply(t)
    PROVE  RpcInv'
<1>1. t \in tasks /\ tasks' = tasks \ {t} /\ UNCHANGED <<nextRef, home, conns, ref, onConn>>
  BY DEF C!Reply
<1>2. CASE home = NoConn
  <2>1. UNCHANGED <<state, answer>>
    BY <1>2 DEF C!Reply
  <2> QED
    BY SameCardinality, <1>1, <2>1, RpcSettleKeeps DEF RpcInv, C!RpcTypeOK
<1>3. CASE home # NoConn
  <2>1. /\ state' = [r \in Requests |-> IF r \in C!Entry(ref[t]) THEN "resolved" ELSE state[r]]
        /\ answer' = [r \in Requests |-> IF r \in C!Entry(ref[t]) THEN t ELSE answer[r]]
    BY <1>3 DEF C!Reply
  <2>2. \A r \in C!Entry(ref[t]) : r = t /\ state[r] = "waiting"
    BY <1>1 DEF C!Entry, C!Waiting, RpcInv, RefsDiffer, Made
  <2>3. Made' = Made
    BY <2>1, <2>2 DEF Made
  <2>4. C!RpcTypeOK' /\ tasks' \subseteq Made'
    BY SameCardinality, <1>1, <2>1, <2>3 DEF RpcInv, C!RpcTypeOK
  <2>5. RefsDiffer'
    BY <1>1, <2>3 DEF RpcInv, RefsDiffer
  <2>6. C!OwnAnswer'
    BY <2>1, <2>2 DEF RpcInv, C!OwnAnswer
  <2> QED
    BY <2>4, <2>5, <2>6 DEF RpcInv
<1> QED
  BY <1>2, <1>3

LEMMA RpcStepKeeps == RpcInv /\ [C!Next]_rpcVars => RpcInv'
<1> SUFFICES ASSUME RpcInv, [C!Next]_rpcVars PROVE RpcInv'
  OBVIOUS
<1>0. \A n \in 0..MaxConns : n < MaxConns => n + 1 \in 0..MaxConns
  BY RpcConstantsOK
<1> USE DEF RpcInv, C!RpcTypeOK
<1>1. ASSUME NEW w \in Workers, C!Connect(w) PROVE RpcInv'
  <2>1. conns \in 0..MaxConns /\ conns < MaxConns /\ conns' = conns + 1
    BY <1>1 DEF C!Connect
  <2>2. conns' \in 0..MaxConns
    BY <1>0, <2>1
  <2> QED
    BY <1>1, <2>2, RpcSettleKeeps DEF C!Connect
<1>2. ASSUME NEW r \in Requests, C!Timeout(r) PROVE RpcInv'
  BY <1>2, RpcSettleKeeps DEF C!Timeout
<1>3. CASE C!Lose
  BY <1>3, RpcSettleKeeps DEF C!Lose, C!Closed, C!Waiting
<1>4. CASE UNCHANGED rpcVars
  BY <1>4, RpcSettleKeeps DEF rpcVars
<1> QED
  BY <1>1, <1>2, <1>3, <1>4, RpcRequestKeeps, RpcReplyKeeps DEF C!Next

\* On one worker process a request of platform.request is resolved with the
\* answer of its own handler, over any number of connections.
THEOREM RepliesAreOwn == PartsSpec => []RepliesMatch
<1>1. PartsInit => RpcInv
  BY RpcInitHolds DEF PartsInit
<1>2. RpcInv /\ [PartsNext]_<<part, vars, rpcVars, queueVars, replayVars, resumeVars>> => RpcInv'
  BY RpcStepKeeps DEF PartsNext
<1>3. RpcInv => RepliesMatch
  BY DEF RpcInv, RepliesMatch, C!RepliesMatch
<1> QED
  BY <1>1, <1>2, <1>3, PTL DEF PartsSpec

-----------------------------------------------------------------------------
(***************************************************************************)
(* Resuming. The frames that carry a message are those with an id. What    *)
(* the buffer holds is in order, and, while the counts agree, numbered by  *)
(* the stamps; a resume frame is on its way only before anything that      *)
(* carries a message is, and presents what was seen last.                  *)
(***************************************************************************)

Kinds == {"welcome", "live", "msg", "end", "truncated"}

InOrder(s) == \A i, j \in DOMAIN s : i < j => s[i] < s[j]

\* While the two counts are the same the buffer's number of a message is its
\* stamp, and the newest message is never gone.
Numbered ==
    apart \/ /\ count = stamp /\ (stamp > 0 => ring # <<>>)
             /\ \A i \in DOMAIN ring : ring[i] = stamp - Len(ring) + i

Carries ==
    /\ \A i \in DOMAIN toClient :
         /\ toClient[i].id > 0 <=> toClient[i].kind \in {"live", "msg"}
         /\ toClient[i].id <= stamp
    /\ \A i \in DOMAIN got : got[i] <= stamp
    /\ owed \subseteq 1..stamp /\ lastSeen <= stamp

Presents == toServer = <<Z!Frame("resume", lastSeen), Z!Frame("subscribe", 0)>>

Talks ==
    /\ ~online => /\ toServer = <<>> /\ toClient = <<>> /\ got = <<>>
                  /\ ~joined /\ hooked = Z!NotRunning
    /\ joined => toServer = <<>>
    /\ toServer = <<>> \/ toServer = <<Z!Frame("subscribe", 0)>> \/ Presents
    /\ Presents => /\ Z!Resumable /\ got = <<>> /\ hooked = Z!NotRunning
                   /\ \A i \in DOMAIN toClient : toClient[i].kind = "welcome"

\* With a hook that answers at once messages come in order, each once, and no
\* marker comes after what is live.
Orderly ==
    slowHook \/
        /\ hooked = Z!NotRunning
        /\ InOrder(got)
        /\ \A i \in DOMAIN got, j \in DOMAIN toClient : toClient[j].id > 0 => got[i] < toClient[j].id
        /\ \A i, j \in DOMAIN toClient :
             i < j /\ toClient[i].id > 0 /\ toClient[j].id > 0 => toClient[i].id < toClient[j].id
        /\ \A i, j \in DOMAIN toClient :
             toClient[i].kind = "live" /\ toClient[j].kind = "truncated" => j < i

Had(m) == m \in had \/ \E i \in DOMAIN got : got[i] = m
Comes(m) == \E i \in DOMAIN toClient : toClient[i].id = m
Admitted == \E i \in DOMAIN toClient : toClient[i].kind = "truncated"

\* What is owed and has not been given is newer than what was seen last, so that
\* the next resume asks for it, should this connection be lost.
Filled ==
    slowHook \/ apart \/
        /\ \A i \in DOMAIN toClient : toClient[i].id > 0 => toClient[i].id > lastSeen
        /\ \A m \in owed : Had(m) \/ m > lastSeen
        /\ Admitted \/ \A m \in owed : Had(m) \/ Comes(m) \/ (Z!Resuming /\ m > lastSeen)

ResumeInv ==
    /\ Z!ResumeTypeOK /\ InOrder(ring)
    /\ Numbered /\ Carries /\ Talks /\ Orderly /\ Filled

FrameSet == [kind: Kinds, id: 0..MaxStamps]

LEMMA ResumeTypes ==
    /\ Z!ResumeTypeOK =>
         /\ stamp \in 0..MaxStamps /\ count \in 0..stamp
         /\ ring \in Seq(1..stamp) /\ Len(ring) \in Nat /\ Len(ring) <= Capacity
         /\ toClient \in Seq(FrameSet) /\ got \in Seq(1..MaxStamps)
         /\ had \cup owed \subseteq 1..MaxStamps
         /\ DOMAIN toClient = 1..Len(toClient) /\ Len(toClient) \in Nat
         /\ DOMAIN got = 1..Len(got) /\ Len(got) \in Nat
         /\ hooked \in -1..MaxStamps /\ lastSeen \in 0..MaxStamps
         /\ losses \in 0..MaxLost
    /\ \A kind, id : Z!Frame(kind, id) = [kind |-> kind, id |-> id]
    /\ \A kind \in Kinds, id \in 0..MaxStamps : Z!Frame(kind, id) \in FrameSet
    /\ MaxStamps \in Nat /\ Capacity \in Nat \ {0} /\ MaxLost \in Nat /\ Z!NotRunning = -1
<1>1. MaxStamps \in Nat /\ Capacity \in Nat \ {0} /\ MaxLost \in Nat /\ Z!NotRunning = -1
  BY BuffersConstantsOK DEF Z!NotRunning
<1>2. \A kind, id : Z!Frame(kind, id) = [kind |-> kind, id |-> id]
  BY DEF Z!Frame
<1>3. \A kind \in Kinds, id \in 0..MaxStamps : Z!Frame(kind, id) \in FrameSet
  BY <1>2 DEF FrameSet
<1>4. ASSUME Z!ResumeTypeOK
      PROVE  /\ stamp \in 0..MaxStamps /\ count \in 0..stamp
             /\ ring \in Seq(1..stamp) /\ Len(ring) <= Capacity
             /\ toClient \in Seq(FrameSet) /\ got \in Seq(1..MaxStamps)
             /\ had \cup owed \subseteq 1..MaxStamps
             /\ hooked \in -1..MaxStamps /\ lastSeen \in 0..MaxStamps
             /\ losses \in 0..MaxLost
  BY <1>1, <1>4 DEF Z!ResumeTypeOK, FrameSet, Kinds
<1>5. ASSUME Z!ResumeTypeOK
      PROVE  /\ Len(ring) \in Nat
             /\ DOMAIN toClient = 1..Len(toClient) /\ Len(toClient) \in Nat
             /\ DOMAIN got = 1..Len(got) /\ Len(got) \in Nat
  BY <1>4, <1>5, LenProperties
<1> QED
  BY <1>1, <1>2, <1>3, <1>4, <1>5

\* An answer to a resume is the newest messages of the buffer and a marker; as
\* long as the counts agree these are newer than what was asked for, and all
\* that are, unless the marker says that they are not.
LEMMA ReplayedShape ==
    ASSUME ResumeInv, NEW since \in Nat
    PROVE  \E n \in 0..Len(ring) :
             /\ Z!Replayed(since) \in Seq(FrameSet) /\ Len(Z!Replayed(since)) = n + 1
             /\ \A i \in 1..n : /\ Z!Replayed(since)[i] = Z!Frame("msg", ring[Len(ring) - n + i])
                                /\ Len(ring) - n + i \in DOMAIN ring
             /\ Z!Replayed(since)[n + 1] \in {Z!Frame("end", 0), Z!Frame("truncated", 0)}
             /\ ~apart =>
                  /\ \A i \in 1..n : ring[Len(ring) - n + i] > since
                  /\ \/ Z!Replayed(since)[n + 1] = Z!Frame("truncated", 0)
                     \/ \A m \in 1..stamp : m > since => \E i \in 1..n : ring[Len(ring) - n + i] = m
<1> DEFINE L == Len(ring)
           newer == {i \in DOMAIN ring : count - L + i > since}
           n == Cardinality(newer)
           low == since - count + L + 1
           lo == IF low < 1 THEN 1 ELSE low
           missed == SubSeq(ring, L - n + 1, L)
           msgs == [i \in DOMAIN missed |-> Z!Frame("msg", missed[i])]
           gone == ring # <<>> /\ count - L + 1 > since + 1
           mark == Z!Frame(IF gone THEN "truncated" ELSE "end", 0)
<1>1. /\ stamp \in 0..MaxStamps /\ count \in 0..stamp /\ ring \in Seq(1..stamp)
      /\ L \in Nat /\ DOMAIN ring = 1..L
  BY ResumeTypes, LenProperties DEF ResumeInv
<1>2. newer = lo..L
  <2>1. ASSUME NEW i \in Int PROVE i \in newer <=> i \in lo..L
    BY <1>1, ResumeTypes
  <2>2. newer \subseteq Int /\ lo..L \subseteq Int
    BY <1>1
  <2> HIDE DEF newer, lo, L
  <2> QED
    BY <2>1, <2>2
<1>3. lo \in Int /\ lo >= 1 /\ (lo = 1 \/ lo = low) /\ low \in Int /\ lo >= low
  BY <1>1, ResumeTypes
<1>4. n = (IF lo <= L THEN L - lo + 1 ELSE 0) /\ n \in 0..L
  <2>1. Cardinality(lo..L) = IF lo <= L THEN L - lo + 1 ELSE 0
    <3>1. \A a, b \in Int : Cardinality(a..b) = IF a <= b THEN b - a + 1 ELSE 0
      BY FS_Interval
    <3> HIDE DEF lo, L
    <3> QED
      BY <1>1, <1>3, <3>1
  <2> HIDE DEF newer, lo, L
  <2> QED
    BY <1>1, <1>2, <1>3, <2>1
<1>5. Z!Replayed(since) = msgs \o <<mark>>
  <2>1. Z!Cardinality(newer) = n
    BY DEF Z!Cardinality, Cardinality
  <2>2. Z!Missed(since) = missed
    BY <2>1 DEF Z!Missed, Z!SeqAt
  <2> HIDE DEF missed
  <2> QED
    BY <2>2 DEF Z!Replayed, Z!SeqAt
<1> HIDE DEF newer, lo, n, L, gone
<1>6. /\ missed \in Seq(1..stamp) /\ Len(missed) = n
      /\ \A i \in 1..n : missed[i] = ring[L - n + i]
  <2>1. \A i \in (L - n + 1)..L : ring[i] \in 1..stamp
    BY <1>1, <1>4, ElementOfSeq
  <2>2. L - n + 1 \in Int /\ L \in Int
    BY <1>1, <1>4
  <2>3. /\ missed \in Seq(1..stamp)
        /\ Len(missed) = IF L - n + 1 <= L THEN L - (L - n + 1) + 1 ELSE 0
        /\ \A i \in 1..(L - (L - n + 1) + 1) : missed[i] = ring[L - n + 1 + i - 1]
    BY <2>1, <2>2, SubSeqProperties
  <2>4. L - (L - n + 1) + 1 = n /\ (L - n + 1 <= L <=> n > 0)
    BY <1>1, <1>4
  <2>5. \A i \in 1..n : L - n + 1 + i - 1 = L - n + i
    BY <1>1, <1>4
  <2> HIDE DEF missed
  <2> QED
    BY <1>4, <2>3, <2>4, <2>5
<1> HIDE DEF missed
<1>7. /\ msgs \in Seq(FrameSet) /\ Len(msgs) = n
      /\ \A i \in 1..n : msgs[i] = Z!Frame("msg", ring[L - n + i])
  <2>1. DOMAIN missed = 1..n /\ \A i \in 1..n : missed[i] \in 0..MaxStamps
    BY <1>1, <1>4, <1>6, LenProperties, ElementOfSeq, ResumeTypes
  <2>2. \A i \in 1..n : Z!Frame("msg", missed[i]) \in FrameSet
    BY <2>1, ResumeTypes DEF Kinds
  <2>3. msgs \in [1..n -> FrameSet]
    BY <2>1, <2>2
  <2> QED
    BY <1>4, <1>6, <2>1, <2>3
<1>8. mark \in FrameSet /\ mark \in {Z!Frame("end", 0), Z!Frame("truncated", 0)}
      /\ (gone => mark = Z!Frame("truncated", 0))
  BY <1>1, ResumeTypes DEF Kinds
<1> HIDE DEF msgs, mark
<1>9. /\ Z!Replayed(since) \in Seq(FrameSet) /\ Len(Z!Replayed(since)) = n + 1
      /\ \A i \in 1..n : Z!Replayed(since)[i] = msgs[i]
      /\ Z!Replayed(since)[n + 1] = mark
  <2>1. Z!Replayed(since) = Append(msgs, mark)
    BY <1>5, <1>7, <1>8, AppendIsConcat
  <2> QED
    BY <1>4, <1>7, <1>8, <2>1, AppendProperties
<1>10. \A i \in 1..n : L - n + i \in 1..L /\ L - n + i >= lo
  BY <1>1, <1>3, <1>4
<1>11. ASSUME ~apart
       PROVE  /\ \A i \in 1..n : ring[L - n + i] > since
              /\ mark = Z!Frame("truncated", 0)
                 \/ \A m \in 1..stamp : m > since => \E i \in 1..n : ring[L - n + i] = m
  <2>1. /\ count = stamp /\ (stamp > 0 => ring # <<>>)
        /\ \A i \in 1..L : ring[i] = stamp - L + i
    BY <1>1, <1>11 DEF ResumeInv, Numbered, L
  <2>2. \A i \in 1..n : ring[L - n + i] > since
    <3> TAKE i \in 1..n
    <3>1. ring[L - n + i] = stamp - L + (L - n + i) /\ L - n + i >= low
      BY <1>1, <1>3, <1>4, <1>10, <2>1
    <3> QED
      BY <1>1, <1>4, <2>1, <3>1, ResumeTypes
  <2>3. CASE ~gone
    <3> SUFFICES ASSUME NEW m \in 1..stamp, m > since PROVE \E i \in 1..n : ring[L - n + i] = m
      BY <2>2
    <3>1. ring # <<>> /\ stamp - L + 1 <= since + 1
      BY <1>1, <2>1, <2>3, ResumeTypes DEF gone
    <3>2. m - stamp + L \in 1..L /\ m - stamp + L >= low /\ m - stamp + L >= lo
      BY <1>1, <1>3, <2>1, <3>1, ResumeTypes
    <3>3. lo <= L /\ n = L - lo + 1
      BY <1>1, <1>3, <1>4, <3>2
    <3>4. m - stamp + n \in 1..n /\ L - n + (m - stamp + n) = m - stamp + L
      BY <1>1, <1>3, <1>4, <3>2, <3>3, ResumeTypes
    <3>5. ring[m - stamp + L] = m
      BY <1>1, <2>1, <3>2, ResumeTypes
    <3> QED
      BY <3>4, <3>5
  <2> QED
    BY <1>8, <2>2, <2>3
<1> QED
  BY <1>1, <1>4, <1>7, <1>8, <1>9, <1>10, <1>11 DEF L

LEMMA ResumeInitHolds == Z!Init => ResumeInv
<1> SUFFICES ASSUME Z!Init PROVE ResumeInv
  OBVIOUS
<1>1. Z!ResumeTypeOK
  <2>1. MaxStamps \in Nat /\ MaxLost \in Nat /\ Capacity \in Nat \ {0} /\ Z!NotRunning = -1
    BY ResumeTypes
  <2>2. /\ stamp \in 0..MaxStamps /\ count \in 0..stamp /\ losses \in 0..MaxLost
        /\ hooked \in Z!NotRunning..MaxStamps /\ lastSeen \in 0..MaxStamps
    BY <2>1 DEF Z!Init
  <2>3. ring \in Seq(1..stamp) /\ Len(ring) <= Capacity /\ got \in Seq(1..MaxStamps)
    BY <2>1, EmptySeq DEF Z!Init
  <2>4. /\ toServer \in Seq([kind: {"resume", "subscribe"}, id: 0..MaxStamps])
        /\ toClient \in Seq([kind: {"welcome", "live", "msg", "end", "truncated"}, id: 0..MaxStamps])
    BY EmptySeq DEF Z!Init
  <2> QED
    BY <2>2, <2>3, <2>4 DEF Z!Init, Z!ResumeTypeOK
<1>2. InOrder(ring) /\ Numbered /\ Carries
  BY DEF Z!Init, InOrder, Numbered, Carries
<1>3. ~Presents
  BY DEF Z!Init, Presents
<1>4. Talks /\ Orderly
  BY <1>3 DEF Z!Init, Talks, Orderly, InOrder
<1>5. Filled
  BY DEF Z!Init, Filled
<1> QED
  BY <1>1, <1>2, <1>4, <1>5 DEF ResumeInv

\* What a publish leaves in the buffer.
LEMMA RingAfterPublish ==
    ASSUME ResumeInv, NEW toBuffer \in BOOLEAN, Z!Publish(toBuffer)
    PROVE  /\ stamp' \in 0..MaxStamps /\ count' \in 0..stamp'
           /\ ring' \in Seq(1..stamp') /\ Len(ring') <= Capacity
           /\ InOrder(ring)' /\ Numbered'
<1> DEFINE L == Len(ring)
           all == Append(ring, stamp')
<1>1. /\ stamp \in 0..MaxStamps /\ count \in 0..stamp /\ ring \in Seq(1..stamp)
      /\ L \in Nat /\ DOMAIN ring = 1..L /\ L <= Capacity /\ Capacity \in Nat \ {0} /\ MaxStamps \in Nat
      /\ stamp < MaxStamps /\ stamp' = stamp + 1
  BY ResumeTypes, LenProperties DEF ResumeInv, Z!Publish
<1>2. stamp' \in 0..MaxStamps /\ stamp' \in Nat
  BY <1>1
<1>3. ring \in Seq(1..stamp')
  <2>1. 1..stamp \subseteq 1..stamp'
    BY <1>1
  <2>2. \A i \in 1..L : ring[i] \in 1..stamp'
    BY <1>1, <2>1, ElementOfSeq
  <2>3. ring = [i \in 1..L |-> ring[i]]
    BY <1>1
  <2> HIDE DEF L
  <2> QED
    BY <1>1, <2>2, <2>3
<1>4. CASE ~toBuffer
  <2>1. count' = count /\ ring' = ring /\ apart' = (apart \/ count # stamp')
    BY <1>4 DEF Z!Publish
  <2>2. count # stamp'
    BY <1>1
  <2>3. apart'
    BY <2>1, <2>2, Zenon
  <2> QED
    BY <1>1, <1>2, <1>3, <2>1, <2>3 DEF ResumeInv, InOrder, Numbered
<1>5. CASE toBuffer
  <2>1. /\ count' = count + 1 /\ ring' = (IF Len(all) > Capacity THEN Tail(all) ELSE all)
        /\ apart' = (apart \/ count' # stamp')
    BY <1>5 DEF Z!Publish
  <2>2. /\ all \in Seq(1..stamp') /\ all # <<>> /\ Len(all) = L + 1
        /\ \A i \in 1..L : all[i] = ring[i]
        /\ all[L + 1] = stamp'
    <3>1. ring \in Seq(1..stamp') /\ stamp' \in 1..stamp'
      BY <1>1, <1>2, <1>3
    <3> QED
      BY <3>1, AppendProperties
  <2>3. \A i \in 1..L : ring[i] \in 1..stamp
    BY <1>1, ElementOfSeq
  <2>4. \A i, j \in 1..(L + 1) : i < j => all[i] < all[j]
    <3> TAKE i, j \in 1..(L + 1)
    <3> HAVE i < j
    <3>1. i \in 1..L
      BY <1>1
    <3>2. CASE j = L + 1
      BY <1>1, <2>2, <2>3, <3>1, <3>2
    <3>3. CASE j # L + 1
      <4>1. j \in 1..L
        BY <1>1, <3>3
      <4> QED
        BY <1>1, <2>2, <3>1, <4>1 DEF ResumeInv, InOrder
    <3> QED
      BY <3>2, <3>3
  <2>5. ~apart' => /\ ~apart /\ count' = stamp'
                   /\ \A i \in 1..(L + 1) : all[i] = stamp' - (L + 1) + i
    <3> SUFFICES ASSUME ~apart', NEW i \in 1..(L + 1) PROVE all[i] = stamp' - (L + 1) + i
      BY <2>1
    <3>1. \A k \in 1..L : ring[k] = stamp - L + k
      BY <1>1, <2>1 DEF ResumeInv, Numbered
    <3>2. i = L + 1 \/ i \in 1..L
      BY <1>1
    <3> QED
      BY <1>1, <2>2, <3>1, <3>2
  <2>6. count' \in 0..stamp'
    BY <1>1, <2>1
  <2> HIDE DEF all, L
  <2>7. CASE ~(Len(all) > Capacity)
    <3>1. ring' = all /\ DOMAIN ring' = 1..(L + 1)
      BY <2>1, <2>2, <2>7, LenProperties
    <3>2. InOrder(ring)'
      BY <2>4, <3>1 DEF InOrder
    <3>3. Numbered'
      BY <2>2, <2>5, <3>1 DEF Numbered
    <3> QED
      BY <1>1, <1>2, <2>2, <2>6, <2>7, <3>1, <3>2, <3>3
  <2>8. CASE Len(all) > Capacity
    <3>1. ring' = Tail(all)
      BY <2>1, <2>8
    <3>2. /\ ring' \in Seq(1..stamp') /\ Len(ring') = L
          /\ \A i \in 1..L : ring'[i] = all[i + 1]
      BY <1>1, <2>2, <3>1, HeadTailProperties
    <3>3. DOMAIN ring' = 1..L /\ L >= 1
      BY <1>1, <2>2, <2>8, <3>2, LenProperties
    <3>4. InOrder(ring)'
      <4>1. \A i, j \in 1..L : i < j => ring'[i] < ring'[j]
        <5> TAKE i, j \in 1..L
        <5> HAVE i < j
        <5>1. i + 1 \in 1..(L + 1) /\ j + 1 \in 1..(L + 1) /\ i + 1 < j + 1
          BY <1>1, <3>3
        <5>2. all[i + 1] < all[j + 1]
          BY <2>4, <5>1
        <5> QED
          BY <3>2, <5>2
      <4> QED
        BY <3>3, <4>1 DEF InOrder
    <3>5. Numbered'
      <4>1. ring' # <<>>
        BY <3>2, <3>3, EmptySeq
      <4>2. ~apart' => \A i \in 1..L : ring'[i] = stamp' - L + i
        <5> SUFFICES ASSUME ~apart', NEW i \in 1..L PROVE ring'[i] = stamp' - L + i
          OBVIOUS
        <5>1. i + 1 \in 1..(L + 1) /\ stamp' - (L + 1) + (i + 1) = stamp' - L + i
          BY <1>1, <1>2
        <5>2. all[i + 1] = stamp' - (L + 1) + (i + 1)
          BY <2>5, <5>1
        <5> QED
          BY <3>2, <5>1, <5>2
      <4> QED
        BY <2>5, <3>2, <3>3, <4>1, <4>2 DEF Numbered
    <3> QED
      BY <1>1, <1>2, <2>6, <3>2, <3>4, <3>5
  <2> QED
    BY <2>7, <2>8
<1> QED
  BY <1>4, <1>5

LEMMA ResumePublishKeeps ==
    ASSUME ResumeInv, NEW toBuffer \in BOOLEAN, Z!Publish(toBuffer)
    PROVE  ResumeInv'
<1> DEFINE n == Len(toClient)
           live == Z!Frame("live", stamp')
<1>1. /\ stamp < MaxStamps /\ stamp' = stamp + 1
      /\ apart => apart'
      /\ toClient' = (IF joined THEN Append(toClient, live) ELSE toClient)
      /\ owed' = (IF joined \/ Z!Resuming THEN owed \cup {stamp'} ELSE owed)
      /\ UNCHANGED <<slowHook, hooked, online, joined, toServer, session, lastSeen, got, had, losses>>
      /\ apart' \in BOOLEAN
  <2>1. apart' = (apart \/ count' # stamp') /\ apart \in BOOLEAN
    BY DEF Z!Publish, ResumeInv, Z!ResumeTypeOK
  <2> QED
    BY <2>1 DEF Z!Publish, Z!client
<1>2. /\ stamp \in 0..MaxStamps /\ MaxStamps \in Nat
      /\ toClient \in Seq(FrameSet) /\ got \in Seq(1..MaxStamps) /\ n \in Nat /\ DOMAIN toClient = 1..n
      /\ had \cup owed \subseteq 1..MaxStamps /\ lastSeen \in 0..MaxStamps /\ hooked \in -1..MaxStamps
      /\ \A i \in 1..n : toClient[i] \in FrameSet
  BY ResumeTypes, ElementOfSeq DEF ResumeInv
<1>3. /\ stamp' \in 0..MaxStamps /\ count' \in 0..stamp'
      /\ ring' \in Seq(1..stamp') /\ Len(ring') <= Capacity
      /\ InOrder(ring)' /\ Numbered'
  BY RingAfterPublish
<1>4. live \in FrameSet /\ live.kind = "live" /\ live.id = stamp' /\ stamp' > 0
  BY <1>1, <1>2, <1>3, ResumeTypes DEF Kinds
<1>5. Carries /\ Talks /\ Orderly /\ Filled /\ Z!ResumeTypeOK
  BY DEF ResumeInv
<1> HIDE DEF live, n
<1>6. /\ toClient' \in Seq(FrameSet)
      /\ \A i \in 1..n : i \in DOMAIN toClient' /\ toClient'[i] = toClient[i]
      /\ \A i \in DOMAIN toClient' : i \in 1..n \/ (i = n + 1 /\ joined /\ toClient'[i] = live)
      /\ joined => n + 1 \in DOMAIN toClient' /\ toClient'[n + 1] = live
  <2>1. CASE joined
    <3>1. toClient' = Append(toClient, live)
      BY <1>1, <2>1
    <3>2. /\ toClient' \in Seq(FrameSet) /\ Len(toClient') = n + 1
          /\ \A i \in 1..n : toClient'[i] = toClient[i]
          /\ toClient'[n + 1] = live
      BY <1>2, <1>4, <3>1, AppendProperties DEF n
    <3>3. DOMAIN toClient' = 1..(n + 1)
      BY <3>2, LenProperties
    <3> QED
      BY <1>2, <2>1, <3>2, <3>3
  <2>2. CASE ~joined
    BY <1>1, <1>2, <2>2
  <2> QED
    BY <2>1, <2>2
<1>7. Z!ResumeTypeOK'
  <2>1. had' \cup owed' \subseteq 1..MaxStamps
    BY <1>1, <1>2, <1>3, <1>4
  <2> QED
    BY <1>1, <1>3, <1>5, <1>6, <2>1, ResumeTypes DEF Z!ResumeTypeOK, FrameSet, Kinds
<1>8. Carries'
  <2>1. ASSUME NEW i \in DOMAIN toClient'
        PROVE  /\ toClient'[i].id > 0 <=> toClient'[i].kind \in {"live", "msg"}
               /\ toClient'[i].id <= stamp'
    <3>1. CASE i \in 1..n
      <4>1. toClient'[i] = toClient[i] /\ toClient[i].id \in 0..MaxStamps
        BY <1>2, <1>6, <3>1 DEF FrameSet
      <4> QED
        BY <1>1, <1>2, <1>5, <3>1, <4>1 DEF Carries
    <3>2. CASE i \notin 1..n
      BY <1>2, <1>3, <1>4, <1>6, <3>2
    <3> QED
      BY <3>1, <3>2
  <2>2. \A i \in DOMAIN got : got[i] <= stamp'
    <3> TAKE i \in DOMAIN got
    <3>1. got[i] <= stamp /\ got[i] \in Int
      BY <1>2, <1>5, ElementOfSeq, LenProperties DEF Carries
    <3> QED
      BY <1>1, <1>2, <3>1
  <2>3. owed' \subseteq 1..stamp' /\ lastSeen <= stamp'
    BY <1>1, <1>2, <1>5 DEF Carries
  <2> QED
    BY <1>1, <2>1, <2>2, <2>3 DEF Carries
<1>9. Presents' <=> Presents
  BY <1>1 DEF Presents
<1>10. joined => ~Presents /\ online
  BY <1>5 DEF Talks, Presents
<1>11. Talks'
  <2>1. Z!Resumable' <=> Z!Resumable
    BY <1>1 DEF Z!Resumable
  <2>2. ~joined => toClient' = toClient
    BY <1>1
  <2> QED
    BY <1>1, <1>5, <1>9, <1>10, <2>1, <2>2 DEF Talks
<1>12. Orderly'
  <2> SUFFICES ASSUME ~slowHook PROVE Orderly'
    BY <1>1 DEF Orderly
  <2>1. /\ hooked = Z!NotRunning /\ InOrder(got)
        /\ \A i \in DOMAIN got, j \in DOMAIN toClient : toClient[j].id > 0 => got[i] < toClient[j].id
        /\ \A i, j \in DOMAIN toClient :
             i < j /\ toClient[i].id > 0 /\ toClient[j].id > 0 => toClient[i].id < toClient[j].id
        /\ \A i, j \in DOMAIN toClient :
             toClient[i].kind = "live" /\ toClient[j].kind = "truncated" => j < i
    BY <1>5 DEF Orderly
  <2>2. \A i \in DOMAIN got : got[i] \in Int /\ got[i] <= stamp
    BY <1>2, <1>5, ElementOfSeq, LenProperties DEF Carries
  <2>3. \A i \in 1..n : toClient[i].id \in Int /\ toClient[i].id <= stamp
    BY <1>2, <1>5 DEF Carries, FrameSet
  <2>4. ASSUME NEW i \in DOMAIN got, NEW j \in DOMAIN toClient', toClient'[j].id > 0
        PROVE  got[i] < toClient'[j].id
    <3>1. CASE j \in 1..n
      <4>1. toClient'[j] = toClient[j] /\ j \in DOMAIN toClient
        BY <1>2, <1>6, <3>1
      <4> QED
        BY <2>1, <2>4, <4>1
    <3>2. CASE j \notin 1..n
      <4>1. toClient'[j].id = stamp'
        BY <1>2, <1>4, <1>6, <3>2
      <4>2. got[i] \in Int /\ got[i] <= stamp
        BY <2>2
      <4> QED
        BY <1>1, <1>2, <4>1, <4>2
    <3> QED
      BY <3>1, <3>2
  <2>5. ASSUME NEW i \in DOMAIN toClient', NEW j \in DOMAIN toClient', i < j,
               toClient'[i].id > 0, toClient'[j].id > 0
        PROVE  toClient'[i].id < toClient'[j].id
    <3>1. i \in 1..n
      BY <1>2, <1>6, <2>5
    <3>2. CASE j \in 1..n
      BY <1>2, <1>6, <2>1, <2>5, <3>1, <3>2
    <3>3. CASE j \notin 1..n
      BY <1>1, <1>2, <1>4, <1>6, <2>3, <3>1, <3>3
    <3> QED
      BY <3>2, <3>3
  <2>6. ASSUME NEW i \in DOMAIN toClient', NEW j \in DOMAIN toClient',
               toClient'[i].kind = "live", toClient'[j].kind = "truncated"
        PROVE  j < i
    <3>1. j \in 1..n
      BY <1>4, <1>6, <2>6
    <3> QED
      BY <1>2, <1>6, <2>1, <2>6, <3>1
  <2> QED
    BY <1>1, <2>1, <2>4, <2>5, <2>6 DEF Orderly, InOrder
<1>13. Filled'
  <2> SUFFICES ASSUME ~slowHook, ~apart' PROVE Filled'
    BY <1>1 DEF Filled
  <2>1. /\ \A i \in DOMAIN toClient : toClient[i].id > 0 => toClient[i].id > lastSeen
        /\ \A m \in owed : Had(m) \/ m > lastSeen
        /\ Admitted \/ \A m \in owed : Had(m) \/ Comes(m) \/ (Z!Resuming /\ m > lastSeen)
    BY <1>1, <1>5 DEF Filled
  <2>2. stamp' > lastSeen
    BY <1>1, <1>2, <1>5 DEF Carries
  <2>3. \A m : Had(m)' <=> Had(m)
    BY <1>1 DEF Had
  <2>4. Z!Resuming' <=> Z!Resuming
    BY <1>1 DEF Z!Resuming, Z!Resumable
  <2>5. \A m : Comes(m) => Comes(m)'
    BY <1>2, <1>6 DEF Comes
  <2>6. Admitted => Admitted'
    BY <1>2, <1>6 DEF Admitted
  <2>7. \A m : joined /\ m = stamp' => Comes(m)'
    BY <1>4, <1>6 DEF Comes
  <2>8. \A i \in DOMAIN toClient' : toClient'[i].id > 0 => toClient'[i].id > lastSeen
    BY <1>2, <1>4, <1>6, <2>1, <2>2
  <2>9. \A m \in owed' : m \in owed \/ (m = stamp' /\ (joined \/ Z!Resuming))
    BY <1>1
  <2>10. \A m \in owed' : Had(m)' \/ m > lastSeen
    BY <2>1, <2>2, <2>3, <2>9
  <2>11. Admitted' \/ \A m \in owed' : Had(m)' \/ Comes(m)' \/ (Z!Resuming' /\ m > lastSeen)
    BY <2>1, <2>2, <2>3, <2>4, <2>5, <2>6, <2>7, <2>9
  <2> QED
    BY <1>1, <2>8, <2>10, <2>11 DEF Filled
<1> QED
  BY <1>3, <1>7, <1>8, <1>11, <1>12, <1>13 DEF ResumeInv

\* What the server has not handled yet of what the client said.
LEMMA UpFrames ==
    /\ Presents => /\ toServer # <<>> /\ Head(toServer).kind = "resume" /\ Head(toServer).id = lastSeen
                   /\ Tail(toServer) = <<Z!Frame("subscribe", 0)>>
                   /\ 1 \in DOMAIN toServer /\ toServer[1].kind = "resume"
    /\ toServer = <<Z!Frame("subscribe", 0)>> =>
         /\ toServer # <<>> /\ Head(toServer).kind = "subscribe" /\ Tail(toServer) = <<>>
         /\ \A i \in DOMAIN toServer : toServer[i].kind # "resume"
    /\ \A id : <<Z!Frame("subscribe", 0)>> # <<Z!Frame("resume", id), Z!Frame("subscribe", 0)>>
    /\ \A id : <<>> # <<Z!Frame("resume", id), Z!Frame("subscribe", 0)>>
<1> DEFINE s == Z!Frame("subscribe", 0)
           r(id) == Z!Frame("resume", id)
<1>1. s.kind = "subscribe" /\ \A id : r(id).kind = "resume" /\ r(id).id = id
  BY DEF Z!Frame
<1> HIDE DEF s, r
<1>2. \A id : /\ Head(<<r(id), s>>) = r(id) /\ Tail(<<r(id), s>>) = <<s>> /\ <<r(id), s>> # <<>>
              /\ <<s>> # <<r(id), s>> /\ 1 \in DOMAIN <<r(id), s>> /\ <<r(id), s>>[1] = r(id)
  OBVIOUS
<1>3. Head(<<s>>) = s /\ Tail(<<s>>) = <<>> /\ <<s>> # <<>> /\ \A i \in DOMAIN <<s>> : <<s>>[i] = s
  OBVIOUS
<1>4. Presents => toServer = <<r(lastSeen), s>>
  BY DEF Presents, r, s
<1>5. \A id : <<s>> # <<r(id), s>> /\ <<>> # <<r(id), s>>
  BY <1>2
<1>6. Presents => /\ toServer # <<>> /\ Head(toServer).kind = "resume" /\ Head(toServer).id = lastSeen
                  /\ Tail(toServer) = <<s>>
                  /\ 1 \in DOMAIN toServer /\ toServer[1].kind = "resume"
  <2> SUFFICES ASSUME Presents
               PROVE  /\ toServer # <<>> /\ Head(toServer) = r(lastSeen) /\ Tail(toServer) = <<s>>
                      /\ 1 \in DOMAIN toServer /\ toServer[1] = r(lastSeen)
    BY <1>1
  <2> QED
    BY <1>2, <1>4
<1>7. toServer = <<s>> =>
         /\ toServer # <<>> /\ Head(toServer).kind = "subscribe" /\ Tail(toServer) = <<>>
         /\ \A i \in DOMAIN toServer : toServer[i].kind # "resume"
  BY <1>1, <1>3
<1> QED
  BY <1>5, <1>6, <1>7 DEF r, s

\* A client that resumes has lost its connection, or the hook runs, or the
\* resume frame is on its way.
LEMMA ResumingMeans ==
    ASSUME ResumeInv, Z!Resuming, hooked = Z!NotRunning, online
    PROVE  Presents
BY UpFrames DEF ResumeInv, Talks, Z!Resuming

\* after is what there is to receive once since was answered with n messages.
Answered(after, since, n) ==
    /\ after \in Seq(FrameSet) /\ DOMAIN after = 1..(Len(toClient) + n + 1)
    /\ \A i \in 1..Len(toClient) : after[i] = toClient[i]
    /\ \A i \in 1..n : /\ after[Len(toClient) + i] = Z!Frame("msg", ring[Len(ring) - n + i])
                       /\ Len(ring) - n + i \in DOMAIN ring
    /\ after[Len(toClient) + n + 1] \in {Z!Frame("end", 0), Z!Frame("truncated", 0)}
    /\ ~apart =>
         /\ \A i \in 1..n : ring[Len(ring) - n + i] > since
         /\ \/ after[Len(toClient) + n + 1] = Z!Frame("truncated", 0)
            \/ \A m \in 1..stamp : m > since => \E i \in 1..n : ring[Len(ring) - n + i] = m

LEMMA AnswerSent ==
    ASSUME ResumeInv, NEW since \in Nat, NEW after, after = toClient \o Z!Replayed(since)
    PROVE  \E n \in 0..Len(ring) : Answered(after, since, n)
<1> DEFINE N == Len(toClient)
           more == Z!Replayed(since)
<1>1. toClient \in Seq(FrameSet) /\ N \in Nat /\ Len(ring) \in Nat
  BY ResumeTypes DEF ResumeInv
<1>2. PICK n \in 0..Len(ring) :
             /\ more \in Seq(FrameSet) /\ Len(more) = n + 1
             /\ \A i \in 1..n : /\ more[i] = Z!Frame("msg", ring[Len(ring) - n + i])
                                /\ Len(ring) - n + i \in DOMAIN ring
             /\ more[n + 1] \in {Z!Frame("end", 0), Z!Frame("truncated", 0)}
             /\ ~apart =>
                  /\ \A i \in 1..n : ring[Len(ring) - n + i] > since
                  /\ \/ more[n + 1] = Z!Frame("truncated", 0)
                     \/ \A m \in 1..stamp : m > since => \E i \in 1..n : ring[Len(ring) - n + i] = m
  BY ReplayedShape
<1> HIDE DEF N, more
<1>3. /\ after \in Seq(FrameSet) /\ Len(after) = N + Len(more)
      /\ \A i \in 1..(N + Len(more)) : after[i] = IF i <= N THEN toClient[i] ELSE more[i - N]
  BY <1>1, <1>2, ConcatProperties DEF N, more
<1>4. DOMAIN after = 1..(N + n + 1)
  BY <1>1, <1>2, <1>3, LenProperties
<1>5. \A i \in 1..N : after[i] = toClient[i]
  BY <1>1, <1>2, <1>3
<1>6. ASSUME NEW i \in 1..(n + 1) PROVE after[N + i] = more[i]
  <2> DEFINE j == N + i
  <2>1. j \in 1..(N + Len(more)) /\ ~(j <= N) /\ j - N = i
    BY <1>1, <1>2
  <2>2. after[j] = IF j <= N THEN toClient[j] ELSE more[j - N]
    <3> HIDE DEF j
    <3> QED
      BY <1>3, <2>1
  <2> QED
    BY <2>1, <2>2
<1>7. \A i \in 1..n : after[N + i] = more[i]
  <2>1. \A i \in 1..n : i \in 1..(n + 1)
    BY <1>2
  <2> QED
    BY <1>6, <2>1
<1>8. after[N + n + 1] = more[n + 1]
  <2>1. n + 1 \in 1..(n + 1) /\ N + (n + 1) = N + n + 1
    BY <1>1, <1>2
  <2> QED
    BY <1>6, <2>1
<1> QED
  BY <1>2, <1>3, <1>4, <1>5, <1>7, <1>8 DEF N, Answered

LEMMA ForgetKeeps ==
    ASSUME ResumeInv, Z!Forget
    PROVE  ResumeInv'
<1>1. /\ count' = 0 /\ ring' = <<>> /\ apart' = TRUE
      /\ UNCHANGED <<stamp, slowHook, hooked, online, joined, toServer, toClient, session, lastSeen,
                     got, had, owed, losses>>
  BY DEF Z!Forget, Z!client
<1>2. Z!ResumeTypeOK'
  <2>1. ring' \in Seq(1..stamp') /\ Len(ring') <= Capacity /\ count' \in 0..stamp'
    BY <1>1, EmptySeq, ResumeTypes DEF ResumeInv
  <2> QED
    BY <1>1, <2>1 DEF ResumeInv, Z!ResumeTypeOK
<1>3. InOrder(ring)' /\ Numbered' /\ Filled'
  BY <1>1 DEF InOrder, Numbered, Filled
<1>4. Carries' /\ Orderly'
  BY <1>1 DEF ResumeInv, Carries, Orderly, InOrder
<1>5. Talks'
  BY <1>1 DEF ResumeInv, Talks, Presents, Z!Resumable
<1> QED
  BY <1>2, <1>3, <1>4, <1>5 DEF ResumeInv

\* The frames of an answer carry what the buffer held.
LEMMA AnswerCarries ==
    ASSUME ResumeInv, NEW since \in Nat, toClient' = toClient \o Z!Replayed(since),
           UNCHANGED <<stamp, got, owed, lastSeen>>
    PROVE  Carries' /\ toClient' \in Seq(FrameSet)
<1> DEFINE N == Len(toClient)
<1>0. PICK n \in 0..Len(ring) : Answered(toClient', since, n)
  BY AnswerSent
<1>1. /\ n \in 0..Len(ring)
      /\ toClient' \in Seq(FrameSet) /\ DOMAIN toClient' = 1..(N + n + 1)
      /\ \A i \in 1..N : toClient'[i] = toClient[i]
      /\ \A i \in 1..n : /\ toClient'[N + i] = Z!Frame("msg", ring[Len(ring) - n + i])
                         /\ Len(ring) - n + i \in DOMAIN ring
      /\ toClient'[N + n + 1] \in {Z!Frame("end", 0), Z!Frame("truncated", 0)}
  BY <1>0 DEF Answered
<1>2. /\ ring \in Seq(1..stamp) /\ stamp \in Nat /\ N \in Nat /\ DOMAIN toClient = 1..N
      /\ Len(ring) \in Nat /\ DOMAIN ring = 1..Len(ring)
  BY ResumeTypes, LenProperties DEF ResumeInv
<1>3. \A i \in DOMAIN ring : ring[i] \in 1..stamp
  BY <1>2, ElementOfSeq
<1> HIDE DEF N
<1>4. ASSUME NEW i \in DOMAIN toClient'
      PROVE  /\ toClient'[i].id > 0 <=> toClient'[i].kind \in {"live", "msg"}
             /\ toClient'[i].id <= stamp
  <2>1. CASE i \in 1..N
    BY <1>1, <1>2, <2>1 DEF ResumeInv, Carries
  <2>2. CASE i = N + n + 1
    BY <1>1, <1>2, <2>2, ResumeTypes
  <2>3. CASE i \notin 1..N /\ i # N + n + 1
    <3>0. i \in 1..(N + n + 1) /\ n \in Nat /\ N \in Nat
      BY <1>1, <1>2
    <3>1. i - N \in 1..n /\ i = N + (i - N)
      <4>1. \A a, b \in Nat : \A c \in 1..(a + b + 1) :
              c \notin 1..a /\ c # a + b + 1 => c - a \in 1..b /\ c = a + (c - a)
        OBVIOUS
      <4> QED
        BY <2>3, <3>0, <4>1
    <3>2. toClient'[i] = Z!Frame("msg", ring[Len(ring) - n + (i - N)])
          /\ Len(ring) - n + (i - N) \in DOMAIN ring
      <4> DEFINE k == i - N
      <4>1. k \in 1..n /\ i = N + k
        BY <3>1
      <4> HIDE DEF k
      <4>2. toClient'[N + k] = Z!Frame("msg", ring[Len(ring) - n + k]) /\ Len(ring) - n + k \in DOMAIN ring
        BY <1>1, <4>1
      <4> QED
        BY <4>1, <4>2 DEF k
    <3>3. ring[Len(ring) - n + (i - N)] \in 1..stamp
      BY <1>3, <3>2
    <3> QED
      BY <1>2, <3>2, <3>3, ResumeTypes
  <2> QED
    BY <2>1, <2>2, <2>3
<1> QED
  BY <1>1, <1>4 DEF ResumeInv, Carries

LEMMA ServeResumeKeeps ==
    ASSUME ResumeInv, Z!ServeResume
    PROVE  ResumeInv'
<1> DEFINE N == Len(toClient)
<1>1. /\ toServer # <<>> /\ Head(toServer).kind = "resume" /\ toServer' = Tail(toServer)
      /\ UNCHANGED <<stamp, count, ring, slowHook, online, joined, session, lastSeen, got, had, owed,
                     apart, losses>>
      /\ slowHook => hooked' = Head(toServer).id /\ toClient' = toClient
      /\ ~slowHook => toClient' = toClient \o Z!Replayed(Head(toServer).id) /\ hooked' = hooked
  BY DEF Z!ServeResume, Z!server, Z!client, Z!history
<1>2. Presents
  BY <1>1, UpFrames DEF ResumeInv, Talks
<1>3. /\ Head(toServer).id = lastSeen /\ toServer' = <<Z!Frame("subscribe", 0)>> /\ ~Presents'
      /\ online /\ ~joined /\ Z!Resumable /\ got = <<>> /\ hooked = Z!NotRunning
      /\ \A i \in DOMAIN toClient : toClient[i].kind = "welcome"
  BY <1>1, <1>2, UpFrames DEF ResumeInv, Talks, Presents
<1>4. /\ lastSeen \in 0..MaxStamps /\ MaxStamps \in Nat /\ stamp \in Nat /\ N \in Nat
      /\ DOMAIN toClient = 1..N /\ toClient \in Seq(FrameSet)
      /\ ring \in Seq(1..stamp) /\ Len(ring) \in Nat /\ DOMAIN ring = 1..Len(ring)
  BY ResumeTypes, LenProperties DEF ResumeInv
<1>5. toClient' \in Seq(FrameSet) /\ Carries'
  <2>1. CASE slowHook
    BY <1>1, <1>4, <2>1 DEF ResumeInv, Carries
  <2>2. CASE ~slowHook
    <3>1. toClient' = toClient \o Z!Replayed(lastSeen)
      BY <1>1, <1>3, <2>2, Zenon
    <3>2. lastSeen \in Nat
      BY <1>4
    <3> QED
      BY <1>1, <3>1, <3>2, AnswerCarries
  <2> QED
    BY <2>1, <2>2
<1>6. Z!ResumeTypeOK'
  <2>1. toServer' \in Seq([kind: {"resume", "subscribe"}, id: 0..MaxStamps])
    BY <1>3, <1>4 DEF Z!Frame
  <2>2. hooked' \in Z!NotRunning..MaxStamps
    BY <1>1, <1>3, <1>4, ResumeTypes
  <2> QED
    BY <1>1, <1>5, <2>1, <2>2 DEF ResumeInv, Z!ResumeTypeOK, FrameSet, Kinds
<1>7. Talks'
  BY <1>1, <1>3 DEF Talks
<1>8. InOrder(ring)' /\ Numbered'
  BY <1>1 DEF ResumeInv, InOrder, Numbered
<1>9. CASE slowHook
  BY <1>1, <1>5, <1>6, <1>7, <1>8, <1>9 DEF ResumeInv, Orderly, Filled
<1>10. CASE ~slowHook
  <2>1. toClient' = toClient \o Z!Replayed(lastSeen) /\ lastSeen \in Nat
    <3>1. toClient' = toClient \o Z!Replayed(lastSeen)
      BY <1>1, <1>3, <1>10, Zenon
    <3> QED
      BY <1>4, <3>1
  <2>0. PICK n \in 0..Len(ring) : Answered(toClient', lastSeen, n)
    BY <2>1, AnswerSent
  <2>2. /\ n \in 0..Len(ring)
        /\ DOMAIN toClient' = 1..(N + n + 1)
        /\ \A i \in 1..N : toClient'[i] = toClient[i]
        /\ \A i \in 1..n : /\ toClient'[N + i] = Z!Frame("msg", ring[Len(ring) - n + i])
                           /\ Len(ring) - n + i \in DOMAIN ring
        /\ toClient'[N + n + 1] \in {Z!Frame("end", 0), Z!Frame("truncated", 0)}
        /\ ~apart =>
             /\ \A i \in 1..n : ring[Len(ring) - n + i] > lastSeen
             /\ \/ toClient'[N + n + 1] = Z!Frame("truncated", 0)
                \/ \A m \in 1..stamp : m > lastSeen => \E i \in 1..n : ring[Len(ring) - n + i] = m
    BY <2>0 DEF Answered
  <2>3. \A i \in 1..N : toClient[i].id = 0
    <3> TAKE i \in 1..N
    <3>1. toClient[i] \in FrameSet /\ toClient[i].kind = "welcome"
      BY <1>3, <1>4, ElementOfSeq
    <3>2. ~(toClient[i].id > 0)
      BY <1>4, <3>1 DEF ResumeInv, Carries
    <3> QED
      BY <1>4, <3>1, <3>2 DEF FrameSet
  <2> HIDE DEF N
  <2>4. ASSUME NEW i \in DOMAIN toClient'
        PROVE  \/ i \in 1..N /\ toClient'[i].kind = "welcome" /\ toClient'[i].id = 0
               \/ /\ i - N \in 1..n /\ toClient'[i].kind = "msg"
                  /\ toClient'[i].id = ring[Len(ring) - n + (i - N)]
               \/ /\ i = N + n + 1 /\ toClient'[i].id = 0 /\ toClient'[i].kind \in {"end", "truncated"}
    <3>1. CASE i \in 1..N
      BY <1>3, <1>4, <2>2, <2>3, <3>1
    <3>2. CASE i = N + n + 1
      BY <2>2, <3>2, ResumeTypes
    <3>3. CASE i \notin 1..N /\ i # N + n + 1
      <4>1. i - N \in 1..n /\ i = N + (i - N)
        BY <1>4, <2>2, <3>3
      <4>2. toClient'[i] = Z!Frame("msg", ring[Len(ring) - n + (i - N)])
        BY <2>2, <4>1
      <4> QED
        BY <4>1, <4>2, ResumeTypes
    <3> QED
      BY <3>1, <3>2, <3>3
  <2>5. Orderly'
    <3>1. \A i, j \in DOMAIN toClient' :
            i < j /\ toClient'[i].id > 0 /\ toClient'[j].id > 0 => toClient'[i].id < toClient'[j].id
      <4> SUFFICES ASSUME NEW i \in DOMAIN toClient', NEW j \in DOMAIN toClient', i < j,
                          toClient'[i].id > 0, toClient'[j].id > 0
                   PROVE  toClient'[i].id < toClient'[j].id
        OBVIOUS
      <4>1. /\ i - N \in 1..n /\ toClient'[i].id = ring[Len(ring) - n + (i - N)]
            /\ j - N \in 1..n /\ toClient'[j].id = ring[Len(ring) - n + (j - N)]
        BY <2>4
      <4>2. Len(ring) - n + (i - N) \in DOMAIN ring /\ Len(ring) - n + (j - N) \in DOMAIN ring
        <5>1. \A k \in 1..n : Len(ring) - n + k \in DOMAIN ring
          BY <2>2
        <5> QED
          BY <4>1, <5>1
      <4>3. Len(ring) - n + (i - N) < Len(ring) - n + (j - N)
        <5>1. i \in Int /\ j \in Int
          BY <1>4, <2>2
        <5> QED
          BY <1>4, <4>1, <5>1
      <4> QED
        BY <4>1, <4>2, <4>3 DEF ResumeInv, InOrder
    <3>2. \A i \in DOMAIN toClient' : toClient'[i].kind # "live"
      BY <2>4
    <3>3. got' = <<>> /\ hooked' = Z!NotRunning
      BY <1>1, <1>3, <1>10
    <3> QED
      BY <3>1, <3>2, <3>3 DEF Orderly, InOrder
  <2>6. Filled'
    <3> SUFFICES ASSUME ~apart PROVE Filled'
      BY <1>1 DEF Filled
    <3>1. \A i \in DOMAIN toClient' : toClient'[i].id > 0 => toClient'[i].id > lastSeen
      <4> TAKE i \in DOMAIN toClient'
      <4> HAVE toClient'[i].id > 0
      <4>1. i - N \in 1..n /\ toClient'[i].id = ring[Len(ring) - n + (i - N)]
        BY <2>4
      <4>2. \A k \in 1..n : ring[Len(ring) - n + k] > lastSeen
        BY <2>2
      <4> QED
        BY <4>1, <4>2
    <3>2. \A m : Had(m)' <=> Had(m)
      BY <1>1 DEF Had
    <3>3. /\ \A m \in owed : Had(m) \/ m > lastSeen
          /\ owed \subseteq 1..stamp
      BY <1>10 DEF ResumeInv, Filled, Carries
    <3>4. Admitted' \/ \A m \in owed : Had(m)' \/ Comes(m)'
      <4>1. CASE toClient'[N + n + 1] = Z!Frame("truncated", 0)
        <5>1. N + n + 1 \in DOMAIN toClient'
          BY <1>4, <2>2
        <5> QED
          BY <4>1, <5>1, ResumeTypes DEF Admitted
      <4>2. CASE \A m \in 1..stamp : m > lastSeen => \E i \in 1..n : ring[Len(ring) - n + i] = m
        <5> SUFFICES ASSUME NEW m \in owed, ~Had(m) PROVE Comes(m)'
          BY <3>2
        <5>1. PICK i \in 1..n : ring[Len(ring) - n + i] = m
          BY <3>3, <4>2
        <5>2. N + i \in DOMAIN toClient' /\ toClient'[N + i] = Z!Frame("msg", m)
          BY <1>4, <2>2, <5>1
        <5> QED
          BY <5>2, ResumeTypes DEF Comes
      <4> QED
        BY <2>2, <4>1, <4>2
    <3> QED
      BY <1>1, <3>1, <3>2, <3>3, <3>4 DEF Filled
  <2> QED
    BY <1>5, <1>6, <1>7, <1>8, <2>5, <2>6 DEF ResumeInv
<1> QED
  BY <1>9, <1>10

LEMMA AnswerResumeKeeps ==
    ASSUME ResumeInv, Z!AnswerResume
    PROVE  ResumeInv'
<1>1. /\ hooked # Z!NotRunning /\ hooked' = Z!NotRunning
      /\ toClient' = toClient \o Z!Replayed(hooked)
      /\ UNCHANGED <<stamp, count, ring, slowHook, online, joined, toServer, session, lastSeen, got,
                     had, owed, apart, losses>>
  BY DEF Z!AnswerResume, Z!server, Z!client, Z!history
<1>2. slowHook /\ online /\ ~Presents
  BY <1>1 DEF ResumeInv, Orderly, Talks
<1>3. hooked \in Nat /\ Z!NotRunning \in Z!NotRunning..MaxStamps
  BY <1>1, ResumeTypes DEF ResumeInv
<1>4. Carries' /\ toClient' \in Seq(FrameSet)
  BY <1>1, <1>3, AnswerCarries
<1>5. Z!ResumeTypeOK'
  BY <1>1, <1>3, <1>4 DEF ResumeInv, Z!ResumeTypeOK, FrameSet, Kinds
<1>6. Talks'
  <2>1. ~Presents'
    BY <1>1, <1>2 DEF Presents
  <2> QED
    BY <1>1, <1>2, <2>1 DEF ResumeInv, Talks
<1>7. InOrder(ring)' /\ Numbered' /\ Orderly' /\ Filled'
  BY <1>1, <1>2 DEF ResumeInv, InOrder, Numbered, Orderly, Filled
<1> QED
  BY <1>4, <1>5, <1>6, <1>7 DEF ResumeInv

\* The frames of a pair.
LEMMA PairOf ==
    ASSUME NEW F, NEW a \in F, NEW b \in F
    PROVE  <<a>> \in Seq(F) /\ <<a, b>> \in Seq(F) /\ <<a>> \o <<b>> = <<a, b>>
<1>1. <<a>> \in Seq(F) /\ Len(<<a>>) = 1 /\ <<a>>[1] = a
  OBVIOUS
<1>2. <<b>> \in Seq(F) /\ Len(<<b>>) = 1 /\ <<b>>[1] = b
  OBVIOUS
<1>3. <<a, b>> \in Seq(F) /\ Len(<<a, b>>) = 2 /\ <<a, b>>[1] = a /\ <<a, b>>[2] = b
  OBVIOUS
<1>4. /\ <<a>> \o <<b>> \in Seq(F) /\ Len(<<a>> \o <<b>>) = 2
      /\ (<<a>> \o <<b>>)[1] = a /\ (<<a>> \o <<b>>)[2] = b
  <2> DEFINE x == <<a>>
             y == <<b>>
  <2> HIDE DEF x, y
  <2>1. /\ x \o y \in Seq(F) /\ Len(x \o y) = 2
        /\ \A i \in 1..2 : (x \o y)[i] = IF i <= 1 THEN x[i] ELSE y[i - 1]
    <3>1. x \in Seq(F) /\ y \in Seq(F) /\ Len(x) = 1 /\ Len(y) = 1
      BY <1>1, <1>2 DEF x, y
    <3>2. /\ x \o y \in Seq(F) /\ Len(x \o y) = Len(x) + Len(y)
          /\ \A i \in 1..(Len(x) + Len(y)) : (x \o y)[i] = IF i <= Len(x) THEN x[i] ELSE y[i - Len(x)]
      BY <3>1, ConcatProperties
    <3>3. Len(x) + Len(y) = 2
      BY <3>1
    <3> QED
      BY <3>1, <3>2, <3>3
  <2>2. (x \o y)[1] = x[1] /\ (x \o y)[2] = y[1]
    BY <2>1
  <2> QED
    BY <1>1, <1>2, <2>1, <2>2 DEF x, y
<1>5. \A i \in 1..2 : i = 1 \/ i = 2
  OBVIOUS
<1>6. \A i \in 1..Len(<<a>> \o <<b>>) : (<<a>> \o <<b>>)[i] = <<a, b>>[i]
  BY <1>3, <1>4, <1>5
<1> DEFINE p == <<a>> \o <<b>>
           q == <<a, b>>
<1>7. p \in Seq(F) /\ q \in Seq(F) /\ Len(p) = Len(q) /\ \A i \in 1..Len(p) : p[i] = q[i]
  BY <1>3, <1>4, <1>6
<1>8. p = q
  <2> HIDE DEF p, q
  <2> QED
    BY <1>7, SeqEqual
<1> QED
  BY <1>1, <1>3, <1>8

\* The server, having answered what was asked, sends what is published from now on.
LEMMA ServeSubscribeKeeps ==
    ASSUME ResumeInv, Z!ServeSubscribe
    PROVE  ResumeInv'
<1>1. /\ toServer # <<>> /\ Head(toServer).kind = "subscribe" /\ toServer' = Tail(toServer)
      /\ joined' = TRUE
      /\ UNCHANGED <<stamp, count, ring, slowHook, hooked, online, toClient, session, lastSeen, got,
                     had, owed, apart, losses>>
  BY DEF Z!ServeSubscribe, Z!server, Z!client, Z!history
<1>2. ~Presents /\ toServer = <<Z!Frame("subscribe", 0)>> /\ online
  BY <1>1, UpFrames DEF ResumeInv, Talks
<1>3. toServer' = <<>> /\ ~Presents'
  BY <1>1, <1>2, UpFrames DEF Presents
<1>4. Z!ResumeTypeOK'
  <2>1. toServer' \in Seq([kind: {"resume", "subscribe"}, id: 0..MaxStamps])
    BY <1>3, EmptySeq
  <2> QED
    BY <1>1, <2>1 DEF ResumeInv, Z!ResumeTypeOK
<1>5. InOrder(ring)' /\ Numbered' /\ Carries' /\ Orderly'
  BY <1>1 DEF ResumeInv, InOrder, Numbered, Carries, Orderly
<1>6. Talks'
  BY <1>1, <1>2, <1>3 DEF ResumeInv, Talks
<1>7. Filled'
  <2> SUFFICES ASSUME ~slowHook, ~apart PROVE Filled'
    BY <1>1 DEF Filled
  <2>1. ~Z!Resuming
    BY <1>2, ResumingMeans DEF ResumeInv, Orderly
  <2>2. \A m : (Had(m)' <=> Had(m)) /\ (Comes(m)' <=> Comes(m))
    BY <1>1 DEF Had, Comes
  <2>3. Admitted' <=> Admitted
    BY <1>1 DEF Admitted
  <2> QED
    BY <1>1, <2>1, <2>2, <2>3 DEF ResumeInv, Filled
<1> QED
  BY <1>4, <1>5, <1>6, <1>7 DEF ResumeInv

\* What the client says first presents what it has seen last.
LEMMA OpenKeeps ==
    ASSUME ResumeInv, Z!Open
    PROVE  ResumeInv'
<1> DEFINE s == Z!Frame("subscribe", 0)
           w == Z!Frame("welcome", 0)
<1>1. /\ ~online /\ online' = TRUE
      /\ toServer' = Z!Frames /\ toClient' = <<w>>
      /\ UNCHANGED <<stamp, count, ring, slowHook, hooked, joined, session, lastSeen, got, had, owed,
                     apart, losses>>
  BY DEF Z!Open, Z!server, Z!client, Z!history
<1>2. /\ toServer = <<>> /\ toClient = <<>> /\ got = <<>> /\ ~joined /\ hooked = Z!NotRunning
  BY <1>1 DEF ResumeInv, Talks
<1>3. /\ lastSeen \in 0..MaxStamps /\ MaxStamps \in Nat /\ stamp \in Nat
      /\ w \in FrameSet /\ w.kind = "welcome" /\ w.id = 0
  BY ResumeTypes DEF ResumeInv, Kinds
<1> HIDE DEF w
<1>4. toClient' \in Seq(FrameSet) /\ DOMAIN toClient' = {1} /\ toClient'[1] = w
  BY <1>1, <1>3
<1>5. IF Z!Resumable THEN Presents' ELSE toServer' = <<s>> /\ ~Presents'
  <2>1. CASE Z!Resumable
    <3>1. toServer' = <<Z!Frame("resume", lastSeen)>> \o <<s>>
      BY <1>1, <2>1 DEF Z!Frames
    <3>2. toServer' = <<Z!Frame("resume", lastSeen), s>>
      <4>1. \A a, b : <<a>> \o <<b>> = <<a, b>>
        <5> TAKE a, b
        <5>1. a \in {a, b} /\ b \in {a, b}
          OBVIOUS
        <5> QED
          BY <5>1, PairOf
      <4> HIDE DEF s
      <4> QED
        BY <3>1, <4>1
    <3> QED
      BY <1>1, <2>1, <3>2 DEF Presents
  <2>2. CASE ~Z!Resumable
    <3>1. toServer' = <<>> \o <<s>>
      BY <1>1, <2>2 DEF Z!Frames
    <3>2. toServer' = <<s>>
      BY <3>1
    <3> QED
      BY <2>2, <3>2, UpFrames DEF Presents
  <2> QED
    BY <2>1, <2>2
<1>6. Z!Resumable' <=> Z!Resumable
  BY <1>1 DEF Z!Resumable
<1>7. Z!ResumeTypeOK'
  <2>1. s \in [kind: {"resume", "subscribe"}, id: 0..MaxStamps]
        /\ Z!Frame("resume", lastSeen) \in [kind: {"resume", "subscribe"}, id: 0..MaxStamps]
    BY <1>3, ResumeTypes
  <2>2. toServer' = <<s>> \/ toServer' = <<Z!Frame("resume", lastSeen), s>>
    BY <1>1, <1>5 DEF Presents
  <2> HIDE DEF s
  <2>3. toServer' \in Seq([kind: {"resume", "subscribe"}, id: 0..MaxStamps])
    <3>1. /\ <<s>> \in Seq([kind: {"resume", "subscribe"}, id: 0..MaxStamps])
          /\ <<Z!Frame("resume", lastSeen), s>> \in Seq([kind: {"resume", "subscribe"}, id: 0..MaxStamps])
      BY <2>1, PairOf
    <3> QED
      BY <2>2, <3>1
  <2> QED
    BY <1>1, <1>4, <2>3 DEF ResumeInv, Z!ResumeTypeOK, FrameSet, Kinds
<1>8. InOrder(ring)' /\ Numbered'
  BY <1>1 DEF ResumeInv, InOrder, Numbered
<1>9. Carries'
  BY <1>1, <1>3, <1>4 DEF ResumeInv, Carries
<1>10. Talks'
  <2>1. \A i \in DOMAIN toClient' : toClient'[i].kind = "welcome"
    BY <1>3, <1>4
  <2>2. toServer' = <<Z!Frame("subscribe", 0)>> \/ Presents'
    BY <1>5
  <2>3. Presents' => Z!Resumable'
    BY <1>5, <1>6
  <2> QED
    BY <1>1, <1>2, <2>1, <2>2, <2>3 DEF Talks
<1>11. Orderly'
  BY <1>1, <1>2, <1>3, <1>4 DEF ResumeInv, Orderly, InOrder
<1>12. Filled'
  <2> SUFFICES ASSUME ~slowHook, ~apart PROVE Filled'
    BY <1>1 DEF Filled
  <2>1. \A m : Had(m)' <=> Had(m)
    BY <1>1 DEF Had
  <2>2. ~Admitted /\ \A m : ~Comes(m)
    BY <1>2 DEF Admitted, Comes
  <2>3. /\ \A m \in owed : Had(m) \/ m > lastSeen
        /\ \A m \in owed : Had(m) \/ (Z!Resuming /\ m > lastSeen)
    BY <2>2 DEF ResumeInv, Filled
  <2>4. Z!Resuming => Z!Resuming'
    <3>1. Z!Resuming => Presents' /\ Z!Resumable'
      BY <1>5, <1>6 DEF Z!Resuming
    <3>2. Presents' => \E i \in DOMAIN toServer' : toServer'[i].kind = "resume"
      <4> SUFFICES ASSUME Presents' PROVE \E i \in DOMAIN toServer' : toServer'[i].kind = "resume"
        OBVIOUS
      <4>1. toServer' = <<Z!Frame("resume", lastSeen'), s>>
        BY DEF Presents
      <4>2. 1 \in DOMAIN toServer' /\ toServer'[1] = Z!Frame("resume", lastSeen')
        BY <4>1
      <4> QED
        BY <4>2, ResumeTypes
    <3> QED
      BY <3>1, <3>2 DEF Z!Resuming
  <2>5. \A i \in DOMAIN toClient' : ~(toClient'[i].id > 0)
    BY <1>3, <1>4
  <2> QED
    BY <1>1, <2>1, <2>3, <2>4, <2>5 DEF Filled
<1> QED
  BY <1>7, <1>8, <1>9, <1>10, <1>11, <1>12 DEF ResumeInv

\* A lost connection leaves to the next resume what was on its way.
LEMMA LoseKeeps ==
    ASSUME ResumeInv, Z!Lose
    PROVE  ResumeInv'
<1>1. /\ online /\ losses < MaxLost /\ losses' = losses + 1
      /\ online' = FALSE /\ joined' = FALSE /\ hooked' = Z!NotRunning
      /\ toServer' = <<>> /\ toClient' = <<>> /\ got' = <<>>
      /\ had' = had \cup {got[i] : i \in DOMAIN got}
      /\ owed' = (IF Z!Resumable THEN owed ELSE {})
      /\ UNCHANGED <<stamp, count, ring, slowHook, session, lastSeen, apart>>
  BY DEF Z!Lose, Z!server
<1>2. /\ got \in Seq(1..MaxStamps) /\ losses \in 0..MaxLost /\ MaxLost \in Nat
      /\ had \cup owed \subseteq 1..MaxStamps
      /\ \A i \in DOMAIN got : got[i] \in 1..MaxStamps
  BY ResumeTypes, ElementOfSeq, LenProperties DEF ResumeInv
<1>3. Z!ResumeTypeOK'
  <2>1. /\ toServer' \in Seq([kind: {"resume", "subscribe"}, id: 0..MaxStamps])
        /\ toClient' \in Seq([kind: {"welcome", "live", "msg", "end", "truncated"}, id: 0..MaxStamps])
        /\ got' \in Seq(1..MaxStamps)
    BY <1>1, EmptySeq
  <2>2. had' \cup owed' \subseteq 1..MaxStamps
    BY <1>1, <1>2
  <2>3. losses' \in 0..MaxLost /\ hooked' \in Z!NotRunning..MaxStamps
    BY <1>1, <1>2, ResumeTypes
  <2> QED
    BY <1>1, <2>1, <2>2, <2>3 DEF ResumeInv, Z!ResumeTypeOK
<1>4. InOrder(ring)' /\ Numbered' /\ Carries'
  BY <1>1 DEF ResumeInv, InOrder, Numbered, Carries
<1>5. Talks'
  <2>1. ~Presents'
    BY <1>1, UpFrames DEF Presents
  <2> QED
    BY <1>1, <2>1 DEF Talks
<1>6. Orderly'
  BY <1>1 DEF Orderly, InOrder
<1>7. Filled'
  <2> SUFFICES ASSUME ~slowHook, ~apart, NEW m \in owed' PROVE Had(m)' \/ (Z!Resuming' /\ m > lastSeen)
    BY <1>1 DEF Filled
  <2>1. Z!Resumable /\ m \in owed
    BY <1>1
  <2>2. Z!Resuming'
    BY <1>1, <2>1 DEF Z!Resuming, Z!Resumable
  <2>3. Had(m) \/ m > lastSeen
    BY <2>1 DEF ResumeInv, Filled
  <2>4. Had(m) => Had(m)'
    BY <1>1 DEF Had
  <2> QED
    BY <2>2, <2>3, <2>4
<1> QED
  BY <1>3, <1>4, <1>5, <1>6, <1>7 DEF ResumeInv

\* A frame comes in. What was owed and is not newer than what is seen now has
\* come before it, since frames that carry messages come in order.
LEMMA ReceiveKeeps ==
    ASSUME ResumeInv, Z!Receive
    PROVE  ResumeInv'
<1> DEFINE N == Len(toClient)
           f == Head(toClient)
           L == Len(got)
<1>1. /\ toClient # <<>> /\ toClient' = Tail(toClient)
      /\ session' \in {session, TRUE}
      /\ lastSeen' = (IF f.kind = "live" /\ f.id > lastSeen THEN f.id ELSE lastSeen)
      /\ got' = (IF f.kind \in {"live", "msg"} THEN Append(got, f.id) ELSE got)
      /\ owed' = (IF f.kind = "truncated" THEN {} ELSE owed)
      /\ UNCHANGED <<stamp, count, ring, slowHook, hooked, online, joined, toServer, had, apart, losses>>
  BY DEF Z!Receive, Z!server
<1>2. /\ toClient \in Seq(FrameSet) /\ DOMAIN toClient = 1..N /\ N \in Nat /\ N >= 1
      /\ got \in Seq(1..MaxStamps) /\ DOMAIN got = 1..L /\ L \in Nat
      /\ stamp \in 0..MaxStamps /\ MaxStamps \in Nat /\ lastSeen \in 0..MaxStamps
      /\ \A i \in 1..N : toClient[i] \in FrameSet
      /\ had \cup owed \subseteq 1..MaxStamps
  <2>1. N # 0
    BY <1>1, ResumeTypes, EmptySeq DEF ResumeInv
  <2> QED
    BY <2>1, ResumeTypes, ElementOfSeq DEF ResumeInv
<1>3. /\ toClient' \in Seq(FrameSet) /\ DOMAIN toClient' = 1..(N - 1)
      /\ \A i \in 1..(N - 1) : toClient'[i] = toClient[i + 1]
      /\ f = toClient[1] /\ 1 \in 1..N
  <2>1. /\ Tail(toClient) \in Seq(FrameSet) /\ Len(Tail(toClient)) = N - 1
        /\ \A i \in 1..(N - 1) : Tail(toClient)[i] = toClient[i + 1]
        /\ f = toClient[1]
    BY <1>1, <1>2, HeadTailProperties
  <2> QED
    BY <1>1, <1>2, <2>1, LenProperties
<1>4. /\ f \in FrameSet /\ f.id \in 0..MaxStamps /\ f.id <= stamp
      /\ f.id > 0 <=> f.kind \in {"live", "msg"}
  BY <1>2, <1>3 DEF ResumeInv, Carries, FrameSet
<1>5. /\ online /\ Z!ResumeTypeOK /\ Carries /\ Talks /\ Orderly /\ Filled /\ session \in BOOLEAN
  BY <1>1 DEF ResumeInv, Talks, Z!ResumeTypeOK
<1> HIDE DEF N, f, L
<1>6. /\ got' \in Seq(1..MaxStamps)
      /\ \A i \in DOMAIN got : i \in DOMAIN got' /\ got'[i] = got[i]
      /\ \A i \in DOMAIN got' : i \in DOMAIN got \/ (i = L + 1 /\ got'[i] = f.id /\ f.id > 0)
      /\ f.id > 0 => L + 1 \in DOMAIN got' /\ got'[L + 1] = f.id
  <2>1. CASE f.id > 0
    <3>1. got' = Append(got, f.id) /\ f.id \in 1..MaxStamps
      BY <1>1, <1>2, <1>4, <2>1
    <3>2. /\ got' \in Seq(1..MaxStamps) /\ Len(got') = L + 1
          /\ \A i \in 1..L : got'[i] = got[i]
          /\ got'[L + 1] = f.id
      BY <1>2, <3>1, AppendProperties DEF L
    <3>3. DOMAIN got' = 1..(L + 1)
      BY <3>2, LenProperties
    <3> QED
      BY <1>2, <2>1, <3>2, <3>3
  <2>2. CASE ~(f.id > 0)
    BY <1>1, <1>2, <1>4, <2>2
  <2> QED
    BY <2>1, <2>2
<1>7. \A i \in DOMAIN toClient' : i + 1 \in DOMAIN toClient /\ i + 1 # 1 /\ toClient'[i] = toClient[i + 1]
                                  /\ i \in Nat
  BY <1>2, <1>3
<1>8. \A i \in DOMAIN toClient : i = 1 \/ (\E j \in DOMAIN toClient' : i = j + 1 /\ toClient'[j] = toClient[i])
  <2> TAKE i \in DOMAIN toClient
  <2> SUFFICES ASSUME i # 1 PROVE \E j \in DOMAIN toClient' : i = j + 1 /\ toClient'[j] = toClient[i]
    OBVIOUS
  <2> DEFINE j == i - 1
  <2>1. j \in 1..(N - 1) /\ i = j + 1
    BY <1>2
  <2> HIDE DEF j
  <2> QED
    BY <1>3, <2>1
<1>9. lastSeen' \in 0..MaxStamps /\ lastSeen' <= stamp /\ lastSeen' >= lastSeen
  BY <1>1, <1>2, <1>4, <1>5 DEF Carries
<1>10. Z!ResumeTypeOK'
  <2>1. owed' \subseteq owed /\ session' \in BOOLEAN
    BY <1>1, <1>5
  <2> QED
    BY <1>1, <1>2, <1>3, <1>6, <1>9, <2>1 DEF ResumeInv, Z!ResumeTypeOK, FrameSet, Kinds
<1>11. InOrder(ring)' /\ Numbered'
  BY <1>1 DEF ResumeInv, InOrder, Numbered
<1>12. Carries'
  <2>1. \A i \in DOMAIN toClient' : /\ toClient'[i].id > 0 <=> toClient'[i].kind \in {"live", "msg"}
                                   /\ toClient'[i].id <= stamp
    BY <1>5, <1>7 DEF Carries
  <2>2. \A i \in DOMAIN got' : got'[i] <= stamp
    BY <1>4, <1>5, <1>6 DEF Carries
  <2> QED
    BY <1>1, <1>5, <1>9, <2>1, <2>2 DEF Carries
<1>13. Presents => /\ Presents' /\ got' = <<>> /\ lastSeen' = lastSeen /\ f.kind = "welcome"
                   /\ Z!Resumable' /\ \A i \in DOMAIN toClient' : toClient'[i].kind = "welcome"
  <2> SUFFICES ASSUME Presents
               PROVE  /\ Presents' /\ got' = <<>> /\ lastSeen' = lastSeen /\ f.kind = "welcome"
                      /\ Z!Resumable' /\ \A i \in DOMAIN toClient' : toClient'[i].kind = "welcome"
    OBVIOUS
  <2>1. Z!Resumable /\ got = <<>> /\ \A i \in DOMAIN toClient : toClient[i].kind = "welcome"
    BY <1>5 DEF Talks
  <2>2. f.kind = "welcome"
    BY <1>2, <1>3, <2>1
  <2>3. lastSeen' = lastSeen /\ got' = <<>>
    BY <1>1, <2>1, <2>2
  <2>4. Z!Resumable'
    BY <1>1, <2>1, <2>3 DEF Z!Resumable
  <2>5. Presents'
    BY <1>1, <2>3 DEF Presents
  <2> QED
    BY <1>7, <2>1, <2>2, <2>3, <2>4, <2>5
<1>14. ~Presents => ~Presents'
  <2>1. ~Presents => toServer = <<>> \/ toServer = <<Z!Frame("subscribe", 0)>>
    BY <1>5 DEF Talks
  <2> QED
    BY <1>1, <2>1, UpFrames DEF Presents
<1>15. Talks'
  <2>1. toServer' = <<>> \/ toServer' = <<Z!Frame("subscribe", 0)>> \/ Presents'
    BY <1>1, <1>5, <1>13 DEF Talks
  <2>2. Presents' => /\ Z!Resumable' /\ got' = <<>> /\ hooked' = Z!NotRunning
                     /\ \A i \in DOMAIN toClient' : toClient'[i].kind = "welcome"
    BY <1>1, <1>5, <1>13, <1>14 DEF Talks
  <2> QED
    BY <1>1, <1>5, <2>1, <2>2 DEF Talks
<1>16. Orderly'
  <2> SUFFICES ASSUME ~slowHook PROVE Orderly'
    BY <1>1 DEF Orderly
  <2>1. /\ hooked = Z!NotRunning
        /\ \A i, j \in DOMAIN got : i < j => got[i] < got[j]
        /\ \A i \in DOMAIN got, j \in DOMAIN toClient : toClient[j].id > 0 => got[i] < toClient[j].id
        /\ \A i, j \in DOMAIN toClient :
             i < j /\ toClient[i].id > 0 /\ toClient[j].id > 0 => toClient[i].id < toClient[j].id
        /\ \A i, j \in DOMAIN toClient :
             toClient[i].kind = "live" /\ toClient[j].kind = "truncated" => j < i
    BY <1>5 DEF Orderly, InOrder
  <2>2. \A j \in DOMAIN toClient' : f.id > 0 /\ toClient'[j].id > 0 => f.id < toClient'[j].id
    <3> TAKE j \in DOMAIN toClient'
    <3>1. j + 1 \in DOMAIN toClient /\ 1 < j + 1 /\ toClient'[j] = toClient[j + 1] /\ 1 \in DOMAIN toClient
      BY <1>2, <1>3, <1>7
    <3> DEFINE k == j + 1
    <3> HIDE DEF k
    <3>2. k \in DOMAIN toClient /\ 1 < k /\ toClient'[j] = toClient[k]
      BY <3>1 DEF k
    <3> QED
      BY <1>3, <2>1, <3>1, <3>2
  <2>3. \A i, j \in DOMAIN got' : i < j => got'[i] < got'[j]
    <3> SUFFICES ASSUME NEW i \in DOMAIN got', NEW j \in DOMAIN got', i < j PROVE got'[i] < got'[j]
      OBVIOUS
    <3>1. i \in DOMAIN got
      BY <1>2, <1>6
    <3>2. CASE j \in DOMAIN got
      BY <1>6, <2>1, <3>1, <3>2
    <3>3. CASE j \notin DOMAIN got
      BY <1>2, <1>3, <1>6, <2>1, <3>1, <3>3
    <3> QED
      BY <3>2, <3>3
  <2>4. \A i \in DOMAIN got', j \in DOMAIN toClient' : toClient'[j].id > 0 => got'[i] < toClient'[j].id
    <3> SUFFICES ASSUME NEW i \in DOMAIN got', NEW j \in DOMAIN toClient', toClient'[j].id > 0
                 PROVE  got'[i] < toClient'[j].id
      OBVIOUS
    <3>1. CASE i \in DOMAIN got
      BY <1>6, <1>7, <2>1, <3>1
    <3>2. CASE i \notin DOMAIN got
      BY <1>6, <2>2, <3>2
    <3> QED
      BY <3>1, <3>2
  <2>5. \A i, j \in DOMAIN toClient' :
          i < j /\ toClient'[i].id > 0 /\ toClient'[j].id > 0 => toClient'[i].id < toClient'[j].id
    <3> TAKE i, j \in DOMAIN toClient'
    <3>1. i < j => i + 1 < j + 1
      BY <1>7
    <3> QED
      BY <1>7, <2>1, <3>1
  <2>6. \A i, j \in DOMAIN toClient' :
          toClient'[i].kind = "live" /\ toClient'[j].kind = "truncated" => j < i
    <3> TAKE i, j \in DOMAIN toClient'
    <3>1. j + 1 < i + 1 => j < i
      BY <1>7
    <3> QED
      BY <1>7, <2>1, <3>1
  <2> QED
    BY <1>1, <2>1, <2>3, <2>4, <2>5, <2>6 DEF Orderly, InOrder
<1>17. Filled'
  <2> SUFFICES ASSUME ~slowHook, ~apart PROVE Filled'
    BY <1>1 DEF Filled
  <2>1. /\ \A i \in DOMAIN toClient : toClient[i].id > 0 => toClient[i].id > lastSeen
        /\ \A m \in owed : Had(m) \/ m > lastSeen
        /\ Admitted \/ \A m \in owed : Had(m) \/ Comes(m) \/ (Z!Resuming /\ m > lastSeen)
    BY <1>5 DEF Filled
  <2>2. /\ hooked = Z!NotRunning
        /\ \A i, j \in DOMAIN toClient :
             i < j /\ toClient[i].id > 0 /\ toClient[j].id > 0 => toClient[i].id < toClient[j].id
        /\ \A i, j \in DOMAIN toClient :
             toClient[i].kind = "live" /\ toClient[j].kind = "truncated" => j < i
    BY <1>5 DEF Orderly
  <2>3. Z!Resuming => Presents
    BY <1>5, <2>2, ResumingMeans
  <2>4. \A m : Had(m) => Had(m)'
    BY <1>1, <1>6 DEF Had
  <2>5. \A m : m = f.id /\ m > 0 => Had(m)'
    BY <1>6 DEF Had
  <2>6. ASSUME NEW m \in owed, Comes(m) PROVE Had(m)' \/ Comes(m)'
    <3>1. m > 0
      BY <1>2
    <3>2. PICK i \in DOMAIN toClient : toClient[i].id = m
      BY <2>6 DEF Comes
    <3>3. CASE i = 1
      BY <1>3, <2>5, <3>1, <3>2, <3>3
    <3>4. CASE i # 1
      BY <1>8, <3>2, <3>4 DEF Comes
    <3> QED
      BY <3>3, <3>4
  <2>7. Admitted /\ f.kind # "truncated" => Admitted'
    BY <1>3, <1>8 DEF Admitted
  <2>8. \A i \in DOMAIN toClient' : toClient'[i].id > 0 => toClient'[i].id > lastSeen'
    <3> SUFFICES ASSUME NEW i \in DOMAIN toClient', toClient'[i].id > 0 PROVE toClient'[i].id > lastSeen'
      OBVIOUS
    <3> DEFINE k == i + 1
    <3>1. k \in DOMAIN toClient /\ 1 < k /\ toClient'[i] = toClient[k] /\ 1 \in DOMAIN toClient
      BY <1>2, <1>3, <1>7
    <3> HIDE DEF k
    <3>2. toClient[k].id > lastSeen /\ (f.id > 0 => f.id < toClient[k].id)
      BY <1>3, <2>1, <2>2, <3>1
    <3> QED
      BY <1>1, <1>4, <3>1, <3>2
  <2>9. ASSUME NEW m \in owed, m > lastSeen, ~(m > lastSeen'), f.kind # "truncated" PROVE Had(m)'
    <3>1. f.kind = "live" /\ lastSeen' = f.id /\ m > 0 /\ m \in Int
      BY <1>1, <1>2, <2>9
    <3>2. ~Admitted
      <4>1. \A i \in DOMAIN toClient : ~(i < 1)
        BY <1>2
      <4> QED
        BY <1>2, <1>3, <2>2, <3>1, <4>1 DEF Admitted
    <3>3. ~Z!Resuming
      BY <1>13, <2>3, <3>1
    <3>4. Had(m) \/ Comes(m)
      BY <2>1, <3>2, <3>3
    <3>5. CASE Comes(m)
      <4>1. PICK i \in DOMAIN toClient : toClient[i].id = m
        BY <3>5 DEF Comes
      <4>2. i = 1 \/ f.id < m
        <5>1. i # 1 => 1 < i
          BY <1>2
        <5> QED
          BY <1>2, <1>3, <1>4, <2>2, <3>1, <4>1, <5>1
      <4>3. m = f.id
        BY <1>3, <1>4, <2>9, <3>1, <4>1, <4>2
      <4> QED
        BY <2>5, <3>1, <4>3
    <3> QED
      BY <2>4, <3>4, <3>5
  <2>10. CASE f.kind = "truncated"
    BY <1>1, <2>8, <2>10 DEF Filled
  <2>11. CASE f.kind # "truncated"
    <3>1. owed' = owed
      BY <1>1, <2>11
    <3>2. \A m \in owed' : Had(m)' \/ m > lastSeen'
      BY <2>1, <2>4, <2>9, <2>11, <3>1
    <3>3. Z!Resuming => Z!Resuming' /\ lastSeen' = lastSeen
      <4> SUFFICES ASSUME Z!Resuming PROVE Z!Resuming' /\ lastSeen' = lastSeen
        OBVIOUS
      <4>1. Presents /\ lastSeen' = lastSeen /\ Z!Resumable'
        BY <1>13, <2>3
      <4>2. 1 \in DOMAIN toServer' /\ toServer'[1].kind = "resume"
        BY <1>1, <4>1, UpFrames
      <4> QED
        BY <4>1, <4>2 DEF Z!Resuming
    <3>4. Admitted' \/ \A m \in owed' : Had(m)' \/ Comes(m)' \/ (Z!Resuming' /\ m > lastSeen')
      <4>1. CASE Admitted
        BY <2>7, <2>11, <4>1
      <4>2. CASE ~Admitted
        <5> SUFFICES ASSUME NEW m \in owed PROVE Had(m)' \/ Comes(m)' \/ (Z!Resuming' /\ m > lastSeen')
          BY <3>1
        <5>1. Had(m) \/ Comes(m) \/ (Z!Resuming /\ m > lastSeen)
          BY <2>1, <4>2
        <5> QED
          BY <2>4, <2>6, <3>3, <5>1
      <4> QED
        BY <4>1, <4>2
    <3> QED
      BY <2>8, <3>2, <3>4 DEF Filled
  <2> QED
    BY <2>10, <2>11
<1> QED
  BY <1>10, <1>11, <1>12, <1>15, <1>16, <1>17 DEF ResumeInv

LEMMA ResumeStepKeeps == ResumeInv /\ [Z!Next]_resumeVars => ResumeInv'
<1> SUFFICES ASSUME ResumeInv, [Z!Next]_resumeVars PROVE ResumeInv'
  OBVIOUS
<1>1. CASE UNCHANGED resumeVars
  <2>1. Z!ResumeTypeOK' /\ InOrder(ring)' /\ Numbered' /\ Carries'
    BY <1>1 DEF resumeVars, ResumeInv, Z!ResumeTypeOK, InOrder, Numbered, Carries
  <2>2. Talks' /\ Orderly'
    BY <1>1 DEF resumeVars, ResumeInv, Talks, Presents, Z!Resumable, Orderly, InOrder
  <2>3. Filled'
    BY <1>1 DEF resumeVars, ResumeInv, Filled, Had, Comes, Admitted, Z!Resuming, Z!Resumable
  <2> QED
    BY <2>1, <2>2, <2>3 DEF ResumeInv
<1>2. CASE Z!Next
  BY <1>2, ResumePublishKeeps, ForgetKeeps, ServeResumeKeeps, AnswerResumeKeeps, ServeSubscribeKeeps,
     OpenKeeps, ReceiveKeeps, LoseKeeps DEF Z!Next
<1> QED
  BY <1>1, <1>2

LEMMA ResumeSound == ResumeInv => Z!ResumeFills
<1> SUFFICES ASSUME ResumeInv PROVE Z!ResumeFills
  OBVIOUS
<1>1. Z!ReplayedFirst
  BY DEF ResumeInv, Orderly, InOrder, Z!ReplayedFirst
<1>2. Z!GapIsFilled
  BY DEF ResumeInv, Filled, Admitted, Had, Comes, Z!GapIsFilled
<1> QED
  BY <1>1, <1>2 DEF Z!ResumeFills

-----------------------------------------------------------------------------
(***************************************************************************)
(* The replay plugin. The ring buffer of a topic holds its newest messages *)
(* in order, in a window that wraps around. As long as nothing is excused  *)
(* the store asks once, and until it is live what it will be given is on   *)
(* its way in a form of its own: live messages that it drops, the answer,  *)
(* live messages that follow the answer.                                   *)
(***************************************************************************)

\* The window of s, of a topic of which n messages were published.
Window(s, n) ==
    /\ s.len <= s.seq /\ s.seq <= n /\ (s.len = 0 => s.seq = 0)
    /\ \A i \in 1..s.len : s.buf[(s.start + i - 1) % Size] = n - s.len + i

\* The messages since the page have been counted by the buffer, too.
CountsAgree ==
    page # R!NotLoaded =>
        /\ page.since >= 0 /\ page.loaded <= total[Chat]
        /\ total[Chat] - buffers[Chat].seq = page.loaded - page.since

Idle ==
    /\ ~listening /\ ~unasked /\ ~hearing /\ ~replayDone /\ ~subscribed
    /\ up = <<>> /\ down = <<>> /\ out = <<>> /\ ~truncated

\* It has not been answered yet.
Asking ==
    /\ listening /\ page # R!NotLoaded /\ hearing /\ ~replayDone /\ out = <<>> /\ ~truncated
    /\ \/ ~conn /\ unasked /\ up = <<>> /\ ~subscribed /\ down = <<>>
       \/ conn /\ ~unasked /\ up = <<"subscribe", "replay">> /\ ~subscribed /\ down = <<>>
       \/ /\ conn /\ ~unasked /\ up = <<"replay">> /\ subscribed
          /\ \A i \in DOMAIN down : down[i].kind = "live"

\* The end marker is the e-th frame, k messages of the answer come before it,
\* and the answer ends with the message last.
Pending(e, k, last) ==
    /\ \A i \in DOMAIN down :
         /\ down[i].kind = IF i = e THEN "end" ELSE IF i \in (e - k)..e THEN "msg" ELSE "live"
         /\ i \in (e - k)..(e - 1) => down[i].id = last + 1 + i - e
         /\ i > e => down[i].id = last + i - e
    /\ last + Len(down) - e = total[Chat]
    /\ \A i \in 1..(Len(out) - 1) : out[i + 1] = out[i] + 1
    /\ IF out = <<>>
       THEN /\ page.loaded <= last - k /\ (k = 0 => last = page.loaded)
            /\ down[e].truncated <=> page.loaded < last - k
       ELSE /\ k = e - 1 /\ out[Len(out)] = last - k
            /\ down[e].truncated <=> out[1] > page.loaded + 1

Answering ==
    /\ listening /\ page # R!NotLoaded /\ hearing /\ ~replayDone /\ ~truncated
    /\ conn /\ ~unasked /\ up = <<>> /\ subscribed
    /\ \E e \in DOMAIN down : \E k \in 0..(e - 1), last \in Nat : Pending(e, k, last)

IsLive ==
    /\ listening /\ page # R!NotLoaded /\ ~hearing /\ replayDone
    /\ conn /\ ~unasked /\ up = <<>> /\ subscribed
    /\ R!NoHoles

Story == ~gated /\ CountsAgree /\ (Idle \/ Asking \/ Answering \/ IsLive)

ReplayInv ==
    /\ R!ReplayTypeOK
    /\ \A t \in Topics : Window(buffers[t], total[t])
    /\ \A i \in DOMAIN down : down[i].kind # "end" => down[i].id > 0
    /\ slowGate \/ excused \/ Story

LEMMA WrapsAround ==
    ASSUME NEW n \in Nat \ {0}, NEW a \in 0..(2 * n - 1)
    PROVE  a % n = IF a < n THEN a ELSE a - n
<1> DEFINE q == a \div n
           r == a % n
<1>1. q \in Int /\ r \in 0..(n - 1) /\ a = n * q + r
  OBVIOUS
<1> HIDE DEF q, r
<1>2. CASE q <= -1
  <2>1. n * q <= -n
    BY <1>1, <1>2
  <2> QED
    BY <1>1, <2>1
<1>3. CASE q = 0
  BY <1>1, <1>3 DEF r
<1>4. CASE q = 1
  BY <1>1, <1>4 DEF r
<1>5. CASE q >= 2
  <2>1. n * q >= 2 * n
    BY <1>1, <1>5
  <2> QED
    BY <1>1, <2>1
<1> QED
  BY <1>1, <1>2, <1>3, <1>4, <1>5

Ring == [seq: 0..MaxMsgs, buf: [0..(Size - 1) -> 0..MaxMsgs], start: 0..(Size - 1), len: 0..Size]

\* The places of a window of a ring of n: the i-th, those before it, and those
\* of the window that begins one later.
LEMMA PlacesOfWindow ==
    ASSUME NEW n \in Nat \ {0}, NEW st \in 0..(n - 1)
    PROVE  /\ \A i \in 1..(n + 1) : (st + i - 1) % n \in 0..(n - 1)
           /\ \A i, j \in 1..n : i # j => (st + i - 1) % n # (st + j - 1) % n
           /\ (st + n) % n = st /\ (st + 1 - 1) % n = st
           /\ (st + 1) % n \in 0..(n - 1)
           /\ \A i \in 1..n : (((st + 1) % n) + i - 1) % n = (st + (i + 1) - 1) % n
<1>1. \A a : a \in 0..(2 * n - 1) => a % n = IF a < n THEN a ELSE a - n
  BY WrapsAround
<1>2. \A i \in 1..(n + 1) : (st + i - 1) % n = IF st + i - 1 < n THEN st + i - 1 ELSE st + i - 1 - n
  <2> TAKE i \in 1..(n + 1)
  <2> DEFINE a == st + i - 1
  <2>1. a \in 0..(2 * n - 1)
    OBVIOUS
  <2> HIDE DEF a
  <2>2. a % n = IF a < n THEN a ELSE a - n
    BY <1>1, <2>1
  <2> QED
    BY <2>2 DEF a
<1>3. (st + n) % n = st /\ (st + 1 - 1) % n = st
  <2>1. n + 1 \in 1..(n + 1) /\ 1 \in 1..(n + 1) /\ st + (n + 1) - 1 = st + n
    OBVIOUS
  <2>2. (st + (n + 1) - 1) % n = IF st + (n + 1) - 1 < n THEN st + (n + 1) - 1 ELSE st + (n + 1) - 1 - n
    BY <1>2, <2>1
  <2>3. (st + 1 - 1) % n = IF st + 1 - 1 < n THEN st + 1 - 1 ELSE st + 1 - 1 - n
    BY <1>2, <2>1
  <2>4. (IF st + n < n THEN st + n ELSE st + n - n) = st /\ (IF st + 1 - 1 < n THEN st + 1 - 1 ELSE st + 1 - 1 - n) = st
    OBVIOUS
  <2> QED
    BY <2>1, <2>2, <2>3, <2>4
<1>4. \A i, j \in 1..n : i # j => (st + i - 1) % n # (st + j - 1) % n
  <2> SUFFICES ASSUME NEW i \in 1..n, NEW j \in 1..n, i # j
               PROVE  (st + i - 1) % n # (st + j - 1) % n
    OBVIOUS
  <2>1. i \in 1..(n + 1) /\ j \in 1..(n + 1)
    OBVIOUS
  <2>2. (IF st + i - 1 < n THEN st + i - 1 ELSE st + i - 1 - n) # (IF st + j - 1 < n THEN st + j - 1 ELSE st + j - 1 - n)
    OBVIOUS
  <2> QED
    BY <1>2, <2>1, <2>2
<1>5. (st + 1) % n = IF st + 1 < n THEN st + 1 ELSE 0
  <2> DEFINE a == st + 1
  <2>1. a \in 0..(2 * n - 1) /\ (IF a < n THEN a ELSE a - n) = IF a < n THEN a ELSE 0
    OBVIOUS
  <2> HIDE DEF a
  <2>2. a % n = IF a < n THEN a ELSE a - n
    BY <1>1, <2>1
  <2> QED
    BY <2>1, <2>2 DEF a
<1>6. \A i \in 1..n : (((st + 1) % n) + i - 1) % n = (st + (i + 1) - 1) % n
  <2> TAKE i \in 1..n
  <2> DEFINE s1 == IF st + 1 < n THEN st + 1 ELSE 0
             a == s1 + i - 1
             k == i + 1
  <2>1. a \in 0..(2 * n - 1) /\ k \in 1..(n + 1)
        /\ (IF a < n THEN a ELSE a - n) = IF st + k - 1 < n THEN st + k - 1 ELSE st + k - 1 - n
    OBVIOUS
  <2> HIDE DEF a, k
  <2>2. a % n = (st + k - 1) % n
    BY <1>1, <1>2, <2>1
  <2> QED
    BY <1>5, <2>2 DEF a, k
<1>7. \A i \in 1..(n + 1) : (st + i - 1) % n \in 0..(n - 1)
  <2> TAKE i \in 1..(n + 1)
  <2>1. (IF st + i - 1 < n THEN st + i - 1 ELSE st + i - 1 - n) \in 0..(n - 1)
    OBVIOUS
  <2> QED
    BY <1>2, <2>1
<1>8. (st + 1) % n \in 0..(n - 1)
  BY <1>5
<1> QED
  BY <1>3, <1>4, <1>6, <1>7, <1>8

LEMMA WindowMeans ==
    ASSUME NEW s, NEW n, s.len <= s.seq, s.seq <= n, s.len = 0 => s.seq = 0,
           \A i \in 1..s.len : s.buf[(s.start + i - 1) % Size] = n - s.len + i
    PROVE  Window(s, n)
BY Zenon DEF Window

\* A message takes the place after the window, which moves when the ring is full.
LEMMA PushKeepsWindow ==
    ASSUME NEW s \in Ring, NEW m \in Nat, m < MaxMsgs, Window(s, m), NEW id, id = m + 1
    PROVE  R!pushMessage(s, id) \in Ring /\ Window(R!pushMessage(s, id), id)
<1> DEFINE st == s.start
           ln == s.len
           sq == s.seq
           bf == s.buf
           at(i) == (st + i - 1) % Size
           idx == (st + ln) % Size
           b == [bf EXCEPT ![idx] = id]
           s1 == (st + 1) % Size
           p == R!pushMessage(s, id)
<1>1. /\ Size \in Nat \ {0} /\ MaxMsgs \in Nat
      /\ st \in 0..(Size - 1) /\ ln \in 0..Size /\ sq \in 0..MaxMsgs
      /\ bf \in [0..(Size - 1) -> 0..MaxMsgs]
      /\ ln <= sq /\ sq <= m
      /\ \A i \in 1..ln : bf[at(i)] = m - ln + i
  BY BuffersConstantsOK DEF Ring, Window
<1>2. p = [seq |-> sq + 1, buf |-> b, len |-> IF ln < Size THEN ln + 1 ELSE ln,
           start |-> IF ln < Size THEN st ELSE s1]
  BY DEF R!pushMessage
<1> HIDE DEF st, ln, sq, bf, p
<1>3. /\ \A i \in 1..(Size + 1) : at(i) \in 0..(Size - 1)
      /\ \A i, j \in 1..Size : i # j => at(i) # at(j)
      /\ (st + Size) % Size = st /\ at(1) = st /\ s1 \in 0..(Size - 1)
      /\ \A i \in 1..Size : (s1 + i - 1) % Size = at(i + 1)
  BY <1>1, PlacesOfWindow
<1>4. idx = at(ln + 1) /\ idx \in 0..(Size - 1)
  <2>1. ln + 1 \in 1..(Size + 1) /\ st + (ln + 1) - 1 = st + ln
    BY <1>1
  <2>2. idx = at(ln + 1)
    BY <2>1
  <2> HIDE DEF idx, at
  <2> QED
    BY <1>3, <2>1, <2>2
<1> HIDE DEF at
<1>5. ln = Size => idx = st
  BY <1>3
<1> HIDE DEF idx, s1
<1>6. /\ b \in [0..(Size - 1) -> 0..MaxMsgs] /\ b[idx] = id
      /\ \A j \in 0..(Size - 1) : j # idx => b[j] = bf[j]
  BY <1>1, <1>4
<1> HIDE DEF b
<1>7. ASSUME ln < Size PROVE p \in Ring /\ Window(p, id)
  <2>1. p = [seq |-> sq + 1, buf |-> b, len |-> ln + 1, start |-> st]
    BY <1>2, <1>7
  <2>2. p.seq = sq + 1 /\ p.buf = b /\ p.len = ln + 1 /\ p.start = st
    BY <2>1
  <2>3. p \in Ring
    <3>1. sq + 1 \in 0..MaxMsgs /\ ln + 1 \in 0..Size
      BY <1>1, <1>7
    <3> QED
      BY <1>1, <1>6, <2>1, <3>1 DEF Ring
  <2>4. ASSUME NEW i \in 1..(ln + 1) PROVE b[at(i)] = id - (ln + 1) + i
    <3>1. CASE i = ln + 1
      BY <1>1, <1>4, <1>6, <3>1
    <3>2. CASE i # ln + 1
      <4>1. i \in 1..ln /\ i \in 1..Size /\ ln + 1 \in 1..Size /\ i \in 1..(Size + 1)
        BY <1>1, <1>7, <3>2
      <4>2. at(i) # idx /\ at(i) \in 0..(Size - 1)
        BY <1>3, <1>4, <3>2, <4>1
      <4>3. b[at(i)] = m - ln + i
        BY <1>1, <1>6, <4>1, <4>2
      <4> QED
        BY <1>1, <4>1, <4>3
    <3> QED
      BY <3>1, <3>2
  <2>5. ln + 1 <= sq + 1 /\ sq + 1 <= id /\ ln + 1 # 0
    BY <1>1
  <2>6. \A i \in 1..p.len : p.buf[(p.start + i - 1) % Size] = id - p.len + i
    BY <2>2, <2>4, Zenon DEF at
  <2>7. p.len <= p.seq /\ p.seq <= id /\ (p.len = 0 => p.seq = 0)
    BY <2>2, <2>5, Zenon
  <2> QED
    BY <2>3, <2>6, <2>7, WindowMeans
<1>8. ASSUME ~(ln < Size) PROVE p \in Ring /\ Window(p, id)
  <2>1. ln = Size /\ idx = st
    BY <1>1, <1>5, <1>8
  <2>2. p = [seq |-> sq + 1, buf |-> b, len |-> Size, start |-> s1]
    BY <1>2, <1>8, <2>1
  <2>3. p.seq = sq + 1 /\ p.buf = b /\ p.len = Size /\ p.start = s1
    BY <2>2
  <2>4. p \in Ring
    <3>1. sq + 1 \in 0..MaxMsgs /\ Size \in 0..Size
      BY <1>1
    <3> QED
      BY <1>3, <1>6, <2>2, <3>1 DEF Ring
  <2>5. ASSUME NEW i \in 1..Size PROVE b[(s1 + i - 1) % Size] = id - Size + i
    <3>1. (s1 + i - 1) % Size = at(i + 1)
      BY <1>3
    <3>2. CASE i = Size
      BY <1>1, <1>4, <1>6, <2>1, <3>1, <3>2
    <3>3. CASE i # Size
      <4> DEFINE k == i + 1
      <4>1. k \in 1..ln /\ k \in 1..Size /\ k # 1 /\ 1 \in 1..Size /\ k \in 1..(Size + 1)
            /\ m - ln + k = id - Size + i
        BY <1>1, <2>1, <3>3
      <4>2. at(k) = (s1 + i - 1) % Size
        BY <3>1
      <4> HIDE DEF k
      <4>3. at(k) # idx /\ at(k) \in 0..(Size - 1)
        BY <1>3, <2>1, <4>1
      <4>4. b[at(k)] = m - ln + k
        BY <1>1, <1>6, <4>1, <4>3
      <4> QED
        BY <4>1, <4>2, <4>4
    <3> QED
      BY <3>2, <3>3
  <2>6. Size <= sq + 1 /\ sq + 1 <= id /\ Size # 0
    BY <1>1, <2>1
  <2>7. \A i \in 1..p.len : p.buf[(p.start + i - 1) % Size] = id - p.len + i
    BY <2>3, <2>5, Zenon
  <2>8. p.len <= p.seq /\ p.seq <= id /\ (p.len = 0 => p.seq = 0)
    BY <2>3, <2>6, Zenon
  <2> QED
    BY <2>4, <2>7, <2>8, WindowMeans
<1> QED
  BY <1>7, <1>8 DEF p

\* What is read from a window is the newest n messages, and all that are newer
\* than since unless the window begins after them.
LEMMA ReadFromWindow ==
    ASSUME NEW s \in Ring, NEW m \in 0..MaxMsgs, Window(s, m), NEW since \in -1..MaxMsgs
    PROVE  \E n \in 0..m :
             /\ R!readSince(s, since) = [i \in 1..n |-> m - n + i]
             /\ since >= 0 /\ since <= s.seq =>
                  /\ n = 0 => since = s.seq
                  /\ since <= s.seq - n
                  /\ R!IsTruncated(s, since) <=> since < s.seq - n
<1> DEFINE from == CHOOSE i \in 1..(s.len + 1) :
                     R!SeqAt(s, i) > since /\ \A j \in 1..(i - 1) : R!SeqAt(s, j) <= since
           first == IF since < s.seq - s.len THEN 1 ELSE since - s.seq + s.len + 1
<1>1. /\ Size \in Nat \ {0} /\ MaxMsgs \in Nat
      /\ s.start \in 0..(Size - 1) /\ s.len \in 0..Size /\ s.seq \in 0..MaxMsgs
      /\ s.len <= s.seq /\ s.seq <= m /\ (s.len = 0 => s.seq = 0)
      /\ \A i \in 1..s.len : s.buf[(s.start + i - 1) % Size] = m - s.len + i
  BY BuffersConstantsOK DEF Ring, Window
<1>2. \A i : R!SeqAt(s, i) = s.seq - s.len + i
  BY DEF R!SeqAt
<1>3. R!IsTruncated(s, since) <=> s.len > 0 /\ s.seq - s.len + 1 > since + 1
  BY <1>2 DEF R!IsTruncated
<1>4. CASE s.len = 0 \/ since >= s.seq
  <2>1. R!readSince(s, since) = <<>>
    BY <1>4 DEF R!readSince
  <2>2. [i \in 1..0 |-> m - 0 + i] = <<>>
    OBVIOUS
  <2>3. since >= 0 /\ since <= s.seq => since = s.seq /\ ~R!IsTruncated(s, since)
    <3> SUFFICES ASSUME since >= 0, since <= s.seq PROVE since = s.seq /\ ~R!IsTruncated(s, since)
      OBVIOUS
    <3>1. since = s.seq
      BY <1>1, <1>4
    <3>2. ~(s.len > 0 /\ s.seq - s.len + 1 > since + 1)
      BY <1>1, <3>1
    <3> QED
      BY <1>3, <3>1, <3>2
  <2>4. 0 \in 0..m /\ s.seq - 0 = s.seq
    BY <1>1
  <2> QED
    BY <2>1, <2>2, <2>3, <2>4
<1>5. CASE ~(s.len = 0 \/ since >= s.seq)
  <2>1. first \in 1..s.len /\ (first = 1 \/ first = since - s.seq + s.len + 1) /\ s.seq - s.len + first > since
    BY <1>1, <1>5
  <2>2. \A j \in 1..(first - 1) : s.seq - s.len + j <= since
    BY <1>1, <1>5
  <2>3. first \in 1..(s.len + 1)
    BY <1>1, <2>1
  <2> HIDE DEF first
  <2>4. \A i \in 1..(s.len + 1) :
          s.seq - s.len + i > since /\ (\A j \in 1..(i - 1) : s.seq - s.len + j <= since) => i = first
    <3> SUFFICES ASSUME NEW i \in 1..(s.len + 1), s.seq - s.len + i > since,
                        \A j \in 1..(i - 1) : s.seq - s.len + j <= since
                 PROVE  i = first
      OBVIOUS
    <3>1. ~(i < first)
      <4>1. i < first => i \in 1..(first - 1)
        BY <1>1, <2>3
      <4> QED
        BY <1>1, <2>2, <4>1
    <3>2. ~(first < i)
      <4>1. first < i => first \in 1..(i - 1)
        BY <1>1, <2>3
      <4> QED
        BY <1>1, <2>1, <4>1
    <3> QED
      BY <1>1, <2>3, <3>1, <3>2
  <2>5. from = first
    BY <1>2, <2>1, <2>2, <2>3, <2>4
  <2> HIDE DEF from
  <2> DEFINE n == s.len - first + 1
  <2>6. R!readSince(s, since) = [i \in 1..(s.len - from + 1) |-> s.buf[(s.start + from - 1 + i - 1) % Size]]
    BY <1>5 DEF R!readSince, from
  <2>7. n \in 1..s.len /\ n \in 0..m
    BY <1>1, <2>1
  <2>8. \A i \in 1..n : s.buf[(s.start + first - 1 + i - 1) % Size] = m - n + i
    <3> TAKE i \in 1..n
    <3> DEFINE k == first - 1 + i
    <3>1. k \in 1..s.len /\ m - s.len + k = m - n + i
      BY <1>1, <2>1
    <3>2. s.start + k - 1 = s.start + first - 1 + i - 1
      BY <1>1, <2>1
    <3>3. s.buf[(s.start + k - 1) % Size] = m - s.len + k
      <4> HIDE DEF k
      <4> QED
        BY <1>1, <3>1
    <3> HIDE DEF k
    <3> QED
      BY <3>1, <3>2, <3>3
  <2>9. R!readSince(s, since) = [i \in 1..n |-> m - n + i]
    <3>1. R!readSince(s, since) = [i \in 1..n |-> s.buf[(s.start + first - 1 + i - 1) % Size]]
      BY <2>5, <2>6
    <3> HIDE DEF n
    <3> QED
      BY <2>8, <3>1
  <2>10. since >= 0 /\ since <= s.seq =>
           /\ n = 0 => since = s.seq
           /\ since <= s.seq - n
           /\ R!IsTruncated(s, since) <=> since < s.seq - n
    BY <1>1, <1>3, <1>5, <2>1 DEF first
  <2> HIDE DEF n
  <2> QED
    BY <2>7, <2>9, <2>10
<1> QED
  BY <1>4, <1>5

MsgFrames == [kind: {"live", "msg", "end"}, id: 0..MaxMsgs, truncated: BOOLEAN]
Asked == {"subscribe", "unsubscribe", "replay"}

LEMMA ReplayTypes ==
    /\ R!ReplayTypeOK =>
         /\ buffers \in [Topics -> Ring] /\ total \in [Topics -> 0..MaxMsgs]
         /\ topicOrder \in Seq(Topics) /\ Len(topicOrder) \in Nat /\ Len(topicOrder) <= MaxTopics
         /\ up \in Seq(Asked) /\ down \in Seq(MsgFrames)
         /\ DOMAIN down = 1..Len(down) /\ Len(down) \in Nat
         /\ page \in [since: -1..MaxMsgs, loaded: 0..MaxMsgs]
         /\ page.since \in -1..MaxMsgs /\ page.loaded \in 0..MaxMsgs
         /\ out \in Seq(1..MaxMsgs) /\ DOMAIN out = 1..Len(out) /\ Len(out) \in Nat
         /\ stops \in 0..MaxStops
    /\ MaxMsgs \in Nat /\ Size \in Nat \ {0} /\ MaxTopics \in Nat \ {0} /\ MaxStops \in Nat
    /\ Chat \in Topics
<1>1. /\ MaxMsgs \in Nat /\ Size \in Nat \ {0} /\ MaxTopics \in Nat \ {0} /\ MaxStops \in Nat
      /\ Chat \in Topics
  BY BuffersConstantsOK
<1>2. ASSUME R!ReplayTypeOK
      PROVE  /\ buffers \in [Topics -> Ring] /\ total \in [Topics -> 0..MaxMsgs]
             /\ topicOrder \in Seq(Topics) /\ Len(topicOrder) <= MaxTopics
             /\ up \in Seq(Asked) /\ down \in Seq(MsgFrames)
             /\ page \in [since: -1..MaxMsgs, loaded: 0..MaxMsgs]
             /\ out \in Seq(1..MaxMsgs) /\ stops \in 0..MaxStops
  BY <1>2 DEF R!ReplayTypeOK, Ring, MsgFrames, Asked
<1>3. ASSUME R!ReplayTypeOK
      PROVE  /\ Len(topicOrder) \in Nat
             /\ DOMAIN down = 1..Len(down) /\ Len(down) \in Nat
             /\ DOMAIN out = 1..Len(out) /\ Len(out) \in Nat
             /\ page.since \in -1..MaxMsgs /\ page.loaded \in 0..MaxMsgs
  BY <1>2, <1>3, LenProperties
<1> QED
  BY <1>1, <1>2, <1>3

LEMMA UnknownIsEmpty == R!Unknown \in Ring /\ \A n \in Nat : Window(R!Unknown, n)
<1>1. Size \in Nat \ {0} /\ MaxMsgs \in Nat
  BY ReplayTypes
<1>2. R!Unknown \in Ring
  BY <1>1 DEF R!Unknown, Ring
<1>3. R!Unknown.len = 0 /\ R!Unknown.seq = 0
  BY DEF R!Unknown
<1>4. \A i : i \notin 1..0
  OBVIOUS
<1> QED
  BY <1>2, <1>3, <1>4, WindowMeans

\* As MapOrderProofs shows of Within.
LEMMA OrderKept ==
    ASSUME NEW s \in Seq(Topics), NEW K
    PROVE  /\ R!Within(s, K) \in Seq(Topics) /\ Len(R!Within(s, K)) <= Len(s)
           /\ \A i \in DOMAIN s : s[i] \notin K => Len(R!Within(s, K)) <= Len(s) - 1
           /\ Len(R!Within(s, K)) \in Nat /\ DOMAIN s = 1..Len(s) /\ Len(s) \in Nat
<1>1. R!Within(s, K) = Within(s, K)
  BY DEF R!Within, R!Nth, R!PlacesOf, R!Cardinality, Within, Nth, PlacesOf, Cardinality
<1>2. Within(s, K) \in Seq(Topics) /\ Len(Within(s, K)) <= Len(s)
  BY WithinShape
<1>3. DOMAIN s = 1..Len(s) /\ Len(s) \in Nat /\ Len(Within(s, K)) \in Nat
  BY <1>2, LenProperties
<1>4. \A i \in 1..Len(s) : s[i] \notin K => Len(Within(s, K)) <= Len(s) - 1
  BY WithinDrops
<1> QED
  BY <1>1, <1>2, <1>3, <1>4

\* A topic that comes last was there, or there is room, or the first one goes.
LEMMA OrderAppended ==
    ASSUME topicOrder \in Seq(Topics), Len(topicOrder) <= MaxTopics, NEW t \in Topics, NEW gone,
           R!Known(t) \/ Len(topicOrder) < MaxTopics \/ (topicOrder # <<>> /\ Head(topicOrder) \in gone),
           NEW after, after = Append(R!Within(topicOrder, Topics \ ({t} \cup gone)), t)
    PROVE  after \in Seq(Topics) /\ Len(after) <= MaxTopics
<1> DEFINE K == Topics \ ({t} \cup gone)
           left == R!Within(topicOrder, K)
<1>1. /\ left \in Seq(Topics) /\ Len(left) <= Len(topicOrder) /\ Len(left) \in Nat
      /\ \A i \in DOMAIN topicOrder : topicOrder[i] \notin K => Len(left) <= Len(topicOrder) - 1
      /\ DOMAIN topicOrder = 1..Len(topicOrder) /\ Len(topicOrder) \in Nat
  BY OrderKept
<1>2. MaxTopics \in Nat \ {0}
  BY ReplayTypes
<1>3. Len(left) <= MaxTopics - 1
  <2>1. CASE R!Known(t)
    <3>1. PICK i \in DOMAIN topicOrder : topicOrder[i] = t
      BY <2>1 DEF R!Known
    <3>2. topicOrder[i] \notin K
      BY <3>1
    <3> HIDE DEF left, K
    <3> QED
      BY <1>1, <1>2, <3>1, <3>2
  <2>2. CASE Len(topicOrder) < MaxTopics
    <3> HIDE DEF left, K
    <3> QED
      BY <1>1, <1>2, <2>2
  <2>3. CASE topicOrder # <<>> /\ Head(topicOrder) \in gone
    <3>1. topicOrder[1] = Head(topicOrder) /\ 1 \in DOMAIN topicOrder
      BY <1>1, <2>3, EmptySeq
    <3>2. topicOrder[1] \notin K
      BY <2>3, <3>1
    <3> HIDE DEF left, K
    <3> QED
      BY <1>1, <1>2, <3>1, <3>2
  <2> QED
    BY <2>1, <2>2, <2>3
<1> HIDE DEF left, K
<1>4. after = Append(left, t)
  BY DEF left, K
<1>5. after \in Seq(Topics) /\ Len(after) = Len(left) + 1
  <2>1. left \in Seq(Topics) /\ t \in Topics
    BY <1>1
  <2>2. Append(left, t) \in Seq(Topics) /\ Len(Append(left, t)) = Len(left) + 1
    BY <2>1, AppendProperties
  <2> QED
    BY <1>4, <2>2
<1> QED
  BY <1>1, <1>2, <1>3, <1>5

LEMMA TouchKeeps ==
    ASSUME topicOrder \in Seq(Topics), Len(topicOrder) <= MaxTopics, NEW t \in Topics
    PROVE  R!Touched(t) \in Seq(Topics) /\ Len(R!Touched(t)) <= MaxTopics
<1>1. CASE R!Known(t)
  <2>1. R!Touched(t) = Append(R!Within(topicOrder, Topics \ ({t} \cup {})), t)
    <3>1. {t} \cup {} = {t}
      OBVIOUS
    <3> QED
      BY <1>1, <3>1 DEF R!Touched
  <2> QED
    BY <1>1, <2>1, OrderAppended
<1>2. CASE ~R!Known(t)
  BY <1>2 DEF R!Touched
<1> QED
  BY <1>1, <1>2

LEMMA ReplayInitHolds == R!Init => ReplayInv
<1> SUFFICES ASSUME R!Init PROVE ReplayInv
  OBVIOUS
<1>1. /\ buffers = [t \in Topics |-> R!Unknown] /\ topicOrder = <<>>
      /\ total = [t \in Topics |-> 0] /\ slowGate \in BOOLEAN /\ gated = FALSE /\ subscribed = FALSE
      /\ conn = FALSE /\ up = <<>> /\ down = <<>> /\ page = R!NotLoaded /\ listening = FALSE
      /\ unasked = FALSE /\ hearing = FALSE /\ replayDone = FALSE /\ out = <<>> /\ truncated = FALSE
      /\ stops = 0 /\ excused = FALSE
  BY DEF R!Init
<1>2. MaxMsgs \in Nat /\ MaxTopics \in Nat \ {0} /\ MaxStops \in Nat
  BY ReplayTypes
<1>3. R!ReplayTypeOK
  <2>1. buffers \in [Topics -> Ring]
    BY <1>1, UnknownIsEmpty
  <2>2. page \in [since: -1..MaxMsgs, loaded: 0..MaxMsgs]
    BY <1>1, <1>2 DEF R!NotLoaded
  <2>3. topicOrder \in Seq(Topics) /\ Len(topicOrder) <= MaxTopics /\ out \in Seq(1..MaxMsgs)
    BY <1>1, <1>2, EmptySeq
  <2>4. up \in Seq(Asked) /\ down \in Seq(MsgFrames)
    BY <1>1, EmptySeq
  <2>5. total \in [Topics -> 0..MaxMsgs] /\ stops \in 0..MaxStops
    BY <1>1, <1>2
  <2> QED
    BY <1>1, <2>1, <2>2, <2>3, <2>4, <2>5 DEF R!ReplayTypeOK, Ring, MsgFrames, Asked
<1>4. \A t \in Topics : Window(buffers[t], total[t])
  BY <1>1, UnknownIsEmpty
<1>5. Story
  BY <1>1 DEF Story, CountsAgree, Idle
<1> QED
  BY <1>1, <1>3, <1>4, <1>5 DEF ReplayInv

\* What the story is told of stays as it is.
LEMMA StoryStays ==
    ASSUME Story, CountsAgree', UNCHANGED <<total[Chat], R!socket, down, R!store>>
    PROVE  Story'
<1>1. Idle => Idle'
  BY DEF Idle, R!socket, R!store
<1>2. Asking => Asking'
  BY DEF Asking, R!socket, R!store
<1>3. IsLive => IsLive'
  BY DEF IsLive, R!NoHoles, R!UpTo, R!socket, R!store
<1>4. Answering => Answering'
  <2>1. \A e, k, last : Pending(e, k, last) => Pending(e, k, last)'
    BY DEF Pending, R!store
  <2> QED
    BY <2>1 DEF Answering, R!socket, R!store
<1> QED
  BY <1>1, <1>2, <1>3, <1>4 DEF Story, R!socket

\* A frame sent after the others.
LEMMA FrameAppended ==
    ASSUME down \in Seq(MsgFrames), NEW f \in MsgFrames, NEW after, after = Append(down, f)
    PROVE  /\ after \in Seq(MsgFrames) /\ DOMAIN after = 1..(Len(down) + 1) /\ Len(after) = Len(down) + 1
           /\ \A i \in 1..Len(down) : after[i] = down[i]
           /\ after[Len(down) + 1] = f
           /\ \A i \in DOMAIN after : i \in DOMAIN down \/ i = Len(down) + 1
           /\ DOMAIN down = 1..Len(down) /\ Len(down) \in Nat
<1>1. /\ Append(down, f) \in Seq(MsgFrames) /\ Len(Append(down, f)) = Len(down) + 1
      /\ \A i \in 1..Len(down) : Append(down, f)[i] = down[i]
      /\ Append(down, f)[Len(down) + 1] = f
  BY AppendProperties
<1>2. DOMAIN after = 1..(Len(down) + 1) /\ DOMAIN down = 1..Len(down) /\ Len(down) \in Nat
  BY <1>1, LenProperties
<1> QED
  BY <1>1, <1>2

LEMMA ReplayPublishKeeps ==
    ASSUME ReplayInv, NEW t \in Topics, R!Publish(t)
    PROVE  ReplayInv'
<1> DEFINE id == total[t] + 1
           gone == R!Forgotten(t)
           f == [kind |-> "live", id |-> id, truncated |-> FALSE]
           N == Len(down)
<1>1. /\ total[t] < MaxMsgs /\ total' = [total EXCEPT ![t] = id]
      /\ buffers' = [x \in Topics |-> IF x = t THEN R!pushMessage(buffers[t], id)
                                      ELSE IF x \in gone THEN R!Unknown ELSE buffers[x]]
      /\ topicOrder' = Append(R!Within(topicOrder, Topics \ ({t} \cup gone)), t)
      /\ down' = (IF t = Chat /\ subscribed THEN Append(down, f) ELSE down)
      /\ excused' = (excused \/ (Chat \in gone /\ page # R!NotLoaded))
      /\ UNCHANGED <<slowGate, gated, subscribed, conn, up, page, listening, unasked, hearing,
                     replayDone, out, truncated, stops>>
  BY DEF R!Publish, R!socket, R!store
<1>2. /\ R!ReplayTypeOK /\ buffers \in [Topics -> Ring] /\ total \in [Topics -> 0..MaxMsgs]
      /\ topicOrder \in Seq(Topics) /\ Len(topicOrder) <= MaxTopics /\ Len(topicOrder) \in Nat
      /\ down \in Seq(MsgFrames) /\ N \in Nat /\ DOMAIN down = 1..N
      /\ MaxMsgs \in Nat /\ MaxTopics \in Nat \ {0} /\ Chat \in Topics
      /\ Len(out) \in Nat
  BY ReplayTypes DEF ReplayInv
<1>3. id \in 1..MaxMsgs /\ total[t] \in Nat
  BY <1>1, <1>2
<1>4. /\ total' \in [Topics -> 0..MaxMsgs] /\ total'[t] = id
      /\ \A x \in Topics : x # t => total'[x] = total[x]
  BY <1>1, <1>2, <1>3
<1>5. f \in MsgFrames /\ f.kind = "live" /\ f.id = id
  BY <1>2, <1>3 DEF MsgFrames
<1>6. R!pushMessage(buffers[t], id) \in Ring /\ Window(R!pushMessage(buffers[t], id), id)
      /\ R!pushMessage(buffers[t], id).seq = buffers[t].seq + 1
  <2>1. buffers[t] \in Ring /\ Window(buffers[t], total[t])
    BY <1>2 DEF ReplayInv
  <2>2. R!pushMessage(buffers[t], id).seq = buffers[t].seq + 1
    BY DEF R!pushMessage
  <2>3. R!pushMessage(buffers[t], id) \in Ring /\ Window(R!pushMessage(buffers[t], id), id)
    BY <1>1, <1>3, <2>1, PushKeepsWindow
  <2> QED
    BY <2>2, <2>3
<1> HIDE DEF f, N
<1>7. buffers' \in [Topics -> Ring] /\ \A x \in Topics : Window(buffers'[x], total'[x])
  <2>1. ASSUME NEW x \in Topics PROVE buffers'[x] \in Ring /\ Window(buffers'[x], total'[x])
    <3>1. CASE x = t
      <4>1. buffers'[x] = R!pushMessage(buffers[t], id)
        BY <1>1, <3>1
      <4> QED
        BY <1>4, <1>6, <3>1, <4>1
    <3>2. CASE x # t /\ x \in gone
      <4>1. buffers'[x] = R!Unknown /\ total'[x] \in Nat
        BY <1>1, <1>2, <1>4, <3>2
      <4> QED
        BY <4>1, UnknownIsEmpty
    <3>3. CASE x # t /\ x \notin gone
      <4>1. buffers'[x] = buffers[x] /\ total'[x] = total[x]
        BY <1>1, <1>4, <3>3
      <4> QED
        BY <1>2, <4>1 DEF ReplayInv
    <3> QED
      BY <3>1, <3>2, <3>3
  <2>2. buffers' = [x \in Topics |-> buffers'[x]]
    BY <1>1
  <2> QED
    BY <2>1, <2>2
<1>8. topicOrder' \in Seq(Topics) /\ Len(topicOrder') <= MaxTopics
  <2>1. R!Known(t) \/ Len(topicOrder) < MaxTopics \/ (topicOrder # <<>> /\ Head(topicOrder) \in gone)
    <3> SUFFICES ASSUME ~R!Known(t), ~(Len(topicOrder) < MaxTopics)
                 PROVE  topicOrder # <<>> /\ Head(topicOrder) \in gone
      OBVIOUS
    <3>1. Len(topicOrder) >= MaxTopics /\ Len(topicOrder) # 0
      BY <1>2
    <3>2. gone = {Head(topicOrder)}
      BY <3>1 DEF R!Forgotten
    <3> QED
      BY <1>2, <3>1, <3>2, EmptySeq
  <2> HIDE DEF gone
  <2> QED
    BY <1>1, <1>2, <2>1, OrderAppended
<1>9. /\ down' \in Seq(MsgFrames)
      /\ \A i \in DOMAIN down' : down'[i].kind # "end" => down'[i].id > 0
  <2>1. CASE t = Chat /\ subscribed
    <3>1. down' = Append(down, f)
      BY <1>1, <2>1
    <3>2. /\ down' \in Seq(MsgFrames)
          /\ \A i \in DOMAIN down' : i \in DOMAIN down \/ i = Len(down) + 1
          /\ \A i \in 1..Len(down) : down'[i] = down[i]
          /\ down'[Len(down) + 1] = f
      BY <1>2, <1>5, <3>1, FrameAppended
    <3>3. \A i \in DOMAIN down : down'[i] = down[i] /\ (down[i].kind # "end" => down[i].id > 0)
      BY <1>2, <3>2 DEF ReplayInv, N
    <3>4. f.id > 0
      BY <1>2, <1>3, <1>5
    <3> QED
      BY <3>2, <3>3, <3>4
  <2>2. CASE ~(t = Chat /\ subscribed)
    BY <1>1, <1>2, <2>2 DEF ReplayInv
  <2> QED
    BY <2>1, <2>2
<1>10. excused' \in BOOLEAN
  <2>1. excused \in BOOLEAN
    BY <1>2 DEF R!ReplayTypeOK
  <2> QED
    BY <1>1, <2>1
<1>11. R!ReplayTypeOK'
  BY <1>1, <1>2, <1>4, <1>7, <1>8, <1>9, <1>10 DEF R!ReplayTypeOK, Ring, MsgFrames
<1>12. slowGate' \/ excused' \/ Story'
  <2> SUFFICES ASSUME ~slowGate, ~excused' PROVE Story'
    BY <1>1
  <2>1. Story /\ (page # R!NotLoaded => Chat \notin gone)
    BY <1>1 DEF ReplayInv
  <2>2. CASE t # Chat
    <3>1. /\ total'[Chat] = total[Chat] /\ down' = down
          /\ (page # R!NotLoaded => buffers'[Chat] = buffers[Chat])
      BY <1>1, <1>2, <1>4, <2>1, <2>2
    <3>2. CountsAgree'
      BY <1>1, <2>1, <3>1 DEF Story, CountsAgree
    <3> QED
      BY <1>1, <2>1, <3>1, <3>2, StoryStays DEF R!socket, R!store
  <2>3. CASE t = Chat
    <3>1. total'[Chat] = total[Chat] + 1 /\ buffers'[Chat].seq = buffers[Chat].seq + 1
      <4>1. buffers'[Chat] = R!pushMessage(buffers[t], id)
        BY <1>1, <1>2, <2>3
      <4> QED
        BY <1>4, <1>6, <2>3, <4>1
    <3>0. total[Chat] \in Nat /\ buffers[Chat].seq \in Int /\ page.loaded \in Int /\ page.since \in Int
      BY <1>2, ReplayTypes DEF Ring
    <3>2. CountsAgree'
      BY <1>1, <2>1, <3>0, <3>1 DEF Story, CountsAgree
    <3>3. CASE ~subscribed
      <4>1. down' = down /\ ~Answering /\ ~IsLive
        BY <1>1, <3>3 DEF Answering, IsLive
      <4>2. (Idle => Idle') /\ (Asking => Asking')
        BY <1>1, <4>1 DEF Idle, Asking
      <4> QED
        BY <1>1, <2>1, <3>2, <4>1, <4>2 DEF Story
    <3>4. CASE subscribed
      <4>1. down' = Append(down, f)
        BY <1>1, <2>3, <3>4
      <4>2. /\ DOMAIN down' = 1..(N + 1) /\ Len(down') = N + 1
            /\ \A i \in 1..N : down'[i] = down[i]
            /\ down'[N + 1] = f
            /\ \A i \in DOMAIN down' : i \in DOMAIN down \/ i = N + 1
        BY <1>2, <1>5, <4>1, FrameAppended DEF N
      <4>3. f.id = total[Chat] + 1
        BY <1>5, <2>3
      <4>4. ~Idle
        BY <3>4 DEF Idle
      <4>5. Asking => Asking'
        BY <1>1, <1>2, <1>5, <3>4, <4>2 DEF Asking
      <4>6. Answering => Answering'
        <5> SUFFICES ASSUME Answering PROVE Answering'
          OBVIOUS
        <5>1. PICK e \in DOMAIN down : \E k \in 0..(e - 1), last \in Nat : Pending(e, k, last)
          BY DEF Answering
        <5>2. PICK k \in 0..(e - 1), last \in Nat : Pending(e, k, last)
          BY <5>1
        <5>3. e \in 1..N /\ e # N + 1 /\ e \in DOMAIN down' /\ N + 1 > e /\ N + 1 \notin (e - k)..e
          BY <1>2, <4>2
        <5>4. last + N - e = total[Chat]
          BY <5>2 DEF Pending, N
        <5>5. \A i \in DOMAIN down' :
                /\ down'[i].kind = IF i = e THEN "end" ELSE IF i \in (e - k)..e THEN "msg" ELSE "live"
                /\ i \in (e - k)..(e - 1) => down'[i].id = last + 1 + i - e
                /\ i > e => down'[i].id = last + i - e
          <6> TAKE i \in DOMAIN down'
          <6>1. CASE i \in DOMAIN down
            BY <1>2, <4>2, <5>2, <6>1 DEF Pending
          <6>2. CASE i = N + 1
            <7>1. i \notin (e - k)..(e - 1) /\ last + i - e = total[Chat] + 1
              <8>1. e \in Int /\ k \in Int /\ i \in Int /\ i = N + 1 /\ N + 1 > e
                BY <1>2, <5>3, <6>2
              <8>2. \A j \in (e - k)..(e - 1) : j < e
                BY <8>1
              <8>3. last + i - e = (last + N - e) + 1
                BY <1>2, <8>1
              <8> QED
                BY <1>2, <5>4, <8>1, <8>2, <8>3
            <7> QED
              BY <1>5, <4>2, <4>3, <5>3, <6>2, <7>1
          <6> QED
            BY <4>2, <6>1, <6>2
        <5>6. last + Len(down') - e = total'[Chat]
          BY <1>2, <3>1, <4>2, <5>3, <5>4
        <5>7. down'[e] = down[e]
          BY <4>2, <5>3
        <5>8. Pending(e, k, last)'
          BY <1>1, <5>2, <5>5, <5>6, <5>7 DEF Pending
        <5> QED
          BY <1>1, <5>3, <5>8 DEF Answering
      <4>7. IsLive => IsLive'
        <5> SUFFICES ASSUME IsLive PROVE IsLive'
          OBVIOUS
        <5>1. /\ replayDone /\ \A i \in 1..(Len(out) - 1) : out[i + 1] = out[i] + 1
              /\ truncated <=> (out # <<>> /\ out[1] > page.loaded + 1)
              /\ R!UpTo + N = total[Chat]
              /\ \A i \in DOMAIN down : down[i].kind = "live" /\ down[i].id = R!UpTo + i
          BY DEF IsLive, R!NoHoles, N
        <5>2. R!UpTo' = R!UpTo /\ R!UpTo \in Int
          <6>1. out \in Seq(1..MaxMsgs) /\ page.loaded \in Int
            BY <1>2, <3>0, ReplayTypes
          <6>2. out # <<>> => Len(out) \in 1..Len(out)
            BY <1>2, <6>1, EmptySeq
          <6>3. out # <<>> => out[Len(out)] \in 1..MaxMsgs
            BY <6>1, <6>2, ElementOfSeq
          <6> QED
            BY <1>1, <6>1, <6>3 DEF R!UpTo
        <5>3. R!UpTo + Len(down') = total'[Chat]
          BY <1>2, <3>0, <3>1, <4>2, <5>1, <5>2
        <5>4. \A i \in DOMAIN down' : down'[i].kind = "live" /\ down'[i].id = R!UpTo + i
          <6> TAKE i \in DOMAIN down'
          <6>1. CASE i \in DOMAIN down
            BY <1>2, <4>2, <5>1, <6>1
          <6>2. CASE i = N + 1
            <7>1. R!UpTo + i = total[Chat] + 1
              BY <1>2, <3>0, <5>1, <5>2, <6>2
            <7> QED
              BY <1>5, <4>2, <4>3, <6>2, <7>1
          <6> QED
            BY <4>2, <6>1, <6>2
        <5>5. R!NoHoles'
          BY <1>1, <5>1, <5>2, <5>3, <5>4 DEF R!NoHoles
        <5> QED
          BY <1>1, <5>5 DEF IsLive
      <4> QED
        BY <1>1, <2>1, <3>2, <4>4, <4>5, <4>6, <4>7 DEF Story
    <3> QED
      BY <3>3, <3>4
  <2> QED
    BY <2>2, <2>3
<1> QED
  BY <1>7, <1>9, <1>11, <1>12 DEF ReplayInv

LEMMA ClearTopicKeeps ==
    ASSUME ReplayInv, NEW t \in Topics, R!ClearTopic(t)
    PROVE  ReplayInv'
<1>1. /\ buffers' = [buffers EXCEPT ![t] = R!Unknown]
      /\ topicOrder' = R!Within(topicOrder, Topics \ {t})
      /\ excused' = (excused \/ (t = Chat /\ page # R!NotLoaded))
      /\ UNCHANGED <<total, slowGate, gated, subscribed, conn, up, down, page, listening, unasked,
                     hearing, replayDone, out, truncated, stops>>
  BY DEF R!ClearTopic, R!socket, R!store
<1>2. /\ R!ReplayTypeOK /\ buffers \in [Topics -> Ring] /\ total \in [Topics -> 0..MaxMsgs]
      /\ topicOrder \in Seq(Topics) /\ Len(topicOrder) <= MaxTopics
      /\ MaxMsgs \in Nat /\ MaxTopics \in Nat /\ Chat \in Topics
  BY ReplayTypes DEF ReplayInv
<1>3. buffers' \in [Topics -> Ring]
  BY <1>1, <1>2, UnknownIsEmpty
<1>4. \A x \in Topics : Window(buffers'[x], total'[x])
  <2> TAKE x \in Topics
  <2>1. CASE x = t
    <3>1. buffers'[x] = R!Unknown /\ total'[x] \in Nat
      BY <1>1, <1>2, <2>1
    <3> QED
      BY <3>1, UnknownIsEmpty
  <2>2. CASE x # t
    BY <1>1, <1>2, <2>2 DEF ReplayInv
  <2> QED
    BY <2>1, <2>2
<1>5. topicOrder' \in Seq(Topics) /\ Len(topicOrder') <= MaxTopics
  BY <1>1, <1>2, OrderKept
<1>6. R!ReplayTypeOK'
  <2>1. excused \in BOOLEAN
    BY <1>2 DEF R!ReplayTypeOK
  <2>2. excused' \in BOOLEAN
    BY <1>1, <2>1
  <2> QED
    BY <1>1, <1>2, <1>3, <1>5, <2>2 DEF R!ReplayTypeOK, Ring
<1>7. slowGate' \/ excused' \/ Story'
  <2> SUFFICES ASSUME ~slowGate, ~excused' PROVE Story'
    BY <1>1
  <2>1. Story /\ (t = Chat => page = R!NotLoaded)
    BY <1>1 DEF ReplayInv
  <2>2. CountsAgree'
    BY <1>1, <1>2, <2>1 DEF Story, CountsAgree
  <2> QED
    BY <1>1, <2>1, <2>2, StoryStays DEF R!socket, R!store
<1> QED
  BY <1>1, <1>4, <1>6, <1>7 DEF ReplayInv

\* What comes after a places and before the one that follows b more.
LEMMA AmongThem ==
    \A a, b \in Nat : \A c \in 1..(a + b + 1) :
      c \notin 1..a /\ c # a + b + 1 => c - a \in 1..b /\ c = a + (c - a) /\ c \in (a + 1)..(a + b)
OBVIOUS

\* after is what there is to receive once n messages and a marker have answered.
AnswerIs(after, n) ==
    /\ after \in Seq(MsgFrames) /\ DOMAIN after = 1..(Len(down) + n + 1)
    /\ \A i \in 1..Len(down) : after[i] = down[i]
    /\ \A i \in 1..n : after[Len(down) + i].kind = "msg" /\ after[Len(down) + i].id = total[Chat] - n + i
    /\ after[Len(down) + n + 1].kind = "end"
    /\ page.since >= 0 /\ page.since <= buffers[Chat].seq =>
         /\ n = 0 => page.since = buffers[Chat].seq
         /\ page.since <= buffers[Chat].seq - n
         /\ after[Len(down) + n + 1].truncated <=> page.since < buffers[Chat].seq - n

LEMMA AnswerShape ==
    ASSUME ReplayInv, NEW after, after = down \o R!Answer(page.since)
    PROVE  \E n \in 0..total[Chat] : AnswerIs(after, n)
<1> DEFINE s == buffers[Chat]
           m == total[Chat]
           since == page.since
           read == R!readSince(s, since)
           N == Len(down)
           cut == R!IsTruncated(s, since)
           msg(x) == [kind |-> "msg", id |-> x, truncated |-> FALSE]
           msgs == [i \in DOMAIN read |-> msg(read[i])]
           mark == [kind |-> "end", id |-> 0, truncated |-> cut]
           more == R!Answer(since)
<1>1. /\ s \in Ring /\ m \in 0..MaxMsgs /\ Window(s, m) /\ since \in -1..MaxMsgs
      /\ down \in Seq(MsgFrames) /\ N \in Nat /\ MaxMsgs \in Nat
  BY ReplayTypes DEF ReplayInv
<1>2. more = msgs \o <<mark>>
  BY DEF R!Answer
<1>3. cut \in BOOLEAN
  BY DEF R!IsTruncated
<1>4. mark \in MsgFrames /\ mark.kind = "end" /\ mark.truncated = cut
  BY <1>1, <1>3 DEF MsgFrames
<1>5. \A x \in 0..MaxMsgs : msg(x) \in MsgFrames /\ msg(x).kind = "msg" /\ msg(x).id = x
  BY DEF MsgFrames
<1>6. PICK n \in 0..m :
             /\ read = [i \in 1..n |-> m - n + i]
             /\ since >= 0 /\ since <= s.seq =>
                  /\ n = 0 => since = s.seq
                  /\ since <= s.seq - n
                  /\ cut <=> since < s.seq - n
  <2> HIDE DEF s, m, since
  <2> QED
    BY <1>1, ReadFromWindow
<1> HIDE DEF s, m, since, read, N, cut, msg, mark, more
<1>7. DOMAIN read = 1..n /\ \A i \in 1..n : read[i] = m - n + i /\ m - n + i \in 0..MaxMsgs
  BY <1>1, <1>6
<1>8. /\ msgs \in Seq(MsgFrames) /\ Len(msgs) = n
      /\ \A i \in 1..n : msgs[i].kind = "msg" /\ msgs[i].id = m - n + i
  <2>1. \A i \in 1..n : msgs[i] = msg(m - n + i)
    BY <1>7
  <2>2. \A i \in 1..n : msgs[i] \in MsgFrames /\ msgs[i].kind = "msg" /\ msgs[i].id = m - n + i
    BY <1>5, <1>7, <2>1
  <2>3. msgs = [i \in 1..n |-> msgs[i]]
    BY <1>7
  <2> HIDE DEF msgs
  <2>4. msgs \in [1..n -> MsgFrames]
    BY <2>2, <2>3
  <2>5. n \in Nat
    BY <1>1
  <2> QED
    BY <2>2, <2>4, <2>5
<1> HIDE DEF msgs
<1>9. /\ more \in Seq(MsgFrames) /\ Len(more) = n + 1
      /\ \A i \in 1..n : more[i] = msgs[i]
      /\ more[n + 1] = mark
  <2>1. more = Append(msgs, mark)
    BY <1>2, <1>4, <1>8, AppendIsConcat
  <2>2. msgs \in Seq(MsgFrames) /\ mark \in MsgFrames
    BY <1>4, <1>8
  <2>3. /\ Append(msgs, mark) \in Seq(MsgFrames) /\ Len(Append(msgs, mark)) = Len(msgs) + 1
        /\ \A i \in 1..Len(msgs) : Append(msgs, mark)[i] = msgs[i]
        /\ Append(msgs, mark)[Len(msgs) + 1] = mark
    BY <2>2, AppendProperties
  <2> QED
    BY <1>8, <2>1, <2>3
<1>10. after = down \o more
  BY DEF more, since
<1>11. /\ after \in Seq(MsgFrames) /\ Len(after) = N + Len(more)
       /\ \A i \in 1..(N + Len(more)) : after[i] = IF i <= N THEN down[i] ELSE more[i - N]
  <2>1. down \in Seq(MsgFrames) /\ more \in Seq(MsgFrames)
    BY <1>1, <1>9
  <2>2. /\ down \o more \in Seq(MsgFrames) /\ Len(down \o more) = Len(down) + Len(more)
        /\ \A i \in 1..(Len(down) + Len(more)) :
             (down \o more)[i] = IF i <= Len(down) THEN down[i] ELSE more[i - Len(down)]
    BY <2>1, ConcatProperties
  <2> QED
    BY <1>10, <2>2 DEF N
<1>12. DOMAIN after = 1..(N + n + 1) /\ n \in Nat
  BY <1>1, <1>9, <1>11, LenProperties
<1>13. \A i \in 1..N : after[i] = down[i]
  BY <1>1, <1>9, <1>11
<1>14. ASSUME NEW i \in 1..(n + 1) PROVE after[N + i] = more[i]
  <2> DEFINE j == N + i
  <2>1. j \in 1..(N + Len(more)) /\ ~(j <= N) /\ j - N = i
    BY <1>1, <1>9, <1>12
  <2>2. after[j] = IF j <= N THEN down[j] ELSE more[j - N]
    <3> HIDE DEF j
    <3> QED
      BY <1>11, <2>1
  <2> QED
    BY <2>1, <2>2
<1>15. \A i \in 1..n : after[N + i].kind = "msg" /\ after[N + i].id = m - n + i
  <2> TAKE i \in 1..n
  <2>1. i \in 1..(n + 1)
    BY <1>12
  <2>2. after[N + i] = msgs[i]
    BY <1>9, <1>14, <2>1
  <2> QED
    BY <1>8, <2>2
<1>16. after[N + n + 1] = mark
  <2>1. n + 1 \in 1..(n + 1) /\ N + (n + 1) = N + n + 1
    BY <1>1, <1>12
  <2> QED
    BY <1>9, <1>14, <2>1
<1>17. AnswerIs(after, n)
  <2>1. since >= 0 /\ since <= s.seq =>
          /\ n = 0 => since = s.seq
          /\ since <= s.seq - n
          /\ after[N + n + 1].truncated <=> since < s.seq - n
    BY <1>4, <1>6, <1>16
  <2> QED
    BY <1>4, <1>11, <1>12, <1>13, <1>15, <1>16, <2>1 DEF AnswerIs, N, s, m, since
<1> QED
  BY <1>17 DEF m

LEMMA AnswerReplayKeeps ==
    ASSUME ReplayInv, R!AnswerReplay
    PROVE  ReplayInv'
<1> DEFINE N == Len(down)
           T == total[Chat]
<1>1. /\ up # <<>> /\ Head(up) = "replay" /\ up' = Tail(up)
      /\ topicOrder' = R!Touched(Chat) /\ down' = down \o R!Answer(page.since)
      /\ UNCHANGED <<buffers, total, slowGate, gated, subscribed, conn, page, listening, unasked,
                     hearing, replayDone, out, truncated, stops, excused>>
  BY DEF R!AnswerReplay, R!store
<1>2. /\ R!ReplayTypeOK /\ topicOrder \in Seq(Topics) /\ Len(topicOrder) <= MaxTopics
      /\ up \in Seq(Asked) /\ down \in Seq(MsgFrames) /\ N \in Nat /\ DOMAIN down = 1..N
      /\ Chat \in Topics /\ MaxMsgs \in Nat /\ T \in 0..MaxMsgs
      /\ buffers[Chat].seq \in Int /\ page.since \in Int /\ page.loaded \in Int
  BY ReplayTypes DEF ReplayInv, Ring
<1>0. PICK n \in 0..T : AnswerIs(down', n)
  BY <1>1, AnswerShape
<1>3. /\ n \in Nat
      /\ down' \in Seq(MsgFrames) /\ DOMAIN down' = 1..(N + n + 1)
      /\ \A i \in 1..N : down'[i] = down[i]
      /\ \A i \in 1..n : down'[N + i].kind = "msg" /\ down'[N + i].id = T - n + i
      /\ down'[N + n + 1].kind = "end"
      /\ page.since >= 0 /\ page.since <= buffers[Chat].seq =>
           /\ n = 0 => page.since = buffers[Chat].seq
           /\ page.since <= buffers[Chat].seq - n
           /\ down'[N + n + 1].truncated <=> page.since < buffers[Chat].seq - n
  BY <1>0, <1>2 DEF AnswerIs
<1>4. up' \in Seq(Asked)
  BY <1>1, <1>2, HeadTailProperties
<1>5. R!ReplayTypeOK'
  <2>1. topicOrder' \in Seq(Topics) /\ Len(topicOrder') <= MaxTopics
    BY <1>1, <1>2, TouchKeeps
  <2> QED
    BY <1>1, <1>2, <1>3, <1>4, <2>1 DEF R!ReplayTypeOK, MsgFrames, Asked
<1> HIDE DEF N, T
\* The places of the answer.
<1>6. \A i \in DOMAIN down' :
        \/ i \in 1..N /\ down'[i] = down[i]
        \/ /\ i \in (N + 1)..(N + n) /\ down'[i].kind = "msg" /\ down'[i].id = T - n + (i - N)
        \/ i = N + n + 1
  <2> TAKE i \in DOMAIN down'
  <2>1. i \in 1..(N + n + 1)
    BY <1>3
  <2>2. CASE i \in 1..N
    BY <1>3, <2>2
  <2>3. CASE i \notin 1..N /\ i # N + n + 1
    <3> DEFINE j == i - N
    <3>1. j \in 1..n /\ i = N + j /\ i \in (N + 1)..(N + n)
      <4>1. N \in Nat /\ n \in Nat
        BY <1>2, <1>3
      <4> QED
        BY <2>1, <2>3, <4>1, AmongThem
    <3> HIDE DEF j
    <3>2. down'[N + j].kind = "msg" /\ down'[N + j].id = T - n + j
      BY <1>3, <3>1
    <3> QED
      BY <3>1, <3>2 DEF j
  <2> QED
    BY <2>2, <2>3
<1>7. \A i \in DOMAIN down' : down'[i].kind # "end" => down'[i].id > 0
  <2> TAKE i \in DOMAIN down'
  <2>1. CASE i \in 1..N /\ down'[i] = down[i]
    BY <1>2, <2>1 DEF ReplayInv
  <2>2. CASE i \in (N + 1)..(N + n) /\ down'[i].id = T - n + (i - N)
    <3>1. T - n + (i - N) > 0
      BY <1>0, <1>2, <1>3, <2>2
    <3> QED
      BY <2>2, <3>1
  <2>3. CASE i = N + n + 1
    BY <1>3, <2>3
  <2> QED
    BY <1>6, <2>1, <2>2, <2>3
<1>8. slowGate' \/ excused' \/ Story'
  <2> SUFFICES ASSUME ~slowGate, ~excused PROVE Story'
    BY <1>1
  <2>1. Story
    BY DEF ReplayInv
  <2>2. Asking
    BY <1>1, <2>1 DEF Story, Idle, Answering, IsLive
  <2>3. up # <<"subscribe", "replay">>
    <3>1. Head(<<"subscribe", "replay">>) = "subscribe"
      OBVIOUS
    <3> QED
      BY <1>1, <3>1
  <2>4. /\ conn /\ ~unasked /\ up = <<"replay">> /\ subscribed
        /\ \A i \in DOMAIN down : down[i].kind = "live"
        /\ listening /\ page # R!NotLoaded /\ hearing /\ ~replayDone /\ out = <<>> /\ ~truncated
    BY <1>1, <2>2, <2>3 DEF Asking
  <2>5. up' = <<>>
    <3>1. Tail(<<"replay">>) = <<>>
      OBVIOUS
    <3> QED
      BY <1>1, <2>4, <3>1
  <2>6. CountsAgree' /\ ~gated'
    BY <1>1, <2>1 DEF Story, CountsAgree
  <2>7. /\ page.since >= 0 /\ page.loaded <= T /\ T - buffers[Chat].seq = page.loaded - page.since
        /\ page.since <= buffers[Chat].seq
    BY <1>2, <2>1, <2>4 DEF Story, CountsAgree, T
  <2>8. /\ n = 0 => T = page.loaded
        /\ page.loaded <= T - n
        /\ down'[N + n + 1].truncated <=> page.loaded < T - n
    <3>1. n = 0 => page.since = buffers[Chat].seq
      BY <1>3, <2>7
    <3>2. page.since <= buffers[Chat].seq - n
      BY <1>3, <2>7
    <3>3. down'[N + n + 1].truncated <=> page.since < buffers[Chat].seq - n
      BY <1>3, <2>7
    <3> DEFINE p == page.since
               l == page.loaded
               q == buffers[Chat].seq
    <3>4. p \in Int /\ l \in Int /\ q \in Int /\ T \in Int /\ n \in Int /\ T - q = l - p
      BY <1>2, <1>3, <2>7
    <3> HIDE DEF p, l, q
    <3>5. (p = q => T = l) /\ (p <= q - n <=> l <= T - n) /\ (p < q - n <=> l < T - n)
      BY <3>4
    <3>6. /\ page.since = buffers[Chat].seq => T = page.loaded
          /\ page.since <= buffers[Chat].seq - n <=> page.loaded <= T - n
          /\ page.since < buffers[Chat].seq - n <=> page.loaded < T - n
      BY <3>5 DEF p, l, q
    <3> QED
      BY <3>1, <3>2, <3>3, <3>6
  <2>9. PICK e \in DOMAIN down', last \in Nat : e = N + n + 1 /\ last = T
    <3>1. N + n + 1 \in DOMAIN down' /\ T \in Nat
      BY <1>2, <1>3
    <3> QED
      BY <3>1
  <2>90. n \in 0..(e - 1) /\ e - n = N + 1 /\ e \in Int
    BY <1>2, <1>3, <2>9
  <2>10. \A i \in DOMAIN down' :
           /\ down'[i].kind = IF i = e THEN "end" ELSE IF i \in (e - n)..e THEN "msg" ELSE "live"
           /\ i \in (e - n)..(e - 1) => down'[i].id = last + 1 + i - e
           /\ ~(i > e)
    <3> TAKE i \in DOMAIN down'
    <3>0. i \in 1..(N + n + 1)
      BY <1>3
    <3>1. CASE i \in 1..N /\ down'[i] = down[i]
      <4>1. i # e /\ i \notin (e - n)..e /\ ~(i > e) /\ i \notin (e - n)..(e - 1)
        BY <1>2, <1>3, <2>9, <3>1
      <4>2. down'[i].kind = "live"
        BY <1>2, <2>4, <3>1
      <4> QED
        BY <4>1, <4>2
    <3>2. CASE i \in (N + 1)..(N + n) /\ down'[i].kind = "msg" /\ down'[i].id = T - n + (i - N)
      <4>1. \A a, b \in Nat, c, d \in Int : c \in (a + 1)..(a + b) =>
              /\ c # a + b + 1 /\ c \in (a + b + 1 - b)..(a + b + 1) /\ ~(c > a + b + 1)
              /\ d - b + (c - a) = d + 1 + c - (a + b + 1)
        OBVIOUS
      <4>2. N \in Nat /\ T \in Int /\ i \in Int /\ i \in (N + 1)..(N + n)
        BY <1>2, <3>0, <3>2
      <4>3. /\ i # N + n + 1 /\ i \in (N + n + 1 - n)..(N + n + 1) /\ ~(i > N + n + 1)
            /\ T - n + (i - N) = T + 1 + i - (N + n + 1)
        BY <1>3, <4>1, <4>2
      <4>4. i # e /\ i \in (e - n)..e /\ ~(i > e) /\ T - n + (i - N) = last + 1 + i - e
        <5>1. e = N + n + 1 /\ last = T
          BY <2>9
        <5>2. n \in Nat
          BY <1>3
        <5> QED
          BY <4>2, <5>1, <5>2
      <4> QED
        BY <3>2, <4>4
    <3>3. CASE i = e
      <4>1. ~(i > e) /\ i \notin (e - n)..(e - 1)
        BY <1>2, <1>3, <2>9, <3>3
      <4> QED
        BY <1>3, <2>9, <3>3, <4>1
    <3> QED
      BY <1>6, <2>9, <3>1, <3>2, <3>3
  <2>11. last + Len(down') - e = total'[Chat]
    <3>1. Len(down') = N + n + 1
      BY <1>2, <1>3, LenProperties
    <3> QED
      BY <1>1, <1>2, <1>3, <2>9, <3>1 DEF T
  <2>12. Pending(e, n, last)'
    <3>1. \A i \in 1..(Len(out') - 1) : out'[i + 1] = out'[i] + 1
      BY <1>1, <2>4
    <3>2. out' = <<>>
      BY <1>1, <2>4
    <3>3. /\ page'.loaded <= last - n /\ (n = 0 => last = page'.loaded)
          /\ down'[e].truncated <=> page'.loaded < last - n
      BY <1>1, <2>8, <2>9
    <3>4. \A i \in DOMAIN down' :
            /\ down'[i].kind = IF i = e THEN "end" ELSE IF i \in (e - n)..e THEN "msg" ELSE "live"
            /\ i \in (e - n)..(e - 1) => down'[i].id = last + 1 + i - e
            /\ i > e => down'[i].id = last + i - e
      BY <2>10
    <3> QED
      BY <2>11, <3>1, <3>2, <3>3, <3>4 DEF Pending
  <2>13. Answering'
    <3>1. \E k \in 0..(e - 1), l \in Nat : Pending(e, k, l)'
      BY <2>90, <2>12
    <3> QED
      BY <1>1, <2>4, <2>5, <3>1 DEF Answering
  <2> QED
    BY <2>6, <2>13 DEF Story
<1> QED
  BY <1>1, <1>5, <1>7, <1>8 DEF ReplayInv

\* The frames of what the client asks.
LEMMA AskedFrames ==
    /\ Head(<<"subscribe", "replay">>) = "subscribe" /\ Tail(<<"subscribe", "replay">>) = <<"replay">>
    /\ Head(<<"replay">>) = "replay" /\ <<"replay">> # <<>> /\ <<"subscribe", "replay">> # <<>>
    /\ <<"subscribe">> \o <<"replay">> = <<"subscribe", "replay">>
    /\ <<>> \o <<>> = <<>> /\ <<>> \o <<"subscribe", "replay">> = <<"subscribe", "replay">>
    /\ <<>> \in Seq(Asked) /\ <<"subscribe">> \in Seq(Asked) /\ <<"replay">> \in Seq(Asked)
    /\ <<"subscribe", "replay">> \in Seq(Asked)
<1>1. "subscribe" \in Asked /\ "replay" \in Asked
  BY DEF Asked
<1>2. /\ <<"subscribe">> \in Seq(Asked) /\ <<"replay">> \in Seq(Asked)
      /\ <<"subscribe", "replay">> \in Seq(Asked)
      /\ <<"subscribe">> \o <<"replay">> = <<"subscribe", "replay">>
  BY <1>1, PairOf
<1>3. <<>> \o <<>> = <<>> /\ <<>> \o <<"subscribe", "replay">> = <<"subscribe", "replay">>
  <2>1. \A F : \A s \in Seq(F) : <<>> \o s = s
    BY ConcatEmptySeq
  <2> QED
    BY <1>2, <2>1, EmptySeq
<1>4. /\ Head(<<"subscribe", "replay">>) = "subscribe" /\ Tail(<<"subscribe", "replay">>) = <<"replay">>
      /\ Head(<<"replay">>) = "replay" /\ <<"replay">> # <<>> /\ <<"subscribe", "replay">> # <<>>
  OBVIOUS
<1> QED
  BY <1>2, <1>3, <1>4, EmptySeq

LEMMA SubscribeKeeps ==
    ASSUME ReplayInv, R!Subscribe
    PROVE  ReplayInv'
<1>1. /\ up # <<>> /\ Head(up) = "subscribe" /\ up' = Tail(up)
      /\ IF slowGate THEN gated' = TRUE /\ subscribed' = subscribed ELSE subscribed' = TRUE /\ gated' = gated
      /\ UNCHANGED <<buffers, topicOrder, total, slowGate, conn, down, page, listening, unasked,
                     hearing, replayDone, out, truncated, stops, excused>>
  BY DEF R!Subscribe, R!buffer, R!store
<1>2. R!ReplayTypeOK'
  <2>1. R!ReplayTypeOK /\ up' \in Seq(Asked)
    BY <1>1, ReplayTypes, HeadTailProperties DEF ReplayInv
  <2>2. subscribed' \in BOOLEAN /\ gated' \in BOOLEAN
    BY <1>1, <2>1 DEF R!ReplayTypeOK
  <2> QED
    BY <1>1, <2>1, <2>2 DEF R!ReplayTypeOK, Asked
<1>3. slowGate' \/ excused' \/ Story'
  <2> SUFFICES ASSUME ~slowGate, ~excused PROVE Story'
    BY <1>1
  <2>1. Story
    BY DEF ReplayInv
  <2>2. Asking /\ up # <<"replay">>
    BY <1>1, <2>1, AskedFrames DEF Story, Idle, Answering, IsLive
  <2>3. conn /\ ~unasked /\ up = <<"subscribe", "replay">> /\ down = <<>>
    BY <1>1, <2>2 DEF Asking
  <2>4. up' = <<"replay">> /\ subscribed' /\ ~gated' /\ \A i \in DOMAIN down' : down'[i].kind = "live"
    BY <1>1, <2>1, <2>3, AskedFrames DEF Story
  <2>5. Asking'
    BY <1>1, <2>2, <2>3, <2>4 DEF Asking
  <2> QED
    BY <1>1, <2>1, <2>4, <2>5 DEF Story, CountsAgree
<1> QED
  BY <1>1, <1>2, <1>3 DEF ReplayInv

\* An asynchronous hook never answers when it is not asked.
LEMMA GateOpensKeeps ==
    ASSUME ReplayInv, R!GateOpens
    PROVE  ReplayInv'
<1>1. /\ gated /\ gated' = FALSE /\ subscribed' = TRUE
      /\ UNCHANGED <<buffers, topicOrder, total, slowGate, conn, up, down, page, listening, unasked,
                     hearing, replayDone, out, truncated, stops, excused>>
  BY DEF R!GateOpens, R!buffer, R!store
<1>2. R!ReplayTypeOK'
  BY <1>1 DEF ReplayInv, R!ReplayTypeOK
<1> QED
  BY <1>1, <1>2 DEF ReplayInv, Story

\* A store that is listened to has not unsubscribed, unless it was released.
LEMMA UnsubscribeKeeps ==
    ASSUME ReplayInv, R!Unsubscribe
    PROVE  ReplayInv'
<1>1. /\ up # <<>> /\ Head(up) = "unsubscribe" /\ up' = Tail(up) /\ subscribed' = FALSE
      /\ UNCHANGED <<buffers, topicOrder, total, slowGate, gated, conn, down, page, listening, unasked,
                     hearing, replayDone, out, truncated, stops, excused>>
  BY DEF R!Unsubscribe, R!buffer, R!store
<1>2. R!ReplayTypeOK'
  <2>1. R!ReplayTypeOK /\ up' \in Seq(Asked)
    BY <1>1, ReplayTypes, HeadTailProperties DEF ReplayInv
  <2> QED
    BY <1>1, <2>1 DEF R!ReplayTypeOK, Asked
<1>3. ~Story
  BY <1>1, AskedFrames DEF Story, Idle, Asking, Answering, IsLive
<1> QED
  BY <1>1, <1>2, <1>3 DEF ReplayInv

LEMMA LoadKeeps ==
    ASSUME ReplayInv, R!Load
    PROVE  ReplayInv'
<1>1. /\ page = R!NotLoaded
      /\ page' = [since |-> buffers[Chat].seq, loaded |-> total[Chat]]
      /\ topicOrder' = R!Touched(Chat)
      /\ UNCHANGED <<buffers, total, slowGate, gated, subscribed, conn, up, down, listening, unasked,
                     hearing, replayDone, out, truncated, stops, excused>>
  BY DEF R!Load, R!socket
<1>2. /\ R!ReplayTypeOK /\ topicOrder \in Seq(Topics) /\ Len(topicOrder) <= MaxTopics
      /\ Chat \in Topics /\ MaxMsgs \in Nat
      /\ buffers[Chat].seq \in 0..MaxMsgs /\ total[Chat] \in 0..MaxMsgs
  BY ReplayTypes DEF ReplayInv, Ring
<1>3. R!ReplayTypeOK'
  <2>1. page' \in [since: -1..MaxMsgs, loaded: 0..MaxMsgs]
    BY <1>1, <1>2
  <2>2. topicOrder' \in Seq(Topics) /\ Len(topicOrder') <= MaxTopics
    BY <1>1, <1>2, TouchKeeps
  <2> QED
    BY <1>1, <1>2, <2>1, <2>2 DEF R!ReplayTypeOK
<1>4. CountsAgree'
  BY <1>1, <1>2 DEF CountsAgree
<1>5. Story => Story'
  <2>1. Story => Idle
    BY <1>1 DEF Story, Asking, Answering, IsLive
  <2> QED
    BY <1>1, <1>4, <2>1 DEF Story, Idle
<1> QED
  BY <1>1, <1>3, <1>5 DEF ReplayInv

LEMMA SocketOpens ==
    ASSUME ReplayInv, R!Open
    PROVE  ReplayInv'
<1>1. /\ page # R!NotLoaded /\ ~conn /\ conn' = TRUE /\ unasked' = FALSE
      /\ up' = (IF listening THEN <<"subscribe">> ELSE <<>>) \o (IF unasked THEN <<"replay">> ELSE <<>>)
      /\ UNCHANGED <<buffers, topicOrder, total, slowGate, gated, subscribed, down, page, listening,
                     hearing, replayDone, out, truncated, stops, excused>>
  BY DEF R!Open, R!buffer
<1>2. R!ReplayTypeOK'
  <2>1. (IF listening THEN <<"subscribe">> ELSE <<>>) \in Seq(Asked)
        /\ (IF unasked THEN <<"replay">> ELSE <<>>) \in Seq(Asked)
    BY AskedFrames
  <2>2. \A s1, s2 \in Seq(Asked) : s1 \o s2 \in Seq(Asked)
    BY ConcatProperties
  <2>3. up' \in Seq(Asked)
    BY <1>1, <2>1, <2>2
  <2> QED
    BY <1>1, <2>3 DEF ReplayInv, R!ReplayTypeOK, Asked
<1>3. slowGate' \/ excused' \/ Story'
  <2> SUFFICES ASSUME ~slowGate, ~excused PROVE Story'
    BY <1>1
  <2>1. Story
    BY DEF ReplayInv
  <2>2. CASE Idle
    <3>1. up' = <<>>
      BY <1>1, <2>2, AskedFrames DEF Idle
    <3>2. Idle'
      BY <1>1, <2>2, <3>1 DEF Idle
    <3> QED
      BY <1>1, <2>1, <3>2 DEF Story, CountsAgree
  <2>3. CASE Asking
    <3>1. unasked /\ listening /\ ~subscribed /\ down = <<>>
      BY <1>1, <2>3 DEF Asking
    <3>2. up' = <<"subscribe", "replay">>
      BY <1>1, <3>1, AskedFrames
    <3>3. Asking'
      BY <1>1, <2>3, <3>1, <3>2 DEF Asking
    <3> QED
      BY <1>1, <2>1, <3>3 DEF Story, CountsAgree
  <2> QED
    BY <1>1, <2>1, <2>2, <2>3 DEF Story, Answering, IsLive
<1> QED
  BY <1>1, <1>2, <1>3 DEF ReplayInv

LEMMA StartKeeps ==
    ASSUME ReplayInv, R!Start
    PROVE  ReplayInv'
<1>1. /\ page # R!NotLoaded /\ ~listening /\ listening' = TRUE /\ hearing' = TRUE /\ replayDone' = FALSE
      /\ IF conn THEN up' = up \o <<"subscribe", "replay">> /\ unasked' = unasked
         ELSE unasked' = TRUE /\ up' = up
      /\ UNCHANGED <<buffers, topicOrder, total, slowGate, gated, subscribed, conn, down, page, out,
                     truncated, stops, excused>>
  BY DEF R!Start, R!buffer
<1>2. R!ReplayTypeOK'
  <2>1. R!ReplayTypeOK /\ up \in Seq(Asked)
    BY ReplayTypes DEF ReplayInv
  <2>2. \A s1, s2 \in Seq(Asked) : s1 \o s2 \in Seq(Asked)
    BY ConcatProperties
  <2>3. up' \in Seq(Asked)
    BY <1>1, <2>1, <2>2, AskedFrames
  <2>4. unasked' \in BOOLEAN
    BY <1>1, <2>1 DEF R!ReplayTypeOK
  <2> QED
    BY <1>1, <2>1, <2>3, <2>4 DEF R!ReplayTypeOK, Asked
<1>3. slowGate' \/ excused' \/ Story'
  <2> SUFFICES ASSUME ~slowGate, ~excused PROVE Story'
    BY <1>1
  <2>1. Story
    BY DEF ReplayInv
  <2>2. Idle
    BY <1>1, <2>1 DEF Story, Asking, Answering, IsLive
  <2>3. Asking'
    <3>1. CASE conn
      <4>1. up' = <<"subscribe", "replay">>
        BY <1>1, <2>2, <3>1, AskedFrames DEF Idle
      <4> QED
        BY <1>1, <2>2, <3>1, <4>1 DEF Idle, Asking
    <3>2. CASE ~conn
      BY <1>1, <2>2, <3>2 DEF Idle, Asking
    <3> QED
      BY <3>1, <3>2
  <2> QED
    BY <1>1, <2>1, <2>3 DEF Story, CountsAgree
<1> QED
  BY <1>1, <1>2, <1>3 DEF ReplayInv

LEMMA StopKeeps ==
    ASSUME ReplayInv, R!Stop
    PROVE  ReplayInv'
<1>1. /\ stops < MaxStops /\ stops' = stops + 1 /\ excused' = TRUE
      /\ listening' = FALSE /\ unasked' = FALSE /\ hearing' = FALSE /\ replayDone' = FALSE
      /\ out' = <<>> /\ truncated' = FALSE
      /\ up' = (IF conn THEN Append(up, "unsubscribe") ELSE up)
      /\ UNCHANGED <<buffers, topicOrder, total, slowGate, gated, subscribed, conn, down, page>>
  BY DEF R!Stop, R!buffer
<1>2. R!ReplayTypeOK /\ up \in Seq(Asked) /\ stops \in 0..MaxStops /\ MaxStops \in Nat
  BY ReplayTypes DEF ReplayInv
<1>3. up' \in Seq(Asked) /\ stops' \in 0..MaxStops /\ out' \in Seq(1..MaxMsgs)
  <2>1. "unsubscribe" \in Asked
    BY DEF Asked
  <2>2. Append(up, "unsubscribe") \in Seq(Asked)
    BY <1>2, <2>1, AppendProperties
  <2> QED
    BY <1>1, <1>2, <2>2, EmptySeq
<1>4. R!ReplayTypeOK'
  BY <1>1, <1>2, <1>3 DEF R!ReplayTypeOK, Asked
<1> QED
  BY <1>1, <1>4 DEF ReplayInv

LEMMA SocketLost ==
    ASSUME ReplayInv, R!Lose
    PROVE  ReplayInv'
<1>1. /\ stops < MaxStops /\ stops' = stops + 1 /\ excused' = TRUE
      /\ conn' = FALSE /\ up' = <<>> /\ down' = <<>> /\ subscribed' = FALSE /\ gated' = FALSE
      /\ UNCHANGED <<buffers, topicOrder, total, slowGate, page, listening, unasked, hearing,
                     replayDone, out, truncated>>
  BY DEF R!Lose, R!buffer, R!store
<1>2. R!ReplayTypeOK /\ stops \in 0..MaxStops /\ MaxStops \in Nat
  BY ReplayTypes DEF ReplayInv
<1>3. stops' \in 0..MaxStops /\ up' \in Seq(Asked) /\ down' \in Seq(MsgFrames)
  BY <1>1, <1>2, EmptySeq
<1>4. R!ReplayTypeOK'
  BY <1>1, <1>2, <1>3 DEF R!ReplayTypeOK, Asked, MsgFrames
<1> QED
  BY <1>1, <1>4 DEF ReplayInv

\* A place in what is left of the frames, and where it was.
LEMMA PlaceShifted ==
    \A e, d, k, last, i, n \in Int : e = d + 1 /\ n = i + 1 =>
      /\ n = e <=> i = d
      /\ n \in (e - k)..e <=> i \in (d - k)..d
      /\ n \in (e - k)..(e - 1) <=> i \in (d - k)..(d - 1)
      /\ n > e <=> i > d
      /\ last + 1 + n - e = last + 1 + i - d
      /\ last + n - e = last + i - d
OBVIOUS

\* What is put out next follows on.
LEMMA PutOut ==
    ASSUME out \in Seq(1..MaxMsgs), NEW x \in 1..MaxMsgs, MaxMsgs \in Nat,
           out # <<>> => out[Len(out)] + 1 = x,
           \A i \in 1..(Len(out) - 1) : out[i + 1] = out[i] + 1,
           NEW after, after = Append(out, x)
    PROVE  /\ after \in Seq(1..MaxMsgs) /\ after # <<>> /\ after[Len(after)] = x
           /\ after[1] = IF out = <<>> THEN x ELSE out[1]
           /\ \A i \in 1..(Len(after) - 1) : after[i + 1] = after[i] + 1
<1> DEFINE L == Len(out)
<1>1. L \in Nat /\ (out = <<>> <=> L = 0)
  BY LenProperties, EmptySeq
<1>2. /\ Append(out, x) \in Seq(1..MaxMsgs) /\ Len(Append(out, x)) = L + 1
      /\ \A i \in 1..L : Append(out, x)[i] = out[i]
      /\ Append(out, x)[L + 1] = x
  BY AppendProperties
<1>3. /\ after \in Seq(1..MaxMsgs) /\ Len(after) = L + 1 /\ after[L + 1] = x
      /\ \A i \in 1..L : after[i] = out[i]
  BY <1>2
<1> HIDE DEF L
<1>4. after # <<>> /\ after[Len(after)] = x
  <2>1. Len(after) # 0
    BY <1>1, <1>3
  <2> QED
    BY <1>3, <2>1, EmptySeq
<1>5. after[1] = IF out = <<>> THEN x ELSE out[1]
  <2>1. L # 0 => 1 \in 1..L
    BY <1>1
  <2>2. L = 0 => L + 1 = 1
    OBVIOUS
  <2> QED
    BY <1>1, <1>3, <2>1, <2>2
<1>6. \A i \in 1..(Len(after) - 1) : after[i + 1] = after[i] + 1
  <2> TAKE i \in 1..(Len(after) - 1)
  <2>1. i \in 1..L
    BY <1>1, <1>3
  <2>2. CASE i = L
    <3>1. out # <<>> /\ out[L] + 1 = x
      BY <1>1, <2>1, <2>2 DEF L
    <3> QED
      BY <1>3, <2>1, <2>2, <3>1
  <2>3. CASE i # L
    <3>1. i \in 1..(Len(out) - 1) /\ i + 1 \in 1..L
      BY <1>1, <2>1, <2>3 DEF L
    <3> QED
      BY <1>3, <2>1, <3>1
  <2> QED
    BY <2>2, <2>3
<1> QED
  BY <1>3, <1>4, <1>5, <1>6

LEMMA ReplayReceiveKeeps ==
    ASSUME ReplayInv, R!Receive
    PROVE  ReplayInv'
<1> DEFINE N == Len(down)
           f == Head(down)
<1>1. /\ down # <<>> /\ down' = Tail(down)
      /\ out' = (IF R!PutsOut(f) THEN Append(out, f.id) ELSE out)
      /\ replayDone' = (replayDone \/ R!Ends(f))
      /\ hearing' = (hearing /\ ~R!Ends(f))
      /\ truncated' = (truncated \/ (R!Ends(f) /\ f.truncated))
      /\ UNCHANGED <<buffers, topicOrder, total, slowGate, gated, subscribed, conn, up, page, listening,
                     unasked, stops, excused>>
  BY DEF R!Receive, R!buffer, R!socket
<1>2. /\ R!ReplayTypeOK /\ down \in Seq(MsgFrames) /\ DOMAIN down = 1..N /\ N \in Nat /\ N >= 1
      /\ out \in Seq(1..MaxMsgs) /\ Len(out) \in Nat /\ MaxMsgs \in Nat
      /\ page.loaded \in 0..MaxMsgs /\ page.loaded \in Int
      /\ \A i \in 1..N : down[i] \in MsgFrames
  <2>1. R!ReplayTypeOK /\ down \in Seq(MsgFrames) /\ DOMAIN down = 1..N /\ N \in Nat
        /\ out \in Seq(1..MaxMsgs) /\ Len(out) \in Nat /\ MaxMsgs \in Nat /\ page.loaded \in 0..MaxMsgs
    BY ReplayTypes DEF ReplayInv
  <2>2. N # 0
    BY <1>1, <2>1, EmptySeq
  <2> QED
    BY <2>1, <2>2, ElementOfSeq
<1>3. /\ down' \in Seq(MsgFrames) /\ DOMAIN down' = 1..(N - 1) /\ Len(down') = N - 1
      /\ \A i \in 1..(N - 1) : down'[i] = down[i + 1]
      /\ f = down[1] /\ 1 \in 1..N
  <2>1. /\ Tail(down) \in Seq(MsgFrames) /\ Len(Tail(down)) = N - 1
        /\ \A i \in 1..(N - 1) : Tail(down)[i] = down[i + 1]
        /\ f = down[1]
    BY <1>1, <1>2, HeadTailProperties
  <2> QED
    BY <1>1, <1>2, <2>1, LenProperties
<1>4. f \in MsgFrames /\ f.truncated \in BOOLEAN /\ f.id \in 0..MaxMsgs /\ (f.kind # "end" => f.id \in 1..MaxMsgs)
  <2>1. f \in MsgFrames /\ (f.kind # "end" => f.id > 0)
    BY <1>2, <1>3 DEF ReplayInv
  <2>2. f.id \in 0..MaxMsgs /\ f.truncated \in BOOLEAN
    BY <2>1 DEF MsgFrames
  <2> QED
    BY <1>2, <2>1, <2>2
<1> HIDE DEF N, f
<1>5. \A i \in DOMAIN down' : \E n \in DOMAIN down : n = i + 1 /\ down'[i] = down[n] /\ i \in Int /\ n \in Int
  <2> TAKE i \in DOMAIN down'
  <2> DEFINE n == i + 1
  <2>1. n \in 1..N /\ down'[i] = down[n] /\ i \in Int /\ n \in Int
    BY <1>2, <1>3
  <2> HIDE DEF n
  <2>2. n = i + 1
    BY DEF n
  <2> QED
    BY <1>2, <2>1, <2>2
<1>6. \A i \in DOMAIN down' : down'[i].kind # "end" => down'[i].id > 0
  BY <1>5 DEF ReplayInv
<1>7. R!ReplayTypeOK'
  <2>1. out' \in Seq(1..MaxMsgs)
    <3>1. CASE R!PutsOut(f)
      <4>1. f.id \in 1..MaxMsgs
        BY <1>4, <3>1 DEF R!PutsOut
      <4>2. Append(out, f.id) \in Seq(1..MaxMsgs)
        BY <1>2, <4>1, AppendProperties
      <4> QED
        BY <1>1, <3>1, <4>2
    <3>2. CASE ~R!PutsOut(f)
      BY <1>1, <1>2, <3>2
    <3> QED
      BY <3>1, <3>2
  <2>2. replayDone' \in BOOLEAN /\ hearing' \in BOOLEAN /\ truncated' \in BOOLEAN
    BY <1>1
  <2> QED
    BY <1>1, <1>2, <1>3, <2>1, <2>2 DEF R!ReplayTypeOK, MsgFrames
<1>8. slowGate' \/ excused' \/ Story'
  <2> SUFFICES ASSUME ~slowGate, ~excused PROVE Story'
    BY <1>1
  <2>1. Story
    BY DEF ReplayInv
  <2>2. CountsAgree' /\ ~gated'
    BY <1>1, <2>1 DEF Story, CountsAgree
  <2>3. CASE Idle
    BY <1>1, <2>3 DEF Idle
\* Not answered yet: the message is dropped.
  <2>4. CASE Asking
    <3>1. /\ conn /\ ~unasked /\ up = <<"replay">> /\ subscribed /\ hearing /\ ~replayDone
          /\ \A i \in DOMAIN down : down[i].kind = "live"
      BY <1>1, <2>4 DEF Asking
    <3>2. f.kind = "live" /\ ~R!PutsOut(f) /\ ~R!Ends(f)
      BY <1>2, <1>3, <3>1 DEF R!PutsOut, R!Ends
    <3>3. out' = out /\ replayDone' = replayDone /\ hearing' /\ truncated' = truncated
      <4>1. replayDone \in BOOLEAN /\ truncated \in BOOLEAN
        BY <1>2 DEF R!ReplayTypeOK
      <4> QED
        BY <1>1, <3>1, <3>2, <4>1
    <3>4. \A i \in DOMAIN down' : down'[i].kind = "live"
      BY <1>5, <3>1
    <3>5. Asking'
      BY <1>1, <2>4, <3>1, <3>3, <3>4 DEF Asking
    <3> QED
      BY <2>2, <3>5 DEF Story
  <2>5. CASE Answering
    <3>1. PICK e \in DOMAIN down : \E k \in 0..(e - 1), last \in Nat : Pending(e, k, last)
      BY <2>5 DEF Answering
    <3>2. PICK k \in 0..(e - 1), last \in Nat : Pending(e, k, last)
      BY <3>1
    <3>3. /\ listening /\ page # R!NotLoaded /\ hearing /\ ~replayDone /\ ~truncated
          /\ conn /\ ~unasked /\ up = <<>> /\ subscribed
      BY <2>5 DEF Answering
    <3>4. /\ \A i \in DOMAIN down :
               /\ down[i].kind = IF i = e THEN "end" ELSE IF i \in (e - k)..e THEN "msg" ELSE "live"
               /\ i \in (e - k)..(e - 1) => down[i].id = last + 1 + i - e
               /\ i > e => down[i].id = last + i - e
          /\ last + N - e = total[Chat]
          /\ \A i \in 1..(Len(out) - 1) : out[i + 1] = out[i] + 1
          /\ out = <<>> => /\ page.loaded <= last - k /\ (k = 0 => last = page.loaded)
                           /\ down[e].truncated <=> page.loaded < last - k
          /\ out # <<>> => /\ k = e - 1 /\ out[Len(out)] = last - k
                           /\ down[e].truncated <=> out[1] > page.loaded + 1
      BY <3>2 DEF Pending, N
    <3>5. e \in 1..N /\ e \in Int /\ k \in Int /\ last \in Int /\ k >= 0 /\ k <= e - 1 /\ N \in Int
      BY <1>2, <3>1, <3>2
    <3>6. PICK d \in Int : d = e - 1 /\ e = d + 1 /\ d \in 0..(N - 1)
      BY <3>5
\* The places of what is left.
    <3>7. \A i \in DOMAIN down' :
            /\ down'[i].kind = IF i = d THEN "end" ELSE IF i \in (d - k)..d THEN "msg" ELSE "live"
            /\ i \in (d - k)..(d - 1) => down'[i].id = last + 1 + i - d
            /\ i > d => down'[i].id = last + i - d
      <4> TAKE i \in DOMAIN down'
      <4>1. PICK n \in DOMAIN down : n = i + 1 /\ down'[i] = down[n] /\ i \in Int /\ n \in Int
        BY <1>5
      <4>2. /\ n = e <=> i = d
            /\ n \in (e - k)..e <=> i \in (d - k)..d
            /\ n \in (e - k)..(e - 1) <=> i \in (d - k)..(d - 1)
            /\ n > e <=> i > d
            /\ last + 1 + n - e = last + 1 + i - d
            /\ last + n - e = last + i - d
        BY <3>5, <3>6, <4>1, PlaceShifted
      <4>3. /\ down[n].kind = IF n = e THEN "end" ELSE IF n \in (e - k)..e THEN "msg" ELSE "live"
            /\ n \in (e - k)..(e - 1) => down[n].id = last + 1 + n - e
            /\ n > e => down[n].id = last + n - e
        BY <3>4
      <4> QED
        BY <4>1, <4>2, <4>3
    <3>8. last + Len(down') - d = total'[Chat]
      BY <1>1, <1>3, <3>4, <3>5, <3>6
\* The end marker: the store goes live.
    <3>9. CASE e = 1
      <4>1. f.kind = "end" /\ d = 0 /\ k = 0 /\ R!Ends(f) /\ ~R!PutsOut(f)
        <5>1. f.kind = "end"
          BY <1>2, <1>3, <3>4, <3>9
        <5> QED
          BY <3>3, <3>5, <3>6, <3>9, <5>1 DEF R!Ends, R!PutsOut
      <4>2. out' = out /\ replayDone' /\ ~hearing' /\ (truncated' <=> f.truncated)
        BY <1>1, <3>3, <4>1
      <4>3. R!UpTo' = last
        <5>1. R!UpTo = last
          BY <3>4, <3>5, <4>1 DEF R!UpTo
        <5> QED
          BY <1>1, <4>2, <5>1 DEF R!UpTo
      <4>4. truncated' <=> (out # <<>> /\ out[1] > page.loaded + 1)
        <5>1. f = down[e]
          BY <1>3, <3>9
        <5>2. CASE out = <<>>
          BY <1>2, <3>4, <3>5, <4>1, <4>2, <5>1, <5>2
        <5>3. CASE out # <<>>
          BY <3>4, <4>2, <5>1, <5>3
        <5> QED
          BY <5>2, <5>3
      <4>5. \A i \in DOMAIN down' : down'[i].kind = "live" /\ down'[i].id = last + i
        <5> TAKE i \in DOMAIN down'
        <5>1. i \in Int /\ i > 0
          BY <1>2, <1>3
        <5>2. i # d /\ i \notin (d - k)..d /\ i > d /\ last + i - d = last + i
          BY <3>5, <4>1, <5>1
        <5> QED
          BY <3>7, <5>2
      <4>6. last + Len(down') = total'[Chat]
        BY <1>2, <1>3, <3>5, <3>8, <4>1
      <4>7. R!NoHoles'
        BY <1>1, <3>4, <4>2, <4>3, <4>4, <4>5, <4>6 DEF R!NoHoles
      <4>8. IsLive'
        BY <1>1, <3>3, <4>2, <4>7 DEF IsLive
      <4> QED
        BY <2>2, <4>8 DEF Story
    <3>10. CASE e # 1
      <4>1. /\ 1 # e /\ 1 \in DOMAIN down /\ d \in DOMAIN down' /\ d >= 1
            /\ 1 \in (e - k)..e <=> k = d
            /\ 1 \in (e - k)..(e - 1) <=> k = d
            /\ last + 1 + 1 - e = last - d + 1
        <5>1. \A a, b, c, l \in Int : a = b + 1 /\ b >= 1 /\ c <= b =>
                /\ 1 \in (a - c)..a <=> c = b
                /\ 1 \in (a - c)..(a - 1) <=> c = b
                /\ l + 1 + 1 - a = l - b + 1
          OBVIOUS
        <5>2. d >= 1 /\ e = d + 1 /\ k <= d
          BY <3>5, <3>6, <3>10
        <5>3. d \in DOMAIN down' /\ 1 \in DOMAIN down
          BY <1>2, <1>3, <3>6, <5>2
        <5> QED
          BY <3>5, <3>10, <5>1, <5>2, <5>3
      <4>2. f.kind = (IF k = d THEN "msg" ELSE "live") /\ (k = d => f.id = last - d + 1)
        BY <1>3, <3>4, <4>1
      <4>3. ~R!Ends(f) /\ (R!PutsOut(f) <=> k = d)
        BY <3>3, <4>2 DEF R!Ends, R!PutsOut
      <4>4. hearing' /\ ~replayDone' /\ ~truncated'
        BY <1>1, <3>3, <4>3
      <4>5. down'[d] = down[e]
        BY <1>3, <3>6, <4>1
      <4>6. \E j \in 0..(d - 1) : Pending(d, j, last)'
\* A message is dropped.
        <5>1. CASE k # d
          <6>1. out' = out /\ k \in 0..(d - 1) /\ out = <<>>
            BY <1>1, <3>4, <3>5, <3>6, <4>3, <5>1
          <6>2. /\ \A i \in 1..(Len(out') - 1) : out'[i + 1] = out'[i] + 1
                /\ page'.loaded <= last - k /\ (k = 0 => last = page'.loaded)
                /\ down'[d].truncated <=> page'.loaded < last - k
            BY <1>1, <3>4, <4>5, <6>1
          <6>3. Pending(d, k, last)'
            BY <3>7, <3>8, <6>1, <6>2 DEF Pending
          <6> QED
            BY <6>1, <6>3
\* A message of the answer is put out.
        <5>2. CASE k = d
          <6>1. out' = Append(out, f.id)
            BY <1>1, <4>3, <5>2
          <6>2. f.id \in 1..MaxMsgs /\ f.id = last - d + 1
            BY <1>4, <4>2, <5>2
          <6>3. out # <<>> => out[Len(out)] + 1 = f.id
            BY <3>4, <3>5, <5>2, <6>2
          <6>4. /\ out' # <<>> /\ out'[Len(out')] = f.id
                /\ out'[1] = IF out = <<>> THEN f.id ELSE out[1]
                /\ \A i \in 1..(Len(out') - 1) : out'[i + 1] = out'[i] + 1
            <7>1. out \in Seq(1..MaxMsgs) /\ MaxMsgs \in Nat
                  /\ \A i \in 1..(Len(out) - 1) : out[i + 1] = out[i] + 1
              BY <1>2, <3>4
            <7>2. f.id \in 1..MaxMsgs
              BY <6>2
            <7> QED
              BY <6>1, <6>3, <7>1, <7>2, PutOut
          <6>5. PICK j \in 0..(d - 1) : j = d - 1 /\ last - j = last - d + 1
            BY <3>5, <4>1, <3>6
          <6>6. \A i \in DOMAIN down' :
                  /\ down'[i].kind = IF i = d THEN "end" ELSE IF i \in (d - j)..d THEN "msg" ELSE "live"
                  /\ i \in (d - j)..(d - 1) => down'[i].id = last + 1 + i - d
                  /\ i > d => down'[i].id = last + i - d
            <7> TAKE i \in DOMAIN down'
            <7>1. i \in Int /\ i >= 1
              BY <1>2, <1>3
            <7>2. (i \in (d - j)..d <=> i \in (d - k)..d) /\ (i \in (d - j)..(d - 1) <=> i \in (d - k)..(d - 1))
              <8>1. \A a, b, c \in Int : c >= 1 =>
                      /\ b = a - 1 => (c \in (a - b)..a <=> c \in (a - a)..a)
                      /\ b = a - 1 => (c \in (a - b)..(a - 1) <=> c \in (a - a)..(a - 1))
                OBVIOUS
              <8>2. d \in Int /\ j \in Int /\ j = d - 1
                BY <3>6, <6>5
              <8> QED
                BY <5>2, <7>1, <8>1, <8>2
            <7> QED
              BY <3>7, <7>2
          <6>7. down'[d].truncated <=> out'[1] > page.loaded + 1
            <7>1. CASE out = <<>>
              <8>1. down'[d].truncated <=> page.loaded < last - d
                BY <3>4, <4>5, <5>2, <7>1
              <8>2. out'[1] = last - d + 1
                BY <6>2, <6>4, <7>1
              <8>3. page.loaded < last - d <=> last - d + 1 > page.loaded + 1
                <9>1. \A a, b, c \in Int : a < b - c <=> b - c + 1 > a + 1
                  OBVIOUS
                <9> QED
                  BY <1>2, <3>5, <3>6, <9>1
              <8> QED
                BY <8>1, <8>2, <8>3
            <7>2. CASE out # <<>>
              BY <3>4, <4>5, <6>4, <7>2
            <7> QED
              BY <7>1, <7>2
          <6>8. Pending(d, j, last)'
            BY <1>1, <3>8, <6>2, <6>4, <6>5, <6>6, <6>7 DEF Pending
          <6> QED
            BY <6>8
        <5> QED
          BY <5>1, <5>2
      <4>7. Answering'
        <5>1. \E j \in 0..(d - 1), l \in Nat : Pending(d, j, l)'
          BY <3>2, <4>6
        <5> QED
          BY <1>1, <3>3, <4>1, <4>4, <5>1 DEF Answering
      <4> QED
        BY <2>2, <4>7 DEF Story
    <3> QED
      BY <3>9, <3>10
\* Live: the message follows on.
  <2>6. CASE IsLive
    <3>1. /\ replayDone /\ ~hearing /\ \A i \in 1..(Len(out) - 1) : out[i + 1] = out[i] + 1
          /\ truncated <=> (out # <<>> /\ out[1] > page.loaded + 1)
          /\ R!UpTo + N = total[Chat]
          /\ \A i \in DOMAIN down : down[i].kind = "live" /\ down[i].id = R!UpTo + i
      BY <2>6 DEF IsLive, R!NoHoles, N
    <3>2. f.kind = "live" /\ f.id = R!UpTo + 1 /\ R!PutsOut(f) /\ ~R!Ends(f)
      BY <1>2, <1>3, <3>1 DEF R!PutsOut, R!Ends
    <3>3. out' = Append(out, f.id) /\ replayDone' /\ ~hearing' /\ (truncated' <=> truncated)
      BY <1>1, <3>1, <3>2
    <3>4. f.id \in 1..MaxMsgs
      BY <1>4, <3>2
    <3>5. out # <<>> => out[Len(out)] + 1 = f.id
      BY <3>2 DEF R!UpTo
    <3>6. /\ out' # <<>> /\ out'[Len(out')] = f.id
          /\ out'[1] = IF out = <<>> THEN f.id ELSE out[1]
          /\ \A i \in 1..(Len(out') - 1) : out'[i + 1] = out'[i] + 1
      <4>1. out \in Seq(1..MaxMsgs) /\ MaxMsgs \in Nat
        BY <1>2
      <4>2. out' = Append(out, f.id) /\ \A i \in 1..(Len(out) - 1) : out[i + 1] = out[i] + 1
        BY <3>1, <3>3
      <4> QED
        BY <3>4, <3>5, <4>1, <4>2, PutOut
    <3>7. R!UpTo' = f.id /\ (out = <<>> => R!UpTo = page.loaded)
      BY <3>6 DEF R!UpTo
    <3>8. R!UpTo \in Int
      <4>1. out # <<>> => Len(out) \in 1..Len(out)
        BY <1>2, EmptySeq
      <4>2. out # <<>> => out[Len(out)] \in 1..MaxMsgs
        BY <1>2, <4>1, ElementOfSeq
      <4> QED
        BY <1>2, <4>2 DEF R!UpTo
    <3>9. truncated' <=> (out' # <<>> /\ out'[1] > page.loaded + 1)
      BY <1>2, <3>1, <3>2, <3>3, <3>6, <3>7
    <3>10. f.id + Len(down') = total'[Chat]
      <4>1. f.id + (N - 1) = R!UpTo + N
        BY <1>2, <3>2, <3>8
      <4> QED
        BY <1>1, <1>3, <3>1, <4>1
    <3>11. \A i \in DOMAIN down' : down'[i].kind = "live" /\ down'[i].id = f.id + i
      <4> TAKE i \in DOMAIN down'
      <4>1. PICK n \in DOMAIN down : n = i + 1 /\ down'[i] = down[n] /\ i \in Int /\ n \in Int
        BY <1>5
      <4>2. R!UpTo + n = f.id + i
        BY <3>2, <3>8, <4>1
      <4> QED
        BY <3>1, <4>1, <4>2
    <3>12. R!NoHoles'
      BY <1>1, <3>6, <3>7, <3>9, <3>10, <3>11 DEF R!NoHoles
    <3>13. IsLive'
      BY <1>1, <2>6, <3>3, <3>12 DEF IsLive
    <3> QED
      BY <2>2, <3>13 DEF Story
  <2> QED
    BY <2>1, <2>3, <2>4, <2>5, <2>6 DEF Story
<1> QED
  BY <1>1, <1>6, <1>7, <1>8 DEF ReplayInv

LEMMA ReplayStepKeeps == ReplayInv /\ [R!Next]_replayVars => ReplayInv'
<1> SUFFICES ASSUME ReplayInv, [R!Next]_replayVars PROVE ReplayInv'
  OBVIOUS
<1>1. CASE UNCHANGED replayVars
  <2>1. /\ UNCHANGED <<buffers, topicOrder, total, down, stops, excused, slowGate>>
        /\ UNCHANGED <<R!socket, R!store>>
        /\ UNCHANGED page
    BY <1>1 DEF replayVars, R!buffer, R!socket, R!store
  <2>2. R!ReplayTypeOK'
    BY <1>1 DEF replayVars, ReplayInv, R!ReplayTypeOK
  <2>3. (\A t \in Topics : Window(buffers[t], total[t]))'
    BY <2>1 DEF ReplayInv
  <2>4. Story => Story'
    <3>1. CountsAgree => CountsAgree'
      BY <2>1 DEF CountsAgree
    <3> QED
      BY <2>1, <3>1, StoryStays DEF Story
  <2> QED
    BY <2>1, <2>2, <2>3, <2>4 DEF ReplayInv
<1>2. CASE R!Next
  BY <1>2, ReplayPublishKeeps, ClearTopicKeeps, SubscribeKeeps, GateOpensKeeps, UnsubscribeKeeps,
     AnswerReplayKeeps, LoadKeeps, SocketOpens, StartKeeps, StopKeeps, SocketLost, ReplayReceiveKeeps
  DEF R!Next
<1> QED
  BY <1>1, <1>2

LEMMA ReplaySound == ReplayInv => R!Gapless
<1> SUFFICES ASSUME ReplayInv, listening, ~slowGate, ~excused PROVE R!NoHoles
  BY DEF ReplayInv, R!Gapless
<1>1. Asking \/ Answering \/ IsLive
  BY DEF ReplayInv, Story, Idle
<1>2. CASE Asking
  <2>1. ~replayDone /\ out = <<>>
    BY <1>2 DEF Asking
  <2> QED
    BY <2>1 DEF R!NoHoles
<1>3. CASE Answering
  <2>1. ~replayDone /\ \A i \in 1..(Len(out) - 1) : out[i + 1] = out[i] + 1
    BY <1>3 DEF Answering, Pending
  <2> QED
    BY <2>1 DEF R!NoHoles
<1>4. CASE IsLive
  BY <1>4 DEF IsLive
<1> QED
  BY <1>1, <1>2, <1>3, <1>4

\* A store that is listened to puts out the page's successors without a hole or
\* a repetition, and says 'truncated' exactly when the answer has a gap, as long
\* as the hook is synchronous and nothing is lost on the way; a client that
\* resumes on a new connection is given what it missed, in order, or told.
THEOREM NothingIsMissed == PartsSpec => []Gapless
<1>1. PartsInit => ReplayInv /\ ResumeInv
  BY ReplayInitHolds, ResumeInitHolds DEF PartsInit
<1>2. ReplayInv /\ [PartsNext]_<<part, vars, rpcVars, queueVars, replayVars, resumeVars>> => ReplayInv'
  <2> SUFFICES ASSUME ReplayInv, [PartsNext]_<<part, vars, rpcVars, queueVars, replayVars, resumeVars>>
               PROVE  ReplayInv'
    OBVIOUS
  <2>1. R!Next \/ UNCHANGED replayVars
    BY DEF PartsNext
  <2> QED
    BY <2>1, ReplayStepKeeps
<1>3. ResumeInv /\ [PartsNext]_<<part, vars, rpcVars, queueVars, replayVars, resumeVars>> => ResumeInv'
  <2> SUFFICES ASSUME ResumeInv, [PartsNext]_<<part, vars, rpcVars, queueVars, replayVars, resumeVars>>
               PROVE  ResumeInv'
    OBVIOUS
  <2>1. Z!Next \/ UNCHANGED resumeVars
    BY DEF PartsNext
  <2> QED
    BY <2>1, ResumeStepKeeps
<1>4. ReplayInv /\ ResumeInv => Gapless
  BY ReplaySound, ResumeSound DEF Gapless
<1> QED
  BY <1>1, <1>2, <1>3, <1>4, PTL DEF PartsSpec
==============================================================================
