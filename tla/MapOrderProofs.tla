--------------------------- MODULE MapOrderProofs ---------------------------
(***************************************************************************)
(* What remains of the order of a Map after keys were deleted is again an  *)
(* order of its keys, and no longer than before.                           *)
(***************************************************************************)
EXTENDS MapOrder, FiniteSetTheorems, SequenceTheorems, WellFoundedInduction, TLAPS

\* A set of places of a line has a first one.
LEMMA Least ==
    ASSUME NEW n \in Nat, NEW B \in SUBSET (1..n), B # {}
    PROVE  \E m \in B : \A j \in B : m <= j
<1> DEFINE U == 1..n
           below(j) == 1..(j - 1)
           T == {below(j) : j \in B}
<1>1. IsWellFoundedOn(StrictSubsetOrdering(U), SUBSET U)
  <2>1. IsFiniteSet(U)
    BY FS_Interval
  <2> HIDE DEF U
  <2>2. FiniteSubsetsOf(U) = SUBSET U
    BY <2>1, FS_FiniteSubsetsOfFinite
  <2>3. IsWellFoundedOn(StrictSubsetOrdering(U), FiniteSubsetsOf(U))
    BY FS_StrictSubsetOrderingWellFounded
  <2> QED
    BY <2>2, <2>3
<1>2. T \subseteq SUBSET U /\ T # {}
  <2>1. \A j \in B : below(j) \subseteq U
    OBVIOUS
  <2> QED
    BY <2>1
<1>3. PICK x \in T : \A y \in T : <<y, x>> \notin StrictSubsetOrdering(U)
  <2> HIDE DEF T, U
  <2> QED
    BY <1>1, <1>2, WFMin
<1>4. PICK m \in B : x = below(m)
  OBVIOUS
<1>5. ASSUME NEW j \in B, ~(m <= j) PROVE FALSE
  <2>1. j \in 1..n /\ m \in 1..n /\ j < m
    BY <1>5
  <2>2. below(j) \subseteq below(m) /\ j \in below(m) /\ j \notin below(j)
    BY <2>1
  <2>3. <<below(j), below(m)>> \in StrictSubsetOrdering(U)
    BY <2>1, <2>2 DEF StrictSubsetOrdering
  <2> QED
    BY <1>3, <1>4, <2>3
<1> QED
  BY <1>5

\* Counting up from nought reaches every number.
LEMMA Climb ==
    ASSUME NEW N \in Nat, NEW G, 0 \in G, \A n \in 0..(N - 1) : n \in G => n + 1 \in G
    PROVE  \A n \in 0..N : n \in G
<1> SUFFICES ASSUME NEW n \in 0..N, n \notin G PROVE FALSE
  OBVIOUS
<1> DEFINE B == {m \in 1..N : m \notin G}
<1>1. n \in B /\ B \in SUBSET (1..N) /\ B # {}
  OBVIOUS
<1>2. PICK m \in B : \A j \in B : m <= j
  <2> HIDE DEF B
  <2> QED
    BY <1>1, Least
<1>3. m \in 1..N /\ m \notin G
  OBVIOUS
<1> DEFINE d == m - 1
<1>4. d \in 0..(N - 1) /\ d + 1 = m /\ ~(m <= d)
  BY <1>3
<1>5. d \in G
  <2>1. d = 0 \/ d \in 1..N
    BY <1>3
  <2> HIDE DEF d
  <2> QED
    BY <1>2, <1>4, <2>1
<1> HIDE DEF d
<1> QED
  BY <1>3, <1>4, <1>5

\* Among the places of what stays there is an n-th one.
LEMMA NthIsOne ==
    ASSUME NEW L \in Nat, NEW places \in SUBSET (1..L), NEW n \in 1..Cardinality(places)
    PROVE  /\ Nth(places, n) \in places
           /\ Cardinality({j \in places : j <= Nth(places, n)}) = n
<1> DEFINE upto(i) == {j \in places : j <= i}
           B == {i \in 1..L : Cardinality(upto(i)) >= n}
<1>1. IsFiniteSet(places) /\ Cardinality(places) \in Nat /\ Cardinality(places) <= L
  <2>1. IsFiniteSet(1..L) /\ Cardinality(1..L) = L
    BY FS_Interval
  <2> QED
    BY <2>1, FS_Subset, FS_CardinalityType
<1>2. \A i : IsFiniteSet(upto(i)) /\ Cardinality(upto(i)) \in Nat
  <2>1. TAKE i
  <2>2. upto(i) \subseteq places
    OBVIOUS
  <2> QED
    BY <2>2, <1>1, FS_Subset, FS_CardinalityType
<1>3. L \in B
  <2>1. upto(L) = places
    <3>1. \A j \in places : j <= L
      OBVIOUS
    <3> QED
      BY <3>1
  <2>2. Cardinality(upto(L)) >= n
    BY <2>1, <1>1
  <2>3. L \in 1..L
    BY <1>1
  <2> QED
    BY <2>2, <2>3
<1>4. PICK m \in B : \A j \in B : m <= j
  <2>1. B \subseteq 1..L
    OBVIOUS
  <2> HIDE DEF B
  <2> QED
    BY <1>3, <2>1, Least
<1>5. m \in 1..L /\ Cardinality(upto(m)) >= n
  OBVIOUS
<1>6. Cardinality(upto(m - 1)) < n
  <2>1. CASE m = 1
    <3>1. \A j \in places : ~(j <= m - 1)
      BY <2>1
    <3>2. upto(m - 1) = {}
      BY <3>1
    <3> HIDE DEF upto
    <3>3. Cardinality(upto(m - 1)) = 0
      BY <3>2, FS_EmptySet
    <3> QED
      BY <3>3
  <2>2. CASE m > 1
    <3>1. m - 1 \in 1..L /\ ~(m <= m - 1)
      BY <1>5, <2>2
    <3>2. ~(Cardinality(upto(m - 1)) >= n)
      BY <3>1, <1>4
    <3> HIDE DEF upto
    <3> QED
      BY <3>2, <1>2
  <2> QED
    BY <1>5, <2>1, <2>2
<1>7. m \in places
  <2>1. SUFFICES ASSUME m \notin places PROVE FALSE
    OBVIOUS
  <2>2. \A j \in places : j <= m <=> j <= m - 1
    BY <1>5, <2>1
  <2>3. upto(m) = upto(m - 1)
    BY <2>2
  <2> HIDE DEF upto
  <2> QED
    BY <1>2, <1>5, <1>6, <2>3
<1>8. Cardinality(upto(m)) = n
  <2>1. \A j \in places : j <= m <=> (j <= m - 1 \/ j = m)
    BY <1>5
  <2>2. upto(m) = upto(m - 1) \cup {m}
    <3>1. \A j : j \in upto(m) <=> j \in upto(m - 1) \cup {m}
      BY <1>7, <2>1
    <3> QED
      BY <3>1
  <2>3. m \notin upto(m - 1)
    BY <1>5
  <2> HIDE DEF upto
  <2>4. Cardinality(upto(m)) = Cardinality(upto(m - 1)) + 1
    BY <1>2, <2>2, <2>3, FS_AddElement
  <2> QED
    BY <1>2, <1>5, <1>6, <2>4
<1>9. Cardinality({j \in places : j <= m}) = n
  BY <1>8
<1> QED
  BY <1>7, <1>9 DEF Nth

\* What stays of the order of a Map is an order of the same kind, no longer.
LEMMA WithinShape ==
    ASSUME NEW S, NEW s \in Seq(S), NEW K
    PROVE  Within(s, K) \in Seq(S) /\ Len(Within(s, K)) <= Len(s)
<1> DEFINE places == PlacesOf(s, K)
           kept == Cardinality(places)
<1>1. Len(s) \in Nat /\ places \subseteq 1..Len(s)
  BY DEF PlacesOf
<1>2. kept \in Nat /\ kept <= Len(s)
  <2>1. IsFiniteSet(1..Len(s)) /\ Cardinality(1..Len(s)) = Len(s)
    <3>1. \A l \in Nat : IsFiniteSet(1..l) /\ Cardinality(1..l) = l
      BY FS_Interval
    <3> QED
      BY <1>1, <3>1
  <2> HIDE DEF places
  <2>2. IsFiniteSet(places) /\ Cardinality(places) <= Cardinality(1..Len(s))
    BY <1>1, <2>1, FS_Subset
  <2> QED
    BY <2>1, <2>2, FS_CardinalityType
<1>3. Within(s, K) = [n \in 1..kept |-> s[Nth(places, n)]]
  BY DEF Within
<1>4. ASSUME NEW n \in 1..kept PROVE s[Nth(places, n)] \in S
  <2>1. Nth(places, n) \in places
    <3> HIDE DEF places
    <3> QED
      BY <1>1, NthIsOne
  <2> QED
    BY <1>1, <2>1
<1> HIDE DEF kept, places
<1> QED
  BY <1>1, <1>2, <1>3, <1>4

\* Something that goes leaves the rest shorter.
LEMMA WithinDrops ==
    ASSUME NEW S, NEW s \in Seq(S), NEW K, NEW i \in 1..Len(s), s[i] \notin K
    PROVE  Len(Within(s, K)) <= Len(s) - 1
<1> DEFINE places == PlacesOf(s, K)
           rest == (1..Len(s)) \ {i}
<1>1. Len(s) \in Nat /\ places \subseteq rest
  BY DEF PlacesOf
<1>2. IsFiniteSet(1..Len(s)) /\ Cardinality(1..Len(s)) = Len(s)
  <2>1. \A l \in Nat : IsFiniteSet(1..l) /\ Cardinality(1..l) = l
    BY FS_Interval
  <2> QED
    BY <1>1, <2>1
<1>3. IsFiniteSet(rest) /\ Cardinality(rest) = Len(s) - 1
  BY <1>2, FS_RemoveElement
<1> HIDE DEF places, rest
<1>4. Cardinality(places) \in Nat /\ Cardinality(places) <= Len(s) - 1
  BY <1>1, <1>3, FS_Subset, FS_CardinalityType
<1>5. Within(s, K) = [n \in 1..Cardinality(places) |-> s[Nth(places, n)]]
  BY DEF Within, places
<1>6. Len(Within(s, K)) = Cardinality(places)
  BY <1>4, <1>5
<1> QED
  BY <1>4, <1>6

\* Every place of what stays is the n-th one for some n.
LEMMA EveryPlaceIsNth ==
    ASSUME NEW L \in Nat, NEW places \in SUBSET (1..L), NEW i \in places
    PROVE  \E n \in 1..Cardinality(places) : Nth(places, n) = i
<1> DEFINE upto(k) == {j \in places : j <= k}
           n == Cardinality(upto(i))
<1>1. IsFiniteSet(places) /\ Cardinality(places) \in Nat
  <2>1. IsFiniteSet(1..L)
    BY FS_Interval
  <2> QED
    BY <2>1, FS_Subset, FS_CardinalityType
<1>2. \A k : IsFiniteSet(upto(k)) /\ Cardinality(upto(k)) \in Nat
  <2>1. TAKE k
  <2>2. upto(k) \subseteq places
    OBVIOUS
  <2> HIDE DEF upto
  <2> QED
    BY <1>1, <2>2, FS_Subset, FS_CardinalityType
<1>3. n \in 1..Cardinality(places)
  <2>1. i \in upto(i) /\ upto(i) \subseteq places
    <3>1. i \in Nat
      OBVIOUS
    <3>2. i <= i
      BY <3>1
    <3> QED
      BY <3>2
  <2>2. n <= Cardinality(places)
    <3> HIDE DEF upto
    <3> QED
      BY <1>1, <2>1, FS_Subset
  <2>3. n # 0
    <3> HIDE DEF upto
    <3> QED
      BY <1>2, <2>1, FS_EmptySet
  <2> HIDE DEF upto
  <2> QED
    BY <1>1, <1>2, <2>2, <2>3
<1> DEFINE m == Nth(places, n)
<1>4. m \in places /\ Cardinality(upto(m)) = n
  <2> HIDE DEF n
  <2> QED
    BY <1>3, NthIsOne
<1>5. \A a, b \in places : a < b => Cardinality(upto(a)) < Cardinality(upto(b))
  <2> SUFFICES ASSUME NEW a \in places, NEW b \in places, a < b
               PROVE  Cardinality(upto(a)) < Cardinality(upto(b))
    OBVIOUS
  <2>1. upto(a) \subseteq upto(b) /\ b \in upto(b) /\ b \notin upto(a)
    <3>1. a \in Nat /\ b \in Nat /\ \A j \in places : j \in Nat
      OBVIOUS
    <3>2. b <= b /\ ~(b <= a) /\ \A j \in places : j <= a => j <= b
      BY <3>1
    <3> QED
      BY <3>2
  <2> HIDE DEF upto
  <2>2. upto(a) # upto(b)
    BY <2>1
  <2>3. Cardinality(upto(a)) <= Cardinality(upto(b))
    BY <1>2, <2>1, FS_Subset
  <2>4. Cardinality(upto(a)) # Cardinality(upto(b))
    BY <1>2, <2>1, <2>2, FS_Subset
  <2> QED
    BY <1>2, <2>3, <2>4
<1>6. m \in Nat /\ i \in Nat
  <2>1. \A j \in places : j \in Nat
    OBVIOUS
  <2>2. m \in places
    BY <1>4
  <2> QED
    BY <2>1, <2>2
<1> HIDE DEF m
<1>7. ~(m < i) /\ ~(i < m)
  <2>1. Cardinality(upto(m)) = Cardinality(upto(i)) /\ Cardinality(upto(i)) \in Nat
    BY <1>2, <1>4
  <2> HIDE DEF upto
  <2> QED
    BY <1>4, <1>5, <2>1
<1>8. m = i
  BY <1>6, <1>7
<1> QED
  BY <1>3, <1>8 DEF m

\* Exactly the keys of K stay, each as often as it was there.
LEMMA WithinKeeps ==
    ASSUME NEW S, NEW s \in Seq(S), NEW K
    PROVE  /\ \A n \in DOMAIN Within(s, K) : \E i \in DOMAIN s : s[i] = Within(s, K)[n] /\ s[i] \in K
           /\ \A i \in DOMAIN s : s[i] \in K => \E n \in DOMAIN Within(s, K) : Within(s, K)[n] = s[i]
           /\ (\A i, j \in DOMAIN s : s[i] = s[j] => i = j) =>
                 \A m, n \in DOMAIN Within(s, K) : Within(s, K)[m] = Within(s, K)[n] => m = n
<1> DEFINE places == PlacesOf(s, K)
           kept == Cardinality(places)
<1>1. Len(s) \in Nat /\ places \in SUBSET (1..Len(s)) /\ DOMAIN s = 1..Len(s)
  BY DEF PlacesOf
<1>2. Within(s, K) = [n \in 1..kept |-> s[Nth(places, n)]]
  BY DEF Within
<1>3. \A i : i \in places <=> i \in DOMAIN s /\ s[i] \in K
  BY DEF PlacesOf
<1> HIDE DEF places
<1>4. \A n \in 1..kept : Nth(places, n) \in places /\ Cardinality({j \in places : j <= Nth(places, n)}) = n
  BY <1>1, NthIsOne
<1>5. \A i \in places : \E n \in 1..kept : Nth(places, n) = i
  BY <1>1, EveryPlaceIsNth
<1> HIDE DEF kept
<1>6. DOMAIN Within(s, K) = 1..kept /\ \A n \in 1..kept : Within(s, K)[n] = s[Nth(places, n)]
  BY <1>2
<1>7. ASSUME NEW n \in 1..kept PROVE \E i \in DOMAIN s : s[i] = Within(s, K)[n] /\ s[i] \in K
  BY <1>3, <1>4, <1>6
<1>8. ASSUME NEW i \in DOMAIN s, s[i] \in K PROVE \E n \in 1..kept : Within(s, K)[n] = s[i]
  BY <1>3, <1>5, <1>6, <1>8
<1>9. ASSUME \A i, j \in DOMAIN s : s[i] = s[j] => i = j,
             NEW m \in 1..kept, NEW n \in 1..kept, Within(s, K)[m] = Within(s, K)[n]
      PROVE  m = n
  <2>1. Nth(places, m) = Nth(places, n)
    BY <1>3, <1>4, <1>6, <1>9
  <2> QED
    BY <1>4, <2>1
<1> QED
  BY <1>6, <1>7, <1>8, <1>9

\* A place with n of them up to it is the n-th one.
LEMMA NthIsThat ==
    ASSUME NEW L \in Nat, NEW places \in SUBSET (1..L), NEW i \in places, NEW n,
           Cardinality({j \in places : j <= i}) = n
    PROVE  n \in 1..Cardinality(places) /\ Nth(places, n) = i
<1> DEFINE upto(k) == {j \in places : j <= k}
<1>1. PICK m \in 1..Cardinality(places) : Nth(places, m) = i
  BY EveryPlaceIsNth
<1>2. Cardinality(upto(Nth(places, m))) = m
  <2>1. Cardinality({j \in places : j <= Nth(places, m)}) = m
    BY NthIsOne
  <2> QED
    BY <2>1
<1>3. m = n
  BY <1>1, <1>2
<1> QED
  BY <1>1, <1>3

\* All of it stays, when nothing of it goes.
LEMMA WithinAll ==
    ASSUME NEW S, NEW s \in Seq(S), NEW K, \A i \in DOMAIN s : s[i] \in K
    PROVE  Within(s, K) = s
<1> DEFINE L == Len(s)
           places == PlacesOf(s, K)
<1>1. L \in Nat /\ DOMAIN s = 1..L /\ places = 1..L
  BY DEF PlacesOf
<1>2. Within(s, K) = [n \in 1..Cardinality(places) |-> s[Nth(places, n)]]
  BY DEF Within
<1>3. s = [n \in 1..L |-> s[n]]
  BY <1>1
<1> HIDE DEF L, places
<1>4. \A l \in Nat : Cardinality(1..l) = l
  BY FS_Interval
<1>5. ASSUME NEW n \in 1..L PROVE Nth(1..L, n) = n
  <2>1. {j \in 1..L : j <= n} = 1..n /\ n \in Nat
    BY <1>1
  <2>2. Cardinality({j \in 1..L : j <= n}) = n
    BY <1>4, <2>1
  <2> DEFINE P == 1..L
  <2>3. P \in SUBSET (1..L) /\ n \in P /\ Cardinality({j \in P : j <= n}) = n
    BY <2>2
  <2> HIDE DEF P
  <2>4. Nth(P, n) = n
    BY <1>1, <2>3, NthIsThat
  <2> QED
    BY <2>4 DEF P
<1>6. Within(s, K) = [n \in 1..L |-> s[Nth(1..L, n)]]
  BY <1>1, <1>2, <1>4
<1> QED
  BY <1>3, <1>5, <1>6

\* Nothing stays, when all of it goes.
LEMMA WithinNone ==
    ASSUME NEW S, NEW s \in Seq(S), NEW K, \A i \in DOMAIN s : s[i] \notin K
    PROVE  Within(s, K) = <<>>
<1>1. PlacesOf(s, K) = {}
  BY DEF PlacesOf
<1>2. Cardinality(PlacesOf(s, K)) = 0
  BY <1>1, FS_EmptySet
<1> QED
  BY <1>2 DEF Within

\* Of two lines, one after the other, the same stays as of each.
LEMMA WithinJoins ==
    ASSUME NEW S, NEW s \in Seq(S), NEW t \in Seq(S), NEW K
    PROVE  Within(s \o t, K) = Within(s, K) \o Within(t, K)
<1> DEFINE l == Len(s)
           m == Len(t)
           st == s \o t
           P == PlacesOf(s, K)
           Q == PlacesOf(t, K)
           R == PlacesOf(st, K)
           p == Cardinality(P)
           q == Cardinality(Q)
           after(X) == {l + i : i \in X}
           put == [i \in Q |-> l + i]
<1>1. /\ l \in Nat /\ m \in Nat /\ DOMAIN s = 1..l /\ DOMAIN t = 1..m
      /\ DOMAIN st = 1..(l + m)
      /\ \A i \in 1..(l + m) : st[i] = IF i <= l THEN s[i] ELSE t[i - l]
  OBVIOUS
<1>2. /\ \A i : i \in P <=> i \in 1..l /\ s[i] \in K
      /\ \A i : i \in Q <=> i \in 1..m /\ t[i] \in K
      /\ \A i : i \in R <=> i \in 1..(l + m) /\ st[i] \in K
  BY <1>1 DEF PlacesOf
<1>3. /\ Within(s, K) = [n \in 1..p |-> s[Nth(P, n)]]
      /\ Within(t, K) = [n \in 1..q |-> t[Nth(Q, n)]]
      /\ Within(st, K) = [n \in 1..Cardinality(R) |-> st[Nth(R, n)]]
  BY DEF Within
<1> HIDE DEF l, m, st, P, Q, R
<1>4. P \in SUBSET (1..l) /\ Q \in SUBSET (1..m) /\ R \in SUBSET (1..(l + m)) /\ l + m \in Nat
  BY <1>1, <1>2
<1>5. \A X : X \subseteq P \/ X \subseteq Q \/ X \subseteq R => IsFiniteSet(X) /\ Cardinality(X) \in Nat
  <2>1. \A n \in Nat : IsFiniteSet(1..n)
    BY FS_Interval
  <2>2. IsFiniteSet(P) /\ IsFiniteSet(Q) /\ IsFiniteSet(R)
    BY <1>1, <1>4, <2>1, FS_Subset
  <2> QED
    BY <2>2, FS_Subset, FS_CardinalityType
<1>6. R = P \cup after(Q)
  <2>1. ASSUME NEW i \in R PROVE i \in P \cup after(Q)
    <3>1. i \in 1..(l + m) /\ st[i] \in K
      BY <1>2
    <3>2. CASE i <= l
      <4>1. i \in 1..l /\ s[i] \in K
        BY <1>1, <3>1, <3>2
      <4> QED
        BY <1>2, <4>1
    <3>3. CASE ~(i <= l)
      <4> DEFINE k == i - l
      <4>1. k \in 1..m /\ i = l + k
        BY <1>1, <3>1, <3>3
      <4>2. t[k] \in K
        BY <1>1, <3>1, <3>3
      <4> HIDE DEF k
      <4> QED
        BY <1>2, <4>1, <4>2
    <3> QED
      BY <3>2, <3>3
  <2>2. ASSUME NEW i \in P PROVE i \in R
    <3>1. i \in 1..l /\ s[i] \in K
      BY <1>2
    <3>2. i \in 1..(l + m) /\ i <= l
      BY <1>1, <3>1
    <3> QED
      BY <1>1, <1>2, <3>1, <3>2
  <2>3. ASSUME NEW i \in Q PROVE l + i \in R
    <3>1. i \in 1..m /\ t[i] \in K
      BY <1>2
    <3>2. l + i \in 1..(l + m) /\ ~(l + i <= l) /\ (l + i) - l = i
      BY <1>1, <3>1
    <3> QED
      BY <1>1, <1>2, <3>1, <3>2
  <2> QED
    BY <2>1, <2>2, <2>3
\* The places of a part of t, moved behind s.
<1>7. ASSUME NEW X \in SUBSET Q
      PROVE  Cardinality(P \cup after(X)) = p + Cardinality(X) /\ p \in Nat /\ Cardinality(X) \in Nat
  <2> DEFINE f == [i \in X |-> l + i]
  <2>1. \A i \in X : i \in Nat /\ i >= 1
    BY <1>4
  <2>2. f \in Bijection(X, after(X))
    <3>1. f \in Surjection(X, after(X))
      BY DEF Surjection
    <3>2. \A i, j \in X : l + i = l + j => i = j
      BY <1>1, <2>1
    <3>3. f \in Injection(X, after(X))
      <4>1. f \in [X -> after(X)] /\ \A i \in X : f[i] = l + i
        OBVIOUS
      <4> HIDE DEF f, after
      <4>2. \A i, j \in X : f[i] = f[j] => i = j
        BY <3>2, <4>1
      <4> QED
        BY <4>1, <4>2 DEF Injection, IsInjective
    <3> HIDE DEF f, after
    <3> QED
      BY <3>1, <3>3 DEF Bijection
  <2>3. P \cap after(X) = {}
    <3>1. \A i \in P : \A j \in X : i # l + j
      BY <1>1, <1>4, <2>1
    <3> QED
      BY <3>1
  <2> HIDE DEF f, after
  <2>4. IsFiniteSet(X) /\ Cardinality(X) \in Nat /\ IsFiniteSet(P) /\ p \in Nat
    BY <1>5
  <2>5. ExistsBijection(X, after(X))
    BY <2>2 DEF ExistsBijection
  <2>6. IsFiniteSet(after(X)) /\ Cardinality(after(X)) = Cardinality(X)
    BY <2>4, <2>5, FS_Bijection
  <2>7. Cardinality(P \cup after(X)) = Cardinality(P) + Cardinality(after(X))
    <3>1. Cardinality(P \cap after(X)) = 0
      BY <2>3, FS_EmptySet
    <3>2. Cardinality(P \cup after(X)) = Cardinality(P) + Cardinality(after(X)) - Cardinality(P \cap after(X))
      BY <2>4, <2>6, FS_Union
    <3>3. Cardinality(P) \in Nat /\ Cardinality(after(X)) \in Nat
      BY <2>4, <2>6
    <3> QED
      BY <3>1, <3>2, <3>3
  <2> QED
    BY <2>4, <2>6, <2>7
<1>8. Cardinality(R) = p + q /\ p \in Nat /\ q \in Nat
  <2> HIDE DEF after
  <2> QED
    BY <1>6, <1>7
<1>9. ASSUME NEW n \in 1..p PROVE st[Nth(R, n)] = s[Nth(P, n)]
  <2> DEFINE i == Nth(P, n)
  <2>1. i \in P /\ Cardinality({j \in P : j <= i}) = n
    <3> HIDE DEF p
    <3>1. n \in 1..Cardinality(P)
      BY DEF p
    <3> QED
      BY <1>1, <1>4, <3>1, NthIsOne
  <2> HIDE DEF i
  <2>2. {j \in R : j <= i} = {j \in P : j <= i}
    <3>1. \A j \in Q : ~(l + j <= i)
      BY <1>1, <1>4, <2>1
    <3> QED
      BY <1>6, <3>1
  <2>3. i \in R
    BY <1>6, <2>1
  <2>4. Nth(R, n) = i
    <3> DEFINE L == l + m
    <3>1. Cardinality({j \in R : j <= i}) = n
      BY <2>1, <2>2
    <3>2. L \in Nat /\ R \in SUBSET (1..L)
      BY <1>4
    <3> HIDE DEF L
    <3> QED
      BY <2>3, <3>1, <3>2, NthIsThat
  <2>5. st[i] = s[i]
    BY <1>1, <1>4, <2>1, <2>3
  <2> QED
    BY <2>4, <2>5 DEF i
<1>10. ASSUME NEW n \in 1..q PROVE st[Nth(R, p + n)] = t[Nth(Q, n)]
  <2> DEFINE i == Nth(Q, n)
             X == {j \in Q : j <= i}
  <2>1. i \in Q /\ Cardinality(X) = n
    <3>1. n \in 1..Cardinality(Q)
      OBVIOUS
    <3> HIDE DEF q
    <3> QED
      BY <1>1, <1>4, <3>1, NthIsOne
  <2> HIDE DEF i
  <2>2. {j \in R : j <= l + i} = P \cup after(X)
    <3>1. \A j \in P : j <= l + i
      BY <1>1, <1>4, <2>1
    <3>2. \A j \in Q : l + j <= l + i <=> j <= i
      BY <1>1, <1>4, <2>1
    <3> QED
      BY <1>6, <3>1, <3>2
  <2>3. l + i \in R
    BY <1>6, <2>1
  <2>4. X \in SUBSET Q
    OBVIOUS
  <2> HIDE DEF X, after
  <2>5. Cardinality({j \in R : j <= l + i}) = p + n
    BY <1>7, <2>1, <2>2, <2>4
  <2> DEFINE k == l + i
             pn == p + n
  <2>6. k \in R /\ Cardinality({j \in R : j <= k}) = pn
    BY <2>3, <2>5
  <2> HIDE DEF k, pn
  <2>7. Nth(R, pn) = k
    <3> DEFINE L == l + m
    <3>1. L \in Nat /\ R \in SUBSET (1..L)
      BY <1>4
    <3> HIDE DEF L
    <3> QED
      BY <2>6, <3>1, NthIsThat
  <2>8. k \in 1..(l + m) /\ ~(k <= l) /\ k - l = i
    BY <1>1, <1>4, <2>1, <2>3 DEF k
  <2>9. st[k] = t[i]
    BY <1>1, <2>8
  <2> QED
    BY <2>7, <2>9 DEF i, pn
<1> DEFINE a == Within(s, K)
           b == Within(t, K)
           c == Within(st, K)
<1>11. a \in Seq(S) /\ b \in Seq(S) /\ c \in Seq(S)
  <2>1. st \in Seq(S)
    BY DEF st
  <2> QED
    BY <2>1, WithinShape
<1> HIDE DEF p, q
<1>12. /\ Len(a) = p /\ Len(b) = q /\ Len(c) = p + q /\ p \in Nat /\ q \in Nat
       /\ \A n \in 1..p : a[n] = s[Nth(P, n)]
       /\ \A n \in 1..q : b[n] = t[Nth(Q, n)]
       /\ \A n \in 1..(p + q) : c[n] = st[Nth(R, n)]
  BY <1>3, <1>8
<1> HIDE DEF a, b, c
<1>13. Len(a \o b) = p + q /\ a \o b \in Seq(S)
  <2>1. a \o b \in Seq(S) /\ Len(a \o b) = Len(a) + Len(b)
    BY <1>11
  <2> QED
    BY <1>12, <2>1
<1>14. ASSUME NEW n \in 1..(p + q) PROVE (a \o b)[n] = c[n]
  <2>1. CASE n <= p
    <3>1. n \in 1..p
      BY <1>12, <2>1
    <3>2. (a \o b)[n] = a[n]
      BY <1>11, <1>12, <3>1
    <3> QED
      BY <1>9, <1>12, <3>1, <3>2
  <2>2. CASE ~(n <= p)
    <3> DEFINE k == n - p
    <3>1. k \in 1..q /\ p + k = n
      BY <1>12, <2>2
    <3>2. (a \o b)[n] = b[n - p]
      BY <1>11, <1>12, <2>2
    <3>3. (a \o b)[n] = b[k]
      BY <3>2
    <3> HIDE DEF k
    <3>4. st[Nth(R, n)] = t[Nth(Q, k)]
      BY <1>10, <3>1
    <3> QED
      BY <1>12, <3>1, <3>3, <3>4
  <2> QED
    BY <2>1, <2>2
<1>15. a \o b = c
  BY <1>11, <1>12, <1>13, <1>14, SeqEqual
<1> QED
  BY <1>15 DEF a, b, c, st
=============================================================================
