------------------------------ MODULE RateLimit ------------------------------
(***************************************************************************)
(* The ratelimit plugin (plugins/ratelimit): a bucket of points per key,   *)
(* refilled an interval after it was last filled, a ban when a call asks   *)
(* for more than is left, and a Map of buckets that is swept of the idle   *)
(* ones above a size and capped above another.                             *)
(*                                                                         *)
(* Time passes in ticks; deadlines are ticks left.                         *)
(***************************************************************************)
EXTENDS Integers, FiniteSets, Sequences, MapOrder

CONSTANTS Keys,       \* keys of connections
          Points,     \* points
          Interval,   \* interval, in ticks
          Block,      \* blockDuration, in ticks
          Longest,    \* bound: the longest ban, in ticks
          SweepAbove, \* the size above which cleanup looks at the buckets (1000)
          MaxBuckets, \* maxBuckets
          NoBucket    \* no bucket

VARIABLES order,   \* the keys of the Map, oldest first
          bucket,  \* bucket[k]: points, ticks to the refill and of the ban left
          granted, \* history: granted[k][i]: points granted i ticks ago, to k not spared
          banned,  \* history: ticks for which k has to be refused
          spared   \* history: keys whose bucket was evicted, reset or unbanned

rateVars == <<order, bucket, granted, banned, spared>>

Full == [points |-> Points, resetIn |-> Interval, ban |-> 0]

RateTypeOK ==
    /\ order \in Seq(Keys)
    /\ bucket \in [Keys -> [points: 0..Points, resetIn: 0..Interval, ban: 0..Longest] \cup {NoBucket}]
    /\ granted \in [Keys -> [0..(Interval - 1) -> Nat]]
    /\ banned \in [Keys -> 0..Longest]
    /\ spared \subseteq Keys

Init ==
    /\ order = <<>> /\ bucket = [k \in Keys |-> NoBucket]
    /\ granted = [k \in Keys |-> [i \in 0..(Interval - 1) |-> 0]]
    /\ banned = [k \in Keys |-> 0] /\ spared = {}

\* (mutant: a bucket that is due for a refill goes although it is banned)
IdleUnlessFull(k) == bucket[k].resetIn = 0

Idle(k) == bucket[k].resetIn = 0 /\ bucket[k].ban = 0

\* cleanup: the buckets that go.
Swept == IF Len(order) <= SweepAbove THEN {} ELSE {k \in Keys : bucket[k] # NoBucket /\ Idle(k)}

\* consume: the buckets are swept, a new one may push out the oldest, then the
\* ban, the refill and the points are looked at in this order.
Consume(k, cost) ==
    LET kept == Within(order, Keys \ Swept)
        new == bucket[k] = NoBucket \/ k \in Swept
        victims == IF new /\ Len(kept) >= MaxBuckets THEN {Head(kept)} ELSE {}
        b == IF new THEN Full ELSE bucket[k]
        filled == IF b.resetIn = 0 THEN [b EXCEPT !.points = Points, !.resetIn = Interval] ELSE b
        allowed == b.ban = 0 /\ filled.points >= cost
        after == IF b.ban > 0 THEN b
                 ELSE IF allowed THEN [filled EXCEPT !.points = @ - cost]
                 ELSE [filled EXCEPT !.ban = Block]
    IN  /\ order' = IF new THEN Append(Within(kept, Keys \ victims), k) ELSE kept
        /\ bucket' = [x \in Keys |-> IF x = k THEN after
                        ELSE IF x \in Swept \cup victims THEN NoBucket ELSE bucket[x]]
        /\ granted' = IF allowed /\ k \notin spared THEN [granted EXCEPT ![k][0] = @ + cost] ELSE granted
        /\ banned' = IF b.ban = 0 /\ ~allowed THEN [banned EXCEPT ![k] = Block] ELSE banned
        /\ spared' = spared \cup victims

\* reset of a key, or clear of all.
Reset(K) ==
    /\ K # {} /\ \A k \in K : bucket[k] # NoBucket
    /\ order' = Within(order, Keys \ K)
    /\ bucket' = [k \in Keys |-> IF k \in K THEN NoBucket ELSE bucket[k]]
    /\ spared' = spared \cup K
    /\ UNCHANGED <<granted, banned>>

\* ban by hand, for a time of its own, which also ends or shortens a ban that
\* runs (a call that gives none bans for blockDuration or, if that is 0, for a
\* minute): a key without a bucket gets an empty one, whatever the cap.
Ban(k, duration) ==
    /\ bucket' = [bucket EXCEPT ![k] =
                    IF @ = NoBucket THEN [points |-> 0, resetIn |-> Interval, ban |-> duration]
                    ELSE [@ EXCEPT !.ban = duration]]
    /\ order' = IF bucket[k] = NoBucket THEN Append(order, k) ELSE order
    /\ banned' = [banned EXCEPT ![k] = duration]
    /\ UNCHANGED <<granted, spared>>

Unban(k) ==
    /\ bucket[k] # NoBucket /\ bucket[k].ban > 0
    /\ bucket' = [bucket EXCEPT ![k].ban = 0]
    /\ spared' = spared \cup {k}
    /\ UNCHANGED <<order, granted, banned>>

Less(n) == IF n > 0 THEN n - 1 ELSE 0

Tick ==
    /\ bucket' = [k \in Keys |-> IF bucket[k] = NoBucket THEN NoBucket
                    ELSE [bucket[k] EXCEPT !.resetIn = Less(@), !.ban = Less(@)]]
    /\ granted' = [k \in Keys |-> [i \in 0..(Interval - 1) |-> IF i = 0 THEN 0 ELSE granted[k][i - 1]]]
    /\ banned' = [k \in Keys |-> Less(banned[k])]
    /\ UNCHANGED <<order, spared>>

Next ==
    \/ \E k \in Keys : \E cost \in 1..(Points + 1) : Consume(k, cost)
    \/ \E k \in Keys : Reset({k}) \/ Unban(k) \/ \E duration \in 0..Longest : Ban(k, duration)
    \/ Reset({order[i] : i \in DOMAIN order})
    \/ Tick

RateSpec == Init /\ [][Next]_rateVars

\* The points granted to k in the last n ticks, counted one by one.
Spent(k, n) ==
    Cardinality(UNION {{<<i, point>> : point \in 1..granted[k][i]} : i \in 0..(n - 1)})

\* For a key that was not evicted, reset or unbanned: a ban is in force for its
\* whole duration (of several the last one's), whatever the sweep removed in between, and no stretch of one
\* interval, wherever it begins, grants more than two fillings.
LimitHolds ==
    /\ RateTypeOK
    /\ \A k \in Keys \ spared :
         /\ banned[k] > 0 => bucket[k] # NoBucket /\ bucket[k].ban = banned[k]
         /\ Spent(k, Interval) <= 2 * Points
===============================================================================
