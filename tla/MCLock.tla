------------------------------- MODULE MCLock --------------------------------
(***************************************************************************)
(* Instances for TLC of the plugins that decide who may go on: locks, rate *)
(* limits, session and dedup maps, and throttle. They share no state;      *)
(* part, chosen at the start, says which of them moves.                    *)
(***************************************************************************)
EXTENDS LockRefinement, TLC

CONSTANTS RateKeys, Points, Interval, Block, Longest, SweepAbove, MaxBuckets, NoBucket, \* of RateLimit
          Ids, Ttl, MaxEntries,                                              \* of TtlMap
          Topics, Late, MaxTopics, Bad, MaxMsgs                              \* of Throttle

VARIABLES part,
          order, bucket, granted, banned, spared,
          prolongs, entries, expires, alive, crowded,
          debounces, topics, pending, delay, given, sent, cancelled, threw

rateVars == <<order, bucket, granted, banned, spared>>
ttlVars == <<prolongs, entries, expires, alive, crowded>>
throttleVars == <<debounces, topics, pending, delay, given, sent, cancelled, threw>>

\* Two keys with room for the bucket of one.
L == INSTANCE RateLimit WITH Keys <- RateKeys

E == INSTANCE TtlMap

\* The late topic has one message: it comes to be evicted, or to evict.
T == INSTANCE Throttle WITH timer <- delay

\* The plugins refuse limits that are not positive; messages are numbered from one.
ASSUME LimitsConstantsOK ==
    /\ Points \in Nat \ {0} /\ Interval \in Nat \ {0} /\ Block \in Nat
    /\ Longest \in Nat /\ Block <= Longest
    /\ SweepAbove \in Nat /\ MaxBuckets \in Nat \ {0}
    /\ NoBucket \notin [points: 0..Points, resetIn: 0..Interval, ban: 0..Longest]
    /\ IsFiniteSet(Ids) /\ Ttl \in Nat \ {0} /\ MaxEntries \in Nat \ {0}
    /\ Late \in Topics /\ MaxTopics \in Nat \ {0} /\ Bad \subseteq Nat \ {0} /\ MaxMsgs \in Nat

PartsInit ==
    /\ part \in {"lock", "rate", "ttl", "throttle"}
    /\ Init /\ L!Init /\ E!Init /\ T!Init
    /\ part # "ttl" => ~prolongs
    /\ part # "throttle" => ~debounces

PartsNext ==
    /\ UNCHANGED part
    /\ \/ part = "lock" /\ Next /\ UNCHANGED <<rateVars, ttlVars, throttleVars>>
       \/ part = "rate" /\ L!Next /\ UNCHANGED <<vars, ttlVars, throttleVars>>
       \/ part = "ttl" /\ E!Next /\ UNCHANGED <<vars, rateVars, throttleVars>>
       \/ /\ part = "throttle" /\ T!Next /\ given'[Late] <= 1
          /\ UNCHANGED <<vars, rateVars, ttlVars>>

\* Calls of withLock only come to an end: what Lock asks of the steps of each
\* call may be asked of these steps together.
PartsSpec ==
    /\ PartsInit /\ [][PartsNext]_<<part, vars, rateVars, ttlVars, throttleVars>>
    /\ WF_vars(part = "lock" /\ \E c \in Calls : FinishAndPromote(c) \/ FinishAndRelease(c))

\* What the other modules promise of the single request, entry and message.
LimitsAreKept == L!LimitHolds /\ E!LivingAreKept /\ T!LastGoesOut
==============================================================================
