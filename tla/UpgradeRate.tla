----------------------------- MODULE UpgradeRate ------------------------------
(***************************************************************************)
(* The limit on upgrades per client address (files/handler.js): a sliding  *)
(* window estimated from the counts of two, the older of which fades out   *)
(* as the newer proceeds, and the sweep that forgets addresses.            *)
(*                                                                         *)
(* One address. A tick is the grain of cachedNow, which both read. The     *)
(* sweep evicts the least active when there are too many addresses: from   *)
(* here that is a choice.                                                  *)
(***************************************************************************)
EXTENDS Integers

CONSTANTS PerWindow, \* UPGRADE_MAX_PER_WINDOW, not 0
          Window,    \* UPGRADE_WINDOW_MS, in ticks
          MaxTicks,  \* bound: time
          MaxEvicted \* bound: evictions

VARIABLES tick,     \* cachedNow
          known,    \* the address has an entry in upgradeRateMap
          entry,    \* the entry: [prev, curr, windowStart]
          verdict,  \* what the last upgrade was answered
          granted,  \* history: granted[t]: upgrades let through up to and at tick t
          evicted   \* bound

rateVars == <<tick, known, entry, verdict, granted, evicted>>

Ticks == 0..MaxTicks
Fresh(t) == [prev |-> 0, curr |-> 0, windowStart |-> t]

UpgradeRateTypeOK ==
    /\ tick \in Ticks /\ known \in BOOLEAN /\ evicted \in 0..MaxEvicted
    /\ entry \in [prev: 0..PerWindow, curr: 0..PerWindow, windowStart: 0..tick]
    /\ verdict \in {"none", "granted", "refused"}
    /\ granted \in [Ticks -> Nat]

Init ==
    /\ tick = 0 /\ known = FALSE /\ entry = Fresh(0)
    /\ verdict = "none" /\ granted = [t \in Ticks |-> 0] /\ evicted = 0

Tick ==
    /\ tick < MaxTicks /\ tick' = tick + 1 /\ verdict' = "none"
    /\ granted' = [granted EXCEPT ![tick + 1] = granted[tick]]
    /\ UNCHANGED <<known, entry, evicted>>

\* The entry as the upgrade handler finds it, or makes it, at this tick.
Rotated ==
    LET elapsed == tick - entry.windowStart IN
    IF ~known \/ elapsed >= 2 * Window THEN Fresh(tick)
    ELSE IF elapsed >= Window THEN [Fresh(tick) EXCEPT !.prev = entry.curr]
    ELSE entry

\* The estimate, times Window: prev fades out linearly.
Estimate(e) == e.prev * (Window - (tick - e.windowStart)) + e.curr * Window

\* An upgrade request of the address. A refused one is not counted.
Ask ==
    /\ known' = TRUE
    /\ IF Estimate(Rotated) >= PerWindow * Window
       THEN verdict' = "refused" /\ entry' = Rotated /\ UNCHANGED granted
       ELSE /\ verdict' = "granted" /\ entry' = [Rotated EXCEPT !.curr = @ + 1]
            /\ granted' = [granted EXCEPT ![tick] = @ + 1]
    /\ UNCHANGED <<tick, evicted>>

\* The sweep forgets an entry whose two windows have passed.
Sweep ==
    /\ known /\ tick - entry.windowStart >= 2 * Window /\ known' = FALSE
    /\ UNCHANGED <<tick, entry, verdict, granted, evicted>>

\* It evicts the entry: there are more than MAX_RATE_ENTRIES, and more active ones.
Evict ==
    /\ known /\ evicted < MaxEvicted /\ evicted' = evicted + 1 /\ known' = FALSE
    /\ UNCHANGED <<tick, entry, verdict, granted>>

Next == Tick \/ Ask \/ Sweep \/ Evict

-------------------------------------------------------------------------------
\* The upgrades let through from tick "from" to tick "to".
GrantedIn(from, to) == granted[to] - (IF from > 0 THEN granted[from - 1] ELSE 0)

\* No address doubles its rate by asking at the boundary of two windows: as long
\* as it was not evicted, a stretch of time grants no more than the limit, rounded
\* up, and the share of it that fades out meanwhile, whenever the upgrades come and
\* the windows rotate.
NotDoubled ==
    evicted = 0 =>
        \A from, to \in 0..tick : to - from \in 0..(Window - 1) =>
            GrantedIn(from, to) * Window < (PerWindow + 1) * Window + PerWindow * (to - from)

\* An address is refused only on account of what it was granted itself, and
\* nothing older than three windows counts: two that passed before it was looked
\* at again, and the one that follows.
RefusedWithReason ==
    verdict = "refused" => GrantedIn(tick - 3 * Window + 1, tick) >= PerWindow

RateIsLimited == NotDoubled /\ RefusedWithReason
===============================================================================
