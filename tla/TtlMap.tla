-------------------------------- MODULE TtlMap --------------------------------
(***************************************************************************)
(* The session and dedup plugins (plugins/session, plugins/dedup): a Map   *)
(* of entries with a deadline.  An entry that has expired stays in the Map *)
(* until it is met or the Map outgrows its soft cap by a tenth; then the   *)
(* expired ones go, and after them the oldest.  A session is prolonged     *)
(* whenever it is used, a claimed id never.                                *)
(*                                                                         *)
(* Time passes in ticks; deadlines are ticks left.                         *)
(***************************************************************************)
EXTENDS Integers, FiniteSets, Sequences, MapOrder

CONSTANTS Ids,        \* tokens or message ids
          Ttl,        \* ttl, in ticks
          MaxEntries  \* maxEntries

VARIABLES prolongs, \* a session, not a dedup; never changes
          entries,  \* the keys of the Map, oldest first
          expires,  \* expires[k]: ticks until its deadline, 0 when it is over
          alive,    \* history: ticks k has to live by the plugin's promise
          crowded   \* history: more entries were to live than the cap allows

ttlVars == <<prolongs, entries, expires, alive, crowded>>

TtlTypeOK ==
    /\ prolongs \in BOOLEAN /\ crowded \in BOOLEAN
    /\ entries \in Seq(Ids) /\ Len(entries) * 10 <= MaxEntries * 11
    /\ expires \in [Ids -> 0..Ttl] /\ alive \in [Ids -> 0..Ttl]

Init ==
    /\ prolongs \in BOOLEAN /\ entries = <<>> /\ crowded = FALSE
    /\ expires = [k \in Ids |-> 0] /\ alive = expires

Stored(k) == \E i \in DOMAIN entries : entries[i] = k
Without(k) == Within(entries, Ids \ {k})

\* (mutant: expired entries are not dropped before live ones)
PrunedBlindly(keys, left) ==
    IF Len(keys) * 10 <= MaxEntries * 11 THEN keys
    ELSE SubSeq(keys, Len(keys) - MaxEntries + 1, Len(keys))

\* pruneIfFull: the keys that stay.
Pruned(keys, left) ==
    LET live == Within(keys, {x \in Ids : left[x] > 0}) IN
    IF Len(keys) * 10 <= MaxEntries * 11 THEN keys
    ELSE IF Len(live) <= MaxEntries THEN live
    ELSE SubSeq(live, Len(live) - MaxEntries + 1, Len(live))

\* set, or a claim that succeeds: the entry becomes the newest.
Put(k) ==
    /\ prolongs \/ ~Stored(k) \/ expires[k] = 0
    /\ LET left == [expires EXCEPT ![k] = Ttl]
           keys == Pruned(Append(Without(k), k), left)
       IN  /\ entries' = keys
           /\ expires' = [x \in Ids |-> IF \E i \in DOMAIN keys : keys[i] = x THEN left[x] ELSE 0]
    /\ alive' = [alive EXCEPT ![k] = Ttl]
    /\ crowded' = (crowded \/ Cardinality({x \in Ids : alive'[x] > 0}) > MaxEntries)
    /\ UNCHANGED prolongs

\* get, touch or has: one that has expired is dropped, a live session prolonged.
Meet(k) ==
    /\ Stored(k)
    /\ IF expires[k] = 0
       THEN entries' = Without(k) /\ UNCHANGED <<expires, alive>>
       ELSE /\ expires' = IF prolongs THEN [expires EXCEPT ![k] = Ttl] ELSE expires
            /\ alive' = IF prolongs THEN [alive EXCEPT ![k] = Ttl] ELSE alive
            /\ UNCHANGED entries
    /\ UNCHANGED <<prolongs, crowded>>

\* delete of an entry, or clear of all.
Forget(K) ==
    /\ K # {} /\ \A k \in K : Stored(k)
    /\ entries' = Within(entries, Ids \ K)
    /\ expires' = [k \in Ids |-> IF k \in K THEN 0 ELSE expires[k]]
    /\ alive' = [k \in Ids |-> IF k \in K THEN 0 ELSE alive[k]]
    /\ UNCHANGED <<prolongs, crowded>>

Tick ==
    /\ expires' = [k \in Ids |-> IF expires[k] > 0 THEN expires[k] - 1 ELSE 0]
    /\ alive' = [k \in Ids |-> IF alive[k] > 0 THEN alive[k] - 1 ELSE 0]
    /\ UNCHANGED <<prolongs, entries, crowded>>

Next ==
    \/ \E k \in Ids : Put(k) \/ Meet(k) \/ Forget({k})
    \/ Forget({entries[i] : i \in DOMAIN entries})
    \/ Tick

TtlSpec == Init /\ [][Next]_ttlVars

\* A live session is found and a claimed id refused for its whole ttl, however
\* many others expired around it, as long as no more of them are alive at once
\* than the cap allows; and nothing is taken for alive that has expired or was
\* deleted.
LivingAreKept ==
    /\ TtlTypeOK
    /\ \A k \in Ids : Stored(k) => expires[k] = alive[k]
    /\ ~crowded => \A k \in Ids : alive[k] > 0 => Stored(k)
===============================================================================
