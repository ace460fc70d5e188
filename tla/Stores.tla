------------------------------- MODULE Stores -------------------------------
(***************************************************************************)
(* The stores of the browser client (client.js): on(topic) and             *)
(* on(topic, event), their scan, and once.  A call registers a store in    *)
(* topicStores or eventStores at once, where the dispatcher finds it; a    *)
(* microtask takes it out again when nobody subscribed; the first          *)
(* subscriber counts a reference of the topic and adopts the store then    *)
(* registered; the last one gives the reference back, and the last         *)
(* reference takes every store of the topic out of the maps.               *)
(*                                                                         *)
(* One topic.  A store is a number; events are numbered as they arrive.    *)
(* The public unsubscribe(topic), which drops the references of whoever is *)
(* mounted, is not called.                                                 *)
(***************************************************************************)
EXTENDS Integers, FiniteSets

CONSTANTS Wrappers,  \* the calls of on() and once()
          OfEvent,   \* those that name an event as well
          MaxEvents, \* bound: events that arrive
          MaxSubs    \* bound: subscribers of one wrapper

Keys == {"topic", "event"}  \* topicStores.get(topic), eventStores.get(topic\0event)
Key(w) == IF w \in OfEvent THEN "event" ELSE "topic"
Null == 0
Stores == 1 .. Cardinality(Wrappers) + Cardinality(Keys)
Uses == {"none", "scan", "once"}
Answers == {"none", "waiting", "answered", "over"}

VARIABLES use,       \* use[w]: what the call is
          entry,     \* entry[k]: the registered store
          store,     \* store[w]: the store its closure names
          value,     \* value[s]: the last event a registered store was set to
          subs,      \* subs[w]
          refs,      \* topicRefCounts, 0 when it has no entry
          check,     \* wrappers whose microtask of construction is pending
          answer,    \* answer[w]: what became of a once
          seen,      \* seen[w]: the last event its subscriber was given
          due,       \* history: the event w should have been given since its mount
          arrived    \* events that arrived

maps == <<entry, store, value>>
counts == <<subs, refs>>
storeVars == <<use, maps, counts, check, answer, seen, due, arrived>>

TypeOK ==
    /\ use \in [Wrappers -> Uses]
    /\ entry \in [Keys -> Stores \cup {Null}]
    /\ store \in [Wrappers -> Stores \cup {Null}]
    /\ value \in [Stores -> 0..MaxEvents]
    /\ subs \in [Wrappers -> 0..MaxSubs] /\ refs \in 0 .. Cardinality(Wrappers)
    /\ check \subseteq Wrappers
    /\ answer \in [Wrappers -> Answers]
    /\ {seen, due} \subseteq [Wrappers -> 0..MaxEvents] /\ arrived \in 0..MaxEvents

Init ==
    /\ use = [w \in Wrappers |-> "none"]
    /\ entry = [k \in Keys |-> Null] /\ store = [w \in Wrappers |-> Null]
    /\ value = [s \in Stores |-> 0]
    /\ subs = [w \in Wrappers |-> 0] /\ refs = 0 /\ check = {}
    /\ answer = [w \in Wrappers |-> "none"] /\ arrived = 0
    /\ seen = [w \in Wrappers |-> 0] /\ due = [w \in Wrappers |-> 0]

\* A new writable(null): any number nobody names.
Unused == Stores \ ({entry[k] : k \in Keys} \cup {store[w] : w \in Wrappers})
Fresh == CHOOSE s \in Unused : \A r \in Unused : s <= r

-----------------------------------------------------------------------------
\* (mutant: a wrapper goes on with the store it knows)
MountedOnOwn(w) ==
    LET s == IF store[w] = Null THEN IF entry[Key(w)] = Null THEN Fresh ELSE entry[Key(w)]
                                ELSE store[w]
    IN /\ subs' = [subs EXCEPT ![w] = @ + 1]
       /\ IF subs[w] = 0
            THEN /\ store' = [store EXCEPT ![w] = s]
                 /\ entry' = IF entry[Key(w)] = Null THEN [entry EXCEPT ![Key(w)] = s] ELSE entry
                 /\ refs' = refs + 1
            ELSE UNCHANGED <<store, entry, refs>>

\* wrappedSubscribe of w: its first subscriber registers a store, or adopts
\* the one registered, and counts a reference.
Mounted(w) ==
    LET s == IF entry[Key(w)] = Null THEN Fresh ELSE entry[Key(w)]
    IN /\ subs' = [subs EXCEPT ![w] = @ + 1]
       /\ IF subs[w] = 0
            THEN /\ store' = [store EXCEPT ![w] = s]
                 /\ entry' = [entry EXCEPT ![Key(w)] = s]
                 /\ refs' = refs + 1
            ELSE UNCHANGED <<store, entry, refs>>

\* on(): the store is registered by the call, before anybody subscribes.
On(w) ==
    LET k == Key(w)
    IN /\ use[w] = "none" /\ use' = [use EXCEPT ![w] = "scan"]
       /\ IF entry[k] = Null
            THEN /\ store' = [store EXCEPT ![w] = Fresh]
                 /\ entry' = [entry EXCEPT ![k] = Fresh]
                 /\ check' = check \cup {w}
            ELSE store' = [store EXCEPT ![w] = entry[k]] /\ UNCHANGED <<entry, check>>
       /\ UNCHANGED <<value, counts, answer, seen, due, arrived>>

\* once(): on(), and its subscription in the same task.  The value the store
\* has is skipped.
Once(w) ==
    /\ use[w] = "none" /\ use' = [use EXCEPT ![w] = "once"]
    /\ Mounted(w)
    /\ check' = IF entry[Key(w)] = Null THEN check \cup {w} ELSE check
    /\ answer' = [answer EXCEPT ![w] = "waiting"]
    /\ UNCHANGED <<value, seen, due, arrived>>

\* Somebody subscribes to the scan of w: the reducer is given the event the
\* store holds, if it holds one.
Subscribe(w) ==
    /\ use[w] = "scan" /\ subs[w] < MaxSubs
    /\ Mounted(w)
    /\ seen' = [seen EXCEPT ![w] = IF subs[w] = 0 /\ value[store'[w]] # 0 THEN value[store'[w]] ELSE @]
    /\ UNCHANGED <<use, value, check, answer, due, arrived>>

\* The unsubscribe function of w; the last reference of the topic sends
\* 'unsubscribe' and empties the maps.  A store that left them is never read
\* again, its value is forgotten.
Unmounted(w) ==
    LET released == subs[w] = 1
        gone == released /\ refs <= 1
    IN /\ subs' = [subs EXCEPT ![w] = @ - 1]
       /\ refs' = IF gone THEN 0 ELSE IF released THEN refs - 1 ELSE refs
       /\ entry' = IF gone THEN [k \in Keys |-> Null] ELSE entry
       /\ value' = IF gone THEN [s \in Stores |-> 0] ELSE value
       /\ UNCHANGED store

Unsubscribe(w) ==
    /\ use[w] = "scan" /\ subs[w] > 0
    /\ Unmounted(w)
    /\ IF subs[w] > 1 THEN UNCHANGED <<seen, due>>
                      ELSE seen' = [seen EXCEPT ![w] = 0] /\ due' = [due EXCEPT ![w] = 0]
    /\ UNCHANGED <<use, check, answer, arrived>>

\* (mutant: the microtask does not ask whether the topic has references)
RemoveUnasked(w) ==
    /\ w \in check /\ check' = check \ {w}
    /\ entry' = IF subs[w] = 0 /\ entry[Key(w)] = store[w]
                  THEN [entry EXCEPT ![Key(w)] = Null] ELSE entry
    /\ UNCHANGED <<use, store, value, counts, answer, seen, due, arrived>>

\* The microtask of a construction: a store nobody uses leaves the map.
RemoveUnused(w) ==
    /\ w \in check /\ check' = check \ {w}
    /\ entry' = IF subs[w] = 0 /\ refs = 0 /\ entry[Key(w)] = store[w]
                  THEN [entry EXCEPT ![Key(w)] = Null] ELSE entry
    /\ UNCHANGED <<use, store, value, counts, answer, seen, due, arrived>>

\* The microtask that once queues when it has its answer.
OnceOver(w) ==
    /\ answer[w] = "answered" /\ answer' = [answer EXCEPT ![w] = "over"]
    /\ Unmounted(w)
    /\ UNCHANGED <<use, check, seen, due, arrived>>

\* Events and timers are tasks of their own: every microtask has run.
MicrotasksDone == check = {} /\ \A w \in Wrappers : answer[w] # "answered"

\* Whose subscriber takes the next event it is given: every mounted scan, and
\* a once that still waits.
Takes(w) == subs[w] > 0 /\ answer[w] \in {"none", "waiting"}

\* dispatchEvent: the stores registered for the topic, and for the event when
\* it is the one listened to, are set, and their subscribers called.
Dispatch(keys) ==
    LET e == arrived + 1
        hit == {entry[k] : k \in keys} \ {Null}
        called == {w \in Wrappers : Takes(w) /\ store[w] \in hit}
        meant == {w \in Wrappers : Takes(w) /\ Key(w) \in keys}
    IN /\ MicrotasksDone /\ arrived < MaxEvents
       /\ arrived' = e
       /\ value' = [s \in Stores |-> IF s \in hit THEN e ELSE value[s]]
       /\ seen' = [w \in Wrappers |-> IF w \in called THEN e ELSE seen[w]]
       /\ due' = [w \in Wrappers |-> IF w \in meant THEN e ELSE due[w]]
       /\ answer' = [w \in Wrappers |->
                       IF w \in called /\ answer[w] = "waiting" THEN "answered" ELSE answer[w]]
       /\ UNCHANGED <<use, entry, store, counts, check>>

\* The timeout of a once.
OnceTimeout(w) ==
    /\ MicrotasksDone /\ answer[w] = "waiting"
    /\ answer' = [answer EXCEPT ![w] = "answered"]
    /\ UNCHANGED <<use, maps, counts, check, seen, due, arrived>>

Next ==
    \/ Dispatch({"topic"}) \/ Dispatch({"topic", "event"})
    \/ \E w \in Wrappers :
         \/ On(w) \/ Once(w) \/ Subscribe(w) \/ Unsubscribe(w)
         \/ RemoveUnused(w) \/ OnceOver(w) \/ OnceTimeout(w)

StoreSpec == Init /\ [][Next]_storeVars

-----------------------------------------------------------------------------
(***************************************************************************)
(* Properties.                                                             *)
(***************************************************************************)
\* Whoever is mounted has been given the last event that arrived for it since,
\* whatever other stores of the topic came and went, and a once the first;
\* and the references of the topic are the mounted wrappers.
MountedHear ==
    /\ TypeOK
    /\ refs = Cardinality({w \in Wrappers : subs[w] > 0})
    /\ \A w \in Wrappers : due[w] # 0 => seen[w] = due[w]
    /\ \A w \in Wrappers : use[w] = "once" => seen[w] = due[w] /\ (answer[w] = "waiting" => due[w] = 0)
=============================================================================
