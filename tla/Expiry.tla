------------------------------- MODULE Expiry -------------------------------
(***************************************************************************)
(* crud and lookup with maxAge (client.js): a list, or a record, of items  *)
(* kept up by the events of a topic, a Map of timestamps, and a sweep that *)
(* takes out what was not created or updated for too long.                 *)
(*                                                                         *)
(* The timestamps are a Map and the record is an object: an object's keys  *)
(* are texts, and a Map tells the number 5 from the text "5".  Time is     *)
(* counted in sweeps; ages past the limit are one.                         *)
(***************************************************************************)
EXTENDS Integers

CONSTANTS Items,   \* ids
          MaxAge   \* maxAge, in sweep intervals

Forms == {"text", "number"}
Events == {"created", "updated", "deleted"}
Absent == -1
TooOld == MaxAge + 1

VARIABLES kind,      \* crud or lookup
          numeric,   \* the ids of the items are numbers
          initial,   \* the items given with the call
          mounted,   \* somebody subscribes
          list,      \* list, map
          stamp,     \* stamp[f][i]: the age of a timestamp under that key
          age        \* history: age[i]: since i was given, created or updated

expiryVars == <<kind, numeric, initial, mounted, list, stamp, age>>

TypeOK ==
    /\ kind \in {"crud", "lookup"} /\ numeric \in BOOLEAN /\ initial \subseteq Items
    /\ mounted \in BOOLEAN /\ list \subseteq Items
    /\ stamp \in [Forms -> [Items -> Absent..TooOld]]
    /\ age \in [Items -> Absent..TooOld]

\* The key initial items are stamped under: crud makes a text of it, and a
\* loop over the keys of an object yields texts.
Given == [f \in Forms |-> [i \in Items |-> IF f = "text" /\ i \in initial THEN 0 ELSE Absent]]
AgesGiven == [i \in Items |-> IF i \in initial THEN 0 ELSE Absent]

Init ==
    /\ kind \in {"crud", "lookup"} /\ numeric \in BOOLEAN /\ initial \in SUBSET Items
    /\ mounted = FALSE /\ list = initial
    /\ stamp = Given /\ age = AgesGiven

\* keyOf of an event's data: crud makes a text of it too, lookup does not.
KeyForm == IF kind = "lookup" /\ numeric THEN "number" ELSE "text"

\* applyCrudReducer: an array is only updated where the item is in it.
Applied(event, i) ==
    CASE event = "created" -> list \cup {i}
      [] event = "updated" -> IF kind = "lookup" THEN list \cup {i} ELSE list
      [] event = "deleted" -> list \ {i}

\* (mutant: an update does not renew the timestamp)
TakeUnstamped(event, i) ==
    /\ list' = Applied(event, i)
    /\ stamp' = [stamp EXCEPT ![KeyForm][i] =
                   CASE event = "deleted" -> Absent [] event = "created" -> 0 [] OTHER -> @]
    /\ age' = [age EXCEPT ![i] = IF event # "deleted" /\ i \in list' THEN 0 ELSE Absent]

\* The listener of start(), for one event.
Take(event, i) ==
    /\ list' = Applied(event, i)
    /\ stamp' = [stamp EXCEPT ![KeyForm][i] = IF event = "deleted" THEN Absent ELSE 0]
    /\ age' = [age EXCEPT ![i] = IF event # "deleted" /\ i \in list' THEN 0 ELSE Absent]

Event(event, i) ==
    /\ mounted /\ Take(event, i)
    /\ UNCHANGED <<kind, numeric, initial, mounted>>

\* start(): the topic's store may hold an event already.
Start ==
    /\ ~mounted /\ mounted' = TRUE
    /\ \/ UNCHANGED <<list, stamp, age>>
       \/ \E event \in Events, i \in Items : Take(event, i)
    /\ UNCHANGED <<kind, numeric, initial>>

\* stop(): everything is as it was given, and stamped now.
Stop ==
    /\ mounted /\ mounted' = FALSE
    /\ list' = initial /\ stamp' = Given /\ age' = AgesGiven
    /\ UNCHANGED <<kind, numeric, initial>>

Older(a) == IF a \in {Absent, TooOld} THEN a ELSE a + 1

\* One sweep interval; sweep() runs while mounted.
Tick ==
    LET older == [f \in Forms |-> [i \in Items |-> Older(stamp[f][i])]]
        swept == {k \in Forms \X Items : mounted /\ older[k[1]][k[2]] = TooOld}
    IN /\ stamp' = [f \in Forms |-> [i \in Items |-> IF <<f, i>> \in swept THEN Absent ELSE older[f][i]]]
       /\ list' = list \ {k[2] : k \in swept}
       /\ age' = [i \in Items |-> Older(age[i])]
       /\ UNCHANGED <<kind, numeric, initial, mounted>>

Next == Start \/ Stop \/ Tick \/ \E event \in Events, i \in Items : Event(event, i)

ExpirySpec == Init /\ [][Next]_expiryVars

-----------------------------------------------------------------------------
\* What was given, created or updated within maxAge is shown, and what is
\* shown has a timestamp that will take it out.
Shown ==
    /\ \A i \in Items : age[i] \in 0..MaxAge => i \in list
    /\ \A i \in list : \E f \in Forms : stamp[f][i] # Absent

\* It holds for a list, and for a record whose ids are texts.
FreshStay == TypeOK /\ (kind = "crud" \/ ~numeric => Shown)

\* client.js:394-396 says it of lookup: only entries that were not created or
\* updated within maxAge are removed.  A numeric id is stamped once as a text,
\* with the initial items, and once as a number, by the events; the sweep
\* finds the first of the two old.
UpdatedStay == kind = "lookup" => Shown
=============================================================================
