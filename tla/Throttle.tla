------------------------------- MODULE Throttle -------------------------------
(***************************************************************************)
(* The throttle plugin (plugins/throttle): throttle publishes at once and  *)
(* then at most once an interval, debounce publishes when an interval has  *)
(* passed without a call.  Both keep a state per topic until it is idle,   *)
(* and both promise that the last message goes out.                        *)
(*                                                                         *)
(* Messages of a topic are numbered.  Some cannot be published: publish    *)
(* throws, to the caller of publish or flush.  In a timer that would end   *)
(* the process, which is left out.                                         *)
(***************************************************************************)
EXTENDS Integers, Sequences, MapOrder

CONSTANTS Topics,    \* topics
          MaxTopics, \* maxTopics
          Bad,       \* messages that publish throws on
          MaxMsgs    \* bound: messages of a topic

VARIABLES debounces,  \* debounce, not throttle; never changes
          topics,     \* the keys of the Map, oldest first
          pending,    \* pending[t]: the message that waits, 0 for null
          timer,      \* timer[t]: "none" (null), "armed", or "over": state.timer still
                      \* names a timer that was cleared
          given,      \* given[t]: messages handed to publish
          sent,       \* sent[t]: the last one published
          cancelled,  \* cancelled[t]: the last one given before a cancel
          threw       \* a flush failed

throttleVars == <<debounces, topics, pending, timer, given, sent, cancelled, threw>>

ThrottleTypeOK ==
    /\ debounces \in BOOLEAN /\ threw \in BOOLEAN
    /\ topics \in Seq(Topics) /\ Len(topics) <= MaxTopics
    /\ {pending, given, sent, cancelled} \subseteq [Topics -> 0..MaxMsgs]
    /\ timer \in [Topics -> {"none", "armed", "over"}]

Init ==
    /\ debounces \in BOOLEAN /\ topics = <<>> /\ threw = FALSE
    /\ pending = [t \in Topics |-> 0] /\ timer = [t \in Topics |-> "none"]
    /\ given = pending /\ sent = pending /\ cancelled = pending

Held(t) == \E i \in DOMAIN topics : topics[i] = t
Drop(T) == Within(topics, Topics \ T)

\* (mutant: what waits is lost with its topic)
EvictedSilently(victims) == sent

\* evictOldestIfAtCap publishes what waits; if that throws it is swallowed.
Evicted(victims) ==
    [x \in Topics |-> IF x \in victims /\ pending[x] \notin Bad \cup {0} THEN pending[x] ELSE sent[x]]

\* (mutant: while the timer runs, the first message stays)
KeptPending(t, id) == IF pending[t] = 0 THEN id ELSE pending[t]

\* The message that waits is the last one.
NextPending(t, id) == id

\* publish.  throttle: without a timer it goes out at once (a throw leaves the
\* state without one); debounce: it waits, and the timer starts over.
Publish(t) ==
    /\ given[t] < MaxMsgs
    /\ LET id == given[t] + 1
           victims == IF ~Held(t) /\ Len(topics) >= MaxTopics THEN {Head(topics)} ELSE {}
           leading == ~debounces /\ (~Held(t) \/ timer[t] = "none")
           kept == Evicted(victims)
       IN  /\ given' = [given EXCEPT ![t] = id]
           /\ topics' = IF Held(t) THEN topics ELSE Append(Drop(victims), t)
           /\ sent' = IF leading /\ id \notin Bad THEN [kept EXCEPT ![t] = id] ELSE kept
           /\ pending' = [x \in Topics |->
                IF x \in victims THEN 0
                ELSE IF x # t THEN pending[x]
                ELSE IF leading THEN (IF id \in Bad THEN pending[t] ELSE 0)
                ELSE NextPending(t, id)]
           /\ timer' = [x \in Topics |->
                IF x \in victims THEN "none"
                ELSE IF x # t THEN timer[x]
                ELSE IF leading THEN (IF id \in Bad THEN "none" ELSE "armed")
                ELSE IF debounces THEN "armed" ELSE timer[t]]
           /\ cancelled' = [x \in Topics |->
                IF (x = t /\ leading /\ id \in Bad) \/ (x \in victims /\ pending[x] \in Bad) THEN given'[x]
                ELSE cancelled[x]]
    /\ UNCHANGED <<debounces, threw>>

\* The timer: throttle goes on while there is something to publish.
Fire(t) ==
    /\ timer[t] = "armed" /\ pending[t] \notin Bad
    /\ sent' = [sent EXCEPT ![t] = IF pending[t] = 0 THEN @ ELSE pending[t]]
    /\ pending' = [pending EXCEPT ![t] = 0]
    /\ LET goesOn == ~debounces /\ pending[t] # 0 IN
       /\ timer' = [timer EXCEPT ![t] = IF goesOn THEN "armed" ELSE "none"]
       /\ topics' = IF goesOn THEN topics ELSE Drop({t})
    /\ UNCHANGED <<debounces, given, cancelled, threw>>

\* flush of one topic.  The timer is cleared first; a throw leaves the rest.
FlushOne(t) ==
    /\ Held(t)
    /\ IF pending[t] \in Bad
       THEN /\ timer' = [timer EXCEPT ![t] = IF @ = "none" THEN "none" ELSE "over"]
            /\ threw' = TRUE
            /\ UNCHANGED <<topics, sent, pending>>
       ELSE /\ sent' = [sent EXCEPT ![t] = IF pending[t] = 0 THEN @ ELSE pending[t]]
            /\ pending' = [pending EXCEPT ![t] = 0]
            /\ timer' = [timer EXCEPT ![t] = "none"]
            /\ topics' = Drop({t})
            /\ UNCHANGED threw
    /\ UNCHANGED <<debounces, given, cancelled>>

\* flush of all topics: the Map is only cleared after the last one, so a throw
\* leaves every topic there, those that were flushed before it with a message
\* that is out already.
FlushAll ==
    /\ topics # <<>>
    /\ LET fails == {i \in DOMAIN topics : pending[topics[i]] \in Bad}
           last == IF fails = {} THEN Len(topics) ELSE CHOOSE i \in fails : \A j \in fails : i <= j
           done == {topics[i] : i \in 1..last}
           out == {t \in done : pending[t] \notin Bad \cup {0}}
       IN  /\ sent' = [t \in Topics |-> IF t \in out THEN pending[t] ELSE sent[t]]
           /\ IF fails = {}
              THEN /\ topics' = <<>>
                   /\ pending' = [t \in Topics |-> 0] /\ timer' = [t \in Topics |-> "none"]
                   /\ UNCHANGED threw
              ELSE /\ timer' = [t \in Topics |-> IF t \in done /\ timer[t] # "none" THEN "over" ELSE timer[t]]
                   /\ threw' = TRUE
                   /\ UNCHANGED <<topics, pending>>
    /\ UNCHANGED <<debounces, given, cancelled>>

\* cancel, of one topic or of all.
Cancel(T) ==
    /\ T # {} /\ \A t \in T : Held(t)
    /\ topics' = Drop(T)
    /\ pending' = [t \in Topics |-> IF t \in T THEN 0 ELSE pending[t]]
    /\ timer' = [t \in Topics |-> IF t \in T THEN "none" ELSE timer[t]]
    /\ cancelled' = [t \in Topics |-> IF t \in T THEN given[t] ELSE cancelled[t]]
    /\ UNCHANGED <<debounces, given, sent, threw>>

Next ==
    \/ \E t \in Topics : Publish(t) \/ Fire(t) \/ FlushOne(t) \/ Cancel({t})
    \/ FlushAll
    \/ Cancel({topics[i] : i \in DOMAIN topics})

ThrottleSpec == Init /\ [][Next]_throttleVars

\* The last message given on a topic since a cancel is out, or it is the one
\* that waits and the timer that will publish it runs; whatever evictions and
\* flushes came between, until a flush throws.
LastGoesOut ==
    /\ ThrottleTypeOK
    /\ ~threw => \A t \in Topics :
         \/ given[t] = cancelled[t] \/ sent[t] = given[t]
         \/ Held(t) /\ pending[t] = given[t] /\ timer[t] = "armed"
===============================================================================
