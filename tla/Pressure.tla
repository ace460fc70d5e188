------------------------------ MODULE Pressure ------------------------------
(***************************************************************************)
(* A worker's pressure sampling (files/handler.js): publishes are counted  *)
(* as they are made, once in all and once by topic; a timer turns the      *)
(* counts, the connections and the heap into a snapshot, tells listeners   *)
(* when the reason changes, and reports the topics that publish too much,  *)
(* to listeners or, when there are none, in the log, rarely.               *)
(*                                                                         *)
(* A sample is one task, but what it calls is the application's: a         *)
(* listener may throw, publish, register another or end a registration, so *)
(* every call is a step of its own here. Numbers are numbers per sample.   *)
(***************************************************************************)
EXTENDS MapOrder

CONSTANTS Topics,       \* topics that are published to
          Listeners,    \* callbacks, of onPressure
          RateWatchers, \* callbacks, of onPublishRate
          Rate,         \* publishRatePerSec
          TopicRate,    \* topicPublishRatePerSec
          Ratio,        \* subscriberRatio
          WarnMax,      \* PUBLISH_WARN_DEDUP_MAX
          Minute,       \* the time between two warnings, in samples
          MaxPublishes  \* bound: publishes between two samples

ConstantsOK ==
    /\ IsFiniteSet(Topics)
    /\ Rate \in Nat /\ TopicRate \in Nat /\ Ratio \in Nat
    /\ WarnMax \in Nat \ {0} /\ Minute \in Nat /\ MaxPublishes \in Nat

VARIABLES publishCountWindow, \* publishes since the sample
          topicPublishStats,  \* and by topic
          load,               \* connections, subscriptions, and whether the heap is nearly full
          reason,             \* pressureSnapshot.reason
          pressureListeners,  \* the Set, in its order
          rateListeners,      \* publishRateListeners, in its order
          telling,            \* listeners of this sample still to be called
          overThreshold,      \* topics of this sample still to be reported
          reporting,          \* rate listeners still to be called with them
          warned,             \* lastPublishWarnAt: topic and age, oldest entry first
          known,              \* history: known[l]: the reason l read when it came, or was told since
          heard,              \* history: rate listeners that were told of this sample's topics, if
                              \* there are any, or came after it
          refused             \* history: publishes since the sample that threw on what they carry

countVars == <<publishCountWindow, topicPublishStats, refused>>
pressureVars == <<countVars, load, reason, pressureListeners, rateListeners, telling,
                  overThreshold, reporting, warned, known, heard>>

Reasons == {"NONE", "MEMORY", "PUBLISH_RATE", "SUBSCRIBERS"}

PressureTypeOK ==
    /\ publishCountWindow \in Nat /\ topicPublishStats \in [Topics -> Nat]
    /\ load \in [connections: {0, 1}, subscriptions: 0..Ratio, heapFull: BOOLEAN]
    /\ reason \in Reasons /\ known \in [Listeners -> Reasons]
    /\ pressureListeners \in Seq(Listeners) /\ rateListeners \in Seq(RateWatchers)
    /\ telling \in Seq(Listeners) /\ reporting \in Seq(RateWatchers)
    /\ overThreshold \subseteq Topics /\ heard \subseteq RateWatchers /\ refused \in Nat
    /\ warned \in Seq([topic: Topics, age: 0..Minute])

Init ==
    /\ publishCountWindow = 0 /\ topicPublishStats = [t \in Topics |-> 0]
    /\ load = [connections |-> 0, subscriptions |-> 0, heapFull |-> FALSE]
    /\ reason = "NONE" /\ pressureListeners = <<>> /\ rateListeners = <<>>
    /\ telling = <<>> /\ overThreshold = {} /\ reporting = <<>> /\ warned = <<>>
    /\ known = [l \in Listeners |-> "NONE"] /\ heard = {} /\ refused = 0

-------------------------------------------------------------------------------
(* Publishing, and what the application does between samples.                *)

Elements(s) == {s[i] : i \in DOMAIN s}
Idle == telling = <<>> /\ overThreshold = {}

\* The worker's count rises first; the topic's only once the envelope is made,
\* and making it throws on data JSON.stringify refuses and on a name esc refuses.
Published(t) ==
    /\ publishCountWindow' = publishCountWindow + 1
    /\ \/ topicPublishStats' = [topicPublishStats EXCEPT ![t] = @ + 1] /\ UNCHANGED refused
       \/ UNCHANGED topicPublishStats /\ refused' = refused + 1

\* publish, or one event of publishBatched.
Publish(t) ==
    /\ Idle /\ publishCountWindow < MaxPublishes
    /\ Published(t)
    /\ UNCHANGED <<load, reason, pressureListeners, rateListeners, telling, overThreshold,
                   reporting, warned, known, heard>>

\* Connections come and go, topics are subscribed, the heap fills.
LoadChanges ==
    /\ Idle
    /\ load' \in [connections: {0, 1}, subscriptions: {0, Ratio}, heapFull: BOOLEAN]
    /\ load'.connections = 0 => load'.subscriptions = 0
    /\ UNCHANGED <<countVars, reason, pressureListeners, rateListeners, telling, overThreshold,
                   reporting, warned, known, heard>>

\* A listener reads platform.pressure and asks to be told of what comes.
onPressure(l) ==
    /\ Idle /\ l \notin Elements(pressureListeners)
    /\ pressureListeners' = Append(pressureListeners, l)
    /\ known' = [known EXCEPT ![l] = reason]
    /\ UNCHANGED <<countVars, load, reason, rateListeners, telling, overThreshold, reporting,
                   warned, heard>>

\* A rate listener registers, or ends its registration.
onPublishRate(w) ==
    /\ Idle
    /\ \/ /\ w \notin Elements(rateListeners)
          /\ rateListeners' = Append(rateListeners, w) /\ heard' = heard \cup {w}
       \/ /\ w \in Elements(rateListeners)
          /\ rateListeners' = Within(rateListeners, RateWatchers \ {w}) /\ UNCHANGED heard
    /\ UNCHANGED <<countVars, load, reason, pressureListeners, telling, overThreshold, reporting,
                   warned, known>>

-------------------------------------------------------------------------------
(* The sample.                                                               *)

\* computePressureReason: what is most urgent.
computePressureReason ==
    IF load.heapFull THEN "MEMORY"
    ELSE IF publishCountWindow >= Rate THEN "PUBLISH_RATE"
    ELSE IF load.connections > 0 /\ load.subscriptions >= Ratio THEN "SUBSCRIBERS"
    ELSE "NONE"

\* computeTopPublishers: the topics over their threshold.
computeTopPublishers == {t \in Topics : topicPublishStats[t] >= TopicRate}

\* samplePressure: the counts start again before any callback runs, and the
\* snapshot is written before the listeners of a change are called.
samplePressure ==
    /\ Idle
    /\ reason' = computePressureReason
    /\ telling' = IF computePressureReason # reason THEN pressureListeners ELSE <<>>
    /\ overThreshold' = computeTopPublishers
    /\ publishCountWindow' = 0 /\ topicPublishStats' = [t \in Topics |-> 0] /\ refused' = 0
    /\ heard' = IF computeTopPublishers = {} THEN RateWatchers ELSE {}
    /\ warned' = [i \in DOMAIN warned |-> [warned[i] EXCEPT !.age = IF @ < Minute THEN @ + 1 ELSE @]]
    /\ UNCHANGED <<load, pressureListeners, rateListeners, reporting, known>>

\* The rate listeners' round begins.
ReportToListeners ==
    /\ telling = <<>> /\ reporting = <<>> /\ overThreshold # {} /\ rateListeners # <<>>
    /\ reporting' = rateListeners
    /\ UNCHANGED <<countVars, load, reason, pressureListeners, rateListeners, telling, overThreshold,
                   warned, known, heard>>

Rest(round) == IF round = <<>> THEN <<>> ELSE Tail(round)

\* (mutant: the try is around the loop over the rate listeners, not in it)
RoundUnlessRateThrew(round, threw) == IF threw /\ telling = <<>> THEN <<>> ELSE Rest(round)

\* Those still to be called: what a listener throws is logged, and no more.
Round(round, threw) == Rest(round)

\* One that registers in a round is called in it, and in no other.
Joins(round, rest, x) == IF round = <<>> THEN rest ELSE Append(rest, x)

\* The next listener of the round is called. It returns or throws, and before
\* that it may publish, or begin or end a registration of either kind: a Set's
\* iteration passes over those that are gone and comes to those that are new.
Call == \E threw \in BOOLEAN :
    LET toTell == Round(telling, threw)
        toReport == Round(reporting, threw)
    IN  /\ telling # <<>> \/ reporting # <<>>
        /\ \/ /\ telling' = toTell /\ reporting' = toReport
              /\ (\E t \in Topics : publishCountWindow < MaxPublishes /\ Published(t)) \/ UNCHANGED countVars
              /\ UNCHANGED <<pressureListeners, rateListeners>>
           \/ /\ \E l \in Elements(pressureListeners) :
                    /\ pressureListeners' = Within(pressureListeners, Listeners \ {l})
                    /\ telling' = Within(toTell, Listeners \ {l})
              /\ reporting' = toReport /\ UNCHANGED <<countVars, rateListeners>>
           \/ /\ \E l \in Listeners \ Elements(pressureListeners) :
                    /\ pressureListeners' = Append(pressureListeners, l)
                    /\ telling' = Joins(telling, toTell, l)
              /\ reporting' = toReport /\ UNCHANGED <<countVars, rateListeners>>
           \/ /\ \E w \in Elements(rateListeners) :
                    /\ rateListeners' = Within(rateListeners, RateWatchers \ {w})
                    /\ reporting' = Within(toReport, RateWatchers \ {w})
              /\ telling' = toTell /\ UNCHANGED <<countVars, pressureListeners>>
           \/ /\ \E w \in RateWatchers \ Elements(rateListeners) :
                    /\ rateListeners' = Append(rateListeners, w)
                    /\ reporting' = Joins(reporting, toReport, w)
              /\ telling' = toTell /\ UNCHANGED <<countVars, pressureListeners>>
        /\ known' = [l \in Listeners |->
             IF \/ telling # <<>> /\ l = Head(telling)
                \/ l \in Elements(pressureListeners') \ Elements(pressureListeners)
             THEN reason ELSE known[l]]
        /\ heard' = IF reporting = <<>> THEN heard ELSE heard \cup {Head(reporting)}
        /\ overThreshold' = IF reporting # <<>> /\ reporting' = <<>> THEN {} ELSE overThreshold
        /\ UNCHANGED <<load, reason, warned>>

Entry(t) == [topic |-> t, age |-> 0]
Logged(t) == \E i \in DOMAIN warned : warned[i].topic = t
Recently(t) == \E i \in DOMAIN warned : warned[i].topic = t /\ warned[i].age < Minute

\* Without a listener a topic is logged once a minute. A Map keeps the place of
\* a key that is set again; a new key pushes out the first one at the limit.
ReportInLog(t) ==
    /\ telling = <<>> /\ reporting = <<>> /\ t \in overThreshold /\ rateListeners = <<>>
    /\ overThreshold' = overThreshold \ {t}
    /\ warned' = IF Recently(t) THEN warned
                 ELSE IF Logged(t)
                 THEN [i \in DOMAIN warned |-> IF warned[i].topic = t THEN Entry(t) ELSE warned[i]]
                 ELSE Append(IF Len(warned) >= WarnMax THEN Tail(warned) ELSE warned, Entry(t))
    /\ UNCHANGED <<countVars, load, reason, pressureListeners, rateListeners, telling, reporting,
                   known, heard>>

Next ==
    \/ \E t \in Topics : Publish(t) \/ ReportInLog(t)
    \/ \E l \in Listeners : onPressure(l)
    \/ \E w \in RateWatchers : onPublishRate(w)
    \/ LoadChanges \/ samplePressure \/ Call \/ ReportToListeners

PressureSpec == Init /\ [][Next]_pressureVars

-------------------------------------------------------------------------------
(* Properties.                                                               *)

\* A listener that looked at platform.pressure when it registered always knows
\* the reason the snapshot gives now, whatever the listeners before it in the
\* round did: a change is never told to some of them only.
WatchersKnow == telling = <<>> => \A l \in Elements(pressureListeners) : known[l] = reason

\* Once a sample is over, every rate listener there is has been told of the
\* topics over their threshold, whatever those before it threw, registered or
\* ended; only one that came after the sample has not.
RatesAreHeard == Idle => Elements(rateListeners) \subseteq heard

\* The publishes that topicPublishStats counts: topic and number.
Counted == UNION {{t} \X (1..topicPublishStats[t]) : t \in Topics}

\* The two counts of publishes, by worker and by topic, speak of the same
\* window, also those made by the callbacks of a sample: they differ by the
\* publishes that threw before their topic was counted, and by nothing else.
\* The memory of what was logged stays within its limit, one entry to a topic.
CountsAgree ==
    /\ publishCountWindow = Cardinality(Counted) + refused
    /\ Len(warned) <= WarnMax
    /\ \A i, j \in DOMAIN warned : warned[i].topic = warned[j].topic => i = j

PressureIsTold == PressureTypeOK /\ WatchersKnow /\ RatesAreHeard /\ CountsAgree
=============================================================================
