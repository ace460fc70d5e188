--------------------------- MODULE MCSubscriptions ---------------------------
(***************************************************************************)
(* Instances for TLC of what a worker does with topics: subscriptions, the *)
(* relay of what is published, and the sampling of how much that is.       *)
(*                                                                         *)
(* The three share no state, so one run checks them side by side instead   *)
(* of interleaved: part, chosen at the start, says which of them moves.    *)
(***************************************************************************)
EXTENDS Subscriptions, TLC

CONSTANTS w1, w2, w3, Null,
          Workers, Socks, Home, MaxEvents, MaxBatch,
          Listeners, RateWatchers, Rate, TopicRate, Ratio, WarnMax, Minute, MaxPublishes

VARIABLES part,
          alive, topicSeqs, relayBatch, timer, up, down, sockSubs, sockNative, capable,
          sent, seen, got, due,
          publishCountWindow, topicPublishStats, load, reason, pressureListeners,
          rateListeners, telling, overThreshold, reporting, warned, known, heard, refused

relayVars == <<alive, topicSeqs, relayBatch, timer, up, down, sockSubs, sockNative, capable,
               sent, seen, got, due>>
pressureVars == <<publishCountWindow, topicPublishStats, load, reason, pressureListeners,
                  rateListeners, telling, overThreshold, reporting, warned, known, heard, refused>>

\* The sockets are on w2, which so receives events of its own and relayed ones.
AtW2 == [s \in Socks |-> w2]

R == INSTANCE Relay WITH
        Workers <- Workers, Socks <- Socks, Home <- Home, Topics <- Topics, RawTopics <- {},
        MaxEvents <- MaxEvents, MaxBatch <- MaxBatch, None <- Null,
        subs <- sockSubs, native <- sockNative

P == INSTANCE Pressure WITH
        Topics <- Topics, Listeners <- Listeners, RateWatchers <- RateWatchers, Rate <- Rate,
        TopicRate <- TopicRate, Ratio <- Ratio, WarnMax <- WarnMax, Minute <- Minute,
        MaxPublishes <- MaxPublishes

ASSUME RelayOK == R!ConstantsOK
ASSUME SamplerOK == P!ConstantsOK

PartsInit == part \in {"subscriptions", "relay", "pressure"} /\ Init /\ R!Init /\ P!Init

PartsNext ==
    /\ UNCHANGED part
    /\ \/ part = "subscriptions" /\ Next /\ UNCHANGED <<relayVars, pressureVars>>
       \/ part = "relay" /\ R!Next /\ UNCHANGED <<vars, pressureVars>>
       \/ part = "pressure" /\ P!Next /\ UNCHANGED <<vars, relayVars>>

PartsSpec == PartsInit /\ [][PartsNext]_<<part, vars, relayVars, pressureVars>>

\* What Relay and Pressure state of their own variables.
RelayIsAPipe == R!TypeOK /\ R!RelayIsAPipe
SameAsPublishLoop == R!SameAsPublishLoop
PressureIsTold == P!PressureIsTold

Symmetry ==
    Permutations(Conns) \cup Permutations(Topics)
       \cup Permutations({w1, w3})
       \cup Permutations(Listeners) \cup Permutations(RateWatchers)
==============================================================================
