------------------------------ MODULE MCClient -------------------------------
(***************************************************************************)
(* Instances for TLC of what the browser shows: the connection, its stores *)
(* (on and once, crud and lookup) and the cursors and groups that plugins  *)
(* keep in step with the server. They share no state; part, chosen at the  *)
(* start, says which of them moves.                                        *)
(***************************************************************************)
EXTENDS Client, TLC

CONSTANTS None,
          Wrappers, OfEvent, MaxEvents, MaxSubs,         \* of Stores
          Items, MaxAge,                                 \* of Expiry
          Roles, MaxMembers, MaxMoves, MaxLost,          \* of Groups
          \* of Cursor; Rooms are its Topics
          Movers, Viewers, Rooms, Data, MaxConns, MaxTopics, Aging, MaxKeys, MaxOps

ASSUME PartsConstantsOK ==
    /\ IsFiniteSet(Wrappers) /\ MaxEvents \in Nat /\ MaxSubs \in Nat \ {0}
    /\ MaxAge \in Nat
    /\ None \notin Roles /\ MaxMembers \in Nat /\ MaxMoves \in Nat /\ MaxLost \in Nat

VARIABLES part,
          use, registered, store, value, subs, topicRefs, check, answer, seen, due, arrived,
          kind, numeric, initial, mounted, list, stamp, age,
          live, key, on, connOrder, counter, entry, topicOrder, dirty, cadence, dirtyTopics,
          tickTimer, watching, known, shown, idle, swept, ops, torn,
          alive, role, groupClosed, told, roster, stale, refused, moves, lost

storeVars == <<use, registered, store, value, subs, topicRefs, check, answer, seen, due, arrived>>
expiryVars == <<kind, numeric, initial, mounted, list, stamp, age>>
cursorVars == <<live, key, on, connOrder, counter, entry, topicOrder, dirty, cadence, dirtyTopics,
                tickTimer, watching, known, shown, idle, swept, ops, torn>>
groupVars == <<alive, role, groupClosed, told, roster, stale, refused, moves, lost>>

\* One wrapper of the whole topic, and two of one of its events.
S == INSTANCE Stores WITH refs <- topicRefs, entry <- registered

X == INSTANCE Expiry

\* Two topics, so that the tick may find both of them dirty, one of them with a
\* maxAge; or two movers, of whom one may leave.
C == INSTANCE Cursor WITH Topics <- Rooms

\* The plugin checks that its caps are positive.
ASSUME CursorConstantsOK ==
    /\ MaxConns \in Nat \ {0} /\ MaxTopics \in Nat \ {0}
    /\ MaxKeys \in Nat /\ MaxOps \in Nat
    /\ None \notin C!Keys /\ None \notin Data /\ None \notin C!Entry

\* Three sockets for two places.
G == INSTANCE Groups WITH Members <- Socks, NoRole <- None, closed <- groupClosed

PartsInit ==
    /\ part \in {"client", "stores", "expiry", "cursor", "groups"}
    /\ Init /\ S!Init /\ X!Init /\ C!Init /\ G!Init
    /\ part # "client" => auth /\ hidden /\ goodUrl
    /\ part # "expiry" => kind = "crud" /\ numeric /\ initial = {}

\* In a behaviour of Client there are queued messages or subscribers, in one of
\* Cursor two topics or two movers, never both.
PartsNext ==
    /\ UNCHANGED part
    /\ \/ /\ part = "client" /\ Next
          /\ given' = 0 \/ \A t \in Topics : refs'[t] = 0
          /\ UNCHANGED <<storeVars, expiryVars, cursorVars, groupVars>>
       \/ /\ part = "stores" /\ S!Next
          /\ UNCHANGED <<vars, expiryVars, cursorVars, groupVars>>
       \/ /\ part = "expiry" /\ X!Next
          /\ UNCHANGED <<vars, storeVars, cursorVars, groupVars>>
       \/ /\ part = "cursor" /\ C!Next /\ (counter' <= 1 \/ Len(topicOrder') <= 1)
          /\ UNCHANGED <<vars, storeVars, expiryVars, groupVars>>
       \/ /\ part = "groups" /\ G!Next
          /\ UNCHANGED <<vars, storeVars, expiryVars, cursorVars>>

PartsSpec ==
    PartsInit /\ [][PartsNext]_<<part, vars, storeVars, expiryVars, cursorVars, groupVars>>

Symmetry == Permutations(Socks)

\* What the other modules state of their own variables.
MountedHear == S!MountedHear
FreshStay == X!FreshStay
CursorsArrive == C!LatestArrives
RosterIsMembership == G!RosterIsMembership
==============================================================================
