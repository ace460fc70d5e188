-------------------------------- MODULE Groups --------------------------------
(***************************************************************************)
(* The groups plugin (plugins/groups): one named group, its members with   *)
(* their roles on the server, and the list of roles each member's client   *)
(* keeps from a first list and the joins and leaves told after it.         *)
(*                                                                         *)
(* A client's list is modelled as of the last frame sent to it; it is a    *)
(* bag, since the client only ever looks for an element with a role.  A    *)
(* broadcast does not reach a socket whose buffer is full, a bounded       *)
(* number of times.                                                        *)
(***************************************************************************)
EXTENDS Integers, FiniteSets

CONSTANTS Members,    \* connections
          Roles,      \* roles
          NoRole,     \* not a member
          MaxMembers, \* maxMembers
          MaxMoves,   \* bound: joins
          MaxLost     \* bound: broadcasts that miss somebody

VARIABLES alive,    \* sockets that are open
          role,     \* role[c]: the entry of the Map members, or NoRole
          closed,   \* the group was closed
          told,     \* sockets subscribed to __group:name
          roster,   \* roster[c]: how often the client of c shows each role
          stale,    \* clients that missed a broadcast since their first list
          refused,  \* a join was announced and then failed
          moves, lost \* bounds

vars == <<alive, role, closed, told, roster, stale, refused, moves, lost>>

Rosters == [Roles -> Nat]

GroupTypeOK ==
    /\ alive \subseteq Members /\ told \subseteq alive /\ stale \subseteq Members
    /\ role \in [Members -> Roles \cup {NoRole}]
    /\ closed \in BOOLEAN /\ refused \in BOOLEAN
    /\ roster \in [Members -> Rosters]
    /\ moves \in 0..MaxMoves /\ lost \in 0..MaxLost

Init ==
    /\ alive = Members /\ role = [c \in Members |-> NoRole] /\ closed = FALSE
    /\ told = {} /\ roster = [c \in Members |-> [r \in Roles |-> 0]]
    /\ stale = {} /\ refused = FALSE /\ moves = 0 /\ lost = 0

\* The Map members, as the list of roles it is sent as.
membersList(rs) == [r \in Roles |-> Cardinality({c \in Members : rs[c] = r})]
Size(rs) == Cardinality({c \in Members : rs[c] # NoRole})

\* What the client makes of a 'join' or a 'leave': one element with the role
\* more, or one less if there is one.
Heard(event, r, list) ==
    IF event = "join" THEN [list EXCEPT ![r] = @ + 1]
    ELSE [list EXCEPT ![r] = IF @ = 0 THEN 0 ELSE @ - 1]

\* A broadcast to the sockets in S, which misses the sockets in D.
Broadcast(event, r, S) ==
    \E D \in SUBSET S :
        /\ D = {} \/ lost < MaxLost
        /\ lost' = IF D = {} THEN lost ELSE lost + 1
        /\ stale' = stale \cup D
        /\ roster' = [c \in Members |-> IF c \in S \ D THEN Heard(event, r, roster[c]) ELSE roster[c]]

\* (mutant: the joiner is subscribed before its join is told)
AnnounceToAll(c, r) ==
    \E D \in SUBSET told :
        /\ D = {} \/ lost < MaxLost
        /\ lost' = IF D = {} THEN lost ELSE lost + 1
        /\ stale' = (stale \cup D) \ {c}
        /\ roster' = [x \in Members |->
                        IF x = c THEN Heard("join", r, membersList([role EXCEPT ![c] = r]))
                        ELSE IF x \in told \ D THEN Heard("join", r, roster[x]) ELSE roster[x]]

\* The join is told to those that are members already; the joiner gets the
\* whole list, itself included.
Announce(c, r) ==
    \E D \in SUBSET told :
        /\ D = {} \/ lost < MaxLost
        /\ lost' = IF D = {} THEN lost ELSE lost + 1
        /\ stale' = (stale \cup D) \ {c}
        /\ roster' = [x \in Members |->
                        IF x = c THEN membersList([role EXCEPT ![c] = r])
                        ELSE IF x \in told \ D THEN Heard("join", r, roster[x]) ELSE roster[x]]

HasRoom == Size(role) < MaxMembers

\* join: a member stays one with the role it has.
Join(c, r) ==
    /\ c \in alive /\ moves < MaxMoves /\ moves' = moves + 1
    /\ ~closed /\ role[c] = NoRole /\ HasRoom
    /\ role' = [role EXCEPT ![c] = r]
    /\ told' = told \cup {c}
    /\ Announce(c, r)
    /\ UNCHANGED <<alive, closed, refused>>

\* join for a socket that closed while its hook was waiting: it is announced,
\* then subscribe throws and the member is taken back in silence.
JoinTooLate(c, r) ==
    /\ c \notin alive /\ moves < MaxMoves /\ moves' = moves + 1
    /\ ~closed /\ role[c] = NoRole /\ HasRoom
    /\ Broadcast("join", r, told)
    /\ refused' = TRUE
    /\ UNCHANGED <<alive, role, closed, told>>

\* What leave does for a member: told without it, then it is told.
Departs(c) ==
    /\ role' = [role EXCEPT ![c] = NoRole]
    /\ told' = told \ {c}
    /\ Broadcast("leave", role[c], told \ {c})

Leave(c) ==
    /\ c \in alive /\ role[c] # NoRole
    /\ Departs(c)
    /\ UNCHANGED <<alive, closed, refused, moves>>

\* The socket closes and its close hook leaves the group.
Vanish(c) ==
    /\ c \in alive
    /\ alive' = alive \ {c}
    /\ IF role[c] # NoRole THEN Departs(c)
       ELSE told' = told \ {c} /\ UNCHANGED <<role, roster, stale, lost>>
    /\ UNCHANGED <<closed, refused, moves>>

\* close: everybody is told, unsubscribed and forgotten.
Close ==
    /\ ~closed /\ closed' = TRUE
    /\ roster' = [c \in Members |-> IF c \in told THEN [r \in Roles |-> 0] ELSE roster[c]]
    /\ told' = {} /\ role' = [c \in Members |-> NoRole]
    /\ UNCHANGED <<alive, stale, refused, moves, lost>>

Next ==
    \/ \E c \in Members, r \in Roles : Join(c, r) \/ JoinTooLate(c, r)
    \/ \E c \in Members : Leave(c) \/ Vanish(c)
    \/ Close

Spec == Init /\ [][Next]_vars

\* Through any order of joins, leaves, closes and lost frames: members are open
\* and subscribed and never too many, and a member that missed no frame shows
\* exactly the roles of the group, as long as no announced join was taken back.
RosterIsMembership ==
    /\ GroupTypeOK
    /\ told = {c \in Members : role[c] # NoRole} /\ Size(role) <= MaxMembers
    /\ ~refused => \A c \in told \ stale : roster[c] = membersList(role)
===============================================================================
