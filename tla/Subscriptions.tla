---------------------------- MODULE Subscriptions ----------------------------
(***************************************************************************)
(* The subscription bookkeeping of one worker (files/handler.js).          *)
(*                                                                         *)
(* Three places remember that a socket is subscribed to a topic: the Set   *)
(* WS_SUBSCRIPTIONS in the socket's user data (subs), uWebSockets' own     *)
(* topic tree (native), and the worker-wide counter totalSubscriptions     *)
(* (total).  They are updated by five entry points, three of which await   *)
(* the application's authorization hook in the middle.  While a call is    *)
(* at the gate the socket may close, other calls for the same topic may    *)
(* finish, and the client may unsubscribe.                                 *)
(***************************************************************************)
EXTENDS Integers, FiniteSets

CONSTANTS Conns,     \* sockets; each is opened at most once
          Topics,    \* topic names that pass isValidWireTopic
          Calls,     \* slots for calls that are waiting at the gate
          MaxSubs,   \* MAX_SUBSCRIPTIONS_PER_CONNECTION
          NoConn     \* the socket of an empty slot

ASSUME ConstantsOK ==
    /\ IsFiniteSet(Conns) /\ IsFiniteSet(Topics)
    /\ MaxSubs \in Nat \ {0}
    /\ NoConn \notin Conns

VARIABLES conn,      \* conn[c]: "idle", "open" (in wsConnections), "closed"
          subs,      \* subs[c]: the Set in userData[WS_SUBSCRIPTIONS]
          native,    \* native[c]: the topics uWS delivers to c
          total,     \* totalSubscriptions
          call,      \* call[k]: what slot k has at the gate
          allowed,   \* history: topics some gate run has allowed for c
          crashed    \* an exception left a handler's promise

vars == <<conn, subs, native, total, call, allowed, crashed>>

Kinds == {"frame", "batch", "server", "check", "resume"}

\* What an application hook can answer: undefined/true, false, a reason, a throw.
Answers == {"allow", "false", "reason", "throw"}

Idle == [kind |-> "none", c |-> NoConn, want |-> {}]

CallRecord == [kind : Kinds, c : Conns, want : SUBSET Topics]

Shape ==
    /\ conn \in [Conns -> {"idle", "open", "closed"}]
    /\ subs \in [Conns -> SUBSET Topics]
    /\ native \in [Conns -> SUBSET Topics]
    /\ allowed \in [Conns -> SUBSET Topics]
    /\ total \in Int
    /\ call \in [Calls -> CallRecord \cup {Idle}]
    /\ crashed \in BOOLEAN

TypeOK == Shape /\ total \in Nat

Init ==
    /\ conn = [c \in Conns |-> "idle"]
    /\ subs = [c \in Conns |-> {}]
    /\ native = [c \in Conns |-> {}]
    /\ allowed = [c \in Conns |-> {}]
    /\ total = 0
    /\ call = [k \in Calls |-> Idle]
    /\ crashed = FALSE

-----------------------------------------------------------------------------
\* An exception that leaves the message handler's promise is an unhandled
\* rejection, and Node's default policy ends the process.
Running == ~crashed /\ UNCHANGED crashed

\* The open handler: a fresh Set, then wsConnections.add.
Open(c) ==
    /\ conn[c] = "idle"
    /\ conn' = [conn EXCEPT ![c] = "open"]
    /\ subs' = [subs EXCEPT ![c] = {}]
    /\ UNCHANGED <<native, total, call, allowed>>
    /\ Running

\* The close handler.  uWS has already dropped the socket from its tree; the
\* application's close hook may call platform.unsubscribe for some topics
\* before the finally block subtracts what is left.
Close(c) ==
    /\ conn[c] = "open"
    /\ \E gone \in SUBSET subs[c] :
          LET left == subs[c] \ gone
          IN  /\ subs' = [subs EXCEPT ![c] = left]
              /\ total' = (total - Cardinality(gone)) - Cardinality(left)
    /\ conn' = [conn EXCEPT ![c] = "closed"]
    /\ native' = [native EXCEPT ![c] = {}]
    /\ UNCHANGED <<call, allowed>>
    /\ Running

-----------------------------------------------------------------------------
\* Reaching the gate.  The code before the first await only reads state.
Enter(k, kind, c, want) ==
    /\ conn[c] = "open"
    /\ call[k] = Idle
    /\ call' = [call EXCEPT ![k] = [kind |-> kind, c |-> c, want |-> want]]
    /\ UNCHANGED <<conn, subs, native, total, allowed>>
    /\ Running

AtCap(c) == Cardinality(subs[c]) >= MaxSubs

\* {type:'subscribe'}: a topic already in the Set passes the first cap check
\* and still runs the hook.
FrameSubscribe(k, c, t) ==
    /\ t \in subs[c] \/ ~AtCap(c)
    /\ Enter(k, "frame", c, {t})

\* {type:'subscribe-batch'}: no cap check before the gate.
FrameSubscribeBatch(k, c, want) ==
    /\ want # {}
    /\ Enter(k, "batch", c, want)

\* platform.subscribe: returns at once for a known topic or at the cap.
ServerSubscribe(k, c, t) ==
    /\ t \notin subs[c]
    /\ ~AtCap(c)
    /\ Enter(k, "server", c, {t})

\* platform.checkSubscribe, then ws.subscribe by the caller: the use its
\* documentation gives.
CheckThenSubscribe(k, c, t) == Enter(k, "check", c, {t})

\* {type:'resume'} with a resume hook.
FrameResume(k, c) == Enter(k, "resume", c, {})

-----------------------------------------------------------------------------
\* runSubscribeHook and runSubscribeBatchHook: only an answer that is neither
\* false nor a string allows; a throw is INTERNAL_ERROR for every topic.
\* (mutant: only a literal false denies, so a reason or a throw fails open)
AdmitsUnlessFalse(answer) == answer # "false"

Admits(answer) == answer = "allow"

\* (mutant: no second subs.has after the await)
AdditionsUnchecked(c, granted) ==
    {new \in SUBSET granted :
        /\ Cardinality(subs[c] \cup new) <= MaxSubs \/ new = {}
        /\ new = granted \/ Cardinality(subs[c] \cup new) >= MaxSubs}

\* (mutant: no second cap check after the await)
AdditionsUncapped(c, granted) == {granted \ subs[c]}

\* What the loop after the gate adds for the topics that were allowed: those
\* not yet in the Set, in frame order, until the cap is reached.
Additions(c, granted) ==
    {new \in SUBSET (granted \ subs[c]) :
        /\ Cardinality(subs[c] \cup new) <= MaxSubs \/ new = {}
        /\ new = granted \ subs[c] \/ Cardinality(subs[c] \cup new) >= MaxSubs}

\* (mutant: the Set and the counter are updated before ws.subscribe can throw)
RecordBeforeSubscribe(c, new) ==
    /\ native' = IF conn[c] = "open" THEN [native EXCEPT ![c] = @ \cup new]
                                     ELSE native
    /\ subs' = [subs EXCEPT ![c] = @ \cup new]
    /\ total' = total + Cardinality(new)

\* ws.subscribe, subs.add and totalSubscriptions++ for each of them.  On a
\* closed socket ws.subscribe throws first and nothing is recorded.
Record(c, new) ==
    IF conn[c] = "open"
    THEN /\ native' = [native EXCEPT ![c] = @ \cup new]
         /\ subs' = [subs EXCEPT ![c] = @ \cup new]
         /\ total' = total + Cardinality(new)
    ELSE UNCHANGED <<native, subs, total>>

\* The hooks have answered for a subscribe of any kind: the code after the
\* await, in one run to completion.  The Set and the cap are read again.
GateAnswers(k) ==
    LET c == call[k].c
        want == call[k].want
    IN  /\ call[k].kind \in {"frame", "batch", "server"}
        /\ \E ans \in [want -> Answers] :
              LET granted == {t \in want : Admits(ans[t])}
              IN  /\ allowed' = [allowed EXCEPT ![c] =
                                    @ \cup {t \in want : ans[t] = "allow"}]
                  /\ \E new \in Additions(c, granted) : Record(c, new)
        /\ call' = [call EXCEPT ![k] = Idle]
        /\ UNCHANGED conn
        /\ Running

\* checkSubscribe answers and the caller subscribes the socket itself: uWS
\* knows the topic, the Set and the counter do not.
CheckAnswers(k) ==
    LET c == call[k].c
    IN  /\ call[k].kind = "check"
        /\ \E answer \in Answers :
              /\ allowed' = [allowed EXCEPT ![c] =
                                IF answer = "allow" THEN @ \cup call[k].want ELSE @]
              /\ native' = [native EXCEPT ![c] =
                                IF Admits(answer) /\ conn[c] = "open"
                                THEN @ \cup call[k].want ELSE @]
        /\ call' = [call EXCEPT ![k] = Idle]
        /\ UNCHANGED <<conn, subs, total>>
        /\ Running

\* The resume hook has settled; the ack is sent outside any try block, and
\* ws.send throws when the socket closed during the await.
ResumeAnswers(k) ==
    /\ call[k].kind = "resume"
    /\ ~crashed
    /\ crashed' = (conn[call[k].c] = "closed")
    /\ call' = [call EXCEPT ![k] = Idle]
    /\ UNCHANGED <<conn, subs, native, total, allowed>>

-----------------------------------------------------------------------------
\* (mutant: uWS forgets the topic, the Set keeps it)
ForgetNativeOnly(c, t) ==
    /\ native' = [native EXCEPT ![c] = @ \ {t}]
    /\ UNCHANGED <<subs, total>>

\* (mutant: the counter goes down whether or not the Set had the topic)
ForgetUncounted(c, t) ==
    /\ subs' = [subs EXCEPT ![c] = @ \ {t}]
    /\ native' = [native EXCEPT ![c] = @ \ {t}]
    /\ total' = total - 1

\* subs.delete(topic), with the counter following only a real removal.
Forget(c, t) ==
    /\ subs' = [subs EXCEPT ![c] = @ \ {t}]
    /\ native' = [native EXCEPT ![c] = @ \ {t}]
    /\ total' = IF t \in subs[c] THEN total - 1 ELSE total

\* {type:'unsubscribe'}: uWS first, whether or not the Set has the topic.
FrameUnsubscribe(c, t) ==
    /\ conn[c] = "open"
    /\ Forget(c, t)
    /\ UNCHANGED <<conn, call, allowed>>
    /\ Running

\* platform.unsubscribe: nothing happens for a topic the Set does not have.
ServerUnsubscribe(c, t) ==
    /\ conn[c] = "open"
    /\ t \in subs[c]
    /\ Forget(c, t)
    /\ UNCHANGED <<conn, call, allowed>>
    /\ Running

-----------------------------------------------------------------------------
SocketStep(c) ==
    \/ Open(c)
    \/ Close(c)
    \/ \E t \in Topics : FrameUnsubscribe(c, t) \/ ServerUnsubscribe(c, t)

CallStep(k) ==
    \/ \E c \in Conns, t \in Topics : FrameSubscribe(k, c, t)
    \/ \E c \in Conns, want \in SUBSET Topics : FrameSubscribeBatch(k, c, want)
    \/ \E c \in Conns, t \in Topics : ServerSubscribe(k, c, t)
    \/ \E c \in Conns, t \in Topics : CheckThenSubscribe(k, c, t)
    \/ \E c \in Conns : FrameResume(k, c)
    \/ GateAnswers(k)
    \/ CheckAnswers(k)
    \/ ResumeAnswers(k)

Next ==
    \/ \E c \in Conns : SocketStep(c)
    \/ \E k \in Calls : CallStep(k)

Spec == Init /\ [][Next]_vars

-----------------------------------------------------------------------------
\* The subscriptions that exist: pairs of an open socket and a topic of its Set.
Tracked == {p \in Conns \X Topics : conn[p[1]] = "open" /\ p[2] \in subs[p[1]]}

\* totalSubscriptions, which platform.pressure divides by the number of
\* connections, is exactly the number of live subscriptions: no interleaving
\* of calls at the gate counts one twice, and no close leaks or double-frees.
TotalExact == total = Cardinality(Tracked)

\* What the Set of an open socket claims, uWS delivers; a closed socket is in
\* no topic of the tree, whatever was still at the gate when it closed.
TrackedIsDelivered ==
    \A c \in Conns : IF conn[c] = "open" THEN subs[c] \subseteq native[c]
                                         ELSE native[c] = {}

\* The three records of who is subscribed to what, the sockets' Sets, the
\* counter and the topic tree, tell the same story after every interleaving.
BooksAgree == TypeOK /\ TotalExact /\ TrackedIsDelivered

\* No socket receives a topic that no gate run allowed for it: a false, a
\* reason or a throwing hook never lets a subscription through.
OnlyAllowed == \A c \in Conns : native[c] \subseteq allowed[c]

\* Calls that raced through the gate together do not exceed the cap.
CapHolds == \A c \in Conns : Cardinality(subs[c]) <= MaxSubs

\* What the gate and the cap promise holds although both are asked before an
\* await and acted on after it.
Gated == OnlyAllowed /\ CapHolds

\* CloseContext.subscriptions is the live Set, and an async close hook reads
\* it after the socket is gone: nothing that answers later may change it.
ClosedSetIsFrozen ==
    [][\A c \in Conns : conn[c] = "closed" => subs'[c] = subs[c]]_vars

\* What the comment on closedWsAborts and the hook section of the README say:
\* no helper that runs after an await lets the closed-socket exception out.
NoEscape == ~crashed
=============================================================================
