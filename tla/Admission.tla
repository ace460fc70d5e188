------------------------------ MODULE Admission ------------------------------
(***************************************************************************)
(* Admission of WebSocket upgrades (handler.js, the upgrade handler, with  *)
(* createUpgradeAdmission of utils.js): a cap on the attempts in flight, a *)
(* budget of res.upgrade() calls per event-loop tick with a queue for the  *)
(* rest, and around them the hook's promise, the upgrade timeout and the   *)
(* client that hangs up.                                                   *)
(*                                                                         *)
(* An event-loop iteration is a "main" phase (sockets, timers) and, when   *)
(* setImmediate was called, a "check" phase in which drain runs.  Promise  *)
(* continuations may run in either.  A hook that throws before it returns  *)
(* its promise is left out; one that rejects is not.                       *)
(***************************************************************************)
EXTENDS Integers, Sequences, FiniteSets

CONSTANTS Attempts,       \* upgrade requests, numbered in the order they arrive
          MaxConcurrent,  \* upgradeAdmission.maxConcurrent, 0 when unset
          PerTickBudget,  \* upgradeAdmission.perTickBudget, 0 when unset
          HasTimeout      \* upgradeTimeout > 0

ASSUME ConstantsOK ==
    /\ MaxConcurrent \in Nat /\ PerTickBudget \in Nat
    /\ HasTimeout \in BOOLEAN
    /\ Attempts \subseteq Nat /\ IsFiniteSet(Attempts)

VARIABLES hasHook,    \* wsModule.upgrade is defined, fixed when the app starts
          stage,      \* stage[a]: where the handler of a stands
          bad,        \* the attempts whose upgrade call throws
          answer,     \* answer[a]: what was written to its response
          aborted,    \* the attempts whose client hung up
          timedOut,   \* the attempts whose timer fired
          timers,     \* the attempts whose timer is armed
          unreleased, \* the attempts with inFlightReleased still false
          inFlight,   \* the controller's counter
          perTick,    \* perTickCount
          deferred,   \* the queue of upgrade calls put off
          scheduled,  \* drainScheduled
          phase       \* phase of the event loop

requests == <<stage, bad, answer, aborted, timedOut, timers, unreleased>>
controller == <<inFlight, perTick, deferred, scheduled>>
vars == <<hasHook, requests, controller, phase>>

\* 101, and every other status.
Answers == {"switched", "refused"}

TypeOK ==
    /\ hasHook \in BOOLEAN
    /\ stage \in [Attempts -> {"new", "hook", "deferred", "over"}]
    /\ bad \subseteq Attempts
    /\ answer \in [Attempts -> Seq(Answers)]
    /\ aborted \subseteq Attempts /\ timedOut \subseteq Attempts
    /\ timers \subseteq Attempts /\ unreleased \subseteq Attempts
    /\ inFlight \in Nat /\ (MaxConcurrent > 0 => inFlight <= MaxConcurrent)
    /\ perTick \in 0..PerTickBudget
    /\ deferred \in Seq(Attempts)
    /\ scheduled \in BOOLEAN
    /\ phase \in {"main", "check"}

Init ==
    /\ hasHook \in BOOLEAN
    /\ stage = [a \in Attempts |-> "new"]
    /\ bad = {}
    /\ answer = [a \in Attempts |-> <<>>]
    /\ aborted = {} /\ timedOut = {} /\ timers = {} /\ unreleased = {}
    /\ inFlight = 0 /\ perTick = 0 /\ deferred = <<>> /\ scheduled = FALSE
    /\ phase = "main"

-----------------------------------------------------------------------------
(* What several handlers do. *)

\* tryAcquire() finds no room.
AtCapacity == MaxConcurrent > 0 /\ inFlight >= MaxConcurrent

Say(a, what) == answer' = [answer EXCEPT ![a] = Append(@, what)]
Silent == UNCHANGED answer

\* releaseInFlight() of a, in a step that leaves inFlight and the flags alone
\* otherwise.
ReleaseInFlight(a) ==
    /\ unreleased' = unreleased \ {a}
    /\ inFlight' = IF a \in unreleased THEN inFlight - 1 ELSE inFlight

\* (mutant: the budget may be exceeded by one)
HasBudgetOneMore == PerTickBudget = 0 \/ perTick <= PerTickBudget

\* admit() runs the call at once.
HasBudget == PerTickBudget = 0 \/ perTick < PerTickBudget

\* The rest of admit(): queue the call and ask for a drain.
Defer(a) ==
    /\ deferred' = Append(deferred, a)
    /\ scheduled' = TRUE

\* admit() and the upgrade call of a, whose slot is open or taken by this step.
\* A call that throws inside .then goes on to .catch, which answers and releases.
Admit(a, throws, acquired) ==
    \/ /\ HasBudget
       /\ perTick' = IF PerTickBudget = 0 THEN perTick ELSE perTick + 1
       /\ stage' = [stage EXCEPT ![a] = "over"]
       /\ Say(a, IF throws THEN "refused" ELSE "switched")
       /\ unreleased' = unreleased \ {a}
       /\ inFlight' = IF acquired THEN inFlight ELSE inFlight - 1
       /\ UNCHANGED <<deferred, scheduled>>
    \/ /\ ~HasBudget
       /\ Defer(a)
       /\ stage' = [stage EXCEPT ![a] = "deferred"]
       /\ Silent
       /\ unreleased' = unreleased \cup {a}
       /\ inFlight' = IF acquired THEN inFlight + 1 ELSE inFlight
       /\ UNCHANGED <<perTick>>

-----------------------------------------------------------------------------
(* The upgrade request arrives. *)

Arrives(a) ==
    /\ phase = "main" /\ stage[a] = "new"
    /\ \A b \in Attempts : b < a => stage[b] # "new"

Shed(a) ==
    /\ Arrives(a) /\ AtCapacity
    /\ Say(a, "refused")
    /\ stage' = [stage EXCEPT ![a] = "over"]
    /\ UNCHANGED <<hasHook, bad, aborted, timedOut, timers, unreleased, controller, phase>>

\* The rate limit or the origin check refuses: the slot is taken and released.
Refuse(a) ==
    /\ Arrives(a) /\ ~AtCapacity
    /\ Say(a, "refused")
    /\ stage' = [stage EXCEPT ![a] = "over"]
    /\ UNCHANGED <<hasHook, bad, aborted, timedOut, timers, unreleased, controller, phase>>

\* No upgrade hook: straight to admit().
FastPath(a) ==
    /\ Arrives(a) /\ ~AtCapacity /\ ~hasHook
    /\ Admit(a, FALSE, TRUE)
    /\ UNCHANGED <<hasHook, bad, aborted, timedOut, timers, phase>>

\* The hook is called; its promise is pending and the timer armed.
CallHook(a) ==
    /\ Arrives(a) /\ ~AtCapacity /\ hasHook
    /\ stage' = [stage EXCEPT ![a] = "hook"]
    /\ unreleased' = unreleased \cup {a}
    /\ inFlight' = inFlight + 1
    /\ timers' = IF HasTimeout THEN timers \cup {a} ELSE timers
    /\ UNCHANGED <<hasHook, bad, answer, aborted, timedOut, perTick, deferred, scheduled,
                   phase>>

-----------------------------------------------------------------------------
(* What happens while the hook or the queue holds the attempt. *)

\* (mutant: a hang-up does not give the slot back)
AbortKeepsSlot(a) ==
    /\ phase = "main" /\ stage[a] \in {"hook", "deferred"}
    /\ answer[a] = <<>> /\ a \notin aborted
    /\ aborted' = aborted \cup {a}
    /\ UNCHANGED <<hasHook, stage, bad, answer, timedOut, timers, unreleased, controller,
                   phase>>

\* onAborted: uWS calls it only while nothing has been answered.
Abort(a) ==
    /\ phase = "main" /\ stage[a] \in {"hook", "deferred"}
    /\ answer[a] = <<>> /\ a \notin aborted
    /\ aborted' = aborted \cup {a}
    /\ ReleaseInFlight(a)
    /\ UNCHANGED <<hasHook, stage, bad, answer, timedOut, timers, perTick, deferred,
                   scheduled, phase>>

\* (mutant: the timeout does not give the slot back)
TimeoutKeepsSlot(a) ==
    /\ phase = "main" /\ a \in timers
    /\ timers' = timers \ {a}
    /\ timedOut' = timedOut \cup {a}
    /\ IF a \in aborted THEN Silent ELSE Say(a, "refused")
    /\ UNCHANGED <<hasHook, stage, bad, aborted, unreleased, controller, phase>>

\* The upgrade timer fires.
Timeout(a) ==
    /\ phase = "main" /\ a \in timers
    /\ timers' = timers \ {a}
    /\ timedOut' = timedOut \cup {a}
    /\ IF a \in aborted THEN Silent ELSE Say(a, "refused")
    /\ ReleaseInFlight(a)
    /\ UNCHANGED <<hasHook, stage, bad, aborted, perTick, deferred, scheduled, phase>>

\* (mutant: the timeout is not looked at after the hook)
GoneIfAborted(a) == a \in aborted

\* if (aborted || timedOut) return;
Gone(a) == a \in aborted \/ a \in timedOut

\* The promise settles after the attempt has ended.
SettleLate(a) ==
    /\ stage[a] = "hook" /\ Gone(a)
    /\ stage' = [stage EXCEPT ![a] = "over"]
    /\ timers' = timers \ {a}
    /\ UNCHANGED <<hasHook, bad, answer, aborted, timedOut, unreleased, controller, phase>>

\* The hook answers false, or throws: 401 or 500.
SettleRefused(a) ==
    /\ stage[a] = "hook" /\ ~Gone(a)
    /\ stage' = [stage EXCEPT ![a] = "over"]
    /\ timers' = timers \ {a}
    /\ Say(a, "refused")
    /\ ReleaseInFlight(a)
    /\ UNCHANGED <<hasHook, bad, aborted, timedOut, perTick, deferred, scheduled, phase>>

\* The hook accepts, and admit() is asked.  A header value uWS refuses makes the
\* upgrade call throw.
SettleAccepted(a) ==
    /\ stage[a] = "hook" /\ ~Gone(a)
    /\ timers' = timers \ {a}
    /\ \E throws \in BOOLEAN :
           /\ Admit(a, throws, FALSE)
           /\ bad' = IF throws THEN bad \cup {a} ELSE bad
    /\ UNCHANGED <<hasHook, aborted, timedOut, phase>>

-----------------------------------------------------------------------------
(* The event loop. *)

\* The recheck in the deferred call: aborted ones return.
Live(set) == set \ aborted

\* if (deferred.length > 0) setImmediate(drain) at the end of drain.
DrainAgain(rest) == rest # <<>>

\* (mutant: pop() instead of shift())
BatchLast(n) == {deferred[i] : i \in Len(deferred) + 1 - n..Len(deferred)}

\* The calls one drain shifts off the queue.
Batch(n) == {deferred[i] : i \in 1..n}

\* Whose slots the calls of one drain give back: a call that throws keeps its own.
Freed(run) == (run \ (Live(run) \cap bad)) \cap unreleased

\* drain(): a call that throws is logged, and nothing releases its slot.
Drain ==
    /\ phase = "main" /\ scheduled
    /\ LET n == IF Len(deferred) < PerTickBudget THEN Len(deferred) ELSE PerTickBudget
           run == Batch(n)
           upgraded == Live(run) \ bad
           left == SubSeq(deferred, n + 1, Len(deferred))
       IN  /\ perTick' = n
           /\ deferred' = left
           /\ scheduled' = DrainAgain(left)
           /\ stage' = [a \in Attempts |-> IF a \in run THEN "over" ELSE stage[a]]
           /\ answer' = [a \in Attempts |->
                            IF a \in upgraded THEN Append(answer[a], "switched") ELSE answer[a]]
           /\ unreleased' = unreleased \ Freed(run)
           /\ inFlight' = inFlight - Cardinality(Freed(run))
    /\ phase' = "check"
    /\ UNCHANGED <<hasHook, bad, aborted, timedOut, timers>>

\* The next iteration of the loop begins.
Iterate ==
    /\ phase = "check" /\ phase' = "main"
    /\ UNCHANGED <<hasHook, requests, controller>>

-----------------------------------------------------------------------------
Next ==
    \/ \E a \in Attempts :
           \/ Shed(a) \/ Refuse(a) \/ FastPath(a) \/ CallHook(a)
           \/ Abort(a) \/ Timeout(a)
           \/ SettleLate(a) \/ SettleRefused(a) \/ SettleAccepted(a)
    \/ Drain
    \/ Iterate

Spec == Init /\ [][Next]_vars

\* The loop turns, so immediates run and timers fire; the hook owes nothing.  An
\* attempt takes finitely many steps, so what is fair to the disjunction is fair
\* to each of them.
LoopTurns == Drain \/ Iterate \/ \E a \in Attempts : Timeout(a)

FairSpec == Spec /\ WF_vars(LoopTurns)

-----------------------------------------------------------------------------
\* The counter is the number of attempts that have a slot to give back, and an
\* attempt has one only while its handler still has something to do for a client
\* that is there.  releaseInFlight runs on up to three paths per attempt (abort,
\* timeout, settlement) and counts once (handler.js:3136-3141); no path leaks a
\* slot, but the one of an upgrade call that throws in drain (utils.js:704).
NoSlotLeak ==
    /\ inFlight = Cardinality(unreleased)
    /\ \A a \in unreleased \ bad : stage[a] \in {"hook", "deferred"} /\ ~Gone(a)

\* The controller's numbers stay in range and mean what they say.
SlotBooks == TypeOK /\ NoSlotLeak

\* A response is answered at most once, and not at all after its client hung up:
\* uWS throws on a write to a finished or aborted response.
OneAnswer ==
    /\ \A a \in Attempts : Len(answer[a]) <= 1
    /\ \A a \in aborted : answer[a] = <<>>

\* Queued upgrades run in the order they were queued, and no attempt that comes
\* later overtakes them.
InOrder ==
    [][\A a, b \in Attempts :
          /\ \E i \in DOMAIN deferred : deferred[i] = a
          /\ \E i \in DOMAIN deferred' : deferred'[i] = a
          /\ answer'[b] # answer[b] /\ answer'[b] = <<"switched">>
          => \E i, j \in DOMAIN deferred : deferred[i] = b /\ deferred[j] = a /\ i < j]_vars

\* Every slot comes back, though the hook may never settle, unless the upgrade
\* call throws: an upgrade storm cannot wedge the cap.  The attempts are finitely
\* many, so this is what is left when the last of them came.
SlotsReturn == <>[](unreleased \subseteq bad)
==============================================================================
