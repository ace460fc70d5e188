----------------------------- MODULE Connection ------------------------------
(***************************************************************************)
(* What one connection keeps of its own (handler.js, the userData slots):  *)
(* WS_PENDING_REQUESTS, the promises of platform.request that wait for a   *)
(* reply, and WS_COALESCED, the latest unsent value per key given to       *)
(* platform.sendCoalesced, with its flush (flushCoalescedFor and           *)
(* drainCoalesced) on every call and on every uWS drain event.  Both write *)
(* to the socket's send buffer and both end with the socket.               *)
(*                                                                         *)
(* What ws.send answers is uWS's: 0 when the bytes stay in its buffer, 1   *)
(* when they left, 2 when the buffer is over maxBackpressure and the frame *)
(* is dropped (testing.js:187).  drainCoalesced reads the numbers its own  *)
(* way; request does not look at them.                                     *)
(***************************************************************************)
EXTENDS Integers, Sequences, FiniteSets

CONSTANTS Refs,         \* refs drawn from nextRequestRef, each by one call
          MaxPending,   \* MAX_PENDING_REQUESTS_PER_CONNECTION
          Keys,         \* coalesce keys
          MaxKeys,      \* MAX_COALESCED_KEYS_PER_CONNECTION
          MaxBuffered,  \* maxBackpressure, in frames
          MaxWrites,    \* bound: calls of sendCoalesced per key
          AllowPoison   \* whether a value may be one JSON.stringify refuses

ASSUME ConstantsOK ==
    /\ IsFiniteSet(Refs) /\ MaxPending \in Nat \ {0}
    /\ IsFiniteSet(Keys) /\ MaxKeys \in Nat \ {0}
    /\ MaxBuffered \in Nat /\ MaxWrites \in Nat /\ AllowPoison \in BOOLEAN

VARIABLES open,      \* whether the socket is open
          buffered,  \* frames in its send buffer
          entries,   \* the refs in WS_PENDING_REQUESTS
          armed,     \* the refs whose timer is armed
          outcome,   \* outcome[r]: what became of the promise
          pending,   \* WS_COALESCED: a sequence of [key, version, good], oldest key first
          newest,    \* newest[k]: the version of the last value given for k, 0 if none
          sent,      \* sent[k]: the version of k last accepted by ws.send, 0 if none
          evicted    \* history: the keys whose pending value the cap has dropped

requests == <<entries, armed, outcome>>
coalesced == <<pending, newest, sent, evicted>>
vars == <<open, buffered, requests, coalesced>>

Settled == {"reply", "timeout", "closed", "refused", "threw"}

Entry == [key : Keys, version : 1..MaxWrites, good : BOOLEAN]

\* No Map is over its cap.
TypeOK ==
    /\ open \in BOOLEAN
    /\ buffered \in 0..MaxBuffered + 1
    /\ entries \subseteq Refs /\ Cardinality(entries) <= MaxPending
    /\ armed \subseteq Refs
    /\ outcome \in [Refs -> {"new", "waiting"} \cup Settled]
    /\ pending \in Seq(Entry) /\ Len(pending) <= MaxKeys
    /\ newest \in [Keys -> 0..MaxWrites]
    /\ sent \in [Keys -> 0..MaxWrites]
    /\ evicted \subseteq Keys

Init ==
    /\ open = TRUE
    /\ buffered = 0
    /\ entries = {}
    /\ armed = {}
    /\ outcome = [r \in Refs |-> "new"]
    /\ pending = <<>>
    /\ newest = [k \in Keys |-> 0]
    /\ sent = [k \in Keys |-> 0]
    /\ evicted = {}

-----------------------------------------------------------------------------
(* ws.send, as uWS answers it. *)
Backpressure == 0
Success == 1
Dropped == 2

\* A buffer of b frames after the first i of the accepted sends codes.
BufferAfter(b, codes, i) == b + Cardinality({j \in 1..i : codes[j] = Backpressure})

\* uWS may answer codes to successive sends: a frame leaves at once only when
\* none is buffered, and none is accepted over the limit.
UwsAccepts(b, codes) ==
    \A i \in DOMAIN codes :
        IF codes[i] = Success THEN BufferAfter(b, codes, i - 1) = 0
        ELSE BufferAfter(b, codes, i - 1) <= MaxBuffered

-----------------------------------------------------------------------------
(* platform.request. *)

\* (mutant: the cap is missed by one)
AtCapOffByOne == Cardinality(entries) > MaxPending

\* pending.size >= MAX_PENDING_REQUESTS_PER_CONNECTION
AtCap == Cardinality(entries) >= MaxPending

\* The call is refused at once: the socket is closed, or the Map is full.
Refused(r) ==
    /\ outcome[r] = "new" /\ (~open \/ AtCap)
    /\ outcome' = [outcome EXCEPT ![r] = IF open THEN "refused" ELSE "closed"]
    /\ UNCHANGED <<open, buffered, entries, armed, coalesced>>

\* request(): the entry and the timer are set before the payload is serialised,
\* so a payload JSON.stringify refuses rejects the promise and leaves both.  A
\* frame that uWS drops is not noticed.
Request(r) ==
    /\ outcome[r] = "new" /\ open /\ ~AtCap
    /\ entries' = entries \cup {r}
    /\ armed' = armed \cup {r}
    /\ \/ /\ outcome' = [outcome EXCEPT ![r] = "threw"]
          /\ UNCHANGED buffered
       \/ /\ outcome' = [outcome EXCEPT ![r] = "waiting"]
          /\ \/ /\ buffered > MaxBuffered
                /\ UNCHANGED buffered
             \/ \E code \in {Success, Backpressure} :
                   /\ UwsAccepts(buffered, <<code>>)
                   /\ buffered' = BufferAfter(buffered, <<code>>, 1)
    /\ UNCHANGED <<open, coalesced>>

\* Settling a promise that is settled does nothing.
Settle(S, result) ==
    [r \in Refs |-> IF r \in S /\ outcome[r] = "waiting" THEN result ELSE outcome[r]]

\* A reply frame with a ref that is found; the client may send any ref, at any
\* time and again, and one that is not found changes nothing.
Reply(r) ==
    /\ open /\ r \in entries
    /\ entries' = entries \ {r}
    /\ armed' = armed \ {r}
    /\ outcome' = Settle({r}, "reply")
    /\ UNCHANGED <<open, buffered, coalesced>>

\* (mutant: the timer rejects without deleting)
TimeoutKeepsEntry(r) ==
    /\ r \in armed /\ armed' = armed \ {r}
    /\ outcome' = Settle({r}, "timeout")
    /\ UNCHANGED <<open, buffered, entries, coalesced>>

\* The timer: if (pending.delete(ref)) reject.
Timeout(r) ==
    /\ r \in armed /\ armed' = armed \ {r}
    /\ entries' = entries \ {r}
    /\ outcome' = Settle({r} \cap entries, "timeout")
    /\ UNCHANGED <<open, buffered, coalesced>>

-----------------------------------------------------------------------------
(* platform.sendCoalesced. *)

\* (mutant: a dropped frame is removed like a sent one)
KeptLosesDropped(values, n) ==
    IF n < Len(values) /\ n = 0 THEN Tail(values) ELSE SubSeq(values, n + 1, Len(values))

\* pending.delete(key) for the n accepted values; a dropped one stays.
Kept(values, n) == SubSeq(values, n + 1, Len(values))

\* if (result === 1) return;
Halts(code) == code = 1

\* drainCoalesced on values, codes being the answers to the accepted sends.  It
\* ends when an answer halts it, when nothing is left, when the next value throws
\* in JSON.stringify (the exception leaves flushCoalescedFor too), or when the
\* next send is dropped.
Pumps(values, b, codes) ==
    LET n == Len(codes)
    IN  /\ UwsAccepts(b, codes)
        /\ \A i \in 1..n : values[i].good
        /\ \A i \in 1..n - 1 : ~Halts(codes[i])
        /\ \/ n > 0 /\ Halts(codes[n])
           \/ n = Len(values)
           \/ /\ n < Len(values)
              /\ ~values[n + 1].good \/ BufferAfter(b, codes, n) > MaxBuffered

\* flushCoalescedFor on an open socket whose buffer holds b frames.
Flush(values, b) ==
    \E n \in 0..Len(values) : \E codes \in [1..n -> {Success, Backpressure}] :
        /\ Pumps(values, b, codes)
        /\ pending' = Kept(values, n)
        /\ buffered' = BufferAfter(b, codes, n)
        /\ sent' = [k \in Keys |->
                       LET now == {i \in 1..n : values[i].key = k}
                       IN  IF now = {} THEN sent[k]
                           ELSE values[CHOOSE i \in now : TRUE].version]

HasKey(values, k) == \E i \in DOMAIN values : values[i].key = k

\* pending.size >= MAX_COALESCED_KEYS_PER_CONNECTION && !pending.has(key)
Evicts(k) == Len(pending) >= MaxKeys /\ ~HasKey(pending, k)

\* The Map after the eviction.
Room(k) == IF Evicts(k) THEN Tail(pending) ELSE pending

\* (mutant: the first value of a key stays)
PutFirstWins(k, v) == IF HasKey(pending, k) THEN pending ELSE Append(Room(k), v)

\* pending.set(key, v): an overwritten key keeps its slot.
Put(k, v) ==
    IF HasKey(pending, k)
    THEN [i \in DOMAIN pending |-> IF pending[i].key = k THEN v ELSE pending[i]]
    ELSE Append(Room(k), v)

SendCoalesced(k) ==
    /\ open /\ newest[k] < MaxWrites
    /\ newest' = [newest EXCEPT ![k] = @ + 1]
    /\ \E good \in (IF AllowPoison THEN BOOLEAN ELSE {TRUE}) :
           Flush(Put(k, [key |-> k, version |-> newest[k] + 1, good |-> good]), buffered)
    /\ evicted' = (IF Evicts(k) THEN evicted \cup {Head(pending).key} ELSE evicted) \ {k}
    /\ UNCHANGED <<open, requests>>

\* The client reads: the buffer shrinks, uWS fires drain, and the handler flushes.
Drain ==
    /\ open /\ buffered > 0
    /\ \E rest \in 0..buffered - 1 : Flush(pending, rest)
    /\ UNCHANGED <<newest, evicted, open, requests>>

-----------------------------------------------------------------------------
(* The close handler. *)

\* The calls of request the user's close hook makes: the handle still answers
\* getUserData, so they are entered in the cleared Map.
FromCloseHook == {S \in SUBSET {r \in Refs : outcome[r] = "new"} : Cardinality(S) <= MaxPending}

\* (mutant: the Map is cleared, and the promises are forgotten)
CloseForgets ==
    /\ open /\ open' = FALSE
    /\ \E late \in FromCloseHook :
          /\ entries' = late
          /\ armed' = (armed \ entries) \cup late
          /\ outcome' = [r \in Refs |-> IF r \in late THEN "waiting" ELSE outcome[r]]
    /\ UNCHANGED <<buffered, coalesced>>

\* What is pending is rejected and cleared, then the hook runs; the coalesced
\* values go with the userData.
Close ==
    /\ open /\ open' = FALSE
    /\ \E late \in FromCloseHook :
          /\ entries' = late
          /\ armed' = (armed \ entries) \cup late
          /\ outcome' = [r \in Refs |-> IF r \in late THEN "waiting"
                                        ELSE Settle(entries, "closed")[r]]
    /\ UNCHANGED <<buffered, coalesced>>

Next ==
    \/ \E r \in Refs : Refused(r) \/ Request(r) \/ Reply(r) \/ Timeout(r)
    \/ \E k \in Keys : SendCoalesced(k)
    \/ Drain
    \/ Close

Spec == Init /\ [][Next]_vars

\* Timers fire, and the client keeps reading, so a buffer that is not empty
\* shrinks; it need not answer.
FairSpec == Spec /\ WF_vars(Drain) /\ \A r \in Refs : WF_vars(Timeout(r))

-----------------------------------------------------------------------------
\* A promise that is waited for has its entry, also after the close, and a timer
\* is armed exactly while the entry is in the Map: whatever comes first, something
\* is left to settle the promise, and nothing settled or closed leaves a timer or
\* an entry behind (handler.js:1680).
EntriesAreWatched ==
    /\ \A r \in Refs : outcome[r] = "waiting" => r \in entries
    /\ armed = entries

\* Neither the caps nor the watch on a waiting request depend on what came first.
SettlingIsSure == TypeOK /\ EntriesAreWatched

\* Every request is settled, though the client never answers or its frame was
\* dropped.
RequestsSettle == \A r \in Refs : outcome[r] = "waiting" ~> outcome[r] \in Settled

\* The last value given for a key is on the wire, or it is the one pending for the
\* key, unless the cap dropped it (handler.js:1103-1106): a frame uWS dropped is
\* not lost, and overwriting in place leaves nothing older to be sent instead.
LatestKept ==
    \A k \in Keys \ evicted :
        newest[k] > 0 =>
            \/ sent[k] = newest[k]
            \/ \E i \in DOMAIN pending :
                  pending[i].key = k /\ pending[i].version = newest[k]

\* What goes out for a key is its latest value: the client never sees an older
\* value after a newer one, whatever was dropped and retried in between.
FreshOnly == \A k \in Keys : sent'[k] # sent[k] => sent'[k] = newest'[k]

\* The wire holds the latest value of every key, or holds it back, and never an
\* older one after a newer.
LatestGoesOut == [][LatestKept' /\ FreshOnly]_vars

\* A call on a socket with an empty buffer sends something, its own value or an
\* older pending one, unless its own value cannot be serialised: "The flush
\* attempts immediately" (handler.js:1084).
GoodCallSends ==
    [][\A k \in Keys :
          /\ newest'[k] # newest[k] /\ buffered = 0
          /\ \A i \in DOMAIN pending' : pending'[i].key = k => pending'[i].good
          => sent' # sent]_vars

\* "keep eventually receiving the latest value (the queue-and-drain shape)"
\* (README.md:1232): what is pending for a key of a connection whose client
\* reads is sent, evicted or gone with the socket.
LatestArrives ==
    \A k \in Keys : HasKey(pending, k) ~> ~open \/ ~HasKey(pending, k)
==============================================================================
