--------------------------------- MODULE Ssr ---------------------------------
(***************************************************************************)
(* Server-side rendering over HTTP (handler.js): handleRequest, handleSSR  *)
(* with the deduplication of concurrent anonymous GETs, readBody,          *)
(* writeResponse, the authenticate endpoint, the pool of request states    *)
(* and the drain of a graceful shutdown.                                   *)
(*                                                                         *)
(* Every await is a place where the handler stands, and the client may     *)
(* hang up at each.  A body is a number of chunks and how it ends; bytes   *)
(* are counted in chunks.  What a rendering answers is chosen when it      *)
(* answers.                                                                *)
(***************************************************************************)
EXTENDS Integers, Sequences, FiniteSets

CONSTANTS Reqs,      \* requests
          Kinds,     \* Kinds[r]: what r may ask for, out of AllKinds
          Keys,      \* dedup keys: method, origin and url of a GET
          Pages,     \* the responses a rendering may answer
          BodyCap,   \* MAX_SSR_DEDUP_BODY, in chunks
          MaxDedup,  \* MAX_SSR_DEDUP
          PoolMax,   \* STATE_POOL_MAX
          NoReq      \* nobody

VARIABLES kind,      \* kind[r]: what r asks for
          key,       \* key[r]: its dedup key
          at,        \* at[r]: where the handler of r stands
          upload,    \* upload[r]: the request body, for a post
          leader,    \* leader[r]: whose promise r awaits or was served from
          promise,   \* promise[r]: the dedup promise r made as a leader
          inflight,  \* ssrInflight: the leader of each key
          page,      \* page[r]: what the rendering of r answered
          out,       \* out[r]: the body being written, in reads and chunks
          pos,       \* pos[r]: reads of it that are done
          wire,      \* wire[r]: what uWS has for the response of r
          sent,      \* sent[r]: chunks of body written
          misuse,    \* the requests whose response was touched too late
          state,     \* state[r]: the pooled state of r, 0 for none
          flags,     \* flags[i]: the fields of state object i
          pool,      \* statePool
          inFlight,  \* inFlightCount
          draining   \* drainResolvers is not empty

response == <<wire, sent, misuse>>
pooled == <<state, flags, pool, inFlight, draining>>
render == <<page, out, pos>>
dedup == <<leader, promise, inflight>>
asked == <<kind, key, upload>>
vars == <<asked, at, dedup, render, response, pooled>>

AllKinds == {"get", "credentialed", "head", "post", "auth"}
Streams == {"plain", "own", "sse"}
AllPages == [class: {"none", "error"} \cup Streams, size: Nat, fails: BOOLEAN]
NoPage == [class |-> "none", size |-> 0, fails |-> FALSE]
Body == [reads: Nat, unit: Nat, fails: BOOLEAN]
\* aborted and responseStarted; closedByServer only decides what is logged.
Fresh == [aborted |-> FALSE, started |-> FALSE]
Flags == [aborted: BOOLEAN, started: BOOLEAN]
Ids == 1..Cardinality(Reqs)
Places == {"new", "follow", "render", "buffer", "first", "second", "stream", "drain", "auth", "authbody", "done"}

TypeOK ==
    /\ kind \in [Reqs -> AllKinds] /\ key \in [Reqs -> Keys] /\ at \in [Reqs -> Places]
    /\ upload \in [Reqs -> {"none", "reading", "read", "tooLarge", "failed"}]
    /\ leader \in [Reqs -> Reqs \cup {NoReq}]
    /\ promise \in [Reqs -> {"none", "pending", "null", "shared"}]
    /\ inflight \in [Keys -> Reqs \cup {NoReq}]
    /\ page \in [Reqs -> AllPages] /\ out \in [Reqs -> Body] /\ pos \in [Reqs -> Nat]
    /\ wire \in [Reqs -> {"unused", "open", "page", "error", "closed", "aborted"}]
    /\ sent \in [Reqs -> Nat] /\ misuse \subseteq Reqs
    /\ state \in [Reqs -> 0..Cardinality(Reqs)] /\ flags \in [Ids -> Flags]
    /\ pool \in Seq(Ids) /\ Len(pool) <= PoolMax
    /\ inFlight \in Nat /\ draining \in BOOLEAN

Init ==
    /\ kind = [r \in Reqs |-> "get"] /\ key \in [Reqs -> Keys] /\ at = [r \in Reqs |-> "new"]
    /\ upload = [r \in Reqs |-> "none"]
    /\ leader = [r \in Reqs |-> NoReq] /\ promise = [r \in Reqs |-> "none"]
    /\ inflight = [k \in Keys |-> NoReq]
    /\ page = [r \in Reqs |-> NoPage] /\ pos = [r \in Reqs |-> 0]
    /\ out = [r \in Reqs |-> [reads |-> 0, unit |-> 0, fails |-> FALSE]]
    /\ wire = [r \in Reqs |-> "unused"] /\ sent = [r \in Reqs |-> 0] /\ misuse = {}
    /\ state = [r \in Reqs |-> 0] /\ flags = [i \in Ids |-> Fresh] /\ pool = <<>>
    /\ inFlight = 0 /\ draining = FALSE

Aborted(r) == flags[state[r]].aborted
Started(r) == flags[state[r]].started

-------------------------------------------------------------------------------
(* The pool, the response and the end of a handler.                          *)

\* acquireState: the object released last, or a new one, with its flags reset.
Acquired == IF pool = <<>> THEN CHOOSE i \in Ids : \A r \in Reqs : state[r] # i ELSE pool[Len(pool)]
\* (mutant: a reused object keeps the flags of its last request)
AcquireUnreset(r) ==
    /\ state' = [state EXCEPT ![r] = Acquired]
    /\ UNCHANGED flags
    /\ pool' = IF pool = <<>> THEN pool ELSE SubSeq(pool, 1, Len(pool) - 1)

Acquire(r) ==
    /\ state' = [state EXCEPT ![r] = Acquired]
    /\ flags' = [flags EXCEPT ![Acquired] = Fresh]
    /\ pool' = IF pool = <<>> THEN pool ELSE SubSeq(pool, 1, Len(pool) - 1)

\* releaseState, in the finally of every handler.
Release(r) ==
    /\ state' = [state EXCEPT ![r] = 0]
    /\ pool' = IF Len(pool) < PoolMax THEN Append(pool, state[r]) ELSE pool

\* requestDone: the drain resolves when the last request in flight is done.
\* The authenticate endpoint does not count its requests.
RequestDone(r) ==
    /\ inFlight' = IF kind[r] = "auth" THEN inFlight ELSE inFlight - 1
    /\ draining' = (draining /\ inFlight' # 0)

\* The handler of r is over.
Leave(r) == at' = [at EXCEPT ![r] = "done"] /\ Release(r) /\ RequestDone(r)

Moves(r, place) == at' = [at EXCEPT ![r] = place] /\ UNCHANGED <<state, pool, inFlight, draining>>

\* The response takes no call once it has ended or its client is gone.
Put(r, how, chunks) ==
    /\ misuse' = IF wire[r] = "open" THEN misuse ELSE misuse \cup {r}
    /\ wire' = IF wire[r] = "open" THEN [wire EXCEPT ![r] = how] ELSE wire
    /\ sent' = [sent EXCEPT ![r] = @ + chunks]

Starts(r) == flags' = [flags EXCEPT ![state[r]].started = TRUE]

Silent == UNCHANGED <<response, flags>>

\* (mutant: the error page does not ask whether the client is gone)
FailBlindly(r) ==
    /\ IF Started(r) THEN UNCHANGED response ELSE Put(r, "error", 0)
    /\ UNCHANGED flags
    /\ Leave(r)

\* The catch of handleSSR: 413 or 500 unless the client is gone or bytes are
\* out already.
Fail(r) ==
    /\ IF Aborted(r) \/ Started(r) THEN UNCHANGED response ELSE Put(r, "error", 0)
    /\ UNCHANGED flags
    /\ Leave(r)

-------------------------------------------------------------------------------
(* Arrival.                                                                   *)

CanDedup(c) == c = "get" /\ Cardinality({k \in Keys : inflight[k] # NoReq}) < MaxDedup

\* handleRequest and the first turn of handleSSR, up to its first await: a GET
\* without credentials follows the leader of its key or becomes it.
Arrive(r, c) ==
    /\ at[r] = "new" /\ c # "auth"
    /\ kind' = [kind EXCEPT ![r] = c]
    /\ \E u \in IF c = "post" THEN {"none", "reading"} ELSE {"none"} : upload' = [upload EXCEPT ![r] = u]
    /\ wire' = [wire EXCEPT ![r] = "open"]
    /\ Acquire(r)
    /\ inFlight' = inFlight + 1
    /\ UNCHANGED <<key, render, sent, misuse, draining>>
    /\ LET first == inflight[key[r]] IN
       \/ /\ CanDedup(c) /\ first # NoReq
          /\ leader' = [leader EXCEPT ![r] = first]
          /\ at' = [at EXCEPT ![r] = "follow"]
          /\ UNCHANGED <<promise, inflight>>
       \/ /\ CanDedup(c) /\ first = NoReq
          /\ leader' = [leader EXCEPT ![r] = r]
          /\ promise' = [promise EXCEPT ![r] = "pending"]
          /\ inflight' = [inflight EXCEPT ![key[r]] = r]
          /\ at' = [at EXCEPT ![r] = "render"]
       \/ /\ ~CanDedup(c)
          /\ at' = [at EXCEPT ![r] = "render"]
          /\ UNCHANGED dedup

\* A request that is refused before its first await: no usable origin or url,
\* or a declared length over the limit.  Its state goes straight back.
Refuse(r) ==
    /\ at[r] = "new"
    /\ at' = [at EXCEPT ![r] = "done"]
    /\ wire' = [wire EXCEPT ![r] = "error"]
    /\ flags' = [flags EXCEPT ![Acquired] = Fresh]
    /\ pool' = IF pool = <<>> /\ PoolMax > 0 THEN <<Acquired>> ELSE pool
    /\ UNCHANGED <<asked, dedup, render, sent, misuse, state, inFlight, draining>>

\* A chunk of the request body that is the last one, or one past the limit:
\* the error goes into the stream the application reads.
Upload(r) ==
    /\ upload[r] = "reading" /\ wire[r] = "open"
    /\ \E u \in {"read", "tooLarge"} : upload' = [upload EXCEPT ![r] = u]
    /\ UNCHANGED <<kind, key, at, dedup, render, response, pooled>>

\* The client hangs up: the state is marked, a pending read of the request body
\* fails and one of the response body is cancelled.
Abort(r) ==
    /\ wire[r] = "open"
    /\ wire' = [wire EXCEPT ![r] = "aborted"]
    /\ flags' = [flags EXCEPT ![state[r]].aborted = TRUE]
    /\ upload' = [upload EXCEPT ![r] = IF @ = "reading" THEN "failed" ELSE @]
    /\ UNCHANGED <<kind, key, at, dedup, render, sent, misuse, state, pool, inFlight, draining>>

-------------------------------------------------------------------------------
(* The dedup promise and the rendering.                                      *)

\* (mutant: the entry of a promise that came to nothing stays in the map)
SettleKeepsEntry(r, value) ==
    IF promise[r] = "pending"
    THEN /\ promise' = [promise EXCEPT ![r] = value]
         /\ inflight' = IF value = "null" THEN inflight ELSE [inflight EXCEPT ![key[r]] = NoReq]
         /\ UNCHANGED leader
    ELSE UNCHANGED dedup

\* resolveShared: a promise settles once, and its entry goes with it.
Settle(r, value) ==
    IF promise[r] = "pending"
    THEN /\ promise' = [promise EXCEPT ![r] = value]
         /\ inflight' = [inflight EXCEPT ![key[r]] = NoReq]
         /\ UNCHANGED leader
    ELSE UNCHANGED dedup

BodyOf(p) == [reads |-> p.size, unit |-> 1, fails |-> p.fails]
Whole(n) == [reads |-> IF n = 0 THEN 0 ELSE 1, unit |-> n, fails |-> FALSE]

\* The first turn of writeResponse: a response without a body, one that cannot
\* be sent (status 0, locked body) and a HEAD are answered at once.
WriteResponse(r, class, body) ==
    \/ /\ class = "error" /\ Fail(r) /\ UNCHANGED <<out, pos>>
    \/ /\ class = "none" \/ (class \in Streams /\ kind[r] = "head")
       /\ Put(r, "page", 0) /\ Starts(r) /\ Leave(r) /\ UNCHANGED <<out, pos>>
    \/ /\ class \in Streams /\ kind[r] # "head"
       /\ out' = [out EXCEPT ![r] = body] /\ pos' = [pos EXCEPT ![r] = 0]
       /\ Moves(r, "first") /\ Silent

\* (mutant: responses with a cookie or a personal Vary are shared too)
ShareableOwn(p) == p.class \in {"plain", "own"}

\* (mutant: event streams are buffered too)
ShareableStreams(p) == p.class \in {"plain", "sse"}

\* server.respond answers p.  A leader shares only what is the same for
\* everybody (class "own" is a cookie, a personal Vary or a declared length
\* past the cap) and does not hold an event stream back.
Shareable(p) == p.class = "plain"

Respond(r, p) ==
    /\ at[r] = "render" /\ upload[r] # "reading"
    /\ page' = [page EXCEPT ![r] = p]
    /\ \/ /\ Aborted(r) /\ Settle(r, "null") /\ Leave(r) /\ Silent /\ UNCHANGED <<out, pos>>
       \/ /\ ~Aborted(r) /\ promise[r] = "pending" /\ Shareable(p)
          /\ out' = [out EXCEPT ![r] = BodyOf(p)]
          /\ Moves(r, "buffer") /\ Silent /\ UNCHANGED <<dedup, pos>>
       \/ /\ ~Aborted(r) /\ ~(promise[r] = "pending" /\ Shareable(p))
          /\ Settle(r, "null") /\ WriteResponse(r, p.class, BodyOf(p))
    /\ UNCHANGED asked

\* server.respond throws, for instance what readBody put into the request.
RespondThrows(r) ==
    /\ at[r] = "render" /\ upload[r] # "reading"
    /\ Settle(r, "null") /\ Fail(r)
    /\ UNCHANGED <<asked, render>>

\* A follower goes on when the promise it awaits has settled: with the shared
\* bytes, or with a rendering of its own.
Resume(r) ==
    /\ at[r] = "follow" /\ promise[leader[r]] # "pending"
    /\ \/ /\ Aborted(r) /\ Leave(r) /\ Silent /\ UNCHANGED render
       \/ /\ ~Aborted(r) /\ promise[leader[r]] = "shared"
          /\ WriteResponse(r, "plain", out[leader[r]])
          /\ page' = [page EXCEPT ![r] = page[leader[r]]]
       \/ /\ ~Aborted(r) /\ promise[leader[r]] = "null"
          /\ Moves(r, "render") /\ Silent /\ UNCHANGED render
    /\ UNCHANGED <<asked, dedup>>

-------------------------------------------------------------------------------
(* readBodyUpTo: the leader collects the body while it is ready and small.   *)

\* (mutant: what was collected is not replayed)
StreamingRest(r) ==
    /\ Settle(r, "null") /\ Moves(r, "first") /\ Silent
    /\ out' = [out EXCEPT ![r].reads = out[r].reads - pos[r]] /\ pos' = [pos EXCEPT ![r] = 0]

Streaming(r) == Settle(r, "null") /\ WriteResponse(r, "plain", out[r])

\* (mutant: the state is not looked at again after the read)
CompleteUnchecked(r) == Settle(r, "shared") /\ WriteResponse(r, "plain", Whole(pos[r]))

\* The read says done: the body is over, or the abort cancelled the reader.
Complete(r) ==
    \/ /\ Aborted(r) /\ Settle(r, "null") /\ Leave(r) /\ Silent /\ UNCHANGED <<out, pos>>
    \/ /\ ~Aborted(r) /\ Settle(r, "shared") /\ WriteResponse(r, "plain", Whole(pos[r]))

BufferRead(r) ==
    /\ at[r] = "buffer"
    /\ \/ /\ Aborted(r) \/ (pos[r] = out[r].reads /\ ~out[r].fails)
          /\ Complete(r)
       \/ /\ pos[r] = out[r].reads /\ out[r].fails /\ ~Aborted(r)
          /\ Settle(r, "null") /\ Fail(r) /\ UNCHANGED <<out, pos>>
       \/ /\ pos[r] < out[r].reads /\ pos[r] < BodyCap /\ ~Aborted(r)
          /\ pos' = [pos EXCEPT ![r] = @ + 1]
          /\ UNCHANGED <<at, out, dedup, response, pooled>>
       \/ /\ pos[r] < out[r].reads /\ pos[r] = BodyCap /\ ~Aborted(r)
          /\ Streaming(r)
    /\ UNCHANGED <<asked, page>>

\* readReady: a read after the first one that is not ready within this turn.
BufferPending(r) ==
    /\ at[r] = "buffer" /\ pos[r] > 0 /\ ~Aborted(r)
    /\ Streaming(r)
    /\ UNCHANGED <<asked, page>>

-------------------------------------------------------------------------------
(* writeResponse: the first two reads decide between one corked answer and a *)
(* stream; every read may be the last, fail, or come after the client left.  *)

Over(r) == pos[r] = out[r].reads

\* A read of a cancelled reader says done.
ReadCancelled(r) ==
    /\ at[r] \in {"first", "second", "stream"} /\ Aborted(r)
    /\ Leave(r) /\ Silent
    /\ UNCHANGED <<asked, dedup, render>>

\* The body is over: what is left of it and the end go out in one cork.
ReadEnd(r) ==
    /\ at[r] \in {"first", "second", "stream"} /\ ~Aborted(r)
    /\ Over(r) /\ ~out[r].fails
    /\ Put(r, "page", IF at[r] = "second" THEN out[r].unit ELSE 0)
    /\ Starts(r) /\ Leave(r)
    /\ UNCHANGED <<asked, dedup, render>>

\* (mutant: a stream that fails is ended like one that is complete)
EndCleanly(r) == Put(r, "page", 0) /\ UNCHANGED flags /\ Leave(r)

\* close() answers nothing more and fires the abort handler.
CloseByServer(r) ==
    /\ wire' = [wire EXCEPT ![r] = "closed"]
    /\ flags' = [flags EXCEPT ![state[r]].aborted = TRUE]
    /\ UNCHANGED <<sent, misuse>>
    /\ Leave(r)

\* The source fails, or yields something that is not bytes.
ReadError(r) ==
    /\ at[r] \in {"first", "second", "stream"} /\ ~Aborted(r)
    /\ Over(r) /\ out[r].fails
    /\ IF at[r] = "stream" THEN CloseByServer(r) ELSE Fail(r)
    /\ UNCHANGED <<asked, dedup, render>>

Write(r, chunks) ==
    /\ misuse' = IF wire[r] = "open" THEN misuse ELSE misuse \cup {r}
    /\ sent' = [sent EXCEPT ![r] = @ + chunks]
    /\ UNCHANGED wire

\* A chunk: the first is kept, the second starts the stream, and every later
\* write may fill the socket.
ReadChunk(r) ==
    /\ at[r] \in {"first", "second", "stream"} /\ ~Aborted(r) /\ ~Over(r)
    /\ pos' = [pos EXCEPT ![r] = @ + 1]
    /\ \/ /\ at[r] = "first" /\ Moves(r, "second") /\ Silent
       \/ /\ at[r] = "second" /\ Write(r, 2 * out[r].unit) /\ Starts(r) /\ Moves(r, "stream")
       \/ /\ at[r] = "stream" /\ Write(r, out[r].unit)
          /\ (Moves(r, "stream") \/ Moves(r, "drain"))
          /\ UNCHANGED flags
    /\ UNCHANGED <<asked, dedup, page, out>>

\* readReady: the second chunk is not ready, the first goes out alone.
SecondPending(r) ==
    /\ at[r] = "second" /\ ~Aborted(r)
    /\ Write(r, out[r].unit) /\ Starts(r) /\ Moves(r, "stream")
    /\ UNCHANGED <<asked, dedup, render>>

\* writeChunkWithBackpressure: the socket drains, or thirty seconds pass.
Writable(r) ==
    /\ at[r] = "drain" /\ ~Aborted(r)
    /\ Moves(r, "stream") /\ Silent
    /\ UNCHANGED <<asked, dedup, render>>

DrainTimeout(r) ==
    /\ at[r] = "drain"
    /\ IF Aborted(r) THEN Silent /\ Leave(r) ELSE CloseByServer(r)
    /\ UNCHANGED <<asked, dedup, render>>

-------------------------------------------------------------------------------
(* The authenticate endpoint and the drain.                                  *)

\* The POST, up to the hook.  A refused one is a Refuse.
Authenticate(r) ==
    /\ at[r] = "new" /\ "auth" \in Kinds[r]
    /\ kind' = [kind EXCEPT ![r] = "auth"]
    /\ \E u \in {"none", "reading"} : upload' = [upload EXCEPT ![r] = u]
    /\ wire' = [wire EXCEPT ![r] = "open"]
    /\ Acquire(r)
    /\ at' = [at EXCEPT ![r] = "auth"]
    /\ UNCHANGED <<key, dedup, render, sent, misuse, inFlight, draining>>

\* The hook answers false, nothing or a Response, or throws; the body of a
\* Response is read before it is sent.
AuthSettles(r) ==
    /\ at[r] = "auth" /\ upload[r] # "reading"
    /\ \/ /\ Aborted(r) /\ Leave(r) /\ Silent /\ UNCHANGED <<page, out>>
       \/ /\ ~Aborted(r)
          /\ \E how \in {"page", "error"} : Put(r, how, 0)
          /\ Leave(r) /\ UNCHANGED <<flags, page, out>>
       \/ /\ ~Aborted(r)
          /\ \E p \in {q \in Pages : q.class \in Streams} :
                /\ page' = [page EXCEPT ![r] = p] /\ out' = [out EXCEPT ![r] = BodyOf(p)]
          /\ Moves(r, "authbody") /\ Silent
    /\ UNCHANGED <<asked, dedup, pos>>

AuthBody(r) ==
    /\ at[r] = "authbody"
    /\ \/ Aborted(r) /\ Silent
       \/ ~Aborted(r) /\ ~out[r].fails /\ Put(r, "page", out[r].reads) /\ UNCHANGED flags
       \/ ~Aborted(r) /\ out[r].fails /\ Put(r, "error", 0) /\ UNCHANGED flags
    /\ Leave(r)
    /\ UNCHANGED <<asked, dedup, render>>

\* drain() of a graceful shutdown: it waits unless nothing is in flight.
Drain ==
    /\ inFlight > 0 /\ ~draining
    /\ draining' = TRUE
    /\ UNCHANGED <<asked, at, dedup, render, response, state, flags, pool, inFlight>>

Next ==
    \/ \E r \in Reqs : \E c \in Kinds[r] : Arrive(r, c)
    \/ \E r \in Reqs, p \in Pages : Respond(r, p)
    \/ \E r \in Reqs :
          \/ Refuse(r) \/ Upload(r) \/ Abort(r) \/ RespondThrows(r) \/ Resume(r)
          \/ BufferRead(r) \/ BufferPending(r)
          \/ ReadCancelled(r) \/ ReadEnd(r) \/ ReadError(r) \/ ReadChunk(r) \/ SecondPending(r)
          \/ Writable(r) \/ DrainTimeout(r)
          \/ Authenticate(r) \/ AuthSettles(r) \/ AuthBody(r)
    \/ Drain

Spec == Init /\ [][Next]_vars

\* A rendering whose request body is there answers; a body that is buffered
\* yields its first chunk or ends, and the deadline of readReady passes; a
\* cancelled read ends, and so does a wait for the socket.  Nothing else is
\* promised: an event stream may be silent and an upload may stall for ever.
\* A request takes finitely many steps, so what is fair to their disjunction is
\* fair to each of them.
Progress(r) ==
    \/ RespondThrows(r) \/ \E p \in Pages : Respond(r, p)
    \/ Resume(r)
    \/ BufferRead(r) /\ (pos[r] > 0 \/ Aborted(r) \/ page[r].class # "sse")
    \/ BufferPending(r) \/ ReadCancelled(r) \/ DrainTimeout(r)
    \/ AuthSettles(r) \/ AuthBody(r)

FairSpec == Spec /\ \A r \in Reqs : WF_vars(Progress(r))

-------------------------------------------------------------------------------
(* Properties.                                                               *)

\* No call reaches a response that has ended or whose client is gone, and a
\* handler that is done has answered its request, closed it, or lost its
\* client: nobody waits for an answer that does not come, and no abort callback
\* writes into a state object that has gone to another request.
OneAnswer ==
    /\ misuse = {}
    /\ \A r \in Reqs : wire[r] = "open" => at[r] # "done" /\ state[r] # 0
    /\ \A r, q \in Reqs : state[r] # 0 /\ state[r] = state[q] => r = q
    /\ \A r \in Reqs : \A i \in DOMAIN pool : pool[i] # state[r]

\* A response that ends cleanly carries the whole body of one rendering,
\* whether it was sent in one piece, streamed, replayed from the part that was
\* held, or shared; and what is shared was rendered for an anonymous GET and is
\* nobody's own.
WholeBody ==
    \A r \in Reqs :
       wire[r] = "page" /\ kind[r] # "head" /\ page[r].class \in Streams =>
          /\ sent[r] = page[r].size /\ ~page[r].fails
          /\ promise[r] = "none" /\ leader[r] # NoReq /\ promise[leader[r]] = "shared" =>
                kind[leader[r]] = "get" /\ page[r].class = "plain" /\ key[r] = key[leader[r]]

\* The books of the HTTP side: the counter a shutdown waits on is the number of
\* renderings in progress, a drain waits only while there are any, and the
\* dedup map holds exactly the leaders whose promise is open.
HttpBooks ==
    /\ TypeOK
    /\ inFlight = Cardinality({r \in Reqs : at[r] \notin {"new", "done"} /\ kind[r] # "auth"})
    /\ draining => inFlight > 0
    /\ \A r \in Reqs : promise[r] = "pending" <=> inflight[key[r]] = r
    /\ \A k \in Keys : inflight[k] # NoReq => key[inflight[k]] = k /\ at[inflight[k]] \in {"render", "buffer"}

\* A request that follows another one is not stuck behind it, and the handler
\* of a client that went away comes to its end, whatever it was waiting for, so
\* that a shutdown does not wait for it.  The requests are finitely many: when
\* the last of them came, nobody is left to wait.
HandlersEnd ==
    <>[](\A r \in Reqs : at[r] # "follow" /\ (state[r] # 0 => wire[r] # "aborted"))
===============================================================================
