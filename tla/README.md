# A TLA+ model of svelte-adapter-uws

svelte-adapter-uws runs a SvelteKit application on uWebSockets.js, with
WebSockets, a topic-based publish/subscribe platform, a cluster mode on worker
threads, a browser client, a development server and a set of plugins.  This
directory holds a formal model of the parts whose correctness rests on the order
in which callbacks, messages, timers and awaited hooks happen, TLC instances
that check them, and TLAPS proofs, for every value of the constants, of the
invariants of most.

Line numbers below are of the files under `src/`; `handler.js`, `utils.js` and
`index.js` without a directory are those of `src/files/`.

## Inventory

JavaScript threads run one callback at a time, so a step of every model is one
run of a handler up to its next `await`, or one continuation.  What makes the
system hard is between those steps: a hook that is awaited while the socket
closes, timers that race answers, messages between threads, threads that end.

| Component | State | Operations | Hard part | What makes it correct |
|---|---|---|---|---|
| Subscriptions (handler.js) | the Set of a socket, uWS's topic tree, `totalSubscriptions` | subscribe, subscribe-batch, unsubscribe and resume frames; `platform.subscribe`, `unsubscribe`, `checkSubscribe`; close | the authorization hook is awaited in the middle | the three agree, nothing unauthorized is delivered, the cap holds, a closed socket is left alone |
| Requests (handler.js, client.js) | a Map of pending promises with timers per connection; the browser's running handlers | `platform.request`, `onRequest`, reply frame, timer, close, reconnect | four parties race to settle; answers outlive connections | every promise is settled, by its own answer |
| Coalesced sends (handler.js, utils.js) | a Map of the latest value per key, the send buffer | `sendCoalesced`, drain event, close | partial sends, dropped frames | the latest value goes out, and goes out last |
| Upgrade admission (handler.js, utils.js) | slots in flight, budget per loop iteration, a queue; two windows per address | upgrade request, hook settlement, timer, abort, drain | one slot, three ways to give it back | slots return once, one answer per response, order of the queue, no address beyond its rate |
| Origins (utils.js, handler.js) | the configuration | start, the check of an upgrade or a POST, the origin of a URL | two derivations of the server's own origin | they agree for every configuration |
| HTTP and SSR, authenticate endpoint (handler.js) | request bodies, pooled states, deduplicated renders, streamed responses, requests in flight | `handleRequest`, `readBody`, `handleSSR`, `writeResponse`, POST, drain | aborts between reads; followers of a leader that fails | one answer per response, whole or visibly cut, nobody waits for ever |
| Static files (handler.js) | the cache of files and pages | `cacheDir`, `serveStatic`, `tryPrerendered`, `parseRange` | ranges at the edges, clean paths and redirects | the right bytes, no redirect loop |
| Publishing and relay (handler.js, index.js) | sequence numbers, the relay batch and its timer, ports between threads | `publish`, `batch`, `publishBatched`, relay flush, forwarding, delivery | two relay paths, a frame shared by several sockets | no loss, duplicate or echo; the shared frame is only an optimisation |
| Pressure sampling (handler.js) | counters, thresholds, listeners | a timer, `onPressure`, `onPublishRate`, publish | listeners that throw, publish or leave in a round | one callback per transition and listener |
| Cluster primary (index.js) | workers, heartbeats, backoff, restart timers, the listen socket | spawn, register, heartbeat, exit, restart, shutdown | crashes and hangs at any point | accepts while served, replaces what is lost, ends when told |
| Development server (vite.js) | generations of handlers, a queue of lifecycle tasks, the module graph | load, save, repair, retire, upgrade, frame | imports that end after they were superseded | one instance at a time, hooks while it is up, the last save served |
| Lock plugin | registry of keys, a queue per key, timers | `withLock`, timeout, `clear` | promotion against timeout and clear | mutual exclusion, order, no lost waiter |
| Queue plugin | registry of keys, tasks waiting and running, drains | `push`, task end, `clear`, `drain` | the object is looked up again after an await | limits, order, drains neither early nor never |
| Rate limit, session and dedup plugins | bounded maps with deadlines | `consume`, `ban`, `get`, `claim`, pruning | expiry and eviction while a window runs | a limit holds, what lives is kept |
| Throttle plugin | a state and a timer per topic | `publish`, timer, `flush`, `cancel`, eviction | eviction with a message waiting | the last message goes out |
| Replay plugin, resume (client.js, handler.js) | a ring buffer per topic; a store that catches up; the numbers a client saw | `publish`, `replay`, page render, subscription, end marker; reconnect, resume frame and hook | live messages between render or loss, subscription and answer | no gap, no duplicate, the store goes live; a resumed client is filled in, in order, or told |
| Presence plugin | connections per user and topic, pending differences; the client's map | `join`, `sync`, `leave`, flush, heartbeat, sweep | debounced differences against snapshots | exact counts, views that are current or heal |
| Cursor plugin | an entry per mover and topic, a dirty map per topic; the client's maps | `update`, tick, `remove`, snapshot, sweep | two throttles while movers leave | the last position is shown or on its way |
| Groups plugin | members with roles; the client's roster | `join`, `leave`, `close` | publish, subscribe and list in one task, a socket that is gone | every roster is the membership |
| Browser connection (client.js) | socket, timers, subscriptions with reference counts, queue | connect, subscribe, send, close, visibility, zombie check | several causes for a reconnect | a way back until it is closed for good, all topics resubscribed, a true status, a queue flushed in order |
| Browser stores (client.js) | stores per topic and event, lists with timestamps | `on`, `once`, `scan`, `crud`, `lookup` | microtasks that clean up, ages | who is mounted hears, what is fresh stays |
| Channels, middleware, cookies, test harness, adapter build, scripts | | | | |

How they interact: the frames of a socket reach Subscriptions, Requests and the
application's hooks through one `message` handler; the close handler ends the
subscriptions and requests of a socket; Publishing reads the Sets that
Subscriptions keeps and the capabilities of the `hello` frame, and posts to the
primary, which forwards to the other workers; the primary's restarts end and
start everything a worker keeps.  Requests and coalesced sends of a connection
share its send buffer and its close, and are therefore one module.  A plugin is
called by the application's hooks and reaches its clients through
`platform.publish` and `send`; it is modelled with its client half, since what it
promises is what the client shows.

## Modules

| Module | Models | Checked by |
|---|---|---|
| `Subscriptions` | the subscription bookkeeping of a worker | runs Subscriptions, SubscriptionsResume; `SubscriptionsProofs` |
| `Relay` | publishing across workers | run Subscriptions; `SubscriptionsProofs` |
| `Pressure` | the sampler and its listeners | run Subscriptions; `SubscriptionsProofs` |
| `Connection` | `platform.request` and `platform.sendCoalesced` of one connection | runs Connection, ConnectionStall; `ConnectionProofs` |
| `Rpc` | both ends of requests over a browser's successive connections | runs Connection, RpcStray; `ConnectionProofs` |
| `TaskQueue` | the queue plugin | run Connection; `TaskQueueProofs`, `ConnectionProofs` |
| `Replay` | the replay plugin and its store | run Connection; `ConnectionProofs` |
| `Resume` | a client that resumes, the hook, the buffer it is answered from | run Connection; `ConnectionProofs` |
| `Admission` | the upgrade handler and `createUpgradeAdmission` | run Admission; `AdmissionProofs` |
| `UpgradeRate` | the limit on upgrades per address | run Admission; `AdmissionProofs` |
| `Ssr` | HTTP requests, rendering, the authenticate endpoint | run Admission; `AdmissionProofs` |
| `StaticFiles` | files and pages from memory | run Admission; `AdmissionProofs` |
| `Origins` | who the server takes itself for and whom it lets in | runs Admission, OriginPinned; `AdmissionProofs` |
| `Supervisor` | the primary thread and the life of its workers | runs Supervisor, SupervisorRestart; `SupervisorProofs` |
| `DevHandlers` | the handlers under the development server | run Supervisor; `SupervisorProofs` |
| `Presence` | the presence plugin and its client | run Supervisor; `SupervisorProofs` |
| `MapOrder` | the order of the keys of a `Map` or a `Set`, and what a filter leaves of a list | their runs; `MapOrderProofs` |
| `Lock` | the lock plugin | run Lock; `LockProofs` |
| `FifoMutex` | what the lock promises: lines of callers | implemented by `Lock` |
| `LockRefinement` | the mapping from `Lock` to `FifoMutex` | run Lock; `LockProofs` |
| `RateLimit`, `TtlMap`, `Throttle` | the plugins of these names; `TtlMap` is session and dedup | run Lock; `LockProofs` |
| `Client` | the connection of the browser client | run Client; `ClientProofs` |
| `Stores`, `Expiry` | `on`, `once` and `scan`; `crud` and `lookup` with `maxAge` | runs Client, LookupAge; `ClientProofs` |
| `Cursor` | the cursor plugin and its client | run Client; `ClientProofs` |
| `Groups` | the groups plugin and its client | run Client; `ClientProofs` |

An `MC` module puts the modules of one subject side by side.  They share no
state, so they are not interleaved: the variable `part`, chosen at the start, says
which of them moves, and what the others choose at their start is pinned.  A
property of the run is one of the main module, or one that the `MC` module names
again after it was instantiated; each speaks of the variables of its own module
and is trivially true while another moves.  Interleaving modules without shared
variables would add states and no behaviour; the cost of the form is that a
state count of a run is a sum.

An operator preceded by `(mutant: ...)` is a wrong variant of the operator after
it, of the kind a plausible bug would be: put in its place it makes the
property `PROJECT.json` names for it fail, which shows that the property looks
at that part of the code.

### Subscriptions

A call slot holds what a `message` handler or platform call has in its closure
while it waits for the hook: the socket and the topics that passed the checks
before the gate.  `Frame...`, `ServerSubscribe` and `CheckThenSubscribe` are the
code up to the await, `GateAnswers`, `CheckAnswers` and `ResumeAnswers` the code
after it.  A batch frame is several topics in one slot; its two awaits (the
batch hook, then the hook per topic) are merged, since nothing is written
between them.  `checkSubscribe` is followed by the application's own
`ws.subscribe` as its documentation shows; an application that calls
`ws.unsubscribe` itself is outside the model.  `crashed` is an exception that
leaves an async handler; Node ends the process on it.

### Relay and Pressure

An event is its origin, topic and sequence number, kept with the path it was
relayed on.  `Publish` and the slow path of `publishBatched` put events on the
relay batch, whose timer (`FlushRelay`) posts them; the fast path posts at once.
`Forward` is the primary, `Deliver` the other worker, which makes its own choice
between one shared frame and one publish per event.  `due` is what a loop of
`publish` would have given a socket.  A list is what `collapseByCoalesceKey`
left of it.  A worker that dies loses its batch; what it posted is delivered.
`{seq: false}` and the return value of `publish` are left out.

The sockets of the instance are all on `w2` (`AtW2`), which hears two others, and
subscribe through the gate (`RawTopics` is empty; see the disagreements below for
when it is not).  `From` filters by counting places (`Within`) and the events
published are counted as a set of numbers (`Stamps`), so that both can be reasoned
about.

In `Pressure` a sample is one task, but each listener's call is a step, because
the listener may throw, publish, or begin or end a registration: `telling` holds the
pressure listeners of the round that are still to be called, `reporting` the rate
listeners.  Beside a throw a call has at most one of these effects.  `publish` raises
the worker's count before it makes the envelope (`handler.js:1008`) and the topic's
after it (1028); a publish that throws in between, on data `JSON.stringify` refuses,
is in the first count and not in the second, and `refused` says how many of them
there are.  `PressureIsTold` is `WatchersKnow` and `RatesAreHeard`, for the two kinds
of listeners, and `CountsAgree`: the counts differ by `refused`.

In `Relay` every publish makes its envelope.  In the code one that throws has used up
a number of the topic's sequence and sent nothing, and a `publishBatched` that throws
at a later event has numbered and counted those before it and sent none of them.

### Connection and Rpc

`entries`, `armed` and `outcome` are the Map of pending requests, their timers
and their promises; `pending` is the Map of coalesced values in insertion
order; `buffered` counts frames, not bytes, in uWS's buffer.  uWS's send codes
are those of `src/testing.js:187`: 0 buffered, 1 sent, 2 dropped.  `Flush` runs
`drainCoalesced` with the code's own reading of these numbers.  A drain event
comes only when the buffer has shrunk.  `Request` covers a payload that cannot
be serialised (entry and timer are left to the timer) and a frame that is
dropped.  The close hook may make requests of its own, after the Map was
cleared (`FromCloseHook`).  A connection reads only its own user data, so one
connection shows what there is to see.

`Rpc` has what outlives a connection: the browser's running handlers (`tasks`),
and the numbers each worker counts (`nextRef`).  A browser that reconnects may
come to another worker.  A restarted worker counts from one again; that is one
more worker here.

### TaskQueue, Replay, Resume

A queue object is named by the push that created it, pushes are numbered in the
order they are made.  `Start` is `process()` up to its first await, `Settle` the
end of a task with the next `process()` and `cleanup()`.  `Settle` keeps the case
in which the key has another object by then, which `Sound` shows does not
happen.

In `Replay` the page is rendered with a sequence number, the store subscribes and
asks for what came after it, and frames travel in order until the connection
ends.  `excused` says when the store could not have what it missed: the buffer of
the topic was forgotten or cleared, which `truncated` does not tell it in every
case, or the subscribe hook is asynchronous (`slowGate`).

`Resume` takes the hook of `README.md:814`: it answers a resume frame from the
buffer.  A message is named by the platform's stamp, which is what the client
remembers; the buffer counts by itself.  `owed` is what the client should end up
with: all that was published while it was subscribed, or away with something to
present, or while its resume frame was not answered yet.  What is published between
that answer and the subscription is not in it (see below).  The property is claimed
for a hook that answers at once (`slowHook` false) and for a topic all of whose
publishes go through a buffer that was never forgotten (`apart` false).  `Receive`
keeps the possibility that `sessionStorage` refuses the id.

### Admission, UpgradeRate, Ssr, StaticFiles, Origins

`stage` says where the handler of an attempt stands, `unreleased` which attempts
have a slot to give back.  An iteration of the event loop is a "main" phase and,
when an immediate is set, a "check" phase in which `drain` runs; the calls of
one drain run synchronously and are one step.  Attempts are numbered in the
order they arrive.  All refusals (401, 403, 500, 503, 504) are one answer: the
properties count answers.  `bad` are attempts whose `res.upgrade` throws because
uWS refuses a header of the hook's answer.  uWS calls `onAborted` only before a
response is answered.  The hook answers or rejects; one that is not `async` and throws
before it returns a promise (`handler.js:3274`) is not modelled: the `.catch`
behind the call does not see the exception, which leaves the uWS callback and under
Node's default policy ends the process (`utils.js:1402`); where the application catches
it, the slot is held until the timeout or the client gives it back.

`UpgradeRate` is the entry of one address, in ticks of `cachedNow`, which the limit and
the sweep both read; `granted`, the upgrades let through up to each tick, is the history
its properties compare the estimate with.  The eviction of the least active depends on 10000 other addresses and is a
choice here; the rate is claimed for an address that was not evicted.

In `Ssr` every await is a place (`at`) where a request stands.  A kind is what
the handler tells apart: an anonymous GET, which may share a render, one with a
cookie, HEAD, POST, and the authenticate endpoint.  A page is the class of the
response, its chunks, and whether its stream fails at the end.  `state` and `pool`
are the pooled request states: one that is given back too early could be another
request's.  `misuse` records a response that is touched after it ended.

`StaticFiles` and `Origins` are mostly functions: the model chooses a cache, a
request, a configuration, and the properties compare the answer with a
definition of what it should be, over all inputs of the instance.

### Supervisor, DevHandlers, Presence

`life` is the worker's own thread, the other variables are the primary's.
Messages between them are FIFO, and of equal pending ones one is kept.  A
heartbeat tick counts for the 10 s interval, `MissedTicks` for the 30 s limit.
Node delivers what a dead thread had posted before its `exit` event, so `Exit`
waits for the port to be empty.  `Finish` is the force-exit timer, or the event
loop that has nothing left.  Both cluster modes are initial states.

In `DevHandlers` an instance of the handlers is named by its generation and a
module by the version of the source it was evaluated from.  `graph` is what the
module graph would give an import now, `queue` the chain of lifecycle tasks that
init and shut instances down.  A client is an upgrade, an authentication or a
frame, with the places where it waits.

In `Presence` a connection may be evicted at the cap, and an evicted one may be
counted nowhere while its socket is open: `torn` says that this happened, or that
`clear()` was called, and the exactness of counts and views is claimed until then.
`lossy[t]` are the sockets that lost a difference of the topic since their snapshot,
or so many heartbeats that a user who is there grew too old for the client's sweep;
`ViewHeals` is for them.  `MapOrder` is the order of the keys of a JavaScript `Map`,
which is what both caps evict by.

### Lock, FifoMutex, LockRefinement

A `KeyState` object is named by the call that created it, so that an entry of
the registry that was deleted and made again is another object: the code
compares nothing, which is why `Exclusive` stops at the first `clear()`.  The end
of `fn` and `advance()` are one step.  Nested locks are not modelled.
`FifoMutex` has a line of callers for every lock: where each caller stands and who
stands before whom.  The mapping gives every object its line, the holder before
the waiters that are not cancelled, these in the order of the queue.  `clear()` is
a step in which waiters of several lines give up together and nobody else moves.

### RateLimit, TtlMap, Throttle

Deadlines are ticks left, so that time needs no bound.  `granted` is what a key
was given in its window whether or not its bucket survived, and `Spent` counts it
point by point; `LimitHolds` is claimed for keys that are not in `spared`, those whose
bucket was never evicted by the hard cap, reset or unbanned.
`ban` takes a duration of its own, up to the bound `Longest`, and `Block` is
`blockDuration`; the 60 s that `ban` takes when there is neither are one such duration.
`crowded` has the same use in `TtlMap`.  In `Throttle` a message may be one that
`publish` throws at.

### Client, Stores, Expiry, Cursor, Groups

`ws` names one socket, `sock` holds the state of all that were made: the code
lets go of a socket, for instance one that is closing, without ending its
handlers.  `Event` is a task of the browser (timer, socket or page event), which
waits for the microtask of `subscribe` (`FlushSubscribes`); what application code
calls may come before it.  `waiting` counts the `doConnect` calls behind one
`authInFlight`; all of them go on in the microtasks after the preflight, so
`AuthSettles` is one step that may make several sockets.  `heard` is what a
server that applies the frames in order has of this socket.  `overlap` is a
history variable: `doConnect` went on while an earlier socket or preflight was
not over yet.  The constructor either always throws (a bad url) or never.  The
callbacks of stores are taken not to call the connection.  Topics with the `__`
prefix never reach the wire and are left out.

`Stores` has one topic with its wrappers; a store is a number, so that one that
was replaced in the map is another one.  `Expiry` counts ages in sweeps and
tells a number from its text, because a Map does and an object does not.  What a
client shows in `Cursor` and `Groups` is as of the last frame sent to it: between
sending and showing there is only a FIFO connection.  `Groups` keeps a bag of
roles, as the client does; `refused` and `stale` mark members for whom the code's
own behaviour breaks the roster (see below).

## Runs

| Run | Instance | Shows |
|---|---|---|
| Subscriptions | 2 sockets, 2 topics, 2 calls at the gate, cap 1 | `BooksAgree`: counter, Set and topic tree (`TypeOK`, `TotalExact`, `TrackedIsDelivered`); `Gated`: nothing unauthorized, cap held (`OnlyAllowed`, `CapHolds`); `ClosedSetIsFrozen` |
| | 3 workers, 1 socket, 2 topics, 2 events, lists of 2 | `RelayIsAPipe`: nothing lost, doubled, reordered or echoed per origin and path; `SameAsPublishLoop` |
| | 2 pressure listeners, 2 rate listeners, 2 publishes | `PressureIsTold`: `WatchersKnow`, `RatesAreHeard`, `CountsAgree` |
| Connection | 2 requests with room for 1, or 3 keys with room for 2; a buffer of 1; 2 values per key | `SettlingIsSure`: a waiting promise has its entry and its timer (`EntriesAreWatched`); `RequestsSettle`; `LatestGoesOut`: `LatestKept` and `FreshOnly` |
| | 3 requests over 3 connections to 1 worker | `RepliesMatch` |
| | 5 pushes, 1 drain, 2 keys, 2 running, 2 waiting | `QueueBooks`: objects, slots and drains; `QueuesDrain`: start order, drains resolve |
| | 2 topics for 1 buffer of 2, 3 messages, 1 stop | `Gapless`, `GoesLive` |
| | 4 messages, a buffer of 2, 2 lost connections | `Gapless`: `GapIsFilled`, `ReplayedFirst` |
| Admission | 4 attempts, cap 3, budget 1 | `SlotBooks`, `OneAnswer`, `SlotsReturn`, `InOrder` |
| | an anonymous GET beside a request of every kind; 7 responses; bodies of 1, a pool of 1 | `HttpIsSound` (`HttpBooks`, `OneAnswer`, `WholeBody`), `HandlersEnd` |
| | 1 address, a limit of 3 in 3 ticks, 9 instants, 1 eviction | `DecisionsAreRight`: `NotDoubled`, `RefusedWithReason` |
| | a file of 3 bytes, a page of either form; all configurations and header values | `DecisionsAreRight`: `StaticIsRight`, `OneOwnOrigin` |
| Supervisor | 2 workers, 2 restarts, both modes | `Manned`: `Staffed`, `AcceptsIffServed`; `OnlySilentTerminated`; `Recovers`: `HungIsRemoved`, `ServiceReturns` |
| | 1 client, 1 save, a repair, a retirement | `OneInstance`, `HooksWhileUp`, `SavesTakeEffect` |
| | 3 connections of 2 users with room for 2, 1 lost frame | `PresenceIsTold`: exact counts, current views; `ViewHeals` |
| Lock | 4 calls, 2 keys with room for 1, 2 waiters, 1 clear | `Sound`; `ImplementsLine`: `Lock` implements `FifoMutex`, fairness included |
| | 2 keys with room for 1 bucket, bans of up to 4 ticks; 4 ids with room for 2; 3 topics with room for 2 | `LimitsAreKept`: `LimitHolds`, `LivingAreKept`, `LastGoesOut` |
| Client | 3 socket slots, 1 topic with 2 references, 2 attempts, a throttled close that jumps to 1, a queue of 2, 3 messages when there is no subscriber, 2 calls behind a preflight; with and without preflight and a bad url | `ConnectionIsKept` (`NeverStranded`), `NoResurrection`, `Resubscribed`, `ShownAndKept` (`StatusIsTrue`, `QueueKept`) |
| | 3 wrappers, 2 events; 2 items, age 2 | `MountedHear`, `FreshStay` |
| | 2 movers and 1 viewer on 1 topic, 1 mover on 2; 3 sockets in a group of 2 | `CursorsArrive`, `RosterIsMembership` |
| SubscriptionsResume, ConnectionStall, RpcStray, SupervisorRestart, OriginPinned, LookupAge | the smallest that show it | the findings below |

The first property of a part also holds its types and the bounds of its tables
(queue lengths, caps, budgets).  Bounds: the caps of tables that evict or refuse
are passed by one more caller (the connection and topic caps of the cursor plugin
excepted: two are allowed and two come), every queue holds two so that an order
can be wrong, every process has a rival.  Events are two because a third only
repeats a pair: order, loss and duplication are about two events of one origin;
replay has three because its ring of two has to wrap around, resume four so that
the ring also overflows, and two losses so that a resume is itself lost.  The rate of
upgrades has time for two rotations of its window and for an idle one to expire.  Two workers are
enough for a last one and a last but one; two restarts for a backoff and a
limit.  Three sockets are one that is current, one that is closing and one that
is closing longer; the topics of the client do not meet each other, so one will
do.  One save is enough for a load that is superseded and a module graph that is
stale.  Where two kinds of actors only share a socket, a behaviour has few of one
kind: queued messages or subscribers, both requests or all keys, two
movers or two topics; the `MC` module says so at its `PartsNext`.  Symmetry is used only in runs without liveness
properties.  `CHECK_DEADLOCK FALSE` everywhere, because every instance may use up
its calls and stop; in the code, too, an idle server is no error.

Fairness is assumed only for what the runtime owes: timers fire (`Timeout`,
`Heartbeat`, `Restart`, presence's `Flush` and `Sweep`), immediates run and the loop
turns (`LoopTurns` of Admission), ports deliver (`Registered`, `Ack`, `Exit`,
`Answer`, `ShutDown`), a lock holder and a task end (`FinishAndPromote`, `Settle`:
the plugins bound neither and say so), a worker that neither hangs nor dies gets
through its start, and in Connection the client reads (`Drain`).  In Ssr a handler
that need not wait for the client goes on (`Progress`: a render and a stream end,
and where the client may stall, the deadline of the drain does its part).  In
Replay the frames of a connection that stays are delivered.  In DevHandlers the
current load and the queue of lifecycle tasks go on; hooks that never return
are cut off by the 30 s deadline.  No hook, client or reply is assumed to be fair
otherwise.  Where the behaviours of a part are finite, the `MC` module asks weak
fairness of its steps together, which is then the same as of each.

## Findings

Each is a `violation` run whose trace TLC prints.

* **SubscriptionsResume**, `handler.js:3620`: after the awaited resume hook the
  acknowledgement is sent without a guard; if the socket closed meanwhile the
  exception leaves the async handler.  `README.md:936`: "Other connections and
  the server process are unaffected".
* **SupervisorRestart**, `index.js:135`: any registration clears all restart
  timers; of two workers that die close together one is not replaced.
  `README.md:3379`: "If a worker crashes, it is automatically restarted".
* **ConnectionStall**, `utils.js:374`: result 1 is read as backpressure and is uWS's
  success, so a drain event sends one value and stops; with an empty buffer no
  further drain event comes.  `README.md:1232` promises "eventually receiving the
  latest value".
* **RpcStray**, `client.js:1110`: the answer of an `onRequest` handler goes out on
  the socket of that later moment; another worker's request of the same number
  is resolved with it.  The comment at `handler.js:3566`: "a stray reply from one
  connection cannot affect another".
* **LookupAge**, `client.js:431`: `lookup` stamps its initial items under texts and
  every event under the raw id, so with numeric ids a fresh item is removed.
  `client.js:394`: entries that "haven't been created or updated within that
  window".
* **OriginPinned**, `utils.js:870`: the origin check of upgrades never looks at
  `ORIGIN`, so the documented setting for a proxy that terminates TLS refuses the
  site's own pages.  `README.md:228`.

### Other disagreements met

In the models, too, where a module is named; the properties named fail there,
or except the case, but no listed run repeats them.

Server:

* `StampedOrder` (`Relay`): a `publishBatched` is posted at once (`handler.js:1642`)
  and overtakes a `publish` that waits for the relay timer (480); the comment at
  1495 promises the subscriber-side order across batches.
* `SameAsPublishLoop` (`Relay`) with `RawTopics` not empty: a socket the application
  subscribed with `ws.subscribe` (`README.md:931`) is invisible to the walk at 1570
  and gets, or misses, events of a shared frame.
* The comment at `handler.js:1481` and `README.md:1571` say receiving workers see one
  relayed publish per event; they are handed the list (1642, 3859).
* `StoppedStaysStopped` (`Supervisor`): a worker that registers after the shutdown
  began makes the acceptor listen again (`index.js:138`); `README.md:629`.
* `GoodCallSends` (`Connection`): a value `JSON.stringify` refuses stays at the head
  of the Map and every later call and drain throws at it (`handler.js:976`).
* `SlotBooks` and `SlotsReturn` (`Admission`) have to leave out the attempts in
  `bad`: a deferred upgrade call that throws is logged (`utils.js:704`) and its slot
  is never given back, where `utils.js:713` makes the caller responsible.
* `utils.js:700` resets the budget only in `drain`, so up to twice `perTickBudget`
  upgrades run in one loop iteration; `README.md:491` says `perTickBudget`.
* Requests of the authenticate endpoint are not in `inFlightCount`
  (`Ssr`), so the shutdown at `handler.js:3799` does not wait for them.
* `handler.js:573` calls `computeTopPublishers` without thresholds, which throws; the
  warning about too many topics never names its top publishers.  Read, not
  modelled.
* A `Host` of the form `name:` passes `originFromHeaders` and not `isOriginAllowed`; a
  redirect of a static page names the decoded path.  Below the grain of `Origins`
  and `StaticFiles`.

* A resume hook that awaits (`Resume` with `slowHook`: `GapIsFilled` and `ReplayedFirst`
  fail): the comment at `handler.js:3604` says the hook is awaited so that no live
  event gets ahead of the gap, and `README.md:825` that the client resubscribes after
  `resumed`; the client sends its subscribe-batch right behind the resume frame
  (`client.js:1012`, 1023) and the server handles it meanwhile.  What arrives live
  then moves the number on, and the gap is lost with the next connection.
* What is published between the answer to a resume frame and the subscription is
  given to nobody (`Resume`), with any hook.  Platform and buffer number alike only
  while every publish goes through the buffer and it is never forgotten (`apart`).
  Read: `onReplay` no longer listens when the documented hook answers on its channel.
* `upgradeRateLimit` (`UpgradeRate`): the window starts at the request that finds the old
  one over, so that an address idle for nearly two windows is charged all of the
  older; within one window nearly twice the limit may pass, as the older fades.
* Read, not modelled: `start` listens before it awaits the init hook
  (`handler.js:3768`), so that outside the acceptor mode connections open during
  init, where `test/init-shutdown-hooks.test.js` says init comes first; `shutdown` awaits its hook
  without a limit before it closes the listen socket (3808), where `README.md:629`
  says it stops accepting first and waits at most for `SHUTDOWN_TIMEOUT`; an upgrade
  whose hook is pending at that time opens afterwards and is not closed with 1001;
  `process.exit` follows the `sveltekit:shutdown` event at once (`index.js:341`),
  whose example at `README.md:636` awaits.

Plugins:

* `plugins/lock/server.js:173`: a holder that `clear()` passed over deletes the
  registry entry of whoever came after, and the next caller then runs beside it;
  the comment at 280 says it will "no-op", `test/lock.test.js:393` that "a later
  entrant does not get clobbered".  For this reason `Exclusive` stops at the
  first `clear()`, not only for those who came before it.
* `plugins/lock/server.js:228`: waiters that have timed out count against
  `maxWaitersPerKey`; `README.md:3082` says "a timeout never blocks the queue".
* Throttle (`Throttle`): a `flush` whose `publish` throws leaves the state's timer
  set, and no timer behind it; the topic stays silent.
* Rate limit (`RateLimit`): `ban` makes buckets beyond `maxBuckets`, which is called a
  hard cap.
* Presence (`Presence`): evictions at the caps leave counts that are off and users
  nobody removes; `leave` of a topic returns before `ws.unsubscribe` when the user is
  not listed.  Read: `presence('room')` alone shows nobody by default, because
  subscribe frames for `__` topics are refused (`README.md:2589` against 899), and
  no hook handles the `presence-snapshot` message that `presence/client.js:214` sends.
* Cursor (`Cursor`): evictions leave positions on the viewers' screens; the sweep
  (`cursor/client.js:112`) forgets the user too, whose join is sent once
  (`cursor/server.js:476`), so a mover who rests longer than `maxAge` is never seen
  again, where lines 42-43 say the Map updates by itself.
* Groups (`Groups`): a join by a socket that has closed announces the member and
  takes it back without a leave (`groups/server.js:169`).  In a cluster the joins are
  relayed while the list is each worker's own.
* Replay (`Replay`): with an asynchronous subscribe hook the answer may overtake the
  subscription (`replay/client.js:36`); a lost end marker or a reconnect leaves the
  store silent; a buffer that was forgotten leaves a gap nobody tells.  The example
  at `README.md:2273` reads the messages before the number.

Browser client:

* `client.js:1128`: a close event clears `ws` whichever socket it comes from; when
  two attempts overlap (936 lets a closing socket pass, 940 lets every caller
  behind the preflight open its own), the `onopen` of the other socket empties the
  queue into nothing.  `client.d.ts:588`: "Queued messages flush automatically on
  reconnect (FIFO order)".  `ShownAndKept` holds until attempts overlap.
* `client.js:1269`: a topic released in the task that subscribed it sends its
  unsubscribe before its subscribe, and stays subscribed on the server; the
  comment at 109 says the release is seen by the server.
* `client.js:1158` with `maxReconnectAttempts` of 5 or less: a throttled close
  jumps past the limit and the connection is closed for good; `README.md:1952`
  says "Reconnect is still scheduled".
* The close of an older socket arms a reconnect after the newer one was refused
  for good (`client.js:1165`); `NoResurrection` has to except it.
* The public `unsubscribe(topic)` leaves mounted wrappers whose later release gives
  back a reference that is not theirs; a `scan` that mounts again folds from where
  it stopped while another subscriber keeps the topic.  Read, not modelled.

## Proofs

The theorems hold for every value of the constants that satisfies the `ConstantsOK`
of the module (finite sets, positive bounds); `RpcConstantsOK` says as well that there
is one worker, and the run RpcStray shows that two would break the theorem.  Nothing
else is assumed.  Each proof has one inductive invariant, `IInv` (or, of a part of a
composition, `RpcInv`, `ReplayInv`, `ResumeInv`, `RateInv`, `TtlInv`,
`ThrottleInv`, `UpgradeRateInv`, `FilesInv`, `OriginInv`, `DevInv`, `PresenceInv`, `ExpiryInv`, `StoreInv`, `CursorInv`, `SamplerInv`,
`RelayInv`): a lemma for the initial states, one
per action that it keeps the invariant, and the theorems that follow from it.  What the invariants
have to add to the properties, and why:

* **`SubscriptionsProofs`** (`BooksAlwaysAgree`, `GateAndCap`, `ClosedSetStaysFrozen` and
  their parts by name).  `Shape` (types, with `total` only an integer, so that
  `TypeOK`'s `total \in Nat` can be derived from the next part), the counter equals
  the number of tracked pairs, the Set equals the tree for open sockets, both are
  within what gates allowed, and Sets are within the cap.  The counter is a
  cardinality over pairs; lemmas split it into the column of one socket, which is
  what a step changes.  The re-check after the await is what makes `GateKeeps` go
  through: without it a topic that is already in the Set would be counted again.
* **`Pressure`, in `SubscriptionsProofs`** (`EveryWatcherIsTold`).  A listener that is not in
  the round that is going on knows the reason of the snapshot already; a rate listener
  that is not in the round that is going on was told of the topics of this sample, and
  the two rounds do not overlap (`RatesInv`); the total is the cardinality of the pairs
  of a topic and a number up to its count, and the refused publishes besides; the log
  has an entry per topic, no more than its cap.
* **`Relay`, in `SubscriptionsProofs`** (`RelayLosesNothing`, `SharedFrameIsALoop`).  `RelayInv`
  says who published what is on its way (`Postmarks`): on the batch of a worker are its
  own events by `publish`, which is why a posted `publishBatched` may pass it and each
  path is still in order; what is posted to a worker is never its own.  Then each step
  is a law of four lines one after the other (`Way`): the batch grows at the end
  (`BatchGrows`), a message is posted past it (`PostedPast`), the batch becomes a message
  (`BatchPosted`), the primary moves a message on (`ForwardedOn`), a worker takes one
  (`DeliveredTo`), and events of others pass by (`OthersPass`).  That joining lines joins
  what is in them (`FlattenJoins`, `WithinJoins`) is shown by climbing along the recursive
  function that `FlattenSeq` is.  The shared frame is a loop because the Set of a socket
  is what uWS has for it: whoever is interested has all the topics, and the others none.
* **`LockProofs`** (`LockIsSound` and its parts, `AnsweredOnce`, `ArrivalOrder`).  An
  object runs exactly while one call holds it; a waiter stands in the queue of a
  running object, once, and every queue entry is a call that waits or was cancelled
  there; a registered object runs for its own key; and until `clear()` is used every
  holder's object is the registered one, which gives mutual exclusion per key.
  `StepsOfTheLine`: every behaviour of `Lock` is, through the mapping, one of the
  safety part of `FifoMutex`.  `LeaveStep` and `JoinStep` say what has to be shown of
  a step: who stands where, and that among those who stay nobody passes anybody.
* **`RateLimit`, `TtlMap` and `Throttle`, in `LockProofs`** (`PluginsKeepTheirLimits`).  For a
  key that was not spared, the points granted since its bucket was last filled and those the
  bucket has left are no more than one filling, and the whole interval holds no more
  than another one besides; an idle bucket has no grants of an earlier filling left in
  the interval, which is why the sweep may forget it and a new bucket may start full
  (`Owes`, `FillingIsAllowed`, `IdleIsSpare`).  The points of a stretch are the
  cardinality of a set of pairs, one for each point, so that the lemmas about them
  (`TotalSteps`, `TotalAdds`, `TotalShifts`) need no induction but counting up (`Climb`).
  Of `TtlMap`, no id stands twice in the Map, so that a line of ids that live is no longer
  than the set of them (`LineFits`) and the pruning cuts into the living only when there
  are too many.  Of `Throttle`, a topic without a timer has nothing that waits, and what
  waits is the last message given, so that what an eviction or a flush puts out is
  never an old one; a timer is "over" only after a throw.
* **`AdmissionProofs`** (`BooksAreKept`, `AnswersOnce`, `QueueInOrder`).  A slot is held by
  every handler that waits, and only in stages from which it will be given back; a
  timer is armed only for a hook; the queue is ordered, without repetition, of
  deferred attempts, and non-empty only when the budget of this turn of the loop is
  spent.  The last is why a newcomer cannot overtake the queue.
* **`Ssr`, in `AdmissionProofs`** (`HttpSoundness`).  Every pooled request state has one
  owner, the pool or the handler that works with it, and one that is free is clean.
  For every place of `at` there is what the handler may know there of its response:
  before the headers nothing is written, while it sends, what went out is what was
  written of the page so far, and a response that ended is one whose handler
  is past the writes.  A follower's leader renders the page the follower waits for and
  is named by the dedup table, so that its end reaches all of them.  `inFlight` is the
  number of handlers that are in progress.  That a new request finds a state of its own
  is by counting: there are as many as requests.
* **`UpgradeRate`, `StaticFiles` and `Origins`, in `AdmissionProofs`** (`DecisionsSoundness`).
  Of `UpgradeRate`, what is over does not change, so that one more upgrade has to be
  weighed only against the stretches that end now.  The entry tells the truth about
  them in both directions: what it counts was granted, in its own window and the two
  before it (`CountsNoMore`, whatever was evicted), and what was granted since its window
  began, or less than a window before it, is counted (`CountsNoLess`, unless it was
  evicted).  Both survive a rotation because nothing is granted once the entry's
  window is over and the entry was not looked at (`QuietSince`).  The rest is the
  arithmetic of the estimate, for any limit and window: a stretch of less than a
  window meets at most two of them.  Of `StaticFiles`, the answer belongs to the
  request, and each spelling of a page's path is followed to where it is stored, for any
  sets of files and pages, even overlapping ones, and any manifest.  Of `Origins`, the
  two derivations of the server's own origin are compared for every configuration
  and header.  What is assumed is that `None` is no page and no number, and `Bad` no
  origin.
* **`ConnectionProofs`** (`RequestsAreWatched`, `LatestValueGoesOut`).  A pending promise
  has its entry and its timer, also when the frame was dropped; the Map of coalesced
  values has one value per key, the newest given, within the cap.  What a flush sends
  is a prefix of that Map, so nothing older than the newest can follow it.  `Greatest`
  is by the library's induction on finite sets: the place where a flush stops.
* **`TaskQueueProofs`** (`BooksAreKept`, `StartsInOrder`).  Items of a queue object wait
  and were pushed to it, in order; they are there only when the limit is used up, so
  that one `process()` after an end starts at most one task; an object's counter is
  the number of running tasks that were pushed to it; a push that has not been made
  is in no table; what a drain covers and has not ended, it still awaits.
  `ConnectionProofs` instantiates these theorems for the composition: `QueueBooksHold`
  states the property of the run, and the run's ASSUME is the `ConstantsOK` of the
  instance.
* **`Rpc`, in `ConnectionProofs`** (`RepliesAreOwn`).  The counter of the worker is one
  more than the number of requests ever made, every request has a number at most that,
  and no two have the same; a handler runs only for a request that was made.  So the
  entry a late reply finds on whatever connection is that of its own request, or none.
* **`Replay`, in `ConnectionProofs`** (`NothingIsMissed`).  Three facts meet.  The ring of a
  topic holds its newest messages, in order, from `start` on and around the end
  (`Window`; `PlacesOfWindow` has the arithmetic of the remainders).  Since the page was
  rendered, the buffer has counted what the platform has, so that what is newer than
  `since` is newer than `loaded` (`CountsAgree`).  And a store is in one of four
  situations (`Story`): idle; asking, where all that comes is live and is dropped;
  answering, where the frames on their way are live ones to drop, the answer up to a
  last message, the marker, and live ones that follow that message (`Pending`); or live.
* **`Resume`, in `ConnectionProofs`** (`NothingIsMissed`).  The buffer is in order and, while
  the counts agree, consecutive up to the last stamp (`Numbered`); a resume frame
  has the subscribe frame behind it and no message before its answer (`Talks`); with a hook that
  answers at once all that carries a message is in order, from what was put out to what
  is on its way (`Orderly`); and what is owed was put out, is on its way, is newer than
  what was seen while the resume frame still waits, or is admitted missing by a
  'truncated' that no live message precedes (`Filled`).  The last part is what makes a
  second loss harmless: `lastSeen` does not pass over an answer that never arrived.
* **`SupervisorProofs`** (`ClusterIsManned`, `TerminationIsDeserved`).  Workers, timers of
  restarts and their attempts add up; the acceptor listens iff a registered worker is
  there; a dead thread has nothing left to say when its slot is taken again; the
  attempts are within the limit while the process is up; whoever is silent beyond the
  limit did not answer a heartbeat it was sent.
* **`DevHandlers`, in `SupervisorProofs`** (`OneInstanceAtATime`, `HooksOnlyWhileUp`).
  Where the operation at the head of the queue stands says which instance runs: the
  served one while it has not started, none while another one is shut down, the new
  one during its init.  A generation is enqueued at most once and not settled before it
  was at the head, so that settled handlers that did not fail are there, and a hook is
  never called without one.  That `Generations` has room for every reload is part of
  the invariant: one for each save, one for each import that was superseded, since a
  repair needs a late import and supersedes none, and one for the close.
* **`Presence`, in `SupervisorProofs`** (`PresenceIsKept`).  What waits to be told of a
  user is true of it: who joins is there, with that data, and who leaves is gone.  So
  a flush makes whoever receives it agree, and the last of several operations of a
  turn is the one to keep.  A client that missed nothing never has a user who is there
  and is older than `maxAge`, so that its sweep takes only who is gone; this is where
  `lossy` has to name the sockets that missed that many heartbeats.  What is left in
  the order of a `Map` is found by counting places: `MapOrderProofs` shows that there
  is an n-th one among those that stay (`NthIsOne`, with the least of a set of places),
  so that the rest is again an order, and no longer.
* **`ClientProofs`** (`NeverLost`, `SubscriptionsAreKept`, `StatusAndQueue`, `EndIsFinal`).
  Until attempts overlap there is at most one of: a socket that is not over, a
  preflight, an armed timer; after `close()` there is none; an open socket has been
  flushed, so its queue is empty, and the frames it was sent and those of the
  microtask give what the page references.  `QueueKept` is stated by order and range
  (all the numbers given that a full queue did not drop, increasing), which is what
  the lemmas `KeptAppend` and `KeptTail` on sequences can be proved for.
* **`Groups`, `Expiry` and `Stores`, in `ClientProofs`** (`RostersAgree`, `FreshItemsStay`,
  `MountedAreTold`).  Of `Groups` the property is inductive as it stands; the lemmas are that one member more or less is
  one more or less of its role, so that the frames told and the Map stay in step.  Of
  `Expiry`, where ids are texts no stamp is under a number, and the stamp is as old as
  the item.  Of `Stores`, the maps name the store of every mounted wrapper, and never
  one store under two keys, which is why whoever an event is meant for is called, and
  nobody else; that a new store is one nobody names needs a name that is free
  (`FreshIsNew`, by counting) and the least of them (`Least`, by well-foundedness).
* **`Cursor`, in `ClientProofs`** (`LatestPositionsArrive`, `PositionsArrive`).  Keys are never
  shared, so that who leaves takes only its own positions along; a mover has an entry
  wherever it moved (`Entered`); who watches knows the user of every entry or swept it
  (`UsersAreKnown`), without which a position could arrive and not be shown; and what waits
  for the tick is the latest position unless the entry's own timer holds a later one
  (`LatestWaits`), without which a frame could put an old position over a new one.

Theorems about a main module are about its own `Spec`, those about the other parts
about the `PartsSpec` of the composition (`LatestPositionsArrive` about `CursorSpec` itself,
which the composition limits to one key or one topic at a time).  The runs check the same formulas on
the behaviours of `PartsSpec` in which the module moves; in the others its
variables keep an initial value.  Every inductive invariant
was also checked by TLC as an invariant, on the instance of its run.

Only model-checked: everything about fairness (`Recovers`, `QueuesDrain`,
`RequestsSettle`, `SlotsReturn`, `HandlersEnd`, `GoesLive`, `SavesTakeEffect`,
`ViewHeals`, and of `ImplementsLine` that everyone has a turn), which the prover does
not reach.  Every invariant and every safety property of the passing runs is the
subject of a theorem.

## Not modelled

`PROJECT.json` lists every component.

* Not yet: the client's failure store, a resume across a restart of the server (the
  numbers start again), what `scan`, `count` and `latest` make of an event, `clear`,
  `list` and `stats` of the cursor plugin, `send` and `sendTo`, the single-process
  mode of `index.js`.
* Not meant to be: the loader modes of the development server other than Vite 6 with
  the compatibility loader, and its platform methods, which repeat the production
  ones; channels and middleware, which keep no state; cookies, headers and other text
  handling, which has no interleaving; the test harness, a double of the server; the
  adapter's build, scripts and benchmarks.  Wire formats are records.

## Plan

Done: the modules above; the abstract specification `FifoMutex`; proofs of
`Subscriptions`, `Lock` with its refinement, `Admission`, `Connection`, `TaskQueue`,
`Supervisor`, `DevHandlers`, `Presence`, `Client`, `Rpc`, `Replay`, `Resume`, `Ssr`, `Groups`,
`Stores`, `Expiry`, `Cursor`, `RateLimit`, `TtlMap`, `Throttle`, `Pressure`, `Relay`,
`UpgradeRate`, `StaticFiles` and `Origins`.
Next, in this order:

1. `Resume` with restarts of the server, and composed with the gate of
   `Subscriptions`.
2. `collapseByCoalesceKey` against a reference definition.
