# A TLA+ verification project for oRPC

oRPC is a TypeScript RPC framework: a monorepo under `packages/` with a shared
core, a client, a server, an OpenAPI stack and many adapters and integrations.
This directory holds TLA+ modules that model the parts of it whose correctness
depends on the order of events, TLC configurations that check them on small
instances, and TLAPS proofs of the central properties. `PROJECT.json` lists, for
machines and for readers who want to follow a definition to its lines: the
components, the runs, the source lines of every definition (`map`), a mutation
of the code that every property catches (`mutants`), the hazards and the theorems.

- [1. The system](#1-the-system)
- [2. Modules and code](#2-modules-and-code)
- [3. Runs](#3-runs): what is checked, the bounds, and why they are enough
- [4. Fairness](#4-fairness)
- [5. Proofs](#5-proofs)
- [6. Where the code does not keep a promise](#6-where-the-code-does-not-keep-a-promise)
- [7. What is not modelled](#7-what-is-not-modelled)
- [8. Plan](#8-plan)

## 1. The system

A client calls a procedure through a *link*. The link encodes the call, runs its
interceptors and plugins (retry, dedupe, batch, ...) and hands the request to a
*transport* (fetch, websocket, message port). On the server a *handler* decodes
the request, matches a procedure in the router and runs its middleware. A result
may be a stream of events, an async iterator, that the transport carries event by
event; events may have ids, with which a client that lost its stream resumes it.
A *publisher* is the usual source of such streams: `publish` on one side, an
iterator from `subscribe` on the other, and an adapter (memory, Redis, Upstash,
Durable Object) between them that retains events so that a subscriber can resume.

JavaScript runs one callback at a time, to its next `await`. What interleaves is
the code between awaits, of several callers, with timers, sockets, aborts and user
callbacks; and, between processes, commands to Redis.

| component | state it keeps | operations | what is hard about it | what makes it correct |
|---|---|---|---|---|
| `shared` `AsyncIdQueue` | open ids, buffers, waiters | open, push, pull, close | a waiter beside a buffered item, callers stranded by close | n-th pull gets n-th item; close strands nobody |
| `shared` iterators | replicas, the loop that reads the source | replicate, next, return | cancelling one replica while others read | all replicas see the source; it is released with the last of them |
| `shared` interceptors, signals, plugin order, streams | chain index, once flags, visit marks | intercept, onFinish, allAbortSignal, sortPlugins | an abort that races the result, cycles of plugin orders | callbacks once, with the right outcome; a valid order or an error |
| `publisher` memory adapter | listeners, buckets of events, ids | publish, subscribe, resume, unsubscribe, clean-up | the join of the replayed and the live part, lazy clean-up, binary searches | a subscriber sees every event after its id once, in order, for the window |
| `publisher` `subscribe` | buffer, waiting pulls, terminal state | deliver, next, return, abort, error | abort before `subscribeListener` resolves, a full buffer | only overflow loses; nobody waits in vain; every end unsubscribes |
| `publisher` Redis (and `bun`) | listeners, windows, connections | publish with trimming, subscribe with resume | two connections, several processes, refused transactions | events retained for `resumeSeconds`, none twice, in order |
| `publisher` Upstash | listeners, subscriptions, pending subscriptions | subscribe, unsubscribe | waiting for the pending attempt of another caller | one subscription per event, closed with its last listener |
| `cloudflare` Durable Object | sockets, SQLite events, alarm, fields that eviction loses | publish, resume, alarm, reset, evict | ids that restart after a clean-up, eviction between any two steps | resume misses nothing and repeats nothing; an idle object is emptied |
| `client` websocket transport | current peer, attempt counter | send, connect, reconnect, give up | many callers find the connection gone | one attempt, one socket; every call settles |
| `client` retry plugin | attempt, last event id, current stream | call, delay, reconnect, return | a return in the middle of a reconnect | no gap, no leak, a bounded number of calls |
| `client` dedupe plugin | queue per group | enqueue, process, execute, resolveBody | callers that abort, replicas that are never read | aborted together, one replica each, everyone settles |
| `client` batch plugin | queue per group, a peer per batch | enqueue, process, split, send, deal out | splitting after the peer was made, members that abort | sent once, aborted by all, everyone settles |
| `server` handlers of peers | peers by socket, Blobs that load | message, close | messages while a Blob loads or a peer closes | messages in order; no peer outlives its socket |
| `server` matchers and lazy routers | index, pending parts, loads | match, load | requests that meet a part in the middle of its load, or after a failed one | no procedure is overlooked; every match settles |
| `server` procedure client, builder, router middleware | middlewares with the lengths they were used at | use, call, next | order of validation and middleware, next called twice, errors on the way | each schema once and in order, errors defined exactly when accepted |
| `server` batch plugin | a peer per batch, stream, keep-alive timer | check, split, join, stream, cancel | members that fail or go on while the stream ends | every member is answered; the timer lives as long as the stream |
| other plugins of server and client | little | filter headers and bodies | their order only (`shared` plugin order) | |
| `ratelimit` limiters | windows and counters, script cache | limit, block until reset | callers that wake together, a Redis that restarts | never more than the limit in a window; every call answers |
| `ratelimit` middleware, handler plugin | results in the context | check, merge into headers | nested and parallel calls, results without a remainder | a limit is charged once on a path; the headers name the scarcest |
| `client` RPC serializer, `openapi` bracket notation | none | serialize, deserialize | types within types, containers that change their kind | what goes comes back |
| `openapi` codecs of link and handler | none | encode, decode, both ways | a dozen styles, two structures, values that leave nothing behind | what is sent arrives, or is refused |
| `openapi` component names | names, schemas | hoist definitions | cycles, two directions, wanted names that collide | a component means what its definition meant, none is there twice |
| `json-schema` coercer | none | coerce | unions, references that lead back | what is right is untouched, what is accepted is allowed |
| other `openapi`, schema converters | none or caches | encode, generate | data | inverse translations |
| `node` multipart, uploads | parser state, files, counters | write, finish, clean up | chunks that break anywhere; failure and cancellation at every step | the form that was sent; no file is left, none is taken too early |
| `node` static files | none, the file system | serve, range, conditional | files replaced between requests | one download is of one version |
| integrations of query libraries and frameworks, logging, `hibernation` | little | adapters over the above | belongs to the other framework | |

How they interact: the websocket transport and the batch plugin use the
`ClientPeer` of `@standardserver/peer`, which numbers requests and settles their
promises. `replicateAsyncIterator` builds on
`AsyncIdQueue` and the dedupe plugin on `replicateAsyncIterator`. The retry plugin
wraps everything else of a link. `Publisher.subscribe` is above each adapter.

The libraries `@standardserver/shared`, `core` and `peer` are not in the
repository. What the modules assume of them is in their head comments and marked
external in the map: an `AsyncIteratorClass` runs its `next` calls one after
another, its `return` may run beside one of them, and the first of the two that
ends the iteration runs the clean-up, once.

## 2. Modules and code

An action is one synchronous stretch of code: a method, a handler, or the part of
an async function between two awaits. Its guard is what the code tests, and it
changes everything the code changes there. Promises are variables that hold how
far they are (`pending`, settled with what). History variables are named as such
where they are declared; the code's decisions never depend on one.

| module | code | state and actions |
|---|---|---|
| `AsyncIdQueue` | `shared/src/queue.ts` | `openIds`, `queues`, `waiters`; one action per method; the promise of a pull is `status`/`got` |
| `ReplicateIterator` | `shared/src/iterator.ts` | extends `AsyncIdQueue`, one id per replica; `loop` is the control of `start`, one action per await of it, and `next`, `return` of each replica with their clean-up |
| `MemoryPublisher` | `publisher/src/adapters/memory.ts` | `publish` is a walk over the listeners, one callback a step, so that callbacks can unsubscribe in between; clean-up is part of the publish and subscribe that do it |
| `BinarySearch` | the same file, 141–184 | one action per turn of the loop of the two searches |
| `SubscribeIterator` | `publisher/src/publisher.ts` | listener, abort, error and the promise of `subscribeListener` against one consumer |
| `ResumeWindow` | `publisher/src/adapters/redis.ts`, `publish` | processes with their `firstPublishTimeMap`, commands on their way, the Redis stream and its expiration |
| `RedisSubscription` | the same file, `subscribeListener` | SUBSCRIBE and XREAD on their connections, the backlog, pending live events, delivery |
| `WebSocketTransport` | `client/src/adapters/websocket/transport.ts` | a *run* of `getConnectedPeer` per caller and per close event; attempts with their sockets; whether reconnect is enabled is chosen in `Init` |
| `RetryLink` | `client/src/plugins/retry.ts` | `loop` is the control of `callNext`, `iterator` what the caller has, `stream` what the wrapped link opened |
| `DedupeLink` | `client/src/plugins/dedupe.ts`, `shared/src/signal.ts` | the queue, its deferred runs, flights with their callers, replicas popped on demand |
| `BatchLink` | `client/src/plugins/batch.ts` | the queue, its deferred runs, and a record for each run of `executeBatch` with its phase |
| `ClientLink` | — | composes the three plugins and `WebSocketTransport`; they share no state, so a behaviour is one of them at work |
| `Broadcast` | — | the abstract specification of `ReplicateIterator`: a log, a position per reader, and who stops the source |
| `UpstashSubscriptions` | `publisher/src/adapters/upstash.ts`, `subscribeEvent`, `unsubscribeEvent` | subscribers of one event with the await they are at, connections, and continuations in the order of the microtask queue |
| `DurablePublisher` | `cloudflare/src/publisher-object.ts` | storage, alarm and sockets, which survive, and the fields of `ResumeStorage`, which an eviction loses; a handler up to its await is an action |
| `Subscriptions` | — | composes `SubscribeIterator`, `RedisSubscription`, `UpstashSubscriptions` and `DurablePublisher` |
| `Retention` | — | composes `MemoryPublisher` and `ResumeWindow`: how events are kept |
| `Peers` | `server/src/adapters/{websocket,crossws,message-port}/handler.ts` | the socket, its inbox of Blobs, its peers and which of them serve what; the adapter is chosen in `Init` |
| `LazyRouter` | `rpc-matcher.ts` of `server`, `openapi-matcher.ts` of `openapi` | `indexed`, `entry` and loads of a tree of lazy parts, and a record for each match; a match up to its await is an action |
| `ProcedureCall` | `server/src/builder.ts`, `router-utils.ts`, `procedure-client.ts` | the building of a procedure, then a stack of activations of `next` |
| `RateLimit` | `ratelimit/src/adapters/{memory,redis}.ts` | windows, clients with the step of their call, the script cache of a Redis that may restart |
| `RateLimitRequest` | `ratelimit/src/middleware.ts`, `handler-plugin.ts` | calls that nest and run at once, the results in their contexts, the headers |
| `PluginOrder` | `shared/src/plugin.ts`, `interceptor.ts` | the plugins given, the visits of `sortPlugins` that are at work, those sorted, and the chain of interceptors; a visit, its end, and `init` of a plugin are actions |
| `ServerBatch` | `server/src/plugins/batch.ts` | members, their frames, the joined promise, the stream and its timer |
| `Server` | — | composes the seven modules of the server |
| `RpcSerialization` | `client/src/rpc-serializer.ts`, `rpc-json-serializer.ts` | functions on trees of values, both ways |
| `BracketNotation` | `openapi/src/bracket-notation.ts` | the list of pairs of an object; the object that is rebuilt, one action per pair |
| `ComponentNames` | `openapi/src/openapi-generator-components.ts` | components so far; `HoistDefs` is the whole of `hoistDefs`, comparison and choice of names included |
| `OpenAPICodec` | `openapi/src/adapters/standard/openapi-{link,handler}-codec.ts` | one call: its input, the request, the input again, the response, the result; one action per conversion |
| `Coercer` | `json-schema/src/coercer.ts` | functions on schemas and values, one per keyword, and what a schema allows as the reference definition |
| `Multipart` | `node/src/multipart.ts` | the buffer, the state of the parser, and a writer; one action per chunk |
| `Uploads` | `node/src/tmp-file-upload-handler-plugin.ts`, wrappers of `shared` | limits, the files of one request, the response that streams, and the clean-up |
| `StaticFile` | `node/src/static-file-handler-plugin.ts` | a directory that a writer changes at any time, and a client that validates and resumes |
| `SharedUtilities` | — | composes the queue, replication, the searches and the modules of data and files |

A composing module adds one variable that says which of its parts is at work; the others
stay in an initial state. The parts share no state in the code either: where
they meet, one is the environment of the other, and each module gives its environment all
freedom that the neighbour's code allows.

`MC*` modules only give constants their values. Operators named in a comment
"Mutant of ..." are the mutated forms that `PROJECT.json` refers to; nothing else
uses them. The `*Proofs` modules hold the proofs of the module they are named after, or, for
`Retention`, `Subscriptions` and `Server`, of the modules that one composes; those of
`Multipart` are in `ServerProofs`, whose lemmas about `FlattenSeq` they share.

Things the modules leave to the environment, on purpose:

- Payloads, keys and names are members of small sets or numbers. Event ids are
  increasing numbers, as the adapters make them.
- In `WebSocketTransport` continuations of settled promises run before the next
  event of a socket or a timer: the microtask queue of JavaScript. The abort of a
  call ends its caller's wait, not the run.
- In `ResumeWindow` commands of one process reach Redis in order and within
  `MaxDelay`, which is shorter than the window, and clocks agree. In
  `RedisSubscription` nothing is trimmed; the two modules split the adapter so.
- In `RetryLink` the server resumes exactly after `lastEventId`.
- In `BatchLink` a `ClientPeer` sends no request message for a member whose
  signal is aborted already. `maxSize` and `maxUrlLength` may be functions of the
  batch, so each batch may find any size of `MaxSizes` and any URL too long.
- In `DedupeLink` one caller resolves its body at a time. Two concurrent
  `resolveBody` calls of one response would both pass the check before the await
  and pop two replicas; the link itself reads a body once. With one at a time that await
  only delays the caller, so asking and getting are one step.
- In `UpstashSubscriptions` continuations of one promise run in the order in which they
  awaited it, before anything from outside.
- In `DurablePublisher` storage answers within a unit of the clock, and the alarm handler
  runs alone (`blockConcurrencyWhile`). Times are ages and remainders.
- In `Peers`, `LazyRouter` and `RateLimitRequest` what serves a request, loads a part or
  decides a limit is external and may take any time or fail.
- In `ServerBatch` keep-alive is enabled, as by default, and every message of a batch is a
  request. A buffered response that cannot be encoded is thrown out of the interceptor.
- In `RpcSerialization` a date stands for every built-in type that becomes a primitive;
  infinities and negative zero are not modelled. In `BracketNotation` keys have no brackets.
- In `OpenAPICodec` the path, the query and the body are carried by URLs and JSON that escape
  and restore texts; values have two levels and fit the styles that the procedure asks for.
- `ComponentNames` assumes that wanted names are one to one, that none is the
  postfixed name of another (`A2`, which the registry makes itself), and that references to
  components are not named like a definition of the same call; section 6 shows what
  happens where the first of these does not hold.
- In `StaticFile` two versions of a file differ in size or time. Downloads that are resumed by
  a date alone, and a replacement between stat and open, are excepted by the property.
- In `Multipart` headers over their limit are accepted if they come whole within one
  chunk, as by the code.

## 3. Runs

Behaviours end when the bounded work is done, so the configurations switch the check of
deadlock off; the liveness properties say that nobody is left waiting at such an end.

| run | what it asks | properties |
|---|---|---|
| `shared_utilities` | all orders of open, push, pull and close of the queue | `QueueInv` (inductive) |
| | two replicas, read and cancelled in any order, of a source that yields, ends or throws | `ReplicasShareTheSource` (refinement of `Broadcast`), `CancellingLeavesNothing` |
| | every sorted bucket and every limit | `FindsTheFirstLater` (against the definition) |
| | forms cut into chunks anywhere; uploads whose body, limits, files or response fail anywhere | `FormIsReadWhole`, `FilesServeTheRequest` |
| | values and objects, there and back | `ComesBackAsSent`, `BracketsComeBack` |
| | schemas hoisted to components, one after another and again | `ComponentsAreNamedWell` |
| | values coerced by schemas with unions and references | `CoercionIsSound` |
| | calls over OpenAPI, in every style of the query and the path and in both structures | `CallComesThrough` |
| | files replaced while they are served in parts | `DownloadIsOneVersion` |
| `retention` | publish, subscribe, resume, unsubscribe also inside callbacks, while time passes | `LogIsServed` (`SubscribersFollowTheLog`, `RetainedForTheWindow`), `CleanupKeepsUp` |
| | processes that share a Redis stream and trim it by their own windows | `RetainedForSeconds` |
| `subscriptions` | an iterator against an adapter that delivers, fails and settles at any time | `ConsumerIsServed` (`NewestAreKept`, `OnlyOverflowLoses`, `NobodyWaitsInVain`), `EndedIsUnsubscribed` |
| | a Redis subscription while events are added and published | `ListenerIsServed` (`SeenInOrder`, `OnlyTheGapLoses`) |
| | subscribers that share a connection which may be refused | `SubscriptionIsShared`, and with Redis `SubscribersSettle` |
| | a Durable Object that is evicted, reset, emptied by its alarm and asked to resume | `ResumesOnce`, `IdleIsEmptied` |
| `client_link` | retries and reconnects of streams | `NothingLostOrRepeated`, `NoStreamIsLeaked`, `RetriesAreBounded`, `GivingUpEnds` |
| | shared requests and batches, with signals that abort at any time | `CallersStayApart` (`SharersStayApart`, `MembersStayApart`), `CallsSettle` (`QueuedCallsSettle`, `BatchedCallsSettle`, and `EveryCallSettles` of the transport) |
| | calls and proactive reconnects race for one websocket, with and without reconnect | `TransportInv` (inductive), `GivesUpInARow` |
| `server` | messages, some of them Blobs, of a socket that closes | `MessagesInOrder`, `ServedWhileOpen` |
| | requests while lazy parts load or fail to | `NothingIsOverlooked`, `MatchesSettle` |
| | procedures of all shapes, called with middlewares that repeat, skip and fail | `CheckedBothWays` |
| | callers that wait for the same window; a Redis that loses its scripts | `WithinTheLimit`, `EveryLimitAnswers` |
| | one request that is charged in several middlewares and nested calls | `ChargedOncePerPath` |
| | all orders that plugins may ask for | `PluginsNestAsStated` |
| | a batch whose members fail, go on and stream while its reader leaves | `BatchIsAnswered` |

The other seven runs each check one promise that the code does not keep; see section 6.

Bounds, and why the interesting cases fit into them:

- Queue: 2 ids, 2 items, 3 calls: a waiter beside one that is served, and ids that are
  opened again. Replicas: 2, with 3 results and 5 calls: one may be done, late or
  never started while the other reads. Searches: 5 entries with keys 0..4. The proofs
  cover every size.
- Forms: two parts and chunks of up to 6 symbols, so that a chunk may hold a whole
  delimiter or end in it; bodies that look like delimiters. Uploads: 4 units of body, 2 files.
- Values of depth 3 and width 2; objects of depth 3 with sparse and pushed arrays.
- Components: three hoists of two definitions that refer to themselves or each other, in
  both directions.
- Coercion: every union of two of fourteen schemas, with a reference that recurs and one that
  leads back at once, on some thirty values.
- *OpenAPI calls*: one styled field of the query beside one without style, or one parameter of
  the path, with every list of two items and every object of two fields that may be empty,
  null, undefined, or hold a delimiter: a delimiter, an index or an item that is dropped
  needs no more to be misplaced.
- Static files: one replacement, two requests, a fallback, a sidecar and an index.
- Memory publisher: 3 subscribers of 2 events, so that ids of an event have gaps; a window
  of 2 and a clock up to 6, so that an entry can expire, be cleaned up late, and the
  clean-up come round again; 3 publishes. Redis stream: 2 processes, window 2, delays of at
  most 1, 1 refused transaction: windows of the processes overlap in every way.
- Iterator: a buffer of 2 and 4 events, so that it overflows twice. Redis subscription: 4
  events, some before the resume id, in the backlog, racing with it, and live after it.
  Upstash: 3 subscribers, which is one who connects and two who wait. Durable Object: 3 events,
  kept for 2 units and checked every 3, 1 reset, and 2 calls of `initAlarm` at a time, which
  are the two that a publish with a reset makes.
- Client: 2 retries and 3 events; 3 callers of which 2 share a key; 3 requests that make a GET
  batch that is split, or two POSTs beside a QUERY; 3 calls, 2 attempts in a row, 1 socket
  that goes down or is closing when `connect` returns it.
- Server: 4 messages; 3 requests of 5 paths below 3 lazy parts, one inside another;
  2 middlewares and 2 schemas a side; 3 clients, two of one key and one that asks for more than
  the limit; 2 limits and 2 calls; batches of up to 3 where 2 are allowed, of GET, QUERY
  or both with POST, 2 frames each.

Where a module has an inductive invariant its type invariant is a conjunct of it; the
`TypeOK` of the other modules documents the variables.

## 4. Fairness

Weak fairness is assumed only of what the platform does by itself: a promise that
is settled resumes its awaiters, a deferred callback runs, a timer fires, time
passes, a socket that is connecting opens or fails, a command that was sent is served, a
lazy part that loads is there or fails in the end, the signal of an aborted call makes
its link fail. Callers, consumers and publishers are
never forced to act, and nothing forces a connection to go down or a source to
yield. A composing module states the fairness of its parts as disjunctions, for only
one part is at work. `RetryLink` needs strong fairness once: a `retryDelay` that throws is
caught like a failed call but counts no attempt, so one that throws always would be
asked for ever; the assumption is that the link gets called now and then.

The parts of `CallsSettle` are of the form *in the end nobody is
pending*; callers make one call each, so this says the same as a leads-to for every
call. `BatchedCallsSettle` excepts batches of which a member aborted between its
call and its sending: such a batch may never be sent, and its other members wait
until they abort themselves (hazard batch.ts:277, which no property covers). Nobody
outside that batch is held up.

## 5. Proofs

Every theorem is proved by TLAPS for all values of the constants that satisfy the
named assumptions, without recursive operators. A recursive function or a fold of which a
proof needs a fact (`Fresh`, `FlattenSeq`, the sums of weights) is reasoned about by the least
number, or the smallest set, for which the fact could fail (`LeastElement`, `LeastSet`).

| module | theorems | the argument |
|---|---|---|
| `AsyncIdQueueProofs` | `InvariantHolds`, `Fifo`, `ClosedIsEmpty`, `NoOrphans` | FIFO alone is not inductive. `Fits` relates buffer, waiters, pushes and pulls since the id was opened: one of buffer and waiters is empty, the buffer is the rest of the pushes, the waiters the rest of the pulls |
| `UtilitiesProofs` | `ReplicateInvariant`, `ReplicasSeeTheSource`, `ReplicasLoseNothing`, `SourceIsReleased`, `CancelledWhenAbandoned` | builds on the queue: what a replica has seen, what its pending call got, and its buffer are together the results of the source; `loop` says when the source is finished |
| | `UploadInvariant`, `FilesServe` | files have a directory that was made (`FilesHaveDir`), only a form or a file has parts, and while they are read (`PartsAreRead`); only a response that streams is read, and after the removal only by the read that a cancelled `ReadableStream` left behind (`ReadsStream`). The limit of a JSON body or of a stream is that of all that was counted (`SpentWithin`) |
| | `StaticInvariant`, `DownloadsAreOneVersion` | what the client asks is about what it has (`RequestIsAboutStored`): a request for the rest starts where its bytes end, with one validator of their version (`Resumes`). A 206 that answers it is of a version which that validator allows, and starts there (`RangeIsTheRest`); bytes are of the version that was found, or the file was replaced before it was opened (`BytesAreItsOwn`) |
| `RetentionProofs` | `LoopInvariant`, `SearchIsCorrect`, `SearchIsLogarithmic` | everything below `low` is not later than the limit, everything from `high` on is; for sorted buckets of any length |
| | `MemoryInvariant`, `LogIsAlwaysServed`, `MemoryIsBounded` | a bucket is the end of the log of its event that holds all that has not expired (`IsEndOf`), the walk of a publish covers every listener of its event (`WalkCoversAll`), and what a subscriber saw ends one entry before the log while the walk still owes it a call (`Owed`), else with the log; a callback that leaves or throws makes exactly those it skips exceptions |
| | `WindowInvariant`, `EventsAreRetained`, `KeyExpires` | every command on its way, every open window and every event is covered: by a transaction on its way, by the expiration of the key, or by a recorded refusal; needs `MaxDelay < Seconds` |
| `WebSocketTransportProofs` | `TransportInvariant`, `SingleFlight`, `SingleSocket`, `AttemptsAreCounted`, `GivesUpLate`, `OneAttemptWithoutReconnect` | the newest attempt is the one every run finds, older ones are settled and their sockets closed, a pending attempt is awaited; hence no run may start a second one, and the counter counts |
| `ClientLinkProofs` | `RetryInvariant`, `StreamsResume`, `NoLeaks`, `Bounded` | attempts are calls, the position of the stream is what the caller saw, and no stream is open while a call is made or retried |
| | `DedupeInvariant`, `SharersAreApart` | who is queued waits in one item and who flies has left the queue (`QueuedOnce`, `FliesOnce`); a flight is cut exactly when all its callers gave up (`FlightsProceed`); a shared stream has at least as many replicas left as callers who have not read it, and those that were taken are others (`ReplicasLast`) |
| | `BatchInvariant`, `MembersAreApart` | who is queued has one place and was not sent (`WaitingOnce`); batches that were not split share no member, and their phase tells whether the members were sent (`BatchesAgree`, `BatchesAreApart`). The runs that a queue or the halves of a batch begin with have distinct, disjoint members (`AreRuns`) |
| | `CallersAreApart` | `CallersStayApart` of `ClientLink`: a step of the client is a step of each of the two, or leaves it alone |
| `LazyRouterProofs` | `NothingIsEverOverlooked` | `Frontier`: on each path either everything is indexed or an entry is left at the first part that is not; a match that waits has indexed all above its place, so after its await it finds its part or another entry |
| `ServerProofs` | `PeersServeOpenSockets`, `MessagesComeInOrder` | the current peer is the only open one, and after the close only a late Blob makes one; the inbox holds the messages that follow those the peers got (`InboxIsNext`), so that what all peers got, one peer after another, is always 1, 2, ... up to the last message handled |
| | `NeverChargedTwice`, `CallsAreCheckedBothWays` | what was charged on the way to a call is in its context; every activation on the stack has passed exactly the schemas between the caller and its middleware |
| | `LimitsAreKept` | windows of a key do not overlap, and what was admitted lies in the current one or one that is over (`AdmittedInWindows`); the counter is at least the sum of the weights admitted in the current window, and no window admits more than the limit (`WindowsCount`); sums of weights are additive, and a stretch of time as long as a window meets at most two of them. Needs what `resolveWeight` checks, that weights are positive integers (`LimitAssumption`) |
| | `BatchesAreAnswered` | every frame of a member is collected or written (`FramesAreOut`), the phase of the reply tells how far stream, timer and peer are (`ReplyTellsOfBatch`), and who settled has frames out unless the peer was closed before (`SettledIsAnswered`) |
| | `MultipartInvariant`, `FormsAreReadWhole` | the parser is at a byte of the form that its state fits, and the buffer is what has come after it (`IsAt`): after a delimiter, at the head of a part, or within the body whose beginning the writer got. Each piece of a form is at its place in the bytes (`PiecesAreRead`), and a delimiter is at no other place, even across the border of two pieces, so that the search finds it when it is there and keeps enough of it when it is not (`Search`); hence the parser waits only for bytes that are still to come (`WaitsForMore`) |
| | `PluginOrderInvariant`, `PluginsNest` | of the plugins there are, whoever comes after another has a greater `Rank`, so the visits at work descend and a circle is never met (`ComingIsNew`). What a plugin comes after is sorted, left to visit, or visited right now (`AreVisits`); at the end of its visit all of it is sorted, at the end of the loop all plugins are, once each. Then no plugin of the chain comes after one still to come (`IsChain`), so the next belongs in front of, or behind, all of them; `Nests` compares that with what the comments state |
| `SubscriptionsProofs` | `IteratorInvariant`, `ConsumersAreServed` | the buffer is the newest events without a gap, and what was returned is older (`HistoryIsOrdered`); at most the last pull waits, never beside a buffered event; every event before the end was received, overflowed, is on its way or buffered |
| | `RedisInvariant`, `ListenersAreServed` | the backlog is a stretch of the stream that begins after the resume id (`BacklogIsAStretch`); live messages were published, come once, and rise where they were published so; from the serving of XREAD on, whatever was published after the resume id is seen, pending, on the wire, in the backlog, or in the gap of section 6 (`PublishedIsSomewhere`). The flush takes exactly the live messages that are not in the backlog (`FreshFacts`) |
| | `UpstashInvariant`, `SubscriptionsAreShared` | who has subscribed found a connection (`ListenersAreConnected`); and until subscribers cross, which is the defect of section 6, every connection is in one of the two maps (`MapsAreComplete`), and who goes on after its await finds a subscription or is alone to connect (`TasksAreAlone`) |
| | `DurableInvariant`, `SubscribersResumeOnce` | rows have ids in the order of their events (`RowsAreOrdered`), what a clean-up or reset lost is older than every row (`LostIsOlder`), and as long as ids have not started again, the rows after the last id of the subscriber are what it misses (`LastIdTells`) |

`UtilitiesProofs` also proves `ReplicationIsABroadcast`, the refinement: with the results
of the source for the log, and what each replica has seen for its position, every initial
state of `ReplicateIterator` is one of `Broadcast`, and every step a step of it or none.

Only model-checked: all liveness; `CancellingLeavesNothing` as a property over
steps of several replicas; the functions on data (`RpcSerialization`, `BracketNotation`,
`ComponentNames`, `Coercer`), which recur over trees, by RECURSIVE operators; and `OpenAPICodec`,
which splits and joins texts of any length, so that its property is an induction over them.

The assumptions are those of the code. `UploadAssumption`: limits are numbers; a kind of body
without one (`maxBodySize` is then infinite) is given one that no body reaches.
`StaticAssumption`: a path has a file, a directory or nothing, and the values that stand for a
missing header are no validators. `FormAssumption`: as a multipart form requires, a preamble
ends with a line break, and the delimiter occurs neither in a preamble nor in a body; the
limit of a header block (`MAX_PART_HEADER_SIZE`) is at least the length of its end.
`OrderAssumption`: the bound on the plugins a user gives is some number.

## 6. Where the code does not keep a promise

- `memory_publisher_skips` (`EveryListenerIsCalled`): `publish` walks the array
  from which `unsubscribe` splices (memory.ts:81 and :110). A callback that
  unsubscribes itself makes `forEach` skip the next listener.
- `resume_window_refused` (`EveryEventIsRetained`): `firstPublishTimeMap` is set
  before the transaction that renews the stream has succeeded (redis.ts:119). When
  it is refused, the rest of the window lives on the old expiration.
- `redis_subscription_gap` (`NothingIsMissed`): XREAD may be served before
  SUBSCRIBE (redis.ts:180 and :188), and an event between the two is missed.
  `ListenerIsServed` in `subscriptions` says that nothing else is.
- `durable_ids` (`RetainedIsResumed`): the alarm empties an idle object with its id
  sequence (publisher-object.ts:256). A subscriber that resumes after an id from before
  misses what is stored under smaller ids.
- `upstash_shared` (`OneSubscription`): whoever waited for an attempt that fails does not look
  again (upstash.ts:236). Two that waited both connect, and the second overwrites the entry of
  the first, whose connection goes on delivering.
- `ratelimit_headers` (`UnknownIsExhausted`): a result without `remaining` is taken for the
  least constrained (handler-plugin.ts:45), where the comment above it says exhausted.
- `component_names_shared` (`ComponentsKeepTheirMeaning`): candidates are kept by the
  names they prefer (openapi-generator-components.ts:93). Of two definitions with one
  preferred name the last stands for both in comparisons, and a schema that comes again gets
  the component of the other.

One comment is narrower than it reads: tmp-file-upload-handler-plugin.ts:159 says that
files outlive the reads of a response that is cancelled. That holds for generators;
`FilesServeTheRequest` excepts a `ReadableStream` that is cancelled in the middle of an
asynchronous pull. And an object whose only key is empty comes back from bracket notation as an
array; `Representable` in `BracketsComeBack` leaves it out.

`CallComesThrough` excepts what `IsAmbiguous` names: a text that holds its own delimiter, which is split after it
was unescaped (openapi-handler-codec.ts:307), and fields that are null in a delimited
object of a query, which arrive as the texts "null" and "undefined". The filter of
`encodeDelimitedObject` (openapi-link-codec.ts:511) looks at the key of an entry, where
the one for the path (:214) looks at its value. And `OpenAPICodec` gives parameters of the path and keys of the
query different names: a query style for a parameter of the path would set it to undefined
(openapi-handler-codec.ts:83).

The passing runs beside them state what does hold: their properties name exactly
these situations as exceptions and nothing more.

## 7. What is not modelled

`PROJECT.json` lists every component with its files and its status. Left out are:

- *conversions without order*: the RPC codecs of link and handler, headers and files
  of OpenAPI, the rest of the generated document, the converters of zod, valibot and arktype,
  the builders of contracts. They are sequential translations whose correctness is about data
  of other libraries; those of them that have an inner protocol (serializers, brackets,
  component names, coercion, the codecs of OpenAPI) are modelled;
- *thin integrations*: query libraries, NestJS, Hono and other frameworks, whose state belongs to
  those libraries; the client's fetch and message-port transports, which are calls of the
  platform and of `ClientPeer`; the client half of the Durable Object publisher;
- *libraries outside the repository*: `@standardserver/*`, rou3, the clients of Redis and Upstash;
- logging, tracing, `hibernation` (no step depends on an earlier one), documentation,
  playgrounds, benches, scripts, and all tests. Together with the integrations they are
  most of the lines of the repository, tests most of all.

Within the modelled components: user functions that throw where it would only end the
call, except where a hazard names it; malformed messages that only reach `onError`; a clock that
is set back; the decoding of length-prefixed frames; contexts, spans and streamed outputs of a
procedure call.

Hazards without a property have a note in `PROJECT.json` that says why.

## 8. Plan

1. *Done*: everything in section 2, the proofs of section 5.
2. *Proofs*: an abstract publisher (a log and a position per subscriber) that the memory
   adapter implements.
3. *Composition over state*: `BatchLink` and `ServerBatch` over one request and its stream, with
   `ClientPeer` as an interface; the Durable Object with its client, which reconnects.
4. *More of the code*: stream queries of the integrations; headers and files in the codecs of OpenAPI.
