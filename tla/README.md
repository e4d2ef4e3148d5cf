# Formal models of the live feed service

TLA+ specifications of the Node.js live feed (`src/`), model-checked with TLC and,
for the safety properties that hold, proved with TLAPS for every value of the constants.
Paths below are relative to `src/src/`.

The service consumes integration events of the Bidding Service from RabbitMQ, applies
idempotency and version protection in Redis, and broadcasts auction updates to
Socket.IO rooms. Several instances of it run at once; they share the queue, Redis and
the Socket.IO Redis adapter.

## Inventory

| Part | State it keeps | Operations | What makes it correct |
| --- | --- | --- | --- |
| Redis auction state, `infrastructure/cache/redis-state.ts` | processed-event keys (with a TTL), version, projection and tenant mapping of every auction | `acceptEvent` (one Lua script), `getProjection` | an event takes effect once; a version never goes back; a recorded purchase keeps its outcome; siblings at one version commute |
| Event processor, `application/processors/live-feed-event-processor.ts` | none | `process`, `processTenantStatusChanged`, `recordActivity` | state before broadcast, broadcast before ack; duplicates and stale events are not broadcast |
| RabbitMQ consumer, `infrastructure/messaging/rabbitmq-consumer.ts` | connection, channel, tag, flags, timer, handlers in flight | `start`, `stop`, `connect`, close handler, timer, `handleMessage` | acks follow effects; invalid messages go to the dead letter queue; it recovers; it stops |
| Tenant status, `redis-state.ts`, processor | tenant version key, event reservation | accept, evict, roll back | only newer statuses are accepted; a disabled tenant's rooms are emptied |
| Rooms, `transport/websocket/` | members of every room, on the instance of the socket | subscribe, unsubscribe, evict, disconnect | only sockets that Bidding admitted are members |
| Event contract, `domain/events.ts` | none | parse, validate, convert for the socket and for Redis | an accepted envelope is consistent, and nothing else is accepted |
| History, `infrastructure/database/`, `application/history/` | rows, first one per event wins | `record`, `query` | a row says what happened; an answer is what was asked for |
| Admin feed, `transport/websocket/admin-*`, `application/diagnostics/`, `ui/` | recent activity of an instance; rooms; the list of a page | publish, render, join, leave | a page shows the newest activity; a chart counts an event once, and only its tenant's |
| Admin login, `transport/http/admin/`, `infrastructure/cache/redis-admin-*` | consumed token ids, handoff codes, sessions | exchange, redeem, authorise | a token opens one code, a code begins one session; the session decides the room |
| Lifecycle, `application/live-feed-service.ts`, `infrastructure/runtime/` | the one shutdown and its step | start, signals, fatal errors, shutdown | resources close once, in order, whatever fails; the process ends |
| Workers and probes, `infrastructure/workers/`, `infrastructure/runtime/` | active workers, timers, child processes | calculate, probe, derive a key, close | each request settles once; only genuine results are answered; nothing is left running |
| Activity calculation, `application/activity/` | none | `calculateAuctionActivity` | histogram, percentiles and checksum are right |
| Metrics, streams, configuration, layout | none a decision depends on | | |

How they interact. A delivery calls the processor, which calls Redis and, after the
reply, broadcasts to the auction's room, publishes deltas and activity to the admin
rooms, starts a history insert and returns, all in one turn of the event loop; the
consumer then acks. For a tenant status event the instance that handles it notifies the
others through Redis pub/sub, and each instance looks for members among its own sockets
and asks all instances, itself included, through Redis to empty the rooms it found. A
subscription waits for
Bidding (HTTP) and Redis, then joins. The lifecycle starts the consumer when Redis is
connected, and stops it before it closes the server, Redis and the pool.

The hard behaviour: up to `prefetch` handlers run concurrently per instance; several
instances process copies of one event; messages are delivered at least once and in any
order; a reply may be lost after its script ran; the awaits of a subscription interleave
with an eviction; `connect()` runs concurrently with the close of its connection and with
`stop()`; a Redis client without a listener to `error` takes the process down; a shutdown may be requested while `start()` is under way;
the result, the timer, the disconnect and the shutdown race to settle a diagnostic
request. `PROJECT.json` lists the hazards, each at its line.

## Modules

| Module | Models | Code |
| --- | --- | --- |
| `LiveFeedState` | what Redis keeps of the auctions; the accept script as one atomic action | `redis-state.ts` |
| `EventPipeline` | queue, consumers, commands, replies, broadcasts, history, failures; extends `LiveFeedState` | processor, `handleMessage`, history `record` |
| `AuctionFeed` | abstract specification of what clients are promised | |
| `TenantAdmission` | status events, eviction, rooms, subscriptions, over several instances | processor, evictor, subscription handler |
| `RabbitConsumer` | one consumer's connection life | `rabbitmq-consumer.ts` |
| `ServiceLifecycle` | one process: start, signals, shutdown, Redis and HTTP requests; composed with `RabbitConsumer`, which it extends | `live-feed-service.ts`, `shutdown-coordinator.ts` |
| `EventContract` | validation of a message, the envelope that is kept, what sockets and Redis are told of it | `domain/events.ts` |
| `AdminFeed` | recent activity, deltas and activity packets between instances, pages and charts; composed of `LiveFeedState`, `EventContract` and `HistoryQuery` | `admin-live-feed-publisher.ts`, `recent-activity-store.ts`, `live-feed-admin-app.tsx` |
| `HistoryQuery` | parameters of a search, the rows it answers with | `query-live-feed-history.ts`, `admin-history-route.ts`, history store |
| `AdminHandoff` | exchange of a token, handoff codes, sessions, the admin room of a socket; Redis keys with their expiry | `admin-route.ts`, `redis-admin-*.ts`, `admin-auth.ts` |
| `OneTimeLogin` | abstract specification of the admin login | |
| `Diagnostics` | the requests for a calculation, a probe or a key, from start to settlement; extends `ActivityCalculation` | `worker-activity-calculator.ts`, `child-process-probe.ts`, `libuv-thread-pool-diagnostic.ts` |
| `ActivityCalculation` | the calculation as functions, and what its result must be | `calculate-auction-activity.ts` |
| `MCEventPipeline`, `MCTenantAdmission`, `MCAdminHandoff`, `MCAdminFeed`, `MCDiagnostics` | the events, tokens, bodies and samples of the checked instances | |
| `EventPipelineProofs`, `PipelineStateProofs`, `TenantAdmissionProofs`, `RabbitConsumerProofs`, `ServiceLifecycleProofs`, `AdminHandoffProofs`, `AdminFeedProofs`, `DiagnosticsProofs` | theorems about the module they extend | |

### Correspondence

**`LiveFeedState`.** `AcceptEvent(e)` is one run of the Lua script, which Redis does not
interleave: `Acceptance` is the first element of its reply, `Remember` the two writes it
makes before it looks at the version (so a stale event is remembered too), `Projected`
the hash writes, which are the same in its two write branches. The nine fields of the
hash are reduced to those the script reads or the properties tell apart; a bidder and
amount, and a winner and price, are one value because they are written together, and
only with an amount or a price: a close with a winner and no price stores neither.

**`EventPipeline`.** `Deliver` is `handleMessage` up to the first await, `Evaluate` the
script in Redis, `Publish` and `Ignore` everything after the reply up to the ack or
nack, which is one turn of the event loop. The broadcast is `feed`, the history row
`history`; `Insert` is the query nobody awaits (`ON CONFLICT DO NOTHING`). `LoseChannel`,
`LoseRedis` and `Crash` are the failures: the broker requeues, and commands that were
sent may still be executed (`EvaluateOrphan`). A handler whose channel is gone goes on
(`live = FALSE`), and its ack reaches nobody. `ExpireKey` lets a processed-event key
reach its TTL at any moment.

**`TenantAdmission`.** `message[e]` is where the handler of a status event stands:
`Accept` is the accept script, `Evict`/`EvictFails` the `try` around
`evictTenantRooms`, `Release` the rollback script and the nack. `Scan` is
`evictLocalTenantRooms`: it looks at local rooms only and empties none, as with the Redis
adapter `socketsLeave` on a room only publishes a request, which reaches every instance,
the sender included (`leaves`, `ReceiveLeave`); the eviction event goes to the others
(`scans`, `ReceiveScan`). Requests and notices arrive in any order, or, with a fault, not
at all; `Quiet` says that all have arrived. `Decide` and `Join` are the two awaits of `subscribe`. The history variables
`at` and `late` of a member say when Bidding decided and whether its instance looked
for members between that decision and the join; no guard reads them.

**`RabbitConsumer`.** `stage[c]` is how far the c-th call of `connect()` got. `ConnectFails`
is a rejected `amqp.connect`; what `connect()` awaits later rejects when the connection
closes (`Drop`), before the next attempt two seconds later. `OnClose` is the close handler,
which clears the fields without a look at the connection. `Start` clears `stopped` and calls
`connect()`; it comes once, as in the program, but may come after `Stop`.
`CancelledByBroker` is the null message of a deleted queue, which `handleMessage` ignores.
`Stop`, `Cancelled` and `Close` are `stopInternal` between its awaits; `awaited` is the
snapshot of `inFlight` that `Promise.allSettled` gets.

**`ServiceLifecycle`.** `startup` is where `start()` stands: `StartUp` is its
continuation once the Redis clients are connected (listen, then `consumer.start()`, in
one turn, without a look at a shutdown), `ListenFails` the error of a taken port, which
leads into the same shutdown. `step` is the step of the shutdown coordinator:
`BeginShutdown` calls `consumer.stop()` in the turn of the signal, and each later action
is the settlement of one step, which starts the next; the coordinator reports a step
that fails and goes on (`PoolClosed`). Every step of the consumer is one of
`RabbitConsumer` (`ConsumerRuns`). Nothing listens to the `error` of a Redis client
(`lost`): when Redis refuses it at the start (`ConnectRejects`), the error is thrown inside
`connect()`, which rejects, and `start()` fails; when it loses its connection later
(`RedisLost`), the error is a fatal one, thrown before the client connects again or
rejects what was pending. Both request the shutdown, or share the one that runs
(`SharedShutdown`), and no command of the client, `QUIT` included, is answered from then
on: handlers and requests that wait for one do not end, others do.
`clean` is history: the shutdown was requested when no `start()` and no `connect()` was
under way.

**`EventContract`.** A JSON value is a tuple that says of what kind it is;
`PayloadContract` gives the fields of each payload with the validator of each, and which
of them must equal a field of the envelope. `IsLiveFeedEnvelope` is the guard,
`ValidateLiveFeedEnvelope` what is kept (`internal` fields are not), `Digest` the
arguments of the accept script. `IsSound` is a definition of a sound event of its own,
and `ContractIsRight` says that every accepted body is one: of the messages, and of
`Bodies`, any set of values that `JSON.parse` may return (`IsBody`). In the checked
instance these have each field of a published event altered in every way, and another
one in some; `PublishedAssumption` is the converse, that what Bidding publishes is
accepted.

**`AdminFeed`.** `Decide` is the delivery with the script in Redis, `Observe` the turn
after the reply: `recent` is `RecentActivityStore`, `Rooms` which rooms the publisher
tells of a record, as activity and as a delta, `Receive` what the sockets of an instance
make of these packets, `wire` the Redis adapter between two instances. A page is
rendered with a copy of the list of one instance (`Render`), connects to any instance and
asks to join once (`Subscribe`); `MergeRecentActivity` is what its state does with an
activity packet. A chart stands for the portal's sockets, which listen to deltas.
`log`, `since` and `deltas` are history.

**`HistoryQuery`.** `IsValidQuery` is what `parseHistoryFilters` lets pass, `Query` the
SQL of the store: the `n`-th row of an answer is the one with `n - 1` newer ones among
those that match (`Nth`). `IsTable` says that the table has its primary key, `IsSearch`
what a query string can hold. `IsRightAnswer` says what an answer must be, from the parameters as
the administrator gave them.

**`AdminHandoff`.** `exchange[r]` is where a `POST /admin/auth/system-token` stands:
`Exchange` is the verification and the sending of `SET NX PX`, `Consume` its execution
by Redis, `Create` the resumption with the second look at the clock and the sending of
`SET NX EX`, `Store` its execution. A time to live counts from the execution, not from
the computation, so keys may outlive the token. `redemption[d]` does the same for
`GET /admin/auth/handoff`. When the connection is lost the request fails and its command
may still run (`lostConsume`, `lostCreate`). `Returned` is what `consume()` gives back of
the claims. A socket keeps the cookie of its handshake, and a room is named by its tenant
(`NoTenant` is `admin:live-feed`). `codes` and the fields `code` and `by` of a session
are history: no guard reads them.

**`Diagnostics`.** `work[r]` are the events that the thread, child or pool task of a
request has yet to make, `inbox[r]` those the event loop has yet to handle. `Settle` is
the common end: the promise, the cleanup of its timer and of the active workers, the
`terminate()` or `kill()`, which makes a last event, and the answer, if the client is
still there. `Disconnect` is the abort signal of the response, `CloseCalculator` the
`close()` of the calculator in the shutdown. `Outcomes` are the sequences of events that
an undisturbed thread or process may make. `made` is history.

**`ActivityCalculation`.** `Pass` and `Checksum` are the inner and the outer loop, `Bucket`
and `Percentile` the arithmetic of the code. `Sorted` is the library's sort, by what it
does. `IsResult` has definitions of its own: parts of a range, nearest ranks, closed sums.

### Abstractions

- The queue holds all messages from the start; one published later is one delivered
  later. A nack with requeue puts the message back at once.
- The commands of one Redis connection are executed, and answered, in the order sent.
  When the connection is lost all pending commands reject; that Redis executed a prefix
  of them and lost the rest is covered by `EvaluateOrphan`, which may run or not.
- `EventPipeline`, `TenantAdmission` and `AdminHandoff` let the commands of a lost
  connection reject. The main client has no listener to `error`, and so its commands stay
  unanswered and the process shuts down instead (`ServiceLifecycle`); the broker then
  delivers again what was not acked, as after `Crash`, which the first two models have as
  well. In the third one the request fails when the process ends.
- Broadcasting does not throw.
- `TenantAdmission` has one message per status event; duplicates in the sense of a second
  delivery come from requeueing. A socket has at most one pending subscribe and one
  pending unsubscribe per auction. Bidding is external: it never exposes an auction of a
  disabled tenant, and may deny or fail at any time.
- In `RabbitConsumer` consumer tags are unique. A channel does not close alone: it would
  emit an `error` that has no listener, and so end the process, which is
  `RequestShutdown` of `ServiceLifecycle`; so would the `error` of a connection that is
  not watched yet. When no handler is in flight, `stop()` closes
  in the same step, since only microtasks run in between.
- In `ServiceLifecycle` the Redis clients connect and quit together and one that dies stands
  for all. That holds of the main client; the adapter listens to the `error` of the other
  two, which connect again, and their loss after the start is left out. The monitor and
  the workers end with the pool, as they need no wait once no request is open.
- In `EventContract` and `HistoryQuery` the syntax of JSON, of a UUID and of a date is
  abstracted to the kind of a value.
- In `AdminFeed` processed keys do not expire (`CanExpire` is false): an event whose key
  expired before a redelivery would be applied, and its delta counted, again. The command
  and its reply are one step, the packets of one turn travel
  together, the adapter loses nothing except with a crash, and a page that lost its
  connection is taken for not connected, as it never joins its room again. Sessions that
  belong to a tenant exist, as the code of the feed provides for them (finding 5 says
  why none comes of the login).
- In `AdminHandoff` all instances and Redis agree on the time. Every token has a `jti` of
  its own, every code is new (256 random bits), a code that reached the browser is the
  only one it redeems. Of the claims only `exp` and `tenant_id` are kept.
- In `Diagnostics` a child's output is two parts or a flood beyond the limit; samples of
  the calculation are integers, so floating-point rounding is left out.

## Runs

| Run | Configuration | Checks | Shows |
| --- | --- | --- | --- |
| `pipeline_faults` | 2 instances, 3 messages (a bid, a purchase twice), prefetch 2, 2 faults | `AtMostOnce`, `FeedInOrder`, `AckedIsApplied`, `SettledOnce`, `HistoryIsTruthful`, `Converges`, `ImplementsFeed` | broadcasts, acks and history under any two failures |
| `pipeline_expiry` | 2 instances, 3 messages: a purchase and a close of one command, one that does not parse; 1 fault, keys expire, fair | `TypeOK`, `Converges`, `NothingSkippedWithoutFaults`, `FeedIsBackedByProjection`, `EventuallySettled`, `StateNeverRegresses` | every message is settled; the projection depends neither on the order of the events nor on the TTL (uniqueness of broadcasts does) |
| `tenant_rooms` | 2 instances with a socket each, Disabled then Active, 1 failed eviction, 1 fault | `TypeOK`, `MembersWereAdmitted`, `OnlyLateJoinersSurvive`, `EnforcedAtRest`, `NewerUnlessReleased` | who may be in a room, who is left after an eviction, and that a failed one is made up for |
| `tenant_rollback` | 3 status events, 1 failed eviction | `OnlyNewerAccepted` violated | finding 1 |
| `tenant_unenforced` | 3 status events, 1 fault, fair | `DisabledIsEnforced` violated | finding 2 |
| `service_lifecycle` | 4 connects, 3 failures, 2 handlers per channel, 2 HTTP requests, fair | `ServiceTypeOK`, `ConnectedIsOpen`, `NoReconnectAfterStop`, `RedisOutlivesItsUsers`, `NothingLeft`, `StopDrains`, `Recovers`, `ShutdownCompletes` | reconnecting, stopping and shutting down in any order |
| `consumer_stop` | 2 connects, 1 failure | `StopEndsConsumption` violated | finding 3 |
| `service_unreported` | 1 connect, 1 failure, 1 handler, 1 HTTP request, fair | `FailedStartIsRethrown` violated | finding 4 |
| `admin_once` | 3 requests for 2 tokens, 2 redemptions, 1 socket, 2 faults, 4 ticks of half a second | `TypeOK`, `OneCodePerToken`, `ImplementsLogin` | one code per token and one session per code, past the expiry of every key |
| `admin_tenant` | 1 request with a tenant's token | `TenantSessionsJoinTenantRoom` violated | finding 5 |
| `diagnostics` | a worker, a probe and a pool task; samples of at most 4 values; fair | `TypeOK`, `SettledLeavesNothing`, `AnswersAreGenuine`, `CloseLeavesNothing`, `CalculationIsRight`, `EveryRequestEnds` | whichever settles a request first, nothing is left and no half result is answered; the calculation on every small input |
| `admin_feed` | 2 instances, 4 messages (a bid, a purchase twice, one that is no event), a page and a chart, lists of 2, 1 crash | `TypeOK`, `NewestAreShown`, `DeltasOnceInScope`, `ContractIsRight`, `HistoryIsRight` | what administrators see; the contract on altered bodies and the search on all small parameters |

`CalculationIsRight`, `ContractIsRight` and `HistoryIsRight` evaluate a function on all
inputs of a bounded set in the states in which the program has used it.

**Bounds.** Two instances suffice for every race between instances, as the properties
relate two broadcasts, two deliveries, two handlers or two watchers; two copies of one
event and a third message give a duplicate together with a neighbour of another version;
prefetch 2 gives concurrent handlers. Version 3 follows version 1, so the gap branch of
the script is taken. `MaxFaults` lets a failure hit the recovery from another one. Four
`connect()` calls and three failures give every sequence of failed connects, closes and a
cancelled consumer up to that length, with a connection to recover to; two handlers and
two requests let one end while the shutdown waits for another.
Two requests for one token give the race, two redemptions that for a code; the clock
runs past the expiry of the first token and of the key of its `jti`, and a second of two
ticks lets the code's time to live be rounded up. Three events fill and overflow a list
of two. Searches range over times before, at and after each bound, and limits from zero
to beyond the greatest.
Bounds are in the guards: `MaxFaults` (`Fault`), `MaxFails` (`EvictFails`),
`MaxFailures` (`Failure`), `MaxConnects` (`Conn`), `MaxHandlers` (`Handler`),
`MaxRequests` (`RequestArrives`), `MaxCrashes` (`Crash` of `AdminFeed`), `MaxTime`
(`Tick`), `MaxFaults` of `AdminHandoff` (`Fault`). `Capacity` is the code's own bound on a
list, `MaxSampleCount`, `MaxBucketCount` and `MaxIterations` those on a calculation. All
configurations switch the deadlock check off: when all messages are settled, or the
process has shut down, the system rightly has nothing to do. `InstanceSymmetry` and
`MirrorSymmetry` (the two instances swapped together with their sockets) are used only in
safety runs, and their initial states and properties do not tell instances apart.

**Fairness.** Weak fairness of each step that the environment performs without our
asking: a ready message is delivered to some consumer, an ack reaches the broker, Redis
executes and answers when it is reachable, a handler resumes, the reconnect timer fires,
a connecting socket gets an answer, a Redis client connects or is refused, an HTTP request
ends while Redis answers (every route has a time limit or a single query), the event loop runs timers and handles events, a thread or process that
does not hang makes its next event. Never fair: failures, expiry,
history inserts, subscriptions, status changes, signals, `stop()`, disconnects, new
messages and requests. Weak fairness of `\E i : Deliver(i, m)` demands no particular
instance, as the broker chooses.

Some properties state a condition that the code needs. `Recovers` excepts a
consumer that the broker cancelled (`Deaf`), from which the code does not recover.
`ShutdownCompletes` is about runs in which no Redis client dies: `stop()` waits for
handlers, and they and the shutdown for Redis, without a limit. `RedisOutlivesItsUsers` and
`NothingLeft` are stated for a shutdown requested at a quiet moment (`clean`): one that
overlaps `start()` or a `connect()` leaves what these open (finding 3).

## Findings

1. *Rollback forgets the previous version* (`redis-state.ts:134`). After a failed
   eviction, the version key is deleted, not restored. A delayed older status event is
   then accepted, and an older Disabled event would evict an active tenant.
2. *A reservation outlives its handler* (`live-feed-event-processor.ts:167`). A crash, or
   a lost reply, after the accept script makes the redelivery a duplicate; the disabled
   tenant's sockets stay in their rooms.
3. *`stop()` does not stop a `connect()` under way* (`rabbitmq-consumer.ts:79`). The
   continuation of `connect()` does not look at `stopped`.
4. *A failed start is not reported* (`live-feed-service.ts:98`). When Redis refuses a
   client that nobody listens to, its `connect()` rejects instead of trying again; the
   cleanup of `start()` waits for the `QUIT` of that client, which is queued for a
   connection that is never made. The failure is neither rethrown nor logged, and sets no
   exit code. For the same reason a shutdown after a lost connection does not end.
5. *The tenant of an admin is lost at the handoff* (`redis-admin-handoff-store.ts:50`).
   `create()` stores `tenantId`, `consume()` does not return it; the session of a
   tenant-scoped token is a global one, and its sockets join `admin:live-feed`.

## Proofs

The proofs assume what the modules' named assumptions say of the constants and nothing
else; all sets may be infinite.

- `EventPipelineProofs`. `TypeCorrect`, `NeverRegresses`, `FeedAlwaysInOrder`,
  `BroadcastAtMostOnce`, `PipelineImplementsFeed`. A broadcast is decided in Redis and
  made later, so `AtMostOnce` and `FeedInOrder` are not inductive: a reply that allows a
  broadcast has to count as one made already. `OrderInv` says that broadcasts made,
  followed by those allowed, are in order of version and Redis is at least as far;
  `OnceInv` that they are of remembered events, all different. The second one, and what
  follows from it, assumes `~CanExpire`: with expiry the property is false. The refinement
  maps `feed` to `feed`: only `Publish` changes it, and `OnceInv` and `OrderInv` give
  the guards of `Announce`.
- `PipelineStateProofs`. `AcksFollowEffects`, `FeedIsBacked`, `HistoryTellsTheTruth`,
  `SettlesOnce`, `NothingIsSkipped`. `RedisInv` relates the version key to the projection, and `AckInv` says
  of every reply, broadcast and ack that Redis has reached its event; both hold with
  expiry. `HistoryInv` follows a row from the reply over the pending insert to the table;
  the row "stale" needs `StaleInv` besides, that an event once judged stale is never
  broadcast, and `~CanExpire`. `SettleInv` speaks of positions in the queues of commands
  and replies, because a handler is told from another only by its position: at most one
  live position of all belongs to a message, and only while the broker waits for it.
  `SkipInv` says that, while nothing failed, every event Redis remembers, a reply is about
  or an ack was sent for was broadcast, will be, or is behind the version of its auction.
  `StateConverges` rests on `EffectInv`: an event that was handled is behind the version
  of its auction, or its write is still in the projection, because a sibling at the same
  version writes other fields or the same value. That is a promise of the Bidding Service,
  not of this code; `CoherentEnvelopes` states it and is the theorem's assumption. The
  checked instances satisfy it (`CoherentAssumption`).
- `TenantAdmissionProofs`. `TypeCorrect`, `OnlyAdmittedMembers`, `StatusEventsInOrder`,
  `DisabledAtRest`, `EvictionSparesOnlyLateJoiners`. Membership needs that a request that may still join was itself allowed
  (`RequestsWereAllowed`). The order of status events needs that every accepted event is
  covered by the version key (`ReservedAreCovered`), which the rollback breaks; hence the
  condition that no eviction failed. `DisabledAtRest` has no such condition: `RetryInv`
  says that an event that is turned away, or is no longer in the version key, has a later
  one that Redis remembers or that is still to be handled, so the last one is never lost.
  `IssueInv` supplies that an event is published once. `LateInv` says of every member, and
  of every request that may still join, whose decision an eviction revoked that it was
  late, that its instance has yet to look for it, or that the request to leave is on its
  way; it is what makes the last theorem inductive.
- `RabbitConsumerProofs`. `TypeCorrect`, `ConnectedIsTruthful`, `StoppedStaysStopped`,
  `StopDrainsHandlers`. `ConnectedIsTruthful` needs that the current channel is watched,
  and open as long as the flag is set; the draining theorem needs `DrainInv`, which
  describes the only connection there is while nothing failed.
- `ServiceLifecycleProofs`. `ProcessRunsConsumer` says that every behaviour of a process
  is, seen from the consumer, one of `RabbitConsumer`, so that what is proved of the
  consumer holds in the process. `RedisIsClosedLast` and `ShutdownLeavesNothing` rest on
  `ConnectionInv` (an open connection belongs to a `connect()` that got so far),
  `OneConnection` (no `connect()` is called while an earlier one or its connection lives),
  `QuietInv` (after a quiet request no new connection, handler or timer appears) and
  `StepInv` (what is over when the shutdown has reached a step).
- `AdminHandoffProofs`. `TypeCorrect`, `TokenOpensOneCode`, `HandoffImplementsLogin`. The
  key of a `jti` expires, so "consumed once" is not an invariant: two requests of one
  token may both be let through. `CodeInv` says that when this happens the token has
  expired, so that neither goes on to create a code (`Create` looks at the clock again);
  it needs that a key never expires before its token, whenever the command runs.
  `HolderInv` says that a code somebody holds is no longer in Redis. The refinement maps
  `codes` to `codes` and the sessions to who redeemed which code: `Store` opens, `Begin`
  begins, every other step stutters.
- `AdminFeedProofs`. `TypeCorrect`, `NewestAreStored`, `DeltasCountOnce`,
  `DashboardShowsNewest`, `AcceptedBodiesAreSound`, `ContractIsKept`, `AnswersAreRight`,
  `HistoryIsAnswered`. `HandlerInv` says that a handler holds a message once, and that
  Redis has reached what it remembers. A delta counts once because an event is applied
  once, which it is because `AdminFeed` has no expiry of processed keys:
  `DeltasCountOnce`, like `BroadcastAtMostOnce`, holds while the keys last. `HeldInv`,
  `WireInv` and `CountInv` follow an applied event from the one handler
  that holds it, over one place on the wire to each other instance, to the counters.
  `PromiseInv` and `ToldInv` say that what a chart was promised is counted or on its way
  to its instance. For a page, `ShownInv` says that a front part of the list is about
  different promised events, and that it is as long as the list can be or holds all that
  are not on their way; `MergeShows` and `ShowsMerged` show that merging a record keeps
  it so, the latter by counting positions. `AcceptedBodiesAreSound` holds for whatever JSON
  is accepted, and has one lemma for each type of event, as each has its payload, its
  socket payload and its arguments of the script; `EventInv` (a message is handled or
  acked only if it is an event) makes an invariant of it. `AnswersAreRight` is about any
  finite table with its key: as two rows are never equally new, the numbers of rows newer
  than each are different (`RankOrders`), so each position of an answer has its row
  (`NthIsRanked`), and what is left out is older than all of a full answer.
- `DiagnosticsProofs`. `DiagnosticsTypeCorrect`, `SettlingCleansUp`, `OnlyGenuineAnswers`,
  `ClosingCleansUp`, `ResultsAreRight`, `CalculationStaysRight`. Events linger in
  the inbox after a request was settled and its child killed. `EventInv` says that each was made by the request's own work, or by stopping
  it, and that output read as whole was written as such; `EventsTell` concludes from the
  events that the work was genuine. `TaskInv` ties timers and active workers to open
  requests, `RestInv` bounds what a settled request's work may still do. One lemma
  (`SettleStep`) covers every way to settle. `ResultsAreRight` is about the calculation
  on any sequence of integers: the loops of the checksum take a remainder after every
  addition, and end with the remainder of the closed sum (`PassAdds`, `ChecksumAdds`); each
  sample is in the part of the range that its bucket stands for, and the buckets add up to
  all samples (`BucketIs`, `HistogramAdds`); at each position of the order there is exactly
  one value (`NthExists`, `NthIsUnique`), and the rank of a percentile is the least with
  enough samples at or below (`RankIs`).

Induction is over sets of numbers: one that has 0, and `n + 1` for each `n` it has, has
all (`EveryNumber`, `EveryNatural`). A loop is a recursive function on an interval; that
it has a result, and one only, are `LoopRuns` and `LoopRunsOnce`.

Only model-checked: liveness (`EventuallySettled`, `Recovers`, `ShutdownCompletes`,
`EveryRequestEnds`), which is out of the prover's reach, and that what Bidding publishes
is accepted (`PublishedAssumption`), which is about the examples of the instance. The
five properties that do not hold are findings.

## Not modelled

- Runtime metrics, the event-loop monitor's figures, the NDJSON stream of measurements and
  the async context: no decision depends on them.
- Configuration, the PostgreSQL pool, the token issuer: input and output only.
- The layout of the page, the wording of answers and errors, the writing of the PDF.
- A channel that closes alone, and a `start()` after a `stop()` that was awaited: the
  first ends the process, the second does not happen in the program.
- Signatures, CORS and the other claims of an admin token.
- The loss of packets in the Redis adapter between instances, other than by a crash
  (`AdminFeed`); lost eviction notices are in `TenantAdmission`.
