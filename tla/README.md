# A TLA+ model of the RabbitMQ client

This project models the parts of the client (`src/src/`) that keep state across
asynchronous steps, checks them with TLC on small instances, and proves most of their
safety properties with TLAPS for instances of every size. All paths below are
those of the repository under `src/`; `PROJECT.json` maps every definition to its lines.

1. [The system](#1-the-system)
2. [How code becomes TLA+](#2-how-code-becomes-tla)
3. [The modules](#3-the-modules)
4. [What the runs show](#4-what-the-runs-show)
5. [Where the code and its own words differ](#5-where-the-code-and-its-own-words-differ)
6. [Bounds and fairness](#6-bounds-and-fairness)
7. [What is proved](#7-what-is-proved)
8. [What is not modelled](#8-what-is-not-modelled)
9. [Plan](#9-plan)

## 1. The system

The client is a Node.js library over amqplib. One facade object owns one AMQP connection, a
pool of channels on it, and the features built on those channels. It is single-threaded, but
every operation is a chain of `await`s, and between two of them anything else may run: a timer,
a broker event, another call of the application. That is where its difficulty lies.

| component | state it keeps | operations and events | talks to | what makes it correct |
|---|---|---|---|---|
| `connection/connection.js` | state, connection, shared dial promise, endpoint index, reconnect timer, attempt counter, shutdown flag | `connect`, `disconnect`, timer, dial result, `close` event | amqplib; emits `connected`, `disconnected`, `reconnected`, `reconnectFailed` | no leaked connection, no silent end of a retry cycle, the budget holds, a disconnect is final |
| facade, `index.js` | pool, single-flight promises for connect and restore, cache, signal handlers | `connect`, `disconnect`, restore, listeners of the connection's events, `enableGracefulShutdown`, `publishWithCache` | everything | one restore at a time on a connection, no doubled consumer, a pool means a usable client, every caller gets an answer, a signal ends the process cleanly |
| `connection/channel-pool.js` | slots, round-robin index, dedicated channels by owner, closed flag | `initialize`, `getChannel`, `getDedicatedChannel`, `release…`, `close`, channel death and replacement | a connection | dead channels leave rotation, a closed pool leaves nothing behind, fair hand-out |
| `consumers/sequential-processor.js` and `subscribeSequential` | messages in processing, parked messages, index by dependency | delivery, callback end, sweep, dispose | a consumer's channel | dependency order, each delivery settled once, nothing parked for ever |
| `messaging/rpc.js` | pending requests with timers, reply channel, its listeners, connection epoch | `request`, `respond`, reply, return, timeout, loss of channel or connection | pool, publisher, facade | every request settles exactly once, the reply route is never stale |
| `consumers/worker-pool.js` | workers, idle and waiting queues, respawn counts | `run`, thread message, error, exit, `terminate` | worker threads | nobody waits in vain, one job per thread |
| `consumers/consumer-manager.js` | active consumers and their epochs, tags, recovery loops, in-flight handlers, worker pools, prefetch | subscribe variants, `unsubscribe`, `recreateAll`, recovery, `disposeAll`, ack and nack, prefetch tuning | pool, broker | each registered consumer consumes exactly once or is being recovered; in-flight work is drained; a delivery is settled once, within its retry policy |
| `messaging/publisher.js`, `routable-publish.js` | unconfirmed messages of a batch, return watches, drain waits | `publish`, `publishBatch`, `publishAsync…`, `publishDelayed`, confirms, nacks, returns | pool, limiter, breaker, broker | a retry sends exactly what is unconfirmed, a return hits its own publish, every call settles |
| `resilience/rate-limiter.js`, `strategies/` | an entry per key (tokens, count or log), blocked keys | `check`, `getStatus`, `blockKey`, `reset`, sweep, `dispose` | publisher | the admitted rate respects its limit, whatever sweeps and clock steps come between |
| `resilience/circuit-breaker.js` | the current policy | `fire`, `reset` | publisher, breakwater | a reset forgets the failures before it |
| `messaging/topology.js` | none of its own | exchanges, queues with dead letters, delay plugin probe | pool, broker | a rejected message has somewhere to go; a probe harms no channel but its own |
| `messaging/message-codec.js` | compression flag | encode, decode | publisher, consumers | what was published is what is read, whatever the setting is by then |
| `utils/` | none | emitting, validation, logging | all | a throwing listener does not break its emitter |

Hard behaviours, in the order in which they matter:

- *late results*: a dial, a channel open, a restore or a decode that finishes after the
  situation that started it is over (disconnect, second loss, closed pool, new epoch);
- *shared promises*: several callers join one dial, one restore or one reply-consumer setup, and
  the outcome must be right for all of them;
- *events that fire while nobody listens*: parking on an event that has already happened;
- *failures half-way*: a restore that has a pool but no exchange, a pool with one dead slot;
- *timers against answers*: RPC deadlines, stale sweeps, reconnect timers;
- *several recoveries of one thing*: a consumer's own loop, `recreateAll` and `unsubscribe` meet on one consumer, and
  epoch and pool fences decide who may consume;
- *budgets at their limit*: reconnect attempts, channel replacements, worker respawns, message retries, rate limits.

`PROJECT.json` lists each as a hazard with its line and the properties aimed at it.

## 2. How code becomes TLA+

- A step is one run of JavaScript from an event or a resumed `await` to the next `await`. Code
  without an `await` in between is never split.
- A promise continuation that is due runs before the next timer or I/O event. Where that order
  matters (`resuming` in `Connection`, `ContinuationsDone` in `Lifecycle`) the other actions are
  guarded by it.
- A listener that the code calls synchronously from `emit` is part of the emitting step. In
  `Connection` the variable `emitted` carries a step's events; `Lifecycle` conjoins
  its listeners (`Hear`) to the very step that emits.
- amqplib, the broker and the worker threads are the environment: a call they answer may succeed
  or fail at any later time. The relied-upon facts are amqplib's own: a closed connection
  closes its channels and rejects their pending calls before anything new can be opened, and
  `close()` on a connection that is already closing rejects.
- Payloads, names, log lines, back-off delays and the wording of errors are left out. Time is a
  timer that may fire, or an age that turns from `fresh` to `stale`; only `RateLimiter` counts it.
- A definition named "Mutant of X" is a plausible bug in X, kept next to it: with X replaced by
  it, the property it is listed with in `PROJECT.json` must fail. Specifications never use it.
- `src/src/utils/emit-safely.js` keeps a throwing application listener from breaking the emitter; that
  is why emitting is a step that cannot fail in the models.
- Definitions with `"external": true` in the map stand for what the code uses of amqplib, the broker or breakwater.

## 3. The modules

**`Connection`**: `RabbitMQConnection`. Its variables are the private fields of the class, plus
the local state of `#doConnect` (`dialAttempt`, `orphan`), the `#attemptReconnect` calls that
await it (`waiting`, `resuming`), the `disconnect` calls in flight (`closing`) and the broker's view
of every connection (`amqp`). `Connect`, `Disconnect(d)`, `TimerFires` and `ConnectionCloses(c)`
are the entry points; `DialInstalls`, `DialOrphaned`, `OrphanClosed`, `DialTriesNext`,
`DialGivesUp`, `AttemptResumes` and `CloseSettles` are what follows their awaits. `StartReconnection` is
`startReconnection` with `#scheduleReconnect`.

**`ConnectionService`** is what a user of the connection may count on: a link that is `down`, `seeking`, `up` or
`gaveUp`, and the last explicit call (`want`). Endpoints, timers, dials and budgets are gone. `Connection` maps its
state to it (`Link`, from `getConnectionState()`) and implements it: `ImplementsService`.

**`Lifecycle`** extends `Connection` with the facade. A restore `r` is a process through
`building`, `ensuring` and `recreating` (`#doRestoreState`), `restorePromise` is the single flight of
`#restoreState`, and the shared `#doConnect` is `connectPc`. A `ConnectionStep` is a step of
`Connection` that the application did not call, together with the facade's listeners. One
consumer stands for all; `consumes` counts its `channel.consume` calls per pool. `disconnect` is
the sequence `FacadeDisconnect`, `Disposed`, `PoolClosed`, `FacadeCloseSettles`. The disconnects in `Signals` are those that
the handlers of `enableGracefulShutdown` call; when one is through, the process ends (`exited`) and nothing runs any more (`Runs`).

**`ChannelPool`**: one pool on one connection. Slot states are those of `initialize` and of the
replacement loop (`replacing`, `sleeping`); a channel's listeners close over the slot or id it was
opened for, recorded in `home`. `Lose` is the loss of a set of channels: one that dies, or all of
them when the connection goes.

**`DelayProbe`** composes `isDelayPluginEnabled()` with the pool: a probe takes a dedicated channel under an id of its own, asserts an exchange
that a broker without the plugin answers by closing the channel, deletes it again and releases the channel whatever the answer. It extends
`ChannelPool`, whose actions it interleaves with its own, and loses slot channels to `setupDelayExchange` in the same way.

**`SequentialProcessor`**: the processor's three maps (`processing`, `pending`,
`pendingByDependency`) and the pipeline around it: delivery, decoding (a turn of the event loop
only for compressed content), callback, and the release loop, which awaits one dependent after another
(`releasing`, `child`). The depends-on headers (`dependsOn`) are chosen once, in `Init`. `Cleanup` is the sweep, `Dispose` the end of the consumer.

**`Rpc`**: `request`, the reply consumer's setup with its epoch fence, and every way a request
ends; `respond` on the far side may answer more than once, since its queue redelivers. It carries
its own small pool and connection: a loss advances `connectionEpoch`, as the facade does by
calling `reset`.

**`WorkerPool`**: a worker is `<<id, n>>`, the `n`-th respawn of an id. Idle workers and waiting
jobs are the two FIFO queues of the code.

**`ConsumerManager`**: a consumer's record (`info`: status, tag, epoch, cancelled), its dedicated channel, its worker pool and the processes that work on
it: the first setup, two recovery loops (`handleConsumerLoss`), the recreation of `recreateAll()` and `unsubscribe()`. A setup is three round trips
(`ChannelOpened`, `ConsumeAnswered`, `SetupSettles`), each followed by the fences of the code (`AbandonsEarly`, `StillOurs`, `AbandonsConsume`). A drop
waits for the handlers in flight (`Drained`, `DrainTimesOut`), then sweeps tags, channel and threads (`Drop`). The facade appears as the events it
causes: `ConnectionDrops`, `PoolInstalled`, `RecreateAll`, `DisposeAll`.

**`Publisher`**: every publishing call through preflight (`Preflight`, `RateLimited`), attempts under the breaker with a back-off between them, encoding, writes that may meet
a full buffer (`WriteNext`, `Drains`), confirms, nacks and returns. `unconfirmed` is what an attempt still has to send, `registry` the return watches of
`routable-publish.js`. The breaker is external, modelled from its use: policies are numbered and `reset()` starts a new one. `publishWithCache`, whose
generator returns or throws (`GeneratorEnds`), and `moveToDeadLetter` are calls of the same kind.

**`RateLimiter`**: the four strategies as operators over integer time (`TakeTokens`, `CountRequest`, `Occupy` for both logs) and the limiter around them, for one key: `CheckRateLimit`,
`GetStatus`, `BlockKey`, `Reset`, `Sweep`, `Dispose`. `CostOf` and `Before` are prefix sums, of a log and of what was granted. `Tick` is real time, `ClockSetBack` moves `Date.now()` against it. Tokens are counted in `1/Window`, so that
the refill is exact. The strategy and the burst (`burst`, none or one of `BurstLimits`, however large) are chosen in `Init`.

**`Delivery`**: one message from its publication to its end: `createQueue` with its dead letter topology, each call of which may fail half-way, the
compression flag, the handlers with their retry policies, one for the queue and one for its dead letter queue (`Policies`, `ShouldRequeue`), manual settlements, the prefetch optimizer, and channels that are lost and recreated. A
broker refuses a settlement it does not expect by closing the channel (`ChannelCloses`); `refused` keeps whose settlement it was, the pipeline's or the handler's own.

The configurations give the constants of these modules their values directly;
`MCSequentialProcessor` adds the deliveries and dependency graphs of its runs. The theorems are in modules of their own, each of which extends what it is
about: `LifecycleProofs` (the facade and the connection it composes), `ChannelPoolProofs` (pool and probes), `SequentialProcessorProofs`, `RpcProofs`, `WorkerPoolProofs`,
`ConsumerManagerProofs`, `PublisherProofs` (the publisher, and the rate limiter it asks first) and `DeliveryProofs`.

## 4. What the runs show

Each component has one run that must pass, with its invariants, action properties and liveness
properties together.

| run | shows |
|---|---|
| `connection` | With two endpoints, a budget of two and two overlapping `disconnect()` calls: every open connection has an owner (`OwnedConnection`), a cycle always has a dial or a timer (`ReconnectionArmed`), attempts stay in budget (`BudgetRespected`), a dial gives up only after every endpoint (`EveryEndpointTried`), a disconnect that is not taken back ends with nothing open at the broker, late dials included (`ShutsDown`), and all of it amounts to the abstract service (`ImplementsService`). |
| `lifecycle` | With losses, failed stages, manual connects, disconnects and a termination signal in any order: no two restores work on one connection (`SingleRestore`), no consumer consumes twice (`SingleConsumer`), every open pool is in place or still owned by its restore, and the one in place sits on the live connection (`PoolInPlace`); no `connect()` hangs, a parked one is woken by whatever comes, a later `disconnect()` included (`ConnectSettles`); a signal ends the process, with nothing left open (`SignalExits`). |
| `channelPool` | Dead channels leave rotation (`SlotsAlive`), no channel gets out of reach: a closed pool leaves no slot channel open and dedicated channels are found by their owner (`NoLostChannel`), and an emptied slot is refilled, given up on, or its pool closes (`SlotRecovers`). |
| `delayProbe` | Overlapping probes neither take each other's channel nor leave one behind, whatever is lost or closed meanwhile (`ProbesContained`). |
| `sequential` | For a chain and a fan of dependencies, with one duplicate and one compressed delivery: no callback runs for a settled delivery (`NoRunAfterSettle`), a dependent does not overtake its dependency (`OrderRespected`), and every delivery is settled or goes back with its channel (`EverySettles`). |
| `rpc` | The reply channel in use belongs to the current connection, and listeners do not pile up (`ReplyRoute`); no promise is settled twice (`SettledOnce`) and every request settles (`EverySettles`). |
| `workerPool` | A worker has one job (`OneJobPerWorker`), and every `run()` settles although workers die beyond their budget (`EveryRunSettles`). |
| `consumerManager` | With a first setup, two recovery loops, a recreation, an `unsubscribe()` and a disposal on one consumer, subscribed outside of a restore: it never consumes twice (`NoDoubleConsume`); no tag, channel or thread outlives it (`NothingOutlives`); a drop does not cut a handler in flight before its grace period (`DrainProtects`); recovery gives up only on a consumer nobody serves (`GiveUpOnlyOnLost`); `unsubscribe()` ends (`Stops`) and a silent consumer consumes again, is dropped, or goes to the next restore (`Recovers`). |
| `publisher` | A call that resolves was delivered in full, over however many attempts and channels (`ResolvedMeansDelivered`); what was confirmed is not sent again (`NoRepublish`); a return fails its own publish and no other (`ReturnsMatched`); every call settles (`EverySettles`). |
| `rateLimiter` | What is admitted of a key stays within what its strategy promises, over any span, and is nothing while the key is blocked (`LimitsHold`); the sweep takes nothing from a key, and changes nothing that a caller can see but for a bucket that two windows do not fill (`SweepInvisible`); whatever is not above the capacity is admitted later (`RetryHelps`). |
| `delivery` | The broker refuses no settlement of the pipeline's, and none of a handler's but in a subscription without acknowledgements (`SettledOnce`); in a queue and in its dead letter queue retries stay below their policy and no message is given up before the deliveries it was promised (`RetryBudget`); a consumer reads what was published (`DecodedAsPublished`); and no message is stuck, goes round for ever, or is lost once its topology exists (`EveryMessageEnds`). |

A property named after one idea may join several named parts (`PoolInPlace`, `NoLostChannel`, `ProbesContained`,
`NothingOutlives`); each part is a definition of its own, with its own comment.
Each module states its type invariant, and each but that of `DelayProbe` is a theorem; it holds on the instances of the runs too when
it is added to the configurations as an `INVARIANT`.

Some constants say what the application or the deployment may do: `Overlap`,
`SubscribeInRestore` (of `Lifecycle` and of `ConsumerManager`), `HasExchange`, `GetInClose`, `MaxGets`, `CancelRecovery`, `Compressed`, `Races`. In the passing
runs they have the value under which the properties hold; section 5 says what the other value
leads to. They make the assumptions behind each property visible in its configuration.

## 5. Where the code and its own words differ

`connection_leak` checks `OwnedConnection` with `Overlap = TRUE` and TLC finds it violated: a `connect()` during a pending
`disconnect()` installs a connection that the `finally` of the disconnect then forgets, still open.

The other differences met while modelling are reproduced by checking the property named here, with the change given, in the passing
configuration of its module:

| property | change | behaviour, and what it contradicts |
|---|---|---|
| `Lifecycle!RestoreRetried` | as a `PROPERTY` | After a failed restore the connection is up, so no cycle runs (`index.js:450`, `:292`); `README.md:1326` says the cycle keeps running. |
| `Lifecycle!SingleConsumer` | `SubscribeInRestore = TRUE` | `subscribe()` between the installation of the pool (`index.js:361`) and `recreateAll()` consumes twice, although the comment at `index.js:219` is about not doubling consumers. |
| `ConsumerManager!NoDoubleConsume` | `SubscribeInRestore = TRUE` | The same call seen from the consumer: nothing in `subscribe()` (`consumer-manager.js:571-574`) waits for the restore, so its first setup and the recreation (`:846`) set the consumer up side by side. It consumes twice, on two dedicated channels of one id of which only the later is known. So `NothingOutlives` fails too (the other channel is left behind), and `DrainProtects`, `GiveUpOnlyOnLost` and `Stops` with it: the consume on the forgotten channel goes on after `unsubscribe()`. |
| `ChannelPool!DedicatedTracked` | `MaxGets = 2` | Two concurrent calls for one id open two channels and lose one (`channel-pool.js:143`). |
| `SequentialProcessor!DuplicateDropped` | as a `PROPERTY` | A duplicate of a parked message runs if the dependency has failed meanwhile (`sequential-processor.js:34`); `README.md:1353` says it is acked and dropped. |
| `ConsumerManager!GiveUpOnlyOnLost` | `Races = TRUE` | A recovery that gives up drops a consumer that is being recreated: the recreation bumps the epoch before its consume succeeds, and the give-up (`consumer-manager.js:406-409`) is awaited after its fence. `stryker-mutation-policy.js` says that a "give-up cannot drop while a recreation is in flight". |
| `ConsumerManager!WorkersReaped` | `Races = TRUE`, two consumers, no faults, one pool | A `subscribeParallel()` while `disposeAll()` awaits the worker pools it has listed registers another pool, which `workerPools.clear()` then forgets, running (`consumer-manager.js:882-884`); the comment at `:210-213` is about leaving no thread behind. |
| `Publisher!ResetIsEffective` | as an `INVARIANT` | A call in its back-off keeps the breaker policy it began with (`publisher.js:148`) and is refused for failures before the reset; `README.md:1338` says the breaker resets on reconnection. |
| `Delivery!PrefetchMatches` | as an `INVARIANT` | A handler that ends between the new epoch and the new channel takes the prefetch for restored (`consumer-manager.js:757-760`); the comment there says the two match. |

One more is about words only: `stryker-mutation-policy.js` holds that a stale restore reaching its `finally` without owning the slot "needs a third restore
caller that today's call graph cannot produce", while `index.js:229` calls it "Reachable, not hypothetical". The mutant `SlotAfterAny` breaks
`SingleRestore`, so the model sides with `index.js`.

Further limits met while modelling, each visible with one constant changed in a passing
configuration or excluded by a property's own wording:

- `HasExchange = FALSE` breaks `PoolInPlace`: `disconnect()` looks for a pool before a restore in flight
  installs its own, and with no exchange to assert nothing fails later, so the pool stays.
- `GetInClose = TRUE` breaks `NoLostChannel`: a dedicated channel that opens after `close()` stays open, out of
  reach.
- `CancelRecovery = TRUE` breaks `EverySettles` (and `OrderRespected`) of the sequential processor: recovery after a broker
  cancel, on the same channel, drops the processor with its parked messages.
- `Compressed` containing a dependency breaks `OrderRespected`: a dependent overtakes it while it is being inflated.
- `ConnectSettles` excludes a `connect({ waitForConnection })` whose dial fails after `disconnecting` was emitted: it
  parks for an event that has already fired. Likewise a `connect()` after `disconnect()` that joins the dial still in
  flight gets the result of the doomed dial.
- A restore that is in `recreateAll()` when the connection is lost again, or whose consumer cannot be recreated,
  still announces `reconnected` (`Finish`).
- A signal during the application's own pending `disconnect()` may end the process while that call still awaits the AMQP close: `NothingOpen`
  asks that nothing is open, not that every close has been answered.
- `ConsumerManager` counts as `forsaken` two consumers that nobody recovers, and `Recovers` excludes them: one whose recreation failed on a healthy pool
  (`consumer-manager.js:871`), and one whose channel closed between `consume-ok` and the watch (`:556-566`). A consume that is in flight while `unsubscribe()` runs is
  revoked only when it is answered.
- `setupDelayExchange` on a broker without the plugin costs the pool a slot channel (`topology.js:116`); it is replaced.
- A `burstLimit` of more than `2 * maxRequests` is accepted (`rate-limiter.js:44`, and `tests/rate-limiter.test.js:682-689` has 10 for 4). The sweep drops a bucket that was left alone for two
  windows, and such a bucket then comes back full before its refill would have filled it, although the comment at `rate-limiter.js:49-52` says that "the sweep only bounds memory".
  The run has such a burst (6 for 2), so the properties say how much: `SweepInvisible` asks for equality only of a `ModestBurst`, and of any other that the sweep takes nothing; `AdmittedRate` grants
  the bucket one full burst per two windows where that is more than the refill (`TwoWindows`).
- `ackMessage()` and `nackMessage()` do not look at the subscription (`consumer-manager.js:84-108`): for a `noAck` delivery they send a settlement that the broker refuses, at the price of the channel.
  The run has that step; `SettledOnce` is about the pipeline's settlements and, with acknowledgements, about the handler's.
- A fixed window counts from zero again when the clock is set back across its start, so its part of `AdmittedRate` is about a clock that is not.
- An admitted leaky-bucket request sleeps outside of the limiter: a later one may overtake it, and a `blockKey()` meanwhile does not stop it.
- After `disconnect()` and `connect()` the limiter works without its sweep (`index.js:487`, `Dispose`): correct, but its memory is no longer bounded.
- Text that looks like JSON comes back as another type (`FromBuffer`); `DecodedAsPublished` is about objects and other text.

## 6. Bounds and fairness

*Bounds.* Faults and application calls are counted (`MaxFaults`, `MaxCalls`, `MaxLosses`,
`MaxAnswers`); connections, channels, restores, requests and jobs are finite sets of names, never reused.
The names are interchangeable, so each module hands them out in one order (`NextConn`, `NextChannel`, `NextRestore`,
`NextRequest`, `NextJob`); this takes the place of a symmetry set, which would be unsound with
liveness. Where liveness is checked there are enough names for every connection or channel the faults and
calls can call for, so that no behaviour ends for want of one.

Each counter under test can reach its limit: six faults exhaust two endpoints three times, so a
budget of two is spent and refused; four calls allow connect, disconnect, connect, disconnect with losses in
between. Four restores let a stale one end while a second owns the slot and a third starts. Three faults in a pool of
two slots let one slot die and fail its replacement twice, or both die. Four deliveries over three messages give
one duplicate and both a chain, in which a dependency is itself a dependent, and a fan. Two requests suffice for
one to sweep what belongs to the other. Two workers with one respawn each and four jobs exhaust every
budget with jobs still queued. One consumer is enough for `ConsumerManager`, since consumers share nothing but the pool: two pools, four channels and
tags and two faults let a loop be overtaken by a recreation and by a second loop, with a last attempt (`MaxAttempts = 2`) failing in between. In `Publisher` one of two calls is a
batch, so that a batch is partly confirmed when its channel closes while the other call has a return under way; two failures open the breaker and one reset
falls into a back-off. In `RateLimiter` six instants are three windows of two, so that a bucket can be left alone for longer than the two windows after which it is swept; of the two burst limits these fill one and not the other; the costs include one above `MaxRequests`, and the clock is set back once. In `Delivery` three attempts
are more than the two that a classic queue can count, the dead letter queue has a consumer with a policy or without, and seven deliveries leave room for both budgets with a loss and a manual nack on top. In `DelayProbe` one slot and six channels serve two overlapping probes and
one other owner with a loss. `Lifecycle` has one signal, `d2`, which may overlap with the application's `disconnect()`. `MaxReconnectAttempts = Infinity`, and `Overlap = TRUE` where a theorem has
no such hypothesis (`SingleRestore` among them), are covered by the theorems rather than by a passing run.

`CHECK_DEADLOCK FALSE` is set everywhere: a client that is disconnected, or has nothing to do, may stop.

*Fairness.* Weak fairness is given to what the event loop and amqplib do on their own: a dial, a channel
open or a `close()` settles, an armed timer fires, a due continuation runs, a decode or an RPC deadline
ends, a worker that has raised `error` exits, a drain, a confirm, a return or a `consume-ok` comes or the channel goes, a grace period ends. None is given to the application's calls or to losses, and a wait's own timeout
(`WaitTimesOut`) is left out too, so that no property depends on a fault or on a deadline the caller may not
have set. Three assumptions concern
code that is not in the repository: an application's message callback returns (not assumed in `ConsumerManager`, where `unsubscribe()` ends by its grace
period), the `messageGenerator` of a `publishWithCache` ends, by returning or by throwing, and a worker answers or exits. `RateLimiter` and `DelayProbe` are checked for safety only. The number of faults is finite, so a broker is in the end reachable; with an infinite budget
and an unreachable broker the cycle is designed to go on for ever.

## 7. What is proved

The theorems hold for every value of the constants that satisfies the named `ASSUME`s of the modules: names of absent things are not
names of things, sets that are counted are finite, and bounds are natural numbers. What a theorem needs beyond these is its hypothesis, and section 5 says for each which behaviour
makes it necessary. Every property is proved from an inductive invariant, which was checked with TLC on the configuration of its module before it was proved. The proof that a step
preserves an invariant has one step per action; a fact that several actions need, such as what a settlement or a loss of channels does, is a lemma.

### The connection

`LifecycleProofs` proves in its first part, for every number of endpoints, connections, concurrent
`disconnect()` calls, faults and calls and for every retry budget, including `Infinity` and zero:

| theorem | statement |
|---|---|
| `TypeCorrect` | `Spec => []TypeOK` |
| `Invariance` | `Spec => []IInv` |
| `BudgetHolds` | `Spec => []BudgetRespected` |
| `DisconnectHolds` | `Spec => []DisconnectIsFinal` |
| `ArmedHolds` | `Spec => []ReconnectionArmed` |
| `LiveHolds` | `Spec => []ConnectedMeansLive` |
| `EndpointsHold` | `Spec => EveryEndpointTried` |
| `OwnershipHolds` | `ASSUME ~Overlap PROVE Spec => []OwnedConnection` |
| `Refinement` | `ASSUME ~Overlap PROVE Spec => ImplementsService` |

The assumptions are the named `ASSUME`s of `Connection`: null is not a connection, there is at
least one endpoint, the budget is a natural number or `Infinity`, the bounds are natural numbers.

None of the properties is inductive by itself. `ReconnectionArmed`, for instance, survives a
dial that installs its connection only because `connecting` cannot coexist with a second dial,
and survives the orphaning of a dial only because a shutdown has already changed the state. `IInv` adds three
facts that tie the phases together: `ShutdownQuiet` (while the shutdown flag is set there is no
timer and no cycle, and the state is `disconnecting` or `disconnected`), `DialPhase` (a dial in flight
excludes `connected`, and an orphan exists exactly while it is being closed under a shutdown) and
`CyclePhase` (a running cycle excludes `connected`). The proof that a step preserves `IInv` has one step per
action; typing is split in two lemmas, because counters need arithmetic and
Boolean-valued fields do not. The steps are those of `Core`, the actions of the class without the counting of calls and faults, so that
the same lemmas serve for the connection inside the facade.

`EndpointsHold` is about the rotation `(i + 1) % n`: its invariant `TriedPart` says that the endpoints a dial has tried are those `Behind` the index within as many
steps as it has made. After `n` attempts these are all of them, wherever the rotation stood.

`OwnershipHolds` rests on `IInv` and `OInv`: while a `disconnect()` awaits a close, the shutdown flag is
set (`CloserPhase`), so no dial can install a second connection that the `finally` would forget.
That fact, and the theorem with it, needs `~Overlap`; `connection_leak` shows that it cannot be
dropped.

`Refinement` shows that the connection implements `ConnectionService`. Its invariant `RInv` is `IInv`, `OInv` and `SeekPhase`, which ties what the user sees
to what is under way and to who asked for it: a dial that is not doomed shows as `connecting`, an armed timer as `connecting` or `reconnecting`, and the link is anything but
down only after a `connect()` that no `disconnect()` has taken back. Without it a dial that installs its connection need not be one that was asked for, and a
timer that fires could start to seek a link nobody wants. The lemma `SeekStep` carries `SeekPhase` over every action, and `ServiceStep` shows action by action
that a step is one of `Ask`, `Establish`, `Lose`, `GiveUp` and `Release`, or leaves link and wish alone. `~Overlap` is needed here too: the forgotten connection of
`connection_leak` drops the link without releasing it.

### The facade

The second part of `LifecycleProofs` is about the facade composed with its connection, for any number of restores, connections and `disconnect()` calls.

| theorem | statement |
|---|---|
| `LifecycleInvariance` | `LifecycleSpec => []FInv` |
| `LifecycleTypeCorrect` | `LifecycleSpec => []LifecycleTypeOK` |
| `SingleRestoreHolds` | `LifecycleSpec => []SingleRestore` |
| `PoolInPlaceHolds` | `ASSUME ~Overlap, HasExchange PROVE LifecycleSpec => []PoolInPlace` |
| `SingleConsumerHolds` | `ASSUME ~Overlap, ~SubscribeInRestore PROVE LifecycleSpec => []SingleConsumer` |

`SingleRestore` holds because a restore that works on the live connection owns `restorePromise` (`RestoreOwnsSlot`). That is inductive only together with the phases
of the connection and with `ConnectionUsed`: since connections are not reused, a restore of an older connection can never again be one of the connection in place. `Overlap` does not matter here.
It does for the pools: `GInv` adds that a connection being closed has its `disconnect()` (`CloserOwns`), that an open pool belongs to somebody (`PoolOwned`), and that a restore that has not
installed its pool finds no other of the same connection in place (`PoolPlace`). `PoolCurrent`, for which an exchange must be asserted, and `ConsumedOnce` follow on top of it.

### The channel pool and its probes

`ChannelPoolProofs` is about any number of slots, owners, probes, channels and faults.

| theorem | statement |
|---|---|
| `PoolInvariance`, `TypeCorrect` | `Spec => []PInv`, `Spec => []TypeOK` |
| `SlotsHold` | `Spec => []SlotsAlive` |
| `ZombiesHold` | `Spec => []NoZombies` |
| `LostHold` | `ASSUME MaxGets <= 1, ~GetInClose PROVE Spec => []NoLostChannel` |
| `ProbesHold` | `ASSUME MaxGets <= 1, ~GetInClose PROVE ProbeSpec => []ProbesContained` |

`PInv` needs that what a slot holds was opened for that slot (`HomePart`), because the `close` listener of a channel acts on the slot it closes over, and the converse `SlotTracked`: an open
channel of a slot is in it. `DInv` says the same of the dedicated channels, where it holds only if an id has one open in flight and none while the pool closes. The proof of `ProbesHold` first
shows that the pool's invariants survive a probe's steps (`PoolUnderProbes`), then that a probe is disturbed by nobody's step but its own (`ProbesApart`).

### The sequential processor

`SequentialProcessorProofs` is about any number of messages and deliveries, any dependency graph and any choice of compressed deliveries.

| theorem | statement |
|---|---|
| `Invariance`, `TypeCorrect` | `Spec => []IInv`, `Spec => []TypeOK` |
| `NoRunHolds` | `Spec => NoRunAfterSettle` |
| `OrderInvariance` | `ASSUME ~CancelRecovery PROVE Spec => [](IInv /\ OrderInv)` |
| `OrderHolds` | `ASSUME ~CancelRecovery, DependenciesInTurn PROVE Spec => OrderRespected` |

`NoRunAfterSettle` rests on `ParkedPart` and `IndexPart`: the three maps agree on what is parked, so a delivery that a duplicate or the sweep has settled is out of the map
the release loop reads. `OrderInv` adds that a message handed to the processor of an open channel has run, was collected, or is still in the maps (`HandledPart`), which is why a dependent delivered after it
either finds it there or need not wait. `DependenciesInTurn` says that no message another one depends on is compressed. Both hypotheses are needed (section 5).
The sweep's filter, `Without`, is a recursive function, because the provers have no definition of `SelectSeq`; what it keeps is shown by a minimal counterexample, over a set of indices.

### RPC

`RpcProofs` is about any number of requests, channels, losses and answers.

| theorem | statement |
|---|---|
| `Invariance`, `TypeCorrect` | `Spec => []IInv`, `Spec => []TypeOK` |
| `RouteHolds` | `Spec => []ReplyRoute` |
| `OnceHolds` | `Spec => []SettledOnce` |
| `NothingLeaks` | nothing is left of a settled request in the map, the timers or the decoder |

`ReplyRoute` rests on `EpochPhase`: a setup whose epoch is still current has been given a channel of the current connection, so the fence after its awaits lets nothing stale through. `SettledOnce`
rests on `SettlePhase`: a request that is not settled is in the map with its timer or in the decoder, never in both, and one that is settled is in neither.

### The worker pool

`WorkerPoolProofs` is about any finite set of workers, any jobs and every respawn budget: `Invariance`, `TypeCorrect` and `OneJobHolds` (`Spec => []OneJobPerWorker`).
The invariant `Placed` says that the workers with a job and the idle ones are alive and apart, that nobody is idle twice, and that the queue holds waiting jobs, each once. It is stated of arguments,
not of variables, since `release` hands a worker on in the middle of a step. `Numbered` keeps a respawn from taking the number of a live worker. Lemmas on queues (`QueueSteps`, `RemoveFirstSteps`)
say what the `shift`, `push` and `splice` of the code leave behind.

### Consumers

`ConsumerManagerProofs` is about any number of consumers, pools, channels, consumes, attempts, handlers and faults.

| theorem | statement |
|---|---|
| `Invariance` | `ASSUME ~SubscribeInRestore PROVE Spec => []IInv` |
| `TypeCorrect` | `ASSUME ~SubscribeInRestore PROVE Spec => []TypeOK` |
| `NoDoubleConsumeHolds` | `ASSUME ~SubscribeInRestore PROVE Spec => []NoDoubleConsume` |
| `NothingDangles` | `ASSUME ~SubscribeInRestore PROVE Spec => [](TagsResolve /\ NoLeakedChannel)` |
| `FencedInvariance` | `ASSUME ~Races, ~SubscribeInRestore PROVE Spec => [](IInv /\ FencedInv)` |
| `NothingOutlivesHolds` | `ASSUME ~Races, ~SubscribeInRestore PROVE Spec => []NothingOutlives` |
| `DrainProtectsHolds` | `ASSUME ~Races, ~SubscribeInRestore PROVE Spec => []DrainProtects` |
| `GiveUpOnlyOnLostHolds` | `ASSUME ~Races, ~SubscribeInRestore PROVE Spec => []GiveUpOnlyOnLost` |

`NoDoubleConsume` needs to know what every process may still own at every `await`. `IInv` says it for one consumer at a time (`Local`), with one row per place a process can wait at (`ProcRow`): whose
epoch it carries, which channel it has opened and whether a consume on it can still be answered. `NumberPart` keeps pools, channels and tags from being used twice; `ChannelPart` ties an
open channel to its pool; `RestorePart`, `SetupPart`, `LoopPart` and `DropPart` say when the recreation, the first setup, the recovery loops and a drop can be under way side by side. The lemmas `BrokerMoves`, `ProcMoves`,
`TagSteps` and `InfoSteps` say what a step does to the channels, processes, tags and records; `StaysQuiet` dismisses the consumers a step is not about.

`~SubscribeInRestore` cannot be dropped: with a `subscribe()` inside a restore the first setup and the recreation are under way side by side, which `SetupPart` and `RestorePart` rule out and section 5 shows
to double the consumer.

`~Races` leaves out the two races of section 5: a give-up whose drop is awaited after its fence, and a `subscribeParallel()` that `disposeAll()` overtakes.
Without them `FencedInv` is inductive: worker threads that are spawned wait for their first setup, and those that are owned for a drop (`WorkersPart`); a loop gives up on the pool in place, for
a consumer that nothing else serves (`GivePart`); a drop that awaits the threads has left no handler running, unless its grace period passed (`AwaitPart`); `unsubscribe()` is at work on the last consume of a
cancelled consumer (`CancelPart`); and a channel is closed under a handler only when its consumer is dropped (`CutPart`).

### Publishing

`PublisherProofs` is about any number of calls, any size of batch, every retry budget and threshold, any number of channels, resets and faults.

| theorem | statement |
|---|---|
| `Invariance`, `TypeCorrect` | `Spec => []IInv`, `Spec => []TypeOK` |
| `RepublishHolds` | `Spec => []NoRepublish` |
| `ReturnsHold` | `Spec => []ReturnsMatched` |
| `DeliveredHolds` | `Spec => []ResolvedMeansDelivered` |

The invariant is `Sound`, of each call: what is known to be confirmed and what is unconfirmed are disjoint and together make up the call, so an attempt that starts from `unconfirmed` neither repeats nor
forgets a message; and a mandatory message is confirmed only once it is in a queue, because its return comes first. `RegistryPart` says that the return watches are exactly the mandatory messages in flight. No property depends on
the breaker beyond its type.

### The rate limiter

The second part of `PublisherProofs` is about every strategy, any limits that `LimitsAssumption` allows, any costs and durations, and any length of time and step back of the clock.

| theorem | statement |
|---|---|
| `LimiterInvariance`, `LimiterTypeCorrect` | `LimiterSpec => []LimiterInv`, `LimiterSpec => []LimiterTypeOK` |
| `SweepHolds` | `LimiterSpec => []SweepInvisible` |
| `RetryHolds` | `LimiterSpec => []RetryHelps` |
| `LimitsProved` | `LimiterSpec => LimitsHold` |

`LimiterInv` is `EntrySound`: a log's total is what its requests cost, no entry holds more than its capacity, and nothing is stamped later than a clock that was never set back would show. From it follow `SweepHolds` and `RetryHolds`. No theorem
assumes anything of a burst limit but that it is a positive number: where two windows do not fill a bucket, `SweepInvisible`, `TwoWindows` and `Patience` say so themselves.

`LimitsProved` needs to relate the entry to the history of what was granted, which `RateFits` does strategy by strategy, for every moment `u` up to now.
If the bucket was refilled after `u`, what it holds and what was granted since `u` are together within its size and its gain from `u` to that refill; if not, nothing was granted since `u`; and if the key is not known,
so much time has passed that the whole bucket is again within the gain (`BucketFits`). The last is what the sweep leaves behind, and why the gain is that of `TwoWindows`. The lemmas `FitsRefill`, `FitsDropped` and `FitsLater` say what a refill, a sweep and the passing of time do to it, and `FitsRate` that the promised rate follows. What a log holds, without any number of requests at its front that are
stamped before `u`, still counts all that was granted since `u` if `u` is within a window of now (`LogFits`): an eviction takes such requests, whatever the clock says. A counter has all that was granted in its window
if the clock was never set back (`WindowFits`). `BlockPart` says that a block which has not been waited for is in force on the clock that was set back with it. Sums are handled
by their prefixes (`SumExists`, `CostSteps`, `BeforeSteps`), by induction in the form of a minimal counterexample on sets of numbers (`Induction`).

### Deliveries

`DeliveryProofs` is about any number of messages, deliveries, channels and faults, every `attempts`, any policies of the dead letter queue's consumer and every range of prefetch.

| theorem | statement |
|---|---|
| `Invariance`, `TypeCorrect` | `Spec => []IInv`, `Spec => []TypeOK` |
| `OnceHolds` | `Spec => []SettledOnce` |
| `BudgetHolds` | `Spec => []RetryBudget` |
| `DecodedHolds` | `Spec => []DecodedAsPublished` |

`SettledOnce` needs `HoldPart`: a delivery that may still be settled on the live channel is the last one of a message the broker takes to be held, and carries what the broker sent with it. A settlement that the broker refuses closes the channel, after which nothing can be settled on it (`RefusedKeeps`); only a handler without
acknowledgements sends one. `RetryBudget`
needs `CountPart`, which relates the broker's `redelivered` flag and count to the deliveries made, separately for classic and quorum queues: the code reads these, never the number of its own retries.
`DecodedAsPublished` needs that the header says what `encode()` did (`CodecPart`).

### Left to TLC

- Liveness (`ShutsDown`, `ConnectSettles`, `SignalExits`, `SlotRecovers`, `EverySettles`, `EveryRunSettles`, `Stops`, `Recovers`, `EveryMessageEnds`): fairness and `ENABLED` are outside the prover's reach.

All invariants and safety properties of the runs are theorems; where one has a hypothesis, the configuration of its run has the same.

No module declares a `RECURSIVE` operator, so that each can be proved about.

## 8. What is not modelled

- The circuit breaker's own state machine is that of an external library; only what `publisher.js` and `circuit-breaker.js` rely on is in `Publisher`.
- `setExchange` during a `publishWithCache` between its key and its publish; `setSerializer`, the cache's size and expiry, the getters of the facade.
- The bytes of JSON and gzip, custom serializers, credentials, connection strings, TLS options, back-off delays, logging and the wording of errors.
- Headers, priorities and expiration of messages, and the arguments of declarations other than the dead letter ones.
- The sleep of an admitted leaky-bucket request (see section 5), and more than one key of the limiter.
- Several consumers on one queue; consumers are independent in the code except for the pool and the worker threads of each.
- The race at `rpc.js:143`, where a channel closes between `consume-ok` and its installation, is in the model
  (requests still settle) but no property forbids the dead channel being installed.
- Examples, benchmarks, tests and the mutation-testing policy of the repository.

## 9. Plan

Done: `Connection` with its proofs and its refinement of `ConnectionService`, `Lifecycle` with graceful shutdown, `ChannelPool`, `DelayProbe`,
`SequentialProcessor`, `Rpc`, `WorkerPool`, `ConsumerManager`, `Publisher`, `RateLimiter`, `Delivery`.

Proved: every invariant and every safety property the runs check (section 7).

What could follow: a refinement of what a subscriber sees, from `ConsumerManager` and `Lifecycle` together; the sleep of the leaky bucket inside the limiter; the composition of `Rpc`
with `ChannelPool` in place of its own small pool. Liveness stays with TLC.
