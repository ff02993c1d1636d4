# TLA+ models of the higo connection life cycle and resilience layer

This directory holds TLA+ models of the Go code under `src/`, along with TLC
configurations that check them. `PROJECT.json` lists the components, runs,
faulty variants (mutants), the source line each definition stands for, the
findings and the hazards. This README explains them.

## The system

The core named by `spec.md` is a uniform life cycle for network-backed
resources (storage engines in `src/storage`, message-queue clients in
`src/mq`). It is built from the parts below.

| Part | Code | What it does |
|------|------|--------------|
| State, Base | `storage/types.go:21-59`, `unnamed/part_019` | Holds the `Disconnected/Connecting/Connected/Disconnecting` state in an `atomic.Int32`. `SetState` is a store and `CompareAndSwapState` a CAS. |
| Adapters | `storage/types.go:108-234` (redis), `storage/mongodb`, `storage/clickhouse`, `storage/elasticsearch`, `unnamed/part_016` (mysql) | `Connect` CASes Disconnected→Connecting, dials and pings, stores the client and sets Connected. `Ping` checks the client for nil and pings it. `Close` checks for nil, then goes Disconnecting, closes, goes Disconnected and clears the client. |
| Reconnectable | `unnamed/part_018:69-188` | A decorator. `Connect` is `connectWithRetry`: attempt 0, then up to MaxRetries retries after cancellable backoff waits. On a failed `Ping` classified as a connection error, it takes `r.mu`, runs `Close`, runs `connectWithRetry` and pings again. |
| Traced, Metriced | `unnamed/part_018:1-66`, `unnamed/part_015` | Pass-through decorators that add spans and metrics. |
| Builder, Unwrap | `storage/builder.go` | Applies the decorators in a fixed order and peels them off again. |
| Manager | `storage/manager.go` | Holds a registry. `ConnectAll` and `HealthCheck` fan out one goroutine per storage; `CloseAll` closes in reverse order, one at a time. |
| MQ | `mq/*.go`, `mq/memory/memory.go`, `unnamed/part_038` | The same pattern for message-queue clients, plus Publish/Subscribe. |
| Resilience | `resilience/circuitbreaker.go`, `retry.go`, `ratelimiter.go` | Executors composed by `Chain`: a circuit breaker (closed/open/half-open under `cb.mu`), a retry loop with capped exponential backoff, and a token bucket. |
| App runtime | `runtime/app.go`, `runtime/types.go`, `unnamed/part_028` (HTTP server) | `App` registers components with priorities, starts them in priority order after the beforeStart hooks, rolls back on a failure, and stops them in reverse. Its usual components are HTTP and gRPC servers. |
| Worker pool | `pool/worker.go` | A goroutine pool: a buffered task queue, workers spawned on demand up to a maximum, an idle timeout, and Stop / StopWait. |

The rest of the tree (lock, idempotent, the server group,
cache, eventbus, security) is application infrastructure that the core uses
or that sits beside it. The `components` list of `PROJECT.json` names every
part and its status.

The parts interact like this. Goroutines of the application, the manager's
`ConnectAll` and `HealthCheck` workers, and the shutdown path all call the
same decorated storage at the same time. Nothing serialises them except the
state CAS inside `Connect` and `r.mu` inside `Reconnectable.Ping`.

## Modules

### `StorageLifecycle` (abstract)

This is the life cycle every storage promises (spec section 3). It has one
variable, `state`, and five transitions:

- BeginConnect: Disconnected→Connecting
- ConnectSucceed: Connecting→Connected
- ConnectFail: Connecting→Disconnected
- BeginClose: Connecting or Connected→Disconnecting
- EndClose: Disconnecting→Disconnected

The constant `Start` lets an instance begin from a completed Connect.

### `ReconnectableStorage` (detailed)

This is one redis adapter wrapped by `Reconnectable`, called by the
goroutines in `Threads`. The mongodb and clickhouse adapters have the same
control flow.

**State.**

- `state` is `Base.state`.
- `client` is the `s.client` pointer: 0 is nil, k is the k-th client.
- `closed` holds the clients on which `Close()` has run.
- `nclients` counts the clients created.
- `up` says whether the server is reachable, and `outages` counts outages.
- `workload[t]` is the set of calls goroutine t makes, fixed in `Init`
  from the constant `Workloads`. `Init` also starts the storage either new
  or already connected, from `InitConnected`, so one run covers several
  scenarios.
- `mu` is the goroutine holding `r.mu`.
- `th[t]` is goroutine t's stack. The decorator frame is `op`, `pc`,
  `attempt` and `ctx` (whether its context is cancelled). The adapter frame
  is `in`, the label inside the adapter method; `cl`, the client the method
  loaded; and `res`, the method's result.

**Actions.** Each action is one step between two points where the Go
scheduler can switch goroutines. Those points are every atomic state
access, every read or write of `s.client`, and every network round trip.

| Action | Code |
|--------|------|
| `RedisConnectCAS` | `types.go:157-159`, the CAS or the invalid-state error |
| `RedisConnectDial` | `types.go:161-188`, NewClient and ping; on failure, `SetState(Disconnected)` |
| `RedisConnectStore`, `RedisConnectDone` | `types.go:190`, `191-192` |
| `RedisPingLoad`, `RedisPingIO` | `types.go:196-199`: the nil check, then `s.client.Ping`, which reloads `s.client`; a nil client there is a panic (`th[t].in = "panic"`), after which `Crashed` stops every step |
| `RedisCloseLoad` … `RedisCloseClear` | `types.go:203-210`: the nil check, Disconnecting, `client.Close()` (which reloads `s.client`, so a nil client is a panic), Disconnected, nil |
| `Call` | the entry of `Reconnectable.Connect`, `Ping` or `Close`, chosen from `workload[t]` |
| `RetryWait`, `RetryResult`, `RetryReturn` | `part_018:119-140`, the attempt loop and its cancellable wait |
| `PingCheck`, `PingLock`, `PingReconnect`, `PingRetry`, `Return` | `part_018:143-156`, including the deferred `Unlock` |
| `RedisStatsLoad`, `RedisStatsRead` | `types.go:217-229`, `Stats`: a nil check, then a second load of `s.client` for `PoolStats()`. A nil client here is a panic. `checkHealth` calls it on a storage registered without `Reconnectable`, since `Reconnectable` is no `StatsProvider`. |
| `CloseReturn` | `part_018:159-161`, and the return of a Stats call |
| `Outage`, `Recover`, `Cancel` | the environment: the server goes away and comes back, a caller cancels its context |

The model does not represent time. A backoff wait is one step that returns
the context error if the context is cancelled, and otherwise goes on to the
next attempt.

**Properties.**

- `ConnectExclusive`: no two goroutines are between a successful CAS and
  the end of their `Connect` at the same time (spec sections 3 and 8).
- `NoStuckTransition`: Connecting and Disconnecting are seen only while the
  Connect or Close that set them is running. This is the "revert on
  failure" rule of spec section 4.1.
- `QuiescentConsistent`: between calls, `State()` is Connected exactly when
  there is a client, and that client is not closed.
- `NoDuplicateReconnect`: a Ping's reconnect closes only the client that
  Ping found broken (spec section 4.2, "prevent duplicate reconnects").
- `CallsReturn` (liveness): every call returns, even if the server never
  comes back, unless the process has panicked on a nil client.
- `LifecycleRefined`: `ReconnectableStorage` implements `StorageLifecycle`,
  through `INSTANCE StorageLifecycle` with `state` mapped to itself.

Next to the steps they distort, the module defines faulty variants:
`RedisConnectCASNoCheck`, `RedisConnectCASWrongOld`,
`RedisConnectDialNoRevert`,
`RedisCloseClearKeep`, `RetryResultOffByOne` and `RetryResultNoIncrement`. Each property of each passing run has a variant that
breaks it; the list is in `PROJECT.json` under `mutants`.

### `StorageManager`

This module models `storage.manager` (`storage/manager.go`), used by
several goroutines (`Callers`).

**State.**

- `storages` is the key set of `m.storages`.
- `order` is `m.order`.
- `sstate` holds each storage's state.
- `cf[c]` is caller c's frame:
  - the method it is in;
  - its snapshot of `order`;
  - the CloseAll loop index `ci`;
  - the joined errors `errs`;
  - the closes made, `closedSeq`;
  - the HealthCheck `results`.
- `w[c][i]` is the goroutine that c started for snapshot position i.

**Actions.**

| Action | Code |
|--------|------|
| `Register` | `manager.go:24-36`, atomic under `m.mu` |
| `ConnectAllStart` | the snapshot under `RLock` and the launch of one goroutine per storage |
| `ConnectCAS`, `ConnectIO` | the storage's `Connect`, as the adapter's CAS and its outcome |
| `ConnectAppend` | the append to `errs` under the local mutex, and the deferred `wg.Done()` |
| `ConnectAllWait` | `wg.Wait()` |
| `CloseAllStart`, `CloseAllStep`, `CloseAllDone` | the copy of `order`, then one iteration of the reverse loop (`m.Get` and `s.Close`), then the return |
| `HealthCheckStart`, `HealthPing`, `HealthCheckWait` | the snapshot, each goroutine's `checkHealth` writing `results[idx]`, and `wg.Wait()` |

The storages are abstract. `Connect` is split at its CAS, and its outcome
is a free choice. `Close` of a connected storage may fail, and `Ping`
fails unless the storage is Connected. The storages' own races are in
`ReconnectableStorage`.

**Properties.**

- `ConnectAllReportsEveryFailure`: after ConnectAll returns, every storage
  of its snapshot has been attempted, and the joined error names exactly
  the failed ones. This is the best-effort rule of spec section 4.3.
- `CloseAllReverseOrder`: CloseAll's closes are the reverse of its
  snapshot.
- `HealthCheckInListOrder`: there is one status per storage, in `List()`
  order.
- `EveryCallReturns` (liveness).

The module defines these faulty variants:

- `ConnectAllWaitEarly`: `wg.Add` inside the goroutine.
- `ConnectAppendNoDone`: `wg.Done` not deferred.
- `CloseAllStartOffByOne`, `CloseAllStartPastEnd`: loop bounds.
- `HealthPingCaptured`: the goroutine captures the loop variable.

### `MemoryMQ`

This module models the in-memory message-queue client `mq/memory.Client`
(`mq/memory/memory.go:15-194`). It has the same life cycle as a storage and
adds Publish, Subscribe, Unsubscribe and one consumer goroutine per
subscription.

Each caller goroutine `t` runs a script `Workload[t]` of calls, and every
call is split at the points where another goroutine can interleave. A
subscription is named by its channel number `k`. Its `CancelFunc` is `k`
itself, and `cancelled` holds the subscriptions whose context is done.

| Variable | Code |
|----------|------|
| `state`, `closed` | `mq.Base.state`, `Client.closed` |
| `topics`, `subscribers` | the maps `c.topics` (topic → channels) and `c.subscribers` (topic → one cancel) |
| `buf[k]`, `cons[k]`, `cmsg[k]` | channel `k`'s buffer, its consumer goroutine and the message it is handling |
| `handled` | the (subscription, message) pairs whose handler ran |
| `th[t]` | caller `t`'s call in progress and its position in the script |

| Action | Code |
|--------|------|
| `ConnectCAS`, `ConnectSet` | `Connect`: CAS Disconnected→Connecting, then `SetState(Connected)` |
| `Ping` | `Ping`: a single state load |
| `PublishCheck` … `PublishDone` | `Publish`: the `closed` load, the snapshot under `RLock`, one non-blocking send per channel (`Send` drops when full), `IncPublished` |
| `SubscribeCheck`, `SubscribeRegister`, `SubscribeStart` | `Subscribe`: the `closed` load, the first critical section (append the channel), the second (store the cancel) and `go consume` |
| `Unsubscribe` | one critical section |
| `CloseCAS` … `CloseDone` | `Close`: CAS `closed`, Disconnecting, cancel the stored cancels and reset the maps, Disconnected |
| `ConsumeExit`, `ConsumeRecv`, `ConsumeHandle` | the `select` of `consume` and the handler with its retries |

Payloads, Stats counters and retry sleeps are abstracted; no property
reads them. A handler never stops a consumer.

**Properties.**

- `ConsumersStopAfterClose` (liveness): after Close, every consumer
  eventually returns, for good. `mq.Client` (`mq/mq.go:24`) promises that
  Close stops the subscriptions, and Close's cancel loop is meant to do it.

The only run of this module, `mq_consumer_leak`, is a violation: p1
subscribes twice while p2 closes. A Subscribe that passed its `closed`
check before Close reset the maps registers its cancel afterwards, and
its consumer runs forever.

### `WorkerPool`

This module models `pool.Worker` (`pool/worker.go`). Caller goroutines run
scripts of `Submit`, `SubmitWait`, `Stop` and `StopWait` calls. Worker
goroutines are numbered `1..MaxSpawn`, and `wk[k]` is the place of worker
`k` in its loop. The `queue` stands for `taskQueue`, and `workers` and
`wgc` are the atomic counter and the `WaitGroup`. `submitted` and `done`
hold the accepted tasks and the tasks that have run.

| Action | Code |
|--------|------|
| `SubmitCheck` | the `closed.Load()` of Submit and SubmitWait |
| `SubmitSend` | Submit's `select` with `default` (`ErrPoolFull`), or a panic on the closed queue |
| `SubmitWaitSend`, `SubmitWaitPoolDone`, `SubmitWaitTimeout` | SubmitWait's three `select` cases (SubmitTimeout is SubmitWait with a timer context) |
| `MaybeSpawn`, `SpawnWorker`, `SpawnUndo` | `maybeSpawnWorker`'s check of `len(taskQueue)` and `workers.Load()`; `spawnWorker`'s `workers.Add(1)` with `wg.Add(1)` and `go worker()`; the `Add(-1)` that reverts an Add above `maxWorkers`. The three are separate steps, so two Submits can both pass the check. |
| `StopSwap`, `StopCancel`, `StopClose` | Stop: Swap, cancel, close |
| `StopWaitSwap`, `StopWaitClose`, `StopWaitReturn`, `StopWaitTimeout` | StopWait: Swap, close, then `wg.Wait` or the caller's deadline, and cancel |
| `WorkerCancelled`, `WorkerRecv`, `WorkerDrained`, `WorkerTimer` | the four outcomes of the worker's `select` |
| `WorkerRun` | `runTask` and the timer reset |
| `WorkerTimerCheck` | the `workers > minWorkers` check after an idle expiry |
| `WorkerExit` | the deferred `workers.Add(-1)` and `wg.Done()` |

Time is not modelled. The idle timer fires as an environment step, at
most `MaxTimeouts` times, and only while the queue is empty, since a
waiting task would have been received first. The callers' deadlines are
environment steps as well. Workers and callers are weakly fair.

**Properties.**

- `NoSendOnClosedChannel`: no caller sends on the closed queue.
- `MaxWorkersBound`: at most `maxWorkers` worker goroutines are alive at
  once. Two Submits can both pass `maybeSpawnWorker`'s check, so this
  holds only because `spawnWorker` tests the value its Add returns.
- `StopWaitCompletes` (action property): when StopWait returns nil, every
  accepted task has run. This is what StopWait's doc comment and
  `TestWorker_StopWait` say.
- `SubmittedTasksRun` (liveness): an accepted task eventually runs,
  unless the pool is cancelled.

The module defines these faulty variants: `SubmitSendNoFull`,
`SpawnWorkerNoCheck` (spawnWorker trusting the caller's check),
`StopWaitCloseCancel` (cancel before the wait, as Stop does) and
`WorkerRunOnce` (a worker without its loop).

`pool_lifecycle` lets one idle timer expire. A second expiry lets both
workers exit and strands a task, which is the defect `pool_lost_task`
shows on the smallest pool.

### `CircuitStates` (abstract) and `Resilience` (detailed)

`CircuitStates` is the breaker's promise: it starts closed, and its only
moves are closed→open, open→half-open, half-open→closed and
half-open→open.

`Resilience` models `Chain(executors...).Execute(ctx, fn)` of
`src/resilience` for each goroutine in `Threads`. The executors are given
by the constant `Chain`, outermost first. A goroutine keeps a stack of
levels: `th[t].lvl` is the executor running, `lv[t][i]` holds that
level's locals (retry attempt, delay and wake time), and `fn` runs at
level `Len(Chain)+1`. Its result is chosen freely from ok and fail.

| Variable | Code |
|----------|------|
| `state`, `failures`, `successes`, `lastFailure` | the fields of `CircuitBreaker` |
| `tokens`, `lastUpdate` | the fields of `TokenBucket` |
| `admitted[x]` | how many calls the bucket let through at time `x` (history, read only by a property) |
| `now` | the clock; `Tick` advances it up to `MaxTime` |

| Action | Code |
|--------|------|
| `Begin`, `Fn` | the call of `chainExecutor.Execute` and the protected `fn` |
| `BucketExecute`, `BucketReturn` | `TokenBucket.Execute`: `AllowN` with its refill under `tb.mu`, `ErrRateLimited` or the call |
| `RetryExecute`, `RetryAfter`, `RetryWake`, `RetryCancel` | `Retry.Execute`: one attempt, its result check, the `select` on the timer or `ctx.Done()` |
| `BreakerAllow`, `BreakerHalfOpen` | `allow()`: the state read under the lock, and the open→half-open move once `Timeout` has passed |
| `BreakerRecord`, `BreakerAdd`, `BreakerReset`, `BreakerOpen`, `BreakerClose` | `record()`: the state read under the lock, the counter update, then `transition` |

`allow` and `record` read the state under `cb.mu`, release it, and then
call `transition`, which takes the lock again. The model keeps that gap
as two steps. The environment steps (`Tick`, `Begin`, `RetryCancel`) are
not fair. Goroutine steps are weakly fair.

**Properties.**

- `TokenBucketWindow`: over every interval `[a, b]` of the clock the bucket
  admits at most `Burst + Rate*(b-a)` calls.
- `RetrySchedule` (action property): a retry sleeps only while attempts
  remain, and its `k`-th wait equals the reference backoff
  `min(Delay*Multiplier^k, MaxDelay)`, with the first wait `Delay`.
- `BreakerRefined`: the breaker's state moves only as `CircuitStates`
  allows.

The faulty variants are `RefillNoCap` (refill without the burst cap) and
`NextDelayCapFirst` (cap before multiplying).

### `AppRuntime`

`AppRuntime` models `App` of `src/runtime/app.go` with `HTTPServer`
(`src/unnamed/part_028`) and server `Group`s (`src/unnamed/part_026`) of
HTTP servers as its components. The constant `Group` maps each Group
component to its `g.servers`; `Servers` is every HTTP server, stand-alone
or in a Group. One goroutine runs the calls
of `Script`, as `Run` and the code around it do.

| Variable | Code |
|----------|------|
| `state` | `a.state` |
| `comps`, `started` | `a.components` in slice order, and each entry's `started` flag |
| `running` | each server's own `s.running` |
| `gi`, `outer` | the loop index of `Group.Start` and `stopServers`, and the App loop to return to after `Group.Stop` |
| `startOrder` | history: the running servers in start order (read only by a property) |

| Action | Code |
|--------|------|
| `StartCheck`, `StartBeforeHooks`, `StartSort` | the state check and `setState(StateStarting)`, the beforeStart hooks, `sort.Slice` under `a.mu`. The sort is not stable, so `SortedOrders` is every order sorted by priority. |
| `StartComponent`, `StartLoopDone`, `StartAfterHooks` | one iteration of the component loop (`HTTPServer.Start`: already running, a failed listen, or success), the loop's end, the afterStart hooks and `setState(StateRunning)` |
| `StopCheck`, `StopComponent`, `StopLoopDone` | the state check, `setState(StateStopping)` and the ignored beforeStop hooks; one iteration of `stopStarted`'s reverse loop (`HTTPServer.Stop`); the afterStop hooks and `setState(StateStopped)`. A failed Start runs the same loop as its rollback. |
| `GroupStart`, `GroupStartServer`, `GroupStartDone` | `Group.Start` under `g.mu.RLock`: one iteration of its loop, and its end. A failed server sends it into `stopServers` over `g.servers[:len(g.servers)-1]` (`GroupRollbackFromLen`), whichever server failed. |
| `GroupStop`, `GroupStopServer`, `GroupStopDone`, `GroupRollbackDone` | `Group.Stop`, one iteration of `stopServers`' reverse loop (a no-op on a server that is not running), the end of `Group.Stop` (its lastErr is only logged), and the end of the rollback, which returns the error to `App.Start` |
| `Register`, `Health` | the append under `a.mu`; the state check and the loop over HealthChecker entries (the servers implement none) |

A gRPC server's Start and Stop have the same control flow at this
abstraction. A Shutdown that times out returns an error, but
`s.running` is already false by then.

**Properties.**

- `ServersAgree`: between calls, every entry's `started` flag equals the
  `running` flag of each of its servers, a Group's included. An App that is created, stopped or failed has
  no server listening.
- `StopsInReverse` (action property): every server that stops, by Stop
  or by the rollback of the App or of a Group, is the one started last
  among those still running.
- `StartsInPriorityOrder` (action property): a server starts only after
  every server of each registered entry of smaller priority is running,
  and after the servers before it in its Group.

`Group.Start`'s rollback over `servers[:len-1]` is not the
`servers[:i]` that started. It calls Stop on servers that never started
and never on the last one. The run shows this is harmless as written: a
server that is not running returns nil from Stop, and the failed server
never set `running`. A shorter prefix (`GroupRollbackFrom`, the prefix
`servers[:i-1]`) leaves a server of a failed App listening, and
`ServersAgree` catches it.

The faulty variants are `SortedOrdersLoose` (a sort that duplicates or
loses entries), `SortedOrdersNone`, `StopComponentForward` and
`GroupRollbackFrom`.

Two registered servers with distinct priorities, in the wrong order, let
the sort matter. A late third one with an equal priority lets the unstable
sort place it either way on restart. Three Starts, each possibly failing at
any listen or hook, reach rollback from every position. A Group of two
lets either member fail, so its rollback runs with one member up and
with none.

### `Idempotent`

`Idempotent` models the idempotency middleware
(`src/middleware/http/idempotent.go`) and `Handler.Execute`
(`src/idempotent/idempotent.go`), whose records live in the two-level cache
`MultiLevel` (`src/cache/types.go`): a ristretto cache per application
instance (`src/cache/memory.go`) in front of one Redis shared by every
instance. Each request is a goroutine of the instance `Inst[r]` serving it,
and each cache call is one atomic step on one level, so a `MultiLevel` Get
or Set is two or three steps that other requests can run between.

| Variable | Code |
|----------|------|
| `l1[i]`, `l2` | instance i's ristretto cache, and Redis; a key maps to a `Record` (status, fingerprint, and the request whose response it holds) |
| `pc[r]`, `rec[r]`, `res[r]` | where request r is, the record its Get decoded, and what the middleware answered |
| `ran` | the requests whose handler completed without error |
| `seen[r]` | history: the requests already answered with a fresh response when r arrived |

| Action | Code |
|--------|------|
| `Arrive` | the middleware's method and key checks and `Fingerprint`, then `Execute` |
| `GetL1`, `GetL2`, `Backfill` | `MultiLevel.Get`: the L1 hit, the Redis GET (an error is returned, `redis.Nil` is a miss), the L1 backfill; then `Execute`'s fingerprint and status checks (`Decide`) |
| `SetPendingL2`, `SetPendingL1` | `Set(key, pending)`: Redis first, its error returned, then L1 |
| `RunFn` | `c.Next()`: the handler runs and its response is written; an error in `c.Errors` fails it |
| `DeleteL1`, `DeleteL2` | on a failed fn, `cache.Delete` (L1, then Redis, whose error is dropped) |
| `SetCompletedL2`, `SetCompletedL1` | `Set(key, completed)`, then the fresh response |
| `ExpireL1` | a ristretto entry reaching its TTL |

Ristretto's `Set` of a new key goes through a buffer and an admission
policy and may be dropped (`L1MayDrop`); a Set of a key it already holds
and a Delete take effect at once. The delay of the set buffer is not
modelled. Redis errors (`RedisMayFail`) and handler errors (`FnMayFail`)
are switches of the configuration.

**Property.** `Idempotency`: the handler completes at most once per key,
and a request that arrives after a request with the same key and body got
a fresh response is answered from the cache (or with a Redis error), never
with 409 or a second execution. `idempotent_double_execute` finds it
violated with every failure switched off: three requests with one key on
two instances are enough, and two suffice for the double execution.

### `MCReconnectableStorage`

This module instantiates the model for TLC. It sets:

- two goroutines, `t1` and `t2`, as model values;
- the workloads, which are the calls each goroutine may make:
  `MCConnectOrHeal` (Connect and Stats, or Ping only), `MCHealOnly` and
  `MCConnectAndPing`;
- `MaxClients`, computed so that a dial never fails for lack of a client
  number. This bound limits the model only, never the behaviour.

## Runs

| Run | Expect | Workload and bounds | What it shows |
|-----|--------|---------------------|---------------|
| `storage_connect_heal` | pass | From a new or a connected storage (`InitConnected`), either both goroutines Connect and t1 may also call Stats, or both Ping; 2 calls each, MaxRetries 1, 2 outages, cancellation | The CAS keeps Connects exclusive. Failures revert to Disconnected, leaving state and client consistent. Reconnect under `r.mu` heals outages. The life cycle is refined. Every call returns. |
| `storage_wedge` | violation | t1 Connects while t2 health-checks | The storage is left Connected with a nil client and is never repaired. |
| `manager_fleet` | pass | `MCStorageManager`: storages n1–n3 with n1 registered at start; c1 runs ConnectAll/CloseAll and c2 runs Register/HealthCheck, 2 calls each | Fan-out, error joining, reverse close and result order hold while registrations race the snapshots, and every call returns. |
| `mq_consumer_leak` | violation | `MCMemoryMQ`: p1 Subscribe twice, p2 Close; channel capacity 1 | A Subscribe racing Close leaves a consumer that never stops. |
| `duplicate_reconnect` | violation | two Pings, one outage | The second Ping closes the connection the first one just restored. |
| `pool_lifecycle` | pass | `MCWorkerPool`: c1 Submit then StopWait, or SubmitWait then Stop; c2 SubmitWait, Submit; 1 warm worker, at most 2, queue 1, one idle expiry | Concurrent spawns never exceed `maxWorkers`, StopWait returns only after every accepted task ran, and every accepted task runs unless the pool is cancelled. |
| `pool_submit_stop_race` | violation | the same workload | A Submit that passed the closed check sends on the closed queue and panics. |
| `resilience_chain` | pass | `MCResilience`: t1, t2 call Chain(bucket, retry, breaker) twice each; 3 attempts, Delay 1, MaxDelay 2, Multiplier 3, thresholds 2, Rate 1, Burst 1, clock to 4 | The bucket never admits more than its rate allows, and every retry wait follows the capped backoff. |
| `breaker_stale_transition` | violation | Chain(breaker) alone, thresholds 1, 3 calls each | A goroutine's transition acts on a state another goroutine has already changed: the breaker goes closed→half-open. |
| `app_lifecycle` | pass | `MCAppRuntime`: server a (priority 2) and Group b (1) of servers m1, m2 registered, server c (1) registered while running; script Start, Register, Health, Stop, Start, Stop, Start, Stop; every listen and both start hooks may fail | Every failed start, of a server or of a Group member, is rolled back, servers stop in reverse start order and start in priority order, across a restart that re-sorts the late entry. |
| `pool_lost_task` | violation | c1 Submit, Submit, StopWait on `NewWorker(1, n)`, one idle expiry | A task is queued while the only worker is exiting. It never runs, and StopWait returns nil. |
| `idempotent_double_execute` | violation | `MCIdempotent`: r1 on instance i1, r2 and r3 on i2, all with key k1 and the same body; both fingerprint checks on; no failures | Two requests with the same key both miss the cache and both run the handler. |

The seven violations are recorded as findings in `PROJECT.json`, one run per
root cause:

- `storage_wedge`: the adapter's `Close` runs without any exclusion
  against `Connect`. Only the Ping-driven reconnect holds `r.mu`.
  The same missing exclusion lets two `Close` calls, or `Close` and
  `Stats`, both pass the nil check and then panic on the reloaded nil
  client. A Ping reloads `s.client` after its nil check too, so a Close
  between the two makes the Ping panic. These panics are listed as hazards;
  no run checks them.
- `duplicate_reconnect`: a Ping that waited for `r.mu` does not re-check
  before it reconnects.
- `breaker_stale_transition`: `record` and `allow` read the state under
  `cb.mu`, unlock, and call `transition`, which checks only that the new
  state differs from the current one. A goroutine that saw open moves a
  breaker another goroutine has just closed to half-open (or one that saw
  half-open closes an open breaker).
- `pool_submit_stop_race`: Submit checks `closed` and then sends. Stop
  closes the channel in between, and the send panics.
- `pool_lost_task`: `maybeSpawnWorker` counts a worker that is already
  exiting on its idle timer.
- `mq_consumer_leak`: memory `Subscribe` checks `closed` without the lock
  and registers its cancel after Close has cancelled and reset the maps
  (`memory.go:119`), so nothing ever cancels that consumer.
- `idempotent_double_execute`: `Handler.Execute` reads the key and, on a
  miss, sets the pending record with a plain `Set`, not a set-if-absent
  (`idempotent.go:88`). Two requests with one key both see the miss and
  both run the handler; the record of the later one overwrites the other.
  The same module shows a second effect: `MultiLevel.Get` backfills L1
  with the value it read from Redis after other steps ran
  (`types.go:186`), so a stale pending record can be put back into L1
  after the completed record was written there.

Workloads for the related races fail the same properties:

- a Close during Connect breaks `ConnectExclusive`;
- a Close beside reconnecting Pings makes a Ping panic on a nil client.

These are listed as hazards rather than as separate runs.

For `manager_fleet`, three storages and two callers with two calls each
let a registration fall before, during or after a snapshot. One more call
per caller (281,000 states, almost 2 minutes) adds nothing new.

**Bounds.** Two goroutines are enough for every race above, since each
needs exactly two actors. One or two outages let a call fail, retry and
then succeed, or fail every attempt. `MaxRetries` of 1 covers both leaving the loop on success and exhausting it.
Two calls per goroutine let a goroutine see the state a previous call left
behind. The storage, mq and pool runs have between 3,600 and 77,000 distinct states and
each finishes in under 30 seconds. `resilience_chain` is larger (about
740,000 states, a little over a minute): a clock of 4 lets the bucket
refill, a retry wait both of `Delay` and of the cap, and the breaker go
open, half-open and back. `app_lifecycle` has 526 states: one goroutine drives the App, and the branching comes from the failures.

**Fairness.** Every goroutine's steps are weakly fair: the Go scheduler
runs any runnable goroutine eventually. `PingLock` is strongly fair, since
`sync.Mutex` switches to starvation mode and hands the lock to a waiter
that has waited more than 1 ms. `Outage`, `Recover`, `Cancel` and `Call`
are not fair: the server may stay down forever and callers need not call.
That is why `CallsReturn` holds only because of the bounded retry loop.

**Deadlock.** The goroutines make `MaxCalls` calls and then stop, so the
configurations say `CHECK_DEADLOCK FALSE`. A goroutine stuck inside a call
(for example, waiting for a lock nobody releases) violates `CallsReturn`.

## Not modelled yet, and the plan

The project has as many runs as the checker admits (twelve), and every
remaining disagreement with the code that modelling found needs a
violation run of its own: the memory lock (a lock that expired can be
released by its former holder; the package has no caller in the
repository), rabbitmq's double `Close`, the gRPC restart below, the worker
pool's idle workers dropping below `minWorkers` together, and the
configuration loader, which decodes into its target before `Validate`,
so a failed validation leaves the target half-written. These are listed
as hazards in `PROJECT.json` and wait for a run slot. The elasticsearch adapter's `Close`
(`elasticsearch.go:91-96`) sets Disconnecting from any state, even
Disconnected or Connecting, so it would break `LifecycleRefined` the way
an unconditional Close from Disconnected would; it is listed as a hazard.

The plan, in order:

1. The manager is done; what remains is to compose it with the detailed
   adapter of `ReconnectableStorage` for a shutdown (CloseAll) racing a
   running ConnectAll.
2. **Backoff**: the interval sequence of `connectWithRetry` as a RECURSIVE
   operator, checked against spec section 4.2's closed form over small
   integer configurations. This covers the cap edge cases.
3. **Builder and Unwrap**: the decorator order as an operator checked for
   every subset of decorators. `Unwrap` returns the concrete storage.
4. **MQ**: the memory client is done. `mq/manager.go` is
   `storage/manager.go` with the names changed (the files differ only in
   identifiers), so `StorageManager` models its control flow too. Still to
   do: the rabbitmq client (`mq/memory/memory.go` from line 200), whose
   `Close` panics when called twice (it closes `c.closed`
   unconditionally, line 528). A Connect after a Close leaves `c.closed`
   closed, so every consumer started afterwards returns at once.
5. **Infrastructure with concurrency** (the worker pool and the
   resilience chain are done):
   - the idempotent handler is done (`Idempotent`);
   - the memory lock (expiry, Unlock by a non-owner);
   - a second goroutine calling App.Stop during Start (the Group is done);
   - gRPC components of the App. `GRPCServer` keeps the `grpc.Server` that
     `NewGRPCServer` made, and a stopped `grpc.Server` refuses to serve
     again. An App restart therefore leaves a gRPC component marked
     running, with its health SERVING, while it serves nothing. Modelling
     that needs the server's stopped flag as state, and a run of its own.
   - `App.Start` on an App whose start failed returns nil without starting
     anything. Only a Stop first makes Start work again. No comment says
     what Start should do there.

Left out for good are configuration loading, logging, error formatting,
auth, middleware and the DDD/DI helpers. They transform data or do I/O,
with no shared state or interleaving for a model checker to explore.
Inside the modelled parts, the model abstracts error messages to the
classes `isConnectionError` tells apart, and drops tracing spans, which
change no state the properties read.
