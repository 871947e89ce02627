# triggerx-backend: a TLA+ model

TriggerX runs tasks on chain for its users: a scheduler notices that a job is
due, a dispatcher hands a task to a keeper, the keeper executes it and publishes
a proof, and a monitor books the outcome. This directory models the services in
which those steps meet: what they keep in memory, in Redis and in the database,
which calls can fail, and in which orders their goroutines and processes can
interleave.

1. [Inventory](#1-inventory) - the parts of the system, and what is hard in each
2. [Plan](#2-plan) - modules, runs, theorems, and what is left
3. [TaskStreams](#3-taskstreams) - dispatcher and monitor over Redis
4. [EventMonitor](#4-eventmonitor) - registry and pollers of contract events
5. [ConditionScheduler](#5-conditionscheduler) - workers, notifications, locks
6. [KeeperHealth](#6-keeperhealth) - check-ins, the sweep, the database
7. [Database server and what it works with](#7-database-server-and-what-it-works-with)
8. [Services that must not stop](#8-services-that-must-not-stop)
9. [From a script to an accepted task](#9-from-a-script-to-an-accepted-task)
10. [What is proved](#10-what-is-proved)
11. [Findings](#11-findings)
12. [Not modelled](#12-not-modelled)
13. [Running it](#13-running-it)

All paths below are relative to `src/`.

## 1. Inventory

### How the parts talk

```
 dbserver --HTTP--> condition scheduler --HTTP--> event monitor --eth_getLogs--> chain
  |   ^                |        ^---- webhook -------'
  |   '-HTTP- time scheduler |
  |                  |       |  RPC submit-task
  |                  v       v
  |                task dispatcher --RPC--> aggregator --> keepers --tx--> chain
  |                  |  XADD, HSET, ZADD                     |              |
  |                  v                                       | RPC          | logs
  |                Redis  <------ task monitor <-------------'              |
  |                                    ^-----------------------------------'
  '------------------ Scylla ----------'        health <--HTTP check-ins-- keepers
```

### Components

| Part | State | Operations | Hard behaviour | What makes it correct | Module |
|---|---|---|---|---|---|
| Task dispatcher (`internal/taskdispatcher`) | Redis: dispatched stream, index hash, timeout set | `submit-task`: send to performer, XADD, HSET, ZADD, answer; recovery in `Initialize` | four calls that fail one by one, crashes between them, retries by the caller, batches signed as a whole | an acknowledged task is sent and recorded; a recorded task is watched | `TaskStreams`, `Performances` |
| Task monitor: streams (`internal/taskmonitor`) | Redis: three streams, index, timeout set; Scylla: task status | result events, error reports (RPC), timeout worker, lookups | three handlers of one task at once, check-then-write on the status, trimmed or expired streams | no message is deleted before its copy exists; a failed copy has a status; each task is settled in the end | `TaskStreams` |
| Chain listener (`taskmonitor/events`) | last block, bounded channel, worker pool | poll, decode, queue, handle, stop | failed chunks skipped, full channel drops, a head that goes back | no event is handled twice; one that is passed over is handled or one of the named losses | `ChainListener` |
| Points and rows (`taskmonitor/clients/database`) | Scylla rows | read-modify-write of points, counters, costs | lost updates, sequences half done, repeated writes | what a row holds was earned, once | `TaskAccounts` |
| Chain websocket (`taskmonitor/clients/websocket`, `pkg/websocket`, `pkg/client/nodeclient`) | sockets, loops, pending requests, subscriptions | connect, reconnect, subscribe, close | loops of old sockets next to new ones | a connected client has a reader; no request is left waiting | `WebSockets` |
| Event monitor (`internal/eventmonitor`) | registry (own lock), map of workers (own lock), `LastBlock` per entry | register, unregister, expiry cleanup, sync, poll, stop | check-then-act over two locks, stale snapshots, shared `LastBlock` | no worker outlives its entry, no block passed over silently, a registered event is polled | `EventMonitor` |
| Condition scheduler (`internal/schedulers/condition`) | maps of workers, store of job data, two mutexes and one per worker | schedule, unschedule, poll, notify, webhook, cleanup, stop | lock order, callbacks under locks, `go w.Stop()` racing the next tick; two copies of the value extraction | data is there while it is used; goroutines do not wait for ever; both copies agree | `ConditionScheduler`, `ConditionValues` |
| Time scheduler (`internal/schedulers/time`) | its window; rows in Scylla | fetch due jobs, compute the next execution, submit batches | overlapping windows and handlers, a lost answer retried | each due time gives one task; no job falls behind | `TimeJobs` |
| Health (`internal/health`) | keeper map under a lock, Scylla `online`, `uptime` | check-in, inactivity sweep, load, dump | database write after the unlock races a check-in; three statements, retried | database and memory agree in the end | `KeeperHealth` |
| Keeper: execution (`internal/keeper/core/execution`) | nonce counter, pending transactions | take a nonce, submit, wait, replace, deliver; arguments of the call | nonces leaked or synced beside each other, replacement racing the original, integers of many widths | a task is executed once, or declined by its script and never executed; a call has the arguments the script printed | `KeeperExecution`, `CallArguments` |
| Keeper: validation and life cycle (`internal/keeper`) | documents, signatures, check-ins | validate trigger, transaction, proof; start, check in, shut down | JSON in between, tolerances, failing calls | what is accepted was done; what is rejected had a cause | `Performances` |
| Database server: jobs (`internal/dbserver`) | `job_data`, the typed tables, `user_data` | create, edit, delete, list, poll | rows of one job written one by one, ids by `MAX + 1` | rows of a job agree; an answer is true | `JobStore`, `JobListings`, `TimeJobs` |
| Database server: keepers, keys, fees | `keeper_data`, `apikeys`, Redis counters | register, count, authenticate, limit, quote | lost updates, an update that brings a deleted key back, scripts that fail | counters add up; a limit holds; a quote covers the cost | `AccountStore`, `TaskFees` |
| Database server: requests | gin contexts, goroutines | timeout, panic, authentication, validation | a handler that goes on after its 504, on a context in use again | an answer belongs to its request | `Requests` |
| Database server: hub (`internal/dbserver/handlers/websocket`) | clients, rooms, bounded channels | subscribe, publish, deliver, shut down | channels closed by one goroutine and sent to by another | what was accepted arrives; a slow client stalls nobody | `TaskBroadcast` |
| Docker executor (`pkg/dockerexecutor`) | pool of containers, files in them, file cache | acquire, run, release, reset, close; download, evict, restart | tokens given back twice, clean-up racing the next execution, half-written files | the pool is bounded and recovers; output is one's own; a script is executed whole | `CodeExecutor`, `ScriptRun`, `FileCache` |
| Redis client (`pkg/client/redis`) | connection, cache of consumer groups | commands with retries, recovery, close | a command that landed and is repeated; a connection closed under running commands | a group remembered exists | `RedisClient` |
| RPC, HTTP and retries (`pkg/rpc`, `pkg/retry`, `pkg/http`) | pool of connections | call with attempts, pool, server stop | a wait with the mutex held, connections dropped or closed twice | a connection has one owner | `RemoteCalls` |
| Logging (`pkg/logging`) | files of a service | write, rotate, clean up | failures between rename, open and removal; restarts | only the oldest lines are lost | `LogRotation` |

`PROJECT.json` lists each of them with its files and its status, and under
`hazards` what is hard to test in them, at the line where it bites, with the
property that watches it.

## 2. Plan

Modules, the most important behaviour first. Each component is a module of its
own, parameterised by constants; small ones that share no state are instantiated
side by side in one MC module, which chooses a `part` at the start and leaves the
variables of the others alone.

| Modules | Checked by | Proved in |
|---|---|---|
| `TaskStreams` | `TaskStreamsSafety`, `TaskStreamsLiveness` | `TaskMonitorProofs` |
| `EventMonitor` | `EventMonitorPolling`, `EventMonitorRegistry`, `EventMonitorDead` | `EventMonitorProofs` |
| `ConditionScheduler` | `ConditionSchedulerSafety`, `-Liveness`, `-Stop` | `ConditionSchedulerProofs` |
| `KeeperHealth` | `KeeperHealthSync` | `KeeperHealthProofs` |
| `JobStore`, `JobListings` (extends it), `TimeJobs`, `AccountStore`, `RedisClient`, `Requests` | `DatabaseServerSafety` | `DatabaseServerProofs` |
| `TaskFees` | `DatabaseServerSafety` | `DockerExecutorProofs` |
| `TaskAccounts` | `DatabaseServerSafety` | `KeeperProofs` |
| `ConditionValues` | `DatabaseServerSafety` | `ConditionSchedulerProofs` |
| `LogRotation` | `DatabaseServerSafety` | `ConnectionsProofs` |
| `TaskBroadcast` | `Services` | - |
| `CodeExecutor` | `Services` | `DockerExecutorProofs` |
| `KeeperExecution` (implements `OneExecution`) | `Services` | `KeeperProofs` |
| `ChainListener` | `Services` | `TaskMonitorProofs` |
| `ScriptRun`, `FileCache` | `Executions` | `DockerExecutorProofs` |
| `RemoteCalls`, `WebSockets` | `Executions` | `ConnectionsProofs` |
| `Performances` | `Executions` | `KeeperProofs` |
| `CallArguments` | `Executions` | `DockerExecutorProofs` |

The parts meet in the following places, each of which is inside one module:
dispatcher, monitor and keeper over the streams (`TaskStreams`); the time
scheduler, the handlers it polls and the dispatcher (`TimeJobs`); writers and
readers of a user's jobs (`JobStore`, `JobListings`); the listener's channel and
the bookkeeping behind it (`TaskAccounts` has a channel and workers of its own,
`ChainListener` the poller); the keeper, the chain and the other keepers
(`KeeperExecution`, `Performances`); two clients of one source
(`ConditionValues`).

What is left, in this order:

* theorems for the type invariants that are neither proved nor in a run;
* the composition of `ConditionScheduler` with `EventMonitor` over the webhook,
  and of `KeeperHealth` with `AccountStore` and `TaskAccounts` over the rows of a
  keeper, which all three write;
* an abstract specification of a task's life (submitted, settled, told) that
  `TaskStreams` refines but for its named exceptions.

## 3. TaskStreams

The dispatcher's `SubmitTaskFromScheduler` sends a task to a performer, adds it to
the stream `task:dispatched`, writes its message id into a hash and its deadline
into the sorted set `dispatched_timeouts`. The monitor has three ways to settle
it: `ProcessTaskEvent` when the result is on chain, `ReportTaskError` when the
keeper reports an error, and the timeout worker when it has been dispatched for an
hour. None of them knows of the others.

### State

| Variable | In the code |
|---|---|
| `attempts`, `closed`, `acked` | the calls of `submit-task` by a scheduler, until it gives up or is answered `Success: true` |
| `dpc`, `dmid`, `sent` | the dispatcher's handler: its place, the id XADD gave it; what the aggregator accepted |
| `entries`, `gone`, `nextId`, `streamKey` | the three streams; what Redis itself dropped; whether a stream's key has a TTL |
| `index`, `tracked`, `due` | `task_id_to_message_id`; `dispatched_timeouts`, and its members whose hour has passed |
| `status`, `notices` | `task_data.task_status`; what the user was told |
| `epc`, `rpc`/`rmid`, `wpc`/`wtask`/`wmid`/`wtodo`/`wdone` | event workers, error-report handlers, the timeout worker and the slices of its tick |
| `faults`, `trackLost`, `statusLost` | bound; history: the tasks that lost their tracking or their status to one of the named causes |

Each call to Redis, to the database or to the aggregator is an action of its own
with an outcome for its failure. `XAdd` has also the outcomes "landed twice" and
"landed and reported an error", since `executeWithRetry` repeats a call whose
answer was lost. `DispatcherCrash`, `MonitorStops` and `MonitorOutage` are crashes
between any two calls; `Initialize` is what a restart does to the streams.

### Abstractions

* Reading the index and the stream is one step. It is sound: a message is deleted
  before it is unindexed, so a reader that sees both at once sees no less.
* XACK, the ZREM of the entry's own expiry and XDEL are one step; nothing is ever
  pending, as no group is read.
* The sets `stream:expiration:*` are not modelled: their only reader,
  `CleanupExpiredStreamEntries`, is started by nothing (the call in the monitor is
  commented out, the dispatcher's runs under a context that is already cancelled).
* `CleanupPendingEntries` finds nothing to do, `TrimStreams` has the effect of
  the trimming `XAdd` models, `MarkTaskCompleted` has no caller.
* A task's event that is dropped by the listener is one that never comes.
* Attempts of one request are made one after the other; tasks of a batch and of a
  tick are handled in any order.
* The hour of a timeout passes only once the scheduler has stopped calling for
  that request (it gives up after 60 s).
* `MaxAttempts` may be up to 9, two nested loops of 3.
* Keeper points, costs and script storage are steps without a state here; their
  rows are `TaskAccounts`.

### Properties and runs

| Run | Bounds | What it shows |
|---|---|---|
| `TaskStreamsSafety` | one task delivered twice, both keepers may publish and report, one fault, streams of length 1, the dispatched stream may expire; 6.8 million states | `TimeoutCoverage`, `FailedCopyHasStatus`, `DeletedOnlyAfterCopy` |
| `TaskStreamsLiveness` | one task, two faults | `EventuallySettled`, `ExpiredDrained` |

Two deliveries are the least at which a handler of the first can meet the message
of the second; one fault puts a failure or a crash at every place of every
interleaving; `StreamMaxLen = 1` makes XADD trim live messages. The theorems of
section 10 remove these bounds for the safety properties; they are also what is
said of batches, which have more than one task.

The exceptions in `TimeoutCoverage` and `FailedCopyHasStatus` are not a licence: a
task enters `trackLost` or `statusLost` only in the action where the code itself
drops it after a failed call, and each such place has its hazard.

Fairness: weak fairness of each handler's next step and of the timeout worker,
since goroutines of these services never block on one another and the worker's
ticker fires while the monitor runs. Weak fairness of `Elapse`: an hour passes.
No scheduler call, keeper answer, or crash is fair.

## 4. EventMonitor

Requests for one contract event share a registry entry and one worker, which polls
the chain and hands each log to the entry's subscribers. The registry's lock
(`rm.mu`) and the service's (`s.mu`) are never held together, so each critical
section is an action, and everything that runs between two of them interleaves:
two handlers, the expiry cleanup (every 30 s), `syncWorkers` (every 5 s), the
workers, and `Stop`.

| Variable | In the code |
|---|---|
| `registry`, `subs`, `cancelled`, `nextEntry` | `RegistryManager.registry`; each entry's subscribers and `WorkerCtx`. Entries are numbered as they are created, since the code passes pointers around |
| `expired` | requests whose `ExpiresAt` has passed |
| `workers`, `snap`, `syncing` | `Service.workers`; the copy of the registry `syncWorkers` works on |
| `reg`, `rentry`, `unreg`, `uentry` | handlers of `Register` and `Unregister` and the entry pointer they hold |
| `wpc`, `wstopped`, `started` | workers: their place, their own cancellation, how many were made |
| `from`, `cur`, `skipped`, `lastBlock` | the locals of `pollEvents`; `entry.LastBlock`, which has no lock |
| `head`, `since`, `seen`, `lost` | the chain; history for `NoSilentGap` |

`Start` reads `LastBlock` and writes it after a call (`WorkerStart`,
`WorkerInit`), so two workers of one entry can set it back; both do happen, as
`RegisterCheck` and the store of the new worker are apart. Each round of
`pollEvents` is one step; the notification of a log goes to the subscribers of that
moment.

Abstractions: each block has one log, which each filter accepts; the delivery of a
webhook ends with its hand-over to a goroutine; one call of `Register` and one of
`Unregister` per request at a time; handlers are accepted until `Stop` has
returned, since `main` stops the service before its server.

| Run | Bounds | What it shows |
|---|---|---|
| `EventMonitorPolling` | two subscribers, one entry, up to two workers on it, three blocks, one failing call; 4.8 million states | `LiveWorkerServesEntry`, `NoSilentGap` |
| `EventMonitorRegistry` | one request, two successive entries, `Stop` at any moment | under fairness `LeftoverReaped` |
| `EventMonitorDead` | two successive entries | `RegisteredIsPolled` fails, see 11 |

Three blocks are the least for a chunk that fails before one that succeeds in the
same poll; two entries are the least for a worker of an old entry to stand in the
way of a new one. Fairness: the tickers of cleanup, sync and workers fire while the
service runs, and handlers go on; nothing makes a request come, expire, or the
chain grow.

## 5. ConditionScheduler

A job becomes a worker goroutine (conditions, websockets) or a registration at the
event monitor; each trigger ends in `HandleTriggerNotification`, which holds
`notificationMutex` through two remote calls. A worker that is done calls
`go w.Stop()`, which holds its own mutex while `cleanupJobData` takes
`notificationMutex` and then `workersMutex`.

| Variable | In the code |
|---|---|
| `notificationMutex`, `workersMutex`, `mutex` | the three kinds of lock, by holder |
| `conditionWorkers`, `eventWorkers`, `jobDataStore` | the maps; the first two by call, as their keys are pointers |
| `monitored` | jobs registered at the event monitor (the part of `EventMonitor` this service sees) |
| `pc`, `active`, `cancelled` | a worker's place, `IsActive`, `Ctx` |
| `pending`, `stop` | `go w.Stop()`: not begun, and where it is |
| `hpc`, `spc`, `left`, `down` | webhook handlers; `Stop`, called by `main` and by `Start`; the process |

The maps are keyed by `*types.BigInt`. Every request decodes a pointer of its own
and every lookup makes one, so no lookup ever hits: `ScheduleJob` accepts a job
again and again, and `UnscheduleJob` and `UnregisterEventJob` always answer with
an error. What they do on the way is modelled: `UnscheduleJob` takes
`notificationMutex` (`UnscheduleLock`), waits for `workersMutex` with it, and lets
both go, so it is one more link in the chain of locks; `UnregisterEventJob` is the
handler's step that waits for the lock. The sweep of expired event jobs does
nothing but call `UnregisterEventJob`, which misses.

Abstractions: a tick satisfies the condition or changes nothing; a read lock is
held for one lookup and is a step that needs the mutex free; one webhook call per
job at a time.

| Run | Bounds | What it shows |
|---|---|---|
| `ConditionSchedulerSafety` | a condition job scheduled twice, a recurring websocket job, one trigger each, one fault, an `UnscheduleJob`, shutdown at any moment; 3.0 million states | `NotificationKeepsData` |
| `ConditionSchedulerLiveness` | a condition job and an event job, one trigger each, one fault | `StoppedIsCleaned` |
| `ConditionSchedulerStop` | no faults | `StopTerminates` fails, see 11 |

Two schedules of one job are the least at which the cleanup of one worker meets
the notification of another. Fairness is strong for whoever waits for a mutex:
`sync.Mutex` hands itself over in its starvation mode. Ticks of expired jobs are
weakly fair (the ticker fires each second); triggers, events, schedules, failing
reads and the shutdown need never come.

## 6. KeeperHealth

A keeper's check-in updates the map and then, still under the lock, its row; the
sweep for keepers that have been silent for 70 s marks them under the lock and
writes their rows after it; `DumpState` writes the rows of the active ones at
shutdown. All three use `UpdateKeeperHealth` of the database client: read, write
the uptime, write the status. Each is a call of its own that may fail; a status
may be written and reported as failed. The model has one set of actions for it,
`ReadRow`, `WriteUptime`, `WriteStatus`, whoever the writer is.

| Variable | In the code |
|---|---|
| `mu` | `StateManager.mu`, by holder |
| `keepers`, `active`, `silent` | the map; `IsActive`; `LastCheckedIn` more than 70 s ago |
| `verified`, `online` | columns of `keeper_data` |
| `hpc`, `todo`, `down` | handlers of check-ins; the keepers the sweep and `DumpState` have still to write; how far the shutdown is |
| `wpc`, `target`, `tries` | each writer's place in the three statements, its row, its attempts |
| `astray` | history: rows that may disagree with memory, for one of the named causes |

A row goes astray when a writer gives up, when "offline" is written for a keeper
that is active (by a sweep that marked it before its check-in, or by the dump), and
when a start finds it online; the next check-in that is written ends it. So
`StatusAgrees` says that nothing else sets memory and database apart, and that a
check-in repairs what did.

Abstractions: time is the set `silent`; one check-in of a keeper at a time (the lock
serialises them); the uptime's value and the rest of the row are left out; a
`SimpleRetryPolicy` below a statement is part of the statement.

| Run | Bounds | What it shows |
|---|---|---|
| `KeeperHealthSync` | two keepers, one checks in twice; two attempts, two faults, one restart | `StatusAgrees`, `SilentGoesOffline` |

Two check-ins are the least for one to fall between the mark and the write of a
sweep; two faults are the least for a writer of two attempts to give up. Fairness
is strong for whoever waits for the lock, as a `sync.RWMutex` starves no writer;
check-ins, silence, the signal, crashes and restarts need never come.

## 7. Database server and what it works with

`DatabaseServerSafety` checks ten modules, each alone, in thirteen parts. A
handler is a goroutine that issues one single-row statement after another; each
statement is a step, which may fail, and the steps of all handlers interleave.
INSERT and UPDATE are both upserts, as in Scylla. All properties are invariants:
nothing in these handlers waits for another.

### `JobStore` and `JobListings`

The rows of a job (`jobRow`, `typed`), the row of its user (`users`), what the
condition scheduler was told (`told`), and the handlers of POST, DELETE and PUT
with their locals (`post`, `drop`, `edit`) and of the listings (`listing`).
`ActiveJobHasRow`: an active row of a kind has its `job_data` row, which the poll
for time jobs relies on. `DeleteAnswerIsTrue`: a DELETE answered 200 stays true;
only that of a custom job leaves the row active, which is why `gone` leaves those
out. `ListingIsComplete`: an answer
shows the user's jobs but those a read of which failed and all custom ones. The
exception in it for overlapping POSTs is real: both read the list of the
user's job ids and write their own. Two POSTs (one of two jobs, one of one), a
DELETE, a PUT, one listing, one failing statement (beside a listing, one of its own).

### `TimeJobs`

The time scheduler's tick, the handlers that answer it (an attempt the client
has given up on goes on at the server), the rows they advance (`dated`), the
dispatcher's acceptance (`accepted`), deletions, edits and the status checker. A
row whose next execution has passed is outside the window of every later poll and
never runs again. `NoStall` says this happens to no job as long as polls come
within `Slack` and do not overlap; without them it does, and jobs with intervals
below the polling period fall behind for good. `SlotOnce`: an execution is
accepted once unless handlers overlapped (`crossed`) or an answer was lost and
the batch sent again (`doubled`). Time runs to 5, the window looks 3 ahead, and
polls are at most 2 apart, so that a job is due, advanced, and due again. The
parts `polls`, `edits` and `tasks` are three slices of the same module: failing
calls, the user's edits and deletions, and the condition scheduler's rows, whose ids
(`MAX(task_id) + 1`) collide with those of a poll: a task may then find the row
of another job.

### `AccountStore`

Keeper rows and API keys. `CountersAddUp`: a counter is what its answered updates
add up to, unless two of a column were in flight at once (`raced`, the lost
update) or the row was inserted again: by overlapping registrations, or by one
whose id an `UpdateKeeperChatID` with its arguments swapped used between the
registration's MAX and its INSERT. The attempt to prove the property without this
last exception showed that it is needed. `AdmissionIsSound`: the middleware admits no
more than the limit per window and nothing that arrives after the key's DELETE
was answered, although `go updateLastUsed` of an earlier request may write the
row again. Two keepers, three registrations, two rewards, one key, three calls.

### `TaskFees`

A quote: scripts run side by side, the 75th percentile of the prices of a week
(`Ranked` is the sorted week), the margin of a fifth. `QuoteCovers`: the total falls short of the present cost
only if gas is dearer now than in more than three quarters of the samples of a
script that was priced. A script that fails is left out of the sum, and a rate
missing from CoinGecko's answer ends the process; both are steps of the model.

### `TaskAccounts`

What the monitor books when a task was submitted or rejected, with two workers on
one channel: reads and writes of a row are two queries, queries are repeated.
`PointsAreEarned`: in every interleaving the points of a row are what it started
with and a subset of the shares that named it, each at most once, and the user's
task count is their number. Lost updates are why it is a subset. Two tasks of one
user that the same keepers attest, a channel of one, each query run up to twice. The same rows
are written by the database server and the health service, which are not
composed with this module.

### `RedisClient`

Callers run commands through a connection that the recovery loop may replace and
close under them; a command may be executed without an answer, or late. A
repeated XADD duplicates and a repeated SetNX denies its own success; the
streams of `TaskStreams` take the first into account.
`CachedGroupExists`: a consumer group the manager remembers was created, unless
the stream expired since, after which nothing creates it again. The lock of `lock.go`
is modelled and used by no service. Two callers, two attempts, one fault.

### `ConditionValues`

The condition worker and the websocket worker have each a copy of the code that
takes a number out of a document. `CopiesAgree`: both make the same of every
document, but for one that names its own route, which only the first follows. Documents
are numbers, texts, null, arrays and objects; 0 is skipped and null reads as 0
in both.

### `Requests`

gin reuses the context of a request once the first handler has returned;
`TimeoutMiddleware` returns after 100 s while its goroutine goes on. A panic in that
goroutine is outside `RecoveryMiddleware` and ends the process. `AnswerIsOwn`:
a request that gets a context no late goroutine works on is served as if alone.
For the others it does not hold: that is what `clean` leaves out, and it is the
hazard. Contexts share nothing, so one is enough, with three requests, one
timeout, and one panic.

### `LogRotation`

`KeptIsNewest`: through failed renames, removals and restarts the files hold lines
that were written, in order within a file and from file to file, each once, and
every written line that is lost is older than every one that is kept. A failed Close leaves the rotator
"broken": every later write fails. Nine lines, files of two, two backups, two
faults, one restart.

## 8. Services that must not stop

`Services` checks four modules in four parts, with fairness.

### `TaskBroadcast`

The hub's goroutine, `processTaskEvents`, and the two pumps of each client over
bounded channels. A slow client is closed by the hub and may still be sent to by
its own ReadPump: the process panics (`hub = "panicked"`).
`PublishedIsDelivered`: an event the channel took reaches each client that was in one
of its rooms, unless its connection ends, its channel is closed, or the hub stops
or dies.
Fairness: the forwarding goroutine, the hub and the WritePumps run. One client in
two rooms, two events, channels of one.

### `CodeExecutor`

Executions take a container from `ready` or a token to create one. The
pre-warmed containers have no token, a created one is handed out and queued at
once, and a failed one gives its token back by a send that blocks when the
semaphore is full. `CapacityBound`: containers, tokens and containers being made
never exceed `MaxContainers + MinContainers`. `PoolRecovers`: the pool is never dry
for good, unless Docker refused to remove a container that could not be reset
(`stranded`). `CloseEnds`: Close ends, unless an execution is stuck in that send.
Fairness: executions go on and Close does. Two executions, one token, one pre-warmed
container, three containers in all, two faults: enough for a container to be
queued twice and to be found dead by the second.

### `KeeperExecution`

Nonce manager, submissions, replacements, the chain, a foreign transaction of the
same account, and restarts (the two are what moves the chain's nonce past the
manager's). The nonce manager's counter is not what keeps
executions apart (it is synchronised without its mutex and leaks nonces when a
submission fails); the chain is, which executes one transaction of a nonce.
`ExecutesOnce` is the refinement: with `executed <- mined` and `reported` the
targets whose proof was delivered, every behaviour is one of `OneExecution`, which
executes a target at most once, or declines it and then never executes it, and
reports only a target with one of the two behind it. The second kind is that of
custom tasks: a script that says `ShouldExecute=false` yields `Status: true` without a
transaction (`action.go:77`), which is proved, uploaded and sent like any other
(`Decline`). A script that says the opposite ends the process: `Pack` is given a
`CurrentTotalCost` nobody has set (`action.go:180`), and panics (`PackPanics`), so a
custom task is never executed. A keeper
that crashes forgets what it was executing. Two targets, each of them
custom or not, two transactions each. The refinement is one of safety: a transaction may wait for ever, as
nothing makes the chain take it.

### `ChainListener`

Poller, chunks, two subscriptions, the bounded channel, workers, and Stop.
`CoveredOnce`: no event is processed twice, and one in a range that was polled is
queued, processed or in `lost`, where a failed chunk, a log that cannot be decoded
and a full channel put it. `CaughtUp`: each event the node shows is processed in the end
or lost, while the listener runs. A poller whose first call fails ends for good;
this is in the model, and `CaughtUp` speaks of pollers that wait for their tick.
Fairness: poller and workers run and the ticker fires.

## 9. From a script to an accepted task

`Executions` checks six modules, for safety, in a part each and `WebSockets` in two.

* `ScriptRun`: executions one after the other in one container. The clean-up
  script is waited for by nobody and removes the files of the next execution.
  `OutputIsOwn`: a successful execution outputs its own result or nothing. An empty
  output is possible, and is the hazard; somebody else's is not, unless the
  container was queued twice (`mixed`, see `CodeExecutor`).
* `FileCache`: downloads, evictions, restarts from old metadata. `saveMetadata`
  is two steps, `EncodeMetadata` and `WriteMetadata`, in between which other calls go on
  unless an eviction holds the lock: the copy a call has encoded (`copies`) may be
  written after a later one, or into it, and a restart reads what came out.
  `ServedIsWhole`: what is executed is a whole file, unless the file was being
  written while something led to it (`torn`): an entry of the map or of the metadata, a
  copy of the map that is about to be written, or another call. Three calls, a cache
  of one file, one restart with two calls after it: one call to write an old copy of
  the map, one to evict and write meanwhile, and one to look the file up.
* `CallArguments`: from an output or stored strings to typed arguments, and the
  estimate beside it. A string may be digits, `NaN` or `Inf`, a word for true or
  false, hexadecimal, or the JSON of a list or of an object, which is how a static
  argument of such a type is stored. `CallIsExact`: the call has one argument per
  parameter, a list has as many elements as was given, and a number is exact, up to the
  53 bits of a float64, where the type can hold it and the converter looks. It does not look at
  what goes through `int64` to a wider type, nor at a `uint32` from JSON, and `NaN` passes
  all its comparisons (`Loose`): there the call is made with some integer. The widths are
  scaled (2, 3, 4 and 6 bits for the narrow types, `uint32`, `uint64` and `uint256`, and
  a mantissa of 3) and keep their order, which is all the conversions depend on; inputs
  are on both sides of each bound. What Go leaves open (a float that does not fit)
  is any value. Lists, objects and the types that hold them are nested once.
* `RemoteCalls`: calls with attempts over a pool of one connection, the wait with
  the pool's mutex held, contexts that end, a server that stops.
  `OpenIsOwned`: an open connection is idle in the pool or held by one call.
* `WebSockets`: three layers of clients, read, ping and reconnect loops. A dial
  installs its socket under the lock (`DialSucceeds`) and starts its loops after it
  (`StartLoops`), which fails when a ping loop has closed the socket
  meanwhile: then a client has two reconnect loops. An answer is read, looked up, sent
  and cleaned up in steps of its own (`ReadMessage`, `LookUp`, `SendResponse`,
  `CleanUpResponse`), without the lock in between, so that the channel may be closed
  before the send, which panics and ends the process (`panicked`).
  `SocketIsServed`: a client has one open socket at most and, while it says it is
  connected, a reader, or a dial that is about to start one. `PendingIsAwaited`: whoever is in
  the map of pending requests waits for its answer or is about to send its request, or
  the answer was sent and the handler is about to delete the entry. Of notifications
  only the reading is modelled. The part `sockets` is one process, two clients and a
  socket that breaks; the first client dials three times, or twice beside the one that replaces
  it, which dials once. The part `requests` is two processes over unbroken sockets,
  one of which disconnects while the other subscribes; nobody stops. The theorems have
  neither bound.
* `Performances`: a request from the dispatcher's signature to the verdicts of two
  validators. `AcceptedIsDone` and `RejectedForCause` together say what a verdict
  means. The causes in the second are what the code does: a reverted transaction is
  uploaded like any other, a custom script that finds nothing to do is rejected, and
  two kinds of arguments do not survive JSON (`Reread`): a long number is
  rounded, and a tuple, which the performer hashes as a struct with its fields in the order of the
  ABI, comes back as a map with sorted keys. Both are rejected although
  everything was done. A batch is signed as a whole and verified task
  by task, and conditions are compared with the lower limit by the scheduler and
  with the upper one by keepers: such tasks are refused by the performer already. A
  custom task with something to execute ends the performer (`KeeperPanics`).
  Requests are on both sides of every tolerance.

The bounds that are not constants are in `Bounds` of `MCExecutions`, a state
constraint: a state outside it is checked and not gone on from.

No fairness is assumed in this run, as none of its properties need it.

## 10. What is proved

Eight modules hold the theorems. Together they state every invariant and every
action property of the passing runs, for all values of the constants that the
assumptions of the modules allow. None of the properties is inductive as it stands; what follows says of each what has to be
known beside it, which is where the reason it holds is to be found. A proof has
one lemma per action, or per group of actions that touch the same variables, and
a theorem that combines them.

### `TaskMonitorProofs`: `TaskStreams`, `ChainListener`

For every set of tasks and requests, every number of attempts, deliveries, faults
and message ids: `TypeCorrect` (`TypeOK`), `DispatchedIsWatched`
(`TimeoutCoverage`), `FailedHasStatus` (`FailedCopyHasStatus`), `AckedIsRecorded`
(`AckedSingleRecorded`) and the action property `CopyBeforeDelete`
(`DeletedOnlyAfterCopy`).

`IInv` adds what they rest on: message ids held
by a handler or the index are below `nextId` and name a message of that task, if
any (`IdsInv`: an XDEL never hits another task); whoever is past its XADD to the
failed stream has a copy there (`CopyInv`: that is why the deletion is safe, and
it survives since copies are never forgotten, only trimmed into `gone`); a report
that reached the streams left a status (`StatusInv`); and the dispatcher's place
tells what it has done (`DispatchInv`). `RedisSteps` classifies what one step can
do to the streams, and `StepMonotone` derives from it that copies, records and ids
once there stay; each conjunct then has its own step lemma, in which the actions
that do not touch it are one case (its frame).

`Coverage` (`CoveredOnce`) holds for every number of blocks, polls and workers.
`BatchInv` says that the logs being emitted are distinct and of the range asked for;
`OnePlace` that an event is in one place at most, of the channel, a worker's hands,
`handled` and `lost`; `PassedInv` that the events in one of them are exactly those the
poller has gone through. The last is an equivalence: from right to left it is
the property, from left to right it is why nothing is taken twice.

### `EventMonitorProofs`

`TypeCorrect` (`TypeOK`), `WorkersServe`
(`LiveWorkerServesEntry`) and `NoGap` (`NoSilentGap`) for every set of keys and
requests, every length of the chain, window and range of blocks, and every number of
entries, workers and faults. `CreatedInv` says that
a copy of an entry held by a handler, the sync or a worker is of one that was created,
`KeptInv` that a created entry is in the registry or cancelled: a worker started late,
for an entry that has gone, is therefore cancelled at birth. `NoSilentGap` needs
`RangeInv` (a subscriber who comes at `head` has missed nothing, since no `LastBlock`
is beyond it) and `PollInv`, the same statement for a poll under way: what lies behind
its `from` was handed over, is in `lost`, or is in its `skipped` and becomes lost when
its next chunk succeeds. `LastBlock` itself need not be monotone for this, and is not.

### `ConditionSchedulerProofs`: `ConditionScheduler`, `ConditionValues`

`NotificationSafe` (`NotificationKeepsData`) and `WatchedSafe` (`WatchedHasData`)
for every set of jobs, of any kind, scheduled any
number of times; the runs have no event job together with a cleanup, the theorem
has. `MutexInv` adds that whoever is between its Lock and
its Unlock of `notificationMutex` is its holder, which is what makes the cleanup wait
for the submission; `MadeInv` that a worker in its `Stop` has cancelled its context and
counts among those scheduled, so that the cleanup of a job scheduled once is that of
its only worker; `ShutdownInv` that after `s.cancel()` every worker, later ones too, is
cancelled, so that `Stop` may empty the store.

`SameVerdicts` (`CopiesAgree`), for every set of documents and jobs: `Recorded` says
that what a worker has noted of a document is what its copy of the code makes of it,
and `SameNumber` that the copies differ only where a document names a route.

### `KeeperHealthProofs`

`TypeCorrect` (`TypeOK`) and `StatusSafe` (`StatusAgrees`) for
every set of keepers and every number of attempts, faults and restarts.
`LockInv` says that a handler that writes holds the lock
and that its keeper is active (no sweep can mark it meanwhile), `RowInv` that the row
is right, or noted as astray, or about to be written by one of the two that may;
`ExitedInv` that a process that has ended holds nothing, `WriterInv` that a writer has a
row and an attempt left.

### `DatabaseServerProofs`: `JobStore`, `JobListings`, `TimeJobs`, `RedisClient`, `Requests`, `AccountStore`

For every number of handlers at work at once, whatever rows they name.

* `ActiveRows` (`ActiveJobHasRow`) and `Deletion` (`DeleteAnswerIsTrue`), by `JobInv`:
  a POST that writes the typed row has written that of `job_data` (`PostInv`), a
  DELETE that answers 200 knew that no POST of its job was going on and its
  statements leave the row inactive (`DropInv`).
* `CompleteListings` (`ListingIsComplete`): a POST alone among those of its user
  (`SoleInv`) writes a list that still contains what was there when it read it, so that
  the jobs of the POSTs that are over are in the user's row (`UserInv`); what
  a handler of a GET has yet to find is left in the list it goes through
  (`ListingInv`).
* `Punctual` (`NoStall`) and `SingleSlots` (`SlotOnce`), by `TimeInv`. Its
  conjuncts are about one job: two handlers select it apart (`Apart`); a job that waits has
  its next execution a whole poll ahead of the last one (`AheadInv`, which needs
  `Slack` to be at most any interval and any delay until the first run); and an
  execution in a batch, a retry or a handler is in one of them, behind its row
  (`SpentInv`, `SingleInv`, `AcceptedInv`).
* `Registration` (`CachedGroupExists`): no command takes a group away but the expiry of its
  stream, and a caller that registers has one command, so that the answer it
  remembers is one to the creation of the group.
* `OwnAnswers` (`AnswerIsOwn`), by `RequestInv`: a context serves the last request
  that took it (`PoolInv`), nobody else works on one that was clean (`OwnInv`), and
  the index of a context says how far its chain has come (`Phase`).
* `AccountsTypeCorrect` (`AcctTypeOK`); `Admission` (`AdmissionIsSound`): an UPDATE
  brings a deleted key back without `is_active`, so later requests stop at the
  lookup; `Counters` (`CountersAddUp`): without a second insertion a row in
  `keeper_data` never becomes absent (`PresentInv`), and an update that
  races with no other still finds what it read (`SettledInv`).

### `DockerExecutorProofs`: `CodeExecutor`, `ScriptRun`, `FileCache`, `TaskFees`, `CallArguments`

* `Capacity` (`CapacityBound`), for every finite set of executions and size of the
  pool. Containers are
  numbered as they are created, so that a new one is in no map and adds one to its
  cardinality, and every step that gives a token back has taken its container
  out of the map or was creating none: the token stays the right of one container.
* `ExecTypeCorrect` (`ExecTypeOK`) and `Recovery` (`PoolRecovers`): a container of the
  channel that has left the map left a token behind (`QueueInv`), and as long as
  neither channel nor semaphore has anything, somebody holds or makes a container
  and will bring one of the two back (`ReturnInv`).
* `OwnOutput` (`OutputIsOwn`): what a run finds in its container is its own or
  missing at every place (`Files`), and a container nobody uses is empty.
* `WholeScripts` (`ServedIsWhole`): nothing leads to a file that is being written, no
  entry of the map, of the metadata or of a copy of the map that a call has yet to
  write, and no call past its lookup, but for `torn`. Since the copies are
  part of the invariant, it does not matter when, and in which order, they are written.
* `CoveringQuotes` (`QuoteCovers`), for every market and history of any length: the
  percentile is an element of the week, and so many of the samples are not above
  it that a present price beyond it is dearer than three quarters of them; the
  margin and the roundings only add.
* `ExactCalls` (`CallIsExact`), for every output, list of parameters and widths in
  their order (`narrow` below 32 bits, these within the mantissa, the mantissa below 64,
  64 below 256): powers of two exist and grow (`Powers`), a number of no more bits than the mantissa
  is its own float, and a number beyond a bound of the type has its float beyond it
  too or at it; the rest goes through the converters, value by value, the elements of lists
  and the fields of objects included.

### `KeeperProofs`: `KeeperExecution`, `Performances`, `TaskAccounts`

* `AtMostOnce` and `Refinement` (`ExecutesOnce`, the refinement of `OneExecution`), for
  every finite set of targets, number of attempts, foreign transactions, restarts
  and faults: each transaction in the mempool or on the chain has
  the nonce its target took before its first transaction, and keeps; what is
  mined is below `chainNonce`; and (`CountInv`) `chainNonce` counts the targets
  executed and the foreign transactions, so that the mined transactions are among those
  of `OneExecution`. The execution of a target that was declined is over but for its delivery
  (`DeclinedInv`), and no transaction is of it, which is the rest of the refinement. Nothing is said of `current`: the
  argument does not rest on the nonce manager.
* `Acceptance` (`AcceptedIsDone`), for every request, set of
  validators and tolerances: a document is written when the outcome of the
  transaction is known, announced when it is written, and unchanged after; a
  validator that has come to its n-th check has passed those before it.
* `Rejection` (`RejectedForCause`): a task under way was signed alone and its trigger
  holds (`ProgressInv`), its document is what the performer made of it
  (`WrittenInv`), and reads back as that unless it has a long number or a tuple; so a check
  that fails, fails for one of the causes (`CauseInv`).
* `EarnedPoints` (`PointsAreEarned`), for any number of workers and repeated queries: a
  report is in one place (`OnePlace`), its worker has gone past what is booked of it
  (`BookedBehind`), and what a worker is about to write is a sum of shares
  without the one it is booking (`HeldAdds`). A lost update drops shares from the sum and so keeps it one.

### `ConnectionsProofs`: `RemoteCalls`, `WebSockets`, `LogRotation`

* `Ownership` (`OpenIsOwned`), for every set of calls, number
  of attempts and capacity: `HoldingInv` says at which places a call holds a
  connection (between the return of GetConnection and its own return or close) and that a
  waiter holds none.
* `ServedSockets` (`SocketIsServed`) and `AwaitedRequests` (`PendingIsAwaited`): a client
  is connected exactly when it has a socket, which is still with the dial that opened
  it or has a read loop on its way (`SocketInv`, kept by `LoopServed`), however many
  dial. A channel an answer is about to be sent to belongs to the request with its id
  (`ReplyIs`); a channel in the map is open, and who waits at it has the id it is
  there with and no answer, unless the handler is about to delete the entry (`EntryIs`).
* `NewestKept` (`KeptIsNewest`), for all limits and any number of files, failures and
  restarts: what files hold is ordered by their numbers and so are their days
  (`DaysAscend`), so that removal by number and removal by age both take the
  oldest.

### Assumptions and induction

All assumptions are named in the modules (`...Assumption`): ranges of the
constants, finiteness of the sets that are counted, disjointness of requests and
of kinds of jobs, the fields of inputs. TLC evaluates them in each run.

Some of the invariants are about data of any length: sums over sets
(`TaskAccounts`), a sorted week (`TaskFees`), flattened sequences, powers of two
(`CallArguments` has them as a recursive function, as the backends know nothing of
`^`). The induction
these need is written out as the absence of a least counterexample
(`NatLessThanWellFounded` of the library), as an induction theorem that takes
the induction hypothesis as a parameter cannot be instantiated; and a recursive
function is first shown to exist.

Proved and in no run: the type invariants of `TaskStreams`, `EventMonitor`,
`KeeperHealth`, `CodeExecutor` and `AccountStore`, `AckedSingleRecorded`,
`WatchedHasData` and `ExecutedAtMostOnce`.

### Only model-checked

* Liveness: `EventuallySettled`, `ExpiredDrained`, `LeftoverReaped`, `StoppedIsCleaned`,
  `SilentGoesOffline`, `CloseEnds`, `PublishedIsDelivered`, `CaughtUp`. TLAPS has no
  support for fairness and `ENABLED`.
* The type invariants of `ConditionScheduler` and of the modules of the three
  combined runs other than those named above are neither
  proved nor in a run (the proofs use shapes of the state that are weaker):
  `TypeOK` of each MC module is there to be added to its
  configuration while a module is worked on.

## 11. Findings

| Run | The code says | The code does |
|---|---|---|
| `EventMonitorDead` | `eventmonitor/service/service.go:132` "registers a monitoring request and starts a worker if needed" | a dead worker of an expired entry counts as a worker of the new one, and the event is never polled |
| `ConditionSchedulerStop` | `schedulers/condition/scheduler/init.go:123` "Stop gracefully stops all condition workers" | locks `workersMutex` again in a callback of the first active worker, and hangs |

Other disagreements have a step in the model, an exception in a property or a
hazard in `PROJECT.json`, and no run of their own:

* a completed task is copied, not moved (`taskmonitor/events/task.go:134`): its
  message, index and timeout stay, and an hour later the timeout worker fails it;
* the status check before marking a task failed (`taskmonitor/clients/database/task.go:63`)
  is a read and a write, with a result in between;
* `DumpState` runs before the server is closed (`health/keeper/persistence.go:49`): a
  check-in after it leaves its keeper online;
* `UpdateScriptStorage` gives its query job, key, value and time, where the query
  takes value, time, job and key (`taskmonitor/clients/database/task.go:326`);
* `UpdateKeeperChatID` gives its query id and chat, where the query takes chat and
  id: a row with the chat's number is written (`dbserver/repository/keeper_repository.go:131`);
* a custom task with something to execute packs a cost that nobody has set, and ends
  the keeper (`keeper/core/execution/action.go:180`);
* a tuple argument has the order of the ABI in the performer's hash and sorted keys in
  a validator's (`keeper/core/execution/arguments.go:557`,
  `keeper/core/validation/proof.go:72`): the proof of a correct performance is refused;
* "NaN" passes the range checks of every sized integer
  (`keeper/core/execution/arguments.go:61`);
* `KillExecProcess` "attempts to terminate a running Docker exec process" and sends
  it nothing (`pkg/dockerexecutor/container/manager.go:359`): it runs on in its container.

## 12. Not modelled

* Code nobody calls: the polling event worker of the condition scheduler
  (`monitor_event.go`, `init_event.go`), the service registry
  (`pkg/rpc/discovery`), `StartStreamHealthMonitor` of the monitor (never
  started; the dispatcher's gets a context that is already cancelled),
  `MarkTaskCompleted`, the retry middleware (its group has no routes,
  `dbserver/server.go:242`) and `KeeperMiddleware`.
* Calls that cannot have an effect: `CleanupPendingEntries`, the sweep of expired
  event jobs, the failure of `GetPerformerData` (it answers a fixed performer).
* The API and webhook client of the event monitor: it decodes and delivers in a
  goroutine whose failure is only logged; a webhook that never comes is a state of
  `ConditionScheduler` already.
* Pure reads and I/O: leaderboards and single-row read handlers, status and
  statistics endpoints, telegram, pulling images, the HTTP methods of the node
  client, metrics, the encoding of a log line.
* Pure computation without a state of interest: parsing of cron expressions and
  time zones (`TimeJobs` takes the next execution as given by its interval),
  cryptography (a signature is a record of who signed what), ABI encoding behind
  the conversion of `CallArguments`.
* Contracts and the aggregator: `Performances` and `TaskStreams` model what this
  code sees of them.

## 13. Running it

`tlc -config <Run>.cfg MC<Module>.tla` for a run: `TaskStreams*`, `EventMonitor*`,
`ConditionScheduler*` and `KeeperHealth*` with the module of that name,
`DatabaseServerSafety` with `MCDatabaseServer`, `Services` with `MCServices`,
`Executions` with `MCExecutions`. `tlapm <Module>Proofs.tla` for the proofs. Every
run sets `CHECK_DEADLOCK FALSE`: the bounds stop every model in the end, and the
services may be shut down.

The operators marked "a faulty variant" in the modules are never part of a
specification: each stands for a plausible bug in the definition that follows it,
and put in that definition's place it breaks the property named in
`PROJECT.json`.
