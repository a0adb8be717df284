# A TLA+ model of Directus

This directory specifies the parts of Directus whose correctness depends on the
order in which things happen: several Node processes that share a database and
Redis, asynchronous functions that interleave at every `await`, timers, lost
messages and crashes. The specifications are translated from the code in
`src/api`; paths below are relative to `src/`. `PROJECT.json` maps each
definition to the lines it stands for.

Contents: [inventory](#1-the-system), [modules](#2-the-modules),
[runs](#3-the-runs), [fairness](#4-fairness), [proofs](#5-the-proofs),
[findings](#6-findings-and-observations), [limits](#7-what-is-not-modelled),
[plan](#8-plan).

## 1. The system

Directus puts a REST, GraphQL and WebSocket API over an SQL database. Any number
of processes of `api` run side by side; they meet in the database and, when it is
configured, in Redis (caches, locks, counters and a message bus). Inside a process
everything is one thread, so a step is what runs between two `await`s.

| component | state | operations | talks to | what is hard | what makes it correct |
|---|---|---|---|---|---|
| **Schema cache** `api/src/utils/get-schema.ts`, `api/src/cache.ts`, `api/src/lock` | shared hash in Redis, schema and hash in each process, a lock counter | `getSchema`, `getSchemaCache`, `setSchemaCache`, `clearSystemCache`, `increment`, `delete` | database, bus, everybody who needs the schema | one process must build while the others wait; the message may be lost, the builder may die, the counter may be reset | the lock is given back; one builder; a process never goes back to an older schema; every call ends |
| **Message bus** `api/src/bus`, `packages/memory/src/bus` | handlers of each channel, the subscription of each process | `publish`, `subscribe`, `unsubscribe` | Redis | a message published before SUBSCRIBE is processed is lost | a waiter does not depend on one message |
| **Authentication sessions** `api/src/services/authentication.ts` | `directus_sessions`: token, expiry, `next_token` | `login`, `refresh` (session and json), `logout` | database, browser tabs that refresh at once | every SQL statement stands alone, no transaction | concurrent refreshes agree; a session is not duplicated and does not come back |
| **Items mutations** `api/src/services/items.ts`, `api/src/utils/transaction.ts` | the transaction, `MutationTracker`, `nestedActionEvents` | create, update, delete and their batches, upsert | database, emitter, response cache, nested services | retries of the transaction; hooks inside and outside of it; the purge | an event is about something that happened; an answer implies its events; the limit holds |
| **Response cache** `api/src/middleware/cache.ts`, `respond.ts` | cached responses | lookup, fill, purge, expiry | items, Redis | a response read before a mutation is stored after its purge | a stale response has one explanation only |
| **Event emitter** `api/src/emitter.ts` | handlers of filters, actions and init | `emitFilter`, `emitAction`, `on*`, `off*` | flows, extensions, webhooks, WebSockets | actions are not awaited | as for items |
| **Nested payloads** `api/src/services/payload.ts` | none | `processM2O`, `processO2M`, `processA2O` | items, recursively | tracker and events are handed down | as for items |
| **KV stores and caches** `packages/memory` | maps, Redis keys, a local copy | `get`, `set`, `increment`, `setMax`, `acquireLock`, `clear` | bus | local and Redis versions must behave alike; invalidation by message | each is an atomic map |
| **WebSocket server** `api/src/websocket` | clients, subscriptions by collection | connect, authenticate, subscribe, unsubscribe, dispatch, heartbeat | bus, authentication, items | close and re-subscribe during an `await` | a closed client has no subscription, a uid has one |
| **Flows, schedules, clocks** `api/src/flows.ts`, `utils/schedule.ts`, `synchronization.ts`, `utils/job-queue.ts` | handlers, a job queue, a shared clock | `reload`, `runWebhookFlow`, `scheduleSynchronizedJob`, `enqueue` | emitter, bus, KV | reloads overlap; several processes see one tick | a tick runs once, a handler is registered once |
| **Extensions manager** `api/src/extensions/manager.ts` | loaded extensions, a reload queue | `install`, `uninstall`, `reload` | bus, file system | coalesced reloads | what is installed is in the end loaded |
| **Users, shares, versions** `api/src/services/{users,shares,versions}.ts` | their tables | update and delete users, log in to a share, promote a version | items | a check and then a write, other requests in between | an administrator remains; a share is not overused; a promotion does not lose an update |
| **SDK clients** `sdk/src/auth`, `sdk/src/realtime` | the token and its timer; the socket and its state | login, refresh, connect, reconnect | API | a timer races a call | one refresh at a time; connecting ends |
| Collections, fields, relations, snapshots | the database schema | DDL | schema cache | the caches are cleared after the change | see the schema cache |
| Query engine and permissions, login providers, storage drivers, admin app | little of their own | | | | not candidates, see section 7 |

Interactions that matter most: a DDL service changes the database and then calls
`clearSystemCache`; every request calls `getSchema`, which takes the lock, builds,
and publishes on the bus; a request carries a session token; a mutation runs nested
mutations with the tracker and event list of its parent, commits, emits actions and
purges the response cache that GET requests fill.

The hazards of these parts, each at its line, are the list `hazards` of
`PROJECT.json`; the properties below are aimed at them.

## 2. The modules

### SchemaCache

One process in Node runs many invocations of `getSchema`. An invocation is a
*frame*, a record with its place in the function (`pc`), the number it drew from the
lock (`pid`), the hash or schema it holds (`seen`), how often its bus callback ran
(`fired`) and how it will end (`out`). The callback of a waiting frame invokes
`getSchema(options, attempt + 1)`, so a frame is named by its path in the tree of
invocations. When a frame returns, the callback that awaited it resolves the promise
above it in the same microtask run, up to the caller: `Settle` removes the frame and
all that wait for it in one step.

| state | code |
|---|---|
| `db` | the schema of the database, abstracted to a version number |
| `seen` of a frame, hashes and schemas | what was read: the version its first query saw and the one its last query saw (`from`, `upto`) |
| `sharedHash` | `hash` in `sharedSchemaCache` (Redis) |
| `localSchema`, `localHash` | `schema`, `hash` in each process's `localSchemaCache` |
| `lock` | the counter `schemaCache--preparing` in Redis |
| `channel`, `inbox` | the Redis subscription of each process (off, SUBSCRIBE sent, on) and messages under way |
| `frame`, `status` | running invocations, what became of each call |
| `migration` | how far a schema change has come in `clearSystemCache` |
| `taken` | history: the schema each process last took into use |

Actions follow the awaits of `getSchema`: `Call`, `GiveUp`, `ReadBypass` and
`ReadBypassRest`, `GetSharedHash`, `GetLocalHash`, `GetLocalSchema`, `Increment`,
`Reset`, `Subscribe`, `Timeout`, `ReadDatabase` and `ReadRest`, `SetSharedHash`,
`SetLocalSchema`, `SetLocalHash`, `Release`, `Publish`; those of the bus are
`Subscribed` and `Deliver`, those of the surroundings `Migrate`, `ClearShared`,
`ClearLocal` and `Crash`. Faults are counted by kind: a crash, a failing read of the
database, a timer of 10 s that goes off while others are still at work.

`getDatabaseSchema` makes several queries (tables, collections, fields, relations) in no
transaction. `ReadDatabase` is the first of them and `ReadRest` the last, with whatever
migrates between them: the schema that is built is of the *stretch* of versions from the
one to the other, of which it may mix any parts. A migration that the last query does not
see only shortens the stretch, so the steps between the two need none of their own.

A hash stands for the schema it was computed from (no collisions). The Redis commands
`INCR` and `DEL` are atomic, as they are in Redis. The timer of a waiting frame goes
off either when nothing else can happen or, as a fault, at any time.

*MonotonicReads* is what the cache promises its processes. It is not that a schema is
one the database has had, since the queries of a build may see several. It is that the
stretches a process takes its schemas from follow one another without overlap, up to the
database's version: no part of a schema is older than any part of the one used before.
Only one process takes a schema in a step. `SchemaCache!Monotonic` is its specification
`WITH newest <- db, used <- taken`: `Migrate` is `Change`, a `GetLocalSchema` that finds
a schema and `SetLocalHash` are `Take`, and what locks, messages, hashes and crashes do
is a stutter.

### Sessions

The sessions of one user. A token is drawn at random by one request and bears that
request's name. `rows` is `directus_sessions`, a function from tokens to expiry and
`next_token`. Every action is one SQL statement: `Login`, `ReadUser`, `InsertLogin`,
`PurgeAll` for login; `Refresh` and `ReadSession` for refresh, then `Dismiss` (the user
is not active), or `Extend`, or `Claim` followed by `Lookup` or `InsertSession`, or
(mode json) `Move`, and at the end `PurgeOwn`; `Logout`, `ReadLogout`,
`DeleteSession` for logout. `Die` ends a request between two statements, `SetStatus`
suspends or reactivates the user, `Tick` moves the clock. A request remembers when it
computed the expiry it will write (`at`): the row may be written much later.

`ReturnsRows` tells whether the database's UPDATE returns rows: knex yields an array
then, a number otherwise, and the code reads `.length` of it. Both TTLs
(`SESSION_COOKIE_TTL`, `REFRESH_TOKEN_TTL`) are one constant: no branch compares them.

The properties of tokens speak of tokens that name one row in all their life
(`ComesOnce`). Where one session is refreshed in both modes this can fail: a stateless
refresh of a session that has a `next_token` moves the row to that token
(`authentication.ts`, lines 377-383), and the session refresh
that drew the token inserts a row under it as well, before, after, or once the moved one
was deleted. Five requests in both modes show it; the four of the runs do not. In a
deployment where a session is refreshed in one mode `ComesOnce` holds of every token that
can be refreshed.

### ItemsMutations

Mutations of `ItemsService` by one process, and GET requests. `Begin` chooses an
operation from the constant `Menu`: create, createMany, update (by keys), delete,
updateBatch, upsertMany, with a number of payloads and a nested item in each or not.
`WriteChild`, `PurgeChild` and `WriteOwn` are what one payload does in the
transaction; `Fail`, `Conflict` and `Commit` end or restart it; `Announce` and `Purge`
follow in the order of the operation (`After`). The differences between operations
are named operators: `Deferred` (are the events put off?), `Kept` (do the collected
ones survive a retry?), `Tracks` (what counts towards `MAX_BATCH_MUTATION`?). A write
and its event are one value that says of which mutation, payload and attempt it is.

`Request`, `Lookup`, `Read` and `Fill` are the middlewares around a GET, `Expire` is
`CACHE_TTL`. What a GET returns is abstracted to the number of transactions that had
committed when it was read; the cache has one entry, since every mutation clears all
of it. `Crash` ends the process; with `SharedCache` the cache outlives it.

### JobQueue

The queue of `api/src/utils/job-queue.ts` as operators on a record of `running` and the
jobs that wait: `RunsAtOnce`, `Enqueue`, `Waiting`, `Size` and `Continue`, what `run()`
does when a job has resolved. A job that rejects leaves `run()` with `running` set, so
`Continue` is never taken and every later `enqueue` only waits. Flows and Extensions
both use it.

### Flows

`FlowManager` in several processes, the services that announce changes to it, and the
scheduled jobs of one flow with the clock the processes share. The active flows are a
version number, one event flow and one scheduled flow of it; `load()` registers them
without an await and `unload()` removes them around one await, the reset of the clock.

| state | code |
|---|---|
| `table`, `pending` | `directus_flows` and `directus_operations`; changes committed and not yet announced by `reload()` |
| `unlinked` | calls of `FlowsService.deleteMany` between their two statements |
| `inbox`, `sub` | the messages of channel `flows`, and whether Redis knows the subscription the constructor made without waiting |
| `boot`, `job` | where `initialize()` and the reload job stand |
| `queue`, `loaded` | `reloadQueue`, `isLoaded` |
| `got` | what each load's query returned |
| `handlers`, `listeners`, `timers` | `triggerHandlers`, the handlers at the emitter, the jobs of node-schedule |
| `calls`, `clock` | callbacks that await `clock.set()`; the value of the clock's key in Redis or in the process |
| `missed`, `taken` | histories |

`Start`, `Subscribe`, `BootRead` and `BootRegister` are the start of a process;
`Deliver`, `ResetClock`, `EndUnload`, `JobRead`, `JobRegister` and `NextJob` a reload;
`Commit` and `Publish` a mutation of FlowsService or OperationsService;
`CommitUnannounced` one that no `reload()` follows: its purge of the cache rejects after
the commit, or the rows were written by a plain `ItemsService`, as an import does
(`import-export.ts:81`); `Unlink` and then `Delete` or `DeleteThrows` are `deleteMany`,
which commits an update of `directus_operations` before `super.deleteMany` asks for
permission (`services/flows.ts:51`); `Fire` and
`SetClock` a scheduled job; `Crash`, `BootFails` and `JobFails` the failures. A job that
rejects is an unhandled rejection: Node ends the process, or, where a process manager
handles such rejections, nothing happens and the queue stays as it is. `JobFails` has
both.

A load makes two queries, the flows and their operations. `got` is the version at the first;
what the second sees beyond it is a change committed after the first, which is still to be
announced or is `missed`, so the load counts as the older of the two. A change that is not
announced is `missed` by every process that has read, until its next load reads again.

*OncePerTick* is what the clock promises: a store gives a tick away once until it is
reset. `Flows!TickOnce` is its specification with the same `Ticks`, `Stores` and
`taken`: a `SetClock` that succeeds is `Take`, `ResetClock` and the end of a process with
its own clock are `Reset`, everything else leaves `taken` alone.

### Extensions

`ExtensionManager` in the processes of one machine: `Start` to `Initialized`, `Install`
(also uninstall: the location changed), `InstallFails` (it changed in part, and nobody
reloads), `Toggle` (`ExtensionsService.updateOne`), `Reload` and its coalescing,
`EndReload`, `Broadcast` and `Deliver`; and `syncExtensions` at its awaits: `CheckStatus`,
`Lock`, `Subscribe`, `Clear`, `List`, `Copy`, `PublishReady`, `Unlock`. `ReadDisk` and
`Register` are the rest of `load()`; `RegisterKept` is its second `catch`, which logs and
registers the extensions or the settings an earlier load has read (`manager.ts:257-267`);
with `EXTENSIONS_MUST_LOAD` the process exits there instead, which is `Crash`.

Requests overlap without a limit of their own: an install or a change of settings may come
at any time in a process that is up. A job remembers whether a request of its process waits
for it (`request`), and broadcasts when it resolves; a request whose reload is coalesced
broadcasts at once.

| state | code |
|---|---|
| `remote`, `settings` | the extensions of `EXTENSIONS_LOCATION`, the rows of `directus_extensions`: versions |
| `disk`, `lock` | the local folder with its status file; the lock counter of the machine |
| `step`, `job`, `queue` | where `load()` stands, the reload that runs, `reloadQueue` |
| `listed`, `exts`, `conf` | what a sync has listed; the extensions and the settings loaded |
| `channel`, `waits`, `inbox` | subscriptions to `extensions.reload` and to the sync's channel, messages under way |
| `unsynced`, `resynced`, `kept`, `stranded`, `missed` | histories of the cases the properties leave out |

`Partial` stands for a disk, or a list of extensions, that is not a version of the
location. `settings` counts what administrators change. The rows that a load adds or
deletes for the extensions it found (`get-extensions-settings.ts:124-156`), and those an
install or uninstall writes, follow from the extensions and are no version of their own.

### WebSockets

`SubscribeHandler`, `HeartbeatHandler` and the connections they get. Each message is a
small process: `Receive`, `Handle`, and for a subscribe `Prepare` (or `Reject`, where
`getSchema()` throws or the collection is not accessible), `ReadItems`, `Register`. An
event is `Change`, then `Deliver` when the bus hands it over, and a run of `dispatch()`
iterates with an await in each iteration: `GotSchema`, `ReadEvent`, then `SendEvent` or
`Refuse`, each of which goes on to the next subscription (`GoOn`). `NoSchema` is a
`getSchema()` that throws before the loop, outside of its `try` (`subscribe.ts:112`):
the event is lost for all subscriptions and nobody is told. The promise of `dispatch()`
is nobody's, so this is an unhandled rejection; where nothing handles it Node ends the
process and with it everything modelled here, and the model has the case in which the
process goes on. The iteration is over the live `Set`, so it sees additions and
removals. `PingClients` and `Timeout` are the heartbeat, `Connect` and `Close` the list
of clients with `checkClients`. `msg`, `subs`, `dispatches`, `conn`, `pulse` and
`pending` are the handlers' own state; `log` is what was sent to each subscription;
`gap` (of the last change only), `late` and `others` are histories.

### MC and proof modules

The `MC` modules hold the constants of the instances and the symmetry sets.
`SchemaCacheProofs`, `SessionsProofs`, `ItemsMutationsProofs`, `FlowsProofs`,
`ExtensionsProofs` and `WebSocketsProofs` hold the theorems of section 5.

## 3. The runs

| run | instance | properties | what it shows |
|---|---|---|---|
| `schema_cache` | 2 processes, 3 calls (2 in one process), a schema change, a failing read, `MaxIterations` out of reach | `TypeOK`, `LockNotOrphaned`, `SingleBuilder`, `Coherent`, `NeverOlder`, `Monotonic` | the lock counter works as a lock, a change during a build, also between two of its queries, does not take a process back in time, and the whole implements MonotonicReads |
| `schema_cache_faults` | the same, one call with `bypassCache`, one crash, one failure, one early timer, `MaxIterations` = 2 | `LockNotOrphaned`, `WaiterHasWakeup`, `CallsEnd` | whatever is lost, every call ends |
| `schema_cold_start` | 4 processes with one call each, no faults | `NoLoopReported` violated | finding 1 |
| `sessions` | 4 requests, mode session, UPDATE returns rows, one dying request | `TypeOK`, `RefreshesAgree`, `NoFork`, `NoReturn`, `ReturnedIsBacked` | concurrent refreshes agree on the next session |
| `sessions_modes` | 3 requests, both modes | `OneRotation`, `SuccessorAppears` | json refreshes rotate once; a stored `next_token` gets its row |
| `sessions_race` | mode session | `ReturnedWorks` violated | finding 2 |
| `sessions_mysql` | UPDATE returns no rows | `NoFork` violated | finding 3 |
| `items` | 2 mutations of any kind, CockroachDB with one retry, limit of 3, cache in Redis, one reader with 2 GETs, one fault | `TypeOK`, `DeferredEventsHappened`, `AnsweredIsAnnounced`, `ServedFresh`, `LimitHolds` | retries, crashes and nesting do not separate the events from the rows |
| `items_batch` | updateBatch of 2 items | `NoEventOfFailure` violated | finding 4 |
| `flows` | 2 processes, clock in Redis, 2 changes, 2 ticks, one failure | `TypeOK`, `OneGeneration`, `HandlersCurrent`, `TickOnce`, `ReloadsEnd` | overlapping starts, reloads and ticks leave one generation of handlers, of the committed flows as far as they are announced, and a tick is taken once |
| `extensions` | 2 processes of one machine, 1 install, 2 toggles, one failure, 3 of these in all | `TypeOK`, `OneSyncer`, `SettingsCurrent`, `ExtensionsCurrent`, `LoadsEnd` | coalesced reloads of overlapping requests lose no setting; one process syncs; what is lost or waits forever has one of the named causes |
| `websockets` | 2 connections, 2 messages, one uid, 1 change, 1 dispatch without a schema or refused read | `TypeOK`, `InitFirst`, `ClosedIsRemoved`, `OnePerUid`, `CatchesUp`, `SilentClosed` | subscribing, unsubscribing, closing and dispatching at once leave no subscription behind but for the named races, and a silent connection is closed |

Deadlock is not checked: in each model every call or request is made once, and the
system stops when they are answered. Where stopping early would be wrong,
`CallsEnd`, `SuccessorAppears`, `ReloadsEnd`, `LoadsEnd` and `SilentClosed` say so.

**Bounds.** `MaxVersion`, `MaxFaults`, `MaxTime`, `MaxFailures`, `MaxGets`,
`MaxAttempts`, `MaxChanges`, `MaxInstalls`, `MaxToggles` and `MaxEvents` are the only
ones, all guards of the actions they bound. For the schema cache the interesting cases
need one builder, one waiter that is in the builder's process and one that is in
another: two processes and three calls. With four processes a waiter can lose three
times, the number of attempts, which three cannot show. For sessions the longest story
is a login, two refreshes that race and a third request that observes or deletes: four
requests. In `sessions_modes` three are a login and two refreshes in either mode;
`OneRotation` was checked once with four in both modes as well (25 million states), and
its theorem holds for any number. Three or four time units separate before, within and
after the grace period and the TTL. For items, two mutations let one commit between the
steps of another; two payloads separate a first that succeeds from a second that fails;
one nested item each takes createMany with two payloads over a limit of 3; two GETs are
one that fills the cache and one that is served from it.

For flows a process must start while another changes something, and a reload must come
while one runs and another waits: two processes and two changes; two ticks make a timer
that is late by one. The same instance with `SyncStore = "memory"` passes as well
(431,113 states), and the theorems of section 5 hold for both stores and any bounds. For
extensions one process installs or toggles while the other starts, reloads, or waits for
the sync; a third event of any kind is what it takes to have one reload run, one wait
and one dropped. For WebSockets two messages are two subscribes of one client that
overlap, a subscribe and an unsubscribe, or the subscriptions of two clients in one
dispatch. Beyond the run, one client with 2 messages and 2 changes (835,000 states, two
dispatches that interleave, one of which may get no schema) passes.

**Mutants.** Every property of a passing run has in `PROJECT.json` a plausible bug that
violates it, an operator placed before the one it replaces: a missing `finally`, `pid <=
2`, an UPDATE without `AND next_token IS NULL`, an upsert in place of an update, events
kept across a retry, nested items left out of the limit, a reload that does not ask
whether flows are loaded, `>=` for `>` in `setGreaterThan`, an install that does not
force the sync, settings taken from the load before, a subscription registered before
its payload is there, a dispatch that stops at a closed client.

## 4. Fairness

`SchemaCache!FairSpec` has weak fairness of `System`, every step of a running
invocation, of Redis, and of a schema change under way: Node runs each continuation
whose promise is settled, timers fire, Redis answers. Nothing obliges anyone to call
`getSchema`, to change the schema or to crash. Every behaviour is finite (a call is
made once, attempts and faults are bounded), so fairness of the disjunction forces as
much as fairness of each step. `Sessions!FairSpec` has weak fairness of the next
statement of each request: the database answers. `Die`, `SetStatus`, `Tick` and new
requests are not fair. ItemsMutations states no liveness.

`Flows!Fairness` has weak fairness of each step of a process that is alive and
`Extensions!Fairness` of the steps of each process taken together, which is what a
single thread does and asks for less: the event loop runs continuations, the database,
the storage and Redis answer, Redis delivers what it accepted for a connected
subscriber. Starting, changing, crashing, rejecting and the ticks of time are not fair.
`ReloadsEnd` therefore needs the exceptions it states, and `LoadsEnd` names `stranded`.
`WebSockets!Fairness` has only what `SilentClosed` needs: the two timers of the
heartbeat fire, and a connection the server closes is closed, by the close timeout of
the `ws` library when the client does not answer the close frame.

## 5. The proofs

Every invariant and action property that a passing run checks is the conclusion of a
theorem, for all values of the constants that meet the named assumptions; each is proved
from an inductive invariant that TLC found true in the states of a run first.

### SchemaCache

`SchemaCacheProofs` proves, for any set of processes, calls, bypassing calls, any
number of attempts, versions and faults:

| theorem | statement |
|---|---|
| `TypeCorrect` | `Spec => []TypeOK` |
| `LockHeld` | `Spec => []LockNotOrphaned` |
| `OneBuilder` | `SingleBuilder` as long as the counter stays below `MaxIterations` |
| `CacheCoherent` | `Coherent` under the same condition |
| `NeverGoesBack` | `NeverOlder` under the same condition |
| `ReadsAreMonotonic` | `Monotonic`, the refinement of MonotonicReads, under the same condition |
| `WaitersAreWoken` | `Spec => []WaiterHasWakeup` |

These rest on the named assumptions of SchemaCache about its constants (`Home` maps
calls to processes, the bounds are natural numbers). The condition
`lock < MaxIterations` is necessary: once the counter is reset under a running builder
a second one may build. It is stated as a hypothesis, `[](lock < MaxIterations)`.

*Types.* An invocation is a tree path, so the work is in `Settle` and `RunCallbacks`:
`SettleFrames`, `RunCallbacksFrames` and `MoveType` say which frames a step keeps
unchanged, adds and removes, and the later proofs use nothing else of them.

*LockHeld.* `LockNotOrphaned` is inductive with `TypeOK`: a positive counter has a
holder, a frame between the increment from 0 and its own `delete`. Any `delete`, also
one of somebody else's lock, sets the counter to 0 and so cannot leave it positive
without a holder; the finally makes the failing builder a holder until then.

*OneBuilder, CacheCoherent, NeverGoesBack.* "At most one builder" is not inductive by
itself: `Exclusive` adds that a builder exists only while the counter is positive, so
that an increment to 1 finds none, and that nobody is resetting the counter. `Ordered`
then relates the stretches: nothing cached or used ends after the database's version
(`NotAhead`) or overlaps what the builder has read and is about to write
(`WriterIsNewest`, true because builders do not overlap and the database only moves
forward); a process's schema does not overlap what it used before (`LocalNotOlder`);
what the builder wrote so far is still there or was cleared (`WriterTraces`); a
process's hash belongs to its schema, except between the two writes
(`HashOfSchema`). TLC finds `Exclusive` and `Ordered` true in all states of the
instance of `schema_cache`.

*ReadsAreMonotonic.* Every step maps to a step of MonotonicReads or to a stutter: one that
changes `taken` is of a single invocation and leaves `db` alone (`StepTakes`), and the
stretch it takes begins no earlier than the one its process used ends, and ends no later than
`db`, by `Ordered`.

*WaitersAreWoken* needs no bound on the counter and allows every fault. `WakeInv` says of
each invocation whose callback ran that the invocation it awaits, `Append(f, fired)`, is
alive. An invocation that settles takes with it everybody on its path who waits, so the
one above cannot be left behind (`ReturnWake`, from `PathAbove`, what is a prefix of
what); a crash takes whole trees, since the first element of a path is the caller's call
and with it the process (`Rooted`).

### Sessions

`SessionsProofs` proves, for any requests, modes, lifetimes and numbers of failures:

| theorem | statement |
|---|---|
| `TypeCorrect` | `Spec => []TypeOK` |
| `DeletedStayDeleted` | `Spec => []NoReturn` |
| `RefreshTokenRotatesOnce` | `Spec => []OneRotation` |
| `ReturnedAreBacked` | `Spec => []ReturnedIsBacked` |
| `ConcurrentRefreshesAgree` | `ReturnsRows => (Spec => []RefreshesAgree)` |
| `SessionsDoNotFork` | `ReturnsRows => (Spec => []NoFork)` |

The last two are false without `ReturnsRows`: run `sessions_mysql` violates `NoFork`.
`RowsFrame` and `RequestFrame` list the ways a row comes to be (kept, inserted, claimed,
moved) and a request goes on; the other proofs use these in place of the actions.
*DeletedStayDeleted.* `Origin`: a token has or had a row only when its request is past
its INSERT or UPDATE, and a `next_token` only when its request is past the claim. A
request never goes back, so it does not write twice. *RefreshTokenRotatesOnce.* Whoever
rotated a token ended it (`Rotated`), and the next to do so would need it to be there.
*ReturnedAreBacked.* Every `next_token` has a row, had one, or its request is at the
INSERT or died (`BackedInv`); what a refresh returns is its own token or such a
`next_token`. *ConcurrentRefreshesAgree.* As long as the session's row is there, what a
refresh has settled to return is that row's `next_token` (`AgreeInv`): a claim updates
only a row without one, and no `next_token` is ever replaced. When the row is gone,
nobody can settle on anything any more. *SessionsDoNotFork.* A token that a refresh drew
becomes known to anybody else only by the claim of its session (`KnownInv`).

### ItemsMutations

`ItemsMutationsProofs` proves, for any menu of calls, mutations, readers, retries, faults
and limits:

| theorem | statement |
|---|---|
| `TypeCorrect` | `Spec => []TypeOK` |
| `EventsAfterTheFact` | `Spec => []DeferredEventsHappened` |
| `AnsweredMutationsAreAnnounced` | `Spec => []AnsweredIsAnnounced` |
| `CommitsStayWithinTheLimit` | `Spec => []LimitHolds` |
| `CachedResponsesAreFresh` | `Spec => []ServedFresh` |

*EventsAfterTheFact.* What a mutation has put off is of the attempt under way, or of a
nested item (`EventInv`); who has committed keeps its attempt (`CommitInv`).
*AnsweredMutationsAreAnnounced.* `NotedInv`: for every payload the attempt is through
with, the own and the nested event are emitted, in the queue, or the one event that a
single operation adds when it announces. *CommitsStayWithinTheLimit.* The rows the attempt
has written weigh at most what the tracker counted (`LimitInv`); they may weigh less,
because the tracker survives a retry. *CachedResponsesAreFresh.* When a response was
cached while it was current, each commit it does not show is one that no client can know
of yet, because its mutation has still to purge the cache (`Pending`); to let a client
know, it purges first: a change before its event, a creation before its answer (whose
event comes earlier, which is why `ServedFresh` does not count it as known).

### Flows

`FlowsProofs` proves, for any set of processes, either store, and any number of changes,
ticks and faults:

| theorem | statement |
|---|---|
| `TypeCorrect` | `Spec => []TypeOK` |
| `GenerationOnce` | `Spec => []OneGeneration` |
| `TicksTakenOnce` | `Spec => TickOnce`, that Flows implements OncePerTick |
| `HandlersAreCurrent` | `Spec => []HandlersCurrent` |

*GenerationOnce.* `Generation` says of each process when it has nothing registered:
before `initialize()` has registered, and while a job is between the end of its unload
and its registration. That needs two facts the code does not state. No job runs before
`initialize()` has set `isLoaded`, because one that is enqueued earlier finds the flows
not loaded and ends at once; and `queue.running` holds exactly while a job is under way
(or has rejected), so jobs do not overlap.

*TicksTakenOnce.* The invariant `TicksTaken` says that a tick that was taken lies behind
the clock. `setGreaterThan` then refuses it whoever asks and however late, and a reset
forgets both.

*HandlersAreCurrent.* `Current` follows a version from the query to the registration:
what was read, or is registered, is *fresh* (the committed version, or a reload is under
way or will be announced), or a further job waits behind the one that read it, or a
change passed the process by. A change that nobody announces needs no more than that: it
is `missed` by whoever has read, and who has not will read it. `Spared` says what a step
may do to a process it is not about; each step then has to be looked at for one process
only. The invariant is not inductive without `Generation`, which says that a
registration finds nothing to add itself to.

### Extensions

`ExtensionsProofs` proves, for any set of processes, installs, changes of settings and
failures:

| theorem | statement |
|---|---|
| `TypeCorrect` | `Spec => []TypeOK` |
| `OneProcessSyncs` | `Spec => []OneSyncer` |
| `SettingsAreCurrent` | `Spec => []SettingsCurrent` |
| `ExtensionsAreCurrent` | `Spec => []ExtensionsCurrent` |

*OneProcessSyncs.* The invariant `SyncInv` adds that the lock's key is above zero
while a process syncs. A sync starts at the increment from 0 only, when none is under
way, and the key is deleted only by the process that syncs, as it ends; a crash leaves the
key, which blocks later syncs and never admits a second one. What a reload does with the
queue does not matter: it only sends a process to the check or to the lock.

*SettingsAreCurrent.* `JobsInv` relates the queue and the job that runs. A process whose
settings are not those of the database is before the query, or kept them when its load
failed, or will load once more (`Later`): a job waits, a reload message is under way, or
another process has a job, running or waiting, whose request will broadcast one
(`Owes`). That is why overlapping requests need no guard: a request either finds a job
that waits, which reads after the change and before anything later, or makes one.

*ExtensionsAreCurrent* is the deepest argument here. `DiskInv` says what the folder
holds at each point of a sync. As long as no install failed half-way, no forced sync was
dropped or joined another and no disk in sync was cleared again (`Ok`), the folder has
the extensions of the location, or nobody has loaded anything yet, or some process is
going to copy what the location has now, or one waits forever behind a lock left by a
crash (`Current`). A folder that is not in sync is new or being synced by force
(`Undone`), and a sync that nobody forced is the first one (`ForcedOnly`). The first
sync needs more (`FirstInv`, `PublishInv`): its ready message reaches only processes
that start, and an install that comes before it is published is of something it has not
listed. `LoadInv` follows what was read from there into a process, or was kept by it.
Each of these parts was checked with TLC before it was proved; several of them are false
without another.

### WebSockets

`WebSocketsProofs` proves, for any connections, messages, uids, changes and failing dispatches:

| theorem | statement |
|---|---|
| `TypeCorrect` | `Spec => []TypeOK` |
| `ClosedAreRemoved` | `Spec => []ClosedIsRemoved` |
| `FirstIsInit` | `Spec => []InitFirst` |
| `UidsAreUnique` | `Spec => []OnePerUid` |
| `SubscriptionsCatchUp` | `Spec => []CatchesUp` |

*Types.* `TypeOK` says that what is registered is a subscribe, which needs to be known
of a message before it is registered (`Subscribes`), and that a run of `dispatch()` past
its first await is at a subscription (`Runs`). *Frame* lists what any step can do to one
message; the other proofs use that in place of the actions. *FirstIsInit.* What is in the
set, and what a run is at, has something in its log (`HeardInv`): registration and answer
are one step, and a run comes to what is in the set. *ClosedAreRemoved* needs that a
message keeps its client. *UidsAreUnique.* `UidInv` looks at subscriptions and at
subscribes past `unsubscribe()` alike (`Claims`): such a claim removes one subscription
of its name, so that if another is left the two had overlapped before.

*SubscriptionsCatchUp.* A subscription was sent the items as they are, or the event of
the last change is still owed to it: it has not been delivered, or a run of `dispatch()`
for it has not come to the subscription (`SubsHear`), or has passed it by (`gap`: it got
no schema, or ended before the subscription was registered). What became of the events
before the last does not matter: `gap` is emptied by every change. A payload that is
read but not registered is of the items as they are, or the event is owed in the same
sense (`ReadsHear`), because a run that starts later sees what is registered meanwhile.
`RunInv` says that nothing sent is from the future. With two changes and one client this
was checked beyond the run.

### Only model-checked

The liveness properties `CallsEnd`, `SuccessorAppears`, `ReloadsEnd`, `LoadsEnd` and
`SilentClosed`: liveness under fairness needs ENABLED, which the prover does not handle.
The properties that the code violates (section 6) are checked by their runs alone.

## 6. Findings and observations

1. `getSchema` reports "hit infinite loop" in a cold start of four processes without
   any fault. Each published message wakes all waiters, one of them builds for its own
   process, the others wait again, and the one that loses three times gives up
   (`get-schema.ts:38`, run `schema_cold_start`).
2. Within the grace period a refresh can return a token that has no row yet: the token
   is published as `next_token` in one statement and inserted in another
   (`authentication.ts:464` and `486`, run `sessions_race`). `ReturnedIsBacked` and
   `SuccessorAppears` say how far this goes: the row follows, unless the request that
   makes it dies.
3. Where UPDATE returns no rows, `updatedSession.length === 0` is never true and the
   race that the branch is for ends in two sessions (`authentication.ts:474`, run
   `sessions_mysql`).
4. `updateBatch` and `upsertMany` run action hooks before the commit, also when all is
   rolled back (`items.ts:574` and `850`, run `items_batch`); `docs/extensions/hooks.md`
   says that action hooks execute after the event.

Observed without a property of their own: createOne and createMany announce before
they purge, so a listener that fetches on the event may get the old response; a
response read before a commit and cached after the purge stays until `CACHE_TTL`
(`ServedFresh` says that this is the only way to be served something old); a retried
transaction counts its mutations again and repeats the nested events of the rolled
back attempt (`DeferredEventsHappened` names that exception, `LimitHolds` is one-sided
for that reason); two json refreshes that race both return a token, one of which has
no row (`OneRotation` says that no more than one has).

*Schema cache.* A build that a migration falls into caches a schema that mixes two versions
(`get-schema.ts:109-223` queries several times in no transaction), and may store it after the
migration's clear: it is then used until the next clear. `Monotonic` says only that it is not
older than what was used before.

*Flows.* A process stays on old flows in three ways only, `HandlersCurrent` says, and
until its next load: a change is announced between the query of its first load and its
registration or subscription (a reload that finds the flows not loaded only warns,
`flows.ts`); the process that committed it ends before it publishes; or the code
announces it to nobody. The last is so for the unlinking of operations when
`super.deleteMany` throws after it (`services/flows.ts:51`), for a mutation whose purge
of the cache rejects after the commit, and for rows written by a plain `ItemsService`,
as by an import. A reload resets the clock that other processes keep time by, so that a
tick may be taken once more after it. A reload that rejects while something handles
unhandled rejections blocks the queue for good (`job-queue.ts:26`). Operations that lead
back to each other make `constructOperationTree` (`construct-flow-tree.ts:19-43`)
recurse without end, which is one way for a load to reject. A tick or event that is
being handled goes on with the old flow after a reload.

*Extensions.* An error of `getExtensions()` or `getExtensionsSettings()` is logged
(`manager.ts:257-267`) and the job resolves with what an earlier load has read: the
process stays on old extensions or settings until its next load, and the request that
asked is answered as if it had been done (`kept`). An install that fails half-way has
changed the location and is followed by no reload. Two loads at once may both insert a
row for one extension (`get-extensions-settings.ts:156`, not modelled). A forced reload
that finds an unforced one waiting is dropped with its force (`manager.ts:294-298`); a
forced sync that finds another under way joins it, also when that one has listed the
location before the upload (`unsynced`). The status is checked before the lock and not
again after it, so a second process may clear the folder while others read it
(`resynced`). The ready message precedes `lock.delete`: a process that increments
between the two, or whose SUBSCRIBE is late, waits forever (`stranded`), as does every
later one after a crash in a sync. `queue.onIdle()` does not reject when a file could
not be written (`sync-extensions.ts:79`).

*WebSockets.* A subscription may miss an event between its first read and its
registration, all subscriptions miss it when `getSchema()` throws in `dispatch()`
(`subscribe.ts:112`), as by finding 1, and no client is told (`gap`); one may stay
behind a closed client (`late`), or have a twin of the same uid (`others`), of which a
later unsubscribe removes one. Runs of `dispatch()` are not ordered, so the last message
of a client may hold older data than one before; an event may follow the acknowledgement
of an unsubscribe. The heartbeat's comment says that any message means the connection is
still open; messages of type auth, invalid ones and those over the rate limit are not
counted.

## 7. What is not modelled

Inside the modelled parts: share sessions, the login rate limiter, providers, second
factors, `last_access` and activity rows (they do not touch the rows of other
sessions); `CACHE_AUTO_PURGE` and its ignore list, `emitEvents: false`, revisions, the
diffing of O2M payloads, errors when the response cache is read (they lead to the
uncached path); `BusLocal`; the system cache and its lock
(`api/src/cache.ts:103-127`). Schemas, items, tokens, headers and messages are
abstracted to what distinguishes them.

In Flows: `executeFlow` and the operations themselves, webhook, manual and operation
triggers, which keep no state between runs; several flows with different cron rules
(they have clocks of their own). In Extensions: the file watcher of development, the
registration of each kind of extension, the app bundle, several machines (they share
only the location and the broadcasts), the rows of `directus_extensions` that a load or
an install adds or deletes, and with them whether one extension has two. In WebSockets:
the upgrade and the three ways to authenticate, token expiry timers, the rate limiter
and the connection limit, event filters and queries of subscriptions, GraphQL
subscriptions, the `items` handler. In the KV stores: `KvLocal`, `setMax`, `acquireLock`
and `CacheMulti`, of which `api` uses only the first, and with a single process.

Components without a module: users/shares/versions (checks and writes in separate
statements, their rows are not in ItemsMutations) and the SDK's clients (section 8). Not
planned: query engine and permissions (a sequential translation to SQL without state),
login providers and storage drivers (I/O with other systems), GraphQL schema generation,
migrations, the admin app (views and pure translations). These make up most of the
repository's lines, which is why the modelled share of them is small: the models are of
the few thousand lines whose order of execution matters.

## 8. Plan

1. *SchemaCache*, *Sessions*, *ItemsMutations*: written.
2. *JobQueue*, *Flows* with *OncePerTick*, *Extensions*, *WebSockets*: written.
3. *CheckThenAct*: last administrator, share uses, version promotion.
4. *SdkAuth*, *SdkRealtime*: refresh timer, reconnect.

Theorems: all safety properties of the runs are proved. Next come those of the modules of
steps 3 and 4 as they are written, and for the liveness properties the safety part of their
argument: a measure that each fair step decreases.
