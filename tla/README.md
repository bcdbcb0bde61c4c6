# neokit: a TLA+ verification of its concurrent core

neokit is a Go toolkit for small self-hosted services: an application shell with
an ordered teardown, supervised goroutines, a cache, an event bus, OIDC login with
server-side sessions, health endpoints, daily SQLite backups, an outbound HTTP
client and a set of smaller helpers. This directory holds TLA+ models of the parts
that carry state between goroutines, requests, processes or restarts, the TLC
configurations that check them, and TLAPS proofs. `PROJECT.json` lists, for every
definition, the lines it models; names follow the Go names where TLA+ allows it.

## 1. Inventory

Columns: the state a component keeps, what changes it, what is hard, what makes it
correct. Parts that are not modelled yet are listed at the end.

| Component | State | Operations | Hard behaviour | Correct when |
|---|---|---|---|---|
| `safe.Group` | live count `n`, mutex, `idle` channel | `Go`, panic and respawn, `leave`/`wake`, `Wait` | the count and the channel are two variables; respawn during shutdown | a drain is reported only after it happened, and is always reported; no double close |
| `safe.Pool` | `sem`, `closed`, wait group | `Go`, queue, run, `Wait` | slot and context ready together; `Go` against `Wait` | the limit holds, a drain is final and ends |
| `lifecycle.Stack` | steps, `done` | `Push`, `Shutdown` | concurrent `Push` and `Shutdown`, steps that fail or panic | every accepted step runs once, in reverse, and its error is reported |
| `app.App` | the stack, application context, stream signal, server | `New`, `Run`, `Close` | three possible closers, requests that start work during the drain | a resource closes behind everything that uses it; `Run` returns |
| `cache.Cache` | map, FIFO order, entries with value, expiry, generation and flags | `Fetch`, background revalidation, `Invalidate`, eviction | a fetch outlives an invalidation or its entry's eviction | no value older than an `Invalidate` that returned; one refresh per key; bounded size |
| `pubsub.Bus` | table of channels per topic, RWMutex | `Subscribe`, cancel, `Publish` | close against send, full subscribers | no send on a closed channel, no leak, order per publisher, no blocking |
| `session` store and policy, gate middleware, sweep job | rows; the request's locals | lookup, touch, guards, revoke, logout, sweep | the row, the clock, the policy and the provider are read at different moments | a deleted session stays out, the absolute cap holds, ownership follows the configuration, rows are collected |
| login handshake | cookies in browsers, codes at the provider, rows | login, callback, logout | repeated and misdirected callbacks, lost responses, cookie names that change with the configuration | only the browser that began a login finishes it, once; logout signs out |
| discovery of the provider | cached document, mutex | `AuthorizeURL`, `Exchange`, `EndSessionURL`, `CheckHealth` | the mutex is held across the fetch from an issuer that may be down | one fetch for a burst, nobody waits for ever |
| `health.Registry` | in-flight flag per check | sweeps, deadlines | overlapping probes, checks that never return | one call per check, a finished check is never called wedged, every probe answered |
| `fiberx` If-Match | none: version in the store, ETags at the clients | `CheckIfMatch`, `IfMatchVersion`, ETags | a version goes stale between the check and the store; unreadable validators | no concurrent edit is overwritten |
| `backup.Service` and `jobs.Daily` | files by day, the loop's timer | scheduled and manual snapshots, prune, restart | crashes between the steps, stale listings | no needed file pruned, every day covered |
| `jobs.Job` under `safe.Go` | ticker, context | run at start, ticks, `OnError`, respawn | errors and panics of the run and of its error handler, cancellation against a ready tick | the job goes on until it is cancelled, and then ends |
| `webpush/delivery` | slots, tally, the store of subscriptions | `Send`, `SendTo`, retirement | deliveries that hang, panic, or find their subscription gone | the tally is what was accepted, only dead subscriptions are retired, slots come back |
| `notify.Multi` | none: the joined errors of one call | `Send` over webhook, ntfy, Apprise | a backend that fails, acts and loses its answer, or a context that ends | every backend is served once or named in the error |
| `sqlitex.Open` and `Migrate` | `user_version`, the schema, the open transaction | step, stamp, commit | crash or failure between any two of them, older and newer builds | a process serves exactly the schema it knows |
| `httpc` client | cached token, transport attempts | `Token`, `DoJSON`, `Bytes`, 401 retry, transport retry, backoff, `Classify` | lost answers, shared token revoked under several calls, any status and `Retry-After` | a write is applied once, one login per rejection, no retry before its time, no wrong verdict on the credentials, calls return |

Interactions: `App` owns a `lifecycle.Stack` and pushes the HTTP drain, the
background context, `safe.WaitGo` and telemetry onto it; work inside handlers starts
goroutines of `safe.Group`; cache revalidation, the session sweep and the backup
loop run as such goroutines. The login callback creates the rows that the gate
middleware resolves on every later request and that the sweep job deletes. Every
component is plain shared memory under mutexes, atomics and channels; the database
and the network are the only other parties.

Not modelled: `safe.All` (disjoint slots, joined before they are read), `capset`
(a memo of equal values), `ssrf.go`, `image.go` and the debug ring of `httpc`, the
request-local half of `fiberx` (error mapping, hash ETags, validation, parameters,
the configuration of fiber's rate limiter), the exec and query helpers of `sqlitex`,
the VAPID keys, the parsing of claims, and the stateless helpers and wrappers
(`config`, `logx`, `metrics`, `tracing`, `disk`, `ids`, `clock`, `netx`,
`buildinfo`). They keep no state between two steps of different actors, which is
what a model checker could explore; `PROJECT.json` gives the reason for each.

## 2. Modules

| Module | Models | Composes |
|---|---|---|
| `SafeGroup` | `safe/supervise.go` | |
| `Drain` | the promise of a drain, abstractly: no counter, mutex or channel | |
| `SafeGroupDrain` | that `SafeGroup` implements `Drain` | extends `SafeGroup`, instantiates `Drain` |
| `SafePool` | `safe/pool.go` | |
| `Lifecycle` | `lifecycle/lifecycle.go` | |
| `AppShutdown` | `app/run.go`, the teardown half of `app/app.go` | extends `Lifecycle`; takes `safe.WaitGo` at the contract `SafeGroup` establishes |
| `Cache` | `cache/cache.go` | |
| `PubSub` | `pubsub/pubsub.go` | |
| `Session` | `session/`, `oidcauth/fiberauth/middleware.go`, `sessions.go`, `oidcauth/sweep.go` | |
| `Login` | `oidcauth/fiberauth/handshake.go`, `cookies.go`, `oidcauth/provider.go` | issues the rows of `Session` |
| `Health` | `health/health.go`, `health/handler.go` | |
| `Discovery` | `discover` and its callers in `oidcauth/provider.go` | |
| `IfMatch` | `fiberx/concurrency.go` | |
| `Backup` | `backup/backup.go` over `jobs/daily.go` and `sqlitex/snapshot.go` | |
| `PeriodicJob` | `jobs/jobs.go` under the supervisor of `safe.Go` | |
| `Delivery` | `webpush/delivery/sender.go` | |
| `PushJob` | a `jobs.Job` whose `Do` is `Sender.Send` | extends `PeriodicJob`, `Delivery` |
| `Migrate` | `sqlitex/open.go`, `migrate.go` | |
| `Notify` | `notify/notify.go` | |
| `Transport` | the decisions of `httpc/transport.go` and `fault.go`, as operators | |
| `HttpClient` | `httpc/client.go`, `bytes.go`, the round trips of `transport.go` | extends `Transport` |
| `SafeGroupProofs` | theorems about `SafeGroup`, and that it implements `Drain` | extends `SafeGroupDrain` |
| `AppProofs` | theorems about the teardown | extends `AppShutdown` |
| `FanOutProofs` | theorems about `SafePool`, `PubSub`, `Notify` | extends the three |
| `RequestsProofs` | theorems about `Health`, `Discovery`, `IfMatch` | extends the three |
| `ScheduledProofs` | theorems about `Migrate`, `PushJob`, `Backup` | extends the three |
| `HttpClientProofs` | theorems about the client | extends `HttpClient` |
| `SessionProofs` | theorems about sessions and the gate | extends `Session` |
| `StaleStateProofs` | theorems about `Login` and `Cache` | extends the two |

Modules that one proof module extends side by side share no variable; the definitions
that would clash carry the name of their component (`CacheSpec`, `BusNext`).

Each `MC*` module gives values (symmetry sets, functions) to constants. Four of
them, `MCFanOut`, `MCRequests`, `MCScheduled` and `MCStaleState`, put modules side by
side that share no state, with a variable `part` that says which of them a behaviour exercises: the
reachable states are the union of those of the parts, not their product, and every
state and step of each part is explored as it would be alone. Each module has a section "Plausible mistakes": altered versions of single definitions,
used to confirm that every property can fail.

How the atomic steps are cut: a critical section of a mutex is one step; an atomic
operation, a channel operation, a statement sent to the database, a call of foreign
code and a read of the clock are steps of their own; what a goroutine does between
two of these on its own locals belongs to one of them.

Per module:

* **SafeGroup.** `n`, `idle` (0 is nil, channels are numbered) and the set of closed
  channels are the struct; `pc` follows each goroutine through fn, backoff, `leave`
  and the two halves of `wake`, `wpc` each caller through `Wait`. `owed` and `late`
  are history: what was live when a `Wait` was called, and respawns after
  cancellation.
* **SafePool.** `task` follows each task: refused, queued, holding a slot that is
  still to be re-checked, running, leaving. `SetLimit` is the write to the exported
  field `Limit`, which the pool reads until it has a semaphore.
* **Lifecycle, AppShutdown.** `Lifecycle` has the stack and the sweeps of its
  callers; `AppShutdown` gives the steps their meaning. `BootOrder` is the order of
  `Push`, hence, backwards, of the teardown. `Closers` are the steps pushed through
  `PushCloser`, whose `Close` sees no context and which no budget ends.
* **Cache.** An entry object outlives its eviction, so entries are numbered and
  `entries` maps a key to a number. A value is the version of the upstream that its
  fetch read. Expiry happens at any moment after publication, because a TTL can be
  shorter than any scheduling delay.
* **PubSub.** Whoever is inside `Publish` holds the read lock, and `Subscribe` and
  cancel, which need the write lock, wait until nobody does; each send is a step under
  the read lock. Channel buffers are bounded sequences.
* **Session.** A request is a record of its own locals: the provider it read, the row
  it read, the clock it read. `gone`, `wasGone`, `began` and `steady` are history, and
  so is `allowance`: the longest `MaxLifetime` in force since a session was issued.
* **Login.** A request carries the jar its browser had when it was sent; the response
  reaches the browser in a later step, or never. Random secrets are numbers. The
  failure reasons are grouped by where the callback stops.
* **Drain, SafeGroupDrain.** The live set, what each caller of `Wait` was told, what it
  is still owed. The refinement maps live to what `n` counts and lets a caller wait
  from its critical section on; `wake`, the mutex and the channel are stuttering.
* **Discovery.** The document is there or not, the mutex has a holder or not; a fetch
  succeeds or fails at any moment, and `CheckHealth` fetches for itself.
* **IfMatch.** Handlers and store are the application's: one handler checks a version
  it read and stores on condition of it, the other passes the version of the header to
  a conditional store, the two uses the package documents.
* **Health.** One goroutine and one answer per sweep and check; release of the flag
  and sending of the result are separate steps, in the order of the code. A sweep whose
  goroutines are gone is used for a later poll, so polls go on for ever.
* **Backup.** A file per day, complete or not; a process is the loop or a manual
  call; `Crash` stops all of them between any two steps. Every error return of
  `WriteDaily` and `prune` is a step: `MkdirFails`, `SnapshotRefused`, `SnapshotFails`,
  `ListFails`. The clock has two values per day, before and after the configured hour,
  and may move between any two steps of a run: `Options.At` is any time of day, 00:00
  included, so a run may cross midnight, the hour, or both. `spoiled` and `missed` are
  history about the current day, for `DayCovered`.
* **PeriodicJob, Delivery, PushJob.** The loop of the job with a ticker that holds one
  tick; the fan-out with a counting semaphore, a tally and one goroutine per
  subscription. In `PushJob` a run begins a `Send` and ends with it, with its error, or
  with its panic.
* **Migrate.** `effects` is the schema as the sequence of steps made, `tx` the copy an
  open transaction works on. A boot is a build that knows some number of steps; a
  process may die anywhere.
* **Notify.** The loop of `Multi` with what each backend has received; a post may be
  acted on without its answer coming back. `Retried` is the transport's list of methods
  it sends again, which has no POST; `tried` is the history of attempts and answers.
* **Transport, HttpClient.** `Transport` is pure: which outcome is retried, after which
  wait, with which verdict; products have the width of a `time.Duration` (`Width` bits,
  `Second` the unit). In `HttpClient` each attempt may be lost before or after the
  server acts on it, the token may be revoked at any time and a login may be refused.

## 3. Runs

The passing runs explore the whole bounded state space.

| Run | Instance | Shows |
|---|---|---|
| `group` | 2 goroutines, 2 waiters, 4 calls of `Wait` | `DrainComplete`, `CloseIsSafe`, `WakeupPending`, and `RefinesDrain`: the group implements `Drain`, with its liveness |
| `app` | 3 callers of the teardown, 1 request, 1 stream, 2 jobs | sweep: `ReverseOrder`, `SweepCompletes`; application: `StoreOutlivesUsers`, `ContextOutlivesDrain`, `StreamsDoNotHoldTheDrain`, `RunReturns` |
| `cache_wedged` | 1 key | violates `RefreshOwned`, see Findings |
| `fanout` | pool: 3 tasks, limits 0 and 1; bus: 2 topics, publishers and subscribers, buffer 1; notification: 4 places, one of them nil, 4 severities, one unknown | `DrainIsFinal`, `QueuedCancelNeverRuns`, `DrainEnds`; `NoSendOnClosed`, `PublishEndsAlways`; `EveryBackendAnswered` |
| `session` | a new and a legacy session, one request, two lifetimes | `RevokedStaysOut`, `AbsoluteCap`, `OwnerAsConfigured`, `SweptOnSchedule` |
| `stale_state` | login: 2 browsers, 2 attempts, 2 requests under way; cache: 2 keys in 1 slot, 2 callers of different types, 2 refreshes | `OwnHandshake`, `SingleUse`, `LogoutSignsOut`; `ReadYourWrites`, `OneRefresh` |
| `notify_retry` | the notification of `fanout`, one severity | violates `TransientRetried`, see Findings |
| `requests` | 2 overlapping readiness sweeps, again and again; 3 requests for the discovery document; 2 editors of a resource | `OneCall`, `SweepAnswered`; `BurstAnswered`; `NoClobber` |
| `scheduled` | builds with 1 to 3 migrations and 4 boots; 4 days, retention 2, a manual snapshot; a job that pushes to 3 devices through 1 or 2 slots | `ServesItsSchema`; `PruneSparesNewest`, `DayCovered`; `SendAccounts`, `TicksGoOn`, `JobEnds` |
| `backup_crash` | 3 days | violates `RestartTopsUp`, see Findings |
| `http_client` | a read and a write, 2 tokens, 2 transport retries, 5 statuses | `AppliedOnce`, `LoginsJustified`, `RetryAfterHonoured`, `AuthFaultConfirmed`, `CallEnds` |
| `retry_after` | one call, durations of 4 bits | violates `RetryAfterHonoured`, see Findings |

Every module states its type invariant, for the reader and for proofs; those of
`SafeGroup` and `AppShutdown` are theorems, those of `Health` and `Discovery` are part of
their inductive invariants, and no run spends its time on them.

Why the bounds are enough for the cases that matter. *group*: the dangerous orders
involve one goroutine that leaves, one that enters and one waiter; a second waiter
adds sharing of the channel, the fourth call a second channel. The theorems remove
the bound. *app*: a second job lets work start work. *fanout*: a buffer of one is
full after one event; limits 0 and 1 are an unbounded pool and one where three tasks
compete for the slot, and the limit changes under way; three live backends have one
that fails before and one behind any other. *session*: concurrency of requests enters through `Logout`,
`Sweep`, `Configure` and `Restart`, which may fall between any two steps of the
request; the clock reaches the end of the life of a session issued at the start, under
either cap. *stale_state*: two attempts make a state that does not match, two requests a
duplicate or a logout during a callback; cookie names change with every `Configure`.
With one slot in the cache, every fetch of the other key evicts, so entries in use live
on outside the map; three entries allow the same key to return under a new one.
*requests*: a sweep that gave up on its
check is met by the other sweep, and both poll again afterwards; while one request
fetches, two wait, so that one of them can find the document and the other the failure;
two editors make one stale version and the bound three allows it to be stale by more
than one. *scheduled*: three builds have an upgrade by several steps and a rollback;
with retention 2 the third and fourth day prune, and a run may still be busy with a day
when the next one, or the one after, begins; three devices exceed the slots.
*http_client*: the second token allows a rejection of the one that replaced a rejected
one; two retries let the delay reach its cap; with 4 bits and a second of 2 units the
demand of 4 seconds is the first that wraps. `http_client` leaves it out, so that it
shows what holds below the overflow, and `retry_after` has it.

`CHECK_DEADLOCK FALSE` stands where a bounded instance simply runs out of things to
do (all requests served, the process gone). `group` and `http_client` are checked for
deadlock.

### Fairness

* `group`, `http_client`, `fanout`, `requests`: a goroutine that has a step of its own
  to take takes it (the Go scheduler). Foreign code is under no duty: fn, health checks
  and subscribers may never return or receive. Health sweeps, calls of the client and
  fetches of the discovery document do have a timeout that passes. A mutex is granted
  to a waiter again and again refused it, because `sync.Mutex` starves nobody (strong
  fairness in `Discovery` and `HttpClient`). The task of a pool ends once its context is
  done, as `safe/pool.go` requires of it.
* `scheduled`: deliveries end, by the timeout of the push client; the ticker fires; a
  `select` that finds the context done on every turn takes it at last, because Go
  chooses among ready cases at random (strong fairness of `SelectStops`; without it a
  job whose runs outlast its interval could take ticks for ever).
* `app`: the goroutine in `Shutdown` proceeds; a step that honours its context ends
  at its budget; a stream whose context is released ends. Other handlers and
  background work may never end.

The other specifications are checked for safety only.

## 4. Proofs

Every safety invariant and every safety action property that a run checks is also a
theorem: the run shows it on its instance, TLAPS for every value of the constants.
The instance found the inductive invariant; for the longer ones TLC checked it as an
invariant before the proof was written.

Each proof has one lemma per action, or per group of actions that disturb the same
conjuncts, and below it one step per conjunct that the action can disturb. What a
proof assumes of the constants is the named `ASSUME` of its component's module
(finite sets where something is counted, numbers where something is bounded), which
the runs evaluate on their instances. One theorem has a hypothesis of its own:
`RetryAfterCorrect` assumes `NoOverflow`.

| Module | Theorems | State |
|---|---|---|
| `SafeGroupProofs` | `Inductive`, `TypeCorrect` | `IInv`; the types, and the live count never below zero |
| | `DrainCorrect`, `NoLostWakeup`, `CloseCorrect`, `RespawnBounded` | `DrainComplete`, `WakeupPending`, `CloseIsSafe`, `RespawnsEnd` |
| | `DrainRefinement` | the group implements `Drain`'s initial states and steps |
| `AppProofs` | `StackCorrect` | `ReverseOrder` of `lifecycle.Stack` alone, for any steps and callers |
| | `AppInductive`, `AppTypeCorrect`, `AppUsesStack` | `AppInv`; the types; the application implements the specification of the stack |
| | `ReverseOrderCorrect`, `StoreOutlivesUsersCorrect`, `ContextOutlivesDrainCorrect`, `StreamsCorrect` | the properties of `app`, the last one an action property |
| `FanOutProofs` | `PoolInductive`, `DrainIsFinalCorrect`, `QueuedCancelCorrect`, `SlotsBounded` | the pool; occupied slots within the semaphore |
| | `NoSendOnClosedCorrect`; `EveryBackendAnsweredCorrect` | the bus; the notification |
| `RequestsProofs` | `HealthInductive`, `OneCallCorrect`; `FetchedOnceCorrect`; `NoClobberCorrect` | health; the safety half of `BurstAnswered`; If-Match, an action property |
| `ScheduledProofs` | `SchemaInductive`, `ServesItsSchemaCorrect` | migrations |
| | `SendInductive`, `SendAccountsCorrect` | the push fan-out inside its job |
| | `PruneSparesNewestCorrect`, `DayCoveredCorrect` | backups, two action properties |
| `HttpClientProofs` | `HttpInductive`, `AppliedOnceCorrect`, `LoginsJustifiedCorrect`, `AuthFaultCorrect`, `RetryAfterCorrect` | the client |
| `SessionProofs` | `SessionInductive`, `RevokedStaysOutCorrect`, `AbsoluteCapCorrect`, `OwnerAsConfiguredCorrect`, `SweptOnScheduleCorrect` | sessions |
| `StaleStateProofs` | `LoginInductive`, `OwnHandshakeCorrect`, `SingleUseCorrect`, `LogoutSignsOutCorrect` | the login handshake |
| | `CacheInductive`, `ReadYourWritesCorrect`, `OneRefreshCorrect` | the cache |

The inductive invariants, and why they are needed:

* **SafeGroup.** That a returned `Wait` leaves nobody behind depends on what was true
  when its channel was closed, and that on who may close it. `CountInv`: `n` is the
  number of live goroutines, which turns the test `n = 0` into a fact about goroutines.
  `MutexInv`: one process at a time is inside the mutex, so nobody re-arms `idle`
  between the test and the close of `wake`. `ChanInv`: channel numbers are used once,
  `idle` is open, a waiter's channel is `idle` or closed. `OwedInv`: while a waiter's
  channel is open, whatever it is owed is still live, so closing it at zero discharges
  the debt. The refinement of `Drain` follows from the same invariant: `leave` ends
  a goroutine of `Drain`, respawns, the making of the channel and `wake` are stuttering,
  and a return of nil is a step of `Drain` because `OwedInv` says that nothing is owed
  any more.
* **Lifecycle, AppShutdown.** `SweepInv`: after `Shutdown` at most one caller holds
  steps, and they are those that have not run, in the order of `Push`. Since the
  application pushes an initial part of `BootOrder`, how many steps are left (`Left`)
  says which have run; `ServerInv` and `StepInv` tie server, requests, work, context and
  store to that number. `AppUsesStack` carries the theorem about the stack over.
* **SafePool.** The wait group counts the live tasks, whoever waits has closed the
  pool, and closed with nobody live is a state the pool never leaves.
* **PubSub.** A channel in the table is live, and so is one that a `Publish` under way
  has still to offer to: the write lock keeps cancel out until then.
* **Notify.** Backends before the cursor have one copy or an error no other turn can
  have added, those from the cursor on have neither.
* **Health.** While it is set, a flag has exactly one holder, from the swap to the
  release, and the sweep of that holder has not seen its result.
* **Discovery.** Whoever holds the mutex found no document, and nobody else can have
  brought one since.
* **IfMatch.** Between check and store the version may move; what stays is that the
  version the check saw is one the header allows, which the condition of the store ties
  to the version it replaces.
* **Migrate.** The file holds exactly the steps its stamp counts; the open transaction
  one more, with the stamp written last.
* **PushJob.** The tally is the number of accepted subscriptions, each launched once in
  a `Send`; only one that was found gone is on its way out of the store.
* **Backup.** A prune works from a list that others have made stale. Of every entry of
  every such list it stays true that the retained number of newer files is there,
  because another prune removes a newer file only while that many are newer still. For
  `DayCovered` the invariant follows the job through the day: a run past its snapshot
  has settled the day it named, a run that still has an earlier day when the hour comes
  is recorded as having missed today, and a timer set beyond today means that today is
  settled: covered, spoiled or missed. Nothing bounds how long a run lasts.
* **HttpClient.** A write never waits for a retry, and once it was carried out its
  outcome is final and not a 401; a token a call says was rejected is spent; what a call
  was refused with is nothing in its first attempt and the stale token in its second.
  `NoOverflow`, that the product of demanded seconds and `time.Second` does not wrap, is
  what `RetryAfterHonoured` needs and the code does not ensure: `retry_after` shows the
  violation without it.
* **Session.** A request acts on a row, a clock, a policy and a provider that it read at
  different moments. `GoneOf`, `ReadOf`, `CapOf` and `OwnerOf` say what remains true of
  what it read; `ReadOf` rests on the creation time of a session never changing.
  `Clamped` bounds every stored expiry by the longest cap in force since the sign-in
  (`AllowanceInv` ties that record to the cap in force now): without the clamp a touch
  near the cap would store an expiry behind it.
* **Login.** A handshake cookie is of an attempt its own browser started and no callback
  has burnt there; a token is in one jar, on its way to one, or logged out.
* **Cache.** `AtLeast(o, v)`: entry `o` hands out nothing older than `v`, and no fetch
  under way has anything older that the generation of `o` would let in. The entry in the
  map is at least what the last `Invalidate` that returned sealed; the entry a `Fetch`
  looks at, evicted or not, at least what was sealed when it began; and if the entry an
  `Invalidate` found was replaced before it was dropped, the new one was filled behind
  the mutation. Without the increment of the generation the proof of `Invalidate` fails.

Only model-checked: all liveness, because fairness is outside the prover's reach
(`SweepCompletes`, `RunReturns`, `DrainEnds`, `PublishEndsAlways`, the leads-to half of
`BurstAnswered`, `SweepAnswered`, `TicksGoOn`, `JobEnds`, `CallEnds`, and
the fairness of `Drain` in `RefinesDrain`); the violations of the four findings; and the
type invariants of the modules whose proofs need less than the full types.

## 5. Findings

1. **A cold fetch can wedge a key on its stale value** (`cache_wedged`,
   `cache/cache.go:246`). A `Fetch` that queued for a cold key calls `load` again and
   drops its `spawn` result. If the entry has already gone stale, `load` has set
   `refreshing`, nobody runs the refresh, and the key serves the stale value until it
   is invalidated or evicted. The comments at lines 61 and 289 exclude this.
2. **An unfinished snapshot counts as the day's backup** (`backup_crash`,
   `backup/backup.go:196`). `SnapshotTo` writes straight to the final name; after a
   crash or a failure in the middle the file stays, the restart finds the name taken
   and writes nothing, although "a restart tops up a missing backup" (line 139).
3. **A huge `Retry-After` is retried at once** (`retry_after`, `httpc/transport.go:217`).
   The seconds of the header are multiplied by `time.Second` in 64 bits; above
   9223372036 the product wraps to a negative or short wait, which the comparison with
   `maxDelay` lets pass, although "a Retry-After longer than maxDelay ends the retries"
   (line 183).
4. **A notification is never retried** (`notify_retry`, `notify/notify.go:5`). The
   package comment holds "no retry on a transient 502" against hand-written senders, and
   `DefaultTimeout` "bounds one delivery attempt including its retries" (line 83). But
   all three senders POST, and `RoundTrip` passes a POST straight through
   (`httpc/transport.go:94`, `:153`), so a transient failure is final. What
   `EveryBackendAnswered` shows, that no backend ever gets two copies, rests on exactly
   that: with POSTs retried, a post whose answer was lost would arrive twice.

Met while modelling, and not checked by a run:

* `PushCloser` drops the context, so a blocking `Close` holds the sweep although the
  package comment says that one wedged `Close` cannot (`lifecycle/lifecycle.go:11`,
  `:100`).
* A backup that begins before midnight and ends after an hour set early in the day (`At`
  may be 00:00) leaves the new day without one: `Next` lands on the day after
  (`jobs/daily.go:112`), as the comment at `:78` says of a job that overran its slot.
  `DayCovered` excepts such a day.
* A `safe.Pool` that began unbounded takes up a `Limit` set after its first `Go`
  (`safe/pool.go:20`, `:57`).
* `TouchSession` can move `last_seen_at` back (`session/sqlite.go:103`), and the gate
  re-derives ownership that `session/policy.go:13` calls never re-derived.
* Two overlapping probes of a healthy check make one of them answer "still running"
  (`health/health.go:166`), and can write their transition lines in the wrong order
  (`health/handler.go:89`).
* `Multi` gives every backend the same context, so one that hangs uses up the deadline
  of those behind it (`notify/notify.go:336`); they then fail, and are in the error.
* A panic of `OnError` leaves the loop of a job, which `jobs/jobs.go:101` calls never
  able to end; the supervisor starts it again (`TicksGoOn`).
* A `BaseDelay` above `MaxDelay` is never capped (`httpc/transport.go:24`); `Transport`
  assumes it is not.
* The transport retries a 501, which `httpc/fault.go` calls permanent.
* A login refused with a 401 is tried twice by `DoJSON` (`httpc/client.go:220`), which
  cannot tell it from a rejected token.
* The context bounds the fetch of the discovery document and not the wait for its mutex
  (`oidcauth/provider.go:82`).

## 6. Plan

Every part of the system that keeps state between the steps of different actors has a
model, and every safety property of the runs a proof. What is left:

1. The remaining type invariants as theorems (`Cache`, `Login`, `Session`, `HttpClient`,
   `SafePool`, `PubSub`, `Notify`, `Backup`, `Migrate`, `IfMatch`, `PeriodicJob`): the
   inductive invariants already hold the parts that matter, the rest is shape.
2. `RefreshOwned` and `RestartTopsUp` for the code as it would be with findings 1 and 2
   repaired, to confirm that the repair is enough.
3. The safety that liveness rests on, beyond `SweptOnSchedule`, `FetchedOnce`
   and `WakeupPending`: what each waiting process waits for exists (a waiter of the pool and
   a live task, a `Send` out of slots and a delivery that holds one).
