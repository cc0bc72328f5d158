# A formal model of saga-account

saga-account is a Go service that keeps customer accounts (sign-up, login, tokens, profile)
behind an HTTP API and a gRPC endpoint. Several instances of it run side by side; they share
one MySQL database and one Redis cluster, and every instance keeps a small local cache
(bigcache) as well. This directory holds TLA+ modules that model its concurrent core, the
service on top of it and its life cycle, TLC configurations that check them on small instances,
and TLAPS proofs for all instances.

Contents: [the system](#1-the-system) - [the modules](#2-modules-and-plan) -
[the cache proxies](#3-the-caching-proxies) - [the worker pool](#4-the-worker-pool) -
[the cleaner](#5-the-local-cache-cleaner) - [accounts and tokens](#6-accounts-and-tokens) -
[the life cycle](#7-the-server-life-cycle) - [runs and bounds](#8-runs-bounds-and-what-they-show) -
[proofs](#9-proofs) - [findings](#10-findings) - [limits](#11-what-is-not-modelled) -
[how to run](#12-running-it).

## 1. The system

| Component | Source | State | Operations | Talks to |
|---|---|---|---|---|
| Caching proxies | `repo/proxy/auth.go`, `repo/proxy/account.go` | none of their own; entries in both caches, one Redis mutex per key | four getters, two updaters, `CreateCustomer` | local cache, Redis, repositories |
| Redis cache | `infra/cache/redis.go` | entries with a random TTL, mutex tokens (5 s), the topic of invalidations; reads go to replicas | `Get`, `Set`, `Delete`, `GetMutex`, `Publish` | Redis cluster |
| Local cache | `infra/cache/local.go` | entries with a life window | `Get`, `Set`, `Delete` | - |
| Cleaner | `infra/cache/cleaner.go` | subscription, worker pool | `SubscribeInvalidationEvent`, `Close`, clean tasks | Redis pub/sub, pool, local cache |
| Worker pool | `pkg/workerpool/pool.go` | state word, context, buffered channel, wait group | `Start`, `Stop`, `Do`, workers | the cleaner's tasks |
| Repositories | `repo/auth.go`, `repo/account.go` | rows of `customers` | one query or statement per method | MySQL |
| Authentication service | `service/auth/impl.go`, `infra/http/middleware/auth.go`, `infra/grpc/rpc.go` | none; JWTs carry id, expiry and kind | `SignUp`, `Login`, `RefreshToken`, `Auth` | proxies |
| Customer service, routes | `service/account/impl.go`, `infra/http/router.go` | none | pass on, map errors to status codes | proxies |
| Server life cycle | `cmd/main.go`, `infra/server.go`, `infra/http/server.go`, `infra/grpc/server.go` | servers, signal and done channels | `Run`, `GracefulStop` | everything above |
| Set-up | `config`, `dep`, `infra/db`, `pkg/sonyflake.go` | - | factories, the migration; any of them may fail | file, environment, MySQL, Redis |
| Observability | `infra/observe`, loggers, middleware | metrics listener, tracer | `Register`; the tracer is shut down by `GracefulStop` | collector of traces |

How a read goes: a getter looks into the local cache, then into Redis, then takes the Redis
mutex of the key, looks into Redis again, and only then asks the database; it stores the answer in
Redis and releases the mutex. How a write goes: an updater commits, deletes the Redis entry and
publishes the key; every instance that is subscribed receives it and has a worker delete the local
entry. None of these steps is atomic with any other.

What is hard about it, and what makes it correct:

- **Getters race updaters** (proxies). A getter may hold an old answer, in hand or on its way into
  a cache, while an updater deletes. Correct means: an outdated entry is about to be removed, or has been
  stored behind the last removal (the code's comment admits this), and then at last expires.
- **Getters race each other over all instances** (proxies, mutex). Correct means: one loads,
  the rest find its entry; fills of one key happen in the order of the versions they read.
- **Partial failure** (proxies). Redis commands fail after the commit, a fill fails, an unlock
  fails, a message has no receiver, a replica lags, an instance dies with a mutex taken, a mutex
  expires under a slow holder. Correct means: nothing is locked for good, and all copies converge.
- **Bounded queue and shutdown** (pool, cleaner). The channel of tasks fills up, `Stop` races
  `Do`, workers drain a closed channel. Correct means: no accepted task is lost or done twice, `Stop` ends.
- **Start-up and shutdown in any order** (cleaner, life cycle). `Close` may come before the
  subscription is confirmed, messages may come after `Close`, a signal may find a server that has not
  started. Correct means: the process ends, and nothing is taken away from requests that still use it.
- **How long "eventually" is** (both caches, tokens). Invalidations can be lost, entries are served until a
  clean-up finds them, tokens are signed on cached answers. Correct means: every copy and every token has a
  latest moment, whatever was lost.
- **Decisions taken on cached answers** (service). A login or a refresh decides on an answer that the
  table may have left behind. Correct means: tokens only for the customer whose password or token it was,
  no customer is lost, and a deactivated one does not go on for ever.

PROJECT.json lists each hazard at its line with the properties that watch it.

## 2. Modules and plan

| Module | What | Status |
|---|---|---|
| `CacheProxy` | getters, updaters, both caches, mutex, messages, crashes, over several instances | done |
| `CopyCirculation` | abstract specification that `CacheProxy` implements | done |
| `CacheProxyProofs` | TLAPS proofs about `CacheProxy` | done |
| `WorkerPool` | the pool, with the steps of `Stop` and `push` apart | done |
| `TaskService` | abstract specification that `WorkerPool` implements | done |
| `CacheCleaner` | subscriber, pool and local cache composed (EXTENDS `WorkerPool`) | done |
| `LocalInvalidation` | abstract specification that `CacheCleaner` implements; what `CacheProxy` takes the cleaner for | done |
| `AuthService` | sign-up, login, refresh and profile over cached answers and the table of customers | done |
| `AuthServiceProofs` | TLAPS proofs about `AuthService` | done |
| `ServerLifecycle` | start of the servers and the cleaner, signals, graceful stop with its 5 s, fatal exits | done |
| `CacheAging` | the chain of copies with its times: how long an outdated answer, or a token signed on it, lives | done |
| `CacheAgingProofs` | TLAPS proofs of its bounds for all times | done |
| `WorkerPoolProofs` | TLAPS proofs about `WorkerPool`, its refinement of `TaskService` among them | done |
| `CacheCleanerProofs` | TLAPS proofs about `CacheCleaner`, its refinement of `LocalInvalidation` among them (EXTENDS `WorkerPoolProofs`) | done |
| `ServerLifecycleProofs` | TLAPS proofs about `ServerLifecycle` | done |
| `MCCacheProxy`, `MCCacheCleaner`, `MCAuthService`, `MCCacheAging` | values of constants for TLC | done |

The order is that of what can go wrong: the proxies first, then the cleaner they depend on with its
pool, then the service on top and the life cycle. The abstract specifications are the seams between the
modules. `CacheProxy` does not instantiate
`CacheCleaner`: it has `pending[i][k]`, a number of invalidations that will be
applied in any order, and `LocalInvalidation` is that same promise, which `InvalidationSpec` shows the cleaner
keeps. In the same way `AuthService` has the proxies as sets of copies, added by a load of the current
answer and dropped at any time, which is `CopyCirculation`, the promise that `CacheProxy` keeps under every
fault; and `ServerLifecycle` has the cleaner as whether its pool is there, that `Close` returns, and that a
message after it may panic, which `CacheCleaner` shows. `CacheAging` takes the chain of copies of
`CacheProxy` and nothing of its order: fills overlap in every way and invalidations come or do not. The abstraction of each component is therefore checked where the
component is modelled.

## 3. The caching proxies

### State

`db[k]` is the version of the answer the repository gives for cache key `k` (0: there is no such customer);
contents do not matter to any property, so a version stands for them.
`rc[k]` and `replica[k]` are the entry of the Redis master and of a replica, `lc[i][k]` that of instance
`i`'s local cache, `lock[k]` the request whose token is in `mutex:k`, `pending[i][k]` how many
invalidations of `k` instance `i` has received and not applied, and `call[r]` where request `r` is: the
control points are named after the call of the source that comes next, and `val` is the value it is about to store.
Two history variables serve one property each: `late` has the info keys for which an outdated value has been stored when
nothing under way would remove it, `newest[k]` is the newest version that Redis has had for `k`.

Keys are of two kinds. *Info* keys (`account.go`) are updated and invalidated, and "no such
customer" is an error that is not cached. *Auth* keys (`auth.go`) cache "no such customer" as well
(`Exist: false`, line 85; `&domain.Credentials{}`, line 121), are never invalidated, and their answer may change with an update of the profile (a new e-mail):
`Rewrites`.

### Actions

| Action | Code |
|---|---|
| `Get` | `lc.Get` misses; a hit returns at once and changes nothing |
| `RcGet`, `Recheck` (`Lookup`) | the two `rc.Get`, from master or replica; an error counts as a miss, as in the code |
| `LcSet` | `lc.Set` of a value found in Redis, before or with the mutex; its error, which is only logged, leaves no entry, as an `LcExpire` at once does |
| `Lock` | `mutex.Lock`: got it, gave up, failed, or failed after the token was set |
| `DbGet` | the repository's query: answer, "not found", error |
| `RcSet` | `rc.Set`; its error is logged and ignored |
| `Unlock` | the deferred `mutex.Unlock`: deletes the token only if it is still this request's |
| `CreateCustomer`, `Update` | INSERT and UPDATE; an UPDATE that reports an error may have committed |
| `RcDelete`, `Publish` | the updater's two calls; an error ends the call with the rest undone |
| `Resend` | go-redis repeats a command of which it has had no answer: the command takes effect once more than the call is told |
| `Clean` | one clean task of the cleaner |
| `RcExpire`, `LcExpire`, `LockExpire`, `Replicate`, `Crash` | TTLs, replication, death of an instance |

An update of a customer that sets the values it has changes no version and is left out: MySQL then
reports no affected rows, which the repository does not look at, and the rest of the call
is that of an update whose message names an entry that is still good. The local cache's `Set` replaces any entry, as bigcache
does. The four getters differ only in whether a missing customer is an answer, which is the test of `AuthKeys` in `DbGet`.

### Faults

`Faults` says which faults the environment may show: `redis` (a command errors), `db` (a query does), `lag`
(a replica is behind), `loss` (a published message misses a subscriber), `slow` (a mutex
expires while its holder works), `crash`, `retry` (the answer to a command is lost after its effect, and go-redis
sends the command again). A property is claimed for the faults it holds under,
which the runs and the theorems name:

| Property | Says | Needs absent, because |
|---|---|---|
| `CoalescedLoad` | one request at a time loads a key (`LoadsExclude`), and only while Redis has no entry | `redis` and `lag` (the second look misses an entry that is there), `slow` (two holders); `LoadsExclude` only `slow` |
| `FillsNeverRegress` | a value about to be stored in Redis is as new as any copy | `slow`: a holder that lost the mutex may store after a newer fill |
| `RedisNeverRegresses` | what Redis answers for a key never goes back, deleted and expired entries included | `slow`, for the same reason |
| `StaleIsDoomed` | an outdated entry has a deleter under way, unless stored behind the last invalidation | `redis`, `db`, `loss`, `crash`: each leaves an update without its invalidation |
| `CirculationSpec` | implements `CopyCirculation` | nothing |
| `EventuallyConsistent`, `LocksAreFreed` | copies converge; no key stays locked | nothing |

`retry` is allowed for all of them: a repeated `rc.Set` comes before the call goes on to `Unlock`, a repeated `rc.Delete`
before the publish. A write that the server executes after its caller has given up on it is not modelled.

`lag` is allowed for `StaleIsDoomed`, where reads of a replica that is behind are the interesting case. A store that comes from
such a read after the clean task has run is one of the stores behind the last invalidation.

`CopyCirculation` forgets where a copy is: it keeps the set of versions of each key that some
cache or request holds. A version may be added only by a load of what the store answers at that moment; all
else only drops versions. That is the promise that survives every fault, and what a wrong store
(into the wrong key, of a stale variable, of a missing customer) would break. It has no order: an older copy that replaces
a newer one drops that version, which is allowed, so that fills in the wrong order are left to `FillsNeverRegress` and
`RedisNeverRegresses`.

What these properties do not say. `StaleIsDoomed` excuses, through `late`, the stores behind the last invalidation, which are
possible without any fault (a getter that overtakes nobody but is overtaken by an updater), behind the expiry of a mutex and
from a lagging replica; of those only `EventuallyConsistent` speaks, for which they expire, and `CacheAging`, which says when.
`FillsNeverRegress` under `redis` and `lag` is not model-checked; it is the theorem `FillsInOrder`.

### Fairness

Weak fairness of every step of a call that has begun (Go schedules runnable goroutines, and each
Redis and database call returns, with an error if need be), of the clean tasks, of every expiry (rc.Set, bigcache and
redsync all set one) and of replication. No fairness of `Get`, `Update`, `CreateCustomer`, `Crash`:
nobody has to send a request and nobody has to die; `Resend` has none either, for repeats are not owed. The number of updates is bounded
(`MaxVersion`), so `EventuallyConsistent` states convergence once changes stop, although requests go on
for ever.

### How old an answer gets

`CacheProxy` says that copies converge, not when. `CacheAging` takes one key and the chain of its copies, database, Redis, local
cache, token, and adds time in ticks of a second. A copy has a lag: for how long the database would have
answered otherwise. `redis[n]` has the seconds it has to live, `local[i]` its age, `sweep[i]` the time since bigcache's last
clean-up, `call[r]` for how long the request has held its answer, `token` the seconds until it expires. Whatever is a
matter of order is left open: the mutex is gone, any invalidation may come or not (`RedisDrop`, `LocalDrop`), `Commit` may come at any
moment, a getter may take any copy there is.

| Action | Code |
|---|---|
| `Load`, `RedisHit`, `LocalHit` | the three places a getter has its answer from; bigcache's `Get` does not look at the age of an entry |
| `RcSet`, `RandomExpiration` | `ExpirationSeconds` and a jitter of 0 to 9 seconds (`redis.go:210`); 0 would be no expiry |
| `LcSet`, `Sweep` | the life window, and the clean-up that enforces it each `CleanWindow` (5 minutes, `local.go:26`) |
| `NewToken`, `AgeToken` | a token signed on the answer; `exp` |

- `AnswersAreRecent`: bounds on the lag of what Redis, a local cache and a getter have. With the repository's `config.yml`
  a local entry may be served for 600 + 300 s, on top of the 909 s of its answer in Redis.
- `SessionsEnd`: a refresh asks `CheckCustomer` again, so that a chain of tokens gains nothing over the answer it rests on: the last
  token that a deactivated customer gets expires within the bound of the caches and its own life.

`HoldTime`, the longest a request sits on an answer, is an assumption on the environment that no code bounds. A replica drops
an entry by the deadline it was sent, as the master does. `ExpirationSeconds` is assumed to be above 0: the code accepts a
configuration with 0, and one `Set` in ten is then sent without an expiry, for which no bound holds.

## 4. The worker pool

`state`, `cancelled`, `closed`, `queue` and `wg` are the fields of `Pool`; `worker[w]` and `caller[c]` say where
a goroutine is. `Stop` is `Stop`, `CasStarted`, `CasUnstarted`, `Cancel`, `Close`, `Wait`: the two compare-and-swaps of line 120, then
lines 121 to 126. `push` is a Go select of two cases: `PushSend`, `PushDone`, `PushPanic` (a
send on a closed channel is "ready", and panics) and `PushPark` (no case is ready); a parked caller is released
by `Cancel` or by a receive that makes room. Start's `wg.Add` and `go` statements are one step, for no
other goroutine can tell them apart: workers look at the queue only, and a `Wait` that overlaps them
is modelled by `Spawn` being a step after the compare-and-swap. A panic stops every goroutine (`Alive`).

- `WaitCoversWork`: the counter is the number of workers that run, a task is in one place, a worker ends only
  over a closed and empty queue. `Wait` cannot return over work.
- `NobodyStuck`: the wait-for cycle that a full queue, a `Stop` that waits and workers that wait could form. While somebody is parked in
  `push` or waits in `Stop`, some goroutine of the pool can take its next step: a worker has something to take or to finish, a closed
  channel to leave on, or, for those in `push`, a `Start` or `Stop` is between two of its steps. Only a pool that nobody starts blocks them.
- `ServiceSpec`: the pool implements `TaskService` (accepted tasks are neither lost nor done twice; none is
  accepted after the close).
- `StopDrains`: what is queued gets executed, also by a pool that is stopped, and no `Stop` waits for ever. The
  condition `wg > 0` is that the workers were started.

Fairness: of a goroutine that is inside a method and of each worker; nobody has to call.

## 5. The local cache cleaner

`CacheCleaner` extends `WorkerPool` with the goroutine of `SubscribeInvalidationEvent` (`sub`), the
channel of go-redis (`channel`, bounded; a message that finds it full is dropped, as go-redis does after a minute), the local
cache as a set of keys, and the goroutine of `GracefulStop` that calls `Close` (`stage`). The calls of the pool's
methods are the actions of `WorkerPool` with `Subscriber` or `Closer` as the caller, so all
interleavings of the two with the workers are there: `Close` before the pool exists, between `NewPool` and `Start`, with
the loop blocked in a full `Do`, or with messages still to come. `cleanTask` is `CleanTask`; `retry.Do` around it is one attempt,
because `lc.Delete` does not fail for a missing entry.

- `InvalidationSpec`: implements `LocalInvalidation`. A received message stays outstanding until the entry is deleted,
  in the same step, and is given up only after `Close` has begun.
- `LoopNeverStuck`: the loop that receives the messages is parked in a full `Do` only while a worker can take a task, or the `Close` that releases it
  is about to cancel.
- `EveryMessageApplied`, `CloseReturns`: progress, under fairness of the goroutines.
- `CloseIsAllOrNothing`: when `Close` is back, the pool is stopped with no task left in a worker, or it
  has not been stopped at all, which happens if a `Start` comes between the two compare-and-swaps of `Stop` (`pool.go:120`) and both
  fail. Nothing in between: no cancelled pool that is still open, no closed channel with live workers. It admits that
second outcome, which the code has, and so says nothing against it.
- `CloseStopsStarted`: the outcome is confined to a `Start` that comes while `Close` runs. A `Close` that finds the pool started stops
  it, and leaves no worker and nothing in the queue, so that every pushed message has been applied; compare-and-swaps with their
  arguments exchanged, which `CloseIsAllOrNothing` does not mind, break it.
- `NoSendOnClosed`: violated, see the findings.

A `Close` before the pool exists ends the process here as in the program (`panic = "nilPool"`, a nil dereference at `cleaner.go:62`);
`StopIsOrderly` of the life cycle says that it cannot happen once the subscription is confirmed.

## 6. Accounts and tokens

`table[id]` is the row of a customer, of which the e-mail address, `active` and the password are kept; `check[id]` and `cred[e]` are the
copies of the answers of `CheckCustomer` and `GetCustomerCredentials` that are in circulation; `tokens` are
the ids and kinds of which somebody has an unexpired token; `call[r]` is where a request is, from the handler of the
router down. `missed` notes the handler that has just answered "not found", the one answer a property is about.

| Action | Code |
|---|---|
| `SignUp`, `Insert` | `sf.NextID`, which may give an id that another instance has drawn; `CreateCustomer`: done, duplicate (of the id, an e-mail address or a phone number), or an error that may leave the row |
| `Login`, `Lookup` | `GetCustomerCredentials` from a copy or loaded, and the checks of `Login` in their order |
| `RefreshToken`, `Check` | the claims of the token; `CheckCustomer` from a copy or loaded, and its checks |
| `Issue` | `newTokenPair`; if a signature fails there is no token and the answer is a server error |
| `GetProfile`, `UpdateProfile`, `Read`, `Update` | the middleware `JWTAuth` with `Auth`; the two handlers behind it |
| `Fail` | an error of a query or of the mutex |
| `ForgetCred`, `ForgetCheck`, `ExpireToken` | expiry of entries and tokens |
| `Deactivate` | external: somebody clears `customers.active`, which the code only reads |

What is abstracted. `Elsewhere` stands for every e-mail address on which nothing depends, so that an address can be given up without another
one being modelled. The password of a row is the one chosen at sign-up, which nothing changes; bcrypt is the comparison
with it. A signature proves that a token was issued, so that a request with an accepted token is one with an
element of `tokens`. Phone numbers are unique as well, and are not kept: an INSERT may be refused as a duplicate as soon as there is another row. The
gRPC method `Auth` parses a token and looks at nothing else; it is the guard of `GetProfile`.

- `TokenFindsCustomer`: `CheckCustomer` caches that an id does *not* exist, under a key that no update ever deletes. It is harmless
  only because of the order in `SignUp`: tokens are made after the INSERT, so that nobody can ask for an id too early, not even
  who has drawn an id that is taken.
- `TokensAreByOwner`: cached credentials may be those of a customer who has given up the e-mail address since. The
  tokens of a login are then for that customer, and only for their password, because id and hash come from one answer; and a
  sign-up gets tokens only for the row it has inserted, because the INSERT never overwrites the row of an id that was drawn twice (sonyflake takes its machine id from the host's address).
- `NoEternalSession`, `CustomerIsKnown`: progress. A refresh token buys the next one, and only the cached `CheckCustomer` stands
  against that; the cached credentials of an e-mail address at last give way to its owner's.
- `SignedUpCanLogin`: violated, see the findings.

Fairness: of each handler that has begun, of the expiry of entries and of tokens. Nobody has to send a request.

## 7. The server life cycle

`boot` is what `main` has yet to call of the factories that `dep` wires, in that order: the configuration and a
connection for the migrator, the migration, then configuration and connection once more, the local cache, Redis (with a ping), the id
generator, and observability. Each may fail, which is `log.Fatal` (`Make`). Then `main` starts `Server.Run` and the goroutine that
waits for a signal. `Run` registers the observability (`tracer`, and `prom`, whose listener runs beside the servers) and starts
three goroutines; nothing orders these, and nothing orders them with the signal. `http`, `grpc` and `cleaner` say
where the three are, `stopper` where the fourth is in `GracefulStop`, `expired` whether the 5 s of its context are over, `handlers` and
`rpcs` which requests are being served, and `exit` how the process has ended: in order (`done`), killed by a
signal before `signal.Notify`, by the `log.Fatal` of an error, of an `Accept` that fails while the server
serves among them (`acceptError`), or by a panic: `Shutdown` of an HTTP server that is not created yet, `Close` of a cleaner without a pool, a message after `Close`.

What the servers do is external and taken from their documentation as the code uses it: `Shutdown` waits for the handlers until the context ends
and lets `ListenAndServe` return `ErrServerClosed` at once; `GracefulStop` waits for the RPCs without
a deadline; `Serve` after it is an error. Requests that reach an open connection are taken on after `Shutdown` or
`GracefulStop` was called too, and waited for: HTTP until `Shutdown` has returned with its connections idle (or, if it gave
up, for as long as there are connections), RPCs until the clients have been told to send no more (`GoAway`, which makes
the server `draining`). The tracer's `Shutdown` sends what spans are left, until the
collector answers or the context ends (which the HTTP server may have used up).

- `ResourcesOutliveRequests`: the tracer is shut down, and then the Redis client closed, never under an RPC, under a handler
  only after the 5 s; spans are given up only then.
- `StopIsOrderly`: if everything was up, being stopped is no fatal error and no nil dereference, in whatever order the servers
  return. Two exits are excused, an `Accept` that fails by itself (`acceptError`) and a message after `Close`.
- `SignalEndsProcess`: a signal ends the process, although handlers and the collector may hang.

Fairness: of `GracefulStop` and of time. An RPC ends, for `Auth` only parses a token and `MaxConnectionAgeGrace` (`grpc/server.go`) bounds
what is left of a connection. Nothing is assumed of the HTTP handlers and of the goroutines that start the servers.

## 8. Runs, bounds and what they show

| Run | Instance | Checks |
|---|---|---|
| `proxy_coalescing` | 2 instances, 1 request each, 1 info and 1 auth key, 2 versions; crash, db, loss, retry | `TypeOK`, `CoalescedLoad`, `FillsNeverRegress`, `RedisNeverRegresses`, `CirculationSpec` |
| `proxy_invalidation` | 2 instances, 3 requests, 1 key, 3 versions; lag, slow, retry | `StaleIsDoomed` |
| `proxy_liveness` | 1 instance, 2 requests, 1 key, 3 versions; all faults | `EventuallyConsistent`, `LocksAreFreed`, `CirculationSpec` |
| `proxy_locked_fill` | 1 instance, 2 requests, no fault | violates `LockedFillIsFresh` |
| `cache_aging` | 1 instance, 2 requests, 1 replica; times of 1 and 2 ticks | `AgingTypeOK`, `AnswersAreRecent`, `SessionsEnd` |
| `pool_use` | 2 workers (queue of 2), 2 callers, 4 tasks | `PoolTypeOK`, `WaitCoversWork`, `NobodyStuck`, `ServiceSpec`, `StopDrains` |
| `cleaner_use` | 2 workers, 3 messages of 2 keys, channel of 2 | `CleanerTypeOK`, `CloseIsAllOrNothing`, `LoopNeverStuck`, `InvalidationSpec`, `CloseStopsStarted`, `EveryMessageApplied`, `CloseReturns` |
| `cleaner_late_message` | 1 worker, 1 message | violates `NoSendOnClosed` |
| `auth_service` | 2 requests, 2 ids, 1 e-mail address, 2 passwords; 1 may be deactivated | `AuthTypeOK`, `TokenFindsCustomer`, `TokensAreByOwner` |
| `auth_liveness` | the same with 1 request | `NoEternalSession`, `CustomerIsKnown` |
| `auth_negative` | 2 requests, 1 id, 1 password | violates `SignedUpCanLogin` |
| `lifecycle_stop` | 2 handlers, 1 RPC | `LifecycleTypeOK`, `ResourcesOutliveRequests`, `StopIsOrderly`, `SignalEndsProcess` |

Why the bounds are enough. Keys do not interact but for `Rewrites`, so one info key, and one info key with one
auth key, show what there is. The races of the proxies are between a slow getter, a getter that overtakes it
and an updater: three requests. An instance of its own for one of them separates a local cache that is
filled from the one that is cleaned. Three versions let a value be outdated by two updates, so that an entry can be
older than another that is outdated as well. A request is reused after it returns, so the number of
calls is not bounded; `MaxVersion` bounds only changes of the database. Four tasks fill the queue
of two with both workers busy or with callers parked behind it; two callers are enough for a `Start`,
`Do` or `Stop` to run into any other, and a pool in the program has two. Three messages fill a channel of two
and two of them name one key. Two requests of i2 are interchangeable (`PeerSymmetry`), and so are those of `auth_service`; liveness is
checked without symmetry. In `proxy_coalescing` no Redis command reports an error and no replica lags, because `CoalescedLoad` does not hold then; the theorems
`FillsInOrder` and `RedisGoesForward` have these faults too. `MaxPending` keeps repeats of a publish from
piling up; in `proxy_liveness` an instance may have an invalidation three times. In the two large runs it is 0: an update gives an instance one invalidation, two updates
two, and a repeat of a publish, which can only add to what `StaleIsDoomed` counts on, is left to `proxy_liveness` and to the theorem
`OutdatedIsDoomed`, which has every `MaxPending`. In `cache_aging` the lag is not bounded by the model: it is
the property that bounds it. The times are small but differ in their roles: a jitter, a life window longer than the
clean-up period, a hold as long as a tick, a token that is old enough for its lag to count when it is exchanged for the next; the theorems have them arbitrary. The instances meet in Redis only, so one stands for each. One e-mail address that two customers
can have one after the other is what an outdated answer can be wrong about; a second address is `Elsewhere`.
A signal finds every combination of the four goroutines of the life cycle, whatever the number of requests;
two handlers are one that returns and one that does not.

CHECK_DEADLOCK is off: clients may stop sending, versions are bounded, and a pool that was stopped stays stopped.

## 9. Proofs

`CacheProxyProofs` proves, for every number of instances, requests, keys and versions:

| Theorem | Property | Assumes |
|---|---|---|
| `TypeCorrect` | `TypeOK` | - |
| `OneLoadAtATime` | `CoalescedLoad` | no redis, lag, slow |
| `LoadersExclude` | `LoadsExclude`, of `CoalescedLoad` | no slow |
| `FillsInOrder` | `FillsNeverRegress` | no slow |
| `RedisGoesForward` | `RedisNeverRegresses` | no slow |
| `OutdatedIsDoomed` | `StaleIsDoomed` | no redis, db, loss, crash |
| `ImplementsCirculation` | `CirculationSpec` | - |

with the constants' assumption `ConstantsOK`. The assumptions on `Faults` are those of section 3. The other proofs have no
assumptions but those on the constants of their modules:

| Module | Theorem | Property |
|---|---|---|
| `CacheAgingProofs` | `AgingTypeCorrect`, `AnswersStayRecent`, `SessionsDoEnd` | `AgingTypeOK`, `AnswersAreRecent`, `SessionsEnd` |
| `WorkerPoolProofs` | `PoolTypeCorrect`, `WaitDoesCoverWork`, `NobodyIsStuck`, `PoolIsTaskService` | `PoolTypeOK`, `WaitCoversWork`, `NobodyStuck`, `ServiceSpec` |
| `CacheCleanerProofs` | `CleanerTypeCorrect`, `CloseDoesAllOrNothing`, `LoopIsNeverStuck`, `CloseStopsWhatStarted`, `CleanerIsInvalidation` | `CleanerTypeOK`, `CloseIsAllOrNothing`, `LoopNeverStuck`, `CloseStopsStarted`, `InvalidationSpec` |
| `AuthServiceProofs` | `AuthTypeCorrect`, `TokensFindCustomers`, `TokensGoToOwners` | `AuthTypeOK`, `TokenFindsCustomer`, `TokensAreByOwner` |
| `ServerLifecycleProofs` | `LifecycleTypeCorrect`, `ResourcesDoOutliveRequests`, `StopsAreOrderly` | `LifecycleTypeOK`, `ResourcesOutliveRequests`, `StopIsOrderly` |

The arguments:

- **Mutual exclusion** (`Mutex`): if no mutex expires under its holder, a request in the critical section
  has its token in `mutex:k`. It is inductive because a crash empties the critical section and leaves
  the token, a failed `Lock` may set the token of a request that has returned, and `Unlock`
  deletes only its own: the token may outlive its owner, never the other way round.
- `CoalescedLoad` needs beside `Mutex` that a request between its second look and its `rc.Set` has seen no entry and that only such
  a request can create one, so that there is none; without lag the replica is the master.
- `FillsNeverRegress` is not inductive alone. `FillInv` adds `NotAhead` (no copy is newer than the database) and `Mutex`: a `DbGet`
  reads the newest version there is, and until the `RcSet` no other request of the key can read one. `RedisNeverRegresses`
  speaks of entries that are gone, of which no copy need be left: `NewestInv` carries over a deletion that the newest version Redis has had is
  at most the database's, and at most what a request is about to store. The second part survives the stores of other requests because there are
  none (`OneLoader`).
- `StaleIsDoomed` is strengthened to `DoomInv` by `NotAhead` and `NotFoundUncached` (version 0 of
  an info key is nowhere, so the INSERT makes nothing outdated). Each `Update` puts its own request into `rcDelete`,
  which dooms every entry there is; each store either copies the current version, or happens with an
  invalidation still to come, or is noted in `late`. `Resend` stores what `RcSet` will store, or dooms what `RcDelete` will remove, so that each part holds for the
  repeat as for the command.
- `ImplementsCirculation` maps every action: `Update` and `CreateCustomer` are `Commit`, `DbGet` is
  `Load` or nothing, everything else is `Forget` or a stutter, because what it stores is a copy already.

- The three theorems about `AuthService` have one inductive invariant, `IInv`. Rows are never deleted (`RowsStay`), so
  "the customer has a row", once true, stays true; `IInv` says it of every token, of every cached answer that names
  a customer, and of every call that has got past the INSERT, a look-up or a token (`Sound`). Therefore
  `CheckCustomer` never loads "missing", no copy of it says so (`ChecksHaveRows`), and neither
  `Check` nor `Read` answers "not found". That a login or a sign-up at `Issue` has the right password is part of `Sound`, for
  the INSERT has just written the row with it, and the id that `Lookup` hands on is that of the answer it compared the password with, and the password in the row of an id,
  once it is there, stays.
- `CacheAging`: `Chain` says of each link how its lag and its life trade: in Redis `lag + ttl` is bounded, in a local cache
  the lag by the age and the age by the life window and the time since the last clean-up, in a request both by what it has
  held, in a token `lag + left`. A tick adds one to each lag and takes one from each life; a step from link to link
  adds the bounds.
- `WorkerPool`: the inductive invariant has four parts beside the types. `OnePlace`: a task is with one caller, at one place
  of the queue, with one worker, or done. `StartsOnce`: while a `Start` is about to spawn, no worker is there. `StopsInOrder`:
  the cancel comes before the close, and the close before a worker ends, which leaves no one parked to put a task into a
  closed queue. `Counted`: the wait group is the number of running workers, by the library's theorems on cardinalities. For the
  refinement `Take` is a stutter, unless the task of a parked caller enters the queue with it; then it is an `Accept`,
  which needs `StopsInOrder`: parked means not cancelled, hence not closed.
- `NobodyStuck` needs `Wakers` beside that invariant: while somebody is parked in `push` the queue is full, for a worker that takes from it puts the
  task of a parked caller in its place; a started pool has its workers, or the `Start` that is about to spawn them; a stopped one is cancelled, which
  leaves nobody parked, or its `Stop` is about to cancel; who waits has closed the channel.
  So a caller that is parked has a worker that may take, and a wait for a counter above 0 has a worker that may end. The loop of the cleaner has
  this invariant, and has started the pool before it pushes (`LoopStarted`).
- `CacheCleaner`: every step is one of the pool or leaves it alone, so that the invariant of `WorkerPool` holds here too. What is
  added says which methods the two goroutines call (`Roles`: only the loop pushes, only the closer stops, once), how far the one
  `Stop` has got (`Phases`: the flags at each of its steps) and that nothing is queued before `Start` has returned. For
  `CloseIsAllOrNothing` the wait for the wait group leaves no active worker; those that ended did so over an empty queue, and otherwise
  none was ever spawned. For the refinement `Mail` keeps the messages of the channel distinct from each other and from those the pool
  has: the loop, `Take` and the sends only move a message, so that they are stutters; `CleanTask` is `Clean`, the cancel of a push is
  `GiveUp`, and `Phases` has it only after `BeginClose`, which is `GoDown`.
- `CloseStopsStarted` speaks of what follows a state, and is proved as an invariant of the steps from there on: once the pool is started
  and no `Close` has begun, it has its workers or the `Start` that creates them (`Crew`, which `Wakers` gives for that state), and the
  one `Stop` is on its way from the first compare-and-swap, which finds the state it looks for, or has made it
  (`StoppedInTime`). At the end the wait leaves no active worker, and workers that were there ended over an empty queue.
- `ServerLifecycle`: `StopsInOrder` ties every flag to the place of the stopper (no handler is left behind `HttpStopped` unless the
  5 s are over, no RPC behind `GrpcStopped`, for a server that drains takes on none), `StartsInOrder` that the stopper gets behind `StopHttp` only with a server that
  exists, `UpUntilStopped` that what was up when the signal came has not fallen back.

Temporal properties under fairness (`EventuallyConsistent`, `LocksAreFreed`, `StopDrains`, `EveryMessageApplied`,
`CloseReturns`, `NoEternalSession`, `CustomerIsKnown`, `SignalEndsProcess`) are only model-checked, for ENABLED is out of the
prover's reach.

## 10. Findings

1. `proxy_locked_fill`: `account.go:51` suggests that a fill with the mutex held is not stale. The updaters do not take the mutex, and a fill
   with it held (`account.go:74`) can store the replaced answer in Redis behind the updater's delete, without any fault. It
   is then served by all instances until its TTL.
2. `cleaner_late_message`: after `Close` the loop of the subscriber goes on, and a message makes `push` choose at random between
   returning and sending on a closed channel, which panics (`pool.go:138-141`).
3. `auth_negative`: a login that comes before the sign-up leaves "no such customer" in the caches (`repo/proxy/auth.go:121`), `CreateCustomer`
   removes nothing, and a login after the sign-up is answered "customer not found" until the entry expires. The
   repository that the proxy stands for (README of the project, line 7) would find the customer.

Beside these the models have, without a run of their own: a `Start` between the two compare-and-swaps of `Stop`
(`pool.go:120`) makes both fail, so that `Stop`, which should "stop worker and wait all task done" (`pool.go:118`), returns and the
pool runs on (the second case of `CloseIsAllOrNothing`; `CloseStopsStarted` confines it to a `Start` during `Close`, and trying
the compare-and-swap from the unstarted state first would leave no such moment); a signal during
start-up may find no HTTP server or no pool and end in a nil dereference, or in the fatal error of a gRPC server that was
stopped before it served (`exit` of `ServerLifecycle`).

## 11. What is not modelled

- *Contents of answers, JSON errors, wording, logging, metrics*: no property is about them.
- *`ExecPipeLine`* (`redis.go`): the program does not call it.
- *`retry.Do`* in `cleanTask`: one attempt, as said above.
- *An update that changes nothing*, as said above.
- *Eviction of the local cache for its size*: it has the effect of `LcExpire` and `LocalDrop`.
- *Attempts inside `mutex.Lock`*: the tries of redsync are one step that ends with the token or without it.
- *Tokens' signatures, bcrypt, the arithmetic of sonyflake*: taken as given, section 6.
- *Malformed requests*: the handlers answer and change nothing.
- *Names, addresses and phone numbers*: phone numbers only as a possible duplicate, section 6.
- *Values of the configuration, options of the servers, loggers, the middleware `log` and `cors`*: values and output; the
  factories themselves are steps of `ServerLifecycle`.
- *What gorm's `AutoMigrate` does*, and what two instances that run it at once do to each other.
- *A Redis command that is executed after its caller has given up on it*, section 3.

## 12. Running it

    tlc -workers 2 -config proxy_coalescing.cfg MCCacheProxy.tla
    tlapm CacheProxyProofs.tla

PROJECT.json names the module and the configuration of each run, and for each property a change of the model,
of the kind a bug would make, that violates it. The changed operators stand beside the ones they
change, marked "mutant".
