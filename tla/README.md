# TLA+ specifications of APIcast

APIcast is an API gateway: Lua code in the phases of nginx (OpenResty).  The
specifications in this directory model the parts of `gateway/src` in which
several requests, timers, workers or machines touch the same state, and check
and prove what these parts are supposed to guarantee.

`PROJECT.json` lists the components, the runs, the mutants with which the
properties are tested, the source lines behind every definition, the findings,
the hazards and the theorems.  Paths below are relative to `gateway/src`.

## How to run

    tlc -workers 2 -config MCReportsBatcher.cfg MCReportsBatcher.tla
    tlapm BatcherProofs.tla

A `.cfg` belongs to the `MC` module named in `PROJECT.json`.

## Inventory

nginx has a master and several worker processes.  A worker runs requests,
timers and light threads as coroutines: they interleave only where they yield
(a socket, a sleep, a semaphore).  Workers share dictionaries
(`ngx.shared.*`), whose single operations are atomic, and nothing else.

| component | state | operations | talks to |
|---|---|---|---|
| batched reports (`policy/3scale_batcher`) | two shared dictionaries, a lock per service | add, get_all, report, return_reports | requests, timers of all workers, 3scale backend |
| batcher policy (`3scale_batcher.lua`) | two caches of authorizations, timers per worker | access | batched reports, backend, timer task, caching policy |
| timer task (`resty/concurrent/timer_task.lua`) | two tables of flags, nginx timers | new, execute, cancel, collect | batched reports |
| synchronization (`resty/synchronization.lua`) | a table of semaphores | acquire, release, run | lazy loader, resolver |
| configuration store, finders | two LRU caches per worker | store, reset, find_by_id, find_by_host | loaders, every request, management API |
| configuration loader, lazy | a load per host | rewrite, lazy_load_config | store, synchronization, portal |
| configuration loader, boot | a chain of timers | init, init_worker, refresh | store, portal |
| authorization (`apicast/proxy.lua`), caching policy | shared dictionary `api_keys`, `ngx.var.cached_key` | authorize, post_action, cache handlers | backend |
| timer pool (`resty/concurrent/timer_pool_executor.lua`) | a semaphore of permits | post, worker | reports of `post_action` |
| rate limit | shared counters, `ngx.ctx.limiters` | access, log, checkin | all workers, Redis |
| rate limit headers | a shared entry | get, decrement, set | responses |
| resolver | DNS cache, a semaphore per name | get_servers | upstream, every client connection |
| balancer, upstream, retries | round robin cursors, tries of a request | resolve, call | resolver, nginx |
| OIDC discovery, token introspection | caches of issuers and tokens | call, introspect | issuers |
| policy chain, executor, conditions, mapping rules, usage | none beyond a request | pure | requests |
| management API | the store of one worker | PUT, POST, DELETE /config, POST /boot | store, boot loader |

Headers, rewriting, CORS, SOAP, TLS, metrics, logging, the command line and the
other stateless policies transform one request or response.

What is hard, and what makes each component correct:

* *Batched reports.*  A hit that a client was let through for must reach
  backend, though it waits in memory shared by processes that crash, is drained
  by the timers of several workers, and is put back when backend fails.
* *Batcher policy.*  Two caches are written one after the other by workers whose
  answers come in any order: nobody may be let through on an approval that a later
  answer has overruled.  Timers are started by requests and die with their worker.
* *Timer task.*  Exactly one chain of timers per task, which survives failing
  runs and ends after a cancellation that may come in the middle of a run.
* *Configuration.*  A request is served from a configuration that the portal
  gave out, a deleted service disappears, loads of different hosts do not spoil
  each other, and a reload never shows an empty store.
* *Synchronization.*  Nobody waits on a semaphore that nobody will post.
* *Authorization.*  Every request is reported once, what happens without backend
  follows the documented mode, and a denial takes effect although the answers of
  backend are handled in any order.
* *Timer pool.*  A permit comes back however a report ends.
* *Rate limits.*  Several limiters are committed one by one by several workers and
  rolled back when one refuses; connections are left in timers.  No unit of a counter
  leaks or is given back twice, and no limit is exceeded meanwhile.
* *Resolver, balancer.*  One request refreshes a name while the others are served the
  answer that expired, and only meanwhile; every peer has its turn, whatever requests,
  retries and new answers take the turns; all retries are used and no more.
* *Management API.*  It changes the store of a worker under requests and the reload
  timer: what it leaves is one configuration, or two until the next reload.

## Modules

| module | models | composes |
|---|---|---|
| `ReportsBatcher` | `reports_batcher.lua`, `reporter.lua`, `reports_batch.lua` | |
| `ReportLedger` | abstract specification of it | |
| `BatcherPolicy` | `3scale_batcher.lua`, `auths_cache.lua`, the handlers of `policy/caching` | `ReportsBatcher` |
| `TimerTask` | `timer_task.lua` | |
| `Synchronization` | `synchronization.lua` | |
| `ConfigStore` | `configuration_store.lua`, `policy/find_service` as operators on a store | |
| `LazyLoader` | lazy mode of `configuration_loader.lua` | `ConfigStore`, `Synchronization` |
| `BootLoader` | boot mode of `configuration_loader.lua`, `management.lua` | `ConfigStore` |
| `AuthRep` | `proxy.lua`, `backend/cache_handler.lua`, `policy/caching`, `timer_pool_executor.lua` | |
| `Admission` | abstract specification of rate limiting | |
| `RateLimit` | `policy/rate_limit`, `resty/limit/count-inc.lua`, `resty.limit.traffic` as it is used | `Admission` (refinement) |
| `Resolver` | `resty/resolver.lua`, `resty/resolver/cache.lua` | |
| `Upstream` | `upstream.lua`, `balancer.lua`, `resty/balancer/round_robin.lua`, the retry policy | `Resolver` |
| `BatcherProofs` | theorems about `ReportsBatcher`, the refinement of `ReportLedger` included, and about `BatcherPolicy` | `BatcherPolicy` |
| `TimerTaskProofs` | theorems about `TimerTask` | `TimerTask` |
| `ConfigStoreProofs` | lemmas about the store, for both loaders | `ConfigStore` |
| `LazyLoaderProofs` | theorems about `LazyLoader` and `Synchronization` | `LazyLoader`, `ConfigStoreProofs` |
| `BootLoaderProofs` | theorems about `BootLoader` | `BootLoader`, `ConfigStoreProofs` |
| `AuthRepProofs` | theorems about `AuthRep` | `AuthRep` |
| `RateLimitProofs` | theorems about `RateLimit`, the refinement of `Admission` included | `RateLimit` |
| `UpstreamProofs` | theorems about `Upstream` and `Resolver` | `Upstream` |
| `MC*` | the instances that TLC checks | |

Definitions whose comment says *mutant* are not part of a specification: each is
a plausible bug, and putting it in the place of the definition that follows it
breaks the property it is listed with in `PROJECT.json`.

### ReportsBatcher

A counter of the storage is the set of the hits it sums up (a hit is one metric
of one request), so that a hit can be followed; the integer in the code is the
sum of their deltas.  Actors are the requests in `ReportsBatcher:add` and the
reporting timers; `pc` is where an actor is.  Each action is one access to a
shared dictionary (`SafeAdd`, `Exists`, `Incr`, `Get`, `Delete`), one operation
on the lock, or one exchange with backend, because other workers act between
any two of them.  `hold` is what is in the memory of an actor: `Crash(w)` empties
it for all the actors of a worker and leaves their lock to expire.

The history variables `batched`, `counted`, `twice`, `uncertain` and `lost` say
what happened to a hit.  `lost` grows only where the code itself drops reports:
the lock was not acquired, the dictionary is full, an entry disappeared, the
worker crashed, a batch could not be built.  `get_keys()` shows at most `MaxKeys`
entries (1024 of them in nginx), any of those that are there; the others wait for a
later run.  `NoSilentLoss` says that there is
no other way.

The lock expires only when its owner is gone: the code between lock and unlock
does not yield, and a lock lasts longer than any such section takes.

`ReportLedger` is the promise: hits are accepted, counted, doubted, settled or
lost.  The refinement maps `owed` to the hits in the storage or in memory, and
`doubt` to those whose report was counted and not acknowledged.

### BatcherPolicy

`phase` is where `access()` of a request is, before and after the one call that
yields.  The answer of backend is written to two shared dictionaries: `Answer` is
`update_downtime_cache` (`downtime`, through a handler of the caching policy) and
`CacheAuth` is `AuthsCache:set` (`auths`).  Workers run in parallel, so these are two
steps.  `downtime` has no ttl, because the batcher passes none; entries of `auths`
expire.  `Admit` is `ReportsBatcher`'s `Arrive`, so every step of the batcher runs
behind `access()`.  A timer takes part only once `started`, by the first request of its
worker (`ensure_timer_task_created`); `WorkerDies` stops it with its worker, and the
next worker has none until a request comes.  `Earlier` are requests that were
approved before a reload: their answers may still be in the dictionaries.

Answers handled at the same time have no order.  `before[r]` are the answers
that had been handled when the answer of `r` came; when `r` has written it they
are `overruled`.  `NotOverruled` asks, as of a regular register, that whoever is let
through has an approval that nothing handled later has replaced.

### TimerTask

`active` and `lastOne` are the two tables of the module, `pending` and `running`
count the timers and the runs of a task.  A run yields, so its beginning
(`FireAndRun`, `ExecuteNow`) and end (`FinishRun`) are two actions, and `Cancel`,
`Collect` (the `__gc`) and `WorkerExits` come in between.

The caller of `cancel(true)` is the `__gc` of the batcher policy
(`3scale_batcher.lua:23-31`).  The policy and its task become garbage together, and the
finalizers of one sweep run in any order: `Cancel` may come after `Collect`, and timers
fire between the two.  The histories say what `cancel(true)` found: a task between two
runs, with a timer (`waiting`: `WaitingRunsOnceMore` promises its last run), or in a run
(`underway`: `CancelledStops` says that no other run follows).  A collected task
whose timer has fired already is neither.

### Synchronization, ConfigStore, LazyLoader, BootLoader

A semaphore is named after the caller that made it, because a key may have had
several.  `Run` is `acquire` with a wait that succeeds, fails at once (timeout
0) or queues; `Return` is the release and the post, in this order, which is one
step since neither yields: what matters is that it acts on two semaphores when
the key has got another one by then.  `Abort` ends a caller with its request
(`lua_check_client_abort on`): one that waits leaves the queue ("gone"), one that runs
("killed") never comes to the release or the post, and its resource is lost.

A store is a record of the two LRU caches: `services` by id, which never expire
(`-- FIXME: no ttl here`), and `cache`, the list of a host, which may be expired
and is still returned by a stale read.  A service is an object: it carries the
load that made it, because the host finder compares objects.

`LazyLoader` has one request per caller.  `Miss` is `rewrite` up to the wait, `Fetch` and
`FetchFails` are the portal, `Loaded` is the rest of `lazy_load_config`, the release and
the look-up, which do not yield; `Kill` is `Abort`. Callers that wait on the semaphore of
a killed one are `Orphaned`.  With ttl 0 a request fills a store of its own.
`CachesAgree` relates the two caches of the store after loads of several hosts in any
order.  `BootLoader` is one worker and its timer; nginx may refuse any timer, the first
one included, and the worker begins "stopped" then.  The portal's configuration is changed
by `Edit`: a version is promoted, a host moves, a service is deleted.  In both loaders
`Edit` and `Expire` are the environment.

The management API is in `BootLoader`, because it answers in one worker and changes
that worker's store.  `PutConfig` (PUT and POST `/config`) and `BootConfigure` (POST
`/boot`, whose load yields) store over what is there and remove nothing:
`mixed` is true until the next reload, and `OneConfiguration` then speaks of the hosts
of what was stored (`Governed`).  `DeleteConfig` resets the store.

### AuthRep

A request finds its key in the cache (`Hit`), goes to the upstream and is reported
by `PostAction`; or it is authorized by a call of backend first (`Miss`, `Answer`
or `Fail`, `Decide`), and then `ngx.var.cached_key` is unset so that `post_action`
does nothing.  The cache handlers are operators from the old entry and the status
of a response to the new entry; each is one atomic operation on the dictionary.
`Recheck` is the second look at the cache when backend is unavailable, a step of
its own.  A status is a verdict (200, denied) or says that backend is `Unavailable`
(499, 500 and above, the 0 of a failed connection); what a handler caches as a verdict is
`Valid`, every status below 500.  The two overlap in 499 (`proxy.lua:379`,
`caching.lua:27-29`, `cache_handler.lua:55`).  `told` is the last valid status that was
handled for a key.  Entries do not expire: `access` passes `context.ttl`, which nobody sets
(the token's ttl is put in `ngx.ctx`), and a ttl of 0 is none.

`post_action` posts the report to an executor.  With `APICAST_REPORTING_THREADS` it is a
pool of timers: `Schedule` takes a permit and does not look at what `ngx.timer.at`
returns, `Fire` is the timer, `CheckIn` gives the permit back when the report is over or
raised; without a permit the report runs in the request (`caller_runs`).  A timer of the
pool has no `ngx.var`: the strict handler of `APICAST_BACKEND_CACHE_HANDLER`, which leaves
a 200 alone when `cached_key` is set, sets it again there (the argument `keyed` of
`EnvStrict`).

### RateLimit

`access()` connects to Redis first (`ConnectFails`), then selects the limiters whose
condition holds (`Select`).  `handling` is the setting of each of the two types of error,
`limits_exceeded` and `configuration_issue`; while a request rolls back, `pc` is the type
of the error that ends the roll-back.  `combine()` of `resty.limit.traffic` is followed
step by step: `Ask` is a dry run of one limiter, `Commit`, `CommitOver` and `CommitFails`
the commit of one, `TakeBack` the increment that `count-inc` takes back when the limit is
exceeded, `Uncommit` and `RolledBack` the roll-back of what was committed.  Each is one
operation on the dictionary, or one command of Redis, and other workers act in between.
`slot` is `ngx.ctx.limiters`, one for all the policies of a chain; `Log` runs in every
policy and creates a timer for what it finds there, `Leave` is one `leaving()` in that
timer. `lost` counts what a failure left in a counter: a worker that died, a timer that
was refused, a command of Redis that failed.  `Accounting` says that nothing else is left.
A leaky bucket holds a rate, not units that are given back; of it only the control is
modelled (committed or not), not the number.

`Admission` is the promise: a request gets the places of all its limiters in one step, if
there is room in each, and leaves them.  The refinement maps `places` to the connections
that a request has been let in with and not yet left, and `used` to the requests that a
window has let in; the dry runs, the increments and the roll-back of a refused request are
stutters, and `Admit` is `LetIn`.

### Resolver, Upstream

`get_servers()` yields in its DNS query only, so it is two steps: `Found`, `LookUp` or
`LookUpStale` up to the query, `Answer` or `QueryFails` after it.  Each name has a
semaphore (`holder`); whoever does not get it is served the entry that expired and
puts it back with a ttl of 0 (`touched`), which counts as expired when the clock moves
on.  A request may be killed in its query (`Kill`: the client is gone, or a circular
CNAME raises): its semaphore is never posted (`orphaned`).

`Upstream` lets clients send requests without end.  A balancer phase does not yield and is
one action; `balancerRetries` is the field of the context, `left` are the tries that nginx
may make, to which `set_more_tries` adds.  With the `keepalive` of
`http.d/upstream.conf:6` a try may fail because a connection kept alive was closed: nginx
does not count it (`TryAfresh`, counted in `free`), but `balancer_retries` counts the
balancer phase that follows.  `PeerSet` is `peer_set_in_current_balancer_try`, by which
the second policy of a chain that calls the balancer in one try picks nothing.  `cursor`
is the round robin of the worker, which starts at random and outlives every answer;
`round` remembers which peers had their turn.

## Runs

| run | bounds | shows |
|---|---|---|
| `batcher_safety` | 3 requests, 2 workers with a timer each, 3 credentials of which 2 belong to one application, 2 metrics, a dictionary of 3 entries of which `get_keys` shows 2, 1 failure, 1 crash | `LockExclusion`, `NoSilentLoss`, `RecountOnlyInDoubt`, `OnePlace`, `Attribution`, and that every step is a step of the ledger |
| `batcher_credential_kinds` | 2 requests, no faults | violation of `OneCredentialKind` |
| `batcher_policy` | 2 requests for one transaction in 2 workers with a timer each, an earlier approval, a request without a match, `resilient` and `allow`, a dictionary of 1 entry, 1 failed report, 1 crash | `NotOverruled`, `EventuallyCounted` |
| `timer_task` | 2 tasks, 1 failing `ngx.timer.at`, worker exit, cancellation before and after the collection | `SingleChain`, `ChainLives`, `CancelledStops`, `WaitingRunsOnceMore`, `CancelledQuiesces` |
| `config_lazy` | 4 requests, 3 of them for one of 2 hosts, 2 services, 1 edit of the one that is on both, 1 failed load, 1 killed request, ttl zero or positive, 2 routing modes | `OwnLoadServes`, `CachesAgree`, `RefreshOnEachRequest`, `NobodyForgotten`, `NobodyWaitsForEver` |
| `path_routing` | no edits, no failures | violation of `PathRouted` |
| `config_boot` | 2 services, 2 hosts, 1 edit of each, 1 failed load, 1 refused timer (the first one or a later one), 1 respawn, 2 calls of the management API | `OneConfiguration`, `ReloadsUpToDate` |
| `authrep` | 2 clients of one key that send requests without end, 2 failures (499, 5xx or no connection), 2 changes of mind, 6 handlers, no pool or a pool of 1 | `ReportedOnce`, `PermitsKept`, `DownDecision`, `DenialTakesEffect` |
| `authrep_resilient` | `env resilient` | violation of `ResilientKeeps` |
| `rate_limit` | 3 requests, one limiter of each kind, of which the last has a condition, or none applies, 2 windows, Redis with 1 failure, each type of error ending the request or logged | `Accounting`, `ConnLimit`, `WindowLimit`, and that requests are let in as `Admission` says (`AdmissionSpec`) |
| `rate_limit_chain` | 2 policies, no failures | violation of `ConnLimit` |
| `upstream` | 2 clients of one name with answers of 3 and then 2 peers, 2 callers of the balancer, 0, 1 or 2 retries, 2 free tries, 1 failed query, 1 killed request | `OneRefresh`, `StaleWhileQuerying`, `SemaphoreReturned`, `TriesSpent`, `Balanced` |

Every passing run checks `TypeOK` as well, but `batcher_policy`, whose state is the
subject of `Shape` in the proofs.  The largest runs have 0.5 to 1.6 million distinct
states and take up to three minutes with two workers.

Why the bounds are enough to be interesting: with three requests and two timers two
workers are in `add` and `get_all` of one service while a third request waits for the
lock; three entries are fewer than the transactions need, so that the dictionary fills up,
and more than the two that `get_keys` shows; a second failure or crash repeats what the
first one does to other hits.  Two requests behind one earlier approval are the least with
which an approval is overruled by an answer that is handled before an older one.  Three
requests of one host are the least with which a semaphore is forgotten while somebody
waits for it and made again by a newcomer, and the fourth is for the other host; two hosts
of which one is shared are the least with which one load rewrites the list of another
host.  In `AuthRep` keys do not interact, and two clients suffice for a response that is
overtaken by another one; the clients never stop sending, so `DenialTakesEffect` is not
true for lack of requests.  Three requests compete for one connection and two places in a
window, so that each limiter refuses what another one has committed.  Two clients that
never stop sending are one that queries and one that is served stale, before and after the
clock moves on; an answer of three peers that becomes one of two leaves the cursor behind
its end.

Deadlock is not checked: in every instance the requests, edits and tasks are
finite and the system may come to rest; progress is stated as liveness instead.

### Fairness

* Steps of an actor that has been resumed are weakly fair: nginx runs what can run.
* Calls of backend and of the portal return or time out (`http_ng` and nginx set
  timeouts): the pair of answer and failure is weakly fair, neither of the two is.
* nginx fires timers.  `ngx.timer.at` may fail: `ReloadsUpToDate` says nothing of a
  worker whose chain was cut that way, and `ChainLives` exempts the task (`stopped`): what
  the code does then is to log the error, and both chains end for good.
* A reporting timer that does not get the lock tries again in the next period;
  `resty.lock` polls, so that a lock that is free again and again is taken in one
  of the periods (strong fairness of `GetAllLock`).  In `BatcherPolicy` this is so of
  started timers only, an actor that has begun goes on (`RequestGoesOn`,
  `ReporterGoesOn`), and no request has to come: `EventuallyCounted` promises nothing
  once every worker with a timer is dead.
* A DNS query is answered or fails (`resty.dns.resolver` has a timeout), weakly fair;
  `SemaphoreReturned` excludes the names of killed requests, and
  `NobodyWaitsForEver` the requests that wait on a semaphore all of whose resources went with
  killed requests for their own host: these do time out.
* A lock of a crashed owner expires (`exptime`).
* Nothing is assumed of clients, edits, crashes, expiry, or of the timeout of `run`.

### Findings

* `batcher_credential_kinds`: reports stored before the credential type of a service
  is changed are collected together with later ones; `ReportsBatch.new` believes
  that all have the type of the first.
* `path_routing`: with path routing and lazy loading, the load of one host
  overwrites the list of another host of the same service.
* `authrep_resilient`: the resilient handler of `APICAST_BACKEND_CACHE_HANDLER`
  caches the status 0 of a failed connection.
* `rate_limit_chain`: with two rate limit policies in a chain every connection is left
  twice, the counter falls below the number of open connections, and more requests
  are let in than the limit.

### Known divergences

Behaviour that the models show and that differs from what one may expect, without a run
of its own; the passing properties are stated so that they take it into account.

* `cancel(true)` in the middle of a run lets no further run follow: the flag of the last
  run is consumed by the run under way (`timer_task.lua:86`), though the comment at
  `timer_task.lua:113` speaks of one more run.
* `cancel(true)` after the task itself was collected and its timer has fired promises a
  run that never comes: the timer found no flag and ended the chain.  The reports of the
  policy instance then wait for the timers of others (`3scale_batcher.lua:23-31`,
  `timer_task.lua:83-106`).
* A request that is killed in its lazy load never posts the semaphore of its host, nor
  forgets it: later requests that miss the host wait until their timeout
  (`conf.d/apicast.conf:6`, `synchronization.lua:74-80`).
* A 499 counts as an unavailable backend for the proxy, but the cache handlers take it for a
  denial: it replaces the approval by which the request would have been let through
  (`proxy.lua:379`, `caching.lua:27-29`, `cache_handler.lua:55`).
* The strict handler sets a 200 that it would leave alone in a request again when the report
  runs in a timer of the pool: a removed entry comes back (`cache_handler.lua:27-46`).
* A try on a connection kept alive that turns out to be closed makes the number of tries
  larger than that of the retry policy allows; `TriesSpent` counts these apart
  (`http.d/upstream.conf:6`, `balancer.lua:86`).
* A lazy load from which a service has disappeared leaves the service in the store, and
  expired entries are served (`configuration_loader.lua:238-240`).
* `run` forgets the semaphore before it posts it, so that two callers of one key
  may run at once although `size` is 1 (`synchronization.lua:18`, `:78`).
* A request that is killed in its DNS query never posts the semaphore of the name:
  the worker serves stale answers for the name from then on, each time after one
  tick of the clock (`resty/resolver.lua:411`, `CHANGELOG.md:1038` speaks of stale answers
  while a query is in progress).
* The default error settings of the rate limit policy are one table for all instances
  that do not bring their own (`rate_limit.lua:62`).
* A reload under way when PUT `/config` or POST `/boot` stores a newer configuration replaces
  it by its older answer, and POST `/boot` may do the same to a reload; the next reload
  makes up for it.  A worker that nginx respawns begins with the configuration that the
  master loaded (`configuration_loader.lua`, `management.lua`).
* PUT `/config` and POST `/boot` do not remove the services that the new configuration
  lacks (`management.lua`, `configuration_loader.lua`).

## Proofs

The theorems hold for every value of the constants that the `ASSUME`s of the
module allow: any number of requests, timers, workers, services, keys.

`BatcherProofs`, the batcher:

* `TypeCorrect`: `Spec => []TypeOK`.
* `WorkingInvariant`: the inductive invariant `Working`, which is `TypeOK` and, for
  every actor, `Sound`: an actor between lock and unlock is the owner of the lock
  of its service, and what it remembers between two accesses to the storage (the
  key, the credentials, the keys to scan) fits where it is.  `LockExclusion` alone
  is not inductive: without the ownership a release or an expiry could let a
  second actor in.
* `OneInSection`: `Spec => []LockExclusion`.
* `NothingLostSilently`: `Spec => []NoSilentLoss`.  `NoSilentLoss` is equivalent to
  "every batched hit is `Kept`" (counted, stored, held or lost); one lemma per group
  of actions shows that a step keeps a hit kept, using `Working` for the two
  places where it matters: `Incr` adds to an entry that is still there, and
  `Delete` deletes an entry that the actor has read in the same section.
* `PlacedInvariant`: the inductive invariant `Placed`, of five parts that need each
  other.  `StoredOnce`, `HeldOnce` and `Moving` say that a hit is under one key of the
  storage, under one key of one memory, and under both only between `Get` and `Delete`;
  `Unborn`, that the hits of a request that has not come are nowhere, without which
  `Arrive` could make a second copy; `Doubted`, that a hit that is counted and still
  owed is in doubt, unless its report waits for its answer.  From it `OneCopy`
  (`OnePlace`) and `RecountsAreDoubts` (`RecountOnlyInDoubt`).
* `FiledUnderItsOwner`: `Spec => []Attribution`, which needs only that a batch files a
  hit under the application of its credentials.
* `BatcherKeepsTheLedger`: `Spec => LedgerSpec`, the refinement.  For every action the
  hits owed before and after it are compared, and `Placed` gives what the ledger
  asks of a recount.

* Three consequences of the refinement, about the life of a hit.  `BooksBalance`: the
  batched hits are those that are counted, lost or owed, and none is lost and owed
  (`Balance`; that nothing else is ever owed needs `Working`: an access to the storage
  works on what the actor was given).  `SettledForGood`: an action property; a hit that is
  nowhere any more never comes back, and what was counted or lost stays so.
  `PolicyKeepsTheLedger`: both, and the ledger, behind `access()`.

`BatcherProofs`, the access phase:

* `PolicyIsABatcher`: `PolicySpec => Spec`: behind `access()` the batcher takes only steps of
  `ReportsBatcher`, so every theorem above holds of the composition.
* `NobodyOnAnOverruledApproval`: `PolicySpec => NotOverruled`.  The inductive invariant
  `Backed` relates the caches to the answers: an approval in `auths` stands for one
  that is not overruled (`AuthsBacked`); one in `downtime` for one that nobody who is
  about to write will overrule, or, in allow mode, for a transaction that was never
  denied (`DowntimeBacked`); and allow forgets no denial (`AllowRemembers`).

`TimerTaskProofs`:

* `TypeCorrect`: `Spec => []TypeOK`.
* `SoundInvariant`: the inductive invariant `Sound` of a task: before `execute` it has
  no timer; it is in one of `active_tasks` and `last_one` at most; it has one timer or
  one run, never both; while `last_one` is set the last run has not begun, or it is
  under way and no timer is left.  `CancelledStops` is not inductive without the last
  part: a flag that survived the last run would let another one begin.
* `RunsNeverOverlap`, `ChainGoesOn`, `CancelStopsRuns`, `WaitingTaskRuns`: the four
  safety invariants of the run `timer_task` (`SingleChain`, `ChainLives`,
  `CancelledStops`, `WaitingRunsOnceMore`), each from `Sound`.

* `RetiredRunDown`: the safety half of `CancelledQuiesces`.  `Due` is the number of events
  that a retired task (cancelled or collected) still has before it: its timer may fire in
  vain, a run under way may leave such a timer unless it is the last one, and as long as a
  collected task may be cancelled with one more run, its timer may begin that run.  It is
  three at most, no step of a retired task increases it, `cancel(true)` after the
  collection included, and each timer that fires and each run that ends decreases it.

`ConfigStoreProofs` has the lemmas that both loaders use: the finders pick the
service of the least id (`FirstOf`, by well-founded induction), and after `store()`
of a configuration every host it speaks of is served as the configuration says,
whatever was in the store (`StoredServes`, `ServedIsResolved`); expiry changes nothing.

`BootLoaderProofs`: the invariant `Booting` says that the store mirrors `last` (every
service of it under its id, the list of every host of it, nothing of other hosts
unless it was stored over something), and that every answer on its way has one
service of an id.  From it `TypeCorrect` and `ServedFromOne` (`OneConfiguration`).
`ReloadsConverge` is the safety half of `ReloadsUpToDate`: the chain of reloads stops only
where a timer was not created, and as long as
nobody edits, calls the management API or kills the worker (`Quiet`), a load that begins
makes the worker up to date and what is up to date stays so.
`NeverTakenBack`, an action property: without the management API no step but the death of
the worker takes a service back to an older version.  Its invariant `InOrder` says that the
answer on its way is no older than what is served.

`LazyLoaderProofs`: the invariant `Lazy` is `TypeOK` and

* `Semaphores`: the resources of a semaphore are `Size` less those that are held and those
  that went with killed callers, whoever waits has one, and all its callers have the key it
  was made for.  From it `WaitersHaveHope` (`NobodyForgotten`): a semaphore that nobody holds
  is free, even if the key has another one by now, unless callers of the same key were
  killed with all of it; requests for other hosts do no harm;
* `Answered` and `Arrived`: what a request has loaded is a configuration of services
  of its host, none older than the request where that matters;
* `FoundOwn`: what it found is what its own load resolves to.

`FindsWhatItLoaded` (`OwnLoadServes`) and `NothingOlder` (`RefreshOnEachRequest`) follow.
`CachesAlwaysAgree` (`CachesAgree`) has an invariant of its own on the store (`Agrees`):
`store()` writes a service by its id and rewrites the list of every host that some service
of the load is on, and this keeps the two caches in agreement whatever they held.

`FirstLoadIsShared` says what the lock is for: until a load of a host has ended, `Size`
requests at most (one in the loader) load it at a time.  It stops there, because `run`
forgets the semaphore before it posts it (see the divergences); the invariant `Shared`
relates the requests inside the section to the one semaphore the key has so far.

`AuthRepProofs`:

* `TypeCorrect`: `Spec => []TypeOK`.
* `OneReport`: `Spec => []ReportedOnce`, from the invariant `Accounts` that relates the
  stage of a request, `ngx.var.cached_key` and the number of calls: a request on its
  way to the upstream has called backend exactly if the key is not set.
* `PoolKeepsPermits`: `Spec => []PermitsKept`, for any number of workers and threads.
* `DecisionsFollowVerdicts`: `Spec => DownDecision`, from the invariant
  `Followed` that says for each handler what an entry of the cache tells of the
  responses handled so far, the 499 that is cached as a denial included.
* `ApprovalsRunOut`: the safety half of `DenialTakesEffect`, an action property.  While
  backend denies a key no step adds to the approvals under way (`InFlight`), the entry
  becomes `ok` only when one of them is handled, or in allow mode by the first response,
  and a request proceeds on the entry or on its own approval.

`UpstreamProofs`: the invariant `Proxying` is `TypeOK` and

* `HolderQueries`, `RefreshHolds`, `OrphansHeld`: whoever has a semaphore is in its query,
  unless it was killed there; a query that began with an answer in the cache has
  the semaphore of its name; the semaphore of an orphaned name is never free.  From
  them `RefreshesOnce` (`OneRefresh`) and `StaleOnlyMeanwhile` (`StaleWhileQuerying`);
* `Resolved` and `Tried`: `balancer_retries` is one less than the tries, and the tries made
  and `left` are together the first one, the retries asked for so far and the free ones.
  From them `AllRetriesAndNoMore` (`TriesSpent`).

`PeersTakeTurns` (`Balanced`) has an invariant of its own: the peers that were picked in
this round are those from some peer up to the one before the cursor, cyclically
(`Turned`), so that the peer at the cursor is not among them unless all are.

`SemaphoreWithItsQuery` is the safety half of `SemaphoreReturned`: a semaphore that is taken
is in the hands of a request in its query (or orphaned), and the step that ends the query
posts it unless it kills the request.  `LostMeansStale` is what a lost one costs: when no
query of the name is left, no later step asks the DNS for it, and every request is given
the answer that is in the cache.

`RateLimitProofs`.  The invariant `Inv` holds for any chain of policies:

* `TypeInv`: the types, and that the keys of a request, which `Select` chose, differ and name
  its connections first.  From it `TypeCorrect`;
* `Flow`: where a request keeps its units, by its place.  With one policy (`OnePolicy`) its
  slot and its timer are empty while `combine()` runs, because the request before it is
  over;
* `Balanced`, of every counter that is `Tracked`: the equation of `Accounting`, and that what
  is held without what is about to be taken back (`Owners`) is within the limit.
  `ConnLimit` and `WindowLimit` are not inductive: two workers may both increment a counter
  that has room for one, and it is over its limit until the second takes its unit back.

The windows are tracked for any chain, for nothing is left in them; connections with one
policy only, and the run `rate_limit_chain` shows why: with two of them the log phase of
each leaves the connections of the other.

`Effect` says what an action of one request may do to that equation.  There is a lemma
for each operation on the dictionary that gives its `Effect`, and `EffectKeeps` derives
`Inv'` from it once, by counting a set of requests in which one has changed.
For any chain follow `WindowsStayWithinTheLimit` (`WindowLimit`) and `WindowsAccountedFor`;
with one policy `EveryUnitAccountedFor` (`Accounting`), `ConnectionsStayWithinTheLimit`
(`ConnLimit`) and `AdmittedInOneStep` (`AdmissionSpec`), the refinement: for each action the
`places` and `used` of every request and counter are compared before and after it, and
`Inv` after the step that lets a request in gives the room that `LetIn` asks for before it.

Only model-checked: the liveness properties `EventuallyCounted`, `CancelledQuiesces`,
`NobodyWaitsForEver`, `ReloadsUpToDate`, `DenialTakesEffect` and `SemaphoreReturned`,
since the prover does not reason about fairness.  What of each holds without fairness is
proved for every value of the constants, as said above; the step from there to the
liveness property is left to the runs:

| liveness property | safety half |
|---|---|
| `EventuallyCounted` | `BooksBalance`, `SettledForGood`: what is not counted or lost is owed, and what is settled stays so |
| `CancelledQuiesces` | `RetiredRunDown` |
| `NobodyWaitsForEver` | `WaitersHaveHope`: the semaphore is free or somebody has it |
| `ReloadsUpToDate` | `ReloadsConverge` |
| `DenialTakesEffect` | `ApprovalsRunOut` |
| `SemaphoreReturned` | `SemaphoreWithItsQuery` |

`WaitersHaveHope` is an invariant of the run `config_lazy` (`NobodyForgotten`).  The others
are in no run: they follow from the inductive invariants, and each was evaluated by TLC on
the instance of its component before it was proved.

## Not modelled

* Data: payloads, URLs, formats, headers, log messages, metrics.  Usages are sets of
  metrics, deltas are zero or not, a configuration is a set of services with a
  version and hosts, an answer of DNS is a number of peers.
* Eviction: the shared dictionaries are large or full (`Capacity`), never evicting; the
  LRU caches hold all services and names.
* Rate limits: the delay of a leaky bucket in seconds, and windows that end while a
  request is in `access()`.
* Resolver: search domains, CNAME chains, several nameservers.
* Pure algorithms over one request: usage, mapping rules, credentials, conditions, the
  order of policies, upstream selection, freshness of cached responses.
* Rate limit headers: nothing in the gateway decides on them; the decrement that two
  workers lose is listed as a hazard.
* OIDC discovery, token introspection: cryptography and claims; the result without keys
  that is cached is listed as a hazard.
* Stateless policies, TLS, proxies, the command line: one request in, one out, no
  interleaving to explore, or input and output only.
* Third-party code: the C sources in the tree are PCRE and its just-in-time compiler,
  under `dependencies/rpm-specs`, which OpenResty links against.  APIcast itself is
  written in Lua; no definition stands for a line of PCRE.

## Plan

Done: every component with state that several actors share, but the rate limit headers
and the caches of issuers and tokens, with proofs for each of them.  What is left, in
this order:

1. An abstract `PeriodicTask` (a task runs at most once at a time, as long as it is
   registered and once more if that was asked for) that `TimerTask` implements.
2. An abstract configuration register that `BootLoader` implements between two calls of
   the management API: a worker serves one configuration after the other.
3. The caches of issuers (`oidc/discovery.lua`) and of tokens
   (`token_introspection.lua`): an answer that is cached without its keys.
4. `Algorithms`: usage, mapping rules with `last`, `clean_usage_by_owner_id`,
   conditions, policy order, upstream selection, freshness of cached responses, linked
   lists, each against a reference definition.
