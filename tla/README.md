# TLA+ models of the concurrent HTTP server

TLA+ modules, TLC configurations and TLAPS proofs about the C++ server in `src/` and
its dashboard.
Every definition is translated from the source; `PROJECT.json` names, for each
definition, the lines it stands for.

    tlc -workers 2 -config MCThreadPool.cfg MCThreadPool     # check a run
    tlapm ThreadPoolProofs.tla                               # check proofs

## 1. The system

| Part | State | Operations | Talks to |
| --- | --- | --- | --- |
| `main` | `g_shutdown_requested` | start, wait for a signal, stop | `HttpServer` |
| `HttpServer` lifecycle | `running_`, `listen_fd_`, `accept_thread_` | `Start` (and its catch block), `Stop`, `AcceptLoop` | pool, prefetcher, kernel |
| `ThreadPool` | `tasks_`, `workers_`, `started_`, `stopping_`, `cv_` | `Start`, `Stop`, `Enqueue`, `WorkerLoop` | producers call it, workers run handlers |
| Request handling | locals of `HandleClient` | read, answer, send, count, adjust, close | parser, cache, metrics, prefetcher |
| `HttpParser` | one buffer | `ReadFromSocket`, `ParseHeaderBlock` | socket |
| `WorkloadAwareCache` | `entries_`, three eviction indexes, byte counter, `active_profile_` | `Get`, `Put`, `AdjustWeights` | handlers, prefetcher |
| `MetricsCollector` | five atomics, `recent_requests_` | open, close, completed, hit, miss, `Snapshot` | handlers, prefetcher, `/metrics` |
| `Prefetcher` | `jobs_`, `started_`, `stopping_`, `cv_`, one thread | `Start`, `Stop`, `ScheduleHtmlPrefetch`, `ProcessJob` | handlers call it; it writes the cache |
| `file_utils`, `http_utils` | none | paths, files, text | everybody |
| `Logger` | a file and a mutex | one line at a time | everybody |
| Dashboard | React state, an interval, a listener | `fetchMetrics`, two effects, rendering | polls `/metrics` |

One thread accepts, `thread_count` workers handle one connection each from start to
end, one thread prefetches, and the main thread starts and stops them. They share
the pool's queue, the prefetcher's queue, the cache and the counters.

What is hard: notifications outside or inside a lock; `Stop` racing producers;
descriptors that change owner; counters that must agree although each is an atomic
of its own; three indexes that must agree after any sequence of calls; readings of
a clock or a counter that are stale when they are used; clients that are slow, silent
or gone; polls that overtake each other. `PROJECT.json` lists these hazards at their lines with the properties that
cover them, or the reason why none does.

What makes each part correct: the pool runs every accepted task once, in order,
loses no wakeup and stops; the cache keeps its indexes, its byte counter and its
budget; the counters count each request once; the prefetcher's queue is bounded,
drained and stopped; no connection is leaked, refused or closed twice; a request's
verdict does not depend on how its bytes arrive, and no client keeps a worker; the
dashboard's panels agree and come to show what the server has counted.

## 2. The modules

    JobPool  <-- implemented by --  ThreadPool            (threadpool/)
       ^     <-- implemented by --  StaticServing         (server/, prefetch/)
       |
       +-- two instances in --      ServerLifecycle       (server/, main.cpp)
    LfuCache <-- implemented by --  WorkloadCache         (cache/)
    RequestPaths  <-- used by --     StaticServing         (utils/, server/)
    RequestHandling                                       (server/, metrics/)
    HttpConnection                                        (server/http_parser.cpp)
    Dashboard                                             (monitor-ui/, /metrics)

**JobPool** is what a pool of workers promises: jobs start in order, each once, at
most one a slot, and closing ends only when nothing accepted is left. **ThreadPool**
is the code: one action for each critical section of `mutex_`, and one for everything
done outside it (`notify_one` after the unlock, `notify_all`, the joins, the task).
A thread that cannot be created and a task that throws are actions too.
A sleeping worker may wake up although nobody notified.

**WorkloadCache** files each entry in three ordered indexes. A method holds `mutex_`
throughout and is one action; only the rounds of the eviction loop are separate, with
nothing in between. A node of an index is a record of its score and the time it was
filed, which stands for the order of equal keys in a `std::multimap`. Scores are
integers: multiplied by `2 * Scale`. **LfuCache** is the policy that comes out.

**RequestHandling** runs `HandleClient` for concurrent clients with one action for
each atomic operation of the metrics, with the loop of `compare_exchange_weak` in
`ConnectionClosed`; what is under `rps_mutex_` is one action. The atomics are
relaxed: each property is about a single counter or about states in which the
handlers' own order decides, so sequentially consistent steps suffice.

**RequestPaths** has the path arithmetic of `file_utils.cpp`, `UrlDecode`, `CacheKeyForPath` and
`IsInternalMonitoringPath` as operators. A target or a URL is a sequence of tokens (slashes,
dots, marks, names, escapes), a normal path is its names and whether it ends in a slash. An
escape is one token however it is spelled.

**StaticServing** is `ServeStaticFile` and the prefetcher over one shared cache, which
is reduced to the file each key's content was read from (`WorkloadCache` is the detail).
Each call of the cache, of the metrics and of the file system is a step of its own. The
disk belongs to others, so what a look at it returns is chosen, and with it what a symbolic
link does. What the regular expressions find in a page is the constant `Links`; the limits of
`ExtractResourceUrls` are modelled.

**ServerLifecycle** has the main thread in `Start`, in its catch block and in `Stop`,
the accept thread, and the pool and the prefetcher as two instances of `JobPool`,
whose actions it uses. `accept` may fail at any time. `listen_fd_` is a plain `int`
that `Stop` overwrites while the accept thread may read it; whatever it reads, `accept`
then fails, which is one of the choices of `AcceptFails`.

**HttpConnection** is `ReadFromSocket` and `SendResponse` with a client that writes in
any portions, hangs up, resets or never reads, and the clock behind the socket
timeouts. A request is a record of byte counts and of the facts its fate depends on:
where its headers end, whether it is malformed, and the two readings of its length,
which the code takes in two different ways and which need not agree.

**Dashboard** is the page: its `useState` variables, `fetchMetrics` split at its awaits (`Send`,
then `Settle` or `Fail`), the two effects with their clean-ups, and for each panel what it shows.
A callback of a page runs to its end and React renders its updates together, so each is one
action. Polls overlap; the answer of each is put together from separate reads (`Load`) while
handlers count and adjust, because `BuildMetricsJson` is no snapshot. `StrictMode` runs effects
twice in a development build: `Mount` does either. `overtaken` is a history variable: the polls
in flight while another one was answered. `Aging` says whether completed requests leave the last
second; in the runs they do not, as `RequestHandling` has the rate in detail.

An `MC...` module gives a component finite constants; a `...Proofs` module has its theorems.
Definitions marked *Variant* in a comment are plausible bugs: none is used by the
specification; putting one in the place of the definition it varies makes TLC find
the property named in `PROJECT.json` violated, which shows that the property can fail.

## 3. The runs

| Run | Instance | Shows |
| --- | --- | --- |
| `pool` | 3 workers, 2 producers, 3 tasks of which one throws, 2 starts | no wakeup or task lost, no sleeper at the joins, implements `JobPool`; accepted tasks are done, `Stop` returns |
| `cache` | 3 keys, sizes 1, 2, 4 in 3 bytes, 6 operations | the indexes match the entries, `BudgetIsHonoured`; implements `LfuCache`; eviction ends |
| `cache_recency` | 7 operations, one a second | **violation**: see below |
| `requests` | 2 clients, 2 handlers, 1 other caller of `Snapshot`, 3 clock values | gauge and counters exact, no recent request lost from the rate and fewer old ones in it than handlers, handlers finish |
| `serving` | 3 clients, 2 workers, 4 targets (the page spelled in two ways), a page with 4 distinct URLs among 8 tags, a queue of 1 | the prefetcher never sleeps over work; page and backlog are bounded; a hit is the file asked for |
| `prefetch_queue` | 2 clients, a queue of 2, 2 starts | implements `JobPool`; every page is done, `Stop` returns |
| `monitoring_cached` | 2 clients, a page that links to a monitoring path | **violation** |
| `lifecycle` | 3 connections, 2 workers | nobody refused, each connection with one owner, nothing left after `Stop`, `Stop` returns, accepted connections are closed |
| `connection` | limits of 6 and 3 bytes, reads of 2, 34 requests on both sides of every limit | buffer bounded, verdict independent of the portions, nothing incomplete served, worker freed |
| `slow_client` | the same, no signals | **violation** |
| `dashboard` | 2 polls in flight, 1 handler, 1 request, a line of 1 point | panels agree, effects do not pile up, counters go back only on overlaps, the page catches up and takes back its alert |
| `dashboard_strategy` | 2 handlers, 2 requests, a line of 2 points | **violation** |

Why the bounds are enough. The pool: a third worker lets one sleep, one run and one
look at the queue; two producers let one notify late; a second start reaches what a
first stop left behind. The cache: three keys force one or two evictions or the
newcomer's own, and the two profile switches on either side of the thresholds. Requests:
a lost update needs two handlers. Serving: three pages for a queue of one and one being
looked at; `MaxResources = 1` makes each tag pattern meet its limit. A page spelled in two ways
and linked in a third makes one key meet several spellings. The connection:
reads of two bytes cut every request at every place that matters, and the answer is longer
than the kernel holds. The dashboard: two polls are enough for an answer to be overtaken, one
request for counters and weights to change between two reads; two answers fill and shift the line. Polls
return to their slot when they are over, so their number is not bounded, only how many overlap.

Deadlock checking is off where the system may stop: the process ends, the pool is
destroyed, a handler returns, or a bound is reached.

### Fairness

Threads keep running and a thread that wants a mutex gets it (weak fairness of the
loops of workers, of the prefetcher and of the handler); `Stop`, once begun, goes on;
the eviction loop holds its mutex. A task returns or throws, which `HttpConnection`
justifies for the part that waits for a client (`WorkerIsFreed`). Time passes.
`accept` returns only once its socket is closed: nobody has to connect, and
nobody has to send a signal. In `WorkerIsFreed` the client need not do anything. On the page
React runs the effects, the browser runs microtasks and intervals, and a poll is answered or
fails, which is what `HandlersFinish` and `WorkerIsFreed` say of the server. `Mount` apart,
nobody has to look at the page: `CatchesUp` assumes that it stays visible and that at some time
polls stop failing. It does not assume that the alert goes away: an answer has to take it back.

### Disagreements between the code and its README

1. `cache_recency`: scores are computed when an entry is used, with age 0, and never
   aged, so recency decides nothing, under any profile (proved as `CacheImplementsLfu`).
2. `monitoring_cached`: the prefetcher stores monitoring files a page links to.
3. `slow_client`: the receive timeout bounds one `recv`, not a request.
4. `dashboard_strategy`: the strategy shown is computed from the hit rate of the answer, not
   taken from the cache. A handler applies the rate of its snapshot with nothing held, so the
   older of two rates may be applied last; then all requests are handled, the page has every
   count, and it shows another strategy than the one evictions go by, until the next request.
   (A fresh page differs, too: 0 lookups count as a rate of 0, so it says Recency-heavy beside
   the balanced weights the cache starts with.)

Each is quoted with its lines in `PROJECT.json`. Two more need no run. The gauge of active
connections is counted up by the worker that handles the connection, so it cannot exceed half
of the heavy-load threshold and the prefetcher's checks of it never fire (proved as
`GaugeStaysWithinPool`). And a completion time that is pushed behind a younger one is not
pruned until that one is, as `PruneOldSamplesLocked` stops at the first sample that is recent:
the rate may count requests that are older than a second, but fewer than there are worker
threads (`OldRequestsAreFew`).

## 4. The proofs

All theorems hold for any finite sets of threads, tasks, clients and keys and any limits.

Several come in pairs: a number that each step of somebody lowers and that nothing raises
(*counts down*), and an invariant that says he whom somebody waits for has a step to take
(*can go on*). Together they are the safety half of a liveness property: a wait is over after a
bounded number of steps, if those who can take one do.

| Liveness, checked by TLC | Counts down | Can go on |
| --- | --- | --- |
| `StopReturns` of `ThreadPool` | `JoiningCountsDown` | `JoiningCanGoOn` |
| `EvictionEnds` | `EvictionIsBounded` | `EvictionNeverStalls` |
| `HandlersFinish` | `HandlersCountDown` | |
| `WorkerIsFreed` | `WorkIsBounded` | |
| `PrefetcherStops` | `ThreadWorkCountsDown` | `JoiningCanGoOn` |
| `ServerStops` | `ShutdownIsBounded` | `ShutdownIsNeverStuck` |

**ThreadPoolProofs.** The invariant `PoolInv` ties the flags, the controller's place and
each worker's place together: workers exist only between `Start` and the end of the
joins, one that has exited has seen `stopping_` and an empty queue, and nobody sleeps
once `notify_all` is past. It is inductive and gives `TypeOK`,
`NoSleeperAtJoin` and `NoTaskAfterExit` (no task is left behind by `Stop`). `NoLostWakeup` is a count, preserved because an
`Enqueue` adds one task and one notification, and a `notify_one` turns a notification
into a worker that is awake. `EachTaskOnce` follows from `PoolInv`, and with both each
step is a step or a stutter of `JobPool` (`PoolImplementsJobPool`). While `Stop` joins, a queued
or running task counts twice and a worker that is awake once: taking a task, finishing
one and leaving each lower that sum, and `Enqueue` throws, so nothing raises it.

**WorkloadCacheProofs.** `CacheInv` says that the indexes file exactly the entries'
nodes, that each score is the one of its last use, that filing times differ, and that
the counter is the number of resident bytes (a cardinality, so that subtraction is
removal of a set). A put or hit refiles one entry, an eviction drops one. That
the first node of the active index is a least frequently used entry needs
the arithmetic of `ScoreAt` at age 0 and gives `CacheImplementsLfu`. The eviction loop removes an
entry in each round; it cannot run dry, because without entries there are no bytes to be over
the budget, and a non-empty index has a least node as numbers are well-ordered.

**RequestHandlingProofs.** `HandlingInv` adds to the counters what the stage of each
handler says of its request and that a value about to be decremented is positive. Each
counter equals the cardinality of a set of clients which every step leaves alone, extends by
one or shrinks by one. `GaugeStaysWithinPool` adds that at most `MaxHandlers`
clients are being handled. `RecentRequestsKept` speaks of the present only, and a `Tick` would
break it; `RateInv` says it of the present and of every later time, and that no reading of the
clock is ahead of it. Then a prune takes a prefix of the samples (`StalePrefixIsInterval`) none
of which is in a window still to come (`PruningKeepsYoung`), and a push adds one to both sides.
`OldRequestsAreFew` rests on `BehindAndLate`: the samples behind one that is younger, together with
the handlers that have read an older time and are still to push it, are fewer than the worker
threads. A push moves its handler from the second set to the first, nobody becomes late, since
the clock does not go back, and behind a sample just pushed there is nothing. What a snapshot
counts too long is behind the first sample that pruning leaves (`OldOnesAreBehind`).
`HandlersCountDown` is about the loop of `compare_exchange_weak`: it fails only when the gauge
has changed since it was read, and each client changes the gauge twice. (The strong form is
modelled: a spurious failure would add retries, and hardware gives no bound for those.)

**HttpConnectionProofs.** `Progress` bounds the buffer at each stage: no end and no
limit reached while reading headers, and part of the body missing while reading it.
From it follow `BufferIsBounded` and `JudgedByContent`. The latter compares the answer with
`Verdict`, which takes both readings of the length into account, and has two exceptions, both
real: a 400 for headers that end near their limit, because the code compares the limit with all it
has received, and a 408 while something the first reading announces is missing. Neither
serves anything: a 200 is only for what is complete by the length in the parsed headers.
`WorkIsBounded` multiplies what is left to read and send by the receive timeout:
that product is how long a slow client keeps a worker, and the limits alone bound it.

**StaticServingProofs.** `HitIsTheFile` speaks of the keys of requests only and is not inductive:
the prefetcher files links under keys of its own. `CachedIsFile` says of every key that its content is
from the file the key resolves to, and that a path and its key resolve to one file
(`KeyKeepsFile`) gives the rest. `QueueInv` is about the prefetcher: what the flags and the thread
are at each place of `Start` and `Stop`, that a thread which sleeps or has exited leaves an empty
queue and none sleeps once `Stop` has notified, and that an accepted page is in the queue or
being looked through. It gives `NeverSleepsOverWork`, with the size of the queue
`BacklogIsBounded`, and that each step is a step or a stutter of `JobPool`.

The rest is about paths and pages of any length, which recursion and folds compute. No induction
theorem with an operator parameter is usable here, but well-foundedness of `<` on `Nat`
is a statement about sets: `Least` gets from it the least number of a set, and with it a fold is the
end of a walk, a sequence of values each of which follows from the one before
(`FoldIsWalk`). So `Normal` keeps names ordinary, for every text: `RequestsStayBelowRoot`,
`LinksStayBelowRoot` and, as an invariant of the server, `CachedFilesAreBelowRoot`. Normalising
twice is normalising once, on which the code relies. `LinksMeetRequests` is what makes
prefetching useful: a link without escapes is filed under the key of the request for it, except
when it leads to a directory, and then never. In a link with escapes it need not be, as
links are not decoded. A fold over the tags of a page gives `PageIsBounded`; its bound is three for a
limit of zero, since the code appends a URL before it looks at the limit, in each of three passes.
`ServingInv`, all of this together, gives `TypeOK`, and an upper bound of the work in a page
from which `ThreadWorkCountsDown` follows.

**JobPoolProofs** uses nothing but the promise: with an `Idle` that is no job, an accepted job is
in the queue once or with one worker, none is lost before it is begun, and a closed pool has none
(`JobsInv`). As both pools implement `JobPool`, it holds of both. `PoolCountsDown` weighs a job by
what may still happen to it.

**ServerLifecycleProofs** takes `JobsInv` for its two pools from two instances of
`JobPoolProofs`. `StageInv` says at each place of the main thread what it has started and not
yet stopped: an accept thread exists only while the pool is open, because `Stop` joins it first,
and there is one to join.
`ConnInv` says who has a connection: the backlog, the accept thread, the pool, or nobody. All the
module's invariants follow. `ShutdownIsBounded` adds the stages of the two threads, the clients
still to connect and `JobsLeft` of both pools, from `PoolCountsDown`'s lemmas.

**DashboardProofs.** `PageInv` says that an answer is shown exactly when there is a time of
update and a line that ends with its rate, and that loading ends with the first answer or
failure. `EffectInv` counts intervals and listeners before and after `Mount`. That counters go
back only on overlaps needs `AgeInv`: what the page shows, and what a poll that nobody overtook
has read so far, is not ahead of the server, and such a poll is not behind the page.

Assumptions are the named `ASSUME`s of the modules; `TokensAssumption` of `RequestPaths` only says
that the tokens the code names are strings, which the provers do not know by themselves. Only
model-checked: liveness, as the provers have no fairness and no `ENABLED`. Every invariant
and every action property of a passing run is a theorem.

## 5. What is not modelled

- The text of requests, answers, logs and pages; MIME types, dates, JSON, and the rounding of
  rates to the six digits an answer prints.
- Symbolic links, `IsWithinRoot` and the errors of the file system: a look at the disk may
  fail at any time. An escape of an ordinary character is an ordinary name.
- The dashboard's theme button, the text and layout of its panels, its widgets and the built
  bundles. A restart of the server, after which counters start at 0 and the page shows them so;
  more polls in flight than the bound: nothing in the page limits them while the server hangs.
- `Logger`: one mutex around one write.
- Running out of memory, and with it a failure of `Start` after the accept thread has been
  created, which would end in `std::terminate`.
- Weaker effects of relaxed atomics than interleaving.
- Whether the client's kernel delivers an answer that is followed by a reset, when the server
  closes a socket with unread input.

## 6. Plan

Done, in this order: `JobPool` and `ThreadPool`; `LfuCache` and `WorkloadCache`;
`RequestHandling`; `StaticServing`; `ServerLifecycle`; `HttpConnection`; `RequestPaths`;
`Dashboard`; the theorems above.

Next: a measure for the dashboard's line of points and its polls; what `LfuCache`'s promise implies
by itself, such as that an entry used more often than another is not evicted before it; and for
which escapes in links `LinksMeetRequests` still holds.
