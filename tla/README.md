# FastDL for Metamod: verification project

`fastdl_mm` is a Metamod plugin that runs an HTTP download server inside a game
server process. This directory holds TLA+ models of its stateful parts, TLC
configurations that check them on small instances, and TLAPS proofs. Source
paths below are relative to the repository.

## The system

| Component | Source | State | Operations | Why it is hard |
|---|---|---|---|---|
| Compression cache | `src/compression_cache.cpp` | queue, `pending_`, counters, a cache directory | `lookup`, `requestBuild`, `start`, `stop`, worker thread | files change under it, lookups race the worker, disk steps fail, crashes |
| Rate limiter | `src/rate_limiter.cpp` | per-address request and denial stamps, blocks, `eventCount_` | `blocked`, `requestExceeded`, `recordDenial`, `unblock`, `clear` | bounds, windows, hand-kept counter, clock read before the lock |
| Bandwidth limiter | `src/bandwidth_limiter.cpp` | virtual-scheduling buckets (lock-free), weak map of leases | `configure`, `attach`, `acquire`, `stop` | compare-and-swap races, lease lifetime, condition variable against shutdown |
| Daily log | `src/logger.cpp` | queue, drop counter, open file | `start`, `write`, `stop`, drain thread | rollover, retention, failing opens, shutdown |
| HTTP requests | `src/fastdl_server.cpp` | `RequestState`, `TransferContext` | `handleRequest`, `dispatch`, `serveFile`, `fileReader`, `requestCompleted`, `start`, `stop` | callbacks of several worker threads, shutdown order |
| HTTP negotiation | `src/fastdl_server.cpp` 107-299 | none | `parseRange`, `acceptsGzip`, `etagMatches`, ... | boundary arithmetic, validators against a changing file |
| Transfer metrics | `src/transfer_metrics.cpp` | counters, ring of seconds | `bytesSupplied`, `transferFinished`, `snapshot`, `reset` | lock-free bucket reuse, saturation |
| Path resolver | `src/path_resolver.cpp` | configured lists | `configure`, `resolve`, `scanDirectories` | links, root-level files |
| File access | `src/secure_file.cpp` | none | open, inspect, read | the file changes between the calls |
| Plugin | `src/meta_plugin.cpp` | `sv_downloadurl` and what it was, pending start | `gameInit`, `startFrame`, `fastdl_restart`, `Meta_Detach` | failing starts, restarts with transfers in progress |
| Configuration parser | `src/config_parser.cpp` | none | one line of text | not modelled |

Interaction: libmicrohttpd workers call `dispatch()`, which asks the rate
limiter, resolves the path and, for gzip, the cache (`lookup()`); a GET response
holds a bandwidth lease and calls `acquire()` from its content reader; every
completed request is written to the log. The game thread starts everything and
stops it in the order bandwidth limiter, HTTP daemon (joining its workers),
cache, log, rate limiter. Each component takes its own mutex only, so there is
no nesting of locks; the only waits for another thread are the three joins.

What makes each part correct: the cache serves the bytes its ETag names, stays
within its budget, forgets no job and stops; the rate limiter admits at most the
limit per window, keeps blocks, and stays bounded; the bandwidth limiter never
grants more than rate and burst and never hangs; the log keeps lines in order,
accounts for losses, and keeps exactly the configured days; the server counts
and logs every request once, serves listed files only and never lets a client
mix two versions; the metrics lose no byte; the plugin announces its URL only
while the listener runs and gives the operator's back.

## Modules

| Module | Role |
|---|---|
| `CompressionCache` | cache, its worker, HTTP lookups, content changes, crashes |
| `RepresentationStore` | abstract specification that `CompressionCache` implements |
| `MCCompressionCache` | sizes and symmetry for TLC |
| `RateLimiter`, `MCRateLimiter` | limiter with a history of admissions; symmetry |
| `BandwidthLimiter`, `MCBandwidthLimiter` | buckets, leases, waits, stop; symmetry |
| `AsyncLogger`, `MCAsyncLogger` | daily log; days that have files at the start |
| `TransferMetrics`, `MCTransferMetrics` | ring of seconds and byte total; symmetry |
| `FastdlServer` | start, stop, requests on HTTP workers, outcome counters |
| `Plugin`, `MCPlugin` | the plugin composed with `FastdlServer` |
| `Negotiation` | ranges, validators, content coding as operators, and what they mean |
| `PathResolver` | configured lists, resolution over a tree with links |
| `Download`, `MCDownload` | `dispatch()` and `serveFile()` over the two, a client, a changing file |
| `Sums` | the sum of a function over a finite set |
| `SumTheorems` | lemmas about sums, largest and smallest elements, and induction |
| `CompressionCacheProofs`, `RateLimiterProofs`, `BandwidthLimiterProofs`, `AsyncLoggerProofs`, `TransferMetricsProofs`, `PluginProofs`, `DownloadProofs` | TLAPS proofs about the module each is named after |

`PROJECT.json` maps every definition to the lines it models. Operators placed
just before a definition with a telling name (`PushInsertFirst` before `Push`)
are mutated forms used to test that the properties can fail; nothing else refers
to them.

### CompressionCache

A source identity (path, size, stamp, file id) is a pair of file and version; a
version never returns. The 128-bit key is taken to be free of collisions. File
content is the set of versions whose bytes went into it, so a mix of two
versions is visible. `wpc` is the worker's place in `run()`, `maintainCache()`,
`scanAndBuild()` and `compress()`. Each file-system step of `compress()`
(temporary, block read, second inspection, remove, rename, ...) and each entry
of the directory walk is one action; between any two the content may change, an
HTTP worker may look up, the game thread may stop, and the process may die. The
exception is removing several files in a row: `removeRepresentation()` (`Evict`),
the loop that prunes at the end of a walk (`EndWalk`) and the removals before a
skip marker (`MarkSkip`) are one step each. A response opens the source, then the
cached file (`OpenSource`, `OpenCached`); if opening or inspecting the cached
file fails, it sends the source.
`lookup()` is five steps per HTTP worker (`meta`, `size`, `open`, `miss`,
`enqueue`), since it holds the mutex in `enqueue()` only. `older` is the order of
modification times of the artifacts. `DiskFaults` allows failing writes, renames
and listings; `PinsOpenFiles` is Windows, where an open artifact is neither
removed nor replaced. Left out: statistics, thread priority, the `maxFileBytes`
filter (content that is too large is simply not in `Files`), failing `start()`
(it leaves the cache stopped).

`RepresentationStore` says what the server may rely on: a request fixes the
version when it begins and is answered with exactly that version or not from the
store; representations appear whole, while the cache is up, for versions that
have existed; they may vanish without touching a response in progress; the store
survives a crash. `CompressionCache` instantiates it with `store <- gz`,
`asked <- hid`, `sent <- body` and `up <- wpc # "down"`; `ImplementsStore` is
its specification as a property. Queue, markers, temporaries, counters and
limits have no counterpart there.

### RateLimiter

One action per limiter call, preceded by `ReadClock`, because the code reads the
clock before it takes the mutex. `dispatch()`'s order of calls is in `pc`: what
is wrong with a request is a choice. A client erased from the map has its
default values in the functions. The limits and the block time are at least one,
as `readConfig()` bounds them, so the branches for a limit of zero are left out.
Time is in ticks. `admitted` (admissions per tick), `latest` (the newest reading a
call has used) and `lag` (how far a worker that took the mutex was behind it at
most) are history; `overtaken` is `lag # 0`. `RejectionsJustified` holds in every
interleaving: an overtaken worker can leave a stamp behind a newer one, which
`trim()` then keeps, but for no longer than `lag`, and TLC finds that a shorter
allowance would not do. `WindowBound` and `BlockHolds` are about behaviours in
which nobody has been overtaken.

### BandwidthLimiter

`reserve()` is a load and a compare-and-swap that may fail spuriously.
`wait_until()` is a test of the predicate, the release of the mutex and the
sleep; `stop()` sets the flag, notifies the current sleepers, then clears the
map. Workers may attach and acquire until the daemon has joined them, after
`stop()` too; `configure()` begins with another `stop()`, so that no bucket
outlives a restart in the map. A unit costs a whole number of ticks; a cost of zero is an unlimited rate.
`Buckets` are the `Client` objects: one is destroyed with its last lease.
`born` and `used` are history.

### AsyncLogger

A line is the number of its `write()` call. `Take`, `Open` and `Emit` are the
three parts of `run()`'s loop. `good` is the state of the stream, `opened` what
the code believes. `calls`, `written`, `reported` and `failed` are history.
A batch is written after the report of the losses before it, so that a write that
fails loses all of it or a tail of the lines; the code does not notice at once,
the model counts what is lost in `failed`.
`purge()` is assumed to succeed in removing what it decides to remove.

### TransferMetrics

Every load and store of an atomic is a step: `bytesSupplied()` tests the bucket
without the mutex, again with it, clears, stores the second, and adds after the
mutex is released; `snapshot()` loads second and bytes of each bucket one after
the other. The compare-and-swap loop of `saturatingAdd()` takes effect at one
instant. `MaxLag < Window` says that no worker stands still inside
`bytesSupplied()` for a whole window; the properties need it, and the hazard list
says what happens otherwise. `credited` is history.

### FastdlServer and Plugin

`conn` is the request on every connection with what its `RequestState` holds; a
connection belongs to one worker of libmicrohttpd's pool, and a worker inside
`acquire()` serves no other connection. `call` is where the game thread is in
`stop()` or `start()`; `MHD_stop_daemon()` is telling the workers, joining them,
and completing what they left. `dispatch()` is atomic here: its result is a
text answer, a transfer, or nothing at all. In the content reader the wait in
`acquire()`, its grant and the read are steps of their own: what was granted
before `bandwidth_.stop()` is still read and counted after it. `Plugin` adds the game thread's entry points around that; the operator
changes console variables only between them. `lines`, `begun`, `refused` and
`own` are history.

### Negotiation, PathResolver and Download

A header is its parsed structure: numbers stay sequences of digits, because the
width of the integer matters (`MaxUnsigned`); a coding carries the verdict of
its q values; an entity tag is a version and a coding. `Selected` and
`Understood` say what a range means independently of the code. A target is the
sequence of separators and names; `Tree` is what `canonical()` makes of a path.
`Download` runs `resolve()`, `openReadFile()` and the rest of `serveFile()` as
three steps with the file changing between them. `header()` returns nothing for a
text that is longer than the caller's bound (256 characters for `Range`), so such
a header counts as absent (`Header`): a `Range` is too long when its digits are
(`MaxRangeText`), and any header may be for the blanks or foreign text in it
(`filled`). Its client probes with ranges of every form, or downloads, is cut off
after any byte, resumes with `Range` and `If-Range: <etag>`, and revalidates by
entity tag, by date or by both. Assumptions: a file changes by being
replaced with a new one (not rewritten in place), and later versions have later
seconds. Whether the cache has the representation is a free choice; that it is
the right one is `ImplementsStore`.

## Runs

| Run | Instance | Properties |
|---|---|---|
| `cache_races` | 1 file, 2 versions, 1 HTTP worker, queue of 1, budgets that fit one artifact or none, disk faults, open files pinned | `TypeOK`, `RepresentationFaithful`, `PendingExact`, `SkipJustified`, `ImplementsStore` |
| `cache_budget` | 3 files, limit of 2 artifacts, budgets that fit none, one, all | `DiskWithinBudget`, `DirectoryTidy` |
| `cache_liveness` | 2 files, one of them incompressible, fair worker | `StopCompletes`, `BuildServed`, `JobsComplete` |
| `limiter` | 2 addresses, room for 1, 2 workers, 3 ticks, limits of 2, room for 3 stamps | `EventCountExact`, `WithinCapacity`, `WindowBound`, `BlockHolds`, `RejectionsJustified` |
| `bandwidth_rate` | 2 transfers of one address, both buckets, quantum and burst of 1, fair threads | `RateBound`, `AcquireReturns` |
| `bandwidth_leases` | 3 transfers, 3 addresses, room for 2 | `LeasesShared`, `TrackedBound` |
| `bandwidth_wakeup` | 2 transfers | violation of `ShutdownWakes` |
| `logger_order` | queue of 2, 4 lines per start, 3 days, open and write faults | `TypeOK`, `LossAccounted`, `InOrder`, `NoOrphanLines`, `Retention`, `StopReturns` |
| `logger_write_fault` | same | violation of `BadStreamIsReopened` |
| `metrics_ring` | 2 workers and a snapshot, window of 3 s, 5 s, counters up to 3 | `RingExact`, `SnapshotRecent` |
| `server` | 2 connections, 2 workers, files of 0 and 2 bytes, counters up to 5, 2 requests per start, any number of restarts | `PluginTypeOK`, `ActiveExact`, `LedgerBalanced`, `LinePerRequest`, `NothingLeftRunning`, `UrlHonest`, `OperatorsUrlKept`, `GameGoesOn` |
| `requests` | 3 settings of the lists, some 250 targets, a file in 4 versions (3, 2, 0 and too many bytes), 101 range headers (some too long), 6 `Accept-Encoding` headers, each header also too long to be read | `RangeExact`, `CopyCoherent`, `NotModifiedCurrent`, `GzipOnlyWhenAccepted`, `ServedIsListed` |

Why the bounds are enough. Cache: two versions suffice for a mixed read, a stale
job and a stale marker; a queue of one is full with one key queued and another
in work or looked up; HTTP workers interact only through the directory and the
queue, so one worker against the compression thread shows the races (the proofs
cover any number); three files and a limit of two exercise eviction by count,
two budgets eviction by size. Rate limiter: the clock runs through several
windows and stale periods under a block that outlasts them, both the map and the
event store fill up, and with limits of two a deque holds two stamps, which two
workers store out of order. Bandwidth: two transfers overlap in every step of
load, swap, wait and stop, and each asks for more than a quantum. Log: four lines overrun a queue of two, three days roll
over twice with retention of two. Metrics: every bucket is recycled while the
other worker or a snapshot is at any of its steps, and total and bucket reach
the largest number. Server: two connections on one worker, or on two, cover a
request that is stuck behind another's wait; restarts are unbounded. Requests:
the digits reach beyond the width, sizes go through zero and below what a client
already has, and a copy is resumed at every byte; the largest unsigned number
is 15, so that no file is near it, as in the program.

Deadlock is checked in every run but `server`, where the process ends after
`Meta_Detach`: elsewhere the environment can always move except at the bounds,
where the clock and the versions end but starts, stops and requests go on.

### What the violation runs show

* `bandwidth_wakeup`: `stop()` notifies without `waitMutex_`; a transfer between
  its predicate and its sleep is not woken and sleeps to its deadline
  (`AcquireReturns` shows that it does return then).
* `logger_write_fault`: after a failing write the file is not reopened until the
  date changes, the effect the comment in `run()` wants to avoid.

### Fairness

`CompressionCache`: weak fairness of the worker thread (the operating system
schedules it) and of `join()` returning once it has exited. `JobsComplete` also
assumes that builds stop being requested, because they have priority. Nothing is
assumed of HTTP workers, the game thread, content changes or faults.
`BandwidthLimiter`: threads inside `acquire()` are scheduled and time passes. A
spurious failure of the compare-and-swap changes nothing and is not a step; a
real one means that another transfer has reserved, which happens finitely often
because no call begins after the horizon. (Unbounded contention of other
transfers could in principle starve one; the horizon excludes it.)
`AsyncLogger`: the drain thread and the join.
`Plugin` (`GameGoesOn`): the game thread runs; a content reader returns from
`acquire()`, which is `AcquireReturns` of the bandwidth limiter; and strong
fairness of a worker leaving its loop, because it tests the shutdown flag in
every round between two calls of a reader, so that it cannot be kept busy by its
connections for ever. Nothing is assumed of clients.

### Met on the way, without a run

* A lookup that saw a miss can enqueue after the same identity was published; it
  is compressed and counted once more, although README.md says that concurrent
  misses collapse into one job. `DiskWithinBudget` holds in spite of that.
* On Windows an artifact that is being sent cannot be removed; it is taken off
  the count and outlives the transfer until the next maintenance.
* `serveFile()` checks the range against the new size before it looks at
  `If-Range`, so that a resumption of a file that has become shorter gets 416,
  not the complete file.
* A path through a file (`/maps/a.bsp/x`) is an I/O error to `canonical()`, so the
  answer is 500 and a counted failure.
* A loss the log counts after its last batch is not reported at shutdown
  (`LossAccounted` is stated while the thread runs).
* A directory listing that fails resets the cache's counters to zero although
  artifacts are on disk; `cache_budget` therefore runs without disk faults.
* A header that is too long counts as absent. For `Range` that is what the tests
  expect; for `If-Range` it means that the range beside it is honoured without
  the condition.

## Proofs

Every invariant, action property and refinement that a passing run checks is
also a theorem, for every value of the constants its module's assumption allows;
`PROJECT.json` lists them. Each proof has the same shape: an inductive invariant
made of named parts, one lemma per action or group of actions that it is kept,
one that it implies the property. The invariants were checked with TLC on the
runs' instances before they were proved.

| Module | Invariant | Why the property alone is not inductive |
|---|---|---|
| `CompressionCacheProofs` | `HeldOK`, `ReadOK`, `ServiceOK`, `DirectoryOK` | below |
| `RateLimiterProofs` | `LimiterInv`, `Recorded` | Rejections need that every stored stamp stands for an admission, and that a stamp is at most `lag` newer than any stored behind it: what `trim()` keeps is then out of the window by no more than that. The window bound needs that stamps of an address are sorted, that what is stored of a window is what was admitted in it, and that a client is swept only when its window is over. Unknown addresses hold nothing, so that the counter is a sum over known ones. |
| `BandwidthLimiterProofs` | `BandwidthInv` | The rate needs the units that are reserved and not yet granted: what is booked costs no more than the time the bucket has been pushed ahead, and what falls due by any later time costs no more than the rate, the burst and a quantum allow by then. |
| `AsyncLoggerProofs` | `LoggerInv` | Losses need where the thread holds lines and counts, and what a thread that exits takes along; order needs bounds between file, batch and queue; retention needs what the last purge left. |
| `TransferMetricsProofs` | `MetricsInv` | Between the test and the addition nobody recycles the bucket (from `MaxLag < Window`); a snapshot has counted no more than was reported in the buckets it has passed. |
| `PluginProofs` | `PluginInv` | Balances need how many requests each connection may still add and the order of `stop()`; the URL needs where the game thread is. |
| `DownloadProofs` | `DownloadInv` | A resumed copy stays whole because the conditions of the request are about the copy the client still has, and a copy is the beginning of one representation. |

The cache, in the order of its module:

* `CacheTyped` needs `HeldOK`: inside `compress()` the job is an identity, while
  waiting or scanning there is none.
* `CacheFaithful` needs `ReadOK`: while reading, a foreign block implies that
  the source has moved past the job's version, so that the second inspection
  fails; after it only the job's own version has been read.
* `PendingStaysExact` is inductive with the types.
* `SkipsAreJustified` and `CacheImplementsStore` need `ServiceOK`: a marker names
  a budget under which its source is not worth compressing, and so will the one
  being written; what is about to be published has been read from a version
  there was; a request has a body only while it is served, and none runs while
  the cache stops. A step maps to the store as follows: the rename of the `.gz`
  publishes; removing, evicting and withdrawing withdraw; opening the source
  asks, opening the cached file sends, the end of a lookup or of a transfer
  finishes; everything else changes nothing the store shows.
* `BudgetHolds` and `DirectoryStaysTidy` need `DirectoryOK`: modification times
  order the artifacts totally, so that `maintainCache()` finds an oldest one and
  what it leaves fits the budget (`PruneFits`); during a walk whatever is not yet
  in order is still to be visited; between walks only the job's own files are
  out of step, the counters cover all artifacts but the one being published,
  and an artifact fits the budget, so that no marker can stand beside it. These
  two assume `FaultFree` (no disk faults, open files can be removed), as the run
  `cache_budget` does: a listing that fails resets the counters, and a pinned
  artifact outlives its metadata.

Assumptions on constants are those of the `ASSUME`s, which TLC evaluates on the
instances. Besides types and finiteness: limits that `readConfig()` keeps above
zero are; `Window <= StaleAfter` (one minute and fifteen in `rate_limiter.cpp`); a bucket's burst is at least a quantum (`configure()` sees to
it); `MaxLag < Window`, the one about timing; later versions of a file have later
seconds; `TreeIsCanonical`, that `canonical()` returns a path whose first
component is a real directory and canonical itself; and `Decimal`, that the
client writes numbers in decimal. `WindowBound` and `BlockHolds` themselves
exclude calls that took the mutex out of the order of their clock readings.

Induction over data is done with explicit sets: `SubsetInduction` (the finite
sets that have a property) and `UpToInduction` (the numbers up to a bound) are
proved once in `SumTheorems` and applied to a named set instead of an operator.
From them come the sums, the largest and smallest element of a finite set, the
oldest of a set of artifacts, and `ParseUnsignedExact`: for every sequence of
digits `parseUnsigned()` returns their value if it fits the width and fails
otherwise.

Only model-checked, because liveness under fairness and `ENABLED` are outside the
prover's reach: `StopCompletes`, `BuildServed`, `JobsComplete`, `AcquireReturns`,
`StopReturns`, `GameGoesOn`. The two violation runs are counterexamples and have
nothing to prove.

## Not modelled

`config_parser.cpp` is stateless text processing, character by character. Of
`meta_plugin.cpp` the printed status and statistics, the table of console
variables, the text of the generated configuration file and the conversion of
settings to numbers are left out; of `secure_file.cpp` the difference between the
two operating systems. In `fastdl_server.cpp`: header and log formatting, the
spelling of dates and quality values, content types, the connection limits that
libmicrohttpd enforces. Vendored libmicrohttpd and miniz, tests and CI are not
part of the models. Equal modification times of two artifacts, the exception a
directory iterator may throw, clock or size arithmetic near 2^63, files rewritten
in place while they are sent, and links that change between `canonical()` and
`open()` are not modelled. Hazards that are not covered are listed in
`PROJECT.json` with the reason.

## Plan and state of the work

Done: the models of all components with state, the runs, the abstract store, and
proofs of every safety property and of the refinement. Left for later: a bound on
how far the cache's counters and directory can drift when disk operations fail or
open files are pinned, and a bound on the admissions of a window and on the length
of a block when calls of the rate limiter are overtaken, as there is for its
rejections; both need properties that are weaker than the ones checked now.
