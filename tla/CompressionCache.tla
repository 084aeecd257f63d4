-------------------------- MODULE CompressionCache --------------------------
(***************************************************************************)
(* The gzip representation cache of src/src/compression_cache.cpp: HTTP    *)
(* workers look representations up and queue misses, one worker thread     *)
(* compresses, publishes, prunes and rebuilds, the game thread starts and  *)
(* stops the cache and asks for builds, and outside the program the        *)
(* content files change while all of this runs.                            *)
(*                                                                         *)
(* A source identity (path, size, modification stamp, file id) is a file   *)
(* and a version of it; versions never come back.  The cache key is a      *)
(* 128-bit hash of the identity: the model uses the identity itself, which *)
(* assumes that no two identities collide.  File content is abstracted to  *)
(* the set of source versions whose bytes went into it.                    *)
(***************************************************************************)
EXTENDS Integers, Sequences, FiniteSets, FiniteSetsExt, Sums

CONSTANTS
    Files,                \* paths the resolver may serve
    MaxVersion,           \* bound: how often a source may change
    Threads,              \* libmicrohttpd workers
    MaximumQueuedJobs,    \* kMaximumQueuedJobs
    MaximumCacheEntries,  \* kMaximumCacheEntries
    SourceSize,           \* bytes of every version of every file
    CompressedSize,       \* bytes of its gzip form
    CompressibleFiles,    \* files whose extension is in eligible()'s list
    Budgets,              \* values fastdl_gzip_cache_max_mb may give maxBytes_
    DiskFaults,           \* may writes, renames and directory listings fail?
    PinsOpenFiles,        \* Windows: an open file is neither removed nor replaced
    NoJob                 \* "the worker holds no job"

Versions == 1..MaxVersion

\* sourceIdentity(), and cacheKey() of it.
Identities == Files \X Versions

ASSUME CacheConstants ==
    /\ IsFiniteSet(Files)
    /\ MaxVersion \in Nat \ {0}
    /\ MaximumQueuedJobs \in Nat \ {0}
    /\ MaximumCacheEntries \in Nat \ {0}
    /\ SourceSize \in [Identities -> Nat]
    /\ CompressedSize \in [Identities -> Nat]
    /\ CompressibleFiles \subseteq Files
    /\ Budgets \subseteq Nat \ {0}
    /\ DiskFaults \in BOOLEAN
    /\ PinsOpenFiles \in BOOLEAN
    /\ NoJob \notin Identities

VARIABLES
    version, present,                          \* the content tree
    gz, metas, skip, temps, older,             \* the cache directory
    stopping, buildRequested, jobs, pending,   \* under mutex_
    entries, bytes, maxBytes,                  \* counters and budget
    wpc, job, blocks, removedSize, walk, kept, scan, scanning, \* the worker thread
    hpc, hid, body                             \* the HTTP workers

source   == <<version, present>>
disk     == <<gz, metas, skip, temps, older>>
queue    == <<stopping, buildRequested, jobs, pending>>
counters == <<entries, bytes, maxBytes>>
task     == <<job, blocks, removedSize>>
walking  == <<walk, kept>>
building == <<scan, scanning>>
worker   == <<wpc, task, walking, building>>
http     == <<hpc, hid, body>>
vars     == <<source, disk, queue, counters, worker, http>>

TempKinds == {"gz.tmp", "meta.tmp", "skip.tmp"}
Suffixes  == TempKinds \cup {"gz", "meta", "skip"}

\* Where the worker thread is: run(), maintainCache(), scanAndBuild() and the
\* file-system steps of compress(), in the order of the code.
WorkerPCs == {"down", "begin", "walk", "wait", "scan", "open", "read", "mark",
              "mvskip", "meta", "dropgz", "mvgz", "dropmeta", "mvmeta",
              "record", "finish", "exited"}

\* Where an HTTP worker is inside serveFile()'s gzip branch and lookup().
HttpPCs == {"idle", "meta", "size", "open", "miss", "enqueue", "serving"}

TypeOK ==
    /\ version \in [Files -> Versions]
    /\ present \subseteq Files
    /\ gz \in [Identities -> SUBSET Versions]
    /\ metas \subseteq Identities
    /\ skip \in [Identities -> Budgets \cup {0}]
    /\ temps \subseteq TempKinds \X Identities
    /\ older \subseteq Identities \X Identities
    /\ stopping \in BOOLEAN
    /\ buildRequested \in BOOLEAN
    /\ jobs \in Seq(Identities)
    /\ pending \subseteq Identities
    /\ entries \in Nat
    /\ bytes \in Nat
    /\ maxBytes \in Budgets \cup {0}
    /\ wpc \in WorkerPCs
    /\ job \in Identities \cup {NoJob}
    /\ blocks \subseteq Versions
    /\ removedSize \in Nat
    /\ walk \subseteq Suffixes \X Identities
    /\ kept \subseteq Identities
    /\ scan \subseteq Files
    /\ scanning \in BOOLEAN
    /\ hpc \in [Threads -> HttpPCs]
    /\ hid \in [Threads -> Identities \cup {NoJob}]
    /\ body \in [Threads -> SUBSET Versions]

-----------------------------------------------------------------------------
(* Helpers *)

\* The source file of identity k still exists and inspects to the same identity.
Current(k) == k[1] \in present /\ version[k[1]] = k[2]

\* eligible(): at least 1 KiB and a compressible extension.
Eligible(k) == k[1] \in CompressibleFiles /\ SourceSize[k] >= 1024

\* markerMatches(skip marker, skipIdentity()): the marker names the budget.
SkipMatchesAnyBudget(k) == skip[k] # 0
SkipMatches(k) == skip[k] = maxBytes

\* Both artifacts of k are in the directory: lookup() would hit.
Published(k) == k \in metas /\ gz[k] # {}

Artifacts == {k \in Identities : gz[k] # {}}
Total(S)  == SumOver(CompressedSize, S)

\* compress(): the result is larger than the whole budget or saves under 5%.
SkipPolicy(k) ==
    \/ CompressedSize[k] > maxBytes
    \/ CompressedSize[k] >= SourceSize[k] - SourceSize[k] \div 20

\* Windows only: a transfer holds the artifact of k open.
Pinned(k) == PinsOpenFiles /\ \E t \in Threads : hpc[t] = "serving" /\ hid[t] = k

\* removeRepresentation() of every key in S: errors of remove() are ignored.
Removable(S) == {k \in S : ~Pinned(k)}
Evict(S) ==
    /\ gz' = [k \in Identities |-> IF k \in Removable(S) THEN {} ELSE gz[k]]
    /\ metas' = metas \ S
    /\ older' = {p \in older : {p[1], p[2]} \cap Removable(S) = {}}

\* The least recently written artifact of S (files.top()).
Oldest(S) == CHOOSE k \in S : \A j \in S \ {k} : <<k, j>> \in older

\* What maintainCache() prunes of the kept artifacts S: nothing within the
\* budget, otherwise oldest first until at most 90% of it is left.
PruneTarget == maxBytes - maxBytes \div 10
PruneSet(S) ==
    IF Total(S) <= maxBytes THEN {}
    ELSE {k \in S : Total({k} \cup {j \in S : <<k, j>> \in older}) > PruneTarget}

\* The directory listing maintainCache() iterates over.
Listing == {e \in Suffixes \X Identities :
              \/ e \in temps
              \/ e[1] = "gz" /\ gz[e[2]] # {}
              \/ e[1] = "meta" /\ e[2] \in metas
              \/ e[1] = "skip" /\ skip[e[2]] # 0}

-----------------------------------------------------------------------------
(* The content tree: maps are replaced, removed and added by the operator. *)

Modify(f) ==
    /\ f \in present
    /\ version[f] < MaxVersion
    /\ version' = [version EXCEPT ![f] = @ + 1]
    /\ UNCHANGED <<present, disk, queue, counters, worker, http>>

Delete(f) ==
    /\ f \in present
    /\ present' = present \ {f}
    /\ UNCHANGED <<version, disk, queue, counters, worker, http>>

\* A new file at the path has a new file id and stamp.
Create(f) ==
    /\ f \notin present
    /\ version[f] < MaxVersion
    /\ present' = present \cup {f}
    /\ version' = [version EXCEPT ![f] = @ + 1]
    /\ UNCHANGED <<disk, queue, counters, worker, http>>

-----------------------------------------------------------------------------
(* The game thread *)

\* CompressionCache::start() that succeeds; a failing one leaves it stopped.
Start(m) ==
    /\ wpc = "down"
    /\ maxBytes' = m
    /\ entries' = 0
    /\ bytes' = 0
    /\ stopping' = FALSE
    /\ buildRequested' = FALSE
    /\ wpc' = "begin"
    /\ UNCHANGED <<source, disk, jobs, pending, task, walking, building, http>>

\* requestBuild(); a notify is implied, the worker's wait re-tests its predicate.
RequestBuild ==
    /\ ~stopping
    /\ buildRequested' = TRUE
    /\ UNCHANGED <<source, disk, stopping, jobs, pending, counters, worker, http>>

\* stop() up to the join.  FastdlServer::stop() has stopped the HTTP daemon
\* before, so that no request is being handled.
StopBegin ==
    /\ ~stopping
    /\ \A t \in Threads : hpc[t] = "idle"
    /\ stopping' = TRUE
    /\ UNCHANGED <<source, disk, buildRequested, jobs, pending, counters, worker,
                   http>>

\* stop() after the join.
StopEnd ==
    /\ wpc = "exited"
    /\ wpc' = "down"
    /\ jobs' = <<>>
    /\ pending' = {}
    /\ buildRequested' = FALSE
    /\ UNCHANGED <<source, disk, stopping, counters, task, walking, building, http>>

\* The server process dies: memory is lost, the directories stay.
Crash ==
    /\ wpc # "down"
    /\ stopping' = TRUE /\ buildRequested' = FALSE /\ jobs' = <<>> /\ pending' = {}
    /\ entries' = 0 /\ bytes' = 0 /\ maxBytes' = 0
    /\ wpc' = "down" /\ job' = NoJob /\ blocks' = {} /\ removedSize' = 0
    /\ walk' = {} /\ kept' = {} /\ scan' = {} /\ scanning' = FALSE
    /\ hpc' = [t \in Threads |-> "idle"]
    /\ hid' = [t \in Threads |-> NoJob]
    /\ body' = [t \in Threads |-> {}]
    /\ UNCHANGED <<source, disk>>

-----------------------------------------------------------------------------
(* HTTP workers: serveFile()'s gzip branch with lookup() inside it. *)

To(t, pc) == hpc' = [hpc EXCEPT ![t] = pc]

Release(t) ==
    /\ To(t, "idle")
    /\ hid' = [hid EXCEPT ![t] = NoJob]
    /\ body' = [body EXCEPT ![t] = {}]

\* The source is opened and inspected; from here on its identity is fixed.
OpenRemembered(t, f) ==
    /\ hpc[t] = "idle" /\ ~stopping /\ f \in present
    /\ Eligible(<<f, version[f]>>)
    /\ To(t, "meta")
    /\ \E v \in 1..version[f] : hid' = [hid EXCEPT ![t] = <<f, v>>]
    /\ UNCHANGED <<source, disk, queue, counters, worker, body>>
OpenSource(t, f) ==
    /\ hpc[t] = "idle"
    /\ ~stopping
    /\ f \in present
    /\ Eligible(<<f, version[f]>>)
    /\ To(t, "meta")
    /\ hid' = [hid EXCEPT ![t] = <<f, version[f]>>]
    /\ UNCHANGED <<source, disk, queue, counters, worker, body>>

\* markerMatches(metadataPath, identity)
CheckMeta(t) ==
    /\ hpc[t] = "meta"
    /\ To(t, IF hid[t] \in metas THEN "size" ELSE "miss")
    /\ UNCHANGED <<source, disk, queue, counters, worker, hid, body>>

\* regularArtifact(gzipPath) and its size
CheckGz(t) ==
    /\ hpc[t] = "size"
    /\ To(t, IF gz[hid[t]] # {} /\ CompressedSize[hid[t]] >= 18 THEN "open" ELSE "miss")
    /\ UNCHANGED <<source, disk, queue, counters, worker, hid, body>>

\* serveFile() opens and inspects the path lookup() returned: gone by now, or a
\* failure of either call, means identity.
OpenCached(t) ==
    /\ hpc[t] = "open"
    /\ \/ /\ gz[hid[t]] # {}
          /\ To(t, "serving")
          /\ body' = [body EXCEPT ![t] = gz[hid[t]]]
          /\ UNCHANGED hid
       \/ Release(t)
    /\ UNCHANGED <<source, disk, queue, counters, worker>>

\* The transfer of the representation ends.
EndTransfer(t) ==
    /\ hpc[t] = "serving"
    /\ Release(t)
    /\ UNCHANGED <<source, disk, queue, counters, worker>>

\* A miss: a skip marker written under the current budget ends the lookup.
CheckSkip(t) ==
    /\ hpc[t] = "miss"
    /\ \/ SkipMatches(hid[t]) /\ Release(t)
       \/ ~SkipMatches(hid[t]) /\ To(t, "enqueue") /\ UNCHANGED <<hid, body>>
    /\ UNCHANGED <<source, disk, queue, counters, worker>>

\* The critical section of enqueue(): the queue bound is tested before the
\* key is inserted into pending_.
PushInsertFirst(k) ==
    /\ jobs' = IF stopping \/ Len(jobs) >= MaximumQueuedJobs \/ k \in pending
               THEN jobs ELSE Append(jobs, k)
    /\ pending' = pending \cup {k}
Push(k) ==
    IF stopping \/ Len(jobs) >= MaximumQueuedJobs \/ k \in pending
    THEN UNCHANGED <<jobs, pending>>
    ELSE jobs' = Append(jobs, k) /\ pending' = pending \cup {k}

Enqueue(t) ==
    /\ hpc[t] = "enqueue"
    /\ Release(t)
    /\ Push(hid[t])
    /\ UNCHANGED <<source, disk, stopping, buildRequested, counters, worker>>

-----------------------------------------------------------------------------
(* The worker thread: run() *)

ExitWhenDrained == stopping /\ jobs = <<>>
ExitNow == stopping

WorkerExit ==
    /\ wpc = "wait"
    /\ ExitNow
    /\ wpc' = "exited"
    /\ UNCHANGED <<source, disk, queue, counters, task, walking, building, http>>

\* A build request is served before any queued job.
TakeBuild ==
    /\ wpc = "wait"
    /\ ~stopping
    /\ buildRequested
    /\ buildRequested' = FALSE
    /\ scanning' = TRUE
    /\ scan' = Files
    /\ wpc' = "begin"
    /\ UNCHANGED <<source, disk, stopping, jobs, pending, counters, task, walking,
                   http>>

TakeJob ==
    /\ wpc = "wait"
    /\ ~stopping
    /\ ~buildRequested
    /\ jobs # <<>>
    /\ job' = Head(jobs)
    /\ jobs' = Tail(jobs)
    /\ wpc' = "open"
    /\ UNCHANGED <<source, disk, stopping, buildRequested, pending, counters,
                   blocks, removedSize, walking, building, http>>

\* compress() has returned: the job leaves pending_.
Finish ==
    /\ wpc = "finish"
    /\ pending' = pending \ {job}
    /\ job' = NoJob
    /\ blocks' = {}
    /\ removedSize' = 0
    /\ wpc' = IF scanning THEN "scan" ELSE "wait"
    /\ UNCHANGED <<source, disk, stopping, buildRequested, jobs, counters,
                   walking, building, http>>

-----------------------------------------------------------------------------
(* The worker thread: maintainCache() *)

\* Who called maintainCache(): recordArtifact(), scanAndBuild() or run().
AfterMaintain == IF job # NoJob THEN "finish" ELSE IF scanning THEN "scan" ELSE "wait"

BeginWalk ==
    /\ wpc = "begin"
    /\ walk' = Listing
    /\ kept' = {}
    /\ wpc' = "walk"
    /\ UNCHANGED <<source, disk, queue, counters, task, building, http>>

\* The directory cannot be listed: the loop body never runs.
ListingFails ==
    /\ wpc = "begin"
    /\ DiskFaults
    /\ entries' = 0
    /\ bytes' = 0
    /\ wpc' = AfterMaintain
    /\ UNCHANGED <<source, disk, queue, maxBytes, task, walking, building, http>>

\* stopping() is tested before each entry; the counters keep their old values.
AbortWalk ==
    /\ wpc = "walk"
    /\ stopping
    /\ walk # {}
    /\ walk' = {}
    /\ kept' = {}
    /\ wpc' = AfterMaintain
    /\ UNCHANGED <<source, disk, queue, counters, task, building, http>>

Visit(e) ==
    /\ wpc = "walk"
    /\ ~stopping
    /\ e \in walk
    /\ walk' = walk \ {e}
    /\ UNCHANGED <<source, queue, counters, wpc, task, building, http>>

VisitTemp(e) ==
    /\ e[1] \in TempKinds
    /\ Visit(e)
    /\ temps' = temps \ {e}
    /\ UNCHANGED <<gz, metas, skip, older, kept>>

\* markerCurrent(path, true): the marker is about the current identity and budget.
VisitSkip(e) ==
    /\ e[1] = "skip"
    /\ Visit(e)
    /\ skip' = [skip EXCEPT ![e[2]] = IF Current(e[2]) /\ SkipMatches(e[2]) THEN @ ELSE 0]
    /\ UNCHANGED <<gz, metas, temps, older, kept>>

\* A .meta without its .gz is removed.
OrphansKept(k) == FALSE
Orphaned(k) == gz[k] = {}

VisitMeta(e) ==
    /\ e[1] = "meta"
    /\ Visit(e)
    /\ metas' = IF Orphaned(e[2]) THEN metas \ {e[2]} ELSE metas
    /\ UNCHANGED <<gz, skip, temps, older, kept>>

\* A representation without a current marker goes; of the others the
\* MaximumCacheEntries newest stay.
VisitGz(e) ==
    LET k == e[2]
        valid == k \in metas /\ Current(k) /\ CompressedSize[k] >= 18
        full == Cardinality(kept) >= MaximumCacheEntries
    IN /\ e[1] = "gz"
       /\ Visit(e)
       /\ \/ /\ gz[k] = {} \/ ~valid
             /\ Evict({k})
             /\ UNCHANGED kept
          \/ /\ gz[k] # {} /\ valid /\ ~full
             /\ kept' = kept \cup {k}
             /\ UNCHANGED <<gz, metas, older>>
          \/ /\ gz[k] # {} /\ valid /\ full
             /\ IF <<Oldest(kept), k>> \in older
                THEN kept' = (kept \ {Oldest(kept)}) \cup {k} /\ Evict({Oldest(kept)})
                ELSE kept' = kept /\ Evict({k})
       /\ UNCHANGED <<skip, temps>>

\* Prune to the budget and store the counters.
EndWalk ==
    /\ wpc = "walk"
    /\ walk = {}
    /\ Evict(PruneSet(kept))
    /\ entries' = Cardinality(kept \ PruneSet(kept))
    /\ bytes' = Total(kept \ PruneSet(kept))
    /\ kept' = {}
    /\ wpc' = AfterMaintain
    /\ UNCHANGED <<source, skip, temps, queue, maxBytes, task, walk, building,
                   http>>

-----------------------------------------------------------------------------
(* The worker thread: scanAndBuild() *)

\* process(): what needs no work, or is already queued, is passed over.
ScanFile(f) ==
    LET k == <<f, version[f]>>
        needed == /\ f \in present
                  /\ Eligible(k)
                  /\ ~Published(k)
                  /\ ~SkipMatches(k)
                  /\ k \notin pending
    IN /\ wpc = "scan"
       /\ ~stopping
       /\ f \in scan
       /\ scan' = scan \ {f}
       /\ IF needed
          THEN /\ pending' = pending \cup {k}
               /\ job' = k
               /\ wpc' = "open"
          ELSE UNCHANGED <<pending, job, wpc>>
       /\ UNCHANGED <<source, disk, stopping, buildRequested, jobs, counters,
                      blocks, removedSize, walking, scanning, http>>

EndScanClearsRequest ==
    /\ wpc = "scan" /\ wpc' = "wait"
    /\ stopping \/ scan = {}
    /\ scan' = {} /\ scanning' = FALSE /\ buildRequested' = FALSE
    /\ UNCHANGED <<source, disk, stopping, jobs, pending, counters, task, walking,
                   http>>
EndScan ==
    /\ wpc = "scan" /\ wpc' = "wait"
    /\ stopping \/ scan = {}
    /\ scan' = {} /\ scanning' = FALSE
    /\ UNCHANGED <<source, disk, queue, counters, task, walking, http>>

-----------------------------------------------------------------------------
(* The worker thread: compress(job) *)

TempsOf(k) == TempKinds \X {k}

\* The counters stop at zero.
CountDownWraps(a, b) == a - b
CountDown(a, b) == IF b >= a THEN 0 ELSE a - b

\* Frame of the steps of compress() that touch only the directory.
CompressStep(from, to) ==
    /\ wpc = from
    /\ wpc' = to
    /\ UNCHANGED <<source, queue, maxBytes, job, walking, building, http>>

\* The source is opened and must still have the job's identity; stale
\* temporaries are removed and the .gz.tmp is created.
CompressOpen ==
    \/ /\ CompressStep("open", "finish")
       /\ ~Current(job)
       /\ UNCHANGED <<disk, entries, bytes, blocks, removedSize>>
    \/ /\ CompressStep("open", "finish")
       /\ Current(job) /\ DiskFaults
       /\ temps' = temps \ TempsOf(job)
       /\ UNCHANGED <<gz, metas, skip, older, entries, bytes, blocks, removedSize>>
    \/ /\ CompressStep("open", "read")
       /\ Current(job)
       /\ temps' = (temps \ TempsOf(job)) \cup {<<"gz.tmp", job>>}
       /\ UNCHANGED <<gz, metas, skip, older, entries, bytes, blocks, removedSize>>

\* One block: the opened file may since have been rewritten in place, or
\* replaced, in which case the descriptor still reads the old bytes.
CompressRead ==
    /\ CompressStep("read", "read")
    /\ ~stopping
    /\ \E v \in {job[2], version[job[1]]} : blocks' = blocks \cup {v}
    /\ UNCHANGED <<disk, entries, bytes, removedSize>>

\* stopping_, a short read, or a failed write: the temporary is removed.
CompressAbort ==
    /\ CompressStep("read", "finish")
    /\ stopping \/ DiskFaults \/ ~Current(job)
    /\ temps' = temps \ {<<"gz.tmp", job>>}
    /\ UNCHANGED <<gz, metas, skip, older, entries, bytes, blocks, removedSize>>

\* The second inspectReadFile() of compress(), compared with the first.
NotInspectedAgain == TRUE
SourceUnchanged == Current(job)

\* All blocks are written; the source is inspected again before anything is
\* published, and the policy decides between a skip marker and an artifact.
Inspect ==
    /\ blocks # {}
    /\ \/ /\ CompressStep("read", "finish")
          /\ ~SourceUnchanged
          /\ temps' = temps \ {<<"gz.tmp", job>>}
       \/ /\ CompressStep("read", "finish")
          /\ SourceUnchanged /\ DiskFaults
          /\ UNCHANGED temps
       \/ /\ CompressStep("read", IF SkipPolicy(job) THEN "mark" ELSE "meta")
          /\ SourceUnchanged
          /\ UNCHANGED temps
    /\ UNCHANGED <<gz, metas, skip, older, entries, bytes, blocks, removedSize>>

\* Skip branch: everything stored for the key goes, .skip.tmp is written.
MarkSkip ==
    /\ \/ CompressStep("mark", "mvskip")
          /\ temps' = (temps \ {<<"gz.tmp", job>>}) \cup {<<"skip.tmp", job>>}
       \/ CompressStep("mark", "finish") /\ DiskFaults
          /\ temps' = temps \ {<<"gz.tmp", job>>, <<"skip.tmp", job>>}
    /\ Evict({job})
    /\ removedSize' = IF gz[job] # {} THEN CompressedSize[job] ELSE 0
    /\ UNCHANGED <<skip, entries, bytes, blocks>>

\* The marker replaces an older one; a removed artifact leaves the counters.
MoveSkip ==
    /\ \/ /\ CompressStep("mvskip", "finish")
          /\ temps' = temps \ {<<"skip.tmp", job>>}
          /\ skip' = [skip EXCEPT ![job] = maxBytes]
          /\ entries' = IF removedSize = 0 THEN entries ELSE CountDown(entries, 1)
          /\ bytes' = CountDown(bytes, removedSize)
       \/ /\ CompressStep("mvskip", "finish") /\ DiskFaults
          /\ skip' = [skip EXCEPT ![job] = 0]
          /\ UNCHANGED <<temps, entries, bytes>>
    /\ UNCHANGED <<gz, metas, older, blocks, removedSize>>

\* The metadata temporary is written in full before anything is replaced.
WriteMeta ==
    /\ \/ /\ CompressStep("meta", "dropgz")
          /\ temps' = temps \cup {<<"meta.tmp", job>>}
       \/ /\ CompressStep("meta", "finish") /\ DiskFaults
          /\ temps' = temps \ {<<"gz.tmp", job>>, <<"meta.tmp", job>>}
    /\ UNCHANGED <<gz, metas, skip, older, entries, bytes, blocks, removedSize>>

DropGz ==
    /\ CompressStep("dropgz", "mvgz")
    /\ gz' = [gz EXCEPT ![job] = IF Pinned(job) THEN @ ELSE {}]
    /\ older' = {p \in older : Pinned(job) \/ job \notin {p[1], p[2]}}
    /\ UNCHANGED <<metas, skip, temps, entries, bytes, blocks, removedSize>>

\* rename(gzipTemp, gzipPath); on failure the temporaries stay behind.
MoveGz ==
    /\ \/ /\ CompressStep("mvgz", "dropmeta")
          /\ ~Pinned(job)
          /\ gz' = [gz EXCEPT ![job] = blocks]
          /\ temps' = temps \ {<<"gz.tmp", job>>}
          /\ older' = {p \in older : job \notin {p[1], p[2]}}
                      \cup ((Artifacts \ {job}) \X {job})
       \/ /\ CompressStep("mvgz", "finish")
          /\ DiskFaults \/ Pinned(job)
          /\ UNCHANGED <<gz, temps, older>>
    /\ UNCHANGED <<metas, skip, entries, bytes, blocks, removedSize>>

DropMeta ==
    /\ CompressStep("dropmeta", "mvmeta")
    /\ metas' = metas \ {job}
    /\ UNCHANGED <<gz, skip, temps, older, entries, bytes, blocks, removedSize>>

\* rename(metadataTemp, metadataPath); on failure the artifact is withdrawn.
MoveMeta ==
    /\ \/ /\ CompressStep("mvmeta", "record")
          /\ metas' = metas \cup {job}
          /\ temps' = temps \ {<<"meta.tmp", job>>}
          /\ UNCHANGED <<gz, older>>
       \/ /\ CompressStep("mvmeta", "finish") /\ DiskFaults
          /\ Evict({job})
          /\ UNCHANGED temps
    /\ UNCHANGED <<skip, entries, bytes, blocks, removedSize>>

\* recordArtifact(): the new totals call for maintenance.
OverEntriesOnly == entries + 1 > MaximumCacheEntries
OverLimits ==
    entries + 1 > MaximumCacheEntries \/ bytes + CompressedSize[job] > maxBytes

\* The skip marker goes and the artifact is counted.
Record ==
    /\ CompressStep("record", IF OverLimits THEN "begin" ELSE "finish")
    /\ skip' = [skip EXCEPT ![job] = 0]
    /\ entries' = entries + 1
    /\ bytes' = bytes + CompressedSize[job]
    /\ UNCHANGED <<gz, metas, temps, older, blocks, removedSize>>

-----------------------------------------------------------------------------

Init ==
    /\ version = [f \in Files |-> 1]
    /\ present = Files
    /\ gz = [k \in Identities |-> {}]
    /\ metas = {}
    /\ skip = [k \in Identities |-> 0]
    /\ temps = {}
    /\ older = {}
    /\ stopping = TRUE /\ buildRequested = FALSE /\ jobs = <<>> /\ pending = {}
    /\ entries = 0 /\ bytes = 0 /\ maxBytes = 0
    /\ wpc = "down" /\ job = NoJob /\ blocks = {} /\ removedSize = 0
    /\ walk = {} /\ kept = {} /\ scan = {} /\ scanning = FALSE
    /\ hpc = [t \in Threads |-> "idle"]
    /\ hid = [t \in Threads |-> NoJob]
    /\ body = [t \in Threads |-> {}]

Compress ==
    \/ CompressOpen \/ CompressRead \/ CompressAbort \/ Inspect
    \/ MarkSkip \/ MoveSkip
    \/ WriteMeta \/ DropGz \/ MoveGz \/ DropMeta \/ MoveMeta \/ Record

Maintain ==
    \/ BeginWalk \/ ListingFails \/ AbortWalk \/ EndWalk
    \/ \E e \in walk : VisitTemp(e) \/ VisitSkip(e) \/ VisitMeta(e) \/ VisitGz(e)

Worker ==
    \/ WorkerExit \/ TakeBuild \/ TakeJob \/ Finish
    \/ Maintain
    \/ \E f \in Files : ScanFile(f)
    \/ EndScan
    \/ Compress

Http(t) ==
    \/ \E f \in Files : OpenSource(t, f)
    \/ CheckMeta(t) \/ CheckGz(t) \/ OpenCached(t) \/ EndTransfer(t)
    \/ CheckSkip(t) \/ Enqueue(t)

Content == \E f \in Files : Modify(f) \/ Delete(f) \/ Create(f)

Game == (\E m \in Budgets : Start(m)) \/ RequestBuild \/ StopBegin \/ StopEnd

Next == Content \/ Game \/ Crash \/ (\E t \in Threads : Http(t)) \/ Worker

Spec == Init /\ [][Next]_vars

\* The worker thread is scheduled, and join() returns once it has exited.
FairSpec == Spec /\ WF_vars(Worker) /\ WF_vars(StopEnd)

-----------------------------------------------------------------------------
(* Properties *)

\* An artifact in the directory, with or without its metadata, holds bytes of
\* its own identity only, whatever happened to the source while it was being
\* compressed; and a gzip response sends exactly the version whose ETag it
\* carries.
RepresentationFaithful ==
    /\ \A k \in Identities : gz[k] \subseteq {k[2]}
    /\ \A t \in Threads : hpc[t] = "serving" => body[t] = {hid[t][2]}

\* pending_ is exactly the queued keys and the one being compressed, and no key
\* is there twice: a key that stayed behind would never be compressed again.
PendingExact ==
    /\ pending = Range(jobs) \cup ({job} \ {NoJob})
    /\ \A i, j \in DOMAIN jobs : jobs[i] = jobs[j] => i = j
    /\ job \notin Range(jobs)
    /\ Len(jobs) <= MaximumQueuedJobs

Idle == wpc = "wait" /\ ~stopping

\* Whenever the worker waits for work, the artifacts on disk are within the
\* counters (stale lookups may make it count one twice, never too few), and
\* the counters within both limits.
DiskWithinBudget == Idle =>
    /\ Total(Artifacts) <= bytes /\ bytes <= maxBytes
    /\ Cardinality(Artifacts) <= entries /\ entries <= MaximumCacheEntries

\* After a crash anywhere in compress() or maintainCache(), the next start
\* leaves no temporary, no artifact without metadata or the reverse, and no
\* skip marker beside an artifact.
DirectoryTidy == Idle =>
    /\ temps = {}
    /\ metas = Artifacts
    /\ \A k \in Artifacts : ~SkipMatches(k)

\* A lookup only gives up for good on a miss when compressing the source would
\* not pay under the budget in force, even if the marker is from another run.
SkipJustified ==
    [][\A t \in Threads : hpc[t] = "miss" /\ hpc'[t] = "idle" /\ ~stopping'
                            => SkipPolicy(hid[t])]_vars

Store == INSTANCE RepresentationStore
           WITH up <- wpc # "down", store <- gz, asked <- hid, sent <- body

\* The cache implements the store: every step of the worker, of a lookup and of
\* a crash is a step of the abstract specification or changes nothing it shows.
ImplementsStore == Store!Spec

\* stop() returns, wherever the worker was when it was asked to stop.
StopCompletes == (stopping /\ wpc # "down") ~> (wpc = "down")

\* A build requested at any moment, also during a build, gives a full scan.
BuildServed == buildRequested ~> (stopping \/ (scanning /\ scan = Files))

\* Once builds are no longer requested (they have priority over queued jobs), a
\* queued source that stays as it is gets its artifact or its skip marker.
JobsComplete ==
    <>[]~buildRequested =>
      \A k \in Identities :
        (k \in pending) ~> (Published(k) \/ SkipMatches(k) \/ ~Current(k) \/ stopping)
=============================================================================
