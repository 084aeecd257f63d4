----------------------- MODULE CompressionCacheProofs -----------------------
(***************************************************************************)
(* Proofs about CompressionCache for any number of files, versions, HTTP   *)
(* workers, any limits and budgets, with and without disk faults, on POSIX *)
(* and Windows; only the last part, the limits and the tidiness of the     *)
(* directory, is about disks without faults where open files can be        *)
(* removed.                                                                *)
(***************************************************************************)
EXTENDS CompressionCache, SumTheorems, SequenceTheorems

\* The steps of compress(), during which the worker holds a job.
Compressing == {"open", "read", "mark", "mvskip", "meta", "dropgz", "mvgz",
                "dropmeta", "mvmeta", "record", "finish"}

\* Who holds an identity when: the worker exactly inside compress() and the
\* maintenance it may end with, an HTTP worker during a request.
HeldOK ==
    /\ wpc \in Compressing => job \in Identities
    /\ wpc \in {"down", "wait", "scan", "exited"} => job = NoJob
    /\ \A t \in Threads : hpc[t] # "idle" => hid[t] \in Identities

\* TypeOK by the groups of variables an action leaves alone as a whole.
SourceTyped ==
    /\ version \in [Files -> Versions]
    /\ present \subseteq Files
DiskTyped ==
    /\ gz \in [Identities -> SUBSET Versions]
    /\ metas \subseteq Identities
    /\ skip \in [Identities -> Budgets \cup {0}]
    /\ temps \subseteq TempKinds \X Identities
    /\ older \subseteq Identities \X Identities
FlagsTyped ==
    /\ stopping \in BOOLEAN
    /\ buildRequested \in BOOLEAN
    /\ scanning \in BOOLEAN
QueueTyped ==
    /\ jobs \in Seq(Identities)
    /\ pending \subseteq Identities
    /\ maxBytes \in Budgets \cup {0}
WorkerTyped ==
    /\ wpc \in WorkerPCs
    /\ job \in Identities \cup {NoJob}
    /\ blocks \subseteq Versions
    /\ walk \subseteq Suffixes \X Identities
    /\ kept \subseteq Identities
    /\ scan \subseteq Files
HttpTyped ==
    /\ hpc \in [Threads -> HttpPCs]
    /\ hid \in [Threads -> Identities \cup {NoJob}]
    /\ body \in [Threads -> SUBSET Versions]
Typed ==
    /\ SourceTyped /\ DiskTyped /\ FlagsTyped /\ QueueTyped /\ WorkerTyped /\ HttpTyped
    /\ entries \in Nat
    /\ bytes \in Nat
    /\ removedSize \in Nat

LEMMA TypedIsTypeOK == Typed <=> TypeOK
  BY DEF Typed, TypeOK, SourceTyped, DiskTyped, FlagsTyped, QueueTyped, WorkerTyped,
         HttpTyped

LEMMA IdentitiesFinite == IsFiniteSet(Identities)
<1>1. IsFiniteSet(Versions)
  BY CacheConstants, FS_Interval DEF Versions
<1> QED BY <1>1, CacheConstants, FS_Product DEF Identities

LEMMA SizesTyped == \A k \in Identities : CompressedSize[k] \in Nat /\ SourceSize[k] \in Nat
  BY CacheConstants

LEMMA TotalTyped ==
  ASSUME NEW S, S \subseteq Identities
  PROVE  Total(S) \in Nat /\ \A R : R \subseteq S => Total(R) <= Total(S)
<1>1. IsFiniteSet(S) /\ \A k \in S : CompressedSize[k] \in Nat
  BY IdentitiesFinite, FS_Subset, SizesTyped
<1>2. Total(S) \in Nat
  BY <1>1, SumType DEF Total
<1>3. ASSUME NEW R, R \subseteq S PROVE Total(R) <= Total(S)
  <2>1. R \in SUBSET S
    BY <1>3
  <2> QED BY <1>1, <2>1, SumMonotone DEF Total
<1> QED BY <1>2, <1>3

LEMMA IdentityParts ==
  ASSUME NEW k \in Identities
  PROVE  k[1] \in Files /\ k[2] \in Versions
  BY DEF Identities

LEMMA ScannedIdentity ==
  ASSUME NEW f \in Files, TypeOK
  PROVE  <<f, version[f]>> \in Identities
  BY DEF Identities, TypeOK

LEMMA WalkParts ==
  ASSUME TypeOK, NEW e \in walk
  PROVE  e[1] \in Suffixes /\ e[2] \in Identities
  BY DEF TypeOK

LEMMA InitType == Init => TypeOK /\ HeldOK
<1> SUFFICES ASSUME Init PROVE TypeOK /\ HeldOK
  OBVIOUS
<1>1. 1 \in Versions
  BY CacheConstants DEF Versions
<1>2. HeldOK
  BY DEF Init, HeldOK, Compressing
<1>3. /\ version \in [Files -> Versions]
      /\ present \subseteq Files
      /\ gz \in [Identities -> SUBSET Versions]
      /\ metas \subseteq Identities
      /\ skip \in [Identities -> Budgets \cup {0}]
      /\ temps \subseteq TempKinds \X Identities
      /\ older \subseteq Identities \X Identities
  BY <1>1 DEF Init
<1>4. /\ stopping \in BOOLEAN
      /\ buildRequested \in BOOLEAN
      /\ scanning \in BOOLEAN
  BY DEF Init
<1>7. /\ jobs \in Seq(Identities)
      /\ pending \subseteq Identities
      /\ entries \in Nat
      /\ bytes \in Nat
      /\ maxBytes \in Budgets \cup {0}
  BY DEF Init
<1>5. /\ wpc \in WorkerPCs
      /\ job \in Identities \cup {NoJob}
      /\ blocks \subseteq Versions
      /\ removedSize \in Nat
      /\ walk \subseteq Suffixes \X Identities
      /\ kept \subseteq Identities
      /\ scan \subseteq Files
  BY DEF Init, WorkerPCs
<1>6. /\ hpc \in [Threads -> HttpPCs]
      /\ hid \in [Threads -> Identities \cup {NoJob}]
      /\ body \in [Threads -> SUBSET Versions]
  BY DEF Init, HttpPCs
<1> QED BY <1>2, <1>3, <1>4, <1>5, <1>6, <1>7 DEF TypeOK

-----------------------------------------------------------------------------

LEMMA ContentType == TypeOK /\ HeldOK /\ Content => Typed' /\ HeldOK'
<1> SUFFICES ASSUME TypeOK, HeldOK, NEW f \in Files, Modify(f) \/ Delete(f) \/ Create(f)
             PROVE  Typed' /\ HeldOK'
  BY DEF Content
<1> USE DEF disk, queue, counters, worker, task, walking, building, http
<1>1. SourceTyped'
  <2>1. version[f] \in Versions
    BY DEF TypeOK
  <2>2. version[f] < MaxVersion => version[f] + 1 \in Versions
    BY <2>1, CacheConstants DEF Versions
  <2> QED BY <2>2 DEF TypeOK, SourceTyped, Modify, Delete, Create
<1>2. DiskTyped' /\ QueueTyped' /\ entries' \in Nat /\ bytes' \in Nat /\ removedSize' \in Nat
  BY DEF TypeOK, DiskTyped, QueueTyped, Modify, Delete, Create
<1>3. FlagsTyped'
  BY DEF TypeOK, FlagsTyped, Modify, Delete, Create
<1>4. WorkerTyped' /\ HttpTyped'
  BY DEF TypeOK, WorkerTyped, HttpTyped, Modify, Delete, Create
<1>5. HeldOK'
  BY DEF HeldOK, Modify, Delete, Create
<1> QED BY <1>1, <1>2, <1>3, <1>4, <1>5 DEF Typed

LEMMA GameType == TypeOK /\ HeldOK /\ (Game \/ Crash) => Typed' /\ HeldOK'
<1> SUFFICES ASSUME TypeOK, HeldOK, Game \/ Crash PROVE Typed' /\ HeldOK'
  OBVIOUS
<1> USE DEF source, disk, queue, counters, worker, task, walking, building, http
<1>1. ASSUME NEW m \in Budgets, Start(m) PROVE Typed' /\ HeldOK'
  <2>1. SourceTyped' /\ DiskTyped' /\ HttpTyped'
    BY <1>1 DEF Start, TypeOK, SourceTyped, DiskTyped, HttpTyped
  <2>2. QueueTyped' /\ WorkerTyped' /\ entries' \in Nat /\ bytes' \in Nat /\ removedSize' \in Nat
    BY <1>1 DEF Start, TypeOK, QueueTyped, WorkerTyped, WorkerPCs
  <2>3. FlagsTyped'
    BY <1>1 DEF Start, TypeOK, FlagsTyped
  <2>4. HeldOK'
    BY <1>1 DEF Start, HeldOK, Compressing
  <2> QED BY <2>1, <2>2, <2>3, <2>4 DEF Typed
<1>2. ASSUME RequestBuild \/ StopBegin PROVE Typed' /\ HeldOK'
  <2>1. SourceTyped' /\ DiskTyped' /\ HttpTyped'
    BY <1>2 DEF RequestBuild, StopBegin, TypeOK, SourceTyped, DiskTyped, HttpTyped
  <2>2. QueueTyped' /\ WorkerTyped' /\ entries' \in Nat /\ bytes' \in Nat /\ removedSize' \in Nat
    BY <1>2 DEF RequestBuild, StopBegin, TypeOK, QueueTyped, WorkerTyped
  <2>3. FlagsTyped'
    BY <1>2 DEF RequestBuild, StopBegin, TypeOK, FlagsTyped
  <2>4. HeldOK'
    BY <1>2 DEF RequestBuild, StopBegin, HeldOK
  <2> QED BY <2>1, <2>2, <2>3, <2>4 DEF Typed
<1>3. ASSUME StopEnd PROVE Typed' /\ HeldOK'
  <2>1. SourceTyped' /\ DiskTyped' /\ HttpTyped'
    BY <1>3 DEF StopEnd, TypeOK, SourceTyped, DiskTyped, HttpTyped
  <2>2. QueueTyped' /\ WorkerTyped' /\ entries' \in Nat /\ bytes' \in Nat /\ removedSize' \in Nat
    BY <1>3 DEF StopEnd, TypeOK, QueueTyped, WorkerTyped, WorkerPCs
  <2>3. FlagsTyped'
    BY <1>3 DEF StopEnd, TypeOK, FlagsTyped
  <2>4. HeldOK'
    BY <1>3 DEF StopEnd, HeldOK, Compressing
  <2> QED BY <2>1, <2>2, <2>3, <2>4 DEF Typed
<1>4. ASSUME Crash PROVE Typed' /\ HeldOK'
  <2>1. SourceTyped' /\ DiskTyped'
    BY <1>4 DEF Crash, TypeOK, SourceTyped, DiskTyped
  <2>2. QueueTyped' /\ WorkerTyped' /\ entries' \in Nat /\ bytes' \in Nat /\ removedSize' \in Nat
    BY <1>4 DEF Crash, QueueTyped, WorkerTyped, WorkerPCs
  <2>3. FlagsTyped'
    BY <1>4 DEF Crash, FlagsTyped
  <2>4. HttpTyped'
    BY <1>4 DEF Crash, HttpTyped, HttpPCs
  <2>5. HeldOK'
    BY <1>4 DEF Crash, HeldOK, Compressing
  <2> QED BY <2>1, <2>2, <2>3, <2>4, <2>5 DEF Typed
<1> QED BY <1>1, <1>2, <1>3, <1>4 DEF Game

\* What every HTTP step but the critical section of enqueue() leaves alone.
LEMMA HttpFrame ==
  ASSUME TypeOK, HeldOK, HttpTyped', UNCHANGED <<source, disk, counters, worker>>,
         UNCHANGED <<stopping, buildRequested>>, jobs' \in Seq(Identities),
         pending' \subseteq Identities,
         \A t \in Threads : hpc'[t] # "idle" => hid'[t] \in Identities
  PROVE  Typed' /\ HeldOK'
<1> USE DEF source, disk, counters, worker, task, walking, building
<1>1. SourceTyped' /\ DiskTyped'
  BY DEF TypeOK, SourceTyped, DiskTyped
<1>2. QueueTyped' /\ WorkerTyped' /\ entries' \in Nat /\ bytes' \in Nat /\ removedSize' \in Nat
  BY DEF TypeOK, QueueTyped, WorkerTyped
<1>3. FlagsTyped'
  BY DEF TypeOK, FlagsTyped
<1>4. HeldOK'
  BY DEF HeldOK
<1> QED BY <1>1, <1>2, <1>3, <1>4 DEF Typed

LEMMA HttpType ==
  ASSUME TypeOK, HeldOK, NEW t \in Threads, Http(t) PROVE Typed' /\ HeldOK'
<1> DEFINE Held == \A u \in Threads : hpc'[u] # "idle" => hid'[u] \in Identities
<1> USE DEF To, Release, HttpPCs
<1>1. ASSUME NEW f \in Files, OpenSource(t, f) PROVE Typed' /\ HeldOK'
  <2>1. <<f, version[f]>> \in Identities
    BY ScannedIdentity
  <2>2. HttpTyped' /\ Held
    BY <1>1, <2>1 DEF OpenSource, TypeOK, HeldOK, HttpTyped
  <2> QED BY <1>1, <2>2, HttpFrame DEF OpenSource, queue, TypeOK
<1>2. CASE CheckMeta(t)
  <2>1. HttpTyped' /\ Held
    BY <1>2 DEF CheckMeta, TypeOK, HeldOK, HttpTyped
  <2> QED BY <1>2, <2>1, HttpFrame DEF CheckMeta, queue, TypeOK
<1>3. CASE CheckGz(t)
  <2>1. HttpTyped' /\ Held
    BY <1>3 DEF CheckGz, TypeOK, HeldOK, HttpTyped
  <2> QED BY <1>3, <2>1, HttpFrame DEF CheckGz, queue, TypeOK
<1>4. CASE OpenCached(t)
  <2>1. HttpTyped' /\ Held
    BY <1>4 DEF OpenCached, TypeOK, HeldOK, HttpTyped
  <2> QED BY <1>4, <2>1, HttpFrame DEF OpenCached, queue, TypeOK
<1>5. CASE EndTransfer(t)
  <2>1. HttpTyped' /\ Held
    BY <1>5 DEF EndTransfer, TypeOK, HeldOK, HttpTyped
  <2> QED BY <1>5, <2>1, HttpFrame DEF EndTransfer, queue, TypeOK
<1>6. CASE CheckSkip(t)
  <2>1. HttpTyped' /\ Held
    BY <1>6 DEF CheckSkip, TypeOK, HeldOK, HttpTyped
  <2> QED BY <1>6, <2>1, HttpFrame DEF CheckSkip, queue, TypeOK
<1>7. CASE Enqueue(t)
  <2>1. HttpTyped' /\ Held
    BY <1>7 DEF Enqueue, TypeOK, HeldOK, HttpTyped
  <2>2. hid[t] \in Identities
    BY <1>7 DEF Enqueue, HeldOK
  <2>3. jobs' \in Seq(Identities) /\ pending' \subseteq Identities
    <3>1. CASE UNCHANGED <<jobs, pending>>
      BY <3>1 DEF TypeOK
    <3>2. CASE jobs' = Append(jobs, hid[t]) /\ pending' = pending \cup {hid[t]}
      BY <2>2, <3>2 DEF TypeOK
    <3> QED BY <1>7, <3>1, <3>2 DEF Enqueue, Push
  <2> QED BY <1>7, <2>1, <2>3, HttpFrame DEF Enqueue
<1> QED BY <1>1, <1>2, <1>3, <1>4, <1>5, <1>6, <1>7 DEF Http

LEMMA EvictTyped ==
  ASSUME TypeOK, NEW S, Evict(S)
  PROVE  /\ gz' \in [Identities -> SUBSET Versions]
         /\ metas' \subseteq Identities
         /\ older' \subseteq Identities \X Identities
  BY DEF TypeOK, Evict

LEMMA WorkerFrame ==
  ASSUME TypeOK, HeldOK, UNCHANGED <<source, http>>,
         DiskTyped', FlagsTyped', QueueTyped', WorkerTyped',
         entries' \in Nat, bytes' \in Nat, removedSize' \in Nat,
         wpc' \in Compressing => job' \in Identities,
         wpc' \in {"down", "wait", "scan", "exited"} => job' = NoJob
  PROVE  Typed' /\ HeldOK'
<1> USE DEF source, http
<1>1. SourceTyped' /\ HttpTyped'
  BY DEF TypeOK, SourceTyped, HttpTyped
<1>2. HeldOK'
  BY DEF HeldOK
<1> QED BY <1>1, <1>2 DEF Typed

LEMMA RunType ==
  ASSUME TypeOK, HeldOK, WorkerExit \/ TakeBuild \/ TakeJob \/ Finish
  PROVE  Typed' /\ HeldOK'
<1> USE DEF disk, queue, counters, task, walking, building, WorkerPCs, Compressing
<1>1. CASE WorkerExit
  <2>1. DiskTyped' /\ QueueTyped' /\ entries' \in Nat /\ bytes' \in Nat /\ removedSize' \in Nat
    BY <1>1 DEF WorkerExit, TypeOK, DiskTyped, QueueTyped
  <2>2. FlagsTyped'
    BY <1>1 DEF WorkerExit, TypeOK, FlagsTyped
  <2>3. WorkerTyped' /\ wpc' = "exited" /\ job' = NoJob
    BY <1>1 DEF WorkerExit, TypeOK, HeldOK, WorkerTyped
  <2> QED BY <1>1, <2>1, <2>2, <2>3, WorkerFrame DEF WorkerExit
<1>2. CASE TakeBuild
  <2>1. DiskTyped' /\ QueueTyped' /\ entries' \in Nat /\ bytes' \in Nat /\ removedSize' \in Nat
    BY <1>2 DEF TakeBuild, TypeOK, DiskTyped, QueueTyped
  <2>2. FlagsTyped'
    BY <1>2 DEF TakeBuild, TypeOK, FlagsTyped
  <2>3. WorkerTyped' /\ wpc' = "begin"
    BY <1>2 DEF TakeBuild, TypeOK, WorkerTyped
  <2> QED BY <1>2, <2>1, <2>2, <2>3, WorkerFrame DEF TakeBuild
<1>3. CASE TakeJob
  <2>1. Head(jobs) \in Identities /\ Tail(jobs) \in Seq(Identities)
    BY <1>3 DEF TakeJob, TypeOK
  <2>2. DiskTyped' /\ QueueTyped' /\ entries' \in Nat /\ bytes' \in Nat /\ removedSize' \in Nat
    BY <1>3, <2>1 DEF TakeJob, TypeOK, DiskTyped, QueueTyped
  <2>3. FlagsTyped'
    BY <1>3 DEF TakeJob, TypeOK, FlagsTyped
  <2>4. WorkerTyped' /\ wpc' = "open" /\ job' \in Identities
    BY <1>3, <2>1 DEF TakeJob, TypeOK, WorkerTyped
  <2> QED BY <1>3, <2>2, <2>3, <2>4, WorkerFrame DEF TakeJob
<1>4. CASE Finish
  <2>1. DiskTyped' /\ QueueTyped' /\ entries' \in Nat /\ bytes' \in Nat /\ removedSize' \in Nat
    BY <1>4 DEF Finish, TypeOK, DiskTyped, QueueTyped
  <2>2. FlagsTyped'
    BY <1>4 DEF Finish, TypeOK, FlagsTyped
  <2>3. WorkerTyped' /\ wpc' \in {"scan", "wait"} /\ job' = NoJob
    BY <1>4 DEF Finish, TypeOK, WorkerTyped
  <2> QED BY <1>4, <2>1, <2>2, <2>3, WorkerFrame DEF Finish
<1> QED BY <1>1, <1>2, <1>3, <1>4

\* Where maintainCache() returns to agrees with whether a job is held.
LEMMA ReturnsToCaller ==
  ASSUME TypeOK
  PROVE  /\ AfterMaintain \in {"finish", "scan", "wait"}
         /\ AfterMaintain = "finish" => job \in Identities
         /\ AfterMaintain # "finish" => job = NoJob
  BY DEF AfterMaintain, TypeOK

LEMMA WalkType ==
  ASSUME TypeOK, HeldOK, BeginWalk \/ ListingFails \/ AbortWalk \/ EndWalk
  PROVE  Typed' /\ HeldOK'
<1> USE DEF disk, queue, counters, task, walking, building, WorkerPCs, Compressing
<1>1. CASE BeginWalk
  <2>1. DiskTyped' /\ QueueTyped' /\ entries' \in Nat /\ bytes' \in Nat /\ removedSize' \in Nat
    BY <1>1 DEF BeginWalk, TypeOK, DiskTyped, QueueTyped
  <2>2. FlagsTyped'
    BY <1>1 DEF BeginWalk, TypeOK, FlagsTyped
  <2>3. WorkerTyped' /\ wpc' = "walk"
    BY <1>1 DEF BeginWalk, Listing, TypeOK, WorkerTyped
  <2> QED BY <1>1, <2>1, <2>2, <2>3, WorkerFrame DEF BeginWalk
<1>2. CASE ListingFails
  <2>1. DiskTyped' /\ QueueTyped' /\ entries' \in Nat /\ bytes' \in Nat /\ removedSize' \in Nat
    BY <1>2 DEF ListingFails, TypeOK, DiskTyped, QueueTyped
  <2>2. FlagsTyped'
    BY <1>2 DEF ListingFails, TypeOK, FlagsTyped
  <2>3. WorkerTyped' /\ wpc' = AfterMaintain /\ job' = job
    BY <1>2, ReturnsToCaller DEF ListingFails, TypeOK, WorkerTyped
  <2> QED BY <1>2, <2>1, <2>2, <2>3, ReturnsToCaller, WorkerFrame DEF ListingFails
<1>3. CASE AbortWalk
  <2>1. DiskTyped' /\ QueueTyped' /\ entries' \in Nat /\ bytes' \in Nat /\ removedSize' \in Nat
    BY <1>3 DEF AbortWalk, TypeOK, DiskTyped, QueueTyped
  <2>2. FlagsTyped'
    BY <1>3 DEF AbortWalk, TypeOK, FlagsTyped
  <2>3. WorkerTyped' /\ wpc' = AfterMaintain /\ job' = job
    BY <1>3, ReturnsToCaller DEF AbortWalk, TypeOK, WorkerTyped
  <2> QED BY <1>3, <2>1, <2>2, <2>3, ReturnsToCaller, WorkerFrame DEF AbortWalk
<1>4. CASE EndWalk
  <2>1. Cardinality(kept \ PruneSet(kept)) \in Nat /\ Total(kept \ PruneSet(kept)) \in Nat
    <3>1. kept \ PruneSet(kept) \subseteq Identities
      BY DEF TypeOK
    <3>2. IsFiniteSet(kept \ PruneSet(kept))
      BY <3>1, IdentitiesFinite, FS_Subset
    <3> QED BY <3>1, <3>2, FS_CardinalityType, TotalTyped
  <2>2. DiskTyped'
    BY <1>4, EvictTyped DEF EndWalk, TypeOK, DiskTyped
  <2>3. QueueTyped' /\ entries' \in Nat /\ bytes' \in Nat /\ removedSize' \in Nat
    BY <1>4, <2>1 DEF EndWalk, TypeOK, QueueTyped
  <2>4. FlagsTyped'
    BY <1>4 DEF EndWalk, TypeOK, FlagsTyped
  <2>5. WorkerTyped' /\ wpc' = AfterMaintain /\ job' = job
    BY <1>4, ReturnsToCaller DEF EndWalk, TypeOK, WorkerTyped
  <2> QED BY <1>4, <2>2, <2>3, <2>4, <2>5, ReturnsToCaller, WorkerFrame DEF EndWalk
<1> QED BY <1>1, <1>2, <1>3, <1>4

\* One directory entry is handled: all but the directory and the heap is kept.
LEMMA VisitFrame ==
  ASSUME TypeOK, HeldOK, NEW e \in walk, Visit(e), DiskTyped', kept' \subseteq Identities
  PROVE  Typed' /\ HeldOK'
<1> USE DEF queue, counters, task, building
<1>1. QueueTyped' /\ entries' \in Nat /\ bytes' \in Nat /\ removedSize' \in Nat
  BY DEF Visit, TypeOK, QueueTyped
<1>2. FlagsTyped'
  BY DEF Visit, TypeOK, FlagsTyped
<1>3. WorkerTyped' /\ UNCHANGED <<wpc, job>>
  BY DEF Visit, TypeOK, WorkerTyped
<1> QED BY <1>1, <1>2, <1>3, WorkerFrame DEF Visit, HeldOK

LEMMA VisitType ==
  ASSUME TypeOK, HeldOK, NEW e \in walk,
         VisitTemp(e) \/ VisitSkip(e) \/ VisitMeta(e) \/ VisitGz(e)
  PROVE  Typed' /\ HeldOK'
<1>0. e[2] \in Identities
  BY WalkParts
<1>1. CASE VisitTemp(e)
  <2>1. DiskTyped' /\ kept' \subseteq Identities
    BY <1>1 DEF VisitTemp, TypeOK, DiskTyped
  <2> QED BY <1>1, <2>1, VisitFrame DEF VisitTemp
<1>2. CASE VisitSkip(e)
  <2>1. DiskTyped' /\ kept' \subseteq Identities
    BY <1>0, <1>2 DEF VisitSkip, TypeOK, DiskTyped
  <2> QED BY <1>2, <2>1, VisitFrame DEF VisitSkip
<1>3. CASE VisitMeta(e)
  <2>1. DiskTyped' /\ kept' \subseteq Identities
    BY <1>3 DEF VisitMeta, TypeOK, DiskTyped
  <2> QED BY <1>3, <2>1, VisitFrame DEF VisitMeta
<1>4. CASE VisitGz(e)
  <2>1. UNCHANGED <<skip, temps>> /\ Visit(e)
    BY <1>4 DEF VisitGz
  <2>2. kept' \subseteq Identities
    BY <1>0, <1>4 DEF VisitGz, TypeOK
  <2>3. UNCHANGED <<gz, metas, older>> \/ \E S : Evict(S)
    BY <1>4, Zenon DEF VisitGz
  <2>4. DiskTyped'
    BY <2>1, <2>3, EvictTyped DEF TypeOK, DiskTyped
  <2> QED BY <2>1, <2>2, <2>4, VisitFrame
<1> QED BY <1>1, <1>2, <1>3, <1>4

LEMMA ScanType ==
  ASSUME TypeOK, HeldOK, (\E f \in Files : ScanFile(f)) \/ EndScan
  PROVE  Typed' /\ HeldOK'
<1> USE DEF disk, queue, counters, task, walking, WorkerPCs, Compressing
<1>1. ASSUME NEW f \in Files, ScanFile(f) PROVE Typed' /\ HeldOK'
  <2>1. <<f, version[f]>> \in Identities
    BY ScannedIdentity
  <2>2. \/ pending' = pending \cup {<<f, version[f]>>} /\ job' = <<f, version[f]>>
           /\ wpc' = "open"
        \/ UNCHANGED <<pending, job, wpc>>
    BY <1>1 DEF ScanFile
  <2>3. DiskTyped' /\ QueueTyped' /\ entries' \in Nat /\ bytes' \in Nat /\ removedSize' \in Nat
    BY <1>1, <2>1, <2>2 DEF ScanFile, TypeOK, DiskTyped, QueueTyped
  <2>4. FlagsTyped'
    BY <1>1 DEF ScanFile, TypeOK, FlagsTyped
  <2>5. WorkerTyped'
    BY <1>1, <2>1, <2>2 DEF ScanFile, TypeOK, WorkerTyped
  <2>6. /\ wpc' \in Compressing => job' \in Identities
        /\ wpc' \in {"down", "wait", "scan", "exited"} => job' = NoJob
    BY <2>1, <2>2 DEF HeldOK
  <2> QED BY <1>1, <2>3, <2>4, <2>5, <2>6, WorkerFrame DEF ScanFile
<1>2. CASE EndScan
  <2>1. DiskTyped' /\ QueueTyped' /\ entries' \in Nat /\ bytes' \in Nat /\ removedSize' \in Nat
    BY <1>2 DEF EndScan, TypeOK, DiskTyped, QueueTyped
  <2>2. FlagsTyped'
    BY <1>2 DEF EndScan, TypeOK, FlagsTyped
  <2>3. WorkerTyped' /\ wpc' = "wait" /\ job' = NoJob
    BY <1>2 DEF EndScan, TypeOK, HeldOK, WorkerTyped
  <2> QED BY <1>2, <2>1, <2>2, <2>3, WorkerFrame DEF EndScan
<1> QED BY <1>1, <1>2

\* A step of compress(): the job is kept, everything else it may disturb is listed.
LEMMA CompressFrame ==
  ASSUME TypeOK, HeldOK, NEW from \in Compressing, NEW to \in Compressing \cup {"begin"},
         CompressStep(from, to), DiskTyped', blocks' \subseteq Versions,
         entries' \in Nat, bytes' \in Nat, removedSize' \in Nat
  PROVE  Typed' /\ HeldOK'
<1> USE DEF queue, walking, building, WorkerPCs, Compressing
<1>1. QueueTyped'
  BY DEF CompressStep, TypeOK, QueueTyped
<1>2. FlagsTyped'
  BY DEF CompressStep, TypeOK, FlagsTyped
<1>3. job' \in Identities
  BY DEF CompressStep, HeldOK
<1>4. WorkerTyped'
  BY <1>3 DEF CompressStep, TypeOK, WorkerTyped
<1> QED BY <1>1, <1>2, <1>3, <1>4, WorkerFrame DEF CompressStep

LEMMA CompressType ==
  ASSUME TypeOK, HeldOK, Compress PROVE Typed' /\ HeldOK'
<1> USE DEF disk, Compressing
<1>0. /\ wpc \in Compressing
      /\ job \in Identities
      /\ TempsOf(job) \subseteq TempKinds \X Identities
      /\ {<<"gz.tmp", job>>, <<"meta.tmp", job>>, <<"skip.tmp", job>>}
            \subseteq TempKinds \X Identities
      /\ job[1] \in Files /\ job[2] \in Versions /\ version[job[1]] \in Versions
  <2>1. wpc \in Compressing
    BY DEF Compress, CompressOpen, CompressRead, CompressAbort, Inspect, MarkSkip,
           MoveSkip, WriteMeta, DropGz, MoveGz, DropMeta, MoveMeta, Record, CompressStep
  <2>2. job \in Identities
    BY <2>1 DEF HeldOK
  <2> QED BY <2>1, <2>2, IdentityParts DEF TypeOK, TempsOf, TempKinds
<1>1. CASE CompressOpen
  <2>1. \/ CompressStep("open", "finish")
        \/ CompressStep("open", "read")
    BY <1>1 DEF CompressOpen
  <2>2. DiskTyped'
    BY <1>0, <1>1 DEF CompressOpen, TypeOK, DiskTyped
  <2>3. blocks' \subseteq Versions /\ entries' \in Nat /\ bytes' \in Nat /\ removedSize' \in Nat
    BY <1>0, <1>1 DEF CompressOpen, TypeOK
  <2> QED BY <2>1, <2>2, <2>3, CompressFrame
<1>2. CASE CompressRead
  <2>1. \/ CompressStep("read", "read")
    BY <1>2 DEF CompressRead
  <2>2. DiskTyped'
    BY <1>0, <1>2 DEF CompressRead, TypeOK, DiskTyped
  <2>3. blocks' \subseteq Versions /\ entries' \in Nat /\ bytes' \in Nat /\ removedSize' \in Nat
    BY <1>0, <1>2 DEF CompressRead, TypeOK
  <2> QED BY <2>1, <2>2, <2>3, CompressFrame
<1>3. CASE CompressAbort
  <2>1. \/ CompressStep("read", "finish")
    BY <1>3 DEF CompressAbort
  <2>2. DiskTyped'
    BY <1>0, <1>3 DEF CompressAbort, TypeOK, DiskTyped
  <2>3. blocks' \subseteq Versions /\ entries' \in Nat /\ bytes' \in Nat /\ removedSize' \in Nat
    BY <1>0, <1>3 DEF CompressAbort, TypeOK
  <2> QED BY <2>1, <2>2, <2>3, CompressFrame
<1>4. CASE Inspect
  <2>1. \/ CompressStep("read", "finish")
        \/ CompressStep("read", "mark")
        \/ CompressStep("read", "meta")
    BY <1>4 DEF Inspect
  <2>2. DiskTyped'
    BY <1>0, <1>4 DEF Inspect, TypeOK, DiskTyped
  <2>3. blocks' \subseteq Versions /\ entries' \in Nat /\ bytes' \in Nat /\ removedSize' \in Nat
    BY <1>0, <1>4 DEF Inspect, TypeOK
  <2> QED BY <2>1, <2>2, <2>3, CompressFrame
<1>5. CASE MarkSkip
  <2>1. \/ CompressStep("mark", "mvskip")
        \/ CompressStep("mark", "finish")
    BY <1>5 DEF MarkSkip
  <2>2. DiskTyped'
    BY <1>0, <1>5, EvictTyped DEF MarkSkip, TypeOK, DiskTyped
  <2>3. blocks' \subseteq Versions /\ entries' \in Nat /\ bytes' \in Nat /\ removedSize' \in Nat
    BY <1>0, <1>5, CacheConstants DEF MarkSkip, TypeOK
  <2> QED BY <2>1, <2>2, <2>3, CompressFrame
<1>6. CASE MoveSkip
  <2>1. \/ CompressStep("mvskip", "finish")
    BY <1>6 DEF MoveSkip
  <2>2. DiskTyped'
    BY <1>0, <1>6 DEF MoveSkip, TypeOK, DiskTyped, CompressStep
  <2>3. blocks' \subseteq Versions /\ entries' \in Nat /\ bytes' \in Nat /\ removedSize' \in Nat
    BY <1>0, <1>6 DEF MoveSkip, TypeOK, CountDown
  <2> QED BY <2>1, <2>2, <2>3, CompressFrame
<1>7. CASE WriteMeta
  <2>1. \/ CompressStep("meta", "dropgz")
        \/ CompressStep("meta", "finish")
    BY <1>7 DEF WriteMeta
  <2>2. DiskTyped'
    BY <1>0, <1>7 DEF WriteMeta, TypeOK, DiskTyped
  <2>3. blocks' \subseteq Versions /\ entries' \in Nat /\ bytes' \in Nat /\ removedSize' \in Nat
    BY <1>0, <1>7 DEF WriteMeta, TypeOK
  <2> QED BY <2>1, <2>2, <2>3, CompressFrame
<1>8. CASE DropGz
  <2>1. \/ CompressStep("dropgz", "mvgz")
    BY <1>8 DEF DropGz
  <2>2. DiskTyped'
    BY <1>0, <1>8 DEF DropGz, TypeOK, DiskTyped
  <2>3. blocks' \subseteq Versions /\ entries' \in Nat /\ bytes' \in Nat /\ removedSize' \in Nat
    BY <1>0, <1>8 DEF DropGz, TypeOK
  <2> QED BY <2>1, <2>2, <2>3, CompressFrame
<1>9. CASE MoveGz
  <2>1. \/ CompressStep("mvgz", "dropmeta")
        \/ CompressStep("mvgz", "finish")
    BY <1>9 DEF MoveGz
  <2>2. DiskTyped'
    BY <1>0, <1>9 DEF MoveGz, TypeOK, DiskTyped, Artifacts
  <2>3. blocks' \subseteq Versions /\ entries' \in Nat /\ bytes' \in Nat /\ removedSize' \in Nat
    BY <1>0, <1>9 DEF MoveGz, TypeOK
  <2> QED BY <2>1, <2>2, <2>3, CompressFrame
<1>10. CASE DropMeta
  <2>1. \/ CompressStep("dropmeta", "mvmeta")
    BY <1>10 DEF DropMeta
  <2>2. DiskTyped'
    BY <1>0, <1>10 DEF DropMeta, TypeOK, DiskTyped
  <2>3. blocks' \subseteq Versions /\ entries' \in Nat /\ bytes' \in Nat /\ removedSize' \in Nat
    BY <1>0, <1>10 DEF DropMeta, TypeOK
  <2> QED BY <2>1, <2>2, <2>3, CompressFrame
<1>11. CASE MoveMeta
  <2>1. \/ CompressStep("mvmeta", "record")
        \/ CompressStep("mvmeta", "finish")
    BY <1>11 DEF MoveMeta
  <2>2. DiskTyped'
    BY <1>0, <1>11, EvictTyped DEF MoveMeta, TypeOK, DiskTyped
  <2>3. blocks' \subseteq Versions /\ entries' \in Nat /\ bytes' \in Nat /\ removedSize' \in Nat
    BY <1>0, <1>11 DEF MoveMeta, TypeOK
  <2> QED BY <2>1, <2>2, <2>3, CompressFrame
<1>12. CASE Record
  <2>1. \/ CompressStep("record", "begin")
        \/ CompressStep("record", "finish")
    BY <1>12 DEF Record
  <2>2. DiskTyped'
    BY <1>0, <1>12 DEF Record, TypeOK, DiskTyped
  <2>3. blocks' \subseteq Versions /\ entries' \in Nat /\ bytes' \in Nat /\ removedSize' \in Nat
    BY <1>0, <1>12, SizesTyped DEF Record, TypeOK
  <2> QED BY <2>1, <2>2, <2>3, CompressFrame
<1> QED BY <1>1, <1>2, <1>3, <1>4, <1>5, <1>6, <1>7, <1>8, <1>9, <1>10, <1>11, <1>12 DEF Compress

LEMMA NextType == TypeOK /\ HeldOK /\ [Next]_vars => TypeOK' /\ HeldOK'
<1> SUFFICES ASSUME TypeOK, HeldOK, [Next]_vars PROVE Typed' /\ HeldOK'
  BY DEF Typed, TypeOK, SourceTyped, DiskTyped, FlagsTyped, QueueTyped, WorkerTyped,
         HttpTyped
<1>1. CASE Content \/ Game \/ Crash
  BY <1>1, ContentType, GameType
<1>2. CASE \E t \in Threads : Http(t)
  BY <1>2, HttpType
<1>3. CASE Worker
  BY <1>3, RunType, WalkType, VisitType, ScanType, CompressType DEF Worker, Maintain
<1>4. CASE UNCHANGED vars
  <2> USE <1>4 DEF vars, source, disk, queue, counters, worker, task, walking, building, http
  <2>1. SourceTyped' /\ DiskTyped' /\ HttpTyped'
    BY DEF TypeOK, SourceTyped, DiskTyped, HttpTyped
  <2>2. QueueTyped' /\ WorkerTyped' /\ entries' \in Nat /\ bytes' \in Nat /\ removedSize' \in Nat
    BY DEF TypeOK, QueueTyped, WorkerTyped
  <2>3. FlagsTyped'
    BY DEF TypeOK, FlagsTyped
  <2>4. HeldOK'
    BY DEF HeldOK
  <2> QED BY <2>1, <2>2, <2>3, <2>4 DEF Typed
<1> QED BY <1>1, <1>2, <1>3, <1>4 DEF Next

\* The type invariant of the cache: the atomic counters stay natural numbers
\* whatever artifacts a skip removes or a stale lookup makes it count twice
\* (std::size_t never wraps below zero), identities are only used where the
\* code holds one, and no artifact, marker or temporary is ever created for a
\* key that is not a source identity.
THEOREM CacheTyped == Spec => []TypeOK
<1>1. Init => TypeOK /\ HeldOK
  BY InitType
<1>2. TypeOK /\ HeldOK /\ [Next]_vars => (TypeOK /\ HeldOK)'
  BY NextType
<1> QED BY <1>1, <1>2, PTL DEF Spec

-----------------------------------------------------------------------------
(* What is published is what was read. *)

\* The blocks read so far: nothing before the source is open; while reading, a
\* foreign block implies that the source has moved past the job's version, which
\* the second inspection sees; from there on, the job's own version only.
ReadOK ==
    /\ job = NoJob \/ wpc = "open" => blocks = {}
    /\ wpc = "read" => /\ version[job[1]] >= job[2]
                       /\ version[job[1]] = job[2] => blocks \subseteq {job[2]}
    /\ wpc \in {"mark", "mvskip", "meta", "dropgz", "mvgz"} => blocks \subseteq {job[2]}

Faithful == RepresentationFaithful /\ ReadOK

\* Steps that publish nothing and serve nothing keep the artifacts faithful.
LEMMA ArtifactsKept ==
  ASSUME RepresentationFaithful, UNCHANGED http,
         \A k \in Identities : gz'[k] \subseteq gz[k]
  PROVE  RepresentationFaithful'
  BY DEF RepresentationFaithful, http

LEMMA EvictShrinks ==
  ASSUME TypeOK, NEW S, Evict(S)
  PROVE  \A k \in Identities : gz'[k] \subseteq gz[k]
  BY DEF TypeOK, Evict

LEMMA InitFaithful == Init => Faithful
<1> SUFFICES ASSUME Init PROVE Faithful
  OBVIOUS
<1>1. RepresentationFaithful
  BY DEF Init, RepresentationFaithful
<1>2. ReadOK
  BY DEF Init, ReadOK
<1> QED BY <1>1, <1>2 DEF Faithful

LEMMA ContentFaithful ==
  ASSUME TypeOK, HeldOK, Faithful, Content PROVE Faithful'
<1> SUFFICES ASSUME NEW f \in Files, Modify(f) \/ Delete(f) \/ Create(f) PROVE Faithful'
  BY DEF Content
<1>1. UNCHANGED <<disk, worker, http>>
  BY DEF Modify, Delete, Create
<1>2. RepresentationFaithful'
  BY <1>1 DEF Faithful, RepresentationFaithful, disk, http
<1>3. \A g \in Files : /\ version[g] \in Nat /\ version'[g] \in Nat
                       /\ version'[g] = version[g] \/ version'[g] = version[g] + 1
  <2>1. \A g \in Files : version[g] \in Nat
    BY DEF TypeOK, Versions
  <2>2. version' = [version EXCEPT ![f] = @ + 1] \/ version' = version
    BY DEF Modify, Delete, Create
  <2>3. DOMAIN version = Files
    BY DEF TypeOK
  <2> QED BY <2>1, <2>2, <2>3
<1>4. ReadOK'
  <2>1. UNCHANGED <<wpc, job, blocks>>
    BY <1>1 DEF worker, task
  <2>2. CASE wpc = "read"
    <3>1. job \in Identities
      BY <2>2 DEF HeldOK, Compressing
    <3>2. job[1] \in Files /\ job[2] \in Nat
      BY <3>1 DEF Identities, Versions
    <3> QED BY <1>3, <2>1, <2>2, <3>2 DEF Faithful, ReadOK
  <2>3. CASE wpc # "read"
    BY <2>1, <2>3 DEF Faithful, ReadOK
  <2> QED BY <2>2, <2>3
<1> QED BY <1>2, <1>4 DEF Faithful

LEMMA GameFaithful ==
  ASSUME TypeOK, HeldOK, Faithful, Game \/ Crash PROVE Faithful'
<1> USE DEF source, disk, worker, task, http
<1>1. CASE (\E m \in Budgets : Start(m)) \/ StopEnd
  <2>1. UNCHANGED <<source, disk, job, blocks, http>> /\ wpc' \in {"begin", "down"}
    BY <1>1 DEF Start, StopEnd
  <2>2. job' = NoJob /\ blocks' = {}
    BY <1>1, <2>1 DEF Start, StopEnd, HeldOK, Faithful, ReadOK
  <2>3. ReadOK'
    BY <2>1, <2>2 DEF ReadOK
  <2>4. RepresentationFaithful'
    BY <2>1 DEF Faithful, RepresentationFaithful
  <2> QED BY <2>3, <2>4 DEF Faithful
<1>2. CASE RequestBuild \/ StopBegin
  <2>1. UNCHANGED <<source, disk, worker, http>>
    BY <1>2 DEF RequestBuild, StopBegin
  <2> QED BY <2>1 DEF Faithful, RepresentationFaithful, ReadOK
<1>3. CASE Crash
  <2>1. RepresentationFaithful'
    BY <1>3 DEF Crash, Faithful, RepresentationFaithful
  <2>2. ReadOK'
    BY <1>3 DEF Crash, ReadOK
  <2> QED BY <2>1, <2>2 DEF Faithful
<1> QED BY <1>1, <1>2, <1>3 DEF Game

\* Only OpenCached() starts a transfer, of an artifact that is there.
LEMMA HttpFaithful ==
  ASSUME TypeOK, HeldOK, Faithful, NEW t \in Threads, Http(t) PROVE Faithful'
<1> USE DEF To, Release
<1>1. UNCHANGED <<source, disk, worker>>
  BY DEF Http, OpenSource, CheckMeta, CheckGz, OpenCached, EndTransfer, CheckSkip, Enqueue
<1>2. ReadOK'
  BY <1>1 DEF Faithful, ReadOK, source, worker, task
<1>3. \A u \in Threads : hpc'[u] = "serving" => body'[u] = {hid'[u][2]}
  <2>1. \A u \in Threads : hpc[u] = "serving" => body[u] = {hid[u][2]}
    BY DEF Faithful, RepresentationFaithful
  <2>2. CASE OpenCached(t)
    <3>1. hid[t] \in Identities
      BY <2>2 DEF OpenCached, HeldOK
    <3>2. gz[hid[t]] # {} => gz[hid[t]] = {hid[t][2]}
      BY <3>1 DEF Faithful, RepresentationFaithful
    <3> QED BY <2>1, <2>2, <3>2 DEF OpenCached, TypeOK
  <2>3. CASE (\E f \in Files : OpenSource(t, f)) \/ CheckMeta(t) \/ CheckGz(t)
    BY <2>1, <2>3 DEF OpenSource, CheckMeta, CheckGz, TypeOK
  <2>4. CASE EndTransfer(t) \/ CheckSkip(t) \/ Enqueue(t)
    BY <2>1, <2>4 DEF EndTransfer, CheckSkip, Enqueue, TypeOK
  <2> QED BY <2>2, <2>3, <2>4 DEF Http
<1>4. RepresentationFaithful'
  BY <1>1, <1>3 DEF Faithful, RepresentationFaithful, disk
<1> QED BY <1>2, <1>4 DEF Faithful

LEMMA RunFaithful ==
  ASSUME TypeOK, HeldOK, Faithful,
         WorkerExit \/ TakeBuild \/ TakeJob \/ Finish
           \/ (\E f \in Files : ScanFile(f)) \/ EndScan
  PROVE  Faithful'
<1> USE DEF source, disk, task, http
<1>1. UNCHANGED <<disk, http>>
  BY DEF WorkerExit, TakeBuild, TakeJob, Finish, ScanFile, EndScan
<1>2. RepresentationFaithful'
  BY <1>1 DEF Faithful, RepresentationFaithful
<1>3. blocks' = {} /\ wpc' \in {"exited", "begin", "open", "scan", "wait"}
  <2>1. CASE Finish
    BY <2>1 DEF Finish
  <2>2. CASE WorkerExit \/ TakeBuild \/ TakeJob
    BY <2>2 DEF WorkerExit, TakeBuild, TakeJob, HeldOK, Faithful, ReadOK
  <2>3. CASE EndScan
    BY <2>3 DEF EndScan, HeldOK, Faithful, ReadOK
  <2>4. ASSUME NEW f \in Files, ScanFile(f) PROVE blocks' = {} /\ wpc' \in {"open", "scan"}
    BY <2>4 DEF ScanFile, HeldOK, Faithful, ReadOK
  <2> QED BY <2>1, <2>2, <2>3, <2>4
<1>4. ReadOK'
  BY <1>3 DEF ReadOK
<1> QED BY <1>2, <1>4 DEF Faithful

LEMMA MaintainFaithful ==
  ASSUME TypeOK, HeldOK, Faithful, Maintain PROVE Faithful'
<1> USE DEF source, disk, task, http
<1>1. CASE BeginWalk \/ ListingFails \/ AbortWalk \/ EndWalk
  <2>1. \A k \in Identities : gz'[k] \subseteq gz[k]
    BY <1>1, EvictShrinks DEF BeginWalk, ListingFails, AbortWalk, EndWalk
  <2>2. UNCHANGED http
    BY <1>1 DEF BeginWalk, ListingFails, AbortWalk, EndWalk
  <2>3. RepresentationFaithful'
    BY <2>1, <2>2, ArtifactsKept DEF Faithful
  <2>4. wpc' \in {"walk", "finish", "scan", "wait"} /\ UNCHANGED <<job, blocks>>
    BY <1>1, ReturnsToCaller DEF BeginWalk, ListingFails, AbortWalk, EndWalk
  <2>5. ReadOK'
    BY <2>4 DEF Faithful, ReadOK
  <2> QED BY <2>3, <2>5 DEF Faithful
<1>2. ASSUME NEW e \in walk, VisitTemp(e) \/ VisitSkip(e) \/ VisitMeta(e) \/ VisitGz(e)
      PROVE  Faithful'
  <2>1. Visit(e)
    BY <1>2 DEF VisitTemp, VisitSkip, VisitMeta, VisitGz
  <2>2. UNCHANGED gz \/ \E S : Evict(S)
    BY <1>2, Zenon DEF VisitTemp, VisitSkip, VisitMeta, VisitGz
  <2>3. \A k \in Identities : gz'[k] \subseteq gz[k]
    BY <2>2, EvictShrinks
  <2>4. RepresentationFaithful'
    BY <2>1, <2>3, ArtifactsKept DEF Faithful, Visit
  <2>5. ReadOK'
    BY <2>1 DEF Faithful, ReadOK, Visit
  <2> QED BY <2>4, <2>5 DEF Faithful
<1> QED BY <1>1, <1>2 DEF Maintain

LEMMA CompressFaithful ==
  ASSUME TypeOK, HeldOK, Faithful, Compress PROVE Faithful'
<1> USE DEF source, disk, http
<1>0. /\ UNCHANGED <<version, job, http>>
      /\ job \in Identities /\ job # NoJob
      /\ version[job[1]] \in Nat /\ job[2] \in Nat
  <2>1. UNCHANGED <<version, job, http>> /\ wpc \in Compressing
    BY DEF Compress, CompressOpen, CompressRead, CompressAbort, Inspect, MarkSkip,
           MoveSkip, WriteMeta, DropGz, MoveGz, DropMeta, MoveMeta, Record, CompressStep,
           Compressing
  <2>2. job \in Identities /\ job # NoJob
    BY <2>1, CacheConstants DEF HeldOK
  <2> QED BY <2>1, <2>2, IdentityParts DEF TypeOK, Versions
<1>1. CASE CompressOpen
  <2>1. UNCHANGED <<gz, blocks>> /\ wpc = "open"
    BY <1>1 DEF CompressOpen, CompressStep
  <2>2. ReadOK'
    BY <1>0, <1>1, <2>1 DEF CompressOpen, CompressStep, Current, Faithful, ReadOK
  <2> QED BY <1>0, <2>1, <2>2, ArtifactsKept DEF Faithful
<1>2. CASE CompressRead
  <2>1. UNCHANGED gz
    BY <1>2 DEF CompressRead
  <2>2. ReadOK'
    BY <1>0, <1>2 DEF CompressRead, CompressStep, Faithful, ReadOK
  <2> QED BY <1>0, <2>1, <2>2, ArtifactsKept DEF Faithful
<1>3. CASE CompressAbort
  <2>1. UNCHANGED gz /\ wpc' = "finish"
    BY <1>3 DEF CompressAbort, CompressStep
  <2>2. ReadOK'
    BY <1>0, <2>1 DEF ReadOK
  <2> QED BY <1>0, <2>1, <2>2, ArtifactsKept DEF Faithful
<1>4. CASE Inspect
  <2>1. UNCHANGED <<gz, blocks>> /\ wpc = "read"
        /\ (wpc' = "finish" \/ (wpc' \in {"mark", "meta"} /\ Current(job)))
    BY <1>4 DEF Inspect, CompressStep, SourceUnchanged
  <2>2. ReadOK'
    BY <1>0, <2>1 DEF Faithful, ReadOK, Current
  <2> QED BY <1>0, <2>1, <2>2, ArtifactsKept DEF Faithful
<1>5. CASE MarkSkip
  <2>1. UNCHANGED blocks /\ wpc' \in {"mvskip", "finish"} /\ Evict({job})
    BY <1>5 DEF MarkSkip, CompressStep
  <2>2. ReadOK'
    BY <1>0, <1>5, <2>1 DEF Faithful, ReadOK, MarkSkip, CompressStep
  <2> QED BY <1>0, <2>1, <2>2, ArtifactsKept, EvictShrinks DEF Faithful
<1>6. CASE MoveSkip \/ WriteMeta
  <2>1. UNCHANGED <<gz, blocks>> /\ wpc' \in {"finish", "dropgz"}
        /\ wpc \in {"mvskip", "meta"}
    BY <1>6 DEF MoveSkip, WriteMeta, CompressStep
  <2>2. ReadOK'
    BY <1>0, <2>1 DEF Faithful, ReadOK
  <2> QED BY <1>0, <2>1, <2>2, ArtifactsKept DEF Faithful
<1>7. CASE DropGz
  <2>1. \A k \in Identities : gz'[k] \subseteq gz[k]
    BY <1>0, <1>7 DEF DropGz, TypeOK
  <2>2. ReadOK'
    BY <1>0, <1>7 DEF DropGz, CompressStep, Faithful, ReadOK
  <2> QED BY <1>0, <2>1, <2>2, ArtifactsKept DEF Faithful
<1>8. CASE MoveGz
  <2>1. blocks \subseteq {job[2]} /\ wpc' \in {"dropmeta", "finish"}
    BY <1>8 DEF MoveGz, CompressStep, Faithful, ReadOK
  <2>2. \A k \in Identities : gz'[k] \subseteq {k[2]}
    BY <1>0, <1>8, <2>1 DEF MoveGz, Faithful, RepresentationFaithful, TypeOK
  <2>3. RepresentationFaithful'
    BY <1>0, <2>2 DEF Faithful, RepresentationFaithful
  <2>4. ReadOK'
    BY <1>0, <2>1 DEF ReadOK
  <2> QED BY <2>3, <2>4 DEF Faithful
<1>9. CASE DropMeta \/ MoveMeta \/ Record
  <2>1. wpc' \in {"mvmeta", "record", "finish", "begin"}
    BY <1>9 DEF DropMeta, MoveMeta, Record, CompressStep
  <2>2. \A k \in Identities : gz'[k] \subseteq gz[k]
    BY <1>9, EvictShrinks DEF DropMeta, MoveMeta, Record
  <2>3. ReadOK'
    BY <1>0, <2>1 DEF ReadOK
  <2> QED BY <1>0, <2>2, <2>3, ArtifactsKept DEF Faithful
<1> QED BY <1>1, <1>2, <1>3, <1>4, <1>5, <1>6, <1>7, <1>8, <1>9 DEF Compress

LEMMA NextFaithful ==
  TypeOK /\ HeldOK /\ Faithful /\ [Next]_vars => Faithful'
<1> SUFFICES ASSUME TypeOK, HeldOK, Faithful, [Next]_vars PROVE Faithful'
  OBVIOUS
<1>1. CASE Content \/ Game \/ Crash
  BY <1>1, ContentFaithful, GameFaithful
<1>2. CASE \E t \in Threads : Http(t)
  BY <1>2, HttpFaithful
<1>3. CASE Worker
  BY <1>3, RunFaithful, MaintainFaithful, CompressFaithful DEF Worker
<1>4. CASE UNCHANGED vars
  BY <1>4 DEF vars, source, disk, worker, task, http, Faithful, RepresentationFaithful,
              ReadOK
<1> QED BY <1>1, <1>2, <1>3, <1>4 DEF Next

\* The safety of the gzip cache: however sources change while the worker reads
\* them, wherever the process crashes, and whichever disk operations fail, every
\* artifact holds bytes of its own identity only and every gzip response carries
\* the version its ETag names.
THEOREM CacheFaithful == Spec => []RepresentationFaithful
<1> DEFINE IInv == TypeOK /\ HeldOK /\ Faithful
<1>1. Init => IInv
  BY InitType, InitFaithful
<1>2. IInv /\ [Next]_vars => IInv'
  BY NextType, NextFaithful
<1>3. IInv => RepresentationFaithful
  BY DEF Faithful
<1> QED BY <1>1, <1>2, <1>3, PTL DEF Spec

-----------------------------------------------------------------------------
(* The queue and pending_ stay in step. *)

LEMMA RangeIsElements ==
  ASSUME NEW s \in Seq(Identities)
  PROVE  /\ DOMAIN s = 1..Len(s)
         /\ \A k : k \in Range(s) <=> \E i \in 1..Len(s) : s[i] = k
  BY DEF Range

LEMMA PushPending ==
  ASSUME TypeOK, PendingExact, NEW k \in Identities, Push(k), job' = job
  PROVE  PendingExact'
<1>1. CASE UNCHANGED <<jobs, pending>>
  BY <1>1 DEF PendingExact
<1>2. CASE /\ Len(jobs) < MaximumQueuedJobs /\ k \notin pending
           /\ jobs' = Append(jobs, k) /\ pending' = pending \cup {k}
  <2>1. /\ jobs \in Seq(Identities) /\ jobs' \in Seq(Identities)
        /\ Len(jobs') = Len(jobs) + 1 /\ Len(jobs) \in Nat
        /\ \A i \in 1..Len(jobs) : jobs'[i] = jobs[i]
        /\ jobs'[Len(jobs')] = k
    BY <1>2 DEF TypeOK
  <2>2. k \notin Range(jobs) /\ k # job
    BY <1>2, CacheConstants DEF PendingExact
  <2>3. Range(jobs') = Range(jobs) \cup {k}
    BY <2>1, RangeIsElements
  <2>4. \A i, j \in DOMAIN jobs' : jobs'[i] = jobs'[j] => i = j
    BY <2>1, <2>2, RangeIsElements DEF PendingExact
  <2>5. Len(jobs') <= MaximumQueuedJobs
    BY <1>2, <2>1, CacheConstants
  <2> QED BY <1>2, <2>2, <2>3, <2>4, <2>5 DEF PendingExact
<1>3. Len(jobs) \in Nat
  BY DEF TypeOK
<1> QED BY <1>1, <1>2, <1>3, CacheConstants DEF Push

LEMMA TakePending ==
  ASSUME TypeOK, HeldOK, PendingExact, TakeJob PROVE PendingExact'
<1>1. /\ jobs \in Seq(Identities) /\ jobs' \in Seq(Identities)
      /\ Len(jobs) \in Nat \ {0} /\ Len(jobs') = Len(jobs) - 1
      /\ \A i \in 1..Len(jobs') : jobs'[i] = jobs[i + 1]
      /\ job' = jobs[1] /\ job' \in Identities
      /\ job = NoJob /\ pending' = pending
  BY DEF TakeJob, TypeOK, HeldOK
<1>2. \A i, j \in 1..Len(jobs) : jobs[i] = jobs[j] => i = j
  BY <1>1, RangeIsElements DEF PendingExact
<1>3. Range(jobs) = Range(jobs') \cup {job'}
  <2>1. ASSUME NEW k \in Range(jobs) PROVE k \in Range(jobs') \cup {job'}
    <3>1. PICK i \in 1..Len(jobs) : jobs[i] = k
      BY <1>1, RangeIsElements
    <3>2. CASE i = 1
      BY <1>1, <3>1, <3>2
    <3>3. CASE i # 1
      <4>1. i - 1 \in 1..Len(jobs') /\ jobs'[i - 1] = k
        BY <1>1, <3>1, <3>3
      <4> QED BY <1>1, <4>1, RangeIsElements
    <3> QED BY <3>2, <3>3
  <2>2. ASSUME NEW k \in Range(jobs') \cup {job'} PROVE k \in Range(jobs)
    <3>1. CASE k = job'
      BY <1>1, <3>1, RangeIsElements
    <3>2. CASE k \in Range(jobs')
      <4>1. PICK i \in 1..Len(jobs') : jobs'[i] = k
        BY <1>1, <3>2, RangeIsElements
      <4>2. i + 1 \in 1..Len(jobs) /\ jobs[i + 1] = k
        BY <1>1, <4>1
      <4> QED BY <1>1, <4>2, RangeIsElements
    <3> QED BY <2>2, <3>1, <3>2
  <2> QED BY <2>1, <2>2
<1>4. job' \notin Range(jobs')
  <2> SUFFICES ASSUME job' \in Range(jobs') PROVE FALSE
    OBVIOUS
  <2>1. PICK i \in 1..Len(jobs') : jobs'[i] = job'
    BY <1>1, RangeIsElements
  <2>2. i + 1 \in 1..Len(jobs) /\ 1 \in 1..Len(jobs) /\ jobs[i + 1] = jobs[1]
    BY <1>1, <2>1
  <2> QED BY <1>2, <2>1, <2>2
<1>5. \A i, j \in DOMAIN jobs' : jobs'[i] = jobs'[j] => i = j
  <2> SUFFICES ASSUME NEW i \in 1..Len(jobs'), NEW j \in 1..Len(jobs'),
                      jobs'[i] = jobs'[j]
               PROVE  i = j
    BY <1>1, RangeIsElements
  <2>1. i + 1 \in 1..Len(jobs) /\ j + 1 \in 1..Len(jobs) /\ jobs[i + 1] = jobs[j + 1]
    BY <1>1
  <2>2. i + 1 = j + 1
    BY <1>2, <2>1
  <2> QED BY <2>2
<1>6. Len(jobs') <= MaximumQueuedJobs
  BY <1>1, CacheConstants DEF PendingExact
<1>7. pending' = Range(jobs') \cup ({job'} \ {NoJob})
  BY <1>1, <1>3, CacheConstants DEF PendingExact
<1> QED BY <1>4, <1>5, <1>6, <1>7 DEF PendingExact

LEMMA EmptyPending ==
  ASSUME jobs' = <<>>, pending' = {}, job' = NoJob PROVE PendingExact'
<1>1. Range(<<>>) = {} /\ Len(<<>>) = 0 /\ DOMAIN (<<>>) = {}
  BY DEF Range
<1> QED BY <1>1, CacheConstants DEF PendingExact

LEMMA InitPending == Init => PendingExact
<1>1. Range(<<>>) = {} /\ Len(<<>>) = 0 /\ DOMAIN (<<>>) = {}
  BY DEF Range
<1> QED BY <1>1, CacheConstants DEF Init, PendingExact

LEMMA WorkerPending ==
  ASSUME TypeOK, HeldOK, PendingExact, Worker PROVE PendingExact'
<1> USE DEF queue, task
<1>1. CASE WorkerExit \/ TakeBuild \/ Maintain \/ EndScan \/ Compress
  <2>1. UNCHANGED <<jobs, pending, job>>
    <3>1. CASE WorkerExit \/ TakeBuild \/ EndScan
      BY <3>1 DEF WorkerExit, TakeBuild, EndScan
    <3>2. CASE Maintain
      BY <3>2 DEF Maintain, BeginWalk, ListingFails, AbortWalk, EndWalk, VisitTemp,
                  VisitSkip, VisitMeta, VisitGz, Visit
    <3>3. CASE Compress
      BY <3>3 DEF Compress, CompressOpen, CompressRead, CompressAbort, Inspect, MarkSkip,
                  MoveSkip, WriteMeta, DropGz, MoveGz, DropMeta, MoveMeta, Record,
                  CompressStep
    <3> QED BY <1>1, <3>1, <3>2, <3>3
  <2> QED BY <2>1 DEF PendingExact
<1>2. CASE TakeJob
  BY <1>2, TakePending
<1>3. CASE Finish
  <2>1. job \in Identities /\ job # NoJob
    BY <1>3, CacheConstants DEF Finish, HeldOK, Compressing
  <2>2. jobs' = jobs /\ job' = NoJob /\ pending' = pending \ {job}
    BY <1>3 DEF Finish
  <2>3. NoJob \notin Range(jobs)
    <3>1. jobs \in Seq(Identities) /\ \A i \in 1..Len(jobs) : jobs[i] \in Identities
      BY DEF TypeOK
    <3> QED BY <3>1, RangeIsElements, CacheConstants
  <2> QED BY <2>1, <2>2, <2>3 DEF PendingExact
<1>4. ASSUME NEW f \in Files, ScanFile(f) PROVE PendingExact'
  <2>1. CASE UNCHANGED <<jobs, pending, job>>
    BY <2>1 DEF PendingExact
  <2>2. CASE /\ <<f, version[f]>> \notin pending /\ jobs' = jobs
             /\ job' = <<f, version[f]>> /\ pending' = pending \cup {<<f, version[f]>>}
    <3>1. job = NoJob
      BY <1>4 DEF ScanFile, HeldOK
    <3>2. <<f, version[f]>> \in Identities /\ <<f, version[f]>> # NoJob
      BY ScannedIdentity, CacheConstants
    <3> QED BY <2>2, <3>1, <3>2 DEF PendingExact
  <2> QED BY <1>4, <2>1, <2>2 DEF ScanFile
<1> QED BY <1>1, <1>2, <1>3, <1>4 DEF Worker

LEMMA NextPending ==
  TypeOK /\ HeldOK /\ PendingExact /\ [Next]_vars => PendingExact'
<1> SUFFICES ASSUME TypeOK, HeldOK, PendingExact, [Next]_vars PROVE PendingExact'
  OBVIOUS
<1> USE DEF queue, worker, task
<1>1. CASE Content \/ RequestBuild \/ StopBegin \/ (\E m \in Budgets : Start(m))
           \/ UNCHANGED vars
  <2>1. UNCHANGED <<jobs, pending, job>>
    BY <1>1 DEF Content, Modify, Delete, Create, RequestBuild, StopBegin, Start, vars
  <2> QED BY <2>1 DEF PendingExact
<1>2. CASE StopEnd
  BY <1>2, EmptyPending DEF StopEnd, HeldOK
<1>3. CASE Crash
  BY <1>3, EmptyPending DEF Crash
<1>4. ASSUME NEW t \in Threads, Http(t) PROVE PendingExact'
  <2>1. CASE Enqueue(t)
    <3>1. hid[t] \in Identities /\ Push(hid[t]) /\ job' = job
      BY <2>1 DEF Enqueue, HeldOK
    <3> QED BY <3>1, PushPending
  <2>2. CASE ~Enqueue(t)
    <3>1. UNCHANGED <<jobs, pending, job>>
      BY <1>4, <2>2 DEF Http, OpenSource, CheckMeta, CheckGz, OpenCached, EndTransfer,
                        CheckSkip
    <3> QED BY <3>1 DEF PendingExact
  <2> QED BY <2>1, <2>2
<1>5. CASE Worker
  BY <1>5, WorkerPending
<1> QED BY <1>1, <1>2, <1>3, <1>4, <1>5 DEF Next, Game

\* pending_ is exactly the queued keys and the one being compressed, in every
\* interleaving of lookups, builds, stops and crashes: no early return of
\* compress() and no full queue can leave a key behind that would keep its
\* source from ever being compressed, and the queue never exceeds its bound.
THEOREM PendingStaysExact == Spec => []PendingExact
<1> DEFINE IInv == TypeOK /\ HeldOK /\ PendingExact
<1>1. Init => IInv
  BY InitType, InitPending
<1>2. IInv /\ [Next]_vars => IInv'
  BY NextType, NextPending
<1>3. IInv => PendingExact
  OBVIOUS
<1> QED BY <1>1, <1>2, <1>3, PTL DEF Spec


-----------------------------------------------------------------------------
(* The cache implements the store, and a skip marker is a reason. *)

\* A request names an identity from open to release and has a body only while
\* it is being served.
RequestsOK ==
    \A t \in Threads : /\ hpc[t] = "idle" => hid[t] = NoJob
                       /\ hpc[t] # "serving" => body[t] = {}

\* The thread only ends when asked to, and no request runs while it may.
StopOK ==
    /\ wpc \in {"down", "exited"} => stopping
    /\ stopping => \A t \in Threads : hpc[t] = "idle"

\* What is about to be published has been read, from a version there was.
Reading == {"read", "mark", "mvskip", "meta", "dropgz", "mvgz"}
PublishOK ==
    /\ wpc \in Reading => version[job[1]] >= job[2]
    /\ wpc \in Reading \ {"read"} => blocks # {}

\* The artifact of k would not fit the budget b, or not be worth it.
NoGain(k, b) ==
    \/ CompressedSize[k] > b
    \/ CompressedSize[k] >= SourceSize[k] - SourceSize[k] \div 20

\* Every marker names a budget under which its source is not worth compressing,
\* and so will the one that is being written.
MarkersOK ==
    /\ \A k \in Identities : skip[k] # 0 => NoGain(k, skip[k])
    /\ wpc \in {"mark", "mvskip"} => NoGain(job, maxBytes)
    /\ maxBytes = 0 => wpc = "down"

ServiceOK == RequestsOK /\ StopOK /\ PublishOK /\ MarkersOK

LEMMA InitService == Init => ServiceOK
<1> SUFFICES ASSUME Init PROVE ServiceOK
  OBVIOUS
<1>1. RequestsOK /\ StopOK
  BY DEF Init, RequestsOK, StopOK
<1>2. PublishOK /\ MarkersOK
  BY DEF Init, PublishOK, MarkersOK, Reading
<1> QED BY <1>1, <1>2 DEF ServiceOK

LEMMA ContentService ==
  ASSUME TypeOK, HeldOK, ServiceOK, Content PROVE ServiceOK'
<1> SUFFICES ASSUME NEW f \in Files, Modify(f) \/ Delete(f) \/ Create(f) PROVE ServiceOK'
  BY DEF Content
<1>1. UNCHANGED <<disk, queue, counters, worker, http>>
  BY DEF Modify, Delete, Create
<1>2. RequestsOK' /\ StopOK'
  BY <1>1 DEF ServiceOK, RequestsOK, StopOK, queue, worker, http
<1>3. MarkersOK'
  BY <1>1 DEF ServiceOK, MarkersOK, disk, counters, worker, task
<1>4. \A g \in Files : /\ version[g] \in Nat /\ version'[g] \in Nat
                       /\ version'[g] >= version[g]
  BY DEF Modify, Delete, Create, TypeOK, Versions
<1>5. PublishOK'
  <2>1. UNCHANGED <<wpc, job, blocks>>
    BY <1>1 DEF worker, task
  <2>2. CASE wpc \in Reading
    <3>1. job \in Identities
      BY <2>2 DEF HeldOK, Compressing, Reading
    <3>2. job[1] \in Files /\ job[2] \in Nat
      BY <3>1 DEF Identities, Versions
    <3> QED BY <1>4, <2>1, <2>2, <3>2 DEF ServiceOK, PublishOK
  <2>3. CASE wpc \notin Reading
    BY <2>1, <2>3 DEF PublishOK
  <2> QED BY <2>2, <2>3
<1> QED BY <1>2, <1>3, <1>5 DEF ServiceOK

LEMMA GameService ==
  ASSUME TypeOK, HeldOK, ServiceOK, Game \/ Crash PROVE ServiceOK'
<1> USE DEF source, disk, queue, counters, worker, task, http
<1>1. CASE Crash
  <2>1. RequestsOK' /\ StopOK'
    BY <1>1 DEF Crash, RequestsOK, StopOK
  <2>2. PublishOK' /\ MarkersOK'
    BY <1>1 DEF Crash, ServiceOK, PublishOK, MarkersOK, Reading
  <2> QED BY <2>1, <2>2 DEF ServiceOK
<1>2. ASSUME NEW m \in Budgets, Start(m) PROVE ServiceOK'
  <2>1. m # 0
    BY CacheConstants
  <2>2. RequestsOK' /\ StopOK'
    BY <1>2 DEF Start, ServiceOK, RequestsOK, StopOK
  <2>3. PublishOK' /\ MarkersOK'
    BY <1>2, <2>1 DEF Start, ServiceOK, PublishOK, MarkersOK, Reading
  <2> QED BY <2>2, <2>3 DEF ServiceOK
<1>3. CASE RequestBuild \/ StopBegin
  <2>1. RequestsOK' /\ StopOK'
    BY <1>3 DEF RequestBuild, StopBegin, ServiceOK, RequestsOK, StopOK
  <2>2. PublishOK' /\ MarkersOK'
    BY <1>3 DEF RequestBuild, StopBegin, ServiceOK, PublishOK, MarkersOK
  <2> QED BY <2>1, <2>2 DEF ServiceOK
<1>4. CASE StopEnd
  <2>1. RequestsOK' /\ StopOK'
    BY <1>4 DEF StopEnd, ServiceOK, RequestsOK, StopOK
  <2>2. PublishOK' /\ MarkersOK'
    BY <1>4 DEF StopEnd, ServiceOK, PublishOK, MarkersOK, Reading
  <2> QED BY <2>1, <2>2 DEF ServiceOK
<1> QED BY <1>1, <1>2, <1>3, <1>4 DEF Game

LEMMA HttpService ==
  ASSUME TypeOK, HeldOK, ServiceOK, NEW t \in Threads, Http(t) PROVE ServiceOK'
<1> USE DEF To, Release
<1>1. UNCHANGED <<source, disk, counters, worker, stopping>>
  BY DEF Http, OpenSource, CheckMeta, CheckGz, OpenCached, EndTransfer, CheckSkip, Enqueue,
         queue
<1>2. PublishOK' /\ MarkersOK'
  BY <1>1 DEF ServiceOK, PublishOK, MarkersOK, source, disk, counters, worker, task
<1>3. /\ hpc \in [Threads -> HttpPCs] /\ hid \in [Threads -> Identities \cup {NoJob}]
      /\ body \in [Threads -> SUBSET Versions] /\ RequestsOK /\ StopOK
  BY DEF TypeOK, ServiceOK
<1>4. ~stopping
  BY <1>3 DEF StopOK, Http, OpenSource, CheckMeta, CheckGz, OpenCached, EndTransfer,
              CheckSkip, Enqueue
<1>5. RequestsOK'
  <2>1. CASE OpenCached(t)
    BY <1>3, <2>1 DEF OpenCached, RequestsOK
  <2>2. CASE (\E f \in Files : OpenSource(t, f)) \/ CheckMeta(t) \/ CheckGz(t)
    BY <1>3, <2>2 DEF OpenSource, CheckMeta, CheckGz, RequestsOK
  <2>3. CASE EndTransfer(t) \/ CheckSkip(t) \/ Enqueue(t)
    BY <1>3, <2>3 DEF EndTransfer, CheckSkip, Enqueue, RequestsOK
  <2> QED BY <2>1, <2>2, <2>3 DEF Http
<1>6. StopOK'
  BY <1>1, <1>3, <1>4 DEF StopOK, worker
<1> QED BY <1>2, <1>5, <1>6 DEF ServiceOK


\* What the worker's steps have in common: they leave the requests alone, and
\* the thread ends only when it has been asked to.
LEMMA WorkerServiceFrame ==
  ASSUME TypeOK, HeldOK, ServiceOK, Worker
  PROVE  /\ RequestsOK' /\ StopOK'
         /\ UNCHANGED <<version, maxBytes>>
         /\ maxBytes # 0 /\ wpc # "down"
<1> USE DEF source, queue, counters, task, http
<1>1. UNCHANGED <<version, stopping, maxBytes, http>> /\ wpc # "down"
  <2>1. CASE WorkerExit \/ TakeBuild \/ TakeJob \/ Finish \/ EndScan
             \/ \E f \in Files : ScanFile(f)
    BY <2>1 DEF WorkerExit, TakeBuild, TakeJob, Finish, ScanFile, EndScan
  <2>2. CASE Maintain
    BY <2>2 DEF Maintain, BeginWalk, ListingFails, AbortWalk, EndWalk, VisitTemp, VisitSkip,
                VisitMeta, VisitGz, Visit
  <2>3. CASE Compress
    BY <2>3 DEF Compress, CompressOpen, CompressRead, CompressAbort, Inspect, MarkSkip,
                MoveSkip, WriteMeta, DropGz, MoveGz, DropMeta, MoveMeta, Record, CompressStep
  <2> QED BY <2>1, <2>2, <2>3 DEF Worker
<1>2. wpc' # "down" /\ (wpc' = "exited" => stopping)
  <2>1. CASE WorkerExit
    BY <2>1 DEF WorkerExit, ExitNow
  <2>2. CASE TakeBuild \/ TakeJob \/ Finish \/ EndScan \/ \E f \in Files : ScanFile(f)
    BY <2>2 DEF TakeBuild, TakeJob, Finish, ScanFile, EndScan
  <2>3. CASE BeginWalk \/ ListingFails \/ AbortWalk \/ EndWalk
    BY <2>3, ReturnsToCaller DEF BeginWalk, ListingFails, AbortWalk, EndWalk
  <2>4. CASE \E e \in walk : VisitTemp(e) \/ VisitSkip(e) \/ VisitMeta(e) \/ VisitGz(e)
    BY <2>4 DEF VisitTemp, VisitSkip, VisitMeta, VisitGz, Visit
  <2>5. CASE Compress
    BY <2>5 DEF Compress, CompressOpen, CompressRead, CompressAbort, Inspect, MarkSkip,
                MoveSkip, WriteMeta, DropGz, MoveGz, DropMeta, MoveMeta, Record, CompressStep
  <2> QED BY <2>1, <2>2, <2>3, <2>4, <2>5 DEF Worker, Maintain
<1>3. RequestsOK'
  BY <1>1 DEF ServiceOK, RequestsOK
<1>4. StopOK'
  BY <1>1, <1>2 DEF ServiceOK, StopOK
<1> QED BY <1>1, <1>3, <1>4 DEF ServiceOK, MarkersOK

LEMMA CompressService ==
  ASSUME TypeOK, HeldOK, ServiceOK, Compress PROVE PublishOK' /\ MarkersOK'
<1> USE DEF source, disk, http
<1>0. UNCHANGED <<version, maxBytes>> /\ maxBytes # 0
  BY WorkerServiceFrame DEF Worker
<1>1. /\ UNCHANGED job /\ job \in Identities
      /\ version[job[1]] \in Nat /\ job[2] \in Nat
      /\ skip \in [Identities -> Budgets \cup {0}]
  <2>1. UNCHANGED job /\ wpc \in Compressing
    BY DEF Compress, CompressOpen, CompressRead, CompressAbort, Inspect, MarkSkip,
           MoveSkip, WriteMeta, DropGz, MoveGz, DropMeta, MoveMeta, Record, CompressStep,
           Compressing
  <2> QED BY <2>1, IdentityParts DEF HeldOK, TypeOK, Versions
<1>2. /\ \A k \in Identities : skip[k] # 0 => NoGain(k, skip[k])
      /\ wpc \in {"mark", "mvskip"} => NoGain(job, maxBytes)
      /\ wpc \in Reading => version[job[1]] >= job[2]
      /\ wpc \in Reading \ {"read"} => blocks # {}
  BY DEF ServiceOK, MarkersOK, PublishOK
<1>3. CASE CompressOpen \/ CompressRead \/ CompressAbort
  <2>1. /\ wpc' \in {"finish", "read"} /\ UNCHANGED skip
        /\ wpc' = "read" => version[job[1]] >= job[2]
    BY <1>1, <1>2, <1>3 DEF CompressOpen, CompressRead, CompressAbort, CompressStep, Current,
                            Reading
  <2> QED BY <1>0, <1>1, <1>2, <2>1 DEF PublishOK, MarkersOK, Reading
<1>4. CASE Inspect
  <2>1. /\ wpc = "read" /\ wpc' \in {"finish", "mark", "meta"} /\ UNCHANGED <<skip, blocks>>
        /\ blocks # {}
        /\ wpc' = "mark" => NoGain(job, maxBytes)
    BY <1>4 DEF Inspect, CompressStep, SkipPolicy, NoGain
  <2> QED BY <1>0, <1>1, <1>2, <2>1 DEF PublishOK, MarkersOK, Reading
<1>5. CASE MarkSkip \/ WriteMeta \/ DropGz
  <2>1. /\ wpc \in {"mark", "meta", "dropgz"} /\ wpc' \in {"finish", "mvskip", "dropgz", "mvgz"}
        /\ wpc' = "mvskip" => wpc = "mark"
        /\ UNCHANGED <<skip, blocks>>
    BY <1>5 DEF MarkSkip, WriteMeta, DropGz, CompressStep
  <2> QED BY <1>0, <1>1, <1>2, <2>1 DEF PublishOK, MarkersOK, Reading
<1>6. CASE MoveSkip
  <2>1. /\ wpc = "mvskip" /\ wpc' = "finish"
        /\ skip' = [skip EXCEPT ![job] = maxBytes] \/ skip' = [skip EXCEPT ![job] = 0]
    BY <1>6 DEF MoveSkip, CompressStep
  <2>2. \A k \in Identities : skip'[k] # 0 => NoGain(k, skip'[k])
    BY <1>1, <1>2, <2>1
  <2> QED BY <1>0, <1>1, <2>1, <2>2 DEF PublishOK, MarkersOK, Reading
<1>7. CASE MoveGz \/ DropMeta \/ MoveMeta \/ Record
  <2>1. /\ wpc' \in {"finish", "dropmeta", "mvmeta", "record", "begin"}
        /\ skip' = skip \/ skip' = [skip EXCEPT ![job] = 0]
    BY <1>7 DEF MoveGz, DropMeta, MoveMeta, Record, CompressStep
  <2>2. \A k \in Identities : skip'[k] # 0 => NoGain(k, skip'[k])
    BY <1>1, <1>2, <2>1
  <2> QED BY <1>0, <1>1, <2>1, <2>2 DEF PublishOK, MarkersOK, Reading
<1> QED BY <1>3, <1>4, <1>5, <1>6, <1>7 DEF Compress

LEMMA WorkerService ==
  ASSUME TypeOK, HeldOK, ServiceOK, Worker PROVE ServiceOK'
<1> USE DEF source, disk, task, http
<1>0. RequestsOK' /\ StopOK' /\ UNCHANGED <<version, maxBytes>> /\ maxBytes # 0
  BY WorkerServiceFrame
<1>1. \A k \in Identities : skip[k] # 0 => NoGain(k, skip[k])
  BY DEF ServiceOK, MarkersOK
<1>2. CASE Compress
  BY <1>0, <1>2, CompressService DEF ServiceOK
<1>3. CASE WorkerExit \/ TakeBuild \/ TakeJob \/ Finish \/ EndScan
           \/ (\E f \in Files : ScanFile(f))
  <2>1. wpc' \in {"exited", "begin", "open", "scan", "wait"} /\ UNCHANGED skip
    BY <1>3 DEF WorkerExit, TakeBuild, TakeJob, Finish, ScanFile, EndScan
  <2>2. PublishOK' /\ MarkersOK'
    BY <1>0, <1>1, <2>1 DEF PublishOK, MarkersOK, Reading
  <2> QED BY <1>0, <2>2 DEF ServiceOK
<1>4. CASE Maintain
  <2>1. wpc' \in {"walk", "finish", "scan", "wait"}
    BY <1>4, ReturnsToCaller DEF Maintain, BeginWalk, ListingFails, AbortWalk, EndWalk,
       VisitTemp, VisitSkip, VisitMeta, VisitGz, Visit
  <2>2. \A k \in Identities : skip'[k] = skip[k] \/ skip'[k] = 0
    BY <1>4 DEF Maintain, BeginWalk, ListingFails, AbortWalk, EndWalk,
       VisitTemp, VisitSkip, VisitMeta, VisitGz, TypeOK
  <2>3. PublishOK' /\ MarkersOK'
    BY <1>0, <1>1, <2>1, <2>2 DEF PublishOK, MarkersOK, Reading
  <2> QED BY <1>0, <2>3 DEF ServiceOK
<1> QED BY <1>2, <1>3, <1>4 DEF Worker

LEMMA NextService ==
  TypeOK /\ HeldOK /\ ServiceOK /\ [Next]_vars => ServiceOK'
<1> SUFFICES ASSUME TypeOK, HeldOK, ServiceOK, [Next]_vars PROVE ServiceOK'
  OBVIOUS
<1>1. CASE Content \/ Game \/ Crash
  BY <1>1, ContentService, GameService
<1>2. CASE \E t \in Threads : Http(t)
  BY <1>2, HttpService
<1>3. CASE Worker
  BY <1>3, WorkerService
<1>4. CASE UNCHANGED vars
  <2> USE <1>4 DEF vars, source, disk, queue, counters, worker, task, http
  <2>1. RequestsOK' /\ StopOK'
    BY DEF ServiceOK, RequestsOK, StopOK
  <2>2. PublishOK' /\ MarkersOK'
    BY DEF ServiceOK, PublishOK, MarkersOK
  <2> QED BY <2>1, <2>2 DEF ServiceOK
<1> QED BY <1>1, <1>2, <1>3, <1>4 DEF Next


LEMMA LookupGivesUp ==
  ASSUME TypeOK, HeldOK, ServiceOK, [Next]_vars, NEW t \in Threads,
         hpc[t] = "miss", hpc'[t] = "idle", ~stopping'
  PROVE  SkipPolicy(hid[t])
<1> USE DEF To, Release, http
<1>1. hpc \in [Threads -> HttpPCs]
  BY DEF TypeOK
<1>2. CASE Content
  BY <1>2 DEF Content, Modify, Delete, Create
<1>3. CASE Game \/ Crash
  BY <1>3 DEF Game, Start, RequestBuild, StopBegin, StopEnd, Crash
<1>4. ASSUME NEW u \in Threads, Http(u) PROVE SkipPolicy(hid[t])
  <2>1. CASE u # t
    BY <1>1, <1>4, <2>1 DEF Http, OpenSource, CheckMeta, CheckGz, OpenCached, EndTransfer,
                            CheckSkip, Enqueue
  <2>2. CASE u = t
    <3>1. CheckSkip(t) /\ SkipMatches(hid[t])
      BY <1>1, <1>4, <2>2 DEF Http, OpenSource, CheckMeta, CheckGz, OpenCached, EndTransfer,
                              CheckSkip, Enqueue
    <3>2. hid[t] \in Identities
      BY DEF HeldOK
    <3>3. ~stopping /\ wpc # "down" /\ maxBytes # 0
      BY <3>1 DEF CheckSkip, queue, ServiceOK, StopOK, MarkersOK
    <3>4. NoGain(hid[t], maxBytes)
      BY <3>1, <3>2, <3>3 DEF SkipMatches, ServiceOK, MarkersOK
    <3> QED BY <3>4 DEF NoGain, SkipPolicy
  <2> QED BY <2>1, <2>2
<1>5. CASE Worker
  <2>1. UNCHANGED hpc
    <3>1. CASE WorkerExit \/ TakeBuild \/ TakeJob \/ Finish \/ EndScan
               \/ \E f \in Files : ScanFile(f)
      BY <3>1 DEF WorkerExit, TakeBuild, TakeJob, Finish, ScanFile, EndScan
    <3>2. CASE Maintain
      BY <3>2 DEF Maintain, BeginWalk, ListingFails, AbortWalk, EndWalk, VisitTemp,
                  VisitSkip, VisitMeta, VisitGz, Visit
    <3>3. CASE Compress
      BY <3>3 DEF Compress, CompressOpen, CompressRead, CompressAbort, Inspect, MarkSkip,
                  MoveSkip, WriteMeta, DropGz, MoveGz, DropMeta, MoveMeta, Record,
                  CompressStep
    <3> QED BY <1>5, <3>1, <3>2, <3>3 DEF Worker
  <2> QED BY <2>1
<1>6. CASE UNCHANGED vars
  BY <1>6 DEF vars
<1> QED BY <1>2, <1>3, <1>4, <1>5, <1>6 DEF Next

\* lookup() only gives a source up for good when compressing it would not pay
\* under the budget in force: every skip marker that survives a start, a prune
\* or a crash names a budget for which that was decided, for any budgets, sizes,
\* number of HTTP workers, and with disk faults.
THEOREM SkipsAreJustified == Spec => SkipJustified
<1> DEFINE IInv == TypeOK /\ HeldOK /\ ServiceOK
<1>1. Init => IInv
  BY InitType, InitService
<1>2. IInv /\ [Next]_vars => IInv'
  BY NextType, NextService
<1>3. IInv /\ [Next]_vars =>
        [\A t \in Threads : hpc[t] = "miss" /\ hpc'[t] = "idle" /\ ~stopping'
                              => SkipPolicy(hid[t])]_vars
  BY LookupGivesUp
<1> QED BY <1>1, <1>2, <1>3, PTL DEF Spec, SkipJustified

-----------------------------------------------------------------------------
(* The cache implements the store. *)

LEMMA StoreInit == Init => Store!Init
  BY DEF Init, Store!Init, Store!Identities, Identities, Versions


\* What the store shows stays as it is: nothing happens there.
LEMMA StoreStutters ==
  ASSUME UNCHANGED <<version, present, gz, hid, body>>,
         wpc' = "down" <=> wpc = "down"
  PROVE  UNCHANGED Store!vars
<1>1. (wpc # "down")' = (wpc # "down")
  OBVIOUS
<1> QED BY <1>1 DEF Store!vars, Store!files, Store!requests

LEMMA ContentImplements == TypeOK /\ Content => Store!Next
<1> SUFFICES ASSUME TypeOK, NEW f \in Files, Modify(f) \/ Delete(f) \/ Create(f)
             PROVE  Store!Next
  BY DEF Content
<1>1. UNCHANGED <<gz, wpc, hid, body>>
  BY DEF Modify, Delete, Create, disk, worker, http
<1>2. (wpc # "down")' = (wpc # "down")
  BY <1>1
<1>3. CASE Delete(f)
  <2>1. Store!Remove(f)
    BY <1>1, <1>2, <1>3 DEF Delete, Store!Remove, Store!requests
  <2> QED BY <2>1 DEF Store!Next
<1>4. CASE Modify(f) \/ Create(f)
  <2>1. present' = present \cup {f}
    BY <1>4 DEF Modify, Create
  <2>2. Store!Replace(f)
    BY <1>1, <1>2, <1>4, <2>1 DEF Modify, Create, Store!Replace, Store!requests
  <2> QED BY <2>2 DEF Store!Next
<1> QED BY <1>3, <1>4

LEMMA GameImplements ==
  ASSUME TypeOK, HeldOK, ServiceOK, Game \/ Crash
  PROVE  Store!Next \/ UNCHANGED Store!vars
<1> USE DEF source, disk, queue, counters, worker, task, http
<1>1. CASE Crash
  <2>1. Store!Crash
    BY <1>1 DEF Crash, Store!Crash, Store!files
  <2> QED BY <2>1 DEF Store!Next
<1>2. ASSUME NEW m \in Budgets, Start(m) PROVE Store!Next
  <2>1. Store!Start
    BY <1>2 DEF Start, Store!Start, Store!files, Store!requests
  <2> QED BY <2>1 DEF Store!Next
<1>3. CASE RequestBuild \/ StopBegin
  BY <1>3, StoreStutters DEF RequestBuild, StopBegin
<1>4. CASE StopEnd
  <2>1. \A t \in Threads : hid[t] = NoJob
    BY <1>4 DEF StopEnd, ServiceOK, StopOK, RequestsOK
  <2>2. hid = [t \in Threads |-> NoJob]
    BY <2>1 DEF TypeOK
  <2>3. Store!Stop
    BY <1>4, <2>2 DEF StopEnd, Store!Stop, Store!files, Store!requests
  <2> QED BY <2>3 DEF Store!Next
<1> QED BY <1>1, <1>2, <1>3, <1>4 DEF Game

LEMMA HttpImplements ==
  ASSUME TypeOK, HeldOK, Faithful, ServiceOK, NEW t \in Threads, Http(t)
  PROVE  Store!Next \/ UNCHANGED Store!vars
<1> USE DEF To, Release, source, disk, worker
<1>1. UNCHANGED <<version, present, gz, wpc>> /\ (wpc # "down")' = (wpc # "down")
  BY DEF Http, OpenSource, CheckMeta, CheckGz, OpenCached, EndTransfer, CheckSkip, Enqueue
<1>2. ASSUME NEW f \in Files, OpenSource(t, f) PROVE Store!Next
  <2>1. hid[t] = NoJob /\ wpc # "down"
    BY <1>2 DEF OpenSource, ServiceOK, RequestsOK, StopOK
  <2>2. Store!Ask(t, f)
    BY <1>1, <1>2, <2>1 DEF OpenSource, Store!Ask, Store!files
  <2> QED BY <2>2 DEF Store!Next
<1>3. CASE CheckMeta(t) \/ CheckGz(t)
  BY <1>1, <1>3, StoreStutters DEF CheckMeta, CheckGz
<1>4. hpc[t] # "idle" => hid[t] \in Identities /\ hid[t] # NoJob
  BY CacheConstants DEF HeldOK
<1>5. CASE hpc[t] # "idle" /\ Release(t)
  <2>1. Store!Finish(t)
    BY <1>1, <1>4, <1>5 DEF Store!Finish, Store!files
  <2> QED BY <2>1 DEF Store!Next
<1>6. CASE OpenCached(t)
  <2>1. CASE Release(t)
    BY <1>5, <1>6, <2>1 DEF OpenCached
  <2>2. CASE gz[hid[t]] # {} /\ ~Release(t)
    <3>1. body[t] = {} /\ hid[t] \in Identities /\ hid[t] # NoJob
      BY <1>4, <1>6 DEF OpenCached, ServiceOK, RequestsOK
    <3>2. gz[hid[t]] = {hid[t][2]}
      BY <2>2, <3>1 DEF Faithful, RepresentationFaithful
    <3>3. body' = [body EXCEPT ![t] = {hid[t][2]}] /\ UNCHANGED hid
      BY <1>6, <2>2, <3>2 DEF OpenCached
    <3>4. Store!Send(t)
      BY <1>1, <2>2, <3>1, <3>3 DEF Store!Send, Store!files
    <3> QED BY <3>4 DEF Store!Next
  <2> QED BY <1>6, <2>1, <2>2 DEF OpenCached
<1>7. CASE EndTransfer(t) \/ CheckSkip(t) \/ Enqueue(t)
  <2>1. (hpc[t] # "idle" /\ Release(t)) \/ UNCHANGED <<hid, body>>
    BY <1>7 DEF EndTransfer, CheckSkip, Enqueue
  <2> QED BY <1>1, <1>5, <2>1, StoreStutters
<1> QED BY <1>2, <1>3, <1>6, <1>7 DEF Http

\* A step that removes artifacts withdraws them from the store.
LEMMA EvictImplements ==
  ASSUME TypeOK, NEW S, Evict(S), UNCHANGED <<version, present, hid, body>>,
         wpc # "down", wpc' # "down"
  PROVE  Store!Next
<1>1. Store!Identities = Identities
  BY DEF Store!Identities, Identities, Versions
<1>2. PICK R \in SUBSET Identities : R = Identities \cap Removable(S)
  OBVIOUS
<1>3. gz' = [k \in Identities |-> IF k \in R THEN {} ELSE gz[k]]
  BY <1>2 DEF Evict
<1>4. (wpc # "down")' = (wpc # "down")
  OBVIOUS
<1>5. Store!Withdraw(R)
  BY <1>1, <1>3, <1>4 DEF Store!Withdraw, Store!files, Store!requests
<1> QED BY <1>1, <1>5 DEF Store!Next


LEMMA WorkerKeepsRequests ==
  ASSUME TypeOK, HeldOK, ServiceOK, Worker
  PROVE  UNCHANGED <<version, present, hid, body>> /\ wpc # "down" /\ wpc' # "down"
<1> USE DEF source, http
<1>1. CASE WorkerExit \/ TakeBuild \/ TakeJob \/ Finish \/ EndScan
           \/ \E f \in Files : ScanFile(f)
  BY <1>1 DEF WorkerExit, TakeBuild, TakeJob, Finish, ScanFile, EndScan
<1>2. CASE Maintain
  BY <1>2, ReturnsToCaller DEF Maintain, BeginWalk, ListingFails, AbortWalk, EndWalk,
     VisitTemp, VisitSkip, VisitMeta, VisitGz, Visit
<1>3. CASE Compress
  BY <1>3 DEF Compress, CompressOpen, CompressRead, CompressAbort, Inspect, MarkSkip,
              MoveSkip, WriteMeta, DropGz, MoveGz, DropMeta, MoveMeta, Record, CompressStep
<1> QED BY <1>1, <1>2, <1>3 DEF Worker

LEMMA WorkerImplements ==
  ASSUME TypeOK, HeldOK, Faithful, ServiceOK, Worker
  PROVE  Store!Next \/ UNCHANGED Store!vars
<1> USE DEF disk
<1>0. UNCHANGED <<version, present, hid, body>> /\ wpc # "down" /\ wpc' # "down"
  BY WorkerKeepsRequests
<1>1. CASE UNCHANGED gz
  BY <1>0, <1>1, StoreStutters
<1>2. ASSUME NEW S, Evict(S) PROVE Store!Next
  BY <1>0, <1>2, EvictImplements
<1>3. CASE DropGz
  <2>1. job \in Identities
    BY <1>3 DEF DropGz, CompressStep, HeldOK, Compressing
  <2>2. CASE Pinned(job)
    BY <1>1, <1>3, <2>2 DEF DropGz, TypeOK
  <2>3. CASE ~Pinned(job)
    <3>1. gz' = [k \in Identities |-> IF k \in {job} THEN {} ELSE gz[k]]
      BY <1>3, <2>1, <2>3 DEF DropGz, TypeOK
    <3>2. Store!Identities = Identities
      BY DEF Store!Identities, Identities, Versions
    <3>3. (wpc # "down")' = (wpc # "down")
      BY <1>0
    <3>4. Store!Withdraw({job})
      BY <1>0, <3>1, <3>2, <3>3 DEF Store!Withdraw, Store!files, Store!requests
    <3> QED BY <2>1, <3>2, <3>4 DEF Store!Next
  <2> QED BY <2>2, <2>3
<1>4. CASE MoveGz /\ ~UNCHANGED gz
  <2>1. wpc = "mvgz" /\ gz' = [gz EXCEPT ![job] = blocks]
    BY <1>4 DEF MoveGz, CompressStep
  <2>2. job \in Identities
    BY <2>1 DEF HeldOK, Compressing
  <2>3. blocks = {job[2]} /\ version[job[1]] >= job[2]
    BY <2>1 DEF Faithful, ReadOK, ServiceOK, PublishOK, Reading
  <2>4. job[2] \in Int /\ version[job[1]] \in Int
    BY <2>2, IdentityParts DEF TypeOK, Versions
  <2>5. (wpc # "down")' = (wpc # "down")
    BY <1>0
  <2>6. gz' = [gz EXCEPT ![job] = {job[2]}] /\ job[2] <= version[job[1]]
    BY <2>1, <2>3, <2>4
  <2>7. Store!Publish(job)
    BY <1>0, <2>5, <2>6 DEF Store!Publish, Store!files, Store!requests
  <2>8. job \in Store!Identities
    BY <2>2 DEF Store!Identities, Identities, Versions
  <2> QED BY <2>7, <2>8 DEF Store!Next
<1>5. CASE WorkerExit \/ TakeBuild \/ TakeJob \/ Finish \/ EndScan
           \/ \E f \in Files : ScanFile(f)
  BY <1>1, <1>5 DEF WorkerExit, TakeBuild, TakeJob, Finish, ScanFile, EndScan
<1>6. CASE Maintain
  <2>1. UNCHANGED gz \/ \E S : Evict(S)
    BY <1>6 DEF Maintain, BeginWalk, ListingFails, AbortWalk, EndWalk, VisitTemp,
                VisitSkip, VisitMeta, VisitGz
  <2> QED BY <1>1, <1>2, <2>1
<1>7. CASE Compress
  <2>1. CASE CompressOpen \/ CompressRead \/ CompressAbort \/ Inspect
    BY <1>1, <2>1 DEF CompressOpen, CompressRead, CompressAbort, Inspect
  <2>2. CASE MarkSkip \/ MoveSkip \/ WriteMeta
    BY <1>1, <1>2, <2>2 DEF MarkSkip, MoveSkip, WriteMeta
  <2>3. CASE DropMeta \/ MoveMeta \/ Record
    BY <1>1, <1>2, <2>3 DEF DropMeta, MoveMeta, Record
  <2> QED BY <1>1, <1>3, <1>4, <1>7, <2>1, <2>2, <2>3 DEF Compress
<1> QED BY <1>5, <1>6, <1>7 DEF Worker

\* The compression cache implements the store of representations, for every
\* number of files, versions, HTTP workers, queue bound and budget, with disk
\* faults, pinned files and crashes: publishing is the rename of the artifact,
\* and eviction, a replaced artifact and a failed publication are withdrawals;
\* a response is sent from exactly the version its request opened.
THEOREM CacheImplementsStore == Spec => ImplementsStore
<1> DEFINE IInv == TypeOK /\ HeldOK /\ Faithful /\ ServiceOK
<1>1. Init => IInv
  BY InitType, InitFaithful, InitService
<1>2. IInv /\ [Next]_vars => IInv'
  BY NextType, NextFaithful, NextService
<1>3. Init => Store!Init
  BY StoreInit
<1>4. IInv /\ [Next]_vars => [Store!Next]_Store!vars
  <2> SUFFICES ASSUME IInv, [Next]_vars PROVE Store!Next \/ UNCHANGED Store!vars
    OBVIOUS
  <2>1. CASE Content
    BY <2>1, ContentImplements
  <2>2. CASE Game \/ Crash
    BY <2>2, GameImplements
  <2>3. CASE \E t \in Threads : Http(t)
    BY <2>3, HttpImplements
  <2>4. CASE Worker
    BY <2>4, WorkerImplements
  <2>5. CASE UNCHANGED vars
    BY <2>5, StoreStutters DEF vars, source, disk, worker, http
  <2> QED BY <2>1, <2>2, <2>3, <2>4, <2>5 DEF Next
<1> QED BY <1>1, <1>2, <1>3, <1>4, PTL DEF Spec, ImplementsStore, Store!Spec


-----------------------------------------------------------------------------
(* Limits and tidiness of the directory, for a disk without faults. *)

\* An artifact is only ever made of a source it saves 5% of.
WorthOK ==
    /\ \A k \in Identities : gz[k] # {} =>
         CompressedSize[k] < SourceSize[k] - SourceSize[k] \div 20
    /\ wpc \in {"meta", "dropgz", "mvgz"} => ~NoGain(job, maxBytes)

\* The modification times order the artifacts.
OrderOK ==
    /\ \A p \in older : gz[p[1]] # {} /\ gz[p[2]] # {} /\ p[1] # p[2]
    /\ \A j, k \in Artifacts : j # k => <<j, k>> \in older \/ <<k, j>> \in older
    /\ \A i, j, k \in Identities :
         <<i, j>> \in older /\ <<j, k>> \in older => <<i, k>> \in older

\* maintainCache(): what is not yet as it should be is still to be visited.
Walked ==
    /\ temps \subseteq walk
    /\ \A k \in metas : gz[k] = {} => <<"meta", k>> \in walk
    /\ \A k \in Artifacts : k \in kept \/ <<"gz", k>> \in walk
    /\ kept \subseteq Artifacts \cap metas
    /\ \A k \in kept : <<"gz", k>> \notin walk
    /\ Cardinality(kept) <= MaximumCacheEntries

\* The temporaries of compress() at each of its steps.
TempsAt(pc) ==
    CASE pc \in {"read", "mark", "meta"}  -> {"gz.tmp"}
      [] pc = "mvskip"                    -> {"skip.tmp"}
      [] pc \in {"dropgz", "mvgz"}        -> {"gz.tmp", "meta.tmp"}
      [] pc \in {"dropmeta", "mvmeta"}    -> {"meta.tmp"}
      [] OTHER                            -> {}

\* Between two walks: only the job's own files may be out of step.
Swapping == {"mvgz", "dropmeta", "mvmeta"}
Tidy ==
    /\ temps \subseteq TempsAt(wpc) \X {job}
    /\ \A k \in Identities : k # job \/ wpc \notin Swapping => (k \in metas <=> gz[k] # {})
    /\ wpc \in {"dropmeta", "mvmeta"} => gz[job] # {}
    /\ \A k \in Artifacts : CompressedSize[k] <= maxBytes

\* Between two walks: the counters cover the artifacts but the one that is being
\* published, and at the end of compress() also the one that it removed.
Counted == IF wpc \in {"dropmeta", "mvmeta", "record"} THEN Artifacts \ {job} ELSE Artifacts
Removed == IF wpc = "mvskip" THEN removedSize ELSE 0
Counts ==
    /\ bytes \in Nat
    /\ Total(Counted) + Removed <= bytes /\ bytes <= maxBytes
    /\ Cardinality(Counted) + (IF Removed = 0 THEN 0 ELSE 1) <= entries
    /\ entries <= MaximumCacheEntries

Resting == wpc \notin {"down", "begin", "walk", "exited"}
DirectoryOK ==
    /\ WorthOK
    /\ OrderOK
    /\ ~stopping /\ wpc = "walk" => Walked
    /\ ~stopping /\ Resting => Tidy /\ Counts


\* Writes, renames and listings succeed, and open files can be removed.
FaultFree == ~DiskFaults /\ ~PinsOpenFiles

LEMMA ArtifactsFinite ==
  /\ IsFiniteSet(Artifacts) /\ Artifacts \subseteq Identities
  /\ \A S : S \subseteq Identities => IsFiniteSet(S)
<1>1. Artifacts \subseteq Identities
  BY DEF Artifacts
<1> QED BY <1>1, IdentitiesFinite, FS_Subset

LEMMA TotalOfOne ==
  ASSUME NEW S, S \subseteq Identities, NEW k \in S
  PROVE  CompressedSize[k] <= Total(S) /\ Total(S) = Total(S \ {k}) + CompressedSize[k]
<1> DEFINE R == S \ {k}
<1>1. IsFiniteSet(R) /\ k \notin R /\ \A j \in R \cup {k} : CompressedSize[j] \in Nat
  BY ArtifactsFinite, SizesTyped
<1>2. SumOver(CompressedSize, R \cup {k}) = SumOver(CompressedSize, R) + CompressedSize[k]
  BY <1>1, SumAdd, Zenon
<1>3. R \cup {k} = S
  OBVIOUS
<1>4. Total(S) = Total(R) + CompressedSize[k]
  BY <1>2, <1>3, Zenon DEF Total
<1>5. Total(R) \in Nat /\ CompressedSize[k] \in Nat
  BY <1>1, TotalTyped
<1> QED BY <1>4, <1>5

\* files.top() of a non-empty heap is the least recently written of its files.
LEMMA OldestExists ==
  ASSUME TypeOK, OrderOK, NEW S, S \subseteq Artifacts, S # {}
  PROVE  Oldest(S) \in S /\ \A j \in S \ {Oldest(S)} : <<Oldest(S), j>> \in older
<1> DEFINE First(k, T) == \A j \in T \ {k} : <<k, j>> \in older
           B == {T \in SUBSET Artifacts : T = {} \/ \E k \in T : First(k, T)}
<1>1. {} \in B
  OBVIOUS
<1>2. ASSUME NEW T \in SUBSET Artifacts, T # {}, \A x \in T : T \ {x} \in B
      PROVE  T \in B
  <2>1. PICK x \in T : TRUE
    BY <1>2
  <2>2. CASE T \ {x} = {}
    <3>1. First(x, T)
      BY <2>2
    <3> QED BY <2>1, <3>1
  <2>3. CASE T \ {x} # {}
    <3>1. PICK k \in T \ {x} : First(k, T \ {x})
      BY <1>2, <2>1, <2>3
    <3>2. k \in Artifacts /\ x \in Artifacts /\ k # x
      BY <1>2, <2>1, <3>1
    <3>3. <<k, x>> \in older \/ <<x, k>> \in older
      BY <3>2 DEF OrderOK
    <3>4. CASE <<k, x>> \in older
      <4>1. First(k, T)
        BY <3>1, <3>4
      <4> QED BY <3>1, <4>1
    <3>5. CASE <<x, k>> \in older
      <4>1. ASSUME NEW j \in T \ {x} PROVE <<x, j>> \in older
        <5>1. j = k \/ <<k, j>> \in older
          BY <3>1
        <5>2. j \in Identities /\ k \in Identities /\ x \in Identities
          BY <3>2, ArtifactsFinite
        <5> QED BY <3>5, <5>1, <5>2 DEF OrderOK
      <4> QED BY <2>1, <4>1
    <3> QED BY <3>3, <3>4, <3>5
  <2> QED BY <2>2, <2>3
<1>3. SUBSET Artifacts \subseteq B
  <2>1. \A T \in SUBSET Artifacts : T # {} /\ (\A x \in T : T \ {x} \in B) => T \in B
    BY <1>2
  <2> HIDE DEF B
  <2> QED BY <1>1, <2>1, ArtifactsFinite, SubsetInduction
<1>4. \E k \in S : First(k, S)
  BY <1>3
<1> QED BY <1>4 DEF Oldest

\* What maintainCache() keeps of the artifacts S is within the budget.
LEMMA PruneFits ==
  ASSUME TypeOK, OrderOK, NEW S, S \subseteq Artifacts
  PROVE  /\ Total(S \ PruneSet(S)) <= maxBytes
         /\ \A k \in S \ PruneSet(S) : CompressedSize[k] <= maxBytes
<1> DEFINE R == S \ PruneSet(S)
           After(k) == {k} \cup {j \in S : <<k, j>> \in older}
<1>1. S \subseteq Identities /\ R \subseteq Identities
  BY ArtifactsFinite
<1>2. maxBytes \in Nat /\ PruneTarget \in Int /\ PruneTarget <= maxBytes
  <2>1. maxBytes \in Nat
    BY CacheConstants DEF TypeOK
  <2> QED BY <2>1 DEF PruneTarget
<1>3. Total(R) \in Nat /\ Total(S) \in Nat
  BY <1>1, TotalTyped
<1>4. Total(R) <= maxBytes
  <2>1. CASE Total(S) <= maxBytes
    <3>1. R = S
      BY <2>1 DEF PruneSet
    <3> QED BY <2>1, <3>1, Zenon
  <2>2. CASE ~(Total(S) <= maxBytes) /\ R = {}
    <3>1. Total({}) = 0
      BY SumEmpty DEF Total
    <3>2. Total(R) = 0
      BY <2>2, <3>1, Zenon
    <3> QED BY <1>2, <3>2
  <2>3. CASE ~(Total(S) <= maxBytes) /\ R # {}
    <3>1. PICK o \in R : \A j \in R \ {o} : <<o, j>> \in older
      <4>1. R \subseteq Artifacts
        OBVIOUS
      <4> QED BY <2>3, <4>1, OldestExists
    <3>2. ~(Total(After(o)) > PruneTarget)
      BY <2>3, <3>1 DEF PruneSet
    <3>3. R \subseteq After(o) /\ After(o) \subseteq Identities
      BY <1>1, <3>1
    <3>4. Total(After(o)) \in Nat /\ Total(R) <= Total(After(o))
      BY <3>3, TotalTyped
    <3> QED BY <1>2, <1>3, <3>2, <3>4
  <2> QED BY <2>1, <2>2, <2>3
<1>5. ASSUME NEW k \in R PROVE CompressedSize[k] <= maxBytes
  <2>1. CompressedSize[k] <= Total(R) /\ CompressedSize[k] \in Nat
    BY <1>1, <1>5, TotalOfOne, SizesTyped
  <2> QED BY <1>2, <1>3, <1>4, <2>1
<1> QED BY <1>4, <1>5


\* Artifacts that go leave the others in their order.
LEMMA RemovalKeepsOrder ==
  ASSUME TypeOK, OrderOK, NEW S,
         \A k \in Identities : gz'[k] = IF k \in S THEN {} ELSE gz[k],
         older' = {p \in older : {p[1], p[2]} \cap S = {}}
  PROVE  Artifacts' = Artifacts \ S /\ OrderOK'
<1>1. Artifacts' = Artifacts \ S
  BY DEF Artifacts
<1>2. older \subseteq Identities \X Identities
  BY DEF TypeOK
<1>3. \A i, j : <<i, j>> \in older' <=> <<i, j>> \in older /\ i \notin S /\ j \notin S
  OBVIOUS
<1>4. \A p \in older' : gz'[p[1]] # {} /\ gz'[p[2]] # {} /\ p[1] # p[2]
  <2> SUFFICES ASSUME NEW p \in older'
               PROVE  gz'[p[1]] # {} /\ gz'[p[2]] # {} /\ p[1] # p[2]
    OBVIOUS
  <2>1. p \in older /\ p[1] \notin S /\ p[2] \notin S
    OBVIOUS
  <2>2. p[1] \in Identities /\ p[2] \in Identities
    BY <1>2, <2>1
  <2> QED BY <2>1, <2>2 DEF OrderOK
<1>5. \A j, k \in Artifacts' : j # k => <<j, k>> \in older' \/ <<k, j>> \in older'
  BY <1>1, <1>3 DEF OrderOK
<1>6. \A i, j, k \in Identities :
        <<i, j>> \in older' /\ <<j, k>> \in older' => <<i, k>> \in older'
  BY <1>3 DEF OrderOK
<1> QED BY <1>1, <1>4, <1>5, <1>6 DEF OrderOK

\* removeRepresentation() of the keys in S: they and their markers are gone, the
\* others keep their order.
LEMMA EvictRemoves ==
  ASSUME FaultFree, TypeOK, OrderOK, NEW S, Evict(S)
  PROVE  /\ Artifacts' = Artifacts \ S /\ metas' = metas \ S /\ OrderOK'
         /\ \A k \in Identities : gz'[k] # {} <=> k \notin S /\ gz[k] # {}
         /\ \A k \in Identities : gz'[k] # {} => gz'[k] = gz[k]
<1>1. Removable(S) = S
  BY DEF Removable, Pinned, FaultFree
<1>2. /\ \A k \in Identities : gz'[k] = IF k \in S THEN {} ELSE gz[k]
      /\ metas' = metas \ S
      /\ older' = {p \in older : {p[1], p[2]} \cap S = {}}
  BY <1>1 DEF Evict
<1>3. Artifacts' = Artifacts \ S /\ OrderOK'
  BY <1>2, RemovalKeepsOrder
<1> QED BY <1>2, <1>3

\* A step that touches neither the directory nor the counters, and at most asks
\* the worker to stop.
LEMMA DirectoryFrame ==
  ASSUME DirectoryOK, stopping' = stopping \/ stopping',
         UNCHANGED <<gz, metas, temps, older, entries, bytes, maxBytes, wpc, job,
                     removedSize, walk, kept>>
  PROVE  DirectoryOK'
<1>1. WorthOK' /\ OrderOK'
  BY DEF DirectoryOK, WorthOK, OrderOK, Artifacts
<1>2. ~stopping' /\ wpc' = "walk" => Walked'
  BY DEF DirectoryOK, Walked, Artifacts
<1>3. ~stopping' /\ Resting' => Tidy' /\ Counts'
  BY DEF DirectoryOK, Resting, Tidy, Counts, Counted, Removed, Artifacts
<1> QED BY <1>1, <1>2, <1>3 DEF DirectoryOK

LEMMA InitDirectory == Init => DirectoryOK
<1> SUFFICES ASSUME Init PROVE DirectoryOK
  OBVIOUS
<1>1. WorthOK /\ stopping
  BY DEF Init, WorthOK
<1>2. Artifacts = {} /\ older = {}
  BY DEF Init, Artifacts
<1>3. OrderOK
  BY <1>2 DEF OrderOK
<1> QED BY <1>1, <1>3 DEF DirectoryOK

LEMMA OthersDirectory ==
  ASSUME TypeOK, DirectoryOK,
         Content \/ Game \/ Crash \/ (\E t \in Threads : Http(t)) \/ UNCHANGED vars
  PROVE  DirectoryOK'
<1> USE DEF source, disk, queue, counters, worker, task, walking, http
<1>1. CASE Content
  <2>1. UNCHANGED <<disk, queue, counters, worker>>
    BY <1>1 DEF Content, Modify, Delete, Create
  <2> QED BY <2>1, DirectoryFrame
<1>2. CASE RequestBuild \/ StopBegin
  <2>1. UNCHANGED <<disk, counters, worker>> /\ (stopping' = stopping \/ stopping')
    BY <1>2 DEF RequestBuild, StopBegin
  <2> QED BY <2>1, DirectoryFrame
<1>3. CASE (\E m \in Budgets : Start(m)) \/ StopEnd \/ Crash
  <2>1. UNCHANGED <<gz, older>> /\ wpc' \in {"begin", "down"}
    BY <1>3 DEF Start, StopEnd, Crash
  <2>2. WorthOK' /\ OrderOK'
    BY <2>1 DEF DirectoryOK, WorthOK, OrderOK, Artifacts
  <2> QED BY <2>1, <2>2 DEF DirectoryOK, Resting
<1>4. CASE \E t \in Threads : Http(t)
  <2>1. UNCHANGED <<disk, counters, worker, stopping>>
    BY <1>4 DEF Http, OpenSource, CheckMeta, CheckGz, OpenCached, EndTransfer, CheckSkip,
                Enqueue
  <2> QED BY <2>1, DirectoryFrame
<1>5. CASE UNCHANGED vars
  BY <1>5, DirectoryFrame DEF vars
<1> QED BY <1>1, <1>2, <1>3, <1>4, <1>5 DEF Game

\* run() and scanAndBuild() leave the directory alone.
LEMMA RunDirectory ==
  ASSUME TypeOK, HeldOK, DirectoryOK,
         WorkerExit \/ TakeBuild \/ TakeJob \/ Finish \/ EndScan
           \/ (\E f \in Files : ScanFile(f))
  PROVE  DirectoryOK'
<1> USE DEF source, disk, queue, counters, task, walking, http
<1>1. UNCHANGED <<disk, counters, stopping>>
  BY DEF WorkerExit, TakeBuild, TakeJob, Finish, ScanFile, EndScan
<1>2. wpc \in {"wait", "scan", "finish"} /\ wpc' \in {"exited", "begin", "open", "scan", "wait"}
  BY DEF WorkerExit, TakeBuild, TakeJob, Finish, ScanFile, EndScan
<1>3. WorthOK' /\ OrderOK'
  BY <1>1, <1>2 DEF DirectoryOK, WorthOK, OrderOK, Artifacts
<1>4. ASSUME ~stopping', Resting' PROVE Tidy' /\ Counts'
  <2>1. Tidy /\ Counts
    BY <1>1, <1>2, <1>4 DEF DirectoryOK, Resting
  <2>2. TempsAt(wpc) = {} /\ TempsAt(wpc') = {}
    BY <1>2 DEF TempsAt
  <2>3. temps' = {} /\ \A k \in Identities : k \in metas <=> gz[k] # {}
    BY <1>1, <1>2, <2>1, <2>2 DEF Tidy, Swapping
  <2>4. Tidy'
    BY <1>1, <1>2, <2>1, <2>3 DEF Tidy, Swapping, Artifacts
  <2>5. Counted' = Counted /\ Removed' = Removed
    BY <1>1, <1>2 DEF Counted, Removed, Artifacts
  <2>6. Counts'
    BY <1>1, <2>1, <2>5 DEF Counts, Total
  <2> QED BY <2>4, <2>6
<1> QED BY <1>2, <1>3, <1>4 DEF DirectoryOK


LEMMA BeginWalkDirectory ==
  ASSUME TypeOK, DirectoryOK, BeginWalk PROVE DirectoryOK'
<1> USE DEF disk
<1>1. UNCHANGED <<gz, metas, temps, older>> /\ walk' = Listing /\ kept' = {} /\ wpc' = "walk"
  BY DEF BeginWalk
<1>2. WorthOK' /\ OrderOK'
  BY <1>1 DEF DirectoryOK, WorthOK, OrderOK, Artifacts
<1>3. temps \subseteq Listing
  BY DEF Listing, TypeOK, Suffixes
<1>4. \A k \in metas : <<"meta", k>> \in Listing
  BY DEF Listing, TypeOK, Suffixes
<1>5. \A k \in Artifacts : <<"gz", k>> \in Listing
  BY DEF Listing, Artifacts, Suffixes
<1>6. Cardinality({}) <= MaximumCacheEntries
  BY FS_EmptySet, CacheConstants
<1>7. Walked'
  BY <1>1, <1>3, <1>4, <1>5, <1>6 DEF Walked, Artifacts
<1> QED BY <1>1, <1>2, <1>7 DEF DirectoryOK, Resting

LEMMA EndWalkDirectory ==
  ASSUME FaultFree, TypeOK, HeldOK, DirectoryOK, EndWalk PROVE DirectoryOK'
<1>1. /\ Evict(PruneSet(kept)) /\ wpc = "walk" /\ wpc' \in {"finish", "scan", "wait"}
      /\ UNCHANGED <<temps, stopping, maxBytes, job>> /\ walk = {}
      /\ entries' = Cardinality(kept \ PruneSet(kept))
      /\ bytes' = Total(kept \ PruneSet(kept))
  BY ReturnsToCaller DEF EndWalk, queue, task
<1>2. /\ Artifacts' = Artifacts \ PruneSet(kept) /\ metas' = metas \ PruneSet(kept) /\ OrderOK'
      /\ \A k \in Identities : gz'[k] # {} <=> k \notin PruneSet(kept) /\ gz[k] # {}
  BY <1>1, EvictRemoves DEF DirectoryOK
<1>3. WorthOK'
  BY <1>1, <1>2 DEF DirectoryOK, WorthOK
<1>4. ASSUME ~stopping PROVE Tidy' /\ Counts'
  <2>1. Walked
    BY <1>1, <1>4 DEF DirectoryOK
  <2>2. temps = {} /\ (\A k \in metas : gz[k] # {}) /\ Artifacts = kept /\ kept \subseteq metas
    BY <1>1, <2>1 DEF Walked
  <2>3. Artifacts' = kept \ PruneSet(kept)
    BY <1>2, <2>2
  <2>4. kept \subseteq Artifacts /\ kept \subseteq Identities
    BY <2>2, ArtifactsFinite
  <2>5. /\ Total(kept \ PruneSet(kept)) <= maxBytes
        /\ \A k \in kept \ PruneSet(kept) : CompressedSize[k] <= maxBytes
    BY <2>4, PruneFits DEF DirectoryOK
  <2>6. /\ kept \ PruneSet(kept) \subseteq Identities
        /\ Cardinality(kept \ PruneSet(kept)) <= Cardinality(kept)
        /\ Cardinality(kept \ PruneSet(kept)) \in Nat /\ Cardinality(kept) \in Nat
    BY <2>4, ArtifactsFinite, FS_Subset, FS_CardinalityType
  <2>7. Total(kept \ PruneSet(kept)) \in Nat
    BY <2>6, TotalTyped
  <2>8. \A k \in Identities : k \in metas <=> gz[k] # {}
    BY <2>2 DEF Artifacts
  <2>9. \A k \in Identities : k \in metas' <=> gz'[k] # {}
    BY <1>2, <2>8
  <2>10. Tidy'
    <3>1. temps' = {} /\ wpc' \notin {"dropmeta", "mvmeta"}
      BY <1>1, <2>2
    <3>2. \A k \in Artifacts' : CompressedSize[k] <= maxBytes'
      BY <1>1, <2>3, <2>5
    <3> QED BY <2>9, <3>1, <3>2 DEF Tidy
  <2>11. Counted' = kept \ PruneSet(kept) /\ Removed' = 0
    BY <1>1, <2>3 DEF Counted, Removed
  <2>12. Total(Counted)' = bytes' /\ Cardinality(Counted)' = entries'
    BY <1>1, <2>11, Zenon DEF Total
  <2>13. Cardinality(kept) <= MaximumCacheEntries /\ MaximumCacheEntries \in Nat
    BY <2>1, CacheConstants DEF Walked
  <2>14. maxBytes \in Nat
    BY CacheConstants DEF TypeOK
  <2>15. Counts'
    BY <1>1, <2>5, <2>6, <2>7, <2>11, <2>12, <2>13, <2>14 DEF Counts
  <2> QED BY <2>10, <2>15
<1> QED BY <1>1, <1>2, <1>3, <1>4 DEF DirectoryOK, Resting

LEMMA VisitDirectory ==
  ASSUME FaultFree, TypeOK, DirectoryOK, NEW e \in walk,
         VisitTemp(e) \/ VisitSkip(e) \/ VisitMeta(e) \/ VisitGz(e)
  PROVE  DirectoryOK'
<1> USE DEF task, queue, counters
<1>0. /\ wpc = "walk" /\ wpc' = "walk" /\ ~stopping /\ walk' = walk \ {e} /\ e \in walk
      /\ UNCHANGED <<job, maxBytes>>
      /\ e[1] \in Suffixes /\ e[2] \in Identities /\ e = <<e[1], e[2]>>
      /\ Walked /\ WorthOK /\ OrderOK
  <2>1. Visit(e)
    BY DEF VisitTemp, VisitSkip, VisitMeta, VisitGz
  <2>2. e[1] \in Suffixes /\ e[2] \in Identities /\ e = <<e[1], e[2]>>
    BY DEF TypeOK
  <2> QED BY <2>1, <2>2 DEF Visit, DirectoryOK
<1>a. ASSUME WorthOK', OrderOK', Walked' PROVE DirectoryOK'
  BY <1>a, <1>0 DEF DirectoryOK, Resting
<1>1. CASE VisitTemp(e)
  <2>1. temps' = temps \ {e} /\ UNCHANGED <<gz, metas, older, kept>> /\ e[1] \in TempKinds
    BY <1>1 DEF VisitTemp
  <2>2. WorthOK' /\ OrderOK'
    BY <1>0, <2>1 DEF WorthOK, OrderOK, Artifacts
  <2>3. e[1] # "meta" /\ e[1] # "gz"
    BY <2>1 DEF TempKinds
  <2>4. Walked'
    BY <1>0, <2>1, <2>3 DEF Walked, Artifacts
  <2> QED BY <1>a, <2>2, <2>4
<1>2. CASE VisitSkip(e)
  <2>1. e[1] = "skip" /\ UNCHANGED <<gz, metas, temps, older, kept>>
    BY <1>2 DEF VisitSkip
  <2>2. WorthOK' /\ OrderOK'
    BY <1>0, <2>1 DEF WorthOK, OrderOK, Artifacts
  <2>3. e \notin temps
    BY <2>1 DEF TypeOK, TempKinds
  <2>4. Walked'
    BY <1>0, <2>1, <2>3 DEF Walked, Artifacts
  <2> QED BY <1>a, <2>2, <2>4
<1>3. CASE VisitMeta(e)
  <2>1. /\ e[1] = "meta" /\ UNCHANGED <<gz, temps, older, kept>>
        /\ metas' = IF gz[e[2]] = {} THEN metas \ {e[2]} ELSE metas
    BY <1>3 DEF VisitMeta, Orphaned
  <2>2. WorthOK' /\ OrderOK'
    BY <1>0, <2>1 DEF WorthOK, OrderOK, Artifacts
  <2>3. e \notin temps
    BY <2>1 DEF TypeOK, TempKinds
  <2>4. Walked'
    BY <1>0, <2>1, <2>3 DEF Walked, Artifacts
  <2> QED BY <1>a, <2>2, <2>4
<1>4. CASE VisitGz(e)
  <2> DEFINE k == e[2]
             full == Cardinality(kept) >= MaximumCacheEntries
  <2>0. e[1] = "gz" /\ UNCHANGED temps /\ e \notin temps
    BY <1>4 DEF VisitGz, TypeOK, TempKinds
  <2>1. kept \subseteq Artifacts /\ kept \subseteq metas /\ IsFiniteSet(kept)
        /\ Cardinality(kept) \in Nat /\ MaximumCacheEntries \in Nat \ {0}
        /\ kept \subseteq Identities
    BY <1>0, ArtifactsFinite, FS_CardinalityType, CacheConstants DEF Walked
  <2>2. ASSUME NEW S, Evict(S) \/ (S = {} /\ UNCHANGED <<gz, metas, older>>),
               NEW K, kept' = K, K \subseteq (kept \cup {k}) \ S,
               kept \ S \subseteq K, k \in S \/ k \in K, k \in K => k \in Artifacts \cap metas,
               Cardinality(K) <= MaximumCacheEntries
        PROVE  DirectoryOK'
    <3>1. /\ Artifacts' = Artifacts \ S /\ metas' = metas \ S /\ OrderOK'
          /\ \A j \in Identities : gz'[j] # {} <=> j \notin S /\ gz[j] # {}
      <4>1. CASE Evict(S)
        BY <1>0, <4>1, EvictRemoves
      <4>2. CASE S = {} /\ UNCHANGED <<gz, metas, older>>
        BY <1>0, <4>2 DEF Artifacts, OrderOK
      <4> QED BY <2>2, <4>1, <4>2
    <3>2. WorthOK'
      BY <1>0, <3>1 DEF WorthOK
    <3>3. temps' \subseteq walk'
      BY <1>0, <2>0 DEF Walked
    <3>4. \A j \in metas' : gz'[j] = {} => <<"meta", j>> \in walk'
      <4> SUFFICES ASSUME NEW j \in metas', gz'[j] = {} PROVE <<"meta", j>> \in walk'
        OBVIOUS
      <4>1. j \in metas /\ j \notin S /\ j \in Identities
        BY <3>1 DEF TypeOK
      <4> QED BY <1>0, <2>0, <3>1, <4>1 DEF Walked
    <3>5. \A j \in Artifacts' : j \in kept' \/ <<"gz", j>> \in walk'
      <4> SUFFICES ASSUME NEW j \in Artifacts' PROVE j \in kept' \/ <<"gz", j>> \in walk'
        OBVIOUS
      <4>1. j \in Artifacts /\ j \notin S
        BY <3>1
      <4>2. CASE j = k
        BY <2>2, <4>1, <4>2
      <4>3. CASE j # k
        <5>1. j \in kept \/ <<"gz", j>> \in walk
          BY <1>0, <4>1 DEF Walked
        <5>2. <<"gz", j>> # e
          BY <4>3
        <5> QED BY <1>0, <2>2, <4>1, <5>1, <5>2
      <4> QED BY <4>2, <4>3
    <3>6. kept' \subseteq Artifacts' \cap metas'
      BY <2>1, <2>2, <3>1
    <3>7. \A j \in kept' : <<"gz", j>> \notin walk'
      <4> SUFFICES ASSUME NEW j \in kept' PROVE <<"gz", j>> \notin walk'
        OBVIOUS
      <4>1. CASE j = k
        BY <1>0, <2>0, <4>1
      <4>2. CASE j # k
        BY <1>0, <2>2, <4>2 DEF Walked
      <4> QED BY <4>1, <4>2
    <3>8. Walked'
      BY <2>2, <3>3, <3>4, <3>5, <3>6, <3>7 DEF Walked
    <3> QED BY <1>a, <3>1, <3>2, <3>8
  <2>3. k \notin kept
    BY <1>0, <2>0 DEF Walked
  <2>4. CASE Evict({k}) /\ UNCHANGED kept
    <3> DEFINE K == kept
    <3>1. K \subseteq (kept \cup {k}) \ {k} /\ kept \ {k} \subseteq K
      BY <2>3
    <3> QED BY <1>0, <2>2, <2>3, <2>4, <3>1 DEF Walked
  <2>5. CASE /\ gz[k] # {} /\ k \in metas /\ ~full
             /\ kept' = kept \cup {k} /\ UNCHANGED <<gz, metas, older>>
    <3>1. k \in Artifacts \cap metas
      BY <1>0, <2>5 DEF Artifacts
    <3>2. Cardinality(kept \cup {k}) = Cardinality(kept) + 1
      BY <2>1, <2>3, FS_AddElement
    <3>3. Cardinality(kept \cup {k}) <= MaximumCacheEntries
      BY <2>1, <2>5, <3>2
    <3>4. /\ kept \cup {k} \subseteq (kept \cup {k}) \ {} /\ kept \ {} \subseteq kept \cup {k}
          /\ k \in kept \cup {k}
      OBVIOUS
    <3> QED BY <2>2, <2>5, <3>1, <3>3, <3>4
  <2>6. CASE /\ gz[k] # {} /\ k \in metas /\ full
             /\ kept' = (kept \ {Oldest(kept)}) \cup {k} /\ Evict({Oldest(kept)})
    <3>1. kept # {}
      BY <2>1, <2>6, FS_EmptySet
    <3>2. PICK o \in kept : o = Oldest(kept)
      BY <1>0, <2>1, <3>1, OldestExists
    <3>3. k \in Artifacts \cap metas /\ k # o
      BY <1>0, <2>3, <2>6, <3>2 DEF Artifacts
    <3> DEFINE K == (kept \ {o}) \cup {k}
    <3>4. IsFiniteSet(kept \ {o}) /\ Cardinality(kept \ {o}) = Cardinality(kept) - 1
      BY <2>1, <3>2, FS_RemoveElement
    <3>5. Cardinality(K) = Cardinality(kept \ {o}) + 1
      BY <2>3, <3>4, FS_AddElement
    <3>6. Cardinality(K) <= MaximumCacheEntries
      BY <1>0, <2>1, <3>4, <3>5 DEF Walked
    <3>7. /\ K \subseteq (kept \cup {k}) \ {o} /\ kept \ {o} \subseteq K /\ k \in K
          /\ kept' = K /\ Evict({o})
      BY <2>6, <3>2, <3>3
    <3> HIDE DEF K
    <3> QED BY <2>2, <3>3, <3>6, <3>7
  <2>7. \/ Evict({k}) /\ UNCHANGED kept
        \/ /\ gz[k] # {} /\ k \in metas /\ ~full
           /\ kept' = kept \cup {k} /\ UNCHANGED <<gz, metas, older>>
        \/ /\ gz[k] # {} /\ k \in metas /\ full
           /\ kept' = (kept \ {Oldest(kept)}) \cup {k} /\ Evict({Oldest(kept)})
    BY <1>4 DEF VisitGz
  <2> QED BY <2>4, <2>5, <2>6, <2>7
<1> QED BY <1>1, <1>2, <1>3, <1>4


\* The steps of compress() before anything of the directory but temporaries is
\* touched.
LEMMA PreparationDirectory ==
  ASSUME FaultFree, TypeOK, HeldOK, DirectoryOK,
         CompressOpen \/ CompressRead \/ CompressAbort \/ Inspect \/ WriteMeta
  PROVE  DirectoryOK'
<1> USE DEF disk
<1>1. /\ wpc \in {"open", "read", "meta"} /\ wpc' \in {"read", "mark", "meta", "dropgz", "finish"}
      /\ wpc' \in {"meta", "dropgz", "mvgz"} => ~NoGain(job, maxBytes)
      /\ UNCHANGED <<gz, metas, older, entries, bytes, stopping, maxBytes, job>>
  BY DEF CompressOpen, CompressRead, CompressAbort, Inspect, WriteMeta, CompressStep, queue,
         SkipPolicy, NoGain, DirectoryOK, WorthOK
<1>2. WorthOK' /\ OrderOK'
  <2>1. WorthOK'
    BY <1>1 DEF DirectoryOK, WorthOK, NoGain
  <2>2. OrderOK'
    BY <1>1 DEF DirectoryOK, OrderOK, Artifacts
  <2> QED BY <2>1, <2>2
<1>3. ASSUME ~stopping PROVE Tidy' /\ Counts'
  <2>1. Tidy /\ Counts
    BY <1>1, <1>3 DEF DirectoryOK, Resting
  <2>2. temps' \subseteq TempsAt(wpc') \X {job}
    <3>1. CASE CompressOpen
      <4>1. wpc = "open" /\ temps \subseteq {} \X {job}
        BY <2>1, <3>1 DEF CompressOpen, CompressStep, Tidy, TempsAt
      <4> QED BY <3>1, <4>1 DEF CompressOpen, CompressStep, TempsAt
    <3>2. CASE CompressRead
      BY <2>1, <3>2 DEF CompressRead, CompressStep, Tidy
    <3>3. CASE CompressAbort \/ Inspect
      <4>1. temps \subseteq {"gz.tmp"} \X {job}
        BY <2>1, <3>3 DEF CompressAbort, Inspect, CompressStep, Tidy, TempsAt
      <4>2. \/ temps' = temps \ {<<"gz.tmp", job>>}
            \/ wpc' \in {"mark", "meta"} /\ temps' = temps
        BY <3>3 DEF CompressAbort, Inspect, CompressStep, FaultFree
      <4>3. CASE temps' = temps \ {<<"gz.tmp", job>>}
        <5>1. temps' = {}
          BY <4>1, <4>3
        <5> QED BY <5>1
      <4>4. CASE wpc' \in {"mark", "meta"} /\ temps' = temps
        BY <4>1, <4>4 DEF TempsAt
      <4> QED BY <4>2, <4>3, <4>4
    <3>4. CASE WriteMeta
      <4>1. /\ wpc = "meta" /\ wpc' = "dropgz" /\ temps' = temps \cup {<<"meta.tmp", job>>}
            /\ temps \subseteq {"gz.tmp"} \X {job}
        BY <2>1, <3>4 DEF WriteMeta, CompressStep, Tidy, TempsAt, FaultFree
      <4> QED BY <4>1 DEF TempsAt
    <3> QED BY <3>1, <3>2, <3>3, <3>4
  <2>3. \A k \in Identities : k \in metas <=> gz[k] # {}
    BY <1>1, <2>1 DEF Tidy, Swapping
  <2>4. Tidy'
    BY <1>1, <2>1, <2>2, <2>3 DEF Tidy, Artifacts
  <2>5. Counted' = Counted /\ Removed' = Removed
    BY <1>1 DEF Counted, Removed, Artifacts
  <2>6. Counts'
    BY <1>1, <2>1, <2>5 DEF Counts, Total
  <2> QED BY <2>4, <2>6
<1> QED BY <1>1, <1>2, <1>3 DEF DirectoryOK, Resting

\* The skip branch: the artifact goes, then its size leaves the counters.
LEMMA SkipDirectory ==
  ASSUME FaultFree, TypeOK, HeldOK, DirectoryOK, MarkSkip \/ MoveSkip
  PROVE  DirectoryOK'
<1>0. /\ job \in Identities /\ entries \in Nat /\ maxBytes \in Nat
      /\ CompressedSize[job] \in Nat /\ removedSize \in Nat
  <2>1. job \in Identities
    BY DEF MarkSkip, MoveSkip, CompressStep, HeldOK, Compressing
  <2> QED BY <2>1, SizesTyped, CacheConstants DEF TypeOK
<1>1. CASE MarkSkip
  <2>1. /\ wpc = "mark" /\ wpc' = "mvskip" /\ UNCHANGED <<stopping, maxBytes, job, entries, bytes>>
        /\ temps' = (temps \ {<<"gz.tmp", job>>}) \cup {<<"skip.tmp", job>>}
        /\ Evict({job}) /\ removedSize' = IF gz[job] # {} THEN CompressedSize[job] ELSE 0
    BY <1>1 DEF MarkSkip, CompressStep, queue, FaultFree
  <2>2. /\ Artifacts' = Artifacts \ {job} /\ metas' = metas \ {job} /\ OrderOK'
        /\ \A k \in Identities : gz'[k] # {} <=> k # job /\ gz[k] # {}
    BY <2>1, EvictRemoves DEF DirectoryOK
  <2>3. WorthOK'
    BY <2>1, <2>2 DEF DirectoryOK, WorthOK
  <2>4. ASSUME ~stopping PROVE Tidy' /\ Counts'
    <3>1. Tidy /\ Counts
      BY <2>1, <2>4 DEF DirectoryOK, Resting
    <3>2. \A k \in Identities : k \in metas <=> gz[k] # {}
      BY <2>1, <3>1 DEF Tidy, Swapping
    <3>3. temps' \subseteq TempsAt(wpc') \X {job'}
      BY <2>1, <3>1 DEF Tidy, TempsAt
    <3>4. \A k \in Artifacts' : CompressedSize[k] <= maxBytes'
      BY <2>1, <2>2, <3>1 DEF Tidy
    <3>5. Tidy'
      BY <2>1, <2>2, <3>2, <3>3, <3>4 DEF Tidy
    <3>6. /\ Counted = Artifacts /\ Removed = 0 /\ Removed' = removedSize'
          /\ Counted' = Artifacts \ {job}
      BY <2>1, <2>2 DEF Counted, Removed
    <3>7. /\ bytes \in Nat /\ Total(Artifacts) <= bytes /\ bytes <= maxBytes
          /\ Cardinality(Artifacts) <= entries /\ entries <= MaximumCacheEntries
      BY <1>0, <3>1, <3>6, FS_CardinalityType, ArtifactsFinite, TotalTyped DEF Counts
    <3>8. /\ Total(Artifacts \ {job}) + removedSize' <= bytes
          /\ Cardinality(Artifacts \ {job}) + (IF removedSize' = 0 THEN 0 ELSE 1) <= entries
      <4>1. /\ Cardinality(Artifacts) \in Nat /\ Total(Artifacts) \in Nat
            /\ Cardinality(Artifacts \ {job}) \in Nat /\ Total(Artifacts \ {job}) \in Nat
        <5>1. IsFiniteSet(Artifacts \ {job}) /\ Artifacts \ {job} \subseteq Identities
          BY ArtifactsFinite
        <5> QED BY <5>1, ArtifactsFinite, FS_CardinalityType, TotalTyped
      <4>2. CASE gz[job] # {}
        <5>1. job \in Artifacts
          BY <1>0, <4>2 DEF Artifacts
        <5>2. Cardinality(Artifacts \ {job}) = Cardinality(Artifacts) - 1
          BY <5>1, ArtifactsFinite, FS_RemoveElement
        <5>3. Total(Artifacts) = Total(Artifacts \ {job}) + CompressedSize[job]
          BY <5>1, ArtifactsFinite, TotalOfOne
        <5> QED BY <1>0, <2>1, <3>7, <4>1, <4>2, <5>2, <5>3
      <4>3. CASE gz[job] = {}
        <5>1. Artifacts \ {job} = Artifacts
          BY <4>3 DEF Artifacts
        <5> QED BY <1>0, <2>1, <3>7, <4>1, <4>3, <5>1
      <4> QED BY <4>2, <4>3
    <3>9. Total(Counted)' = Total(Artifacts \ {job})
          /\ Cardinality(Counted)' = Cardinality(Artifacts \ {job})
      BY <3>6, Zenon DEF Total
    <3>10. Counts'
      BY <2>1, <3>6, <3>7, <3>8, <3>9 DEF Counts
    <3> QED BY <3>5, <3>10
  <2> QED BY <2>1, <2>2, <2>3, <2>4 DEF DirectoryOK, Resting
<1>2. CASE MoveSkip
  <2>1. /\ wpc = "mvskip" /\ wpc' = "finish"
        /\ UNCHANGED <<gz, metas, older, stopping, maxBytes, job, removedSize>>
        /\ temps' = temps \ {<<"skip.tmp", job>>}
        /\ entries' = IF removedSize = 0 THEN entries ELSE CountDown(entries, 1)
        /\ bytes' = CountDown(bytes, removedSize)
    BY <1>2 DEF MoveSkip, CompressStep, queue, FaultFree
  <2>2. WorthOK' /\ OrderOK'
    <3>1. WorthOK'
      BY <2>1 DEF DirectoryOK, WorthOK
    <3>2. OrderOK'
      BY <2>1 DEF DirectoryOK, OrderOK, Artifacts
    <3> QED BY <3>1, <3>2
  <2>3. ASSUME ~stopping PROVE Tidy' /\ Counts'
    <3>1. Tidy /\ Counts
      BY <2>1, <2>3 DEF DirectoryOK, Resting
    <3>2. temps' = {}
      BY <2>1, <3>1 DEF Tidy, TempsAt
    <3>3. \A k \in Identities : k \in metas <=> gz[k] # {}
      BY <2>1, <3>1 DEF Tidy, Swapping
    <3>4. Tidy'
      BY <2>1, <3>1, <3>2, <3>3 DEF Tidy, Artifacts
    <3>5. /\ Counted' = Counted /\ Counted = Artifacts
          /\ Removed = removedSize /\ Removed' = 0
      BY <2>1 DEF Counted, Removed, Artifacts
    <3>6. Cardinality(Counted) \in Nat /\ Total(Counted) \in Nat /\ MaximumCacheEntries \in Nat
      BY <3>5, ArtifactsFinite, FS_CardinalityType, TotalTyped, CacheConstants
    <3>7. /\ bytes \in Nat /\ Total(Counted) + removedSize <= bytes /\ bytes <= maxBytes
          /\ Cardinality(Counted) + (IF removedSize = 0 THEN 0 ELSE 1) <= entries
          /\ entries <= MaximumCacheEntries
      BY <3>1, <3>5 DEF Counts
    <3>8. /\ bytes' \in Nat /\ Total(Counted) <= bytes' /\ bytes' <= maxBytes
          /\ Cardinality(Counted) <= entries' /\ entries' <= MaximumCacheEntries
      BY <1>0, <2>1, <3>6, <3>7 DEF CountDown
    <3>9. Total(Counted)' = Total(Counted) /\ Cardinality(Counted)' = Cardinality(Counted)
      BY <3>5, Zenon DEF Total
    <3>10. Counts'
      BY <2>1, <3>5, <3>6, <3>8, <3>9 DEF Counts
    <3> QED BY <3>4, <3>10
  <2> QED BY <2>1, <2>2, <2>3 DEF DirectoryOK, Resting
<1> QED BY <1>1, <1>2


\* The publishing branch up to the rename of the artifact.
LEMMA PublishDirectory ==
  ASSUME FaultFree, TypeOK, HeldOK, ServiceOK, DirectoryOK, DropGz \/ MoveGz
  PROVE  DirectoryOK'
<1>0. /\ job \in Identities /\ job \in Identities \cup {NoJob}
      /\ entries \in Nat /\ maxBytes \in Nat /\ CompressedSize[job] \in Nat
      /\ MaximumCacheEntries \in Nat /\ ~Pinned(job) /\ gz \in [Identities -> SUBSET Versions]
      /\ ~NoGain(job, maxBytes) /\ SourceSize[job] \in Nat
  <2>1. job \in Identities /\ ~NoGain(job, maxBytes)
    BY DEF DropGz, MoveGz, CompressStep, HeldOK, Compressing, DirectoryOK, WorthOK
  <2> QED BY <2>1, SizesTyped, CacheConstants DEF TypeOK, FaultFree, Pinned
<1> DEFINE Rest == Artifacts \ {job}
<1>1. /\ Rest \subseteq Identities /\ IsFiniteSet(Rest)
      /\ Cardinality(Rest) \in Nat /\ Total(Rest) \in Nat
      /\ Cardinality(Artifacts) \in Nat /\ Total(Artifacts) \in Nat
      /\ Cardinality(Rest) <= Cardinality(Artifacts) /\ Total(Rest) <= Total(Artifacts)
  <2>1. Rest \subseteq Identities /\ Rest \subseteq Artifacts
    BY ArtifactsFinite
  <2> HIDE DEF Rest
  <2> QED BY <2>1, ArtifactsFinite, FS_CardinalityType, FS_Subset, TotalTyped
\* Before the rename everything is counted, after it the rest is.
<1>a. ASSUME Counts, Counted = Artifacts, Counted' = Rest, Removed = 0, Removed' = 0,
             UNCHANGED <<entries, bytes, maxBytes>>
      PROVE  Counts'
  <2>1. Total(Counted)' = Total(Rest) /\ Cardinality(Counted)' = Cardinality(Rest)
    BY <1>a, Zenon DEF Total
  <2>2. /\ bytes \in Nat /\ Total(Artifacts) <= bytes /\ bytes <= maxBytes
        /\ Cardinality(Artifacts) <= entries /\ entries <= MaximumCacheEntries
    BY <1>0, <1>1, <1>a DEF Counts
  <2>3. Total(Rest) <= bytes /\ Cardinality(Rest) <= entries
    BY <1>0, <1>1, <2>2
  <2> HIDE DEF Rest
  <2> QED BY <1>0, <1>1, <1>a, <2>1, <2>2, <2>3 DEF Counts
<1>2. CASE DropGz
  <2>1. /\ wpc = "dropgz" /\ wpc' = "mvgz"
        /\ UNCHANGED <<stopping, maxBytes, job, entries, bytes, metas, temps>>
        /\ gz' = [gz EXCEPT ![job] = {}]
        /\ older' = {p \in older : job \notin {p[1], p[2]}}
    BY <1>0, <1>2 DEF DropGz, CompressStep, queue
  <2>2. \A k \in Identities : gz'[k] = IF k \in {job} THEN {} ELSE gz[k]
    BY <1>0, <2>1
  <2>3. older' = {p \in older : {p[1], p[2]} \cap {job} = {}}
    BY <2>1
  <2>4. Artifacts' = Rest /\ OrderOK'
    BY <2>2, <2>3, RemovalKeepsOrder DEF DirectoryOK
  <2>5. WorthOK'
    BY <1>0, <2>1, <2>2 DEF DirectoryOK, WorthOK, NoGain
  <2>6. ASSUME ~stopping PROVE Tidy' /\ Counts'
    <3>1. Tidy /\ Counts
      BY <2>1, <2>6 DEF DirectoryOK, Resting
    <3>2. temps' \subseteq TempsAt(wpc') \X {job'}
      BY <2>1, <3>1 DEF Tidy, TempsAt
    <3>3. \A k \in Identities : k # job => (k \in metas' <=> gz'[k] # {})
      BY <2>1, <2>2, <3>1 DEF Tidy, Swapping
    <3>4. \A k \in Artifacts' : CompressedSize[k] <= maxBytes'
      BY <2>1, <2>4, <3>1 DEF Tidy
    <3>5. Tidy'
      BY <2>1, <3>2, <3>3, <3>4 DEF Tidy, Swapping
    <3>6. Counted = Artifacts /\ Counted' = Rest /\ Removed = 0 /\ Removed' = 0
      BY <2>1, <2>4 DEF Counted, Removed
    <3> QED BY <1>a, <2>1, <3>1, <3>5, <3>6
  <2> QED BY <2>1, <2>4, <2>5, <2>6 DEF DirectoryOK, Resting
<1>3. CASE MoveGz
  <2>1. /\ wpc = "mvgz" /\ wpc' = "dropmeta"
        /\ UNCHANGED <<stopping, maxBytes, job, entries, bytes, metas>>
        /\ gz' = [gz EXCEPT ![job] = blocks] /\ blocks # {}
        /\ temps' = temps \ {<<"gz.tmp", job>>}
        /\ older' = {p \in older : job \notin {p[1], p[2]}} \cup (Rest \X {job})
    BY <1>0, <1>3 DEF MoveGz, CompressStep, queue, FaultFree, ServiceOK, PublishOK, Reading
  <2>2. /\ \A k \in Identities : gz'[k] = IF k = job THEN blocks ELSE gz[k]
        /\ gz'[job] # {}
    BY <1>0, <2>1
  <2>3. Artifacts' = Rest \cup {job}
    BY <1>0, <2>2 DEF Artifacts
  <2>4. WorthOK'
    <3>1. \A k \in Identities : gz'[k] # {} =>
            CompressedSize[k] < SourceSize[k] - SourceSize[k] \div 20
      <4> SUFFICES ASSUME NEW k \in Identities, gz'[k] # {}
                   PROVE  CompressedSize[k] < SourceSize[k] - SourceSize[k] \div 20
        OBVIOUS
      <4>1. CASE k = job
        BY <1>0, <4>1 DEF NoGain
      <4>2. CASE k # job
        BY <2>2, <4>2 DEF DirectoryOK, WorthOK
      <4> QED BY <4>1, <4>2
    <3> QED BY <2>1, <3>1 DEF WorthOK
  <2>5. OrderOK'
    <3>1. older \subseteq Identities \X Identities
      BY DEF TypeOK
    <3>2. \A i, j : <<i, j>> \in older'
                      <=> (<<i, j>> \in older /\ i # job /\ j # job) \/ (i \in Rest /\ j = job)
      <4> SUFFICES ASSUME NEW i, NEW j
                   PROVE  <<i, j>> \in older'
                            <=> (<<i, j>> \in older /\ i # job /\ j # job)
                                \/ (i \in Rest /\ j = job)
        OBVIOUS
      <4>1. <<i, j>> \in {p \in older : job \notin {p[1], p[2]}}
              <=> <<i, j>> \in older /\ i # job /\ j # job
        OBVIOUS
      <4>2. <<i, j>> \in Rest \X {job} <=> i \in Rest /\ j = job
        OBVIOUS
      <4> HIDE DEF Rest
      <4> QED BY <2>1, <4>1, <4>2
    <3>3. \A p \in older' : gz'[p[1]] # {} /\ gz'[p[2]] # {} /\ p[1] # p[2]
      <4> SUFFICES ASSUME NEW p \in older'
                   PROVE  gz'[p[1]] # {} /\ gz'[p[2]] # {} /\ p[1] # p[2]
        OBVIOUS
      <4>1. CASE p \in older /\ job \notin {p[1], p[2]}
        <5>1. p[1] \in Identities /\ p[2] \in Identities
          BY <3>1, <4>1
        <5> QED BY <2>2, <4>1, <5>1 DEF DirectoryOK, OrderOK
      <4>2. CASE p \in Rest \X {job}
        <5>1. p[1] \in Rest /\ p[2] = job
          BY <4>2
        <5>2. p[1] \in Identities /\ p[1] # job /\ gz[p[1]] # {}
          BY <5>1 DEF Artifacts
        <5> QED BY <2>2, <5>1, <5>2
      <4> QED BY <2>1, <4>1, <4>2
    <3>4. \A j, k \in Artifacts' : j # k => <<j, k>> \in older' \/ <<k, j>> \in older'
      <4> SUFFICES ASSUME NEW j \in Artifacts', NEW k \in Artifacts', j # k
                   PROVE  <<j, k>> \in older' \/ <<k, j>> \in older'
        OBVIOUS
      <4>1. CASE j = job \/ k = job
        BY <2>3, <3>2, <4>1
      <4>2. CASE j # job /\ k # job
        <5>1. j \in Artifacts /\ k \in Artifacts
          BY <2>3, <4>2
        <5>2. <<j, k>> \in older \/ <<k, j>> \in older
          BY <5>1 DEF DirectoryOK, OrderOK
        <5> QED BY <3>2, <4>2, <5>2
      <4> QED BY <4>1, <4>2
    <3>5. \A i, j, k \in Identities :
            <<i, j>> \in older' /\ <<j, k>> \in older' => <<i, k>> \in older'
      <4> SUFFICES ASSUME NEW i \in Identities, NEW j \in Identities, NEW k \in Identities,
                          <<i, j>> \in older', <<j, k>> \in older'
                   PROVE  <<i, k>> \in older'
        OBVIOUS
      <4>1. <<i, j>> \in older /\ i # job /\ j # job
        BY <3>2
      <4>2. CASE k = job
        <5>1. gz[i] # {}
          BY <4>1 DEF DirectoryOK, OrderOK
        <5>2. i \in Rest
          BY <4>1, <5>1 DEF Artifacts
        <5> QED BY <3>2, <4>2, <5>2
      <4>3. CASE k # job
        <5>1. <<j, k>> \in older
          BY <3>2, <4>3
        <5>2. <<i, k>> \in older
          BY <4>1, <5>1 DEF DirectoryOK, OrderOK
        <5> QED BY <3>2, <4>1, <4>3, <5>2
      <4> QED BY <4>2, <4>3
    <3> QED BY <3>3, <3>4, <3>5 DEF OrderOK
  <2>6. ASSUME ~stopping PROVE Tidy' /\ Counts'
    <3>1. Tidy /\ Counts
      BY <2>1, <2>6 DEF DirectoryOK, Resting
    <3>2. temps' \subseteq TempsAt(wpc') \X {job'}
      BY <2>1, <3>1 DEF Tidy, TempsAt
    <3>3. \A k \in Identities : k # job => (k \in metas' <=> gz'[k] # {})
      BY <2>1, <2>2, <3>1 DEF Tidy, Swapping
    <3>4. CompressedSize[job] <= maxBytes
      BY <1>0 DEF NoGain
    <3>5. \A k \in Artifacts' : CompressedSize[k] <= maxBytes'
      BY <2>1, <2>3, <3>1, <3>4 DEF Tidy
    <3>6. Tidy'
      BY <2>1, <2>2, <3>2, <3>3, <3>5 DEF Tidy, Swapping
    <3>7. Counted = Artifacts /\ Counted' = Rest /\ Removed = 0 /\ Removed' = 0
      BY <2>1, <2>3 DEF Counted, Removed
    <3> QED BY <1>a, <2>1, <3>1, <3>6, <3>7
  <2> QED BY <2>1, <2>4, <2>5, <2>6 DEF DirectoryOK, Resting
<1> QED BY <1>2, <1>3

\* The publishing branch from there on: metadata, then the counters.
LEMMA RecordDirectory ==
  ASSUME FaultFree, TypeOK, HeldOK, DirectoryOK, DropMeta \/ MoveMeta \/ Record
  PROVE  DirectoryOK'
<1>0. /\ job \in Identities /\ entries \in Nat /\ maxBytes \in Nat
      /\ CompressedSize[job] \in Nat /\ MaximumCacheEntries \in Nat
  <2>1. job \in Identities
    BY DEF DropMeta, MoveMeta, Record, CompressStep, HeldOK, Compressing
  <2> QED BY <2>1, SizesTyped, CacheConstants DEF TypeOK
<1>1. /\ wpc \in {"dropmeta", "mvmeta", "record"}
      /\ wpc' \in {"mvmeta", "record", "finish", "begin"}
      /\ UNCHANGED <<gz, older, stopping, maxBytes, job>>
  BY DEF DropMeta, MoveMeta, Record, CompressStep, queue, FaultFree
<1>2. WorthOK'
  BY <1>1 DEF DirectoryOK, WorthOK
<1>3. OrderOK'
  BY <1>1 DEF DirectoryOK, OrderOK, Artifacts
<1>4. ASSUME ~stopping, wpc' # "begin" PROVE Tidy' /\ Counts'
  <2>1. Tidy /\ Counts
    BY <1>1, <1>4 DEF DirectoryOK, Resting
  <2>2. Artifacts' = Artifacts
    BY <1>1 DEF Artifacts
  <2>3. CASE DropMeta \/ MoveMeta
    <3>1. /\ UNCHANGED <<entries, bytes>>
          /\ \/ wpc = "dropmeta" /\ wpc' = "mvmeta" /\ temps' = temps /\ metas' = metas \ {job}
             \/ /\ wpc = "mvmeta" /\ wpc' = "record"
                /\ temps' = temps \ {<<"meta.tmp", job>>} /\ metas' = metas \cup {job}
      BY <2>3 DEF DropMeta, MoveMeta, CompressStep, FaultFree
    <3>2. temps' \subseteq TempsAt(wpc') \X {job'}
      BY <1>1, <2>1, <3>1 DEF Tidy, TempsAt
    <3>3. \A k \in Identities : k # job => (k \in metas' <=> gz'[k] # {})
      BY <1>1, <2>1, <3>1 DEF Tidy, Swapping
    <3>4. gz[job] # {}
      BY <2>1, <3>1 DEF Tidy
    <3>5. Tidy'
      BY <1>0, <1>1, <2>1, <2>2, <3>1, <3>2, <3>3, <3>4 DEF Tidy, Swapping
    <3>6. Counted' = Counted /\ Removed' = 0 /\ Removed = 0
      BY <1>1, <2>2, <3>1 DEF Counted, Removed
    <3>7. Total(Counted)' = Total(Counted) /\ Cardinality(Counted)' = Cardinality(Counted)
      BY <3>6, Zenon DEF Total
    <3>8. Counts'
      BY <1>1, <2>1, <3>1, <3>6, <3>7 DEF Counts
    <3> QED BY <3>5, <3>8
  <2>4. CASE Record
    <3>1. /\ wpc = "record" /\ wpc' = "finish" /\ ~OverLimits /\ UNCHANGED <<metas, temps>>
          /\ entries' = entries + 1 /\ bytes' = bytes + CompressedSize[job]
      BY <1>4, <2>4 DEF Record, CompressStep
    <3>2. temps' \subseteq TempsAt(wpc') \X {job'}
      BY <1>1, <2>1, <3>1 DEF Tidy, TempsAt
    <3>3. \A k \in Identities : k \in metas <=> gz[k] # {}
      BY <2>1, <3>1 DEF Tidy, Swapping
    <3>4. Tidy'
      BY <1>1, <2>1, <2>2, <3>1, <3>2, <3>3 DEF Tidy
    <3> DEFINE Rest == Artifacts \ {job}
    <3>5. Counted = Rest /\ Counted' = Artifacts /\ Removed = 0 /\ Removed' = 0
      BY <2>2, <3>1 DEF Counted, Removed
    <3>6. /\ Rest \subseteq Identities
          /\ Cardinality(Rest) \in Nat /\ Total(Rest) \in Nat
          /\ Cardinality(Artifacts) \in Nat /\ Total(Artifacts) \in Nat
      <4>1. Rest \subseteq Identities
        BY ArtifactsFinite
      <4> HIDE DEF Rest
      <4> QED BY <4>1, ArtifactsFinite, FS_CardinalityType, TotalTyped
    <3>7. /\ Total(Artifacts) <= Total(Rest) + CompressedSize[job]
          /\ Cardinality(Artifacts) <= Cardinality(Rest) + 1
      <4>1. CASE job \in Artifacts
        <5>1. Cardinality(Rest) = Cardinality(Artifacts) - 1
          BY <4>1, ArtifactsFinite, FS_RemoveElement
        <5>2. Total(Artifacts) = Total(Rest) + CompressedSize[job]
          BY <4>1, ArtifactsFinite, TotalOfOne
        <5> QED BY <1>0, <3>6, <5>1, <5>2
      <4>2. CASE job \notin Artifacts
        <5>1. Rest = Artifacts
          BY <4>2
        <5>2. Total(Rest) = Total(Artifacts) /\ Cardinality(Rest) = Cardinality(Artifacts)
          BY <5>1, Zenon
        <5> QED BY <1>0, <3>6, <5>2
      <4> QED BY <4>1, <4>2
    <3>8. bytes \in Nat /\ Total(Rest) <= bytes /\ Cardinality(Rest) <= entries
      <4>1. Total(Counted) = Total(Rest) /\ Cardinality(Counted) = Cardinality(Rest)
        BY <3>5, Zenon
      <4> HIDE DEF Rest
      <4> QED BY <1>0, <2>1, <3>5, <3>6, <4>1 DEF Counts
    <3>9. entries' <= MaximumCacheEntries /\ bytes' <= maxBytes
      BY <1>0, <3>1, <3>8 DEF OverLimits
    <3>10. Total(Counted)' = Total(Artifacts) /\ Cardinality(Counted)' = Cardinality(Artifacts)
      BY <3>5, Zenon DEF Total
    <3>11. bytes' \in Nat /\ Total(Artifacts) <= bytes' /\ Cardinality(Artifacts) <= entries'
      <4> HIDE DEF Rest
      <4> QED BY <1>0, <3>1, <3>6, <3>7, <3>8
    <3>12. Counts'
      BY <1>0, <1>1, <3>5, <3>6, <3>9, <3>10, <3>11 DEF Counts
    <3> QED BY <3>4, <3>12
  <2> QED BY <2>3, <2>4
<1> QED BY <1>1, <1>2, <1>3, <1>4 DEF DirectoryOK, Resting


LEMMA NextDirectory ==
  ASSUME FaultFree
  PROVE  TypeOK /\ HeldOK /\ ServiceOK /\ DirectoryOK /\ [Next]_vars => DirectoryOK'
<1> SUFFICES ASSUME TypeOK, HeldOK, ServiceOK, DirectoryOK, [Next]_vars PROVE DirectoryOK'
  OBVIOUS
<1>1. CASE Content \/ Game \/ Crash \/ (\E t \in Threads : Http(t)) \/ UNCHANGED vars
  BY <1>1, OthersDirectory
<1>2. CASE WorkerExit \/ TakeBuild \/ TakeJob \/ Finish \/ EndScan
           \/ (\E f \in Files : ScanFile(f))
  BY <1>2, RunDirectory
<1>3. CASE Maintain
  <2>1. CASE ListingFails
    BY <2>1 DEF ListingFails, FaultFree
  <2>2. CASE AbortWalk
    <3>1. UNCHANGED <<gz, older, stopping>> /\ stopping /\ wpc' \in {"finish", "scan", "wait"}
      BY <2>2, ReturnsToCaller DEF AbortWalk, disk, queue
    <3>2. WorthOK' /\ OrderOK'
      BY <3>1 DEF DirectoryOK, WorthOK, OrderOK, Artifacts
    <3> QED BY <3>1, <3>2 DEF DirectoryOK
  <2> QED BY <1>3, <2>1, <2>2, BeginWalkDirectory, EndWalkDirectory, VisitDirectory
          DEF Maintain
<1>4. CASE Compress
  BY <1>4, PreparationDirectory, SkipDirectory, PublishDirectory, RecordDirectory
     DEF Compress
<1> QED BY <1>1, <1>2, <1>3, <1>4 DEF Next, Worker

LEMMA DirectoryShows ==
  ASSUME TypeOK, ServiceOK, DirectoryOK PROVE DiskWithinBudget /\ DirectoryTidy
<1> SUFFICES ASSUME Idle PROVE DiskWithinBudget /\ DirectoryTidy
  BY DEF DiskWithinBudget, DirectoryTidy
<1>1. wpc = "wait" /\ ~stopping /\ Tidy /\ Counts /\ WorthOK /\ MarkersOK
  BY DEF Idle, DirectoryOK, Resting, ServiceOK
<1>2. Counted = Artifacts /\ Removed = 0
  BY <1>1 DEF Counted, Removed
<1>3. Total(Artifacts) \in Nat /\ Cardinality(Artifacts) \in Nat
  BY ArtifactsFinite, TotalTyped, FS_CardinalityType
<1>4. DiskWithinBudget
  BY <1>1, <1>2, <1>3 DEF Counts, DiskWithinBudget
<1>5. temps = {}
  BY <1>1 DEF Tidy, TempsAt
<1>6. metas = Artifacts
  BY <1>1 DEF Tidy, Swapping, Artifacts, TypeOK
<1>7. ASSUME NEW k \in Artifacts PROVE ~SkipMatches(k)
  <2>1. k \in Identities /\ gz[k] # {} /\ CompressedSize[k] <= maxBytes
    BY <1>1, <1>7 DEF Artifacts, Tidy
  <2>2. CompressedSize[k] < SourceSize[k] - SourceSize[k] \div 20
    BY <1>1, <2>1 DEF WorthOK
  <2>3. CompressedSize[k] \in Nat /\ SourceSize[k] \in Nat /\ maxBytes \in Nat
    BY <2>1, SizesTyped, CacheConstants DEF TypeOK
  <2>4. ~NoGain(k, maxBytes)
    BY <2>1, <2>2, <2>3 DEF NoGain
  <2>5. maxBytes # 0
    BY <1>1 DEF MarkersOK
  <2> QED BY <1>1, <2>1, <2>4, <2>5 DEF MarkersOK, SkipMatches
<1>8. DirectoryTidy
  BY <1>5, <1>6, <1>7 DEF DirectoryTidy
<1> QED BY <1>4, <1>8

LEMMA AlwaysDirectory ==
  ASSUME FaultFree
  PROVE  Spec => [](DiskWithinBudget /\ DirectoryTidy)
<1> DEFINE IInv == TypeOK /\ HeldOK /\ ServiceOK /\ DirectoryOK
<1>1. Init => IInv
  BY InitType, InitService, InitDirectory
<1>2. IInv /\ [Next]_vars => IInv'
  BY NextType, NextService, NextDirectory
<1>3. IInv => DiskWithinBudget /\ DirectoryTidy
  BY DirectoryShows
<1> QED BY <1>1, <1>2, <1>3, PTL DEF Spec

\* Without disk faults, and where open files can be removed, the artifacts on
\* disk are within the counters and these within kMaximumCacheEntries and the
\* budget whenever the worker waits, over any content changes, stale lookups,
\* stops, crashes and restarts with another budget.
THEOREM BudgetHolds == ASSUME FaultFree PROVE Spec => []DiskWithinBudget
  BY AlwaysDirectory, PTL

\* Under the same conditions maintainCache() and compress() leave no temporary,
\* no artifact without metadata or the reverse, and no skip marker beside an
\* artifact, wherever an earlier process died.
THEOREM DirectoryStaysTidy == ASSUME FaultFree PROVE Spec => []DirectoryTidy
  BY AlwaysDirectory, PTL
=============================================================================
