-------------------------- MODULE TransferMetrics --------------------------
(***************************************************************************)
(* The throughput ring and the byte counter of src/src/transfer_metrics.cpp*)
(* at the granularity of its atomic accesses.  HTTP workers report blocks  *)
(* from the content reader, the game thread takes snapshots for            *)
(* fastdl_stats and resets everything when the server starts.  One bucket  *)
(* per second of the window is reused modulo the window; a worker that     *)
(* finds a bucket of another second resets it under bucketResetMutex_ and  *)
(* adds its bytes afterwards, without the mutex.                           *)
(***************************************************************************)
EXTENDS Sums

CONSTANTS
    Threads,     \* HTTP workers
    Window,      \* kWindowSeconds
    MaxCount,    \* the largest std::uint64_t
    Sizes,       \* bytes of one block
    None,        \* nobody holds the mutex
    MaxLag,      \* seconds that may pass within one call of bytesSupplied()
    MaxNow,      \* bound: the last second that is explored
    MaxSupplied  \* bound: bytes reported between two resets

ASSUME MetricsConstants ==
    /\ {Window, MaxCount, MaxNow} \subseteq Nat \ {0}
    /\ {MaxLag, MaxSupplied} \subseteq Nat
    /\ Sizes \subseteq Nat \ {0}
    /\ IsFiniteSet(Threads) /\ None \notin Threads
    /\ MaxLag < Window   \* no worker is held up for a whole window

VARIABLES
    now,                            \* currentSecond()
    transferred, second, bytes,     \* transferredBytes_, buckets_
    started,                        \* startedSecond_
    mutex,                          \* holder of bucketResetMutex_
    pc, sec, size,                  \* bytesSupplied() of every worker
    spc, snap,                      \* snapshot(): next bucket and its locals
    credited                        \* history: bytes added per second

ring   == <<second, bytes>>
worker == <<pc, sec, size>>
reader == <<spc, snap>>
vars   == <<now, transferred, ring, started, mutex, worker, reader, credited>>

Slots == 0..(Window - 1)
Seconds == 0..MaxNow

TypeOK ==
    /\ now \in Seconds
    /\ transferred \in 0..MaxCount
    /\ second \in [Slots -> Seconds \cup {-1}]
    /\ bytes \in [Slots -> 0..MaxCount]
    /\ started \in Seconds
    /\ mutex \in Threads \cup {None}
    /\ pc \in [Threads -> {"idle", "check", "lock", "store", "add"}]
    /\ sec \in [Threads -> Seconds]
    /\ size \in [Threads -> Sizes \cup {0}]
    /\ spc \in 0..(2 * Window)
    /\ snap \in [now : Seconds, hit : BOOLEAN, recent : 0..MaxCount]
    /\ credited \in [Seconds -> Nat]

-----------------------------------------------------------------------------

\* saturatingAdd(): the loop of compare-and-swaps takes effect at one instant.
SaturatingAdd(value, amount) ==
    IF amount > MaxCount - value THEN MaxCount ELSE value + amount

Bucket(s) == s % Window

Sum(seconds) == SumOver(credited, seconds)

\* The clock; a worker inside bytesSupplied() is never more than MaxLag late.
Tick ==
    /\ now < MaxNow
    /\ \A t \in Threads : pc[t] # "idle" => now + 1 - sec[t] <= MaxLag
    /\ now' = now + 1
    /\ UNCHANGED <<transferred, ring, started, mutex, worker, reader, credited>>

-----------------------------------------------------------------------------
(* bytesSupplied() *)

To(t, next) == pc' = [pc EXCEPT ![t] = next]

\* Entry: the total is counted, then the second is fixed.
BytesSupplied(t, n) ==
    /\ pc[t] = "idle"
    /\ Sum(Seconds) + SumOver(size, Threads) + n <= MaxSupplied
    /\ To(t, "check")
    /\ transferred' = SaturatingAdd(transferred, n)
    /\ sec' = [sec EXCEPT ![t] = now]
    /\ size' = [size EXCEPT ![t] = n]
    /\ UNCHANGED <<now, ring, started, mutex, reader, credited>>

\* The test of bucket.second without the mutex
CheckBucket(t) ==
    /\ pc[t] = "check"
    /\ To(t, IF second[Bucket(sec[t])] = sec[t] THEN "add" ELSE "lock")
    /\ UNCHANGED <<now, transferred, ring, started, mutex, sec, size, reader, credited>>

\* ... and again with it: another worker may have reset the bucket meanwhile.
NotCheckedAgain(t) == TRUE
StillForeign(t) == second[Bucket(sec[t])] # sec[t]

\* The mutex is taken; the bytes of the old second go first ...
ClearBucket(t) ==
    /\ pc[t] = "lock"
    /\ mutex = None
    /\ IF StillForeign(t)
       THEN /\ bytes' = [bytes EXCEPT ![Bucket(sec[t])] = 0]
            /\ mutex' = t
            /\ To(t, "store")
       ELSE To(t, "add") /\ UNCHANGED <<bytes, mutex>>
    /\ UNCHANGED <<now, transferred, second, started, sec, size, reader, credited>>

\* ... then the bucket gets its new second and the mutex is released.
StoreSecond(t) ==
    /\ pc[t] = "store"
    /\ second' = [second EXCEPT ![Bucket(sec[t])] = sec[t]]
    /\ mutex' = None
    /\ To(t, "add")
    /\ UNCHANGED <<now, transferred, bytes, started, sec, size, reader, credited>>

AddBytes(t) ==
    /\ pc[t] = "add"
    /\ bytes' = [bytes EXCEPT ![Bucket(sec[t])] = SaturatingAdd(@, size[t])]
    /\ credited' = [credited EXCEPT ![sec[t]] = @ + size[t]]
    /\ To(t, "idle")
    /\ sec' = [sec EXCEPT ![t] = 0]
    /\ size' = [size EXCEPT ![t] = 0]
    /\ UNCHANGED <<now, transferred, second, started, mutex, reader>>

-----------------------------------------------------------------------------
(* The game thread: snapshot() and reset() *)

NoSnapshot == [now |-> 0, hit |-> FALSE, recent |-> 0]

SnapshotBegin ==
    /\ spc = 0
    /\ spc' = 1
    /\ snap' = [now |-> now, hit |-> FALSE, recent |-> 0]
    /\ UNCHANGED <<now, transferred, ring, started, mutex, worker, credited>>

\* The seconds that count as recent
OneTooMany(s, n) == s <= n /\ s >= n - Window
Recent(s, n) == s <= n /\ s > n - Window

\* The load of bucket.second; odd values of spc stand before it, even ones
\* before the load of bucket.bytes.
LoadSecond ==
    /\ spc % 2 = 1
    /\ spc' = spc + 1
    /\ snap' = [snap EXCEPT !.hit = Recent(second[spc \div 2], snap.now)]
    /\ UNCHANGED <<now, transferred, ring, started, mutex, worker, credited>>

LoadBytes ==
    /\ spc # 0 /\ spc % 2 = 0 /\ spc < 2 * Window
    /\ spc' = spc + 1
    /\ snap' = [snap EXCEPT !.hit = FALSE, !.recent =
                  IF snap.hit THEN SaturatingAdd(@, bytes[spc \div 2 - 1]) ELSE @]
    /\ UNCHANGED <<now, transferred, ring, started, mutex, worker, credited>>

\* The last bucket; the rate is recent / SnapshotWindow.
LastBytes == IF snap.hit THEN SaturatingAdd(snap.recent, bytes[Window - 1]) ELSE snap.recent
SnapshotWindow == Min({Window, Max({1, snap.now - started + 1})})

SnapshotEnd ==
    /\ spc = 2 * Window
    /\ spc' = 0
    /\ snap' = NoSnapshot
    /\ UNCHANGED <<now, transferred, ring, started, mutex, worker, credited>>

\* reset(), by FastdlServer::start() before the HTTP daemon runs
Reset ==
    /\ spc = 0
    /\ \A t \in Threads : pc[t] = "idle"
    /\ transferred' = 0
    /\ bytes' = [b \in Slots |-> 0]
    /\ second' = [b \in Slots |-> -1]
    /\ started' = now
    /\ credited' = [s \in Seconds |-> 0]
    /\ UNCHANGED <<now, mutex, worker, reader>>

-----------------------------------------------------------------------------

\* After the first reset()
Init ==
    /\ now = 0
    /\ transferred = 0 /\ started = 0
    /\ second = [b \in Slots |-> -1]
    /\ bytes = [b \in Slots |-> 0]
    /\ mutex = None
    /\ pc = [t \in Threads |-> "idle"]
    /\ sec = [t \in Threads |-> 0]
    /\ size = [t \in Threads |-> 0]
    /\ spc = 0 /\ snap = NoSnapshot
    /\ credited = [s \in Seconds |-> 0]

Supply(t) ==
    \/ \E n \in Sizes : BytesSupplied(t, n)
    \/ CheckBucket(t) \/ ClearBucket(t) \/ StoreSecond(t) \/ AddBytes(t)

Snapshot == SnapshotBegin \/ LoadSecond \/ LoadBytes \/ SnapshotEnd

Next == Tick \/ Reset \/ Snapshot \/ \E t \in Threads : Supply(t)

Spec == Init /\ [][Next]_vars

-----------------------------------------------------------------------------
(* Properties *)

\* The total misses no block and stops at the largest number.
TotalExact ==
    transferred = Min({MaxCount, Sum(Seconds) + SumOver(size, Threads)})

\* The bucket of every second in the window holds the bytes reported in it.
BucketsExact ==
    \A s \in (now - Window + 1)..now \cap Seconds :
      Min({credited[s], MaxCount}) =
        IF second[Bucket(s)] = s THEN bytes[Bucket(s)] ELSE 0

\* Whatever the interleaving of resets and additions, the bucket of a second
\* that is still in the window holds exactly the bytes reported in it: none
\* erased by a second reset, none left over from a second of the last round;
\* and bucket and total stop at the largest number instead of wrapping.
RingExact == BucketsExact /\ TotalExact

\* README: "The recent value is zero after the rolling window has been idle
\* long enough; it does not retain an old transfer rate": although buckets are
\* recycled while snapshot() walks over them, it never counts a byte reported
\* before the interval it divides by.
SnapshotRecent ==
    spc = 2 * Window =>
      LastBytes <= Sum((snap.now - SnapshotWindow + 1)..now \cap Seconds)
=============================================================================
