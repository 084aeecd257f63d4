----------------------- MODULE TransferMetricsProofs -----------------------
(***************************************************************************)
(* Proofs about TransferMetrics for any number of workers, any window and  *)
(* any interleaving of the accesses to the ring, as long as no call of     *)
(* bytesSupplied() lasts a whole window.                                   *)
(***************************************************************************)
EXTENDS TransferMetrics, SumTheorems

-----------------------------------------------------------------------------
(* Arithmetic *)

LEMMA Numbers ==
  /\ Window \in Nat /\ Window >= 1 /\ MaxCount \in Nat /\ MaxCount >= 1
  /\ MaxNow \in Nat /\ MaxNow >= 1 /\ MaxLag \in Nat /\ MaxLag < Window
  /\ \A n \in Sizes : n \in Nat
  /\ IsFiniteSet(Threads) /\ None \notin Threads
  BY MetricsConstants

LEMMA BucketType ==
  ASSUME NEW s \in Nat
  PROVE  Bucket(s) \in Slots
  BY Numbers DEF Bucket, Slots

\* Two seconds less than a window apart do not share a bucket.
LEMMA OwnBucket ==
  ASSUME NEW s \in Nat, NEW r \in Nat, Bucket(s) = Bucket(r), s - r < Window, r - s < Window
  PROVE  s = r
<1> DEFINE W == Window
           p == s \div W
           q == r \div W
<1>1. p \in Int /\ q \in Int /\ s = W * p + Bucket(s) /\ r = W * q + Bucket(r)
  BY Numbers DEF Bucket
<1>2. Bucket(s) \in Int /\ Bucket(r) \in Int /\ W \in Nat
  BY BucketType, Numbers DEF Slots
<1> HIDE DEF p, q, W
<1>3. CASE p = q
  BY <1>1, <1>2, <1>3
<1>4. CASE p > q
  <2>1. W * p >= W * (q + 1)
    BY <1>1, <1>2, <1>4
  <2>2. W * (q + 1) = W * q + W /\ W * q \in Int /\ W * p \in Int
    BY <1>1, <1>2
  <2> QED BY <1>1, <1>2, <2>1, <2>2 DEF W
<1>5. CASE q > p
  <2>1. W * q >= W * (p + 1)
    BY <1>1, <1>2, <1>5
  <2>2. W * (p + 1) = W * p + W /\ W * q \in Int /\ W * p \in Int
    BY <1>1, <1>2
  <2> QED BY <1>1, <1>2, <2>1, <2>2 DEF W
<1> QED BY <1>1, <1>3, <1>4, <1>5

LEMMA Saturates ==
  ASSUME NEW v \in 0..MaxCount, NEW n \in Nat
  PROVE  /\ SaturatingAdd(v, n) \in 0..MaxCount /\ SaturatingAdd(v, n) <= v + n
         /\ \A x \in Nat : v = Min({x, MaxCount}) =>
              SaturatingAdd(v, n) = Min({x + n, MaxCount})
<1>1. \A x \in Nat : Min({x, MaxCount}) = IF x <= MaxCount THEN x ELSE MaxCount
  BY Numbers DEF Min
<1> QED BY <1>1, Numbers DEF SaturatingAdd

\* spc is odd before the load of a second and even before the load of bytes.
LEMMA Odd ==
  ASSUME NEW n \in 0..(2 * Window), n % 2 = 1
  PROVE  n \div 2 \in Slots /\ n = 2 * (n \div 2) + 1
<1>1. Window \in Nat /\ n \in Nat /\ n <= 2 * Window
  BY Numbers
<1>2. n \div 2 \in Nat /\ n = 2 * (n \div 2) + 1
  BY <1>1
<1> QED BY <1>1, <1>2 DEF Slots

LEMMA Even ==
  ASSUME NEW n \in 0..(2 * Window), n # 0, n % 2 = 0
  PROVE  n \div 2 - 1 \in Slots /\ n = 2 * (n \div 2 - 1) + 2
<1>1. Window \in Nat /\ n \in Nat /\ n <= 2 * Window
  BY Numbers
<1>2. n \div 2 \in Nat /\ n = 2 * (n \div 2)
  BY <1>1
<1> QED BY <1>1, <1>2 DEF Slots

LEMMA SecondsFinite == IsFiniteSet(Seconds) /\ \A s \in Seconds : s \in Nat
  BY FS_Interval, Numbers DEF Seconds

-----------------------------------------------------------------------------
(* The state *)

\* A worker in bytesSupplied() is about a second of the window; once it found
\* or made the bucket of its second, nobody else recycles it.
WorkerOK(t) ==
    /\ pc[t] = "idle" => size[t] = 0
    /\ pc[t] # "idle" => started <= sec[t] /\ sec[t] <= now /\ now - sec[t] <= MaxLag
    /\ pc[t] = "add" => second[Bucket(sec[t])] = sec[t]
    /\ pc[t] = "store" => /\ mutex = t
                          /\ second[Bucket(sec[t])] # sec[t]
                          /\ bytes[Bucket(sec[t])] = 0

\* A bucket holds no more than was reported in its second.
SlotOK(b) ==
    /\ second[b] = -1 => bytes[b] = 0
    /\ second[b] # -1 => /\ started <= second[b] /\ second[b] <= now
                         /\ Bucket(second[b]) = b
                         /\ bytes[b] <= credited[second[b]]

Future == \A s \in Seconds : s > now => credited[s] = 0

\* The first second of the interval a snapshot is about, and the seconds of it
\* in the first k buckets.
Low == snap.now - SnapshotWindow + 1
Upto(k) == {s \in Low..now \cap Seconds : Bucket(s) < k}

\* After k buckets a snapshot has counted no more than was reported in them;
\* the bucket it is about to add has not fallen out of the interval.
ReaderOK ==
    /\ started <= now
    /\ spc # 0 => started <= snap.now /\ snap.now <= now
    /\ \A k \in Slots :
         /\ spc \in {2 * k + 1, 2 * k + 2} => snap.recent <= Sum(Upto(k))
         /\ spc = 2 * k + 2 /\ snap.hit => second[k] = -1 \/ second[k] >= Low

Ring == (\A t \in Threads : WorkerOK(t)) /\ (\A b \in Slots : SlotOK(b)) /\ Future

MetricsInv == TypeOK /\ Ring /\ BucketsExact /\ TotalExact /\ ReaderOK

-----------------------------------------------------------------------------
(* Types *)

LEMMA InitTyped == Init => TypeOK
  BY Numbers DEF Init, TypeOK, Seconds, Slots, NoSnapshot

\* What the steps that only the ring and the reader take part in leave alone.
LEMMA NextTyped ==
  ASSUME TypeOK, [Next]_vars
  PROVE  TypeOK'
<1> USE Numbers
<1>1. CASE Tick
  <2>1. now' \in Seconds
    BY <1>1 DEF TypeOK, Tick, Seconds
  <2> QED BY <1>1, <2>1 DEF TypeOK, Tick, ring, worker, reader
<1>2. CASE Reset
  BY <1>2 DEF TypeOK, Reset, worker, reader, Seconds, Slots
<1>3. CASE Snapshot
  <2>1. CASE SnapshotBegin
    BY <1>3, <2>1 DEF TypeOK, SnapshotBegin, ring, worker
  <2>2. CASE LoadSecond
    <3>1. spc \in 0..(2 * Window) /\ spc % 2 = 1
      BY <2>2 DEF TypeOK, LoadSecond
    <3>2. spc + 1 \in 0..(2 * Window)
      <4>1. spc \div 2 \in Slots /\ spc = 2 * (spc \div 2) + 1
        BY <3>1, Odd
      <4> QED BY <4>1 DEF Slots
    <3>3. Recent(second[spc \div 2], snap.now) \in BOOLEAN
      BY DEF Recent
    <3>4. snap' \in [now : Seconds, hit : BOOLEAN, recent : 0..MaxCount]
      BY <2>2, <3>3 DEF LoadSecond, TypeOK
    <3> QED BY <2>2, <3>2, <3>4 DEF TypeOK, LoadSecond, ring, worker
  <2>3. CASE LoadBytes
    <3>1. spc \div 2 - 1 \in Slots
      BY <2>3, Even DEF LoadBytes, TypeOK
    <3>2. bytes[spc \div 2 - 1] \in Nat /\ snap.recent \in 0..MaxCount
      BY <3>1 DEF TypeOK
    <3>3. SaturatingAdd(snap.recent, bytes[spc \div 2 - 1]) \in 0..MaxCount
      BY <3>2, Saturates
    <3>4. snap' \in [now : Seconds, hit : BOOLEAN, recent : 0..MaxCount]
      BY <2>3, <3>3 DEF LoadBytes, TypeOK
    <3>5. spc + 1 \in 0..(2 * Window)
      BY <2>3 DEF LoadBytes, TypeOK
    <3> QED BY <2>3, <3>4, <3>5 DEF TypeOK, LoadBytes, ring, worker
  <2>4. CASE SnapshotEnd
    <3>1. NoSnapshot \in [now : Seconds, hit : BOOLEAN, recent : 0..MaxCount]
      BY DEF NoSnapshot, Seconds
    <3> QED BY <2>4, <3>1 DEF TypeOK, SnapshotEnd, ring, worker
  <2> QED BY <1>3, <2>1, <2>2, <2>3, <2>4 DEF Snapshot
<1>4. ASSUME NEW t \in Threads, Supply(t) PROVE TypeOK'
  <2>0. sec[t] \in Nat /\ Bucket(sec[t]) \in Slots /\ size[t] \in Nat
    <3>1. sec[t] \in Nat
      BY DEF TypeOK, Seconds
    <3>2. size[t] \in Sizes \cup {0}
      BY DEF TypeOK
    <3>3. size[t] \in Nat
      BY <3>2
    <3> QED BY <3>1, <3>3, BucketType
  <2>1. ASSUME NEW n \in Sizes, BytesSupplied(t, n) PROVE TypeOK'
    <3>1. SaturatingAdd(transferred, n) \in 0..MaxCount
      BY Saturates DEF TypeOK
    <3> QED BY <2>1, <3>1 DEF TypeOK, BytesSupplied, To, ring, reader
  <2>2. CASE CheckBucket(t)
    BY <2>2 DEF TypeOK, CheckBucket, To, ring, reader
  <2>3. CASE ClearBucket(t)
    BY <2>0, <2>3 DEF TypeOK, ClearBucket, To, ring, reader
  <2>4. CASE StoreSecond(t)
    BY <2>0, <2>4 DEF TypeOK, StoreSecond, To, ring, reader
  <2>5. CASE AddBytes(t)
    <3>1. SaturatingAdd(bytes[Bucket(sec[t])], size[t]) \in 0..MaxCount
      BY <2>0, Saturates DEF TypeOK
    <3>2. credited[sec[t]] + size[t] \in Nat
      BY <2>0 DEF TypeOK
    <3>3. bytes' \in [Slots -> 0..MaxCount]
      BY <2>5, <3>1 DEF TypeOK, AddBytes
    <3>4. credited' \in [Seconds -> Nat]
      BY <2>5, <3>2 DEF TypeOK, AddBytes
    <3>5. sec' \in [Threads -> Seconds]
      BY <2>5, Numbers DEF TypeOK, AddBytes, Seconds
    <3>6. size' \in [Threads -> Sizes \cup {0}]
      BY <2>5 DEF TypeOK, AddBytes
    <3>7. pc' \in [Threads -> {"idle", "check", "lock", "store", "add"}]
      BY <2>5 DEF TypeOK, AddBytes, To
    <3> QED BY <2>5, <3>3, <3>4, <3>5, <3>6, <3>7 DEF TypeOK, AddBytes, reader
  <2> QED BY <1>4, <2>1, <2>2, <2>3, <2>4, <2>5 DEF Supply
<1>5. CASE UNCHANGED vars
  BY <1>5 DEF TypeOK, vars, ring, worker, reader
<1> QED BY <1>1, <1>2, <1>3, <1>4, <1>5 DEF Next

-----------------------------------------------------------------------------
(* The ring *)

\* The second a worker is about is in the window, so no bucket of the window
\* but its own is the bucket of that second.
LEMMA InWindow ==
  ASSUME TypeOK, NEW t \in Threads, WorkerOK(t), pc[t] # "idle",
         NEW s \in Nat, s <= now, now - s < Window, Bucket(s) = Bucket(sec[t])
  PROVE  s = sec[t]
<1>1. sec[t] \in Nat /\ now \in Nat
  BY DEF TypeOK, Seconds
<1>2. sec[t] <= now /\ now - sec[t] < Window
  BY <1>1, Numbers DEF WorkerOK
<1>3. s - sec[t] < Window /\ sec[t] - s < Window
  BY <1>1, <1>2, Numbers
<1> QED BY <1>1, <1>3, OwnBucket

LEMMA SameSecond ==
  ASSUME TypeOK, Ring, NEW t \in Threads, NEW u \in Threads,
         pc[t] # "idle", pc[u] # "idle", Bucket(sec[t]) = Bucket(sec[u])
  PROVE  sec[t] = sec[u]
<1>1. WorkerOK(t) /\ WorkerOK(u)
  BY DEF Ring
<1>2. sec[u] \in Nat /\ now \in Nat
  BY DEF TypeOK, Seconds
<1>3. sec[u] <= now /\ now - sec[u] < Window
  BY <1>1, <1>2, Numbers DEF WorkerOK
<1> QED BY <1>1, <1>2, <1>3, InWindow

\* The types of what one worker's step is about
LEMMA WorkerTypes ==
  ASSUME TypeOK, NEW t \in Threads
  PROVE  /\ sec[t] \in Seconds /\ sec[t] \in Nat /\ Bucket(sec[t]) \in Slots
         /\ size[t] \in Nat /\ now \in Nat /\ now \in Seconds
<1>1. sec[t] \in Seconds /\ sec[t] \in Nat /\ now \in Nat /\ now \in Seconds
  BY DEF TypeOK, Seconds
<1>2. size[t] \in Sizes \cup {0}
  BY DEF TypeOK
<1> QED BY <1>1, <1>2, BucketType, Numbers

\* The bytes that belong to second s
Held(s) == IF second[Bucket(s)] = s THEN bytes[Bucket(s)] ELSE 0

LEMMA ExactMeans ==
  ASSUME TypeOK
  PROVE  BucketsExact <=> \A s \in Seconds : s <= now /\ now - s < Window =>
                            Min({credited[s], MaxCount}) = Held(s)
<1>0. now \in Nat /\ \A s \in Seconds : s \in Nat
  BY SecondsFinite DEF TypeOK
<1>1. \A s \in Seconds : s \in (now - Window + 1)..now <=> s <= now /\ now - s < Window
  BY <1>0, Numbers
<1> QED BY <1>1 DEF BucketsExact, Held

LEMMA ExactMeansNext ==
  ASSUME TypeOK'
  PROVE  BucketsExact' <=> \A s \in Seconds : s <= now' /\ now' - s < Window =>
                            Min({credited'[s], MaxCount}) = Held(s)'
<1>0. now' \in Nat /\ \A s \in Seconds : s \in Nat
  BY SecondsFinite DEF TypeOK
<1>1. \A s \in Seconds : s \in (now' - Window + 1)..now' <=> s <= now' /\ now' - s < Window
  BY <1>0, Numbers
<1> QED BY <1>1 DEF BucketsExact, Held

LEMMA SlotTypes ==
  ASSUME TypeOK, NEW b \in Slots
  PROVE  second[b] \in Int /\ bytes[b] \in 0..MaxCount
<1>1. second[b] \in Seconds \cup {-1} /\ bytes[b] \in 0..MaxCount
  BY DEF TypeOK
<1> QED BY <1>1, SecondsFinite

LEMMA TickRing ==
  ASSUME TypeOK, TypeOK', Ring, BucketsExact, Tick
  PROVE  Ring' /\ BucketsExact'
<1>0. now \in Nat /\ now' = now + 1 /\ started \in Nat
  BY DEF TypeOK, Tick, Seconds
<1>1. ASSUME NEW t \in Threads PROVE WorkerOK(t)'
  <2>1. WorkerOK(t) /\ sec[t] \in Nat
    BY WorkerTypes DEF Ring
  <2> QED BY <1>0, <2>1, Numbers DEF WorkerOK, Tick, ring, worker, Bucket
<1>2. ASSUME NEW b \in Slots PROVE SlotOK(b)'
  <2>1. SlotOK(b) /\ second[b] \in Int
    BY SlotTypes DEF Ring
  <2> QED BY <1>0, <2>1 DEF SlotOK, Tick, ring, Bucket
<1>3. Future'
  BY <1>0, SecondsFinite DEF Ring, Future, Tick
<1>4. ASSUME NEW s \in Seconds, s <= now', now' - s < Window
      PROVE  Min({credited'[s], MaxCount}) = Held(s)'
  <2>0. s \in Nat /\ Bucket(s) \in Slots
    BY SecondsFinite, BucketType
  <2>1. Held(s)' = Held(s) /\ credited' = credited
    BY DEF Held, Tick, ring, Bucket
  <2>2. CASE s <= now
    <3>1. now - s < Window
      BY <1>0, <1>4, <2>0, Numbers
    <3>2. Min({credited[s], MaxCount}) = Held(s)
      BY <2>2, <3>1, ExactMeans
    <3> QED BY <2>1, <3>2
  <2>3. CASE s = now + 1
    <3>1. credited[s] = 0
      BY <1>0, <2>3 DEF Ring, Future
    <3>2. SlotOK(Bucket(s)) /\ second[Bucket(s)] # s
      BY <1>0, <2>0, <2>3 DEF Ring, SlotOK
    <3>3. Min({0, MaxCount}) = 0
      BY Numbers DEF Min
    <3> QED BY <2>1, <3>1, <3>2, <3>3 DEF Held
  <2> QED BY <1>0, <1>4, <2>0, <2>2, <2>3
<1> QED BY <1>1, <1>2, <1>3, <1>4, ExactMeansNext DEF Ring

LEMMA ResetRing ==
  ASSUME TypeOK, TypeOK', Ring, Reset
  PROVE  Ring' /\ BucketsExact'
<1>1. ASSUME NEW t \in Threads PROVE WorkerOK(t)'
  BY DEF WorkerOK, Ring, Reset, worker
<1>2. ASSUME NEW b \in Slots PROVE SlotOK(b)'
  BY DEF SlotOK, Reset
<1>3. Future'
  BY DEF Future, Reset
<1>4. ASSUME NEW s \in Seconds PROVE Min({credited'[s], MaxCount}) = Held(s)'
  <2>1. Min({0, MaxCount}) = 0
    BY Numbers DEF Min
  <2>2. s \in Nat /\ Bucket(s) \in Slots
    BY SecondsFinite, BucketType
  <2>3. Held(s)' = IF second'[Bucket(s)] = s THEN bytes'[Bucket(s)] ELSE 0
    BY DEF Held, Bucket
  <2> QED BY <2>1, <2>2, <2>3 DEF Reset
<1> QED BY <1>1, <1>2, <1>3, <1>4, ExactMeansNext DEF Ring

LEMMA EntryRing ==
  ASSUME TypeOK, TypeOK', Ring, BucketsExact, started <= now, NEW t \in Threads,
         NEW n \in Sizes, BytesSupplied(t, n)
  PROVE  Ring' /\ BucketsExact'
<1>1. ASSUME NEW u \in Threads PROVE WorkerOK(u)'
  <2>1. now - now <= MaxLag /\ now \in Nat
    BY WorkerTypes, Numbers
  <2>2. CASE u = t
    BY <2>1, <2>2 DEF WorkerOK, BytesSupplied, To, TypeOK
  <2>3. CASE u # t
    BY <2>3 DEF Ring, WorkerOK, BytesSupplied, To, TypeOK, ring, Bucket
  <2> QED BY <2>2, <2>3
<1>2. ASSUME NEW b \in Slots PROVE SlotOK(b)'
  BY DEF Ring, SlotOK, BytesSupplied, ring, Bucket
<1>3. Future' /\ BucketsExact'
  BY DEF Ring, Future, BucketsExact, BytesSupplied, ring, Bucket
<1> QED BY <1>1, <1>2, <1>3 DEF Ring

LEMMA CheckRing ==
  ASSUME TypeOK, Ring, BucketsExact, NEW t \in Threads, CheckBucket(t)
  PROVE  Ring' /\ BucketsExact'
<1>1. ASSUME NEW u \in Threads PROVE WorkerOK(u)'
  <2>1. CASE u = t
    BY <2>1 DEF Ring, WorkerOK, CheckBucket, To, TypeOK, ring, Bucket
  <2>2. CASE u # t
    BY <2>2 DEF Ring, WorkerOK, CheckBucket, To, TypeOK, ring, Bucket
  <2> QED BY <2>1, <2>2
<1>2. ASSUME NEW b \in Slots PROVE SlotOK(b)'
  BY DEF Ring, SlotOK, CheckBucket, ring, Bucket
<1>3. Future' /\ BucketsExact'
  BY DEF Ring, Future, BucketsExact, CheckBucket, ring, Bucket
<1> QED BY <1>1, <1>2, <1>3 DEF Ring

LEMMA ClearRing ==
  ASSUME TypeOK, TypeOK', Ring, BucketsExact, NEW t \in Threads, ClearBucket(t)
  PROVE  Ring' /\ BucketsExact'
<1> DEFINE c == Bucket(sec[t])
<1>0. c \in Slots /\ sec[t] \in Nat /\ now \in Nat
  BY WorkerTypes
<1>1. CASE ~StillForeign(t)
  <2>1. ASSUME NEW u \in Threads PROVE WorkerOK(u)'
    <3>1. CASE u = t
      BY <1>1, <3>1 DEF Ring, WorkerOK, ClearBucket, StillForeign, To, TypeOK, ring, Bucket
    <3>2. CASE u # t
      BY <1>1, <3>2 DEF Ring, WorkerOK, ClearBucket, To, TypeOK, ring, Bucket
    <3> QED BY <3>1, <3>2
  <2>2. ASSUME NEW b \in Slots PROVE SlotOK(b)'
    BY <1>1 DEF Ring, SlotOK, ClearBucket, ring, Bucket
  <2>3. Future' /\ BucketsExact'
    BY <1>1 DEF Ring, Future, BucketsExact, ClearBucket, ring, Bucket
  <2> QED BY <2>1, <2>2, <2>3 DEF Ring
<1>2. CASE StillForeign(t)
  <2>0. /\ second[c] # sec[t] /\ bytes' = [bytes EXCEPT ![c] = 0] /\ mutex = None
        /\ mutex' = t /\ pc' = [pc EXCEPT ![t] = "store"]
        /\ UNCHANGED <<now, second, started, sec, size, credited>>
    BY <1>2 DEF ClearBucket, StillForeign, To
  <2>1. ASSUME NEW u \in Threads PROVE WorkerOK(u)'
    <3>1. CASE u = t
      BY <1>0, <2>0, <3>1 DEF Ring, WorkerOK, ClearBucket, TypeOK, Bucket
    <3>2. CASE u # t
      <4>1. WorkerOK(u) /\ pc[u] # "store"
        BY <2>0, Numbers DEF Ring, WorkerOK
      <4> QED BY <2>0, <3>2, <4>1 DEF WorkerOK, TypeOK, Bucket
    <3> QED BY <3>1, <3>2
  <2>2. ASSUME NEW b \in Slots PROVE SlotOK(b)'
    <3>1. SlotOK(b) /\ bytes[b] \in Nat /\ bytes'[b] <= bytes[b] /\ bytes'[b] \in Nat
      BY <2>0, SlotTypes DEF Ring, TypeOK
    <3>2. second[b] # -1 => credited[second[b]] \in Nat
      BY DEF TypeOK
    <3> QED BY <2>0, <3>1, <3>2 DEF SlotOK, Bucket
  <2>3. Future'
    BY <2>0 DEF Ring, Future
  <2>4. ASSUME NEW s \in Seconds, s <= now', now' - s < Window
        PROVE  Min({credited'[s], MaxCount}) = Held(s)'
    <3>1. Min({credited[s], MaxCount}) = Held(s) /\ s \in Nat
      BY <2>0, <2>4, ExactMeans, SecondsFinite
    <3>2. Bucket(s) = c => s = sec[t]
      <4>1. WorkerOK(t) /\ pc[t] # "idle"
        BY DEF Ring, ClearBucket
      <4> QED BY <2>0, <2>4, <3>1, <4>1, InWindow
    <3>3. Held(s)' = Held(s)
      BY <2>0, <3>2 DEF Held, Bucket, TypeOK
    <3> QED BY <2>0, <3>1, <3>3
  <2> QED BY <2>1, <2>2, <2>3, <2>4, ExactMeansNext DEF Ring
<1> QED BY <1>1, <1>2

LEMMA StoreRing ==
  ASSUME TypeOK, TypeOK', Ring, BucketsExact, NEW t \in Threads, StoreSecond(t)
  PROVE  Ring' /\ BucketsExact'
<1> DEFINE c == Bucket(sec[t])
<1>0. c \in Slots /\ sec[t] \in Nat /\ now \in Nat /\ sec[t] \in Seconds
  BY WorkerTypes
<1>1. /\ second' = [second EXCEPT ![c] = sec[t]] /\ mutex' = None
      /\ pc[t] = "store" /\ pc' = [pc EXCEPT ![t] = "add"]
      /\ UNCHANGED <<now, bytes, started, sec, size, credited>>
  BY DEF StoreSecond, To
<1>2. WorkerOK(t) /\ mutex = t /\ second[c] # sec[t] /\ bytes[c] = 0
  BY <1>1 DEF Ring, WorkerOK
<1>3. ASSUME NEW u \in Threads PROVE WorkerOK(u)'
  <2>1. CASE u = t
    BY <1>0, <1>1, <1>2, <2>1 DEF WorkerOK, TypeOK, Bucket
  <2>2. CASE u # t
    <3>1. WorkerOK(u) /\ pc[u] # "store" /\ pc'[u] = pc[u]
      BY <1>1, <1>2, <2>2 DEF Ring, WorkerOK, TypeOK
    <3>2. pc[u] = "add" => Bucket(sec[u]) # c
      <4> SUFFICES ASSUME pc[u] = "add", Bucket(sec[u]) = c PROVE FALSE
        OBVIOUS
      <4>1. sec[u] = sec[t]
        BY <1>1, SameSecond
      <4> QED BY <1>2, <3>1, <4>1 DEF WorkerOK
    <3> QED BY <1>1, <3>1, <3>2 DEF WorkerOK, TypeOK, Bucket
  <2> QED BY <2>1, <2>2
<1>4. ASSUME NEW b \in Slots PROVE SlotOK(b)'
  <2>1. CASE b = c
    <3>1. second'[b] = sec[t] /\ bytes'[b] = 0 /\ credited[sec[t]] \in Nat
      BY <1>0, <1>1, <1>2, <2>1 DEF TypeOK
    <3> QED BY <1>0, <1>1, <1>2, <2>1, <3>1 DEF SlotOK, WorkerOK, Bucket
  <2>2. CASE b # c
    BY <1>1, <2>2 DEF Ring, SlotOK, Bucket, TypeOK
  <2> QED BY <2>1, <2>2
<1>5. Future'
  BY <1>1 DEF Ring, Future
<1>6. ASSUME NEW s \in Seconds, s <= now', now' - s < Window
      PROVE  Min({credited'[s], MaxCount}) = Held(s)'
  <2>1. Min({credited[s], MaxCount}) = Held(s) /\ s \in Nat
    BY <1>1, <1>6, ExactMeans, SecondsFinite
  <2>2. CASE Bucket(s) = c
    <3>1. s = sec[t]
      BY <1>1, <1>2, <1>6, <2>1, <2>2, InWindow
    <3>2. Held(s) = 0 /\ Held(s)' = 0
      BY <1>0, <1>1, <1>2, <3>1 DEF Held, Bucket, TypeOK
    <3> QED BY <1>1, <2>1, <3>2
  <2>3. CASE Bucket(s) # c
    <3>1. Held(s)' = Held(s)
      BY <1>1, <2>3 DEF Held, Bucket, TypeOK
    <3> QED BY <1>1, <2>1, <3>1
  <2> QED BY <2>2, <2>3
<1> QED BY <1>3, <1>4, <1>5, <1>6, ExactMeansNext DEF Ring

LEMMA AddRing ==
  ASSUME TypeOK, TypeOK', Ring, BucketsExact, NEW t \in Threads, AddBytes(t)
  PROVE  Ring' /\ BucketsExact'
<1> DEFINE c == Bucket(sec[t])
           r == sec[t]
<1>0. c \in Slots /\ r \in Nat /\ now \in Nat /\ r \in Seconds /\ size[t] \in Nat
  BY WorkerTypes
<1>1. /\ bytes' = [bytes EXCEPT ![c] = SaturatingAdd(bytes[c], size[t])]
      /\ credited' = [credited EXCEPT ![r] = credited[r] + size[t]]
      /\ pc[t] = "add" /\ pc' = [pc EXCEPT ![t] = "idle"]
      /\ sec' = [sec EXCEPT ![t] = 0] /\ size' = [size EXCEPT ![t] = 0]
      /\ UNCHANGED <<now, second, started, mutex>>
  BY DEF AddBytes, To
<1>2. WorkerOK(t) /\ second[c] = r /\ r <= now /\ now - r < Window
  BY <1>0, <1>1, Numbers DEF Ring, WorkerOK
<1>3. bytes[c] = Min({credited[r], MaxCount}) /\ credited[r] \in Nat /\ bytes[c] \in 0..MaxCount
  BY <1>0, <1>2, ExactMeans DEF Held, TypeOK
<1>4. /\ SaturatingAdd(bytes[c], size[t]) = Min({credited[r] + size[t], MaxCount})
      /\ SaturatingAdd(bytes[c], size[t]) <= bytes[c] + size[t]
      /\ SaturatingAdd(bytes[c], size[t]) \in Nat
  BY <1>0, <1>3, Saturates
<1>5. ASSUME NEW u \in Threads PROVE WorkerOK(u)'
  <2>1. CASE u = t
    BY <1>1, <2>1 DEF WorkerOK, TypeOK
  <2>2. CASE u # t
    <3>1. WorkerOK(u) /\ pc'[u] = pc[u] /\ sec'[u] = sec[u] /\ size'[u] = size[u]
      BY <1>1, <2>2 DEF Ring, TypeOK
    <3>2. pc[u] = "store" => Bucket(sec[u]) # c
      <4> SUFFICES ASSUME pc[u] = "store", Bucket(sec[u]) = c PROVE FALSE
        OBVIOUS
      <4>1. sec[u] = sec[t]
        BY <1>1, SameSecond
      <4> QED BY <1>2, <3>1, <4>1 DEF WorkerOK
    <3> QED BY <1>1, <3>1, <3>2 DEF WorkerOK, TypeOK, Bucket
  <2> QED BY <2>1, <2>2
<1>6. ASSUME NEW b \in Slots PROVE SlotOK(b)'
  <2>1. CASE b = c
    <3>1. /\ bytes'[c] = SaturatingAdd(bytes[c], size[t]) /\ second'[c] = r
          /\ credited'[r] = credited[r] + size[t] /\ bytes[c] <= credited[r]
      BY <1>0, <1>1, <1>2 DEF TypeOK, Ring, SlotOK
    <3>2. bytes'[c] <= credited'[r]
      BY <1>0, <1>3, <1>4, <3>1
    <3>3. SlotOK(c)
      BY <1>0 DEF Ring
    <3> QED BY <1>0, <1>1, <1>2, <2>1, <3>1, <3>2, <3>3 DEF SlotOK, Bucket
  <2>2. CASE b # c
    <3>1. SlotOK(b) /\ bytes'[b] = bytes[b] /\ second'[b] = second[b]
      BY <1>1, <2>2 DEF Ring, TypeOK
    <3>2. second[b] # -1 => second[b] # r
      BY <2>2, <3>1 DEF SlotOK
    <3> QED BY <1>1, <3>1, <3>2 DEF SlotOK, Bucket, TypeOK
  <2> QED BY <2>1, <2>2
<1>7. Future'
  <2>1. ASSUME NEW s \in Seconds, s > now' PROVE credited'[s] = 0
    <3>1. s # r
      BY <1>0, <1>1, <1>2, <2>1, SecondsFinite
    <3> QED BY <1>1, <2>1, <3>1 DEF Ring, Future, TypeOK
  <2> QED BY <2>1 DEF Future
<1>8. ASSUME NEW s \in Seconds, s <= now', now' - s < Window
      PROVE  Min({credited'[s], MaxCount}) = Held(s)'
  <2>1. Min({credited[s], MaxCount}) = Held(s) /\ s \in Nat
    BY <1>1, <1>8, ExactMeans, SecondsFinite
  <2>2. CASE s = r
    <3>1. Held(s)' = SaturatingAdd(bytes[c], size[t]) /\ credited'[s] = credited[r] + size[t]
      BY <1>0, <1>1, <1>2, <2>2 DEF Held, Bucket, TypeOK
    <3> QED BY <1>4, <3>1
  <2>3. CASE s # r
    <3>1. Bucket(s) # c
      BY <1>1, <1>2, <1>8, <2>1, <2>3, InWindow
    <3>2. Held(s)' = Held(s) /\ credited'[s] = credited[s]
      BY <1>1, <2>3, <3>1 DEF Held, Bucket, TypeOK
    <3> QED BY <2>1, <3>2
  <2> QED BY <2>2, <2>3
<1> QED BY <1>5, <1>6, <1>7, <1>8, ExactMeansNext DEF Ring

-----------------------------------------------------------------------------
(* The total *)

\* What has been reported: what the buckets were credited with, and what the
\* workers in bytesSupplied() are about to add.
Reported == Sum(Seconds) + SumOver(size, Threads)

LEMMA ReportedType ==
  ASSUME TypeOK
  PROVE  Sum(Seconds) \in Nat /\ SumOver(size, Threads) \in Nat /\ Reported \in Nat
<1>1. \A s \in Seconds : credited[s] \in Nat
  BY DEF TypeOK
<1>2. \A t \in Threads : size[t] \in Nat
  BY WorkerTypes
<1>3. SumOver(credited, Seconds) \in Nat
  BY <1>1, SecondsFinite, SumType
<1>4. SumOver(size, Threads) \in Nat
  BY <1>2, Numbers, SumType
<1> QED BY <1>3, <1>4 DEF Sum, Reported

LEMMA SizeStep ==
  ASSUME TypeOK, NEW t \in Threads, NEW m \in Nat, size' = [size EXCEPT ![t] = m]
  PROVE  SumOver(size', Threads) = SumOver(size, Threads) + m - size[t]
<1>1. size \in [Threads -> Nat]
  <2>1. \A u \in Threads : size[u] \in Nat
    BY WorkerTypes
  <2> QED BY <2>1 DEF TypeOK
<1>2. IsFiniteSet(Threads)
  BY Numbers
<1>3. SumOver([size EXCEPT ![t] = m], Threads) = SumOver(size, Threads) + m - size[t]
  BY <1>1, <1>2, SumExcept, Zenon
<1> QED BY <1>3

LEMMA CreditStep ==
  ASSUME TypeOK, NEW r \in Seconds, NEW m \in Nat,
         credited' = [credited EXCEPT ![r] = credited[r] + m]
  PROVE  SumOver(credited', Seconds) = SumOver(credited, Seconds) + m
<1>1. credited \in [Seconds -> Nat] /\ credited[r] \in Nat /\ credited[r] + m \in Nat
  BY DEF TypeOK
<1> DEFINE k == credited[r] + m
<1>2. credited' = [credited EXCEPT ![r] = k] /\ k \in Nat
  BY <1>1
<1> HIDE DEF k
<1>3. /\ SumOver(credited, Seconds) \in Nat
      /\ SumOver([credited EXCEPT ![r] = k], Seconds) = SumOver(credited, Seconds) + k - credited[r]
  <2>1. IsFiniteSet(Seconds) /\ credited \in [Seconds -> Nat] /\ r \in Seconds /\ k \in Nat
    BY <1>1, <1>2, SecondsFinite
  <2> QED BY <2>1, SumExcept, Zenon
<1>4. SumOver(credited', Seconds) = SumOver(credited, Seconds) + k - credited[r]
  BY <1>2, <1>3
<1> QED BY <1>1, <1>3, <1>4 DEF k

LEMMA EntryTotal ==
  ASSUME TypeOK, TotalExact, Ring, NEW t \in Threads, NEW n \in Sizes, BytesSupplied(t, n)
  PROVE  TotalExact'
<1>1. /\ size' = [size EXCEPT ![t] = n] /\ credited' = credited
      /\ transferred' = SaturatingAdd(transferred, n) /\ size[t] = 0 /\ n \in Nat
  BY Numbers DEF BytesSupplied, Ring, WorkerOK
<1>2. SumOver(size', Threads) = SumOver(size, Threads) + n - size[t]
  BY <1>1, SizeStep
<1>3. Reported' = Reported + n
  BY <1>1, <1>2, ReportedType DEF Reported, Sum
<1>4. transferred = Min({Reported, MaxCount})
  BY DEF TotalExact, Reported, Min
<1>5. transferred' = Min({Reported + n, MaxCount})
  BY <1>1, <1>4, Saturates, ReportedType DEF TypeOK
<1> QED BY <1>3, <1>5 DEF TotalExact, Reported, Min

LEMMA AddTotal ==
  ASSUME TypeOK, TotalExact, NEW t \in Threads, AddBytes(t)
  PROVE  TotalExact'
<1>1. /\ size' = [size EXCEPT ![t] = 0] /\ transferred' = transferred
      /\ credited' = [credited EXCEPT ![sec[t]] = credited[sec[t]] + size[t]]
  BY DEF AddBytes
<1>2. size[t] \in Nat /\ sec[t] \in Seconds
  BY WorkerTypes
<1>3. SumOver(size', Threads) = SumOver(size, Threads) + 0 - size[t]
  BY <1>1, SizeStep
<1>4. SumOver(credited', Seconds) = SumOver(credited, Seconds) + size[t]
  BY <1>1, <1>2, CreditStep
<1>5. Reported' = Reported
  BY <1>2, <1>3, <1>4, ReportedType DEF Reported, Sum
<1> QED BY <1>1, <1>5 DEF TotalExact, Reported

LEMMA ResetTotal ==
  ASSUME TypeOK, Ring, Reset
  PROVE  TotalExact'
<1>1. \A t \in Threads : size'[t] = 0
  BY DEF Reset, Ring, WorkerOK, worker
<1>2. \A s \in Seconds : credited'[s] = 0
  BY DEF Reset
<1>3. SumOver(size', Threads) = 0 /\ SumOver(credited', Seconds) = 0
  BY <1>1, <1>2, Numbers, SecondsFinite, SumZero
<1>4. Min({MaxCount, 0}) = 0
  BY Numbers DEF Min
<1> QED BY <1>3, <1>4 DEF TotalExact, Sum, Reset

-----------------------------------------------------------------------------
(* The snapshot *)

LEMMA SnapTypes ==
  ASSUME TypeOK
  PROVE  /\ snap.now \in Nat /\ started \in Nat /\ now \in Nat
         /\ snap.recent \in 0..MaxCount /\ snap.recent \in Nat /\ snap.hit \in BOOLEAN
<1>1. snap.now \in Seconds /\ started \in Seconds /\ now \in Seconds
  BY DEF TypeOK
<1>2. snap.recent \in 0..MaxCount /\ snap.hit \in BOOLEAN
  BY DEF TypeOK
<1> QED BY <1>1, <1>2, SecondsFinite

LEMMA LowOK ==
  ASSUME TypeOK, started <= snap.now
  PROVE  /\ Low \in Int
         /\ \A x \in Int : x >= started /\ x > snap.now - Window => x >= Low
<1> DEFINE d == snap.now - started + 1
<1>1. snap.now \in Nat /\ started \in Nat /\ d \in Nat /\ d >= 1
  BY SnapTypes
<1> HIDE DEF d
<1>2. Max({1, d}) = d
  BY <1>1 DEF Max
<1>3. Min({Window, d}) = IF Window <= d THEN Window ELSE d
  BY <1>1, Numbers DEF Min
<1>4. SnapshotWindow = IF Window <= d THEN Window ELSE d
  BY <1>2, <1>3 DEF SnapshotWindow, d
<1>5. Low = snap.now - (IF Window <= d THEN Window ELSE d) + 1
  BY <1>4 DEF Low
<1> QED BY <1>1, <1>5, Numbers DEF d

LEMMA UptoFinite ==
  ASSUME NEW k
  PROVE  IsFiniteSet(Upto(k)) /\ Upto(k) \subseteq Seconds
<1>1. Upto(k) \subseteq Seconds
  BY DEF Upto
<1> QED BY <1>1, SecondsFinite, FS_Subset

\* What was counted is still covered when more is reported and time passes.
LEMMA CoverGrows ==
  ASSUME TypeOK, TypeOK', UNCHANGED <<snap, started>>, started <= snap.now, now <= now',
         \A s \in Seconds : credited[s] <= credited'[s], NEW k \in Slots
  PROVE  /\ Sum(Upto(k)) \in Nat /\ Sum(Upto(k))' \in Nat
         /\ Sum(Upto(k)) <= Sum(Upto(k))'
<1> DEFINE S == Upto(k)
           T == Upto(k)'
           g == credited'
<1>1. Low' = Low /\ Low \in Int /\ now \in Nat /\ now' \in Nat
  <2>1. now' \in Nat
    BY SecondsFinite DEF TypeOK
  <2>2. Low' = Low
    BY DEF Low, SnapshotWindow
  <2> QED BY <2>1, <2>2, LowOK, SnapTypes
<1>2. S \subseteq T
  BY <1>1, SecondsFinite DEF Upto, Bucket
<1>3. T \subseteq Seconds /\ IsFiniteSet(T) /\ IsFiniteSet(S)
  <2>1. T \subseteq Seconds
    BY DEF Upto
  <2> QED BY <2>1, UptoFinite, SecondsFinite, FS_Subset
<1>4. \A s \in T : credited[s] \in Nat /\ g[s] \in Nat /\ credited[s] <= g[s]
  BY <1>3 DEF TypeOK
<1>5. Sum(Upto(k)) = SumOver(credited, S) /\ Sum(Upto(k))' = SumOver(g, T)
  BY DEF Sum
<1> HIDE DEF S, T, g
<1>6. SumOver(credited, S) <= SumOver(g, S)
  BY <1>2, <1>3, <1>4, SumGrows
<1>7. SumOver(g, S) <= SumOver(g, T)
  BY <1>2, <1>3, <1>4, SumMonotone
<1>8. SumOver(credited, S) \in Nat /\ SumOver(g, S) \in Nat /\ SumOver(g, T) \in Nat
  BY <1>2, <1>3, <1>4, SumType
<1> QED BY <1>5, <1>6, <1>7, <1>8

LEMMA ReaderKept ==
  ASSUME TypeOK, TypeOK', ReaderOK, UNCHANGED <<spc, snap, started>>, now <= now',
         \A s \in Seconds : credited[s] <= credited'[s],
         \A k \in Slots : spc # 0 => second'[k] = second[k] \/ second'[k] >= Low
  PROVE  ReaderOK'
<1>1. started \in Nat /\ now \in Nat /\ now' \in Nat /\ snap.now \in Nat
  <2>1. now' \in Nat
    BY SecondsFinite DEF TypeOK
  <2> QED BY <2>1, SnapTypes
<1>2. started' <= now' /\ (spc' # 0 => started' <= snap'.now /\ snap'.now <= now')
  BY <1>1 DEF ReaderOK
<1>3. ASSUME NEW k \in Slots
      PROVE  /\ spc' \in {2 * k + 1, 2 * k + 2} => snap'.recent <= Sum(Upto(k))'
             /\ spc' = 2 * k + 2 /\ snap'.hit => second'[k] = -1 \/ second'[k] >= Low'
  <2>0. k \in Nat /\ Low' = Low
    BY DEF Slots, Low, SnapshotWindow
  <2>1. CASE spc \in {2 * k + 1, 2 * k + 2}
    <3>1. spc # 0 /\ started <= snap.now
      BY <2>0, <2>1 DEF ReaderOK
    <3>2. /\ Sum(Upto(k)) \in Nat /\ Sum(Upto(k))' \in Nat
          /\ Sum(Upto(k)) <= Sum(Upto(k))'
      BY <3>1, CoverGrows
    <3>3. snap.recent <= Sum(Upto(k)) /\ snap.recent \in Nat
      BY <2>1, SnapTypes DEF ReaderOK
    <3>4. snap'.recent <= Sum(Upto(k))'
      BY <3>2, <3>3
    <3>5. spc = 2 * k + 2 /\ snap.hit => second[k] = -1 \/ second[k] >= Low
      BY DEF ReaderOK
    <3> QED BY <2>0, <3>1, <3>4, <3>5
  <2>2. CASE spc \notin {2 * k + 1, 2 * k + 2}
    BY <2>2
  <2> QED BY <2>1, <2>2
<1> QED BY <1>2, <1>3 DEF ReaderOK

\* The bytes of bucket j were reported in a second of the interval that falls
\* into bucket j, if any.
LEMMA BucketCounted ==
  ASSUME TypeOK, Ring, ReaderOK, NEW j \in Slots, spc = 2 * j + 2
  PROVE  /\ (IF snap.hit THEN SaturatingAdd(snap.recent, bytes[j]) ELSE snap.recent)
              <= Sum(Upto(j + 1))
         /\ Sum(Upto(j + 1)) \in Nat
<1> DEFINE S == Upto(j)
           T == Upto(j + 1)
           q == second[j]
<1>0. j \in Nat /\ spc # 0 /\ started <= snap.now /\ snap.now <= now
  BY DEF Slots, ReaderOK
<1>1. Low \in Int /\ now \in Nat
  BY <1>0, LowOK, SnapTypes
<1>2. /\ IsFiniteSet(S) /\ IsFiniteSet(T) /\ T \subseteq Seconds /\ S \subseteq T
  <2>1. S \subseteq T
    <3>1. \A s \in Seconds : Bucket(s) < j => Bucket(s) < j + 1
      BY <1>0, BucketType, SecondsFinite DEF Slots
    <3> QED BY <3>1 DEF Upto
  <2> QED BY <2>1, UptoFinite
<1>3. \A s \in T : credited[s] \in Nat
  BY <1>2 DEF TypeOK
<1>4. snap.recent <= SumOver(credited, S) /\ snap.recent \in 0..MaxCount
  BY SnapTypes DEF ReaderOK, Sum
<1>5. /\ SumOver(credited, S) \in Nat /\ SumOver(credited, T) \in Nat
      /\ SumOver(credited, S) <= SumOver(credited, T)
  <2> HIDE DEF S, T
  <2>1. \A s \in S : credited[s] \in Nat
    BY <1>2, <1>3
  <2>2. SumOver(credited, S) \in Nat /\ SumOver(credited, T) \in Nat
    BY <1>2, <1>3, <2>1, SumType
  <2> QED BY <1>2, <1>3, <2>2, SumMonotone
<1>6. SlotOK(j) /\ bytes[j] \in 0..MaxCount /\ q \in Int
  BY SlotTypes DEF Ring
<1>7. SaturatingAdd(snap.recent, bytes[j]) <= snap.recent + bytes[j]
      /\ SaturatingAdd(snap.recent, bytes[j]) \in Nat
  <2>1. bytes[j] \in Nat /\ snap.recent \in 0..MaxCount
    BY <1>4, <1>6
  <2>2. SaturatingAdd(snap.recent, bytes[j]) \in 0..MaxCount
        /\ SaturatingAdd(snap.recent, bytes[j]) <= snap.recent + bytes[j]
    BY <2>1, Saturates
  <2> QED BY <2>2
<1>8. CASE snap.hit /\ q # -1
  <2>1. q \in Seconds /\ q >= Low /\ q <= now /\ Bucket(q) = j /\ bytes[j] <= credited[q]
    BY <1>6, <1>8 DEF SlotOK, TypeOK, ReaderOK
  <2>2. q \in T /\ q \notin S
    BY <1>0, <1>1, <1>6, <2>1 DEF Upto
  <2>3. S \cup {q} \subseteq T
    BY <1>2, <2>2
  <2> HIDE DEF S, T, q
  <2>4. IsFiniteSet(S \cup {q}) /\ \A s \in S \cup {q} : credited[s] \in Nat
    BY <1>2, <1>3, <2>3, FS_Subset
  <2>5. SumOver(credited, S \cup {q}) = SumOver(credited, S) + credited[q]
    BY <1>2, <2>2, <2>4, SumAdd
  <2>6. SumOver(credited, S \cup {q}) <= SumOver(credited, T)
    BY <1>2, <1>3, <2>3, SumMonotone
  <2>7. credited[q] \in Nat
    BY <2>4
  <2>8. snap.recent + bytes[j] <= SumOver(credited, T)
    BY <1>4, <1>5, <1>6, <2>1, <2>5, <2>6, <2>7
  <2>9. Sum(Upto(j + 1)) = SumOver(credited, T)
    BY DEF Sum, T
  <2> QED BY <1>4, <1>5, <1>6, <1>7, <1>8, <2>8, <2>9
<1>9. CASE ~(snap.hit /\ q # -1)
  <2>1. bytes[j] = 0 \/ ~snap.hit
    BY <1>6, <1>9 DEF SlotOK
  <2>2. Sum(Upto(j + 1)) = SumOver(credited, T)
    BY DEF Sum
  <2> HIDE DEF T, S
  <2> QED BY <1>4, <1>5, <1>6, <1>7, <2>1, <2>2
<1> QED BY <1>8, <1>9

LEMMA SnapshotReader ==
  ASSUME TypeOK, TypeOK', Ring, ReaderOK, Snapshot
  PROVE  ReaderOK'
<1>0. \A k \in Slots : k \in Nat
  BY DEF Slots
<1>1. CASE SnapshotBegin
  <2>1. spc' = 1 /\ snap' = [now |-> now, hit |-> FALSE, recent |-> 0]
        /\ UNCHANGED <<now, started, second>>
    BY <1>1 DEF SnapshotBegin, ring
  <2>2. started \in Nat /\ now \in Nat /\ started <= now
    BY SnapTypes DEF ReaderOK
  <2>3. ASSUME NEW k \in Slots PROVE Sum(Upto(k))' \in Nat
    <3> DEFINE T == Upto(k)'
               g == credited'
    <3>1. T \subseteq Seconds
      BY DEF Upto
    <3>2. IsFiniteSet(T) /\ \A s \in T : g[s] \in Nat
      BY <3>1, SecondsFinite, FS_Subset DEF TypeOK
    <3> HIDE DEF T, g
    <3>3. SumOver(g, T) \in Nat
      BY <3>2, SumType
    <3> QED BY <3>3 DEF T, g, Sum
  <2>4. ASSUME NEW k \in Slots
        PROVE  /\ spc' \in {2 * k + 1, 2 * k + 2} => snap'.recent <= Sum(Upto(k))'
               /\ spc' = 2 * k + 2 /\ snap'.hit => second'[k] = -1 \/ second'[k] >= Low'
    BY <1>0, <2>1, <2>3
  <2> QED BY <2>1, <2>2, <2>4 DEF ReaderOK
<1>2. CASE LoadSecond
  <2>1. PICK j \in Slots : spc = 2 * j + 1 /\ spc \div 2 = j
    BY <1>2, Odd DEF LoadSecond, TypeOK
  <2>2. /\ spc' = 2 * j + 2 /\ UNCHANGED <<now, started, second, credited>>
        /\ snap'.now = snap.now /\ snap'.recent = snap.recent
        /\ snap'.hit = Recent(second[j], snap.now)
    BY <1>2, <2>1 DEF LoadSecond, ring, TypeOK
  <2>3. Low' = Low /\ \A k \in Slots : Upto(k)' = Upto(k)
    BY <2>2 DEF Low, SnapshotWindow, Upto, Bucket
  <2>4. started <= now /\ started <= snap.now /\ snap.now <= now
    BY <1>0, <2>1 DEF ReaderOK
  <2>5. snap.recent <= Sum(Upto(j))
    BY <2>1 DEF ReaderOK
  <2>6. Sum(Upto(j))' = Sum(Upto(j))
    BY <2>1, <2>2, <2>3 DEF Sum
  <2>7. snap'.hit => second[j] = -1 \/ second[j] >= Low
    <3>1. SlotOK(j) /\ second[j] \in Int
      BY <2>1, SlotTypes DEF Ring
    <3> QED BY <2>2, <2>4, <3>1, LowOK DEF SlotOK, Recent
  <2>8. ASSUME NEW k \in Slots
        PROVE  /\ spc' \in {2 * k + 1, 2 * k + 2} => snap'.recent <= Sum(Upto(k))'
               /\ spc' = 2 * k + 2 /\ snap'.hit => second'[k] = -1 \/ second'[k] >= Low'
    <3>1. j \in Nat /\ k \in Nat
      BY <1>0, <2>1
    <3>2. spc' # 2 * k + 1 /\ (spc' = 2 * k + 2 => k = j)
      BY <2>2, <3>1
    <3> QED BY <2>2, <2>3, <2>5, <2>6, <2>7, <3>2
  <2> QED BY <2>2, <2>4, <2>8 DEF ReaderOK
<1>3. CASE LoadBytes
  <2>1. PICK j \in Slots : spc = 2 * j + 2 /\ spc \div 2 - 1 = j
    BY <1>3, Even DEF LoadBytes, TypeOK
  <2>2. /\ spc' = 2 * (j + 1) + 1 /\ UNCHANGED <<now, started, second, credited>>
        /\ snap'.now = snap.now /\ snap'.hit = FALSE
        /\ snap'.recent = IF snap.hit THEN SaturatingAdd(snap.recent, bytes[j]) ELSE snap.recent
    <3>1. spc' = spc + 1 /\ j \in Nat
      BY <1>0, <1>3, <2>1 DEF LoadBytes
    <3>2. /\ UNCHANGED <<now, started, second, credited>>
          /\ snap'.now = snap.now /\ snap'.hit = FALSE
          /\ snap'.recent = IF snap.hit THEN SaturatingAdd(snap.recent, bytes[j]) ELSE snap.recent
      BY <1>3, <2>1 DEF LoadBytes, ring, TypeOK
    <3> QED BY <2>1, <3>1, <3>2
  <2>3. Low' = Low /\ Upto(j + 1)' = Upto(j + 1)
    BY <2>2 DEF Low, SnapshotWindow, Upto, Bucket
  <2>4. started <= now /\ started <= snap.now /\ snap.now <= now
    BY <1>0, <2>1 DEF ReaderOK
  <2>5. snap'.recent <= Sum(Upto(j + 1))
    BY <2>1, <2>2, BucketCounted
  <2>6. Sum(Upto(j + 1))' = Sum(Upto(j + 1))
    BY <2>2, <2>3 DEF Sum
  <2>7. ASSUME NEW k \in Slots
        PROVE  /\ spc' \in {2 * k + 1, 2 * k + 2} => snap'.recent <= Sum(Upto(k))'
               /\ spc' = 2 * k + 2 /\ snap'.hit => second'[k] = -1 \/ second'[k] >= Low'
    <3>1. j \in Nat /\ k \in Nat
      BY <1>0, <2>1
    <3>2. spc' # 2 * k + 2 /\ (spc' = 2 * k + 1 => k = j + 1)
      BY <2>2, <3>1
    <3> QED BY <2>2, <2>5, <2>6, <3>2
  <2> QED BY <2>2, <2>4, <2>7 DEF ReaderOK
<1>4. CASE SnapshotEnd
  <2>1. spc' = 0 /\ UNCHANGED <<now, started, second, credited>>
    BY <1>4 DEF SnapshotEnd, ring
  <2> QED BY <1>0, <2>1 DEF ReaderOK
<1> QED BY <1>1, <1>2, <1>3, <1>4 DEF Snapshot

LEMMA SupplyReader ==
  ASSUME TypeOK, TypeOK', Ring, ReaderOK, NEW t \in Threads, Supply(t)
  PROVE  ReaderOK'
<1>1. UNCHANGED <<now, spc, snap, started>> /\ now <= now'
  BY SnapTypes DEF Supply, BytesSupplied, CheckBucket, ClearBucket, StoreSecond, AddBytes, reader
<1>2. \A s \in Seconds : credited[s] \in Nat
  BY DEF TypeOK
<1>3. CASE AddBytes(t)
  <2>1. second' = second /\ credited' = [credited EXCEPT ![sec[t]] = @ + size[t]]
    BY <1>3 DEF AddBytes
  <2>2. \A s \in Seconds : credited[s] <= credited'[s]
    BY <1>2, <2>1, WorkerTypes DEF TypeOK
  <2> QED BY <1>1, <2>1, <2>2, ReaderKept
<1>4. CASE StoreSecond(t)
  <2>1. second' = [second EXCEPT ![Bucket(sec[t])] = sec[t]] /\ credited' = credited
        /\ pc[t] = "store"
    BY <1>4 DEF StoreSecond
  <2>2. \A s \in Seconds : credited[s] <= credited'[s]
    BY <1>2, <2>1
  <2>3. spc # 0 => sec[t] >= Low
    <3> SUFFICES ASSUME spc # 0 PROVE sec[t] >= Low
      OBVIOUS
    <3>1. started <= snap.now /\ snap.now <= now /\ WorkerOK(t)
      BY DEF ReaderOK, Ring
    <3>2. started <= sec[t] /\ now - sec[t] <= MaxLag
      BY <2>1, <3>1 DEF WorkerOK
    <3>3. sec[t] \in Nat /\ sec[t] > snap.now - Window
      BY <3>1, <3>2, WorkerTypes, SnapTypes, Numbers
    <3> QED BY <3>1, <3>2, <3>3, LowOK, SnapTypes
  <2>4. \A k \in Slots : spc # 0 => second'[k] = second[k] \/ second'[k] >= Low
    BY <2>1, <2>3 DEF TypeOK
  <2> QED BY <1>1, <2>2, <2>4, ReaderKept
<1>5. CASE ~AddBytes(t) /\ ~StoreSecond(t)
  <2>1. second' = second /\ credited' = credited
    BY <1>5 DEF Supply, BytesSupplied, CheckBucket, ClearBucket, ring
  <2>2. \A s \in Seconds : credited[s] <= credited'[s]
    BY <1>2, <2>1
  <2> QED BY <1>1, <2>1, <2>2, ReaderKept
<1> QED BY <1>3, <1>4, <1>5

LEMMA TickReader ==
  ASSUME TypeOK, TypeOK', ReaderOK, Tick
  PROVE  ReaderOK'
<1>1. UNCHANGED <<spc, snap, started, second, credited>> /\ now <= now'
  BY SnapTypes DEF Tick, ring, reader
<1>2. \A s \in Seconds : credited[s] <= credited'[s]
  BY <1>1 DEF TypeOK
<1> QED BY <1>1, <1>2, ReaderKept

LEMMA ResetReader ==
  ASSUME TypeOK, ReaderOK, Reset
  PROVE  ReaderOK'
<1>1. \A k \in Slots : k \in Nat
  BY DEF Slots
<1>2. spc' = 0 /\ started' = now /\ now' = now /\ now \in Nat
  BY SnapTypes DEF Reset, reader
<1> QED BY <1>1, <1>2 DEF ReaderOK

-----------------------------------------------------------------------------
(* Theorems *)

LEMMA MetricsInit == Init => MetricsInv
<1> SUFFICES ASSUME Init PROVE MetricsInv
  OBVIOUS
<1>1. TypeOK
  BY InitTyped
<1>2. Ring
  BY DEF Init, Ring, WorkerOK, SlotOK, Future
<1>3. BucketsExact
  <2>1. ASSUME NEW s \in Seconds PROVE Min({credited[s], MaxCount}) = Held(s)
    <3>1. Min({0, MaxCount}) = 0
      BY Numbers DEF Min
    <3>2. s \in Nat /\ Bucket(s) \in Slots
      BY SecondsFinite, BucketType
    <3> QED BY <3>1, <3>2 DEF Init, Held
  <2> QED BY <1>1, <2>1, ExactMeans
<1>4. TotalExact
  <2>1. (\A t \in Threads : size[t] = 0) /\ (\A s \in Seconds : credited[s] = 0)
    BY DEF Init
  <2>2. SumOver(size, Threads) = 0 /\ SumOver(credited, Seconds) = 0
    BY <2>1, Numbers, SecondsFinite, SumZero
  <2>3. Min({MaxCount, 0}) = 0
    BY Numbers DEF Min
  <2> QED BY <2>2, <2>3 DEF TotalExact, Sum, Init
<1>5. ReaderOK
  BY DEF Init, ReaderOK, Slots
<1> QED BY <1>1, <1>2, <1>3, <1>4, <1>5 DEF MetricsInv

LEMMA MetricsNext ==
  ASSUME MetricsInv, [Next]_vars
  PROVE  MetricsInv'
<1>0. TypeOK /\ Ring /\ BucketsExact /\ TotalExact /\ ReaderOK /\ started <= now
  BY DEF MetricsInv, ReaderOK
<1>1. TypeOK'
  BY <1>0, NextTyped
<1>2. CASE Tick
  <2>1. TotalExact'
    BY <1>0, <1>2 DEF TotalExact, Tick, worker, Sum
  <2> QED BY <1>0, <1>1, <1>2, <2>1, TickRing, TickReader DEF MetricsInv
<1>3. CASE Reset
  BY <1>0, <1>1, <1>3, ResetRing, ResetTotal, ResetReader DEF MetricsInv
<1>4. CASE Snapshot
  <2>1. UNCHANGED <<now, transferred, second, bytes, started, mutex, pc, sec, size, credited>>
    BY <1>4 DEF Snapshot, SnapshotBegin, LoadSecond, LoadBytes, SnapshotEnd, ring, worker
  <2>2. TotalExact' /\ Ring' /\ BucketsExact'
    BY <1>0, <2>1 DEF TotalExact, Sum, Ring, WorkerOK, SlotOK, Future, BucketsExact, Bucket
  <2> QED BY <1>0, <1>1, <1>4, <2>2, SnapshotReader DEF MetricsInv
<1>5. ASSUME NEW t \in Threads, Supply(t) PROVE MetricsInv'
  <2>1. ReaderOK'
    BY <1>0, <1>1, <1>5, SupplyReader
  <2>2. ASSUME NEW n \in Sizes, BytesSupplied(t, n) PROVE Ring' /\ BucketsExact' /\ TotalExact'
    BY <1>0, <1>1, <2>2, EntryRing, EntryTotal
  <2>3. CASE CheckBucket(t) \/ ClearBucket(t) \/ StoreSecond(t)
    <3>1. TotalExact'
      BY <1>0, <2>3 DEF TotalExact, Sum, CheckBucket, ClearBucket, StoreSecond
    <3> QED BY <1>0, <1>1, <2>1, <2>3, <3>1, CheckRing, ClearRing, StoreRing DEF MetricsInv
  <2>4. CASE AddBytes(t)
    BY <1>0, <1>1, <2>1, <2>4, AddRing, AddTotal DEF MetricsInv
  <2> QED BY <1>1, <1>5, <2>1, <2>2, <2>3, <2>4 DEF Supply, MetricsInv
<1>6. CASE UNCHANGED vars
  BY <1>0, <1>1, <1>6 DEF MetricsInv, vars, ring, worker, reader, TotalExact, Sum, Ring,
       WorkerOK, SlotOK, Future, BucketsExact, Bucket, ReaderOK, Upto, Low, SnapshotWindow
<1> QED BY <1>2, <1>3, <1>4, <1>5, <1>6 DEF Next

LEMMA AlwaysMetricsInv == Spec => []MetricsInv
  BY MetricsInit, MetricsNext, PTL DEF Spec

\* transfer_metrics.cpp, bytesSupplied(): for every number of workers and every
\* interleaving of the two tests, the reset under bucketResetMutex_ and the
\* addition outside it, the bucket of a second in the window holds the bytes
\* reported in that second, and the total misses none of them; both stop at the
\* largest number.
THEOREM RingAlwaysExact == Spec => []RingExact
<1>1. MetricsInv => RingExact
  BY DEF MetricsInv, RingExact
<1> QED BY <1>1, AlwaysMetricsInv, PTL

\* transfer_metrics.cpp, snapshot(): a bucket that is recycled between the load
\* of its second and the load of its bytes adds nothing that was not reported in
\* the interval the snapshot divides by.
THEOREM SnapshotAlwaysRecent == Spec => []SnapshotRecent
<1>1. MetricsInv => SnapshotRecent
  <2> SUFFICES ASSUME MetricsInv, spc = 2 * Window
               PROVE  LastBytes <= Sum((snap.now - SnapshotWindow + 1)..now \cap Seconds)
    BY DEF SnapshotRecent
  <2> DEFINE j == Window - 1
             S == Low..now \cap Seconds
             T == Upto(j + 1)
  <2>0. TypeOK /\ Ring /\ ReaderOK
    BY DEF MetricsInv
  <2>1. j \in Slots /\ spc = 2 * j + 2
    BY Numbers DEF Slots
  <2>2. LastBytes = IF snap.hit THEN SaturatingAdd(snap.recent, bytes[j]) ELSE snap.recent
    BY DEF LastBytes
  <2>3. T \subseteq S /\ S \subseteq Seconds
    BY DEF Upto
  <2>4. Sum((snap.now - SnapshotWindow + 1)..now \cap Seconds) = SumOver(credited, S)
        /\ Sum(Upto(j + 1)) = SumOver(credited, T)
    BY DEF Sum, Low
  <2> HIDE DEF S, T, j
  <2>5. IsFiniteSet(S) /\ \A s \in S : credited[s] \in Nat
    BY <2>0, <2>3, SecondsFinite, FS_Subset DEF TypeOK
  <2>6. SumOver(credited, T) <= SumOver(credited, S) /\ SumOver(credited, S) \in Nat
    BY <2>3, <2>5, SumMonotone, SumType
  <2>7. LastBytes <= SumOver(credited, T) /\ SumOver(credited, T) \in Nat
    BY <2>0, <2>1, <2>2, <2>4, BucketCounted
  <2>8. LastBytes \in Int
    <3>1. bytes[j] \in 0..MaxCount /\ snap.recent \in 0..MaxCount
      BY <2>0, <2>1, SlotTypes, SnapTypes
    <3>2. bytes[j] \in Nat
      BY <3>1
    <3>3. SaturatingAdd(snap.recent, bytes[j]) \in 0..MaxCount
      BY <3>1, <3>2, Saturates
    <3> QED BY <2>2, <3>1, <3>3
  <2> QED BY <2>4, <2>6, <2>7, <2>8
<1> QED BY <1>1, AlwaysMetricsInv, PTL
=============================================================================
