----------------------- MODULE BandwidthLimiterProofs -----------------------
(***************************************************************************)
(* Proofs about BandwidthLimiter for any number of transfers, addresses,   *)
(* rates, bursts and request sizes, and any interleaving of the load and   *)
(* the compare-and-swap of reserve().                                      *)
(***************************************************************************)
EXTENDS BandwidthLimiter, SumTheorems

-----------------------------------------------------------------------------
(* Arithmetic and counting *)

LEMMA MaxPair ==
  ASSUME NEW a \in Int, NEW b \in Int
  PROVE  Max({a, b}) = IF a >= b THEN a ELSE b
  BY DEF Max

LEMMA MinPair ==
  ASSUME NEW a \in Int, NEW b \in Int
  PROVE  Min({a, b}) = IF a <= b THEN a ELSE b
  BY DEF Min

LEMMA ImageBound ==
  ASSUME NEW S, IsFiniteSet(S), NEW f
  PROVE  /\ IsFiniteSet({f[x] : x \in S})
         /\ Cardinality({f[x] : x \in S}) <= Cardinality(S)
<1> DEFINE T == {f[x] : x \in S}
           g == [x \in S |-> f[x]]
<1>1. g \in Surjection(S, T)
  BY DEF Surjection
<1> HIDE DEF g, T
<1>2. IsFiniteSet(T) /\ Cardinality(T) <= Cardinality(S)
  BY <1>1, FS_Surjection
<1> QED BY <1>2 DEF T

LEMMA Constants ==
  /\ IsFiniteSet(Transfers) /\ IsFiniteSet(IPs) /\ IsFiniteSet(Buckets)
  /\ Cardinality(Buckets) > Cardinality(Transfers) + Cardinality(IPs)
  /\ Global \notin Buckets /\ None \notin Buckets /\ None \notin IPs /\ None # Global
  /\ MaximumTracked \in Nat \ {0} /\ CleanupAfter \in Nat \ {0} /\ Quantum \in Nat \ {0}
  /\ Desired \subseteq Nat \ {0}
  /\ GlobalCost \in Nat /\ ClientCost \in Nat /\ GlobalBurst \in Nat /\ ClientBurst \in Nat
  /\ Horizon \in Nat
  /\ GlobalCost # 0 \/ ClientCost # 0
  BY BandwidthConstants

-----------------------------------------------------------------------------
(* The state *)

PCs == {"free", "open", "load", "cas", "check", "presleep", "asleep", "final"}
Waiting == {"check", "presleep", "asleep", "final"}

Typed ==
    /\ now \in Nat
    /\ stopping \in BOOLEAN
    /\ gpc \in {"running", "notify", "clear", "join"}
    /\ tracked \in [IPs -> Buckets \cup {None}]
    /\ overflow \in Buckets \cup {None}
    /\ attachments \in Nat
    /\ pc \in [Transfers -> PCs]
    /\ ip \in [Transfers -> IPs \cup {None}]
    /\ lease \in [Transfers -> Buckets \cup {None}]
    /\ on \in [Transfers -> All \cup {None}]
    /\ at \in [Transfers -> Nat]
    /\ size \in [Transfers -> 0..Quantum]
    /\ prev \in [Transfers -> Nat]
    /\ allowed \in [Transfers -> Nat]
    /\ arrival \in [All -> Nat]
    /\ born \in [All -> Nat]
    /\ used \in [All -> Nat]

\* What a transfer in progress holds, and where its reservations are.
TransferOK(x) ==
    /\ pc[x] = "free" <=> ip[x] = None
    /\ pc[x] = "free" \/ ClientCost = 0 => lease[x] = None
    /\ pc[x] # "free" /\ ClientCost # 0 => lease[x] \in Buckets
    /\ pc[x] \in {"load", "cas"} => /\ on[x] \in All
                                    /\ (on[x] = Global /\ GlobalCost # 0) \/ on[x] = lease[x]
    /\ at[x] <= now
    /\ pc[x] = "final" => allowed[x] <= now

\* Every transfer's bucket that is not the common one is found under its address.
Listed ==
    gpc # "join" => \A x \in Transfers :
      lease[x] \in Buckets /\ lease[x] # overflow => tracked[ip[x]] = lease[x]

Control == stopping <=> gpc # "running"

Shape == Typed /\ (\A x \in Transfers : TransferOK(x)) /\ Listed /\ Control /\ TrackedBound

LEMMA ShapeShows == Shape => LeasesShared /\ TrackedBound
<1> SUFFICES ASSUME Shape, ~stopping, NEW x \in Transfers, NEW y \in Transfers,
                    ip[x] = ip[y], overflow \notin {lease[x], lease[y]}
             PROVE  lease[x] = lease[y]
  BY DEF Shape, LeasesShared
<1>1. TransferOK(x) /\ TransferOK(y) /\ Listed /\ gpc = "running"
  BY DEF Shape, Control, Typed
<1>2. lease[x] \in Buckets \cup {None} /\ lease[y] \in Buckets \cup {None}
  BY DEF Shape, Typed
<1> QED BY <1>1, <1>2 DEF TransferOK, Listed

-----------------------------------------------------------------------------
(* attach() *)

\* There is always a bucket that nobody refers to.
LEMMA NewBucketOK ==
  ASSUME Shape, NEW x \in Transfers, pc[x] = "free"
  PROVE  /\ NewBucket \in Buckets /\ NewBucket # overflow
         /\ \A y \in Transfers : lease[y] # NewBucket
         /\ \A i \in IPs : tracked[i] # NewBucket
<1> USE Constants
<1> DEFINE L == {lease[y] : y \in Transfers \ {x}}
           M == {tracked[i] : i \in IPs}
           N == {overflow}
<1>1. IsFiniteSet(Transfers \ {x})
      /\ Cardinality(Transfers \ {x}) = Cardinality(Transfers) - 1
  BY FS_RemoveElement
<1>2. IsFiniteSet(L) /\ Cardinality(L) <= Cardinality(Transfers \ {x})
  BY <1>1, ImageBound
<1>3. IsFiniteSet(M) /\ Cardinality(M) <= Cardinality(IPs)
  BY ImageBound
<1>4. IsFiniteSet(N) /\ Cardinality(N) = 1
  BY FS_Singleton
<1>5. /\ Cardinality(Transfers) \in Nat /\ Cardinality(IPs) \in Nat
      /\ Cardinality(Buckets) \in Nat
  BY FS_CardinalityType
<1> HIDE DEF L, M, N
<1>6. /\ IsFiniteSet(L \cup M) /\ Cardinality(L \cup M) \in Nat
      /\ Cardinality(L \cup M) <= Cardinality(L) + Cardinality(M)
  <2>1. /\ IsFiniteSet(L \cup M)
        /\ Cardinality(L \cup M) = Cardinality(L) + Cardinality(M) - Cardinality(L \cap M)
    BY <1>2, <1>3, FS_Union, Zenon
  <2>2. Cardinality(L \cap M) \in Nat /\ Cardinality(L) \in Nat /\ Cardinality(M) \in Nat
    BY <1>2, <1>3, FS_Intersection, FS_CardinalityType
  <2>3. Cardinality(L \cup M) \in Nat
    BY <2>1, FS_CardinalityType
  <2> QED BY <2>1, <2>2, <2>3
<1>7. /\ IsFiniteSet((L \cup M) \cup N)
      /\ Cardinality((L \cup M) \cup N) <= Cardinality(L \cup M) + Cardinality(N)
  <2>1. /\ IsFiniteSet((L \cup M) \cup N)
        /\ Cardinality((L \cup M) \cup N)
             = Cardinality(L \cup M) + Cardinality(N) - Cardinality((L \cup M) \cap N)
    BY <1>4, <1>6, FS_Union, Zenon
  <2>2. Cardinality((L \cup M) \cap N) \in Nat
    BY <1>6, FS_Intersection, FS_CardinalityType
  <2> QED BY <1>4, <1>6, <2>1, <2>2
<1>8. Cardinality((L \cup M) \cup N) < Cardinality(Buckets)
  <2>1. Cardinality(L) \in Nat /\ Cardinality(M) \in Nat
    BY <1>2, <1>3, FS_CardinalityType
  <2>2. Cardinality((L \cup M) \cup N) \in Nat
    BY <1>7, FS_CardinalityType
  <2> QED BY <1>1, <1>2, <1>3, <1>4, <1>5, <1>6, <1>7, <2>1, <2>2
<1>9. ~(Buckets \subseteq (L \cup M) \cup N)
  <2>1. Cardinality((L \cup M) \cup N) \in Nat
    BY <1>7, FS_CardinalityType
  <2> QED BY <1>5, <1>7, <1>8, <2>1, FS_Subset
<1>10. lease[x] = None
  BY DEF Shape, TransferOK
<1>11. \E b \in Buckets : ~Live(b) /\ \A i \in IPs : tracked[i] # b
  <2>1. PICK b \in Buckets : b \notin L /\ b \notin M /\ b \notin N
    BY <1>9
  <2>2. b # overflow /\ \A y \in Transfers : lease[y] # b
    BY <1>10, <2>1 DEF L, N
  <2> QED BY <2>1, <2>2 DEF Live, M
<1>12. NewBucket \in Buckets /\ ~Live(NewBucket) /\ \A i \in IPs : tracked[i] # NewBucket
  BY <1>11 DEF NewBucket
<1> QED BY <1>12 DEF Live

LEMMA CleanedOK ==
  ASSUME NEW t \in [IPs -> Buckets \cup {None}]
  PROVE  /\ Cleaned(t) \in [IPs -> Buckets \cup {None}]
         /\ Entries(Cleaned(t)) \subseteq Entries(t)
         /\ \A i \in IPs : Cleaned(t)[i] # None => Cleaned(t)[i] = t[i]
         /\ \A i \in IPs : t[i] # None /\ Live(t[i]) => Cleaned(t)[i] = t[i]
  BY DEF Cleaned, Entries

\* A bucket that is made for this transfer, or one that others use
Fresh(b) ==
    /\ b \in Buckets /\ b # overflow /\ \A y \in Transfers : lease[y] # b
    /\ arrival' = Configured(arrival, b, now)
    /\ born' = Configured(born, b, now)
    /\ used' = Configured(used, b, 0)
Reused(b) == b \in Buckets /\ UNCHANGED <<arrival, born, used>>

\* What attach() does to the map, the common bucket and the buckets.
LEMMA AttachResult ==
  ASSUME Shape, NEW x \in Transfers, NEW i \in IPs, Attach(x, i), ClientCost # 0
  PROVE  \E b \in Buckets :
           /\ lease' = [lease EXCEPT ![x] = b]
           /\ Fresh(b) \/ Reused(b)
           /\ tracked' \in [IPs -> Buckets \cup {None}]
           /\ Cardinality(Entries(tracked')) <= MaximumTracked
           /\ overflow' \in Buckets \cup {None} /\ overflow' \in {overflow, b}
           /\ overflow # None => overflow' = overflow
           /\ b = overflow' \/ tracked'[i] = b
           /\ \A j \in IPs : tracked[j] # None /\ Live(tracked[j]) => tracked'[j] = tracked[j]
           /\ attachments' \in Nat
<1> USE Constants
<1> DEFINE due == attachments + 1 >= CleanupAfter
           first == IF due THEN Cleaned(tracked) ELSE tracked
           found == Shared(first, i)
           full == Full(first)
           second == IF ~found /\ full THEN Cleaned(first) ELSE first
           over == ~found /\ Full(second)
           b == IF found THEN first[i]
                ELSE IF over /\ overflow # None THEN overflow ELSE NewBucket
           new == ~found /\ ~(over /\ overflow # None)
<1>1. /\ lease' = [lease EXCEPT ![x] = b]
      /\ tracked' = IF new /\ ~over THEN [second EXCEPT ![i] = b] ELSE second
      /\ overflow' = IF over THEN b ELSE overflow
      /\ attachments' = CountAttachment(due \/ (~found /\ full))
      /\ arrival' = IF new THEN Configured(arrival, b, now) ELSE arrival
      /\ born' = IF new THEN Configured(born, b, now) ELSE born
      /\ used' = IF new THEN Configured(used, b, 0) ELSE used
      /\ pc[x] = "free"
  BY DEF Attach
<1>2. Typed /\ TrackedBound
  BY DEF Shape
<1>3. /\ first \in [IPs -> Buckets \cup {None}]
      /\ Entries(first) \subseteq Entries(tracked)
      /\ \A j \in IPs : tracked[j] # None /\ Live(tracked[j]) => first[j] = tracked[j]
  BY <1>2, CleanedOK DEF Typed
<1> HIDE DEF first
<1>4. /\ second \in [IPs -> Buckets \cup {None}]
      /\ Entries(second) \subseteq Entries(first)
      /\ \A j \in IPs : tracked[j] # None /\ Live(tracked[j]) => second[j] = tracked[j]
  BY <1>3, CleanedOK
<1>5. /\ IsFiniteSet(Entries(second)) /\ Cardinality(Entries(second)) \in Nat
      /\ Cardinality(Entries(second)) <= MaximumTracked
  <2>1. IsFiniteSet(Entries(tracked)) /\ Entries(second) \subseteq Entries(tracked)
    BY <1>3, <1>4, FS_Subset DEF Entries
  <2>2. /\ IsFiniteSet(Entries(second))
        /\ Cardinality(Entries(second)) <= Cardinality(Entries(tracked))
    BY <2>1, FS_Subset
  <2>3. Cardinality(Entries(second)) \in Nat /\ Cardinality(Entries(tracked)) \in Nat
    BY <2>1, <2>2, FS_CardinalityType
  <2> QED BY <1>2, <2>2, <2>3 DEF TrackedBound
<1>6. attachments' \in Nat
  BY <1>1, <1>2 DEF CountAttachment, Typed
<1>7. /\ NewBucket \in Buckets /\ NewBucket # overflow
      /\ \A y \in Transfers : lease[y] # NewBucket
      /\ \A j \in IPs : tracked[j] # NewBucket
  BY <1>1, NewBucketOK
<1>8. CASE found
  <2>1. first[i] # None /\ Live(first[i]) /\ second = first /\ b = first[i]
    BY <1>8 DEF Shared
  <2>2. b \in Buckets
    BY <1>3, <2>1
  <2>3. ~over /\ ~new
    BY <1>8
  <2> HIDE DEF b, second, found, over, new
  <2>4. tracked' = second /\ overflow' = overflow /\ UNCHANGED <<arrival, born, used>>
    BY <1>1, <2>3
  <2> QED BY <1>1, <1>2, <1>4, <1>5, <1>6, <2>1, <2>2, <2>4 DEF Reused, Typed
<1>9. CASE ~found /\ over /\ overflow # None
  <2>1. b = overflow /\ b \in Buckets /\ ~new
    BY <1>2, <1>9 DEF Typed
  <2> HIDE DEF b, second, found, over, new
  <2>2. tracked' = second /\ overflow' = overflow /\ UNCHANGED <<arrival, born, used>>
    BY <1>1, <1>9, <2>1
  <2> QED BY <1>1, <1>2, <1>4, <1>5, <1>6, <2>1, <2>2 DEF Reused, Typed
<1>10. CASE ~found /\ over /\ overflow = None
  <2>1. b = NewBucket /\ new
    BY <1>10
  <2> HIDE DEF b, second, found, over, new
  <2>2. /\ tracked' = second /\ overflow' = b
        /\ arrival' = Configured(arrival, b, now) /\ born' = Configured(born, b, now)
        /\ used' = Configured(used, b, 0)
    BY <1>1, <1>10, <2>1
  <2>3. Fresh(b) /\ b \in Buckets
    BY <1>7, <2>1, <2>2 DEF Fresh
  <2> QED BY <1>1, <1>4, <1>5, <1>6, <1>10, <2>2, <2>3
<1>11. CASE ~found /\ ~over
  <2>1. b = NewBucket /\ new /\ ~Full(second)
    BY <1>11
  <2>2. tracked[i] = None \/ ~Live(tracked[i])
    BY <1>3, <1>11 DEF Shared
  <2> HIDE DEF b, second, found, over, new
  <2>3. /\ tracked' = [second EXCEPT ![i] = b] /\ overflow' = overflow
        /\ arrival' = Configured(arrival, b, now) /\ born' = Configured(born, b, now)
        /\ used' = Configured(used, b, 0)
    BY <1>1, <1>11, <2>1
  <2>4. Fresh(b) /\ b \in Buckets
    BY <1>7, <2>1, <2>3 DEF Fresh
  <2>5. Cardinality(Entries(tracked')) <= MaximumTracked
    <3>1. Entries(tracked') \subseteq Entries(second) \cup {i}
      BY <1>4, <2>3 DEF Entries
    <3>2. /\ IsFiniteSet(Entries(second) \cup {i})
          /\ Cardinality(Entries(second) \cup {i}) <= Cardinality(Entries(second)) + 1
          /\ Cardinality(Entries(second) \cup {i}) \in Nat
      <4>1. /\ IsFiniteSet(Entries(second) \cup {i})
            /\ Cardinality(Entries(second) \cup {i})
                 = IF i \in Entries(second) THEN Cardinality(Entries(second))
                   ELSE Cardinality(Entries(second)) + 1
        BY <1>5, FS_AddElement
      <4> QED BY <1>5, <4>1
    <3>3. /\ IsFiniteSet(Entries(tracked'))
          /\ Cardinality(Entries(tracked')) <= Cardinality(Entries(second) \cup {i})
      BY <3>1, <3>2, FS_Subset
    <3>4. Cardinality(Entries(tracked')) \in Nat
      BY <3>3, FS_CardinalityType
    <3> QED BY <1>5, <2>1, <3>2, <3>3, <3>4 DEF Full
  <2>6. /\ tracked' \in [IPs -> Buckets \cup {None}] /\ tracked'[i] = b
        /\ \A j \in IPs : tracked[j] # None /\ Live(tracked[j]) => tracked'[j] = tracked[j]
    BY <1>4, <2>2, <2>3, <2>4
  <2> QED BY <1>1, <1>2, <1>6, <2>3, <2>4, <2>5, <2>6 DEF Typed
<1> QED BY <1>8, <1>9, <1>10, <1>11

-----------------------------------------------------------------------------
(* The shape of the state is kept. *)

\* A step of one transfer that leaves the map and the leases alone
LEMMA OneTransfer ==
  ASSUME Shape, NEW x \in Transfers, Typed', TransferOK(x)',
         UNCHANGED <<now, game, tracked, overflow, ip, lease>>,
         \A y \in Transfers \ {x} :
           pc'[y] = pc[y] /\ on'[y] = on[y] /\ at'[y] = at[y] /\ allowed'[y] = allowed[y]
  PROVE  Shape'
<1>1. Listed' /\ Control' /\ TrackedBound'
  BY DEF Shape, Listed, Control, TrackedBound, game, Entries
<1>2. ASSUME NEW y \in Transfers PROVE TransferOK(y)'
  <2>1. CASE y = x
    BY <2>1
  <2>2. CASE y # x
    BY <2>2 DEF Shape, TransferOK
  <2> QED BY <2>1, <2>2
<1> QED BY <1>1, <1>2 DEF Shape

LEMMA AllHasBuckets == Buckets \subseteq All /\ Global \in All /\ All = Buckets \cup {Global}
  BY DEF All

LEMMA AttachOK ==
  ASSUME Shape, NEW x \in Transfers, NEW i \in IPs, Attach(x, i)
  PROVE  Shape'
<1> USE Constants, AllHasBuckets
<1>1. /\ pc[x] = "free"
      /\ pc' = [pc EXCEPT ![x] = "open"] /\ ip' = [ip EXCEPT ![x] = i]
      /\ UNCHANGED <<now, stopping, gpc, on, at, size, prev, allowed>>
  BY DEF Attach, game, call
<1>2. Typed /\ (\A y \in Transfers : TransferOK(y)) /\ Listed /\ Control /\ TrackedBound
  BY DEF Shape
<1>3. CASE ClientCost = 0
  <2>1. UNCHANGED <<lease, tracked, overflow, attachments, arrival, born, used>>
    BY <1>3 DEF Attach, map
  <2>2. Typed'
    BY <1>1, <1>2, <2>1 DEF Typed, PCs
  <2>3. \A y \in Transfers : lease[y] = None
    BY <1>2, <1>3 DEF TransferOK
  <2>4. Listed' /\ Control' /\ TrackedBound'
    BY <1>1, <1>2, <2>1, <2>3 DEF Listed, Control, TrackedBound, Entries
  <2>5. \A y \in Transfers : TransferOK(y)'
    BY <1>1, <1>2, <1>3, <2>1 DEF TransferOK, Typed
  <2> QED BY <2>2, <2>4, <2>5 DEF Shape
<1>4. CASE ClientCost # 0
  <2>1. PICK b \in Buckets :
           /\ lease' = [lease EXCEPT ![x] = b]
           /\ Fresh(b) \/ Reused(b)
           /\ tracked' \in [IPs -> Buckets \cup {None}]
           /\ Cardinality(Entries(tracked')) <= MaximumTracked
           /\ overflow' \in Buckets \cup {None} /\ overflow' \in {overflow, b}
           /\ overflow # None => overflow' = overflow
           /\ b = overflow' \/ tracked'[i] = b
           /\ \A j \in IPs : tracked[j] # None /\ Live(tracked[j]) => tracked'[j] = tracked[j]
           /\ attachments' \in Nat
    BY <1>4, AttachResult
  <2>2. arrival' \in [All -> Nat] /\ born' \in [All -> Nat] /\ used' \in [All -> Nat]
    BY <1>2, <2>1 DEF Fresh, Reused, Configured, Typed
  <2>3. lease' \in [Transfers -> Buckets \cup {None}]
    BY <1>2, <2>1 DEF Typed
  <2>4. Typed'
    BY <1>1, <1>2, <2>1, <2>2, <2>3 DEF Typed, PCs
  <2>5. Listed'
    <3> SUFFICES ASSUME gpc' # "join", NEW y \in Transfers,
                        lease'[y] \in Buckets, lease'[y] # overflow'
                 PROVE  tracked'[ip'[y]] = lease'[y]
      BY DEF Listed
    <3>1. CASE y = x
      BY <1>1, <1>2, <2>1, <3>1 DEF Typed
    <3>2. CASE y # x
      <4>1. lease'[y] = lease[y] /\ ip'[y] = ip[y]
        BY <1>1, <1>2, <2>1, <3>2 DEF Typed
      <4>2. lease[y] # overflow
        BY <2>1, <4>1, <1>2 DEF Typed
      <4>3. tracked[ip[y]] = lease[y]
        BY <1>1, <1>2, <4>1, <4>2 DEF Listed
      <4>4. Live(lease[y]) /\ lease[y] # None
        BY <4>1 DEF Live
      <4>5. ip[y] \in IPs
        BY <1>2, <4>1, <4>4 DEF TransferOK, Typed
      <4> QED BY <2>1, <4>1, <4>3, <4>4, <4>5
    <3> QED BY <3>1, <3>2
  <2>6. Control' /\ TrackedBound'
    BY <1>1, <1>2, <2>1 DEF Control, TrackedBound
  <2>7. \A y \in Transfers : TransferOK(y)'
    BY <1>1, <1>2, <1>4, <2>1 DEF TransferOK, Typed
  <2> QED BY <2>4, <2>5, <2>6, <2>7 DEF Shape
<1> QED BY <1>3, <1>4

LEMMA DetachOK ==
  ASSUME Shape, NEW x \in Transfers, Detach(x)
  PROVE  Shape'
<1> USE Constants, AllHasBuckets
<1>1. /\ pc[x] = "open"
      /\ pc' = [pc EXCEPT ![x] = "free"] /\ ip' = [ip EXCEPT ![x] = None]
      /\ lease' = [lease EXCEPT ![x] = None]
      /\ UNCHANGED <<now, stopping, gpc, tracked, overflow, attachments,
                     on, at, size, prev, allowed>>
  BY DEF Detach, game, map, call
<1>2. Typed /\ (\A y \in Transfers : TransferOK(y)) /\ Listed /\ Control /\ TrackedBound
  BY DEF Shape
<1>3. arrival' \in [All -> Nat] /\ born' \in [All -> Nat] /\ used' \in [All -> Nat]
  BY <1>2 DEF Detach, Configured, Typed
<1>4. Typed'
  BY <1>1, <1>2, <1>3 DEF Typed, PCs
<1>5. Listed' /\ Control' /\ TrackedBound'
  BY <1>1, <1>2 DEF Listed, Control, TrackedBound, Entries, Typed
<1>6. \A y \in Transfers : TransferOK(y)'
  BY <1>1, <1>2 DEF TransferOK, Typed
<1> QED BY <1>4, <1>5, <1>6 DEF Shape

LEMMA AcquireOK ==
  ASSUME Shape, NEW x \in Transfers, NEW d \in Desired, Acquire(x, d)
  PROVE  Shape'
<1> USE Constants, AllHasBuckets
<1>1. Typed /\ TransferOK(x)
  BY DEF Shape
<1>2. Min({d, Quantum}) \in 0..Quantum
  BY MinPair
<1>3. /\ pc[x] = "open" /\ pc' = [pc EXCEPT ![x] = "load"]
      /\ on' = [on EXCEPT ![x] = IF GlobalCost # 0 THEN Global ELSE lease[x]]
      /\ at' = [at EXCEPT ![x] = now] /\ allowed' = [allowed EXCEPT ![x] = now]
      /\ size' = [size EXCEPT ![x] = Min({d, Quantum})]
      /\ UNCHANGED <<now, game, arrival, map, ip, lease, prev, born, used>>
  BY DEF Acquire, To
<1>4. Typed'
  BY <1>1, <1>2, <1>3 DEF Typed, PCs, game, map
<1>5. TransferOK(x)'
  BY <1>1, <1>3 DEF TransferOK, Typed
<1> QED BY <1>3, <1>4, <1>5, <1>1, OneTransfer DEF map, Typed

LEMMA LoadOK ==
  ASSUME Shape, NEW x \in Transfers, Load(x)
  PROVE  Shape'
<1> USE Constants, AllHasBuckets
<1>1. Typed /\ TransferOK(x)
  BY DEF Shape
<1>2. /\ pc[x] = "load" /\ pc' = [pc EXCEPT ![x] = "cas"]
      /\ prev' = [prev EXCEPT ![x] = arrival[on[x]]]
      /\ UNCHANGED <<now, game, arrival, map, ip, lease, on, at, size, allowed, born, used>>
  BY DEF Load, To
<1>3. arrival[on[x]] \in Nat
  BY <1>1, <1>2 DEF TransferOK, Typed
<1>4. Typed'
  BY <1>1, <1>2, <1>3 DEF Typed, PCs, game, map
<1>5. TransferOK(x)'
  BY <1>1, <1>2 DEF TransferOK, Typed
<1> QED BY <1>1, <1>2, <1>4, <1>5, OneTransfer DEF map, Typed

\* What one iteration of reserve() computes
LEMMA ReserveValues ==
  ASSUME Typed, NEW x \in Transfers, on[x] \in All
  PROVE  /\ Cost(on[x]) \in Nat /\ Burst(on[x]) \in Nat /\ size[x] * Cost(on[x]) \in Nat
         /\ AllowedAt(x) \in Nat /\ NextArrival(x) \in Nat
         /\ AllowedAt(x) >= at[x] /\ AllowedAt(x) + Burst(on[x]) >= prev[x]
         /\ NextArrival(x) >= prev[x] + size[x] * Cost(on[x])
         /\ \A t \in Nat : AllowedAt(x) <= t =>
              NextArrival(x) <= t + Burst(on[x]) + size[x] * Cost(on[x])
         /\ Max({allowed[x], AllowedAt(x)}) \in Nat
         /\ Max({allowed[x], AllowedAt(x)}) >= AllowedAt(x)
         /\ Max({allowed[x], AllowedAt(x)}) >= allowed[x]
<1> USE Constants
<1> DEFINE c == Cost(on[x])  k == Burst(on[x])
           m == Max({0, prev[x] - k})
           z == size[x] * c
<1>1. c \in Nat /\ k \in Nat /\ prev[x] \in Nat /\ at[x] \in Nat /\ allowed[x] \in Nat
      /\ size[x] \in Nat
  BY DEF Cost, Burst, Typed
<1>2. z \in Nat
  BY <1>1
<1>3. m = (IF 0 >= prev[x] - k THEN 0 ELSE prev[x] - k)
  <2> HIDE DEF k
  <2> QED BY <1>1, MaxPair
<1>4. AllowedAt(x) = Max({at[x], m}) /\ NextArrival(x) = Max({prev[x], AllowedAt(x)}) + z
  BY DEF AllowedAt, Earliest, NextArrival
<1> HIDE DEF c, k, m, z
<1>5. m \in Nat /\ m + k >= prev[x] /\ m <= prev[x]
  BY <1>1, <1>3
<1>6. AllowedAt(x) = IF at[x] >= m THEN at[x] ELSE m
  BY <1>1, <1>4, <1>5, MaxPair
<1>7. AllowedAt(x) \in Nat /\ AllowedAt(x) >= at[x] /\ AllowedAt(x) + k >= prev[x]
  BY <1>1, <1>5, <1>6
<1>8. NextArrival(x) = (IF prev[x] >= AllowedAt(x) THEN prev[x] ELSE AllowedAt(x)) + z
  <2>1. Max({prev[x], AllowedAt(x)}) = IF prev[x] >= AllowedAt(x) THEN prev[x] ELSE AllowedAt(x)
    BY <1>1, <1>7, MaxPair
  <2>2. NextArrival(x) = Max({prev[x], AllowedAt(x)}) + z
    BY <1>4
  <2> QED BY <2>1, <2>2, Zenon
<1>9. Max({allowed[x], AllowedAt(x)}) = IF allowed[x] >= AllowedAt(x) THEN allowed[x]
                                       ELSE AllowedAt(x)
  BY <1>1, <1>7, MaxPair
<1>10. NextArrival(x) \in Nat /\ NextArrival(x) >= prev[x] + z
  BY <1>1, <1>2, <1>7, <1>8
<1>11. \A t \in Nat : AllowedAt(x) <= t => NextArrival(x) <= t + k + z
  BY <1>1, <1>2, <1>7, <1>8
<1> QED BY <1>1, <1>2, <1>7, <1>9, <1>10, <1>11 DEF c, k, z

\* The reservation on on[x] was made.
Reserves(x) ==
    /\ arrival[on[x]] = prev[x]
    /\ arrival' = [arrival EXCEPT ![on[x]] = NextArrival(x)]
    /\ allowed' = [allowed EXCEPT ![x] = Max({allowed[x], AllowedAt(x)})]
    /\ AfterReserve(x, Max({allowed[x], AllowedAt(x)}))
    /\ prev' = [prev EXCEPT ![x] = 0]
    /\ UNCHANGED <<now, game, map, ip, lease, at, size, born, used>>

LEMMA ReservesOK ==
  ASSUME Shape, NEW x \in Transfers, pc[x] = "cas", Reserves(x)
  PROVE  /\ Shape' /\ on[x] \in All
         /\ \/ /\ on[x] = Global /\ lease[x] # None
               /\ pc' = [pc EXCEPT ![x] = "load"] /\ on' = [on EXCEPT ![x] = lease[x]]
            \/ /\ ~(on[x] = Global /\ lease[x] # None)
               /\ \E next \in {"check", "final"} : pc' = [pc EXCEPT ![x] = next]
               /\ on' = on
<1> USE Constants, AllHasBuckets
<1>1. Typed /\ TransferOK(x)
  BY DEF Shape
<1>2. on[x] \in All
  BY <1>1 DEF TransferOK
<1> DEFINE w == Max({allowed[x], AllowedAt(x)})
<1>3. w \in Nat /\ NextArrival(x) \in Nat
  BY <1>1, <1>2, ReserveValues
<1>4. AfterReserve(x, w)
  BY DEF Reserves
<1>9. /\ arrival' = [arrival EXCEPT ![on[x]] = NextArrival(x)]
      /\ allowed' = [allowed EXCEPT ![x] = w]
      /\ prev' = [prev EXCEPT ![x] = 0]
      /\ UNCHANGED <<now, game, map, ip, lease, at, size, born, used>>
  BY DEF Reserves
<1> HIDE DEF w
<1>5. CASE on[x] = Global /\ lease[x] # None
  <2>1. pc' = [pc EXCEPT ![x] = "load"] /\ on' = [on EXCEPT ![x] = lease[x]]
    BY <1>4, <1>5 DEF AfterReserve, To
  <2>2. Typed'
    BY <1>1, <1>2, <1>3, <1>9, <2>1 DEF Typed, PCs, game, map
  <2>3. lease[x] \in Buckets
    BY <1>1, <1>5 DEF Typed
  <2>4. TransferOK(x)'
    BY <1>1, <1>5, <1>9, <2>1, <2>3 DEF TransferOK, Typed
  <2>5. Shape'
    BY <1>1, <1>9, <2>1, <2>2, <2>4, OneTransfer DEF map, Typed
  <2> QED BY <1>2, <1>5, <2>1, <2>5
<1>6. CASE ~(on[x] = Global /\ lease[x] # None)
  <2>1. /\ pc' = [pc EXCEPT ![x] = IF w > at[x] THEN "check" ELSE "final"] /\ on' = on
    BY <1>4, <1>6 DEF AfterReserve, To
  <2>2. Typed'
    BY <1>1, <1>2, <1>3, <1>9, <2>1 DEF Typed, PCs, game, map
  <2>4. TransferOK(x)'
    BY <1>1, <1>3, <1>9, <2>1 DEF TransferOK, Typed
  <2>5. Shape'
    BY <1>1, <1>9, <2>1, <2>2, <2>4, OneTransfer DEF map, Typed
  <2> QED BY <1>2, <1>6, <2>1, <2>5
<1> QED BY <1>5, <1>6

LEMMA CasSplit ==
  ASSUME NEW x \in Transfers, Cas(x)
  PROVE  /\ pc[x] = "cas"
         /\ \/ Reserves(x)
            \/ /\ prev' = [prev EXCEPT ![x] = arrival[on[x]]]
               /\ UNCHANGED <<now, game, arrival, map, pc, ip, lease, on, at, size, allowed,
                              born, used>>
  BY DEF Cas, Reserves, Unchanged

LEMMA ReloadOK ==
  ASSUME Shape, NEW x \in Transfers, pc[x] = "cas",
         prev' = [prev EXCEPT ![x] = arrival[on[x]]],
         UNCHANGED <<now, game, arrival, map, pc, ip, lease, on, at, size, allowed, born, used>>
  PROVE  Shape'
<1> USE Constants, AllHasBuckets
<1>1. Typed /\ TransferOK(x)
  BY DEF Shape
<1>2. arrival[on[x]] \in Nat
  BY <1>1 DEF TransferOK, Typed
<1>3. Typed'
  BY <1>1, <1>2 DEF Typed, PCs, game, map
<1>4. TransferOK(x)'
  BY <1>1 DEF TransferOK
<1> QED BY <1>3, <1>4, OneTransfer DEF map

LEMMA ReturnOK ==
  ASSUME Shape, NEW x \in Transfers, pc[x] \in Waiting, Return(x),
         used' \in [All -> Nat], UNCHANGED <<now, game, arrival, map, ip, lease, born>>
  PROVE  Shape'
<1> USE Constants, AllHasBuckets
<1>1. Typed /\ TransferOK(x)
  BY DEF Shape
<1>2. Typed'
  BY <1>1 DEF Typed, PCs, game, map, Return, To
<1>3. TransferOK(x)'
  BY <1>1 DEF TransferOK, Typed, Return, To, Waiting
<1>4. \A y \in Transfers \ {x} :
        pc'[y] = pc[y] /\ on'[y] = on[y] /\ at'[y] = at[y] /\ allowed'[y] = allowed[y]
  BY <1>1 DEF Typed, Return, To
<1> QED BY <1>2, <1>3, <1>4, OneTransfer DEF map

\* A transfer moves on inside its wait.
LEMMA WaitOK ==
  ASSUME Shape, NEW x \in Transfers, NEW next \in Waiting, pc[x] \in Waiting,
         next = "final" => now >= allowed[x], To(x, next),
         UNCHANGED <<now, game, arrival, map, ip, lease, call, born, used>>
  PROVE  Shape'
<1> USE Constants, AllHasBuckets
<1>1. Typed /\ TransferOK(x)
  BY DEF Shape
<1>2. Typed'
  BY <1>1 DEF Typed, PCs, game, map, call, To, Waiting
<1>3. TransferOK(x)'
  BY <1>1 DEF TransferOK, Typed, To, Waiting, call
<1>4. \A y \in Transfers \ {x} :
        pc'[y] = pc[y] /\ on'[y] = on[y] /\ at'[y] = at[y] /\ allowed'[y] = allowed[y]
  BY <1>1 DEF Typed, To, call
<1> QED BY <1>2, <1>3, <1>4, OneTransfer DEF map

\* The empty map of stop() is within its bound.
LEMMA ClearedBound ==
  ASSUME tracked' = [i \in IPs |-> None]
  PROVE  TrackedBound'
<1>1. Entries(tracked') = {}
  BY DEF Entries
<1>2. Cardinality(Entries(tracked')) = Cardinality({})
  BY <1>1, Zenon
<1> QED BY <1>2, Constants, FS_EmptySet DEF TrackedBound

LEMMA GameOK ==
  ASSUME Shape, Game
  PROVE  Shape'
<1> USE Constants, AllHasBuckets
<1>1. Typed /\ (\A y \in Transfers : TransferOK(y)) /\ Listed /\ Control /\ TrackedBound
  BY DEF Shape
<1>2. CASE StopFlag
  <2>1. Typed'
    BY <1>1, <1>2 DEF StopFlag, Typed, map, call
  <2>2. \A y \in Transfers : TransferOK(y)'
    BY <1>1, <1>2 DEF StopFlag, TransferOK, call
  <2> QED BY <1>1, <1>2, <2>1, <2>2
          DEF StopFlag, Shape, Listed, Control, TrackedBound, Entries, map
<1>3. CASE StopNotify
  <2>1. Typed'
    BY <1>1, <1>3 DEF StopNotify, Typed, PCs, map, call
  <2>2. \A y \in Transfers : TransferOK(y)'
    BY <1>1, <1>3 DEF StopNotify, TransferOK, Typed, call
  <2> QED BY <1>1, <1>3, <2>1, <2>2
          DEF StopNotify, Shape, Listed, Control, TrackedBound, Entries, map
<1>4. CASE StopClear
  <2>1. /\ gpc = "clear" /\ gpc' = "join" /\ tracked' = [i \in IPs |-> None]
        /\ overflow' = None /\ attachments' = 0
        /\ UNCHANGED <<now, stopping, pc, ip, lease, on, at, size, prev, allowed>>
    BY <1>4 DEF StopClear, ClearClients, call
  <2>2. arrival' \in [All -> Nat] /\ born' \in [All -> Nat] /\ used' \in [All -> Nat]
    BY <1>1, <1>4 DEF StopClear, Unleased, Typed
  <2>3. Typed'
    BY <1>1, <2>1, <2>2 DEF Typed
  <2>4. \A y \in Transfers : TransferOK(y)'
    BY <1>1, <2>1 DEF TransferOK
  <2>5. TrackedBound'
    BY <2>1, ClearedBound
  <2> QED BY <1>1, <2>1, <2>3, <2>4, <2>5 DEF Shape, Listed, Control
<1>5. CASE Configure
  <2>1. /\ gpc' = "running" /\ stopping' = FALSE /\ \A x \in Transfers : pc[x] = "free"
        /\ tracked' = [i \in IPs |-> None] /\ overflow' = None /\ attachments' = 0
        /\ UNCHANGED <<now, pc, ip, lease, on, at, size, prev, allowed>>
    BY <1>5 DEF Configure, ClearClients, call
  <2>2. arrival' \in [All -> Nat] /\ born' \in [All -> Nat] /\ used' \in [All -> Nat]
    BY <1>1, <1>5 DEF Configure, Configured, Unleased, Typed
  <2>3. Typed'
    BY <1>1, <2>1, <2>2 DEF Typed
  <2>4. \A y \in Transfers : TransferOK(y)'
    BY <1>1, <2>1 DEF TransferOK
  <2>5. Listed'
    BY <1>1, <2>1 DEF Listed, TransferOK
  <2>6. TrackedBound'
    BY <2>1, ClearedBound
  <2> QED BY <1>1, <2>1, <2>3, <2>4, <2>5, <2>6 DEF Shape, Control
<1> QED BY <1>2, <1>3, <1>4, <1>5 DEF Game

LEMMA TickOK ==
  ASSUME Shape, now' \in Nat, now' >= now,
         UNCHANGED <<game, arrival, map, pc, ip, lease, call, born, used>>
  PROVE  Shape'
<1>1. Typed /\ (\A y \in Transfers : TransferOK(y)) /\ Listed /\ Control /\ TrackedBound
  BY DEF Shape
<1>2. Typed'
  BY <1>1 DEF Typed, game, map, call
<1>3. \A y \in Transfers : TransferOK(y)'
  BY <1>1 DEF TransferOK, Typed, call
<1> QED BY <1>1, <1>2, <1>3 DEF Shape, Listed, Control, TrackedBound, Entries, game, map

-----------------------------------------------------------------------------
(* The rate.  A bucket's arrival time has moved, since the bucket was made, *)
(* by at least the cost of everything that was granted or is reserved on   *)
(* it; and the reservations that may be granted by a tick t together stay  *)
(* within what the rate allows by t.                                       *)

\* The running acquire() of x has a reservation on b.
Holds(x, b) ==
    \/ /\ b = Global /\ GlobalCost # 0
       /\ pc[x] \in Waiting \/ (pc[x] \in {"load", "cas"} /\ on[x] # Global)
    \/ b \in Buckets /\ b = lease[x] /\ pc[x] \in Waiting

Reserved(b) == {x \in Transfers : Holds(x, b)}
DueBy(b, t) == {x \in Reserved(b) : allowed[x] <= t}

Booked(b) == used[b] + SumOver(size, Reserved(b))
BookedBy(b, t) == used[b] + SumOver(size, DueBy(b, t))

RateOK(b) ==
    /\ born[b] <= now
    /\ Booked(b) * Cost(b) <= arrival[b] - born[b]
    /\ \A t \in Nat :
         t >= now => BookedBy(b, t) * Cost(b) <= (t - born[b]) + Burst(b) + Quantum * Cost(b)

LEMMA TimesMonotone ==
  ASSUME NEW a \in Nat, NEW b \in Nat, NEW c \in Nat, a <= b
  PROVE  a * c <= b * c /\ a * c \in Nat /\ b * c \in Nat
<1>1. PICK d \in Nat : b = a + d
  <2>1. b - a \in Nat /\ b = a + (b - a)
    OBVIOUS
  <2> QED BY <2>1
<1>2. b * c = a * c + d * c
  BY <1>1
<1>3. a * c \in Nat /\ d * c \in Nat
  OBVIOUS
<1> QED BY <1>2, <1>3

LEMMA TimesSum ==
  ASSUME NEW a \in Nat, NEW b \in Nat, NEW c \in Nat
  PROVE  (a + b) * c = a * c + b * c /\ a * c \in Nat /\ b * c \in Nat
  OBVIOUS

LEMMA BucketNumbers ==
  ASSUME Typed, NEW b \in All
  PROVE  /\ Cost(b) \in Nat /\ Burst(b) \in Nat /\ Quantum * Cost(b) \in Nat
         /\ used[b] \in Nat /\ born[b] \in Nat /\ arrival[b] \in Nat /\ now \in Nat
  BY Constants DEF Typed, Cost, Burst

LEMMA SumSub ==
  ASSUME NEW S, IsFiniteSet(S), NEW T \in SUBSET S, NEW f, NEW g,
         \A x \in S : f[x] \in Nat, \A x \in T : g[x] = f[x]
  PROVE  SumOver(g, T) \in Nat /\ SumOver(f, S) \in Nat /\ SumOver(g, T) <= SumOver(f, S)
<1>1. IsFiniteSet(T)
  BY FS_Subset
<1>2. SumOver(g, T) = SumOver(f, T)
  BY <1>1, SumSame
<1>3. SumOver(f, T) \in Nat /\ SumOver(f, S) \in Nat
  BY <1>1, SumType
<1> QED BY <1>2, <1>3, SumMonotone

LEMMA ReservedFinite ==
  ASSUME Typed, NEW b \in All
  PROVE  /\ IsFiniteSet(Reserved(b)) /\ Reserved(b) \subseteq Transfers
         /\ \A t \in Nat : DueBy(b, t) \subseteq Reserved(b) /\ IsFiniteSet(DueBy(b, t))
         /\ \A x \in Reserved(b) : size[x] \in Nat /\ size[x] <= Quantum
  BY Constants, FS_Subset DEF Reserved, DueBy, Typed

\* Nothing is added, reservations may be given up or put off, time may pass.
LEMMA RateKept ==
  ASSUME Typed, Typed', NEW b \in All, RateOK(b), Reserved(b)' \subseteq Reserved(b),
         \A x \in Reserved(b)' : size'[x] = size[x] /\ allowed'[x] >= allowed[x],
         used'[b] = used[b], born'[b] = born[b], arrival'[b] = arrival[b], now' >= now
  PROVE  RateOK(b)'
<1>1. /\ Cost(b) \in Nat /\ Burst(b) \in Nat /\ Quantum * Cost(b) \in Nat
      /\ used[b] \in Nat /\ born[b] \in Nat /\ arrival[b] \in Nat /\ now \in Nat
  BY BucketNumbers
<1>2. /\ IsFiniteSet(Reserved(b)) /\ Reserved(b) \subseteq Transfers
      /\ \A t \in Nat : DueBy(b, t) \subseteq Reserved(b) /\ IsFiniteSet(DueBy(b, t))
      /\ \A x \in Reserved(b) : size[x] \in Nat /\ size[x] <= Quantum
  BY ReservedFinite
<1>3. now' \in Nat /\ allowed \in [Transfers -> Nat] /\ allowed' \in [Transfers -> Nat]
  BY DEF Typed
<1>4. born'[b] <= now'
  BY <1>1, <1>3 DEF RateOK
<1>5. Booked(b)' * Cost(b) <= arrival'[b] - born'[b]
  <2>1. /\ SumOver(size', Reserved(b)') \in Nat /\ SumOver(size, Reserved(b)) \in Nat
        /\ SumOver(size', Reserved(b)') <= SumOver(size, Reserved(b))
    BY <1>2, SumSub
  <2>2. Booked(b)' \in Nat /\ Booked(b) \in Nat /\ Booked(b)' <= Booked(b)
    BY <1>1, <2>1 DEF Booked
  <2>3. /\ Booked(b)' * Cost(b) <= Booked(b) * Cost(b)
        /\ Booked(b)' * Cost(b) \in Nat /\ Booked(b) * Cost(b) \in Nat
    BY <1>1, <2>2, TimesMonotone
  <2> QED BY <1>1, <2>3 DEF RateOK
<1>6. ASSUME NEW t \in Nat, t >= now'
      PROVE  BookedBy(b, t)' * Cost(b) <= (t - born'[b]) + Burst(b) + Quantum * Cost(b)
  <2>1. DueBy(b, t)' \subseteq DueBy(b, t)
    <3> SUFFICES ASSUME NEW x \in Reserved(b)', allowed'[x] <= t
                 PROVE  x \in Reserved(b) /\ allowed[x] <= t
      BY DEF DueBy
    <3>1. x \in Reserved(b) /\ x \in Transfers /\ allowed'[x] >= allowed[x]
      BY <1>2
    <3>2. allowed[x] \in Nat /\ allowed'[x] \in Nat
      BY <1>3, <3>1
    <3> QED BY <3>1, <3>2
  <2>2. \A x \in DueBy(b, t)' : size'[x] = size[x]
    BY DEF DueBy
  <2>3. /\ SumOver(size', DueBy(b, t)') \in Nat /\ SumOver(size, DueBy(b, t)) \in Nat
        /\ SumOver(size', DueBy(b, t)') <= SumOver(size, DueBy(b, t))
    BY <1>2, <2>1, <2>2, SumSub
  <2>4. BookedBy(b, t)' \in Nat /\ BookedBy(b, t) \in Nat /\ BookedBy(b, t)' <= BookedBy(b, t)
    BY <1>1, <2>3 DEF BookedBy
  <2>5. /\ BookedBy(b, t)' * Cost(b) <= BookedBy(b, t) * Cost(b)
        /\ BookedBy(b, t)' * Cost(b) \in Nat /\ BookedBy(b, t) * Cost(b) \in Nat
    BY <1>1, <2>4, TimesMonotone
  <2>6. BookedBy(b, t) * Cost(b) <= (t - born[b]) + Burst(b) + Quantum * Cost(b)
    BY <1>1, <1>3, <1>6 DEF RateOK
  <2> QED BY <1>1, <2>5, <2>6
<1> QED BY <1>4, <1>5, <1>6 DEF RateOK, Cost, Burst

\* A bucket nobody has reserved on
LEMMA RateFresh ==
  ASSUME Typed', NEW b \in All, Reserved(b)' = {}, used'[b] = 0,
         arrival'[b] = born'[b], born'[b] <= now'
  PROVE  RateOK(b)'
<1>1. /\ Cost(b) \in Nat /\ Burst(b) \in Nat /\ Quantum * Cost(b) \in Nat
  BY Constants DEF Cost, Burst
<1>2. born'[b] \in Nat /\ now' \in Nat
  BY DEF Typed
<1>3. SumOver(size', {}) = 0
  BY SumEmpty
<1>4. Booked(b)' = 0
  <2>1. SumOver(size', Reserved(b)') = SumOver(size', {})
    BY Zenon
  <2> QED BY <1>3, <2>1 DEF Booked
<1>5. \A t \in Nat : BookedBy(b, t)' = 0
  <2> TAKE t \in Nat
  <2>1. DueBy(b, t)' = {}
    BY DEF DueBy
  <2>2. SumOver(size', DueBy(b, t)') = SumOver(size', {})
    BY <2>1, Zenon
  <2> QED BY <1>3, <2>2 DEF BookedBy
<1>6. 0 * Cost(b) = 0
  BY <1>1
<1>7. Booked(b)' * Cost(b) <= arrival'[b] - born'[b]
  BY <1>2, <1>4, <1>6
<1>8. ASSUME NEW t \in Nat, t >= now'
      PROVE  BookedBy(b, t)' * Cost(b) <= (t - born'[b]) + Burst(b) + Quantum * Cost(b)
  BY <1>1, <1>2, <1>5, <1>6, <1>8
<1> QED BY <1>7, <1>8 DEF RateOK, Cost, Burst

\* The reservation of x turns into a grant.
LEMMA RateGrant ==
  ASSUME Typed, Typed', NEW b \in All, RateOK(b), NEW x \in Reserved(b),
         Reserved(b)' = Reserved(b) \ {x}, allowed[x] <= now,
         \A y \in Transfers \ {x} : size'[y] = size[y] /\ allowed'[y] = allowed[y],
         used'[b] = used[b] + size[x], born'[b] = born[b], arrival'[b] = arrival[b],
         now' = now
  PROVE  RateOK(b)'
<1>1. /\ Cost(b) \in Nat /\ Burst(b) \in Nat /\ Quantum * Cost(b) \in Nat
      /\ used[b] \in Nat /\ born[b] \in Nat /\ arrival[b] \in Nat /\ now \in Nat
  BY BucketNumbers
<1>2. /\ IsFiniteSet(Reserved(b)) /\ Reserved(b) \subseteq Transfers
      /\ \A t \in Nat : DueBy(b, t) \subseteq Reserved(b) /\ IsFiniteSet(DueBy(b, t))
      /\ \A y \in Reserved(b) : size[y] \in Nat /\ size[y] <= Quantum
  BY ReservedFinite
\* For a set of reservations with x, what leaves it is granted.
<1>3. ASSUME NEW S \in SUBSET Reserved(b), x \in S
      PROVE  used'[b] + SumOver(size', S \ {x}) = used[b] + SumOver(size, S)
  <2>1. IsFiniteSet(S) /\ IsFiniteSet(S \ {x}) /\ (S \ {x}) \cup {x} = S
    BY <1>2, <1>3, FS_Subset
  <2>2. SumOver(size, (S \ {x}) \cup {x}) = SumOver(size, S \ {x}) + size[x]
    BY <1>2, <2>1, SumAdd
  <2>3. SumOver(size, (S \ {x}) \cup {x}) = SumOver(size, S)
    BY <2>1, Zenon
  <2>4. SumOver(size', S \ {x}) = SumOver(size, S \ {x}) /\ SumOver(size, S \ {x}) \in Nat
    BY <1>2, <2>1, SumSame, SumType
  <2>5. size[x] \in Nat
    BY <1>2
  <2> QED BY <1>1, <2>2, <2>3, <2>4, <2>5
<1>4. Booked(b)' = Booked(b)
  <2>1. used'[b] + SumOver(size', Reserved(b) \ {x}) = used[b] + SumOver(size, Reserved(b))
    BY <1>3
  <2>2. SumOver(size', Reserved(b)') = SumOver(size', Reserved(b) \ {x})
    BY Zenon
  <2> QED BY <2>1, <2>2 DEF Booked
<1>5. ASSUME NEW t \in Nat, t >= now PROVE BookedBy(b, t)' = BookedBy(b, t)
  <2>1. allowed[x] \in Nat /\ x \in DueBy(b, t)
    BY <1>1, <1>2, <1>5 DEF Typed, DueBy
  <2>2. DueBy(b, t)' = DueBy(b, t) \ {x}
    BY <1>2 DEF DueBy
  <2>3. used'[b] + SumOver(size', DueBy(b, t) \ {x}) = used[b] + SumOver(size, DueBy(b, t))
    BY <1>2, <1>3, <2>1
  <2>4. SumOver(size', DueBy(b, t)') = SumOver(size', DueBy(b, t) \ {x})
    BY <2>2, Zenon
  <2> QED BY <2>3, <2>4 DEF BookedBy
<1> QED BY <1>4, <1>5 DEF RateOK, Cost, Burst

LEMMA OneMore ==
  ASSUME Typed, NEW S \in SUBSET Transfers, NEW x \in Transfers, x \notin S
  PROVE  SumOver(size, S \cup {x}) = SumOver(size, S) + size[x]
<1>1. IsFiniteSet(S)
  BY Constants, FS_Subset
<1>2. \A y \in S \cup {x} : size[y] \in Nat
  BY Constants DEF Typed
<1> QED BY <1>1, <1>2, SumAdd

\* compare_exchange_weak succeeds: x books size[x] on the bucket.
LEMMA RateReserve ==
  ASSUME Typed, Typed', NEW x \in Transfers, on[x] \in All, RateOK(on[x]), Reserves(x),
         x \notin Reserved(on[x]),
         \A b \in All : b = on[x] => Reserved(b)' = Reserved(b) \cup {x}
  PROVE  \A b \in All : b = on[x] => RateOK(b)'
<1> SUFFICES ASSUME NEW b \in All, b = on[x] PROVE RateOK(b)'
  OBVIOUS
<1>0. Reserved(b)' = Reserved(b) \cup {x} /\ x \notin Reserved(b) /\ RateOK(b)
  OBVIOUS
<1>1. /\ Cost(b) \in Nat /\ Burst(b) \in Nat /\ Quantum * Cost(b) \in Nat
      /\ used[b] \in Nat /\ born[b] \in Nat /\ arrival[b] \in Nat /\ now \in Nat
  BY BucketNumbers
<1>2. /\ IsFiniteSet(Reserved(b)) /\ Reserved(b) \subseteq Transfers
      /\ \A t \in Nat : DueBy(b, t) \subseteq Reserved(b) /\ IsFiniteSet(DueBy(b, t))
      /\ \A y \in Reserved(b) : size[y] \in Nat /\ size[y] <= Quantum
  BY ReservedFinite
<1> DEFINE z == size[x] * Cost(b)
           w == Max({allowed[x], AllowedAt(x)})
<1>3. /\ z \in Nat /\ AllowedAt(x) \in Nat /\ NextArrival(x) \in Nat
      /\ NextArrival(x) >= prev[x] + z
      /\ \A t \in Nat : AllowedAt(x) <= t => NextArrival(x) <= t + Burst(b) + z
      /\ w \in Nat /\ w >= AllowedAt(x)
  BY ReserveValues
<1>4. /\ arrival[b] = prev[x] /\ arrival'[b] = NextArrival(x)
      /\ allowed' = [allowed EXCEPT ![x] = w]
      /\ now' = now /\ size' = size /\ born' = born /\ used' = used
  BY DEF Reserves, Typed
<1>5. size[x] \in Nat /\ size[x] <= Quantum /\ Quantum \in Nat
  BY Constants DEF Typed
<1>6. z <= Quantum * Cost(b)
  BY <1>1, <1>5, TimesMonotone
<1> HIDE DEF z, w
<1>7. Booked(b)' * Cost(b) <= arrival'[b] - born[b] /\ Booked(b)' * Cost(b) \in Nat
  <2>1. SumOver(size, Reserved(b) \cup {x}) = SumOver(size, Reserved(b)) + size[x]
    BY <1>0, <1>2, OneMore
  <2>2. SumOver(size', Reserved(b)') = SumOver(size, Reserved(b) \cup {x})
    BY <1>0, <1>4, Zenon
  <2>3. SumOver(size, Reserved(b)) \in Nat
    BY <1>2, SumType
  <2>4. Booked(b) \in Nat /\ Booked(b)' = Booked(b) + size[x]
    BY <1>1, <1>4, <1>5, <2>1, <2>2, <2>3 DEF Booked
  <2>5. Booked(b)' * Cost(b) = Booked(b) * Cost(b) + z /\ Booked(b) * Cost(b) \in Nat
    BY <1>1, <1>5, <2>4, TimesSum DEF z
  <2>6. Booked(b) * Cost(b) <= arrival[b] - born[b]
    BY <1>0 DEF RateOK
  <2> QED BY <1>1, <1>3, <1>4, <2>5, <2>6
<1>8. ASSUME NEW t \in Nat, t >= now
      PROVE  BookedBy(b, t)' * Cost(b) <= (t - born[b]) + Burst(b) + Quantum * Cost(b)
  <2>1. CASE w <= t
    <3>1. DueBy(b, t)' \subseteq Reserved(b)' /\ Reserved(b)' \subseteq Transfers
      BY DEF DueBy, Reserved
    <3>2. IsFiniteSet(Reserved(b)')
      BY <3>1, Constants, FS_Subset
    <3>3. \A y \in Reserved(b)' : size'[y] \in Nat
      BY <1>4, <3>1 DEF Typed
    <3>4. /\ SumOver(size', DueBy(b, t)') \in Nat /\ SumOver(size', Reserved(b)') \in Nat
          /\ SumOver(size', DueBy(b, t)') <= SumOver(size', Reserved(b)')
      BY <3>1, <3>2, <3>3, SumSub
    <3>5. BookedBy(b, t)' \in Nat /\ Booked(b)' \in Nat /\ BookedBy(b, t)' <= Booked(b)'
      BY <1>1, <1>4, <3>4 DEF BookedBy, Booked
    <3>6. BookedBy(b, t)' * Cost(b) <= Booked(b)' * Cost(b) /\ BookedBy(b, t)' * Cost(b) \in Nat
      BY <1>1, <3>5, TimesMonotone
    <3>7. NextArrival(x) <= t + Burst(b) + z
      BY <1>3, <2>1
    <3> QED BY <1>1, <1>3, <1>4, <1>6, <1>7, <3>6, <3>7
  <2>2. CASE ~(w <= t)
    <3>1. DueBy(b, t)' = DueBy(b, t)
      BY <1>0, <1>2, <1>4, <2>2 DEF DueBy, Typed
    <3>2. SumOver(size', DueBy(b, t)') = SumOver(size, DueBy(b, t))
      BY <1>4, <3>1, Zenon
    <3>3. BookedBy(b, t)' = BookedBy(b, t)
      BY <1>4, <3>2 DEF BookedBy
    <3> QED BY <1>0, <1>8, <3>3 DEF RateOK
  <2> QED BY <2>1, <2>2
<1> QED BY <1>0, <1>4, <1>7, <1>8 DEF RateOK, Cost, Burst

-----------------------------------------------------------------------------
(* Every step keeps the shape and the rate. *)

BandwidthInv == Shape /\ \A b \in All : RateOK(b)

\* Steps that change neither buckets nor reservations
LEMMA NoReservation ==
  ASSUME BandwidthInv, Shape', now' >= now,
         UNCHANGED <<arrival, born, used>>,
         \A b \in All : Reserved(b)' \subseteq Reserved(b),
         \A b \in All : \A x \in Reserved(b)' : size'[x] = size[x] /\ allowed'[x] >= allowed[x]
  PROVE  BandwidthInv'
<1> SUFFICES ASSUME NEW b \in All PROVE RateOK(b)'
  BY AllHasBuckets DEF BandwidthInv, All
<1>1. Typed /\ Typed' /\ RateOK(b)
  BY DEF BandwidthInv, Shape
<1> QED BY <1>1, RateKept

LEMMA AttachRate ==
  ASSUME BandwidthInv, NEW x \in Transfers, NEW i \in IPs, Attach(x, i)
  PROVE  BandwidthInv'
<1> USE Constants, AllHasBuckets
<1>1. Shape /\ Shape' /\ Typed /\ Typed'
  BY AttachOK DEF BandwidthInv, Shape
<1>2. /\ pc[x] = "free"
      /\ pc' = [pc EXCEPT ![x] = "open"]
      /\ UNCHANGED <<now, on, at, size, prev, allowed>>
  BY DEF Attach, call
<1>3. CASE ClientCost = 0
  <2>1. UNCHANGED <<lease, arrival, born, used>>
    BY <1>3 DEF Attach
  <2>2. \A b \in All : Reserved(b)' \subseteq Reserved(b)
    BY <1>1, <1>2, <2>1 DEF Reserved, Holds, Waiting, Typed
  <2>3. \A b \in All : \A y \in Reserved(b)' : size'[y] = size[y] /\ allowed'[y] >= allowed[y]
    BY <1>1, <1>2 DEF Typed, Reserved
  <2>4. now' >= now
    BY <1>1, <1>2 DEF Typed
  <2> QED BY <1>1, <2>1, <2>2, <2>3, <2>4, NoReservation
<1>4. CASE ClientCost # 0
  <2>1. PICK k \in Buckets : lease' = [lease EXCEPT ![x] = k] /\ (Fresh(k) \/ Reused(k))
    BY <1>1, <1>4, AttachResult
  <2>2. \A b \in All : Reserved(b)' \subseteq Reserved(b)
    BY <1>1, <1>2, <2>1 DEF Reserved, Holds, Waiting, Typed
  <2>3. \A b \in All : \A y \in Reserved(b)' : size'[y] = size[y] /\ allowed'[y] >= allowed[y]
    BY <1>1, <1>2 DEF Typed, Reserved
  <2>4. now' >= now
    BY <1>1, <1>2 DEF Typed
  <2>5. CASE Reused(k)
    BY <1>1, <2>2, <2>3, <2>4, <2>5, NoReservation DEF Reused
  <2>6. CASE Fresh(k)
    <3> SUFFICES ASSUME NEW b \in All PROVE RateOK(b)'
      BY <1>1 DEF BandwidthInv, All
    <3>1. CASE b = k
      <4>1. Reserved(b) = {}
        BY <2>6, <3>1 DEF Fresh, Reserved, Holds
      <4>2. Reserved(b)' = {}
        BY <2>2, <4>1
      <4>3. arrival'[b] = now /\ born'[b] = now /\ used'[b] = 0
        BY <1>1, <2>6, <3>1 DEF Fresh, Configured, Typed
      <4> QED BY <1>1, <1>2, <2>4, <4>2, <4>3, RateFresh DEF Typed
    <3>2. CASE b # k
      <4>1. arrival'[b] = arrival[b] /\ born'[b] = born[b] /\ used'[b] = used[b]
        BY <1>1, <2>6, <3>2 DEF Fresh, Configured, Typed
      <4> QED BY <1>1, <2>2, <2>3, <2>4, <4>1, RateKept DEF BandwidthInv
    <3> QED BY <3>1, <3>2
  <2> QED BY <2>1, <2>5, <2>6
<1> QED BY <1>3, <1>4

LEMMA DetachRate ==
  ASSUME BandwidthInv, NEW x \in Transfers, Detach(x)
  PROVE  BandwidthInv'
<1> USE Constants, AllHasBuckets
<1>1. Shape /\ Shape' /\ Typed /\ Typed'
  BY DetachOK DEF BandwidthInv, Shape
<1>2. /\ pc[x] = "open" /\ pc' = [pc EXCEPT ![x] = "free"]
      /\ lease' = [lease EXCEPT ![x] = None]
      /\ UNCHANGED <<now, on, at, size, prev, allowed>>
  BY DEF Detach, call
<1>3. \A b \in All : Reserved(b)' \subseteq Reserved(b)
  BY <1>1, <1>2 DEF Reserved, Holds, Waiting, Typed
<1>4. \A b \in All : \A y \in Reserved(b)' : size'[y] = size[y] /\ allowed'[y] >= allowed[y]
  BY <1>1, <1>2 DEF Typed, Reserved
<1>5. now' >= now /\ now' \in Nat
  BY <1>1, <1>2 DEF Typed
<1> DEFINE last == lease[x] \in Buckets /\ lease[x] # overflow
                   /\ \A y \in Transfers \ {x} : lease[y] # lease[x]
<1>6. CASE ~last
  <2>1. UNCHANGED <<arrival, born, used>>
    BY <1>6 DEF Detach
  <2> QED BY <1>1, <1>3, <1>4, <1>5, <2>1, NoReservation
<1>7. CASE last
  <2>1. /\ arrival' = Configured(arrival, lease[x], 0) /\ born' = Configured(born, lease[x], 0)
        /\ used' = Configured(used, lease[x], 0)
    BY <1>7 DEF Detach
  <2> SUFFICES ASSUME NEW b \in All PROVE RateOK(b)'
    BY <1>1 DEF BandwidthInv, All
  <2>2. CASE b = lease[x]
    <3>1. Reserved(b) = {}
      BY <1>2, <1>7, <2>2 DEF Reserved, Holds, Waiting
    <3>2. Reserved(b)' = {}
      BY <1>3, <3>1
    <3>3. arrival'[b] = 0 /\ born'[b] = 0 /\ used'[b] = 0
      BY <1>1, <2>1, <2>2 DEF Configured, Typed
    <3> QED BY <1>1, <1>5, <3>2, <3>3, RateFresh
  <2>3. CASE b # lease[x]
    <3>1. arrival'[b] = arrival[b] /\ born'[b] = born[b] /\ used'[b] = used[b]
      BY <1>1, <2>1, <2>3 DEF Configured, Typed
    <3> QED BY <1>1, <1>3, <1>4, <1>5, <3>1, RateKept DEF BandwidthInv
  <2> QED BY <2>2, <2>3
<1> QED BY <1>6, <1>7

LEMMA AcquireRate ==
  ASSUME BandwidthInv, NEW x \in Transfers, NEW d \in Desired, Acquire(x, d)
  PROVE  BandwidthInv'
<1> USE Constants, AllHasBuckets
<1>1. Shape /\ Shape' /\ Typed /\ Typed' /\ TransferOK(x)
  BY AcquireOK DEF BandwidthInv, Shape
<1>2. /\ pc[x] = "open" /\ pc' = [pc EXCEPT ![x] = "load"]
      /\ on' = [on EXCEPT ![x] = IF GlobalCost # 0 THEN Global ELSE lease[x]]
      /\ UNCHANGED <<now, arrival, born, used, lease>>
      /\ \A y \in Transfers \ {x} : size'[y] = size[y] /\ allowed'[y] = allowed[y]
  BY <1>1 DEF Acquire, To, Typed
<1>3. \A b \in All : Reserved(b)' \subseteq Reserved(b) /\ x \notin Reserved(b)'
  BY <1>1, <1>2 DEF Reserved, Holds, Waiting, Typed
<1>4. \A b \in All : \A y \in Reserved(b)' : size'[y] = size[y] /\ allowed'[y] >= allowed[y]
  BY <1>1, <1>2, <1>3 DEF Typed, Reserved
<1>5. now' >= now
  BY <1>1, <1>2 DEF Typed
<1> QED BY <1>1, <1>2, <1>3, <1>4, <1>5, NoReservation

LEMMA CasRate ==
  ASSUME BandwidthInv, NEW x \in Transfers, Cas(x)
  PROVE  BandwidthInv'
<1> USE Constants, AllHasBuckets
<1>1. Shape /\ Typed /\ TransferOK(x) /\ pc[x] = "cas" /\ x \in Transfers
  BY CasSplit DEF BandwidthInv, Shape
<1>2. CASE Reserves(x)
  <2>1. /\ Shape' /\ on[x] \in All
        /\ \/ /\ on[x] = Global /\ lease[x] # None
              /\ pc' = [pc EXCEPT ![x] = "load"] /\ on' = [on EXCEPT ![x] = lease[x]]
           \/ /\ ~(on[x] = Global /\ lease[x] # None)
              /\ \E next \in {"check", "final"} : pc' = [pc EXCEPT ![x] = next]
              /\ on' = on
    BY <1>1, <1>2, ReservesOK
  <2>2. Typed'
    BY <2>1 DEF Shape
  <2>3. lease' = lease /\ now' = now /\ size' = size /\ born' = born /\ used' = used
    BY <1>2 DEF Reserves
  <2>4. /\ \A y \in Transfers \ {x} : allowed'[y] = allowed[y]
        /\ allowed'[x] >= allowed[x]
        /\ \A b \in All : b # on[x] => arrival'[b] = arrival[b]
    BY <1>1, <1>2, <2>1, ReserveValues DEF Reserves, Typed
  <2>5. ASSUME NEW b \in All, NEW y \in Transfers \ {x} PROVE Holds(y, b)' <=> Holds(y, b)
    BY <1>1, <2>1, <2>3 DEF Holds, Typed
  <2>6. ASSUME NEW b \in All
        PROVE  /\ b = on[x] => Holds(x, b)' /\ ~Holds(x, b)
               /\ b # on[x] => (Holds(x, b)' => Holds(x, b))
    <3>1. \/ on[x] = Global /\ GlobalCost # 0
          \/ on[x] = lease[x] /\ lease[x] \in Buckets
      BY <1>1, <2>1 DEF TransferOK, Typed
    <3>2. CASE on[x] = Global /\ lease[x] # None
      <4>1. pc'[x] = "load" /\ on'[x] = lease[x] /\ lease[x] \in Buckets
        BY <1>1, <2>1, <3>2 DEF Typed
      <4> QED BY <1>1, <2>3, <3>1, <3>2, <4>1 DEF Holds, Waiting
    <3>3. CASE ~(on[x] = Global /\ lease[x] # None)
      <4>1. pc'[x] \in Waiting /\ pc'[x] \notin {"load", "cas"} /\ on'[x] = on[x]
        BY <1>1, <2>1, <3>3 DEF Typed, Waiting
      <4>2. CASE on[x] = Global
        BY <1>1, <2>3, <3>1, <3>3, <4>1, <4>2 DEF Holds, Waiting
      <4>3. CASE on[x] = lease[x] /\ lease[x] \in Buckets
        BY <1>1, <2>3, <4>1, <4>3 DEF Holds, Waiting
      <4> QED BY <3>1, <4>2, <4>3
    <3> QED BY <3>2, <3>3
  <2>7. x \notin Reserved(on[x])
    BY <2>1, <2>6 DEF Reserved
  <2>8. \A b \in All : b = on[x] => Reserved(b)' = Reserved(b) \cup {x}
    BY <2>5, <2>6 DEF Reserved
  <2>9. \A b \in All : b = on[x] => RateOK(b)'
    BY <1>1, <1>2, <2>1, <2>2, <2>7, <2>8, RateReserve DEF BandwidthInv
  <2>10. ASSUME NEW b \in All, b # on[x] PROVE RateOK(b)'
    <3>1. Reserved(b)' \subseteq Reserved(b)
      BY <2>5, <2>6, <2>10 DEF Reserved
    <3>2. \A y \in Reserved(b)' : size'[y] = size[y] /\ allowed'[y] >= allowed[y]
      BY <1>1, <2>3, <2>4 DEF Typed, Reserved
    <3>3. now' >= now
      BY <1>1, <2>3 DEF Typed
    <3> QED BY <1>1, <2>2, <2>3, <2>4, <2>10, <3>1, <3>2, <3>3, RateKept DEF BandwidthInv
  <2> QED BY <2>1, <2>9, <2>10 DEF BandwidthInv, All
<1>3. CASE /\ prev' = [prev EXCEPT ![x] = arrival[on[x]]]
           /\ UNCHANGED <<now, game, arrival, map, pc, ip, lease, on, at, size, allowed,
                          born, used>>
  <2>1. Shape'
    BY <1>1, <1>3, ReloadOK
  <2>2. \A b \in All : Reserved(b)' \subseteq Reserved(b)
    BY <1>3 DEF Reserved, Holds
  <2>3. \A b \in All : \A y \in Reserved(b)' : size'[y] = size[y] /\ allowed'[y] >= allowed[y]
    BY <1>1, <1>3 DEF Typed, Reserved
  <2>4. now' >= now
    BY <1>1, <1>3 DEF Typed
  <2> QED BY <1>3, <2>1, <2>2, <2>3, <2>4, NoReservation
<1> QED BY <1>2, <1>3, CasSplit

LEMMA LoadRate ==
  ASSUME BandwidthInv, NEW x \in Transfers, Load(x)
  PROVE  BandwidthInv'
<1> USE Constants, AllHasBuckets
<1>1. Shape /\ Shape' /\ Typed /\ Typed'
  BY LoadOK DEF BandwidthInv, Shape
<1>2. /\ pc[x] = "load" /\ pc' = [pc EXCEPT ![x] = "cas"]
      /\ UNCHANGED <<now, arrival, born, used, lease, on, size, allowed>>
  BY DEF Load, To
<1>3. \A b \in All : Reserved(b)' \subseteq Reserved(b)
  BY <1>1, <1>2 DEF Reserved, Holds, Waiting, Typed
<1>4. \A b \in All : \A y \in Reserved(b)' : size'[y] = size[y] /\ allowed'[y] >= allowed[y]
  BY <1>1, <1>2 DEF Typed, Reserved
<1>5. now' >= now
  BY <1>1, <1>2 DEF Typed
<1> QED BY <1>1, <1>2, <1>3, <1>4, <1>5, NoReservation

LEMMA WaitRate ==
  ASSUME BandwidthInv, NEW x \in Transfers, NEW next \in Waiting, pc[x] \in Waiting,
         next = "final" => now >= allowed[x], To(x, next),
         UNCHANGED <<now, game, arrival, map, ip, lease, call, born, used>>
  PROVE  BandwidthInv'
<1> USE Constants, AllHasBuckets
<1>1. Shape /\ Shape' /\ Typed /\ Typed'
  BY WaitOK DEF BandwidthInv, Shape
<1>3. \A b \in All : Reserved(b)' \subseteq Reserved(b)
  BY <1>1 DEF Reserved, Holds, Waiting, Typed, To, call
<1>4. \A b \in All : \A y \in Reserved(b)' : size'[y] = size[y] /\ allowed'[y] >= allowed[y]
  BY <1>1 DEF Typed, Reserved, call
<1>5. now' >= now
  BY <1>1 DEF Typed
<1> QED BY <1>1, <1>3, <1>4, <1>5, NoReservation

\* acquire() returns: what it had reserved is granted or given up.
LEMMA ReturnRate ==
  ASSUME BandwidthInv, NEW x \in Transfers, pc[x] \in Waiting, Return(x),
         UNCHANGED <<now, game, arrival, map, ip, lease, born>>,
         \/ used' = used
         \/ /\ pc[x] = "final"
            /\ used' = [b \in All |-> IF (b = Global /\ GlobalCost # 0) \/ b = lease[x]
                                      THEN used[b] + size[x] ELSE used[b]]
  PROVE  BandwidthInv'
<1> USE Constants, AllHasBuckets
<1>1. Shape /\ Typed /\ TransferOK(x)
  BY DEF BandwidthInv, Shape
<1>2. used' \in [All -> Nat]
  <2>1. size[x] \in Nat /\ used \in [All -> Nat]
    BY <1>1 DEF Typed
  <2> QED BY <2>1
<1>3. Shape' /\ Typed'
  BY <1>1, <1>2, ReturnOK DEF Shape
<1>4. /\ pc' = [pc EXCEPT ![x] = "open"] /\ on' = [on EXCEPT ![x] = None]
      /\ \A y \in Transfers \ {x} : size'[y] = size[y] /\ allowed'[y] = allowed[y]
  BY <1>1 DEF Return, To, Typed
<1>5. \A b \in All : Reserved(b)' = Reserved(b) \ {x}
  BY <1>1, <1>4 DEF Reserved, Holds, Waiting, Typed
<1>6. \A b \in All : Holds(x, b) <=> (b = Global /\ GlobalCost # 0) \/ b = lease[x]
  <2>1. lease[x] \in Buckets \cup {None} /\ pc[x] \notin {"load", "cas"}
    BY <1>1 DEF Typed, Waiting
  <2> QED BY <2>1 DEF Holds, All
<1> SUFFICES ASSUME NEW b \in All PROVE RateOK(b)'
  BY <1>3 DEF BandwidthInv, All
<1>7. CASE used'[b] = used[b]
  <2>1. Reserved(b)' \subseteq Reserved(b)
    BY <1>5
  <2>2. \A y \in Reserved(b)' : size'[y] = size[y] /\ allowed'[y] >= allowed[y]
    BY <1>1, <1>4, <1>5 DEF Typed, Reserved
  <2>3. now' >= now
    BY <1>1 DEF Typed
  <2> QED BY <1>1, <1>3, <1>7, <2>1, <2>2, <2>3, RateKept DEF BandwidthInv
<1>8. CASE pc[x] = "final" /\ Holds(x, b) /\ used'[b] = used[b] + size[x]
  <2>1. x \in Reserved(b) /\ allowed[x] <= now
    BY <1>1, <1>8 DEF Reserved, TransferOK
  <2> QED BY <1>1, <1>3, <1>4, <1>5, <1>8, <2>1, RateGrant DEF BandwidthInv
<1> QED BY <1>1, <1>6, <1>7, <1>8 DEF Typed

LEMMA GameRate ==
  ASSUME BandwidthInv, Game
  PROVE  BandwidthInv'
<1> USE Constants, AllHasBuckets
<1>1. Shape /\ Shape' /\ Typed /\ Typed'
  BY GameOK DEF BandwidthInv, Shape
<1>2. UNCHANGED <<now, lease, on, size, allowed>>
  BY DEF Game, StopFlag, StopNotify, StopClear, Configure, call
<1>3. \A b \in All : Reserved(b)' \subseteq Reserved(b)
  BY <1>1, <1>2 DEF Game, StopFlag, StopNotify, StopClear, Configure, Reserved, Holds,
                    Waiting, Typed
<1>4. \A b \in All : \A y \in Reserved(b)' : size'[y] = size[y] /\ allowed'[y] >= allowed[y]
  BY <1>1, <1>2 DEF Typed, Reserved
<1>5. now' >= now /\ now \in Nat /\ now' = now
  BY <1>1, <1>2 DEF Typed
<1>6. CASE UNCHANGED <<arrival, born, used>>
  BY <1>1, <1>3, <1>4, <1>5, <1>6, NoReservation
<1>7. CASE StopClear
  <2> DEFINE dead == {b \in Buckets : \A x \in Transfers : lease[x] # b}
  <2>0. \A b \in All : b \in dead <=> b # Global /\ \A x \in Transfers : lease[x] # b
    OBVIOUS
  <2> SUFFICES ASSUME NEW b \in All PROVE RateOK(b)'
    BY <1>1 DEF BandwidthInv, All
  <2>1. CASE b \in dead
    <3>1. Reserved(b) = {}
      BY <2>1 DEF Reserved, Holds
    <3>2. Reserved(b)' = {}
      BY <1>3, <3>1
    <3>3. arrival'[b] = 0 /\ born'[b] = 0 /\ used'[b] = 0
      BY <1>7, <2>1 DEF StopClear, Unleased
    <3> QED BY <1>1, <1>5, <3>2, <3>3, RateFresh
  <2>2. CASE b \notin dead
    <3>1. arrival'[b] = arrival[b] /\ born'[b] = born[b] /\ used'[b] = used[b]
      BY <1>7, <2>0, <2>2 DEF StopClear, Unleased
    <3> QED BY <1>1, <1>3, <1>4, <1>5, <3>1, RateKept DEF BandwidthInv
  <2> QED BY <2>1, <2>2
<1>8. CASE Configure
  <2> SUFFICES ASSUME NEW b \in All PROVE RateOK(b)'
    BY <1>1 DEF BandwidthInv, All
  <2>1. CASE b = Global
    <3>1. Reserved(b) = {}
      BY <1>8, <2>1 DEF Configure, Reserved, Holds, Waiting
    <3>2. Reserved(b)' = {}
      BY <1>3, <3>1
    <3>3. arrival'[b] = now /\ born'[b] = now /\ used'[b] = 0
      BY <1>8, <2>1 DEF Configure, Configured, Unleased
    <3> QED BY <1>1, <1>5, <3>2, <3>3, RateFresh
  <2>2. CASE b # Global
    <3>1. \A x \in Transfers : lease[x] # b
      BY <1>1, <1>8, <2>2 DEF Configure, Shape, TransferOK
    <3>2. Reserved(b)' = {}
      BY <1>3, <2>2, <3>1 DEF Reserved, Holds
    <3>3. arrival'[b] = 0 /\ born'[b] = 0 /\ used'[b] = 0
      BY <1>8, <2>2, <3>1 DEF Configure, Configured, Unleased
    <3> QED BY <1>1, <1>5, <3>2, <3>3, RateFresh
  <2> QED BY <2>1, <2>2
<1> QED BY <1>6, <1>7, <1>8 DEF Game, StopFlag, StopNotify

LEMMA BandwidthStep == BandwidthInv /\ [Next]_vars => BandwidthInv'
<1> SUFFICES ASSUME BandwidthInv, [Next]_vars PROVE BandwidthInv'
  OBVIOUS
<1>1. Shape /\ Typed
  BY DEF BandwidthInv, Shape
\* Only time passes.
<1>2. ASSUME now' \in Nat, now' >= now,
             UNCHANGED <<game, arrival, map, pc, ip, lease, call, born, used>>
      PROVE  BandwidthInv'
  <2>1. Shape'
    BY <1>1, <1>2, TickOK
  <2>2. \A b \in All : Reserved(b)' \subseteq Reserved(b)
    BY <1>2 DEF Reserved, Holds, call
  <2>3. \A b \in All : \A y \in Reserved(b)' : size'[y] = size[y] /\ allowed'[y] >= allowed[y]
    BY <1>1, <1>2 DEF Typed, Reserved, call
  <2> QED BY <1>2, <2>1, <2>2, <2>3, NoReservation
<1>3. CASE Tick
  BY <1>1, <1>2, <1>3 DEF Tick, Typed
<1>4. CASE UNCHANGED vars
  BY <1>1, <1>2, <1>4 DEF vars, Typed, call, map, game
<1>5. CASE Game
  BY <1>5, GameRate
<1>6. ASSUME NEW x \in Transfers, Transfer(x) PROVE BandwidthInv'
  <2>1. CASE CheckPredicate(x)
    <3>1. CASE stopping /\ Return(x)
      BY <2>1, <3>1, ReturnRate DEF CheckPredicate, Waiting
    <3>2. CASE To(x, "presleep") /\ UNCHANGED call
      BY <2>1, <3>2, WaitRate DEF CheckPredicate, Waiting
    <3> QED BY <2>1, <3>1, <3>2 DEF CheckPredicate
  <2>2. CASE Sleep(x)
    BY <2>2, WaitRate DEF Sleep, Waiting
  <2>3. CASE Timeout(x)
    BY <2>3, WaitRate DEF Timeout, DeadlinePassed, Waiting
  <2>4. CASE Final(x)
    <3>1. CASE stopping
      <4>1. used' = used
        BY <1>1, <2>4, <3>1 DEF Final, Typed
      <4> QED BY <2>4, <4>1, ReturnRate DEF Final, Waiting
    <3>2. CASE ~stopping
      <4>1. used' = [b \in All |-> IF (b = Global /\ GlobalCost # 0) \/ b = lease[x]
                                   THEN used[b] + size[x] ELSE used[b]]
        BY <2>4, <3>2 DEF Final
      <4> QED BY <2>4, <4>1, ReturnRate DEF Final, Waiting
    <3> QED BY <3>1, <3>2
  <2> QED BY <1>6, <2>1, <2>2, <2>3, <2>4, AttachRate, DetachRate, AcquireRate, LoadRate,
             CasRate DEF Transfer, Proceed
<1> QED BY <1>3, <1>4, <1>5, <1>6 DEF Next

LEMMA BandwidthStarts == Init => BandwidthInv
<1> SUFFICES ASSUME Init PROVE BandwidthInv
  OBVIOUS
<1> USE Constants, AllHasBuckets
<1>1. Typed
  <2>1. /\ now \in Nat /\ attachments \in Nat
        /\ stopping \in BOOLEAN /\ gpc \in {"running", "notify", "clear", "join"}
        /\ tracked \in [IPs -> Buckets \cup {None}] /\ overflow \in Buckets \cup {None}
        /\ pc \in [Transfers -> PCs] /\ ip \in [Transfers -> IPs \cup {None}]
        /\ lease \in [Transfers -> Buckets \cup {None}]
        /\ on \in [Transfers -> All \cup {None}]
    BY DEF Init, PCs
  <2>2. /\ at \in [Transfers -> Nat] /\ prev \in [Transfers -> Nat]
        /\ allowed \in [Transfers -> Nat]
        /\ arrival \in [All -> Nat] /\ born \in [All -> Nat] /\ used \in [All -> Nat]
    BY DEF Init
  <2>3. size \in [Transfers -> 0..Quantum]
    BY DEF Init
  <2> QED BY <2>1, <2>2, <2>3 DEF Typed
<1>2. \A x \in Transfers : TransferOK(x)
  BY DEF Init, TransferOK
<1>3. Listed /\ Control
  BY DEF Init, Listed, Control
<1>4. TrackedBound
  <2>1. Entries(tracked) = {}
    BY DEF Init, Entries
  <2>2. Cardinality(Entries(tracked)) = Cardinality({})
    BY <2>1, Zenon
  <2> QED BY <2>2, FS_EmptySet DEF TrackedBound
<1>5. ASSUME NEW b \in All PROVE RateOK(b)
  <2>1. Cost(b) \in Nat /\ Burst(b) \in Nat /\ Quantum * Cost(b) \in Nat /\ 0 * Cost(b) = 0
    BY DEF Cost, Burst
  <2>2. used[b] = 0 /\ born[b] = 0 /\ arrival[b] = 0 /\ now = 0
    BY DEF Init
  <2>3. Reserved(b) = {} /\ \A t \in Nat : DueBy(b, t) = {}
    BY DEF Init, Reserved, DueBy, Holds, Waiting
  <2>4. SumOver(size, {}) = 0
    BY SumEmpty
  <2>5. Booked(b) = 0
    <3>1. SumOver(size, Reserved(b)) = SumOver(size, {})
      BY <2>3, Zenon
    <3> QED BY <2>2, <2>4, <3>1 DEF Booked
  <2>6. \A t \in Nat : BookedBy(b, t) = 0
    <3> TAKE t \in Nat
    <3>1. SumOver(size, DueBy(b, t)) = SumOver(size, {})
      BY <2>3, Zenon
    <3> QED BY <2>2, <2>4, <3>1 DEF BookedBy
  <2> QED BY <2>1, <2>2, <2>5, <2>6 DEF RateOK
<1> QED BY <1>1, <1>2, <1>3, <1>4, <1>5 DEF BandwidthInv, Shape

-----------------------------------------------------------------------------

\* reserve() and its retries keep every bucket's grants within its rate, its
\* burst and one quantum, whatever the number of transfers, the rates, and the
\* interleaving of loads, compare-and-swaps, waits and shutdowns.
THEOREM RateAlwaysBounded == Spec => []RateBound
<1>1. BandwidthInv => RateBound
  <2> SUFFICES ASSUME BandwidthInv, NEW b \in All
               PROVE  used[b] * Cost(b) <= (now - born[b]) + Burst(b) + Quantum * Cost(b)
    BY DEF RateBound
  <2>1. Typed /\ RateOK(b)
    BY DEF BandwidthInv, Shape
  <2>2. /\ Cost(b) \in Nat /\ Burst(b) \in Nat /\ Quantum * Cost(b) \in Nat
        /\ used[b] \in Nat /\ born[b] \in Nat /\ arrival[b] \in Nat /\ now \in Nat
    BY <2>1, BucketNumbers
  <2>3. SumOver(size, DueBy(b, now)) \in Nat
    BY <2>1, <2>2, ReservedFinite, SumType
  <2>4. BookedBy(b, now) \in Nat /\ used[b] <= BookedBy(b, now)
    BY <2>2, <2>3 DEF BookedBy
  <2>5. /\ used[b] * Cost(b) <= BookedBy(b, now) * Cost(b)
        /\ used[b] * Cost(b) \in Nat /\ BookedBy(b, now) * Cost(b) \in Nat
    BY <2>2, <2>4, TimesMonotone
  <2>6. BookedBy(b, now) * Cost(b) <= (now - born[b]) + Burst(b) + Quantum * Cost(b)
    BY <2>1, <2>2 DEF RateOK
  <2> QED BY <2>2, <2>5, <2>6
<1> QED BY <1>1, BandwidthStarts, BandwidthStep, PTL DEF Spec

\* attach() and the destruction of expired clients: transfers of one address
\* share its bucket, except those that found the map full.
THEOREM LeasesAlwaysShared == Spec => []LeasesShared
<1>1. BandwidthInv => LeasesShared
  BY ShapeShows DEF BandwidthInv
<1> QED BY <1>1, BandwidthStarts, BandwidthStep, PTL DEF Spec

\* clients_ never has more than kMaximumTrackedClients entries.
THEOREM TrackedAlwaysBounded == Spec => []TrackedBound
<1>1. BandwidthInv => TrackedBound
  BY ShapeShows DEF BandwidthInv
<1> QED BY <1>1, BandwidthStarts, BandwidthStep, PTL DEF Spec
=============================================================================
