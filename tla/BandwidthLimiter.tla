-------------------------- MODULE BandwidthLimiter --------------------------
(***************************************************************************)
(* The bandwidth limiter of src/src/bandwidth_limiter.cpp as the transfers *)
(* of src/src/fastdl_server.cpp use it: a lease per GET response, acquire()*)
(* in the content reader, stop() from the game thread.  A bucket holds the *)
(* "theoretical arrival time" of a virtual-scheduling rate limiter; it is  *)
(* advanced with a load and a compare-and-swap that other threads may      *)
(* separate.  The wait tests its predicate, then sleeps; stop() sets the   *)
(* flag and notifies without holding waitMutex_.  Time is in ticks, bytes  *)
(* in units; a unit costs a whole number of ticks.                         *)
(***************************************************************************)
EXTENDS Integers, FiniteSets, FiniteSetsExt

CONSTANTS
    Transfers, IPs,
    Buckets,                   \* Client objects that can exist at a time
    Global,                    \* global_
    None,                      \* an empty pointer, an address without an entry
    MaximumTracked,            \* kMaximumTrackedClients
    CleanupAfter,              \* attachments between two cleanups, 64
    Quantum,                   \* quantum_
    Desired,                   \* what a content reader may ask for
    GlobalCost, ClientCost,    \* ticks per unit; 0 is an unlimited rate
    GlobalBurst, ClientBurst,  \* burstNanoseconds
    Horizon                    \* bound: no acquire() begins after this tick

ASSUME BandwidthConstants ==
    /\ IsFiniteSet(Transfers) /\ IsFiniteSet(IPs) /\ IsFiniteSet(Buckets)
    /\ Cardinality(Buckets) > Cardinality(Transfers) + Cardinality(IPs)
    /\ Global \notin Buckets /\ None \notin Buckets \cup IPs \cup {Global}
    /\ {MaximumTracked, CleanupAfter, Quantum} \subseteq Nat \ {0}
    /\ Desired \subseteq Nat \ {0}
    /\ {GlobalCost, ClientCost, GlobalBurst, ClientBurst, Horizon} \subseteq Nat
    /\ GlobalCost # 0 \/ ClientCost # 0
    /\ GlobalBurst >= Quantum * GlobalCost    \* burstBytes >= quantum
    /\ ClientBurst >= Quantum * ClientCost

VARIABLES
    now,
    stopping, gpc,                     \* stopping_, and where the game thread is
    arrival,                           \* theoreticalArrival of every bucket
    tracked, overflow, attachments,    \* clients_, overflowClient_
    pc, ip, lease,                     \* every transfer and its lease
    on, at, size, prev, allowed,       \* locals of acquire() and reserve()
    born, used                         \* history: creation and granted units

map   == <<tracked, overflow, attachments>>
call  == <<on, at, size, prev, allowed>>
game  == <<stopping, gpc>>
vars  == <<now, game, arrival, map, pc, ip, lease, call, born, used>>

All == Buckets \cup {Global}
Cost(b) == IF b = Global THEN GlobalCost ELSE ClientCost
Burst(b) == IF b = Global THEN GlobalBurst ELSE ClientBurst

\* Every deadline given out up to the horizon is reached by this tick.
LastTick == Horizon + Cardinality(Transfers) * Quantum * Max({GlobalCost, ClientCost})

TypeOK ==
    /\ now \in 0..LastTick
    /\ stopping \in BOOLEAN
    /\ gpc \in {"running", "notify", "clear", "join"}
    /\ arrival \in [All -> Nat]
    /\ tracked \in [IPs -> Buckets \cup {None}]
    /\ overflow \in Buckets \cup {None}
    /\ attachments \in 0..CleanupAfter
    /\ pc \in [Transfers -> {"free", "open", "load", "cas", "check", "presleep",
                             "asleep", "final"}]
    /\ ip \in [Transfers -> IPs \cup {None}]
    /\ lease \in [Transfers -> Buckets \cup {None}]
    /\ on \in [Transfers -> All \cup {None}]
    /\ {at[x] : x \in Transfers} \cup {allowed[x] : x \in Transfers} \subseteq 0..LastTick
    /\ size \in [Transfers -> 0..Quantum]
    /\ prev \in [Transfers -> Nat]
    /\ born \in [All -> Nat]
    /\ used \in [All -> Nat]

-----------------------------------------------------------------------------
(* Leases *)

\* A shared_ptr to b exists; an entry for any other bucket has expired.
Live(b) == b = overflow \/ \E x \in Transfers : lease[x] = b

\* clients_.size() is at its bound.
Entries(t) == {i \in IPs : t[i] # None}
FullLate(t) == Cardinality(Entries(t)) > MaximumTracked
Full(t) == Cardinality(Entries(t)) >= MaximumTracked

\* attachmentsSinceCleanup_, reset by every cleanup
CountAttachment(cleaned) == IF cleaned THEN 0 ELSE attachments + 1

\* cleanupClients()
Cleaned(t) == [i \in IPs |-> IF t[i] # None /\ ~Live(t[i]) THEN None ELSE t[i]]

\* make_shared<Client>() and configureBucket(): full burst available from now on.
NewBucket == CHOOSE b \in Buckets : ~Live(b) /\ \A i \in IPs : tracked[i] # b
Configured(f, b, value) == [f EXCEPT ![b] = value]

\* The entry of i can be locked: its bucket is used by another transfer.
FindNothing(t, i) == FALSE
Shared(t, i) == t[i] # None /\ Live(t[i])

\* attach(), one critical section of clientsMutex_
Attach(x, i) ==
    LET due == attachments + 1 >= CleanupAfter
        first == IF due THEN Cleaned(tracked) ELSE tracked
        found == Shared(first, i)
        full == Full(first)
        second == IF ~found /\ full THEN Cleaned(first) ELSE first
        over == ~found /\ Full(second)
        b == IF found THEN first[i]
             ELSE IF over /\ overflow # None THEN overflow ELSE NewBucket
        new == ~found /\ ~(over /\ overflow # None)
    IN /\ pc[x] = "free"
       /\ pc' = [pc EXCEPT ![x] = "open"]
       /\ ip' = [ip EXCEPT ![x] = i]
       /\ IF ClientCost = 0
          THEN UNCHANGED <<lease, map, arrival, born, used>>
          ELSE /\ lease' = [lease EXCEPT ![x] = b]
               /\ tracked' = IF new /\ ~over THEN [second EXCEPT ![i] = b] ELSE second
               /\ overflow' = IF over THEN b ELSE overflow
               /\ attachments' = CountAttachment(due \/ (~found /\ full))
               /\ arrival' = IF new THEN Configured(arrival, b, now) ELSE arrival
               /\ born' = IF new THEN Configured(born, b, now) ELSE born
               /\ used' = IF new THEN Configured(used, b, 0) ELSE used
       /\ UNCHANGED <<now, game, call>>

\* The response is freed (fileReaderFree); the last lease destroys its bucket.
Detach(x) ==
    LET last == lease[x] \in Buckets /\ lease[x] # overflow
                /\ \A y \in Transfers \ {x} : lease[y] # lease[x]
    IN /\ pc[x] = "open"
       /\ pc' = [pc EXCEPT ![x] = "free"]
       /\ ip' = [ip EXCEPT ![x] = None]
       /\ lease' = [lease EXCEPT ![x] = None]
       /\ arrival' = IF last THEN Configured(arrival, lease[x], 0) ELSE arrival
       /\ born' = IF last THEN Configured(born, lease[x], 0) ELSE born
       /\ used' = IF last THEN Configured(used, lease[x], 0) ELSE used
       /\ UNCHANGED <<now, game, map, call>>

-----------------------------------------------------------------------------
(* acquire() *)

To(x, next) == pc' = [pc EXCEPT ![x] = next]

\* acquire() returns and its locals are gone.
Return(x) ==
    /\ To(x, "open")
    /\ on' = [on EXCEPT ![x] = None]
    /\ at' = [at EXCEPT ![x] = 0]
    /\ size' = [size EXCEPT ![x] = 0]
    /\ prev' = [prev EXCEPT ![x] = 0]
    /\ allowed' = [allowed EXCEPT ![x] = 0]

\* Entered when not stopping; the clock is read once for both buckets.
Acquire(x, desired) ==
    /\ pc[x] = "open"
    /\ ~stopping
    /\ now <= Horizon
    /\ To(x, "load")
    /\ on' = [on EXCEPT ![x] = IF GlobalCost # 0 THEN Global ELSE lease[x]]
    /\ at' = [at EXCEPT ![x] = now]
    /\ allowed' = [allowed EXCEPT ![x] = now]
    /\ size' = [size EXCEPT ![x] = Min({desired, Quantum})]
    /\ UNCHANGED <<now, game, arrival, map, ip, lease, prev, born, used>>

\* reserve(): the load before the loop
Load(x) ==
    /\ pc[x] = "load"
    /\ To(x, "cas")
    /\ prev' = [prev EXCEPT ![x] = arrival[on[x]]]
    /\ UNCHANGED <<now, game, arrival, map, ip, lease, on, at, size, allowed, born, used>>

\* reserve(): what one iteration allows and stores, from the loaded value
Earliest(x) == Max({0, prev[x] - Burst(on[x])})
AllowedAt(x) == Max({at[x], Earliest(x)})
NextArrival(x) == Max({prev[x], AllowedAt(x)}) + size[x] * Cost(on[x])

\* After the global bucket comes the lease's, if there is one.
AfterReserve(x, when) ==
    IF on[x] = Global /\ lease[x] # None
    THEN To(x, "load") /\ on' = [on EXCEPT ![x] = lease[x]]
    ELSE To(x, IF when > at[x] THEN "check" ELSE "final") /\ UNCHANGED on

StoreAlways(x) == TRUE
Unchanged(x) == arrival[on[x]] = prev[x]

\* compare_exchange_weak: a failure reloads (and may be spurious).
Cas(x) ==
    /\ pc[x] = "cas"
    /\ \/ /\ Unchanged(x)
          /\ arrival' = [arrival EXCEPT ![on[x]] = NextArrival(x)]
          /\ allowed' = [allowed EXCEPT ![x] = Max({@, AllowedAt(x)})]
          /\ AfterReserve(x, Max({allowed[x], AllowedAt(x)}))
          /\ prev' = [prev EXCEPT ![x] = 0]
       \/ /\ prev' = [prev EXCEPT ![x] = arrival[on[x]]]
          /\ UNCHANGED <<arrival, allowed, pc, on>>
    /\ UNCHANGED <<now, game, map, ip, lease, at, size, born, used>>

\* wait_until(): the predicate, with waitMutex_ held
CheckPredicate(x) ==
    /\ pc[x] = "check"
    /\ \/ stopping /\ Return(x)
       \/ ~stopping /\ To(x, "presleep") /\ UNCHANGED call
    /\ UNCHANGED <<now, game, arrival, map, ip, lease, born, used>>

\* ... then the mutex is released and the thread sleeps.
Sleep(x) ==
    /\ pc[x] = "presleep"
    /\ To(x, "asleep")
    /\ UNCHANGED <<now, game, arrival, map, ip, lease, call, born, used>>

\* The deadline of wait_until() has passed.
OnlyOnStop(x) == stopping
DeadlinePassed(x) == now >= allowed[x]

Timeout(x) ==
    /\ pc[x] = "asleep"
    /\ DeadlinePassed(x)
    /\ To(x, "final")
    /\ UNCHANGED <<now, game, arrival, map, ip, lease, call, born, used>>

\* The last test of stopping_: zero, or the granted units.
Final(x) ==
    /\ pc[x] = "final"
    /\ Return(x)
    /\ used' = [b \in All |->
         IF ~stopping /\ ((b = Global /\ GlobalCost # 0) \/ b = lease[x])
         THEN used[b] + size[x] ELSE used[b]]
    /\ UNCHANGED <<now, game, arrival, map, ip, lease, born>>

-----------------------------------------------------------------------------
(* The game thread: stop(), the join of the HTTP workers, configure(). *)

StopFlag ==
    /\ gpc = "running"
    /\ stopping' = TRUE
    /\ gpc' = "notify"
    /\ UNCHANGED <<now, arrival, map, pc, ip, lease, call, born, used>>

\* notify_all() reaches the threads that sleep at this moment.
StopNotify ==
    /\ gpc = "notify"
    /\ gpc' = "clear"
    /\ pc' = [x \in Transfers |-> IF pc[x] = "asleep" THEN "check" ELSE pc[x]]
    /\ UNCHANGED <<now, stopping, arrival, map, ip, lease, call, born, used>>

\* stop() drops the map and the common bucket; what no lease holds is destroyed.
ClearClients ==
    /\ tracked' = [i \in IPs |-> None]
    /\ overflow' = None
    /\ attachments' = 0
Unleased(f) ==
    [b \in All |-> IF b # Global /\ \A x \in Transfers : lease[x] # b THEN 0 ELSE f[b]]

StopClear ==
    /\ gpc = "clear"
    /\ gpc' = "join"
    /\ ClearClients
    /\ arrival' = Unleased(arrival)
    /\ born' = Unleased(born)
    /\ used' = Unleased(used)
    /\ UNCHANGED <<now, stopping, pc, ip, lease, call>>

\* MHD_stop_daemon() has returned; a restart configures the limiter, which
\* begins with a second stop(): workers may have attached after the first.
Configure ==
    /\ gpc = "join"
    /\ \A x \in Transfers : pc[x] = "free"
    /\ gpc' = "running"
    /\ stopping' = FALSE
    /\ ClearClients
    /\ arrival' = Configured(Unleased(arrival), Global, now)
    /\ born' = Configured(Unleased(born), Global, now)
    /\ used' = Configured(Unleased(used), Global, 0)
    /\ UNCHANGED <<now, pc, ip, lease, call>>

Tick ==
    /\ now < LastTick
    /\ now' = now + 1
    /\ UNCHANGED <<game, arrival, map, pc, ip, lease, call, born, used>>

-----------------------------------------------------------------------------

\* After the first configure() at tick 0.
Init ==
    /\ now = 0
    /\ stopping = FALSE /\ gpc = "running"
    /\ arrival = [b \in All |-> 0]
    /\ tracked = [i \in IPs |-> None] /\ overflow = None /\ attachments = 0
    /\ pc = [x \in Transfers |-> "free"]
    /\ ip = [x \in Transfers |-> None]
    /\ lease = [x \in Transfers |-> None]
    /\ on = [x \in Transfers |-> None]
    /\ at = [x \in Transfers |-> 0]
    /\ size = [x \in Transfers |-> 0]
    /\ prev = [x \in Transfers |-> 0]
    /\ allowed = [x \in Transfers |-> 0]
    /\ born = [b \in All |-> 0] /\ used = [b \in All |-> 0]

\* The steps a thread takes by itself once acquire() has been entered.
Proceed(x) ==
    Load(x) \/ Cas(x) \/ CheckPredicate(x) \/ Sleep(x) \/ Timeout(x) \/ Final(x)

Transfer(x) ==
    \/ \E i \in IPs : Attach(x, i)
    \/ Detach(x)
    \/ \E d \in Desired : Acquire(x, d)
    \/ Proceed(x)

Game == StopFlag \/ StopNotify \/ StopClear \/ Configure

Next == Tick \/ Game \/ \E x \in Transfers : Transfer(x)

Spec == Init /\ [][Next]_vars

\* Threads inside acquire() are scheduled and time passes.
FairSpec == Spec /\ WF_vars(Tick) /\ \A x \in Transfers : WF_vars(Proceed(x))

-----------------------------------------------------------------------------
(* Properties *)

\* What a bucket has granted since it was configured never exceeds its rate
\* by more than the burst and one quantum, whatever the interleaving of the
\* reservations.
RateBound ==
    \A b \in All :
      used[b] * Cost(b) <= (now - born[b]) + Burst(b) + Quantum * Cost(b)

\* Transfers of one address share one bucket for as long as they overlap; only
\* those that came while the map was full use the common overflow bucket.
LeasesShared ==
    ~stopping => \A x, y \in Transfers :
      ip[x] = ip[y] /\ overflow \notin {lease[x], lease[y]} => lease[x] = lease[y]

\* The map never outgrows its bound.
TrackedBound == Cardinality(Entries(tracked)) <= MaximumTracked

\* Every call of acquire() returns, also one that waits when the server stops.
AcquireReturns ==
    \A x \in Transfers : (pc[x] \notin {"free", "open"}) ~> (pc[x] \in {"free", "open"})

\* bandwidth_limiter.h: acquire() returns "zero when shutdown cancelled the
\* wait": once stop() has notified, no transfer is left sleeping.
ShutdownWakes ==
    gpc \in {"clear", "join"} => \A x \in Transfers : pc[x] # "asleep"
=============================================================================
