---------------------------- MODULE RateLimiter ----------------------------
(***************************************************************************)
(* The per-address request and denial limiter of src/src/rate_limiter.cpp, *)
(* driven the way FastdlServer::dispatch() drives it from the HTTP workers *)
(* while the game thread may unblock an address or, once the HTTP daemon   *)
(* is stopped, clear everything.  Every limiter call reads the clock first *)
(* and takes the mutex afterwards, so another worker may get in between.   *)
(* Time is counted in abstract ticks.                                      *)
(***************************************************************************)
EXTENDS Sequences, Sums

CONSTANTS
    IPs, Threads,
    NoIP,             \* an idle worker handles no request
    MaximumClients,   \* kMaximumClients
    MaximumEvents,    \* kMaximumEvents
    Window,           \* the minute both limits are about
    CleanupEvery,     \* ten minutes
    StaleAfter,       \* fifteen minutes
    RequestLimit,     \* fastdl_requests_per_minute
    DenialLimit,      \* fastdl_denials_per_minute
    BlockTime,        \* fastdl_block_seconds
    MaxTime           \* bound: the last tick that is explored

ASSUME LimiterConstants ==
    /\ IsFiniteSet(IPs) /\ NoIP \notin IPs
    /\ {MaximumClients, MaximumEvents} \subseteq Nat \ {0}
    /\ {RequestLimit, DenialLimit, BlockTime} \subseteq Nat \ {0}  \* readConfig()
    /\ {Window, CleanupEvery, StaleAfter} \subseteq Nat
    /\ MaxTime \in Nat \ {0}
    /\ Window <= StaleAfter

VARIABLES
    now,                                     \* steady_clock
    known,                                   \* the keys of clients_
    requests, denials, blockedUntil, lastSeen, \* the Client of every address
    nextCleanup, eventCount,
    pc, ip, at,                              \* HTTP worker: at # 0 is its Clock::now()
    admitted,          \* history: admissions per tick since the operator's last unblock
    latest, lag        \* history: the newest reading a call has used, and by how
                       \* much the reading of a later call was older at most

client == <<known, requests, denials, blockedUntil, lastSeen, nextCleanup, eventCount>>
thread == <<pc, ip, at>>
history == <<admitted, latest, lag>>
vars   == <<now, client, thread, history>>

Times == 0..MaxTime
NoStamps == [n \in Times |-> 0]
Calls == {"blocked", "exceeded", "denial"}

\* A call took the mutex after one with a newer clock reading.
overtaken == lag # 0

TypeOK ==
    /\ now \in Times \ {0}
    /\ known \subseteq IPs
    /\ requests \in [IPs -> Seq(Times)]
    /\ denials \in [IPs -> Seq(Times)]
    /\ blockedUntil \in [IPs -> Nat]
    /\ lastSeen \in [IPs -> Times]
    /\ nextCleanup \in Nat
    /\ eventCount \in Nat
    /\ pc \in [Threads -> Calls \cup {"idle", "admitted"}]
    /\ ip \in [Threads -> IPs \cup {NoIP}]
    /\ at \in [Threads -> Times]
    /\ admitted \in [IPs -> [Times -> Nat]]
    /\ latest \in Times /\ lag \in Times

-----------------------------------------------------------------------------
(* Helpers: the private functions of RateLimiter. *)

\* trim(): pops from the front while the front is at or before the cutoff.
TrimLate(s, cutoff) ==
    LET drop == {n \in 0..Len(s) : \A i \in 1..n : s[i] < cutoff}
    IN SubSeq(s, Max(drop) + 1, Len(s))
Trim(s, cutoff) ==
    LET drop == {n \in 0..Len(s) : \A i \in 1..n : s[i] <= cutoff}
    IN SubSeq(s, Max(drop) + 1, Len(s))

\* What cleanup() erases: not seen for StaleAfter and not blocked any more.
ExpiredUnseen(n) == {i \in known : lastSeen[i] < n - StaleAfter}
ExpiredNotBlocked(n) == {i \in known : blockedUntil[i] <= n}
Expired(n) == {i \in known : lastSeen[i] < n - StaleAfter /\ blockedUntil[i] <= n}

\* cleanup() runs when it is due, or forced by findOrCreate() on a full map.
Due(n) == n >= nextCleanup
Forced(i) == i \notin known /\ Cardinality(known) >= MaximumClients
Swept(n, force) == IF Due(n) \/ force THEN Expired(n) ELSE {}
Scheduled(n, force) == IF Due(n) \/ force THEN n + CleanupEvery ELSE nextCleanup

\* findOrCreate() succeeds: the address is known or there is room for it.
FitsOneMore(i, gone) == i \in known \ gone \/ Cardinality(known \ gone) <= MaximumClients
Fits(i, gone) == i \in known \ gone \/ Cardinality(known \ gone) < MaximumClients

\* The stored stamps of every client, and eventCount_ less those of the erased ones.
Stamps == [i \in IPs |-> Len(requests[i]) + Len(denials[i])]
CountLess(gone) == eventCount - SumOver(Stamps, gone)

\* f with the erased clients back at their default values.
Reset(f, gone, default) == [i \in IPs |-> IF i \in gone THEN default ELSE f[i]]

-----------------------------------------------------------------------------
(* The clock and the HTTP workers. *)

Tick ==
    /\ now < MaxTime
    /\ now' = now + 1
    /\ UNCHANGED <<client, thread, history>>

\* A request reaches dispatch(): a wrong method is denied before blocked().
\* What else is wrong with a request is chosen where dispatch() finds out.
Arrive(t, i) ==
    /\ pc[t] = "idle"
    /\ \E next \in {"denial", "blocked"} : pc' = [pc EXCEPT ![t] = next]
    /\ ip' = [ip EXCEPT ![t] = i]
    /\ UNCHANGED <<now, client, at, history>>

\* const auto now = Clock::now(), before the mutex is taken.
ReadClock(t) ==
    /\ pc[t] \in Calls
    /\ at[t] = 0
    /\ at' = [at EXCEPT ![t] = now]
    /\ UNCHANGED <<now, client, pc, ip, history>>

\* A limiter call returns and dispatch() goes on to `next`.
Return(t, next) ==
    /\ pc' = [pc EXCEPT ![t] = next]
    /\ at' = [at EXCEPT ![t] = 0]
    /\ ip' = [ip EXCEPT ![t] = IF next = "idle" THEN NoIP ELSE @]
    /\ latest' = Max({latest, at[t]})
    /\ lag' = IF at[t] = 0 THEN lag ELSE Max({lag, latest - at[t]})
    /\ admitted' = IF next = "admitted" THEN [admitted EXCEPT ![ip[t]][at[t]] = @ + 1]
                   ELSE admitted
    /\ UNCHANGED now

\* blocked(): answered without a strike; otherwise the user agent is tested.
Blocked(t) ==
    LET i == ip[t]
        n == at[t]
        gone == Swept(n, FALSE)
        isBlocked == i \in known \ gone /\ blockedUntil[i] > n
    IN /\ pc[t] = "blocked" /\ n # 0
       /\ known' = known \ gone
       /\ requests' = Reset(requests, gone, <<>>)
       /\ denials' = Reset(denials, gone, <<>>)
       /\ blockedUntil' = Reset(blockedUntil, gone, 0)
       /\ lastSeen' = Reset(lastSeen, gone, 0)
       /\ nextCleanup' = Scheduled(n, FALSE)
       /\ eventCount' = CountLess(gone)
       /\ \/ isBlocked /\ Return(t, "idle")
          \/ ~isBlocked /\ Return(t, "denial")
          \/ ~isBlocked /\ Return(t, "exceeded")

\* requestExceeded() on an address that is in the map or still fits into it;
\* a rejected request is not recorded.
RequestExceeded(t) ==
    LET i == ip[t]
        n == at[t]
        gone == Swept(n, Forced(i))
        base == Reset(requests, gone, <<>>)
        recent == Trim(base[i], n - Window)
        count == CountLess(gone) - (Len(base[i]) - Len(recent))
        rejected == Len(recent) >= RequestLimit \/ count >= MaximumEvents
    IN /\ pc[t] = "exceeded" /\ n # 0
       /\ Fits(i, gone)
       /\ known' = (known \ gone) \cup {i}
       /\ lastSeen' = [Reset(lastSeen, gone, 0) EXCEPT ![i] = n]
       /\ requests' = [base EXCEPT ![i] = IF rejected THEN recent ELSE Append(recent, n)]
       /\ denials' = Reset(denials, gone, <<>>)
       /\ blockedUntil' = Reset(blockedUntil, gone, 0)
       /\ nextCleanup' = Scheduled(n, Forced(i))
       /\ eventCount' = IF rejected THEN count ELSE count + 1
       /\ Return(t, IF rejected THEN "idle" ELSE "admitted")

\* The rest of dispatch() for an admitted request: a refused path is a strike,
\* anything else is answered.
Resolve(t) ==
    /\ pc[t] = "admitted"
    /\ \E next \in {"denial", "idle"} : Return(t, next)
    /\ UNCHANGED client

\* eventCount_ once a strike has cleared the denials of the client.
StrikeCount(count, recent) == count - Len(recent)

\* recordDenial(): a full event store blocks at once, otherwise the strike is
\* counted and the limit-th within the window blocks.
RecordDenial(t) ==
    LET i == ip[t]
        n == at[t]
        gone == Swept(n, Forced(i))
        base == Reset(denials, gone, <<>>)
        recent == Trim(base[i], n - Window)
        count == CountLess(gone) - (Len(base[i]) - Len(recent))
        full == count >= MaximumEvents
        strike == full \/ Len(recent) + 1 >= DenialLimit
    IN /\ pc[t] = "denial" /\ n # 0
       /\ Fits(i, gone)
       /\ known' = (known \ gone) \cup {i}
       /\ lastSeen' = [Reset(lastSeen, gone, 0) EXCEPT ![i] = n]
       /\ requests' = Reset(requests, gone, <<>>)
       /\ denials' = [base EXCEPT ![i] = IF strike THEN <<>> ELSE Append(recent, n)]
       /\ blockedUntil' = [Reset(blockedUntil, gone, 0) EXCEPT
                             ![i] = IF strike THEN n + BlockTime ELSE @]
       /\ nextCleanup' = Scheduled(n, Forced(i))
       /\ eventCount' = IF strike THEN StrikeCount(count, recent) ELSE count + 1
       /\ Return(t, "idle")

\* Either call with the map full of live clients: the request is rejected,
\* the denial is not recorded.
NotTracked(t) ==
    LET i == ip[t]
        n == at[t]
        gone == Swept(n, Forced(i))
    IN /\ pc[t] \in {"exceeded", "denial"} /\ n # 0
       /\ ~Fits(i, gone)
       /\ known' = known \ gone
       /\ requests' = Reset(requests, gone, <<>>)
       /\ denials' = Reset(denials, gone, <<>>)
       /\ blockedUntil' = Reset(blockedUntil, gone, 0)
       /\ lastSeen' = Reset(lastSeen, gone, 0)
       /\ nextCleanup' = Scheduled(n, Forced(i))
       /\ eventCount' = CountLess(gone)
       /\ Return(t, "idle")

-----------------------------------------------------------------------------
(* The game thread *)

\* unblock(): the whole client goes, with its request history.
UnblockKeepsCount(i) == eventCount
UnblockCount(i) == CountLess({i})

Unblock(i) ==
    /\ i \in known
    /\ known' = known \ {i}
    /\ requests' = Reset(requests, {i}, <<>>)
    /\ denials' = Reset(denials, {i}, <<>>)
    /\ blockedUntil' = Reset(blockedUntil, {i}, 0)
    /\ lastSeen' = Reset(lastSeen, {i}, 0)
    /\ eventCount' = UnblockCount(i)
    /\ admitted' = Reset(admitted, {i}, NoStamps)
    /\ UNCHANGED <<now, nextCleanup, thread, latest, lag>>

\* clear(), by FastdlServer::stop() after the HTTP workers have been joined.
Clear ==
    /\ \A t \in Threads : pc[t] = "idle"
    /\ known' = {}
    /\ requests' = [i \in IPs |-> <<>>]
    /\ denials' = [i \in IPs |-> <<>>]
    /\ blockedUntil' = [i \in IPs |-> 0]
    /\ lastSeen' = [i \in IPs |-> 0]
    /\ nextCleanup' = 0
    /\ eventCount' = 0
    /\ admitted' = [i \in IPs |-> NoStamps]
    /\ latest' = 0 /\ lag' = 0
    /\ UNCHANGED <<now, thread>>

-----------------------------------------------------------------------------

Init ==
    /\ now = 1
    /\ known = {}
    /\ requests = [i \in IPs |-> <<>>]
    /\ denials = [i \in IPs |-> <<>>]
    /\ blockedUntil = [i \in IPs |-> 0]
    /\ lastSeen = [i \in IPs |-> 0]
    /\ nextCleanup = 0
    /\ eventCount = 0
    /\ pc = [t \in Threads |-> "idle"]
    /\ ip = [t \in Threads |-> NoIP]
    /\ at = [t \in Threads |-> 0]
    /\ admitted = [i \in IPs |-> NoStamps]
    /\ latest = 0 /\ lag = 0

Http(t) ==
    \/ \E i \in IPs : Arrive(t, i)
    \/ ReadClock(t) \/ Blocked(t) \/ RequestExceeded(t) \/ Resolve(t)
    \/ RecordDenial(t) \/ NotTracked(t)

Next ==
    \/ Tick
    \/ \E t \in Threads : Http(t)
    \/ \E i \in IPs : Unblock(i)
    \/ Clear

Spec == Init /\ [][Next]_vars

-----------------------------------------------------------------------------
(* Properties *)

\* eventCount_, kept by hand in seven places, is the number of stored stamps:
\* one decrement too many would wrap the unsigned counter and reject everyone.
EventCountExact == eventCount = SumOver(Stamps, known)

\* Memory is bounded however many addresses come and whatever they send.
WithinCapacity ==
    /\ Cardinality(known) <= MaximumClients
    /\ eventCount <= MaximumEvents
    /\ \A i \in known : Len(requests[i]) <= RequestLimit

\* A block ends by time or by the operator only: neither housekeeping nor a
\* full map nor further requests of the address lift or shorten it, as long as
\* the calls take the mutex in the order of their clock readings.
BlockHolds ==
    [][\A i \in known :
         blockedUntil[i] > now /\ ~overtaken' =>
           \/ Unblock(i) \/ Clear
           \/ i \in known' /\ blockedUntil'[i] >= blockedUntil[i]]_vars

\* Admissions of i within the window that ends at tick n.
AdmittedWithin(i, n) ==
    SumOver(admitted[i], {m \in Times : n - Window < m /\ m <= n})

\* No address is admitted more than RequestLimit times within any window, also
\* across evictions of its client from the map, as long as no worker is
\* overtaken between its clock reading and the mutex.
WindowBound ==
    ~overtaken => \A i \in IPs, n \in Times : AdmittedWithin(i, n) <= RequestLimit

\* Admissions of i within the window that ends at tick n, give or take d ticks.
AdmittedAround(i, n, d) ==
    SumOver(admitted[i], {m \in Times : n - Window - d < m /\ m <= n + d})

\* "Rejected requests are not recorded": a request is only turned away when the
\* window is used up by admitted ones, or a capacity is exhausted.  Stamps that
\* overtaken workers stored behind newer ones, which trim() then keeps, count
\* no longer than those workers were late.
RejectionsJustified ==
    [][\A t \in Threads :
         pc[t] = "exceeded" /\ pc'[t] = "idle" =>
           \/ AdmittedAround(ip[t], at[t], lag') >= RequestLimit
           \/ eventCount' >= MaximumEvents
           \/ Cardinality(known') >= MaximumClients /\ ip[t] \notin known']_vars
=============================================================================
