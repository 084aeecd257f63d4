------------------------- MODULE RateLimiterProofs -------------------------
(***************************************************************************)
(* Proofs about RateLimiter for any number of addresses and HTTP workers   *)
(* and any limits, windows and capacities.                                 *)
(***************************************************************************)
EXTENDS RateLimiter, SumTheorems

-----------------------------------------------------------------------------
(* Sums and sequences *)

LEMMA Numbers ==
  /\ MaximumClients \in Nat /\ MaximumClients >= 1
  /\ MaximumEvents \in Nat /\ MaximumEvents >= 1
  /\ RequestLimit \in Nat /\ RequestLimit >= 1
  /\ DenialLimit \in Nat /\ DenialLimit >= 1 /\ BlockTime \in Nat /\ BlockTime >= 1
  /\ Window \in Nat /\ CleanupEvery \in Nat /\ StaleAfter \in Nat /\ MaxTime \in Nat
  /\ MaxTime >= 1
  /\ Window <= StaleAfter
  /\ IsFiniteSet(IPs) /\ NoIP \notin IPs
  BY LimiterConstants

LEMMA TimesFinite == IsFiniteSet(Times) /\ \A n \in Times : n \in Nat
  BY FS_Interval, Numbers DEF Times

LEMMA StampTypes ==
  ASSUME NEW s \in Seq(Times)
  PROVE  /\ Len(s) \in Nat /\ DOMAIN s = 1..Len(s)
         /\ \A p \in DOMAIN s : s[p] \in Times /\ s[p] \in Nat
<1>1. Len(s) \in Nat /\ DOMAIN s = 1..Len(s)
  OBVIOUS
<1>2. \A p \in DOMAIN s : s[p] \in Times
  OBVIOUS
<1> QED BY <1>1, <1>2, TimesFinite

LEMMA UpTo ==
  ASSUME NEW n \in Nat
  PROVE  IsFiniteSet(1..n) /\ Cardinality(1..n) = n
<1>1. IsFiniteSet(1..n) /\ Cardinality(1..n) = IF 1 > n THEN 0 ELSE n - 1 + 1
  BY FS_Interval
<1> QED BY <1>1

\* Elements that count nothing may be left out.
LEMMA SumSupport ==
  ASSUME NEW S, IsFiniteSet(S), NEW K \in SUBSET S, NEW f \in [S -> Nat],
         \A x \in S \ K : f[x] = 0
  PROVE  SumOver(f, K) = SumOver(f, S)
<1> DEFINE R == S \ K
<1>1. K \cap R = {} /\ K \cup R = S
  OBVIOUS
<1>2. IsFiniteSet(K) /\ IsFiniteSet(R)
  BY FS_Subset
<1>3. \A x \in K \cup R : f[x] \in Nat
  BY <1>1
<1>4. \A x \in R : f[x] = 0
  OBVIOUS
<1> HIDE DEF R
<1>5. SumOver(f, K \cup R) = SumOver(f, K) + SumOver(f, R)
  BY <1>1, <1>2, <1>3, SumUnion
<1>6. SumOver(f, R) = 0
  BY <1>2, <1>4, SumZero
<1>7. SumOver(f, K) \in Nat
  BY <1>2, <1>3, SumType
<1>8. SumOver(f, K \cup R) = SumOver(f, S)
  BY <1>1, Zenon
<1> QED BY <1>5, <1>6, <1>7, <1>8

\* What is left when some elements count nothing any more.
LEMMA SumReset ==
  ASSUME NEW S, IsFiniteSet(S), NEW G \in SUBSET S, NEW f \in [S -> Nat]
  PROVE  /\ SumOver(f, G) \in Nat /\ SumOver(f, S) \in Nat
         /\ SumOver([x \in S |-> IF x \in G THEN 0 ELSE f[x]], S)
              = SumOver(f, S) - SumOver(f, G)
<1> DEFINE R == S \ G
           g == [x \in S |-> IF x \in G THEN 0 ELSE f[x]]
<1>1. G \cap R = {} /\ G \cup R = S
  OBVIOUS
<1>2. IsFiniteSet(G) /\ IsFiniteSet(R)
  BY FS_Subset
<1>3. \A x \in S : f[x] \in Nat /\ g[x] \in Nat
  OBVIOUS
<1>4. (\A x \in G : g[x] = 0) /\ (\A x \in R : g[x] = f[x])
  OBVIOUS
<1> HIDE DEF R, g
<1>5. \A x \in G \cup R : f[x] \in Nat /\ g[x] \in Nat
  BY <1>1, <1>3
<1>6. /\ SumOver(f, G \cup R) = SumOver(f, G) + SumOver(f, R)
      /\ SumOver(g, G \cup R) = SumOver(g, G) + SumOver(g, R)
  BY <1>1, <1>2, <1>5, SumUnion
<1>7. SumOver(g, G) = 0
  BY <1>2, <1>4, SumZero
<1>8. SumOver(g, R) = SumOver(f, R)
  BY <1>2, <1>4, <1>5, SumSame
<1>9. SumOver(f, G) \in Nat /\ SumOver(f, R) \in Nat
  BY <1>2, <1>5, SumType
<1>10. SumOver(f, G \cup R) = SumOver(f, S) /\ SumOver(g, G \cup R) = SumOver(g, S)
  BY <1>1, Zenon
<1>11. SumOver(f, S) \in Nat /\ SumOver(g, S) = SumOver(f, S) - SumOver(f, G)
  BY <1>6, <1>7, <1>8, <1>9, <1>10
<1> QED BY <1>9, <1>11 DEF g

\* trim() drops a prefix of stamps that are at or before the cutoff and stops
\* at the first one that is not.
LEMMA TrimFacts ==
  ASSUME NEW s \in Seq(Times), NEW c \in Int
  PROVE  /\ Trim(s, c) \in Seq(Times)
         /\ \E d \in 0..Len(s) :
              /\ Len(Trim(s, c)) = Len(s) - d
              /\ \A p \in 1..(Len(s) - d) : Trim(s, c)[p] = s[p + d]
              /\ \A p \in 1..d : s[p] <= c
              /\ d < Len(s) => s[d + 1] > c
<1> DEFINE drop == {n \in 0..Len(s) : \A i \in 1..n : s[i] <= c}
           d == Max(drop)
<1>0. Len(s) \in Nat /\ \A p \in 1..Len(s) : s[p] \in Times /\ s[p] \in Int
  BY TimesFinite
<1>1. 0 \in drop /\ IsFiniteSet(drop) /\ \A x \in drop : x \in Int
  <2>1. IsFiniteSet(0..Len(s))
    BY <1>0, FS_Interval
  <2>2. IsFiniteSet(drop)
    BY <2>1, FS_Subset
  <2> QED BY <1>0, <2>2
<1>2. d \in drop /\ \A y \in drop : y <= d
  <2> HIDE DEF drop
  <2> QED BY <1>1, LargestExists
<1>3. d \in 0..Len(s) /\ d \in Nat /\ \A p \in 1..d : s[p] <= c
  BY <1>0, <1>2
<1>4. ASSUME d < Len(s) PROVE s[d + 1] > c
  <2> SUFFICES ASSUME ~(s[d + 1] > c) PROVE FALSE
    OBVIOUS
  <2>1. d + 1 \in 1..Len(s) /\ d + 1 \in 0..Len(s)
    BY <1>0, <1>3, <1>4
  <2>2. s[d + 1] <= c
    BY <1>0, <2>1
  <2>3. \A p \in 1..(d + 1) : s[p] <= c
    <3>1. \A p \in 1..(d + 1) : p \in 1..d \/ p = d + 1
      BY <1>3
    <3> QED BY <1>3, <2>2, <3>1
  <2>4. d + 1 \in drop
    BY <2>1, <2>3
  <2> QED BY <1>2, <1>3, <2>4
<1>5. Trim(s, c) = SubSeq(s, d + 1, Len(s))
  BY DEF Trim
<1> HIDE DEF drop, d
<1>6. /\ Trim(s, c) \in Seq(Times) /\ Len(Trim(s, c)) = Len(s) - d
      /\ \A p \in 1..(Len(s) - d) : Trim(s, c)[p] = s[p + d]
  BY <1>0, <1>3, <1>5
<1> QED BY <1>3, <1>4, <1>6

-----------------------------------------------------------------------------
(* The state *)

\* A worker inside a limiter call knows its address and has a reading that is
\* not from the future.
WorkerOK(t) ==
    /\ pc[t] # "idle" => ip[t] \in IPs
    /\ at[t] <= now
    /\ pc[t] \notin Calls => at[t] = 0

\* An address without a client stores nothing.
Unknown ==
    \A i \in IPs \ known :
      requests[i] = <<>> /\ denials[i] = <<>> /\ blockedUntil[i] = 0 /\ lastSeen[i] = 0

\* The window that ends at n, the admissions in it, and the stored stamps that
\* still count in it.
Span(n) == {m \in Times : n - Window < m /\ m <= n}
Admissions(adm, n) == SumOver(adm, Span(n))
Stored(req, n) == {p \in DOMAIN req : req[p] > n - Window}

\* As long as no call was overtaken, the stamps of a client are in order and
\* none is newer than lastSeen, and from the newest reading on they are exactly
\* the admissions of the window.
Ordered(req, seen, until, adm, last) ==
    /\ seen <= last /\ until <= last + BlockTime
    /\ \A p \in DOMAIN req : req[p] <= seen
    /\ \A p, q \in DOMAIN req : p <= q => req[p] <= req[q]
    /\ \A n \in Times : Admissions(adm, n) <= RequestLimit
    /\ \A n \in Times : n >= last => Admissions(adm, n) = Cardinality(Stored(req, n))

InOrder ==
    ~overtaken =>
      \A i \in IPs : Ordered(requests[i], lastSeen[i], blockedUntil[i], admitted[i], latest)

Capacity == Unknown /\ EventCountExact /\ WithinCapacity

LimiterInv == TypeOK /\ (\A t \in Threads : WorkerOK(t)) /\ Capacity /\ InOrder

-----------------------------------------------------------------------------
(* What the calls do to a client, in the order in which they do it. *)

LEMMA SpanFacts ==
  ASSUME NEW adm \in [Times -> Nat], NEW n \in Times
  PROVE  /\ IsFiniteSet(Span(n)) /\ Span(n) \subseteq Times
         /\ Admissions(adm, n) \in Nat
<1>1. Span(n) \subseteq Times
  BY DEF Span
<1>2. IsFiniteSet(Span(n))
  BY <1>1, TimesFinite, FS_Subset
<1>3. \A m \in Span(n) : adm[m] \in Nat
  BY <1>1
<1>4. SumOver(adm, Span(n)) \in Nat
  BY <1>2, <1>3, SumType
<1> QED BY <1>1, <1>2, <1>4 DEF Admissions

LEMMA StoredFacts ==
  ASSUME NEW req \in Seq(Times), NEW n \in Times
  PROVE  /\ IsFiniteSet(Stored(req, n)) /\ Cardinality(Stored(req, n)) \in Nat
         /\ Cardinality(Stored(req, n)) <= Len(req)
<1>1. IsFiniteSet(1..Len(req)) /\ Cardinality(1..Len(req)) = Len(req)
  BY StampTypes, UpTo
<1>2. Stored(req, n) \subseteq 1..Len(req)
  BY DEF Stored
<1>3. IsFiniteSet(Stored(req, n)) /\ Cardinality(Stored(req, n)) <= Cardinality(1..Len(req))
  BY <1>1, <1>2, FS_Subset
<1> QED BY <1>1, <1>3, FS_CardinalityType

\* Time passes.
LEMMA OrderedLater ==
  ASSUME NEW req \in Seq(Times), NEW seen \in Times, NEW until \in Nat,
         NEW adm, NEW last \in Times, NEW n \in Times,
         Ordered(req, seen, until, adm, last), last <= n
  PROVE  Ordered(req, seen, until, adm, n)
<1>1. last \in Nat /\ n \in Nat /\ seen \in Nat /\ BlockTime \in Nat /\ \A k \in Times : k \in Nat
  BY TimesFinite, Numbers
<1>2. seen <= n /\ until <= n + BlockTime
  BY <1>1 DEF Ordered
<1>3. \A k \in Times : k >= n => k >= last
  BY <1>1
<1> QED BY <1>2, <1>3 DEF Ordered

\* cleanup() erases the client: none of its stamps counted any more.
LEMMA OrderedSwept ==
  ASSUME NEW req \in Seq(Times), NEW seen \in Times, NEW until \in Nat, NEW adm,
         NEW n \in Times, Ordered(req, seen, until, adm, n), seen < n - StaleAfter
  PROVE  Ordered(<<>>, 0, 0, adm, n)
<1>1. n \in Nat /\ seen \in Nat /\ \A k \in Times : k \in Nat
  BY TimesFinite
<1>2. ASSUME NEW k \in Times, k >= n
      PROVE  Admissions(adm, k) = Cardinality(Stored(<<>>, k))
  <2>1. \A p \in DOMAIN req : req[p] \in Nat /\ req[p] <= seen
    BY StampTypes DEF Ordered
  <2>2. Stored(req, k) = {}
    BY <1>1, <1>2, <2>1, Numbers DEF Stored
  <2>3. Stored(<<>>, k) = {}
    BY DEF Stored
  <2>4. Admissions(adm, k) = Cardinality(Stored(req, k))
    BY <1>2 DEF Ordered
  <2> QED BY <2>2, <2>3, <2>4
<1>3. DOMAIN <<>> = {}
  OBVIOUS
<1> QED BY <1>1, <1>2, <1>3, Numbers DEF Ordered

\* recordDenial(): lastSeen and perhaps the end of the block change.
LEMMA OrderedSeen ==
  ASSUME NEW req \in Seq(Times), NEW seen \in Times, NEW until, NEW adm,
         NEW n \in Times, Ordered(req, seen, until, adm, n),
         NEW later \in Nat, later <= n + BlockTime
  PROVE  Ordered(req, n, later, adm, n)
<1>1. n \in Nat /\ seen \in Nat /\ \A p \in DOMAIN req : req[p] \in Nat
  BY TimesFinite
<1>2. \A p \in DOMAIN req : req[p] <= n
  BY <1>1 DEF Ordered
<1> QED BY <1>1, <1>2 DEF Ordered

\* requestExceeded(): trim() drops what does not count any more.
LEMMA OrderedTrim ==
  ASSUME NEW req \in Seq(Times), NEW seen \in Times, NEW until \in Nat, NEW adm,
         NEW n \in Times, Ordered(req, seen, until, adm, n)
  PROVE  /\ Trim(req, n - Window) \in Seq(Times)
         /\ Ordered(Trim(req, n - Window), n, until, adm, n)
         /\ Admissions(adm, n) = Len(Trim(req, n - Window))
<1> DEFINE r == Trim(req, n - Window)
<1>0. n \in Nat /\ seen \in Nat /\ n - Window \in Int /\ \A k \in Times : k \in Nat
  BY TimesFinite, Numbers
<1>1. r \in Seq(Times)
  BY <1>0, TrimFacts
<1>2. PICK d \in 0..Len(req) :
        /\ Len(r) = Len(req) - d
        /\ \A p \in 1..(Len(req) - d) : r[p] = req[p + d]
        /\ \A p \in 1..d : req[p] <= n - Window
        /\ d < Len(req) => req[d + 1] > n - Window
  BY <1>0, TrimFacts
<1> HIDE DEF r
<1>3. /\ Len(req) \in Nat /\ d \in Nat /\ Len(r) \in Nat
      /\ DOMAIN req = 1..Len(req) /\ DOMAIN r = 1..Len(r)
      /\ \A p \in DOMAIN r : p + d \in DOMAIN req /\ r[p] = req[p + d]
      /\ \A p \in DOMAIN req : req[p] \in Nat
  <2>1. /\ Len(req) \in Nat /\ d \in Nat /\ Len(r) \in Nat
        /\ DOMAIN req = 1..Len(req) /\ DOMAIN r = 1..Len(r)
        /\ \A p \in DOMAIN req : req[p] \in Nat
    BY <1>1, StampTypes
  <2>2. \A p \in DOMAIN r : p + d \in DOMAIN req /\ r[p] = req[p + d]
    BY <1>2, <2>1
  <2> QED BY <2>1, <2>2
<1>4. \A p \in DOMAIN r : r[p] <= n
  BY <1>0, <1>3 DEF Ordered
<1>5. ASSUME NEW p \in DOMAIN r, NEW q \in DOMAIN r, p <= q PROVE r[p] <= r[q]
  <2>1. p + d \in DOMAIN req /\ q + d \in DOMAIN req /\ p + d <= q + d
    BY <1>3, <1>5
  <2> QED BY <1>3, <2>1 DEF Ordered
<1>6. ASSUME NEW k \in Times, k >= n
      PROVE  Cardinality(Stored(r, k)) = Cardinality(Stored(req, k))
  <2> DEFINE S == Stored(r, k)
             T == Stored(req, k)
             f == [p \in S |-> p + d]
  <2>1. \A p \in S : p + d \in T
    BY <1>3 DEF Stored
  <2>2. ASSUME NEW q \in T PROVE \E p \in S : p + d = q
    <3>1. q \in 1..Len(req) /\ req[q] > k - Window /\ req[q] \in Nat
      BY <1>3 DEF Stored
    <3>2. q \notin 1..d
      BY <1>0, <1>2, <1>6, <3>1, Numbers
    <3>3. q - d \in DOMAIN r /\ (q - d) + d = q
      BY <1>2, <1>3, <3>1, <3>2
    <3>4. r[q - d] = req[q]
      BY <1>3, <3>3
    <3> QED BY <3>1, <3>3, <3>4 DEF Stored
  <2>3. \A p, q \in S : p + d = q + d => p = q
    BY <1>3 DEF Stored
  <2>4. f \in Bijection(S, T)
    <3>1. f \in [S -> T]
      BY <2>1
    <3>2. f \in Injection(S, T)
      BY <2>3, <3>1 DEF Injection, IsInjective
    <3>3. f \in Surjection(S, T)
      BY <2>2, <3>1 DEF Surjection
    <3> QED BY <3>2, <3>3 DEF Bijection
  <2>5. IsFiniteSet(S)
    BY <1>1, StoredFacts
  <2> HIDE DEF S, T, f
  <2>6. Cardinality(T) = Cardinality(S)
    BY <2>4, <2>5, FS_Bijection DEF ExistsBijection
  <2> QED BY <2>6 DEF S, T
<1>7. Ordered(r, n, until, adm, n)
  <2>1. \A k \in Times : k >= n => Admissions(adm, k) = Cardinality(Stored(r, k))
    BY <1>6 DEF Ordered
  <2>2. n <= n
    BY <1>0
  <2> QED BY <1>4, <1>5, <2>1, <2>2 DEF Ordered
<1>8. Admissions(adm, n) = Len(r)
  <2>1. \A p \in DOMAIN r : r[p] > n - Window
    <3> SUFFICES ASSUME NEW p \in DOMAIN r PROVE r[p] > n - Window
      OBVIOUS
    <3>1. 1 \in DOMAIN r /\ 1 <= p /\ d < Len(req) /\ r[1] = req[1 + d]
      BY <1>2, <1>3
    <3>2. r[1] > n - Window
      BY <1>2, <1>3, <3>1
    <3>3. r[1] <= r[p] /\ r[1] \in Nat /\ r[p] \in Nat
      BY <1>3, <1>5, <3>1
    <3> QED BY <1>0, <3>2, <3>3
  <2>2. Stored(r, n) = 1..Len(r)
    BY <1>3, <2>1 DEF Stored
  <2>3. Cardinality(1..Len(r)) = Len(r)
    BY <1>3, UpTo
  <2>4. Cardinality(Stored(r, n)) = Len(r)
    BY <1>3, <2>2, <2>3
  <2>5. Admissions(adm, n) = Cardinality(Stored(r, n))
    BY <1>0, <1>7 DEF Ordered
  <2> QED BY <2>4, <2>5
<1> QED BY <1>1, <1>7, <1>8 DEF r

\* ... and the request is recorded.
LEMMA OrderedAdmit ==
  ASSUME NEW req \in Seq(Times), NEW until, NEW adm \in [Times -> Nat],
         NEW n \in Times, Ordered(req, n, until, adm, n), Len(req) < RequestLimit
  PROVE  Ordered(Append(req, n), n, until, [adm EXCEPT ![n] = @ + 1], n)
<1> DEFINE r == Append(req, n)
           more == [adm EXCEPT ![n] = @ + 1]
           l == Len(req)
<1>0. n \in Nat /\ n <= n /\ l \in Nat /\ \A k \in Times : k \in Nat
  BY TimesFinite
<1>1. /\ r \in Seq(Times) /\ Len(r) = l + 1 /\ DOMAIN r = 1..(l + 1) /\ DOMAIN req = 1..l
      /\ \A p \in 1..l : r[p] = req[p] /\ req[p] \in Nat
      /\ r[l + 1] = n
  <2>1. /\ r \in Seq(Times) /\ Len(r) = l + 1 /\ r[l + 1] = n
        /\ \A p \in 1..l : r[p] = req[p]
    BY <1>0
  <2>2. DOMAIN r = 1..(l + 1)
    BY <2>1
  <2> QED BY <2>1, <2>2, StampTypes
<1>2. \A p \in DOMAIN r : p \in 1..l \/ p = l + 1
  BY <1>0, <1>1
<1>3. more \in [Times -> Nat] /\ more[n] = adm[n] + 1 /\ \A m \in Times \ {n} : more[m] = adm[m]
  <2>1. adm[n] + 1 \in Nat
    OBVIOUS
  <2> QED BY <2>1
<1> HIDE DEF r, more, l
<1>4. \A p \in DOMAIN r : r[p] <= n
  BY <1>0, <1>1, <1>2 DEF Ordered
<1>5. \A p, q \in DOMAIN r : p <= q => r[p] <= r[q]
  BY <1>0, <1>1, <1>2, <1>4 DEF Ordered
<1>6. ASSUME NEW k \in Times, n \notin Span(k)
      PROVE  Admissions(more, k) = Admissions(adm, k)
  <2>1. IsFiniteSet(Span(k)) /\ Span(k) \subseteq Times
    BY SpanFacts
  <2>2. \A m \in Span(k) : adm[m] \in Nat /\ more[m] = adm[m]
    BY <1>3, <1>6, <2>1
  <2>3. SumOver(more, Span(k)) = SumOver(adm, Span(k))
    BY <2>1, <2>2, SumSame
  <2> QED BY <2>3 DEF Admissions
<1>7. ASSUME NEW k \in Times, n \in Span(k)
      PROVE  Admissions(more, k) = Admissions(adm, k) + 1
  <2> DEFINE S == Span(k)
  <2>1. IsFiniteSet(S) /\ S \subseteq Times /\ n \in S
    BY <1>7, SpanFacts
  <2> HIDE DEF S
  <2>2. \A m \in S : adm[m] \in Nat
    BY <2>1
  <2>3. adm[n] \in Nat /\ adm[n] + 1 \in Nat
    OBVIOUS
  <2>4. /\ SumOver(adm, S) \in Nat
        /\ SumOver([adm EXCEPT ![n] = adm[n] + 1], S) = SumOver(adm, S) + (adm[n] + 1) - adm[n]
    <3>1. S \in SUBSET Times /\ IsFiniteSet(S) /\ n \in S
      BY <2>1
    <3> QED BY <2>3, <3>1, SumExceptIn, Zenon
  <2>5. more = [adm EXCEPT ![n] = adm[n] + 1]
    BY DEF more
  <2>6. SumOver(more, S) = SumOver(adm, S) + 1
    BY <2>3, <2>4, <2>5
  <2> QED BY <2>6 DEF S, Admissions
<1>8. ASSUME NEW k \in Times, k >= n
      PROVE  Admissions(more, k) = Cardinality(Stored(r, k))
  <2>1. Admissions(adm, k) = Cardinality(Stored(req, k))
    BY <1>8 DEF Ordered
  <2>2. IsFiniteSet(Stored(req, k)) /\ Cardinality(Stored(req, k)) \in Nat
    BY StoredFacts
  <2>3. CASE n > k - Window
    <3>1. n \in Span(k)
      BY <1>0, <1>8, <2>3, Numbers DEF Span
    <3>2. Stored(r, k) = Stored(req, k) \cup {l + 1} /\ l + 1 \notin Stored(req, k)
      BY <1>0, <1>1, <1>2, <2>3 DEF Stored
    <3>3. Cardinality(Stored(req, k) \cup {l + 1}) = Cardinality(Stored(req, k)) + 1
      BY <2>2, <3>2, FS_AddElement
    <3> QED BY <1>7, <2>1, <3>1, <3>2, <3>3
  <2>4. CASE ~(n > k - Window)
    <3>1. n \notin Span(k)
      BY <1>0, <2>4, Numbers DEF Span
    <3>2. Stored(r, k) = Stored(req, k)
      BY <1>0, <1>1, <1>2, <2>4 DEF Stored
    <3> QED BY <1>6, <2>1, <3>1, <3>2
  <2> QED BY <2>3, <2>4
<1>9. ASSUME NEW k \in Times PROVE Admissions(more, k) <= RequestLimit
  <2>1. CASE k >= n
    <3>1. Cardinality(Stored(r, k)) <= Len(r) /\ Cardinality(Stored(r, k)) \in Nat
      BY <1>1, StoredFacts
    <3>2. Len(r) <= RequestLimit
      BY <1>0, <1>1, Numbers DEF l
    <3> QED BY <1>0, <1>1, <1>8, <2>1, <3>1, <3>2, Numbers
  <2>2. CASE ~(k >= n)
    <3>1. n \notin Span(k)
      BY <1>0, <2>2 DEF Span
    <3> QED BY <1>6, <3>1 DEF Ordered
  <2> QED BY <2>1, <2>2
<1>10. Ordered(r, n, until, more, n)
  BY <1>0, <1>4, <1>5, <1>8, <1>9 DEF Ordered
<1> QED BY <1>10 DEF r, more

-----------------------------------------------------------------------------
(* The two ways in which a step changes the clients *)

\* Clients are erased ...
SweepStep(gone) ==
    /\ known' = known \ gone
    /\ requests' = Reset(requests, gone, <<>>)
    /\ denials' = Reset(denials, gone, <<>>)
    /\ blockedUntil' = Reset(blockedUntil, gone, 0)
    /\ lastSeen' = Reset(lastSeen, gone, 0)
    /\ eventCount' = CountLess(gone)

\* ... and one client is written, which there is room for.
UpdateStep(i, gone, req, den, until, seen) ==
    /\ Fits(i, gone)
    /\ known' = (known \ gone) \cup {i}
    /\ requests' = [Reset(requests, gone, <<>>) EXCEPT ![i] = req]
    /\ denials' = [Reset(denials, gone, <<>>) EXCEPT ![i] = den]
    /\ blockedUntil' = [Reset(blockedUntil, gone, 0) EXCEPT ![i] = until]
    /\ lastSeen' = [Reset(lastSeen, gone, 0) EXCEPT ![i] = seen]
    /\ eventCount' = CountLess(gone)
                       - (Len(Reset(requests, gone, <<>>)[i]) + Len(Reset(denials, gone, <<>>)[i]))
                       + (Len(req) + Len(den))

LEMMA ResetType ==
  ASSUME NEW T, NEW f \in [IPs -> T], NEW gone, NEW default \in T
  PROVE  Reset(f, gone, default) \in [IPs -> T]
  BY DEF Reset

LEMMA EmptyStamps == <<>> \in Seq(Times) /\ Len(<<>>) = 0
  OBVIOUS

LEMMA StampsTyped ==
  ASSUME TypeOK
  PROVE  Stamps \in [IPs -> Nat]
<1>1. ASSUME NEW i \in IPs PROVE Len(requests[i]) + Len(denials[i]) \in Nat
  <2>1. requests[i] \in Seq(Times) /\ denials[i] \in Seq(Times)
    BY DEF TypeOK
  <2> DEFINE a == Len(requests[i])
             b == Len(denials[i])
  <2>2. a \in Nat /\ b \in Nat
    BY <2>1, StampTypes
  <2> HIDE DEF a, b
  <2>3. a + b \in Nat
    BY <2>2
  <2> QED BY <2>3 DEF a, b
<1> QED BY <1>1 DEF Stamps

\* eventCount_ is the sum over all addresses as well, and CountLess(gone) over
\* those that are left.
LEMMA CountLessIs ==
  ASSUME TypeOK, Unknown, EventCountExact, NEW gone \in SUBSET known
  PROVE  /\ CountLess(gone) = SumOver([i \in IPs |-> IF i \in gone THEN 0 ELSE Stamps[i]], IPs)
         /\ CountLess(gone) \in Nat /\ CountLess(gone) <= eventCount
<1> DEFINE F == [i \in IPs |-> IF i \in gone THEN 0 ELSE Stamps[i]]
<1>1. Stamps \in [IPs -> Nat] /\ known \in SUBSET IPs /\ gone \in SUBSET IPs /\ IsFiniteSet(IPs)
  BY StampsTyped, Numbers DEF TypeOK
<1>2. ASSUME NEW i \in IPs \ known PROVE Stamps[i] = 0
  <2>1. Stamps[i] = Len(requests[i]) + Len(denials[i])
    BY DEF Stamps
  <2>2. Len(requests[i]) = 0 /\ Len(denials[i]) = 0
    BY EmptyStamps DEF Unknown
  <2> QED BY <2>1, <2>2
<1>3. SumOver(Stamps, known) = SumOver(Stamps, IPs)
  BY <1>1, <1>2, SumSupport
<1>4. /\ SumOver(Stamps, gone) \in Nat /\ SumOver(Stamps, IPs) \in Nat
      /\ SumOver(F, IPs) = SumOver(Stamps, IPs) - SumOver(Stamps, gone)
  BY <1>1, SumReset
<1>5. F \in [IPs -> Nat]
  BY <1>1
<1> HIDE DEF F
<1>6. SumOver(F, IPs) \in Nat
  BY <1>1, <1>5, SumType
<1>7. CountLess(gone) = SumOver(F, IPs) /\ CountLess(gone) <= eventCount
  BY <1>3, <1>4, <1>6 DEF CountLess, EventCountExact
<1> QED BY <1>6, <1>7 DEF F

LEMMA KnownFinite ==
  ASSUME TypeOK
  PROVE  IsFiniteSet(known) /\ Cardinality(known) \in Nat
<1>1. known \subseteq IPs
  BY DEF TypeOK
<1>2. IsFiniteSet(known)
  BY <1>1, Numbers, FS_Subset
<1> QED BY <1>2, FS_CardinalityType

\* What of the types a sweep, and an update, leave right
ClientTypes ==
    /\ known \subseteq IPs
    /\ requests \in [IPs -> Seq(Times)]
    /\ denials \in [IPs -> Seq(Times)]
    /\ blockedUntil \in [IPs -> Nat]
    /\ lastSeen \in [IPs -> Times]
    /\ eventCount \in Nat

LEMMA SweepCapacity ==
  ASSUME TypeOK, Capacity, NEW gone \in SUBSET known, SweepStep(gone)
  PROVE  ClientTypes' /\ Capacity'
<1> DEFINE F == [i \in IPs |-> IF i \in gone THEN 0 ELSE Stamps[i]]
<1>0. Unknown /\ EventCountExact /\ WithinCapacity
  BY DEF Capacity
<1>1. /\ CountLess(gone) = SumOver(F, IPs)
      /\ CountLess(gone) \in Nat /\ CountLess(gone) <= eventCount
  BY <1>0, CountLessIs
<1>2. ClientTypes'
  <2>1. 0 \in Nat /\ 0 \in Times /\ <<>> \in Seq(Times)
    BY Numbers, EmptyStamps DEF Times
  <2>2. /\ requests' \in [IPs -> Seq(Times)] /\ denials' \in [IPs -> Seq(Times)]
        /\ blockedUntil' \in [IPs -> Nat] /\ lastSeen' \in [IPs -> Times]
    BY <2>1, ResetType DEF SweepStep, TypeOK
  <2> QED BY <1>1, <2>2 DEF ClientTypes, SweepStep, TypeOK
<1>3. Unknown'
  BY <1>0 DEF Unknown, SweepStep, Reset
<1>4. Stamps' = F /\ Stamps' \in [IPs -> Nat]
  <2>1. ASSUME NEW i \in IPs PROVE Len(requests'[i]) + Len(denials'[i]) = F[i]
    <3>1. CASE i \in gone
      <4>1. Len(requests'[i]) = 0 /\ Len(denials'[i]) = 0
        BY <3>1, EmptyStamps DEF SweepStep, Reset
      <4> QED BY <3>1, <4>1
    <3>2. CASE i \notin gone
      BY <3>2 DEF SweepStep, Reset, Stamps
    <3> QED BY <3>1, <3>2
  <2>2. Stamps' = [i \in IPs |-> Len(requests'[i]) + Len(denials'[i])]
    BY DEF Stamps
  <2>3. F \in [IPs -> Nat]
    BY StampsTyped
  <2>4. F = [i \in IPs |-> F[i]]
    OBVIOUS
  <2> HIDE DEF F
  <2>5. Stamps' = F
    BY <2>1, <2>2, <2>4
  <2> QED BY <2>3, <2>5
<1>5. EventCountExact'
  <2>1. ASSUME NEW i \in IPs \ known' PROVE Stamps'[i] = 0
    <3>1. Stamps'[i] = Len(requests'[i]) + Len(denials'[i])
      BY DEF Stamps
    <3>2. Len(requests'[i]) = 0 /\ Len(denials'[i]) = 0
      BY <1>3, EmptyStamps DEF Unknown
    <3> QED BY <3>1, <3>2
  <2>2. known' \in SUBSET IPs /\ IsFiniteSet(IPs)
    BY <1>2, Numbers DEF ClientTypes
  <2>3. SumOver(Stamps', known') = SumOver(Stamps', IPs)
    BY <1>4, <2>1, <2>2, SumSupport
  <2> QED BY <1>1, <1>4, <2>3 DEF EventCountExact, SweepStep
<1>6. WithinCapacity'
  <2>1. known' \subseteq known /\ IsFiniteSet(known)
    BY KnownFinite DEF SweepStep
  <2>2. Cardinality(known') <= Cardinality(known) /\ Cardinality(known') \in Nat
    BY <2>1, FS_Subset, FS_CardinalityType
  <2>3. Cardinality(known') <= MaximumClients
    BY <1>0, <2>2, KnownFinite, Numbers DEF WithinCapacity
  <2>4. eventCount' <= MaximumEvents
    BY <1>0, <1>1, Numbers DEF WithinCapacity, SweepStep, TypeOK
  <2>5. \A i \in known' : Len(requests'[i]) <= RequestLimit
    BY <1>0 DEF WithinCapacity, SweepStep, Reset, TypeOK
  <2> QED BY <2>3, <2>4, <2>5 DEF WithinCapacity
<1> QED BY <1>2, <1>3, <1>5, <1>6 DEF Capacity

LEMMA UpdateCapacity ==
  ASSUME TypeOK, Capacity, NEW gone \in SUBSET known, NEW i \in IPs,
         NEW req \in Seq(Times), NEW den \in Seq(Times), NEW until \in Nat, NEW seen \in Times,
         UpdateStep(i, gone, req, den, until, seen),
         Len(req) <= RequestLimit, eventCount' <= MaximumEvents
  PROVE  ClientTypes' /\ Capacity'
<1> DEFINE F == [j \in IPs |-> IF j \in gone THEN 0 ELSE Stamps[j]]
           R == Reset(requests, gone, <<>>)
           D == Reset(denials, gone, <<>>)
           m == Len(req) + Len(den)
<1>0. Unknown /\ EventCountExact /\ WithinCapacity
  BY DEF Capacity
<1>1. CountLess(gone) = SumOver(F, IPs) /\ CountLess(gone) \in Nat
  BY <1>0, CountLessIs
<1>2. R \in [IPs -> Seq(Times)] /\ D \in [IPs -> Seq(Times)]
  BY EmptyStamps, ResetType DEF TypeOK
<1>3. F \in [IPs -> Nat] /\ \A j \in IPs : F[j] = Len(R[j]) + Len(D[j])
  <2>1. F \in [IPs -> Nat]
    BY StampsTyped
  <2>2. ASSUME NEW j \in IPs PROVE F[j] = Len(R[j]) + Len(D[j])
    <3>1. CASE j \in gone
      <4>1. Len(R[j]) = 0 /\ Len(D[j]) = 0 /\ F[j] = 0
        BY <3>1, EmptyStamps DEF Reset
      <4> HIDE DEF R, D, F
      <4> QED BY <4>1
    <3>2. CASE j \notin gone
      BY <3>2 DEF Reset, Stamps
    <3> QED BY <3>1, <3>2
  <2> QED BY <2>1, <2>2
<1>4. m \in Nat
  BY StampTypes
<1>5. eventCount' = CountLess(gone) - F[i] + m
  BY <1>3 DEF UpdateStep
<1>6. /\ requests' = [R EXCEPT ![i] = req] /\ denials' = [D EXCEPT ![i] = den]
      /\ requests' \in [IPs -> Seq(Times)] /\ denials' \in [IPs -> Seq(Times)]
  <2>1. requests' = [R EXCEPT ![i] = req] /\ denials' = [D EXCEPT ![i] = den]
    BY DEF UpdateStep
  <2> HIDE DEF R, D
  <2> QED BY <1>2, <2>1
<1>7. Stamps' = [F EXCEPT ![i] = m]
  <2> HIDE DEF R, D, F
  <2>1. \A j \in IPs : Len(requests'[j]) + Len(denials'[j]) = [F EXCEPT ![i] = m][j]
    BY <1>2, <1>3, <1>6
  <2>2. Stamps' = [j \in IPs |-> Len(requests'[j]) + Len(denials'[j])]
    BY DEF Stamps
  <2> HIDE DEF m
  <2> QED BY <1>3, <2>1, <2>2
<1>8. /\ SumOver(F, IPs) \in Nat /\ F[i] \in Nat
      /\ SumOver([F EXCEPT ![i] = m], IPs) = SumOver(F, IPs) + m - F[i]
  <2> HIDE DEF F, m
  <2>1. IsFiniteSet(IPs)
    BY Numbers
  <2> QED BY <1>3, <1>4, <2>1, SumExcept, Zenon
<1> HIDE DEF F, m, R, D
<1>9. SumOver(Stamps', IPs) = SumOver(F, IPs) + m - F[i]
  BY <1>7, <1>8, Zenon
<1>10. Stamps' \in [IPs -> Nat]
  BY <1>3, <1>4, <1>7
<1>11. eventCount' = SumOver(Stamps', IPs) /\ eventCount' \in Nat
  <2>1. SumOver(Stamps', IPs) \in Nat
    <3> DEFINE g == Stamps'
    <3>1. IsFiniteSet(IPs) /\ \A j \in IPs : g[j] \in Nat
      BY <1>10, Numbers
    <3> HIDE DEF g
    <3>2. SumOver(g, IPs) \in Nat
      BY <3>1, SumType
    <3> QED BY <3>2 DEF g
  <2> QED BY <1>1, <1>4, <1>5, <1>8, <1>9, <2>1
<1>12. ClientTypes'
  <2>1. 0 \in Nat /\ 0 \in Times
    BY Numbers DEF Times
  <2>2. Reset(blockedUntil, gone, 0) \in [IPs -> Nat] /\ Reset(lastSeen, gone, 0) \in [IPs -> Times]
    BY <2>1, ResetType DEF TypeOK
  <2>3. blockedUntil' \in [IPs -> Nat] /\ lastSeen' \in [IPs -> Times]
    BY <2>2 DEF UpdateStep
  <2>4. known' \subseteq IPs
    BY DEF UpdateStep, TypeOK
  <2> QED BY <1>6, <1>11, <2>3, <2>4 DEF ClientTypes
<1>13. Unknown'
  <2> SUFFICES ASSUME NEW j \in IPs \ known'
               PROVE  /\ requests'[j] = <<>> /\ denials'[j] = <<>>
                      /\ blockedUntil'[j] = 0 /\ lastSeen'[j] = 0
    BY DEF Unknown
  <2>1. j # i /\ (j \in gone \/ j \in IPs \ known)
    BY DEF UpdateStep
  <2> QED BY <1>0, <2>1 DEF UpdateStep, Unknown, Reset
<1>14. EventCountExact'
  <2>1. ASSUME NEW j \in IPs \ known' PROVE Stamps'[j] = 0
    <3>1. Stamps'[j] = Len(requests'[j]) + Len(denials'[j])
      BY DEF Stamps
    <3>2. Len(requests'[j]) = 0 /\ Len(denials'[j]) = 0
      BY <1>13, EmptyStamps DEF Unknown
    <3> QED BY <3>1, <3>2
  <2>2. known' \in SUBSET IPs /\ IsFiniteSet(IPs)
    BY <1>12, Numbers DEF ClientTypes
  <2>3. SumOver(Stamps', known') = SumOver(Stamps', IPs)
    BY <1>10, <2>1, <2>2, SumSupport
  <2> QED BY <1>11, <2>3 DEF EventCountExact
<1>15. WithinCapacity'
  <2> DEFINE K == known \ gone
  <2>1. IsFiniteSet(known) /\ K \subseteq known /\ Cardinality(known) \in Nat
    BY KnownFinite
  <2>2. IsFiniteSet(K) /\ Cardinality(K) <= Cardinality(known) /\ Cardinality(K) \in Nat
    BY <2>1, FS_Subset, FS_CardinalityType
  <2>3. known' = K \cup {i} /\ (i \in K \/ Cardinality(K) < MaximumClients)
    BY DEF UpdateStep, Fits
  <2> HIDE DEF K
  <2>4. Cardinality(known') <= MaximumClients
    <3>1. CASE i \in K
      <4>1. known' = K
        BY <2>3, <3>1
      <4> QED BY <1>0, <2>1, <2>2, <4>1, Numbers DEF WithinCapacity
    <3>2. CASE i \notin K
      <4>1. Cardinality(K \cup {i}) = Cardinality(K) + 1
        BY <2>2, <3>2, FS_AddElement
      <4> QED BY <2>2, <2>3, <3>2, <4>1, Numbers
    <3> QED BY <3>1, <3>2
  <2>5. ASSUME NEW j \in known' PROVE Len(requests'[j]) <= RequestLimit
    <3>1. CASE j = i
      BY <1>2, <1>6, <3>1
    <3>2. CASE j # i
      <4>1. j \in known /\ j \notin gone /\ j \in IPs
        BY <3>2 DEF UpdateStep, TypeOK
      <4>2. requests'[j] = requests[j]
        BY <1>2, <1>6, <3>2, <4>1 DEF R, Reset
      <4> QED BY <1>0, <4>1, <4>2 DEF WithinCapacity
    <3> QED BY <3>1, <3>2
  <2> QED BY <2>4, <2>5 DEF WithinCapacity
<1> QED BY <1>12, <1>13, <1>14, <1>15 DEF Capacity

-----------------------------------------------------------------------------
(* A call of the limiter *)

\* What a worker knows when its call has the mutex
LEMMA CallTypes ==
  ASSUME TypeOK, NEW t \in Threads, WorkerOK(t), pc[t] # "idle"
  PROVE  /\ ip[t] \in IPs /\ at[t] \in Times /\ at[t] \in Nat /\ at[t] <= now
         /\ latest \in Times /\ latest \in Nat
  BY TimesFinite DEF TypeOK, WorkerOK

LEMMA SweptFacts ==
  ASSUME NEW n, NEW force
  PROVE  /\ Swept(n, force) \in SUBSET known
         /\ \A i \in Swept(n, force) : lastSeen[i] < n - StaleAfter /\ blockedUntil[i] <= n
  BY DEF Swept, Expired

ThreadTypes ==
    /\ now \in Times \ {0}
    /\ pc \in [Threads -> Calls \cup {"idle", "admitted"}]
    /\ ip \in [Threads -> IPs \cup {NoIP}]
    /\ at \in [Threads -> Times]
    /\ admitted \in [IPs -> [Times -> Nat]]
    /\ latest \in Times /\ lag \in Times

LEMMA TypesTogether == ClientTypes /\ ThreadTypes /\ nextCleanup \in Nat => TypeOK
  BY DEF ClientTypes, ThreadTypes, TypeOK

\* The end of a call
LEMMA ReturnFacts ==
  ASSUME TypeOK, \A u \in Threads : WorkerOK(u), NEW t \in Threads, pc[t] # "idle",
         NEW next \in Calls \cup {"idle", "admitted"}, Return(t, next)
  PROVE  /\ ThreadTypes' /\ \A u \in Threads : WorkerOK(u)'
         /\ at[t] # 0 /\ ~overtaken' => ~overtaken /\ latest <= at[t] /\ latest' = at[t]
         /\ at[t] = 0 => latest' = latest /\ lag' = lag
         /\ latest' >= latest /\ lag' >= lag
         /\ at[t] # 0 => latest' >= at[t] /\ latest <= at[t] + lag'
<1>0. /\ ip[t] \in IPs /\ at[t] \in Times /\ at[t] \in Nat /\ at[t] <= now
      /\ latest \in Times /\ latest \in Nat /\ lag \in Times /\ lag \in Nat
  BY CallTypes, TimesFinite DEF TypeOK
<1>1. latest' = IF latest >= at[t] THEN latest ELSE at[t]
  <2>1. Max({latest, at[t]}) = IF latest >= at[t] THEN latest ELSE at[t]
    BY <1>0 DEF Max
  <2> QED BY <2>1 DEF Return
<1>2. lag' = IF at[t] = 0 THEN lag ELSE IF lag >= latest - at[t] THEN lag ELSE latest - at[t]
  <2>1. latest - at[t] \in Int
    BY <1>0
  <2>2. Max({lag, latest - at[t]}) = IF lag >= latest - at[t] THEN lag ELSE latest - at[t]
    BY <1>0, <2>1 DEF Max
  <2> QED BY <2>2 DEF Return
<1>3. overtaken' <=> (overtaken \/ (at[t] # 0 /\ at[t] < latest))
  BY <1>0, <1>2 DEF overtaken
<1>4. admitted' \in [IPs -> [Times -> Nat]]
  <2>1. CASE next = "admitted"
    <3> DEFINE a == ip[t]
               n == at[t]
    <3>1. admitted' = [admitted EXCEPT ![a][n] = @ + 1]
      BY <2>1 DEF Return
    <3>2. a \in IPs /\ n \in Times /\ admitted \in [IPs -> [Times -> Nat]]
      BY <1>0 DEF TypeOK
    <3> HIDE DEF a, n
    <3> QED BY <3>1, <3>2
  <2>2. CASE next # "admitted"
    BY <2>2 DEF Return, TypeOK
  <2> QED BY <2>1, <2>2
<1>5. 0 \in Times
  BY Numbers DEF Times
<1>6. ThreadTypes'
  <2>1. pc' \in [Threads -> Calls \cup {"idle", "admitted"}]
    BY DEF Return, TypeOK
  <2>2. ip' \in [Threads -> IPs \cup {NoIP}] /\ at' \in [Threads -> Times]
    BY <1>0, <1>5 DEF Return, TypeOK
  <2>3. now' \in Times \ {0}
    BY DEF Return, TypeOK
  <2>4. lag' \in Times /\ latest' \in Times
    BY <1>0, <1>1, <1>2, Numbers DEF Times
  <2> QED BY <1>4, <2>1, <2>2, <2>3, <2>4 DEF ThreadTypes
<1>7. ASSUME NEW u \in Threads PROVE WorkerOK(u)'
  <2>1. now' = now /\ now \in Nat
    BY TimesFinite DEF Return, TypeOK
  <2>2. CASE u = t
    <3>1. at'[u] = 0 /\ pc'[u] = next /\ ip'[u] = IF next = "idle" THEN NoIP ELSE ip[t]
      BY <2>2 DEF Return, TypeOK
    <3> QED BY <1>0, <2>1, <3>1 DEF WorkerOK
  <2>3. CASE u # t
    BY <2>1, <2>3 DEF Return, TypeOK, WorkerOK
  <2> QED BY <2>2, <2>3
<1>8. /\ at[t] = 0 => latest' = latest /\ lag' = lag
      /\ latest' >= latest /\ lag' >= lag
      /\ at[t] # 0 => latest' >= at[t] /\ latest <= at[t] + lag'
  BY <1>0, <1>1, <1>2
<1> QED BY <1>0, <1>1, <1>3, <1>6, <1>7, <1>8

\* After the sweep every client is in order at the reading of the call.
LEMMA SweptOrdered ==
  ASSUME TypeOK, InOrder, ~overtaken, NEW n \in Times, latest <= n, NEW force, NEW j \in IPs
  PROVE  LET gone == Swept(n, force) IN
         Ordered(Reset(requests, gone, <<>>)[j], Reset(lastSeen, gone, 0)[j],
                 Reset(blockedUntil, gone, 0)[j], admitted[j], n)
<1> DEFINE gone == Swept(n, force)
<1>1. /\ requests[j] \in Seq(Times) /\ lastSeen[j] \in Times /\ blockedUntil[j] \in Nat
      /\ latest \in Times
  BY DEF TypeOK
<1>2. Ordered(requests[j], lastSeen[j], blockedUntil[j], admitted[j], latest)
  BY DEF InOrder
<1>3. Ordered(requests[j], lastSeen[j], blockedUntil[j], admitted[j], n)
  BY <1>1, <1>2, OrderedLater
<1>4. CASE j \in gone
  <2>1. lastSeen[j] < n - StaleAfter
    BY <1>4, SweptFacts
  <2>2. Ordered(<<>>, 0, 0, admitted[j], n)
    BY <1>1, <1>3, <2>1, OrderedSwept
  <2> QED BY <1>4, <2>2 DEF Reset
<1>5. CASE j \notin gone
  BY <1>3, <1>5 DEF Reset
<1> QED BY <1>4, <1>5

\* A call that only sweeps: blocked(), and the others with the map full.
LEMMA SweepCall ==
  ASSUME LimiterInv, NEW t \in Threads, pc[t] # "idle", at[t] # 0, NEW force \in BOOLEAN,
         SweepStep(Swept(at[t], force)), nextCleanup' = Scheduled(at[t], force),
         NEW next \in Calls \cup {"idle"}, Return(t, next)
  PROVE  LimiterInv'
<1> DEFINE n == at[t]
           gone == Swept(n, force)
<1>0. TypeOK /\ Capacity /\ InOrder /\ \A u \in Threads : WorkerOK(u)
  BY DEF LimiterInv
<1>1. n \in Times /\ n \in Nat
  BY <1>0, CallTypes
<1>2. ClientTypes' /\ Capacity'
  BY <1>0, SweptFacts, SweepCapacity
<1>3. /\ ThreadTypes' /\ \A u \in Threads : WorkerOK(u)'
      /\ ~overtaken' => ~overtaken /\ latest <= n /\ latest' = n
  BY <1>0, ReturnFacts
<1>4. nextCleanup' \in Nat
  <2>1. nextCleanup \in Nat /\ n + CleanupEvery \in Nat
    BY <1>0, <1>1, Numbers DEF TypeOK
  <2> QED BY <2>1, Zenon DEF Scheduled
<1>5. TypeOK'
  BY <1>2, <1>3, <1>4 DEF ClientTypes, ThreadTypes, TypeOK
<1>6. InOrder'
  <2> SUFFICES ASSUME ~overtaken', NEW j \in IPs
               PROVE  Ordered(requests'[j], lastSeen'[j], blockedUntil'[j], admitted'[j], latest')
    BY DEF InOrder, Ordered, Admissions, Stored, Span
  <2>1. ~overtaken /\ latest <= n /\ latest' = n
    BY <1>3
  <2>2. admitted' = admitted
    BY DEF Return, Calls
  <2>3. Ordered(Reset(requests, gone, <<>>)[j], Reset(lastSeen, gone, 0)[j],
                Reset(blockedUntil, gone, 0)[j], admitted[j], n)
    BY <1>0, <1>1, <2>1, SweptOrdered
  <2> QED BY <2>1, <2>2, <2>3 DEF SweepStep
<1> QED BY <1>2, <1>3, <1>5, <1>6 DEF LimiterInv

\* A call that writes its client: what is left to show is that the client stays
\* in order and within its limits.
LEMMA UpdateCall ==
  ASSUME LimiterInv, NEW t \in Threads, pc[t] # "idle", at[t] # 0, NEW force \in BOOLEAN,
         NEW req \in Seq(Times), NEW den \in Seq(Times), NEW until \in Nat,
         UpdateStep(ip[t], Swept(at[t], force), req, den, until, at[t]),
         Len(req) <= RequestLimit, eventCount' <= MaximumEvents,
         nextCleanup' = Scheduled(at[t], force),
         NEW next \in {"idle", "admitted"}, Return(t, next),
         ~overtaken' => Ordered(req, at[t], until, admitted'[ip[t]], at[t])
  PROVE  LimiterInv'
<1> DEFINE n == at[t]
           i == ip[t]
           gone == Swept(n, force)
<1>0. TypeOK /\ Capacity /\ InOrder /\ \A u \in Threads : WorkerOK(u)
  BY DEF LimiterInv
<1>1. n \in Times /\ n \in Nat /\ i \in IPs
  BY <1>0, CallTypes
<1>2. ClientTypes' /\ Capacity'
  BY <1>0, <1>1, SweptFacts, UpdateCapacity
<1>3. /\ ThreadTypes' /\ \A u \in Threads : WorkerOK(u)'
      /\ ~overtaken' => ~overtaken /\ latest <= n /\ latest' = n
  BY <1>0, ReturnFacts
<1>4. nextCleanup' \in Nat
  <2>1. nextCleanup \in Nat /\ n + CleanupEvery \in Nat
    BY <1>0, <1>1, Numbers, SMTT(30) DEF TypeOK
  <2> QED BY <2>1, Zenon DEF Scheduled
<1>5. TypeOK'
  BY <1>2, <1>3, <1>4 DEF ClientTypes, ThreadTypes, TypeOK
<1>6. InOrder'
  <2> SUFFICES ASSUME ~overtaken', NEW j \in IPs
               PROVE  Ordered(requests'[j], lastSeen'[j], blockedUntil'[j], admitted'[j], latest')
    BY DEF InOrder, Ordered, Admissions, Stored, Span
  <2>1. ~overtaken /\ latest <= n /\ latest' = n
    BY <1>3
  <2>2. /\ Reset(requests, gone, <<>>) \in [IPs -> Seq(Times)]
        /\ Reset(blockedUntil, gone, 0) \in [IPs -> Nat]
        /\ Reset(lastSeen, gone, 0) \in [IPs -> Times]
    <3>1. 0 \in Times /\ 0 \in Nat /\ <<>> \in Seq(Times)
      BY Numbers, EmptyStamps DEF Times
    <3> QED BY <1>0, <3>1, ResetType DEF TypeOK
  <2>3. CASE j = i
    <3>1. requests'[j] = req /\ lastSeen'[j] = n /\ blockedUntil'[j] = until
      BY <1>1, <2>2, <2>3 DEF UpdateStep
    <3> QED BY <2>1, <2>3, <3>1
  <2>4. CASE j # i
    <3>1. /\ requests'[j] = Reset(requests, gone, <<>>)[j]
          /\ lastSeen'[j] = Reset(lastSeen, gone, 0)[j]
          /\ blockedUntil'[j] = Reset(blockedUntil, gone, 0)[j]
      BY <2>2, <2>4 DEF UpdateStep
    <3>2. admitted'[j] = admitted[j]
      BY <1>0, <1>1, <2>4 DEF Return, TypeOK
    <3>3. Ordered(Reset(requests, gone, <<>>)[j], Reset(lastSeen, gone, 0)[j],
                  Reset(blockedUntil, gone, 0)[j], admitted[j], n)
      BY <1>0, <1>1, <2>1, SweptOrdered
    <3> QED BY <2>1, <3>1, <3>2, <3>3
  <2> QED BY <2>3, <2>4
<1> QED BY <1>2, <1>3, <1>5, <1>6 DEF LimiterInv

\* The client of an address after the sweep
LEMMA BaseTypes ==
  ASSUME TypeOK, Capacity, NEW gone \in SUBSET known, NEW i \in IPs
  PROVE  /\ Reset(requests, gone, <<>>)[i] \in Seq(Times)
         /\ Reset(denials, gone, <<>>)[i] \in Seq(Times)
         /\ Reset(blockedUntil, gone, 0)[i] \in Nat
         /\ Reset(lastSeen, gone, 0)[i] \in Times
         /\ Reset(requests, gone, <<>>) \in [IPs -> Seq(Times)]
         /\ Reset(denials, gone, <<>>) \in [IPs -> Seq(Times)]
         /\ Reset(blockedUntil, gone, 0) \in [IPs -> Nat]
         /\ Len(Reset(requests, gone, <<>>)[i]) <= RequestLimit
<1>1. 0 \in Times /\ 0 \in Nat /\ <<>> \in Seq(Times)
  BY Numbers, EmptyStamps DEF Times
<1>2. /\ Reset(requests, gone, <<>>) \in [IPs -> Seq(Times)]
      /\ Reset(denials, gone, <<>>) \in [IPs -> Seq(Times)]
      /\ Reset(blockedUntil, gone, 0) \in [IPs -> Nat]
      /\ Reset(lastSeen, gone, 0) \in [IPs -> Times]
  BY <1>1, ResetType DEF TypeOK
<1>3. Len(Reset(requests, gone, <<>>)[i]) <= RequestLimit
  <2>1. CASE i \in gone \/ i \notin known
    <3>1. Reset(requests, gone, <<>>)[i] = <<>>
      BY <2>1 DEF Reset, Capacity, Unknown
    <3> QED BY <3>1, EmptyStamps, Numbers
  <2>2. CASE i \notin gone /\ i \in known
    BY <2>2 DEF Reset, Capacity, WithinCapacity
  <2> QED BY <2>1, <2>2
<1> QED BY <1>2, <1>3

LEMMA CountBelow ==
  ASSUME TypeOK, Capacity, NEW gone \in SUBSET known
  PROVE  CountLess(gone) \in Nat /\ CountLess(gone) <= MaximumEvents
<1>1. CountLess(gone) \in Nat /\ CountLess(gone) <= eventCount
  BY CountLessIs DEF Capacity
<1>2. eventCount \in Nat /\ eventCount <= MaximumEvents
  BY DEF TypeOK, Capacity, WithinCapacity
<1> QED BY <1>1, <1>2, Numbers

LEMMA TrimShorter ==
  ASSUME NEW s \in Seq(Times), NEW c \in Int
  PROVE  /\ Trim(s, c) \in Seq(Times) /\ Len(Trim(s, c)) \in Nat /\ Len(s) \in Nat
         /\ Len(Trim(s, c)) <= Len(s)
<1>1. Trim(s, c) \in Seq(Times)
  BY TrimFacts
<1>2. Len(Trim(s, c)) \in Nat /\ Len(s) \in Nat
  BY <1>1, StampTypes
<1>3. PICK d \in 0..Len(s) : Len(Trim(s, c)) = Len(s) - d
  BY TrimFacts
<1> QED BY <1>1, <1>2, <1>3

LEMMA ExceedInv ==
  ASSUME LimiterInv, NEW t \in Threads, RequestExceeded(t)
  PROVE  LimiterInv'
<1> DEFINE i == ip[t]
           n == at[t]
           gone == Swept(n, Forced(i))
           base == Reset(requests, gone, <<>>)
           recent == Trim(base[i], n - Window)
           count == CountLess(gone) - (Len(base[i]) - Len(recent))
           rejected == Len(recent) >= RequestLimit \/ count >= MaximumEvents
           req == IF rejected THEN recent ELSE Append(recent, n)
           den == Reset(denials, gone, <<>>)[i]
           until == Reset(blockedUntil, gone, 0)[i]
           next == IF rejected THEN "idle" ELSE "admitted"
<1>0. TypeOK /\ Capacity /\ InOrder /\ \A u \in Threads : WorkerOK(u)
  BY DEF LimiterInv
<1>1. pc[t] = "exceeded" /\ n # 0 /\ i \in IPs /\ n \in Times /\ n \in Nat
  BY <1>0, CallTypes DEF RequestExceeded
<1>2. gone \in SUBSET known
  BY SweptFacts
<1>3. /\ base \in [IPs -> Seq(Times)] /\ base[i] \in Seq(Times) /\ den \in Seq(Times)
      /\ until \in Nat /\ Len(base[i]) <= RequestLimit
      /\ Reset(denials, gone, <<>>) \in [IPs -> Seq(Times)]
      /\ Reset(blockedUntil, gone, 0) \in [IPs -> Nat]
  BY <1>0, <1>1, <1>2, BaseTypes
<1>4. /\ recent \in Seq(Times) /\ Len(recent) \in Nat /\ Len(base[i]) \in Nat
      /\ Len(recent) <= Len(base[i])
  <2>1. n - Window \in Int
    BY <1>1, Numbers
  <2> QED BY <1>3, <2>1, TrimShorter
<1>5. CountLess(gone) \in Nat /\ CountLess(gone) <= MaximumEvents
  BY <1>0, <1>2, CountBelow
<1>6. /\ Fits(i, gone) /\ known' = (known \ gone) \cup {i}
      /\ lastSeen' = [Reset(lastSeen, gone, 0) EXCEPT ![i] = n]
      /\ requests' = [base EXCEPT ![i] = req]
      /\ denials' = Reset(denials, gone, <<>>)
      /\ blockedUntil' = Reset(blockedUntil, gone, 0)
      /\ nextCleanup' = Scheduled(n, Forced(i))
      /\ eventCount' = IF rejected THEN count ELSE count + 1
      /\ Return(t, next)
  BY DEF RequestExceeded
<1>7. Len(den) \in Nat
  BY <1>3, StampTypes
<1>8. req \in Seq(Times) /\ Len(req) = (IF rejected THEN Len(recent) ELSE Len(recent) + 1)
  <2> HIDE DEF rejected, recent
  <2> QED BY <1>1, <1>4
<1>9. Len(req) <= RequestLimit /\ eventCount' <= MaximumEvents
  <2> HIDE DEF recent, base, gone, req
  <2>1. count \in Int /\ count <= CountLess(gone)
    BY <1>4, <1>5
  <2>2. Len(req) <= RequestLimit
    BY <1>3, <1>4, <1>8, Numbers
  <2> HIDE DEF count
  <2> QED BY <1>5, <1>6, <2>1, <2>2, Numbers
<1>10. UpdateStep(i, gone, req, den, until, n)
  <2>1. denials' = [Reset(denials, gone, <<>>) EXCEPT ![i] = den]
    BY <1>1, <1>3, <1>6
  <2>2. blockedUntil' = [Reset(blockedUntil, gone, 0) EXCEPT ![i] = until]
    BY <1>1, <1>3, <1>6
  <2>3. eventCount' = CountLess(gone) - (Len(base[i]) + Len(den)) + (Len(req) + Len(den))
    <3> HIDE DEF recent, base, gone, req, den, rejected
    <3> QED BY <1>4, <1>5, <1>6, <1>7, <1>8
  <2> QED BY <1>6, <2>1, <2>2, <2>3 DEF UpdateStep
<1>11. ASSUME ~overtaken' PROVE Ordered(req, n, until, admitted'[i], n)
  <2>1. ~overtaken /\ latest <= n
    BY <1>0, <1>1, <1>6, <1>11, ReturnFacts DEF Calls
  <2>2. Ordered(base[i], Reset(lastSeen, gone, 0)[i], until, admitted[i], n)
    BY <1>0, <1>1, <2>1, SweptOrdered
  <2>3. Reset(lastSeen, gone, 0)[i] \in Times
    BY <1>0, <1>1, <1>2, BaseTypes
  <2>4. Ordered(recent, n, until, admitted[i], n)
    <3> HIDE DEF base, until
    <3> QED BY <1>1, <1>3, <2>2, <2>3, OrderedTrim
  <2>5. admitted \in [IPs -> [Times -> Nat]] /\ admitted[i] \in [Times -> Nat]
    BY <1>0, <1>1 DEF TypeOK
  <2>6. CASE rejected
    <3>1. req = recent /\ next = "idle"
      BY <2>6
    <3>2. admitted' = admitted
      BY <1>6, <3>1 DEF Return
    <3> QED BY <2>4, <3>1, <3>2
  <2>7. CASE ~rejected
    <3>1. req = Append(recent, n) /\ next = "admitted" /\ Len(recent) < RequestLimit
      <4>1. ~(Len(recent) >= RequestLimit)
        BY <2>7
      <4> QED BY <1>4, <2>7, <4>1, Numbers
    <3>2. admitted'[i] = [admitted[i] EXCEPT ![n] = @ + 1]
      <4>1. admitted' = [admitted EXCEPT ![i][n] = @ + 1]
        BY <1>6, <3>1 DEF Return
      <4> HIDE DEF i, n
      <4> QED BY <1>1, <2>5, <4>1
    <3>3. Ordered(Append(recent, n), n, until, [admitted[i] EXCEPT ![n] = @ + 1], n)
      <4> HIDE DEF recent, until, i, n
      <4> QED BY <1>1, <1>4, <2>4, <2>5, <3>1, OrderedAdmit
    <3> QED BY <3>1, <3>2, <3>3
  <2> QED BY <2>6, <2>7
<1>12. Forced(i) \in BOOLEAN /\ next \in {"idle", "admitted"}
  BY DEF Forced
<1> HIDE DEF req, den, until, next
<1> QED BY <1>1, <1>3, <1>6, <1>8, <1>9, <1>10, <1>11, <1>12, UpdateCall

LEMMA DenialInv ==
  ASSUME LimiterInv, NEW t \in Threads, RecordDenial(t)
  PROVE  LimiterInv'
<1> DEFINE i == ip[t]
           n == at[t]
           gone == Swept(n, Forced(i))
           base == Reset(denials, gone, <<>>)
           recent == Trim(base[i], n - Window)
           count == CountLess(gone) - (Len(base[i]) - Len(recent))
           full == count >= MaximumEvents
           strike == full \/ Len(recent) + 1 >= DenialLimit
           req == Reset(requests, gone, <<>>)[i]
           den == IF strike THEN <<>> ELSE Append(recent, n)
           until == IF strike THEN n + BlockTime ELSE Reset(blockedUntil, gone, 0)[i]
<1>0. TypeOK /\ Capacity /\ InOrder /\ \A u \in Threads : WorkerOK(u)
  BY DEF LimiterInv
<1>1. pc[t] = "denial" /\ n # 0 /\ i \in IPs /\ n \in Times /\ n \in Nat
  BY <1>0, CallTypes DEF RecordDenial
<1>2. gone \in SUBSET known
  BY SweptFacts
<1>3. /\ base \in [IPs -> Seq(Times)] /\ base[i] \in Seq(Times) /\ req \in Seq(Times)
      /\ Len(req) <= RequestLimit
      /\ Reset(requests, gone, <<>>) \in [IPs -> Seq(Times)]
      /\ Reset(blockedUntil, gone, 0) \in [IPs -> Nat]
  BY <1>0, <1>1, <1>2, BaseTypes
<1>4. /\ recent \in Seq(Times) /\ Len(recent) \in Nat /\ Len(base[i]) \in Nat
      /\ Len(recent) <= Len(base[i])
  <2>1. n - Window \in Int
    BY <1>1, Numbers
  <2> QED BY <1>3, <2>1, TrimShorter
<1>5. CountLess(gone) \in Nat /\ CountLess(gone) <= MaximumEvents
  BY <1>0, <1>2, CountBelow
<1>6. /\ Fits(i, gone) /\ known' = (known \ gone) \cup {i}
      /\ lastSeen' = [Reset(lastSeen, gone, 0) EXCEPT ![i] = n]
      /\ requests' = Reset(requests, gone, <<>>)
      /\ denials' = [base EXCEPT ![i] = den]
      /\ blockedUntil' = [Reset(blockedUntil, gone, 0) EXCEPT
                            ![i] = IF strike THEN n + BlockTime ELSE @]
      /\ nextCleanup' = Scheduled(n, Forced(i))
      /\ eventCount' = IF strike THEN StrikeCount(count, recent) ELSE count + 1
      /\ Return(t, "idle")
  BY DEF RecordDenial
<1>7. Len(req) \in Nat /\ until \in Nat
  <2>1. Len(req) \in Nat
    BY <1>3, StampTypes
  <2>2. until \in Nat
    <3> HIDE DEF strike, gone
    <3> QED BY <1>1, <1>3, Numbers
  <2> QED BY <2>1, <2>2
<1>8. den \in Seq(Times) /\ Len(den) = (IF strike THEN 0 ELSE Len(recent) + 1)
  <2> HIDE DEF strike, recent
  <2> QED BY <1>1, <1>4, EmptyStamps
<1>9. eventCount' <= MaximumEvents
  <2> HIDE DEF recent, base, gone
  <2>0. count \in Int /\ count <= CountLess(gone)
    BY <1>4, <1>5
  <2>1. count \in Int /\ count <= CountLess(gone) /\ count - Len(recent) <= CountLess(gone)
    <3> HIDE DEF count
    <3> QED BY <1>4, <1>5, <2>0
  <2>2. eventCount' = IF strike THEN count - Len(recent) ELSE count + 1
    BY <1>6 DEF StrikeCount
  <2> HIDE DEF count
  <2> QED BY <1>4, <1>5, <2>1, <2>2, Numbers
<1>10. UpdateStep(i, gone, req, den, until, n)
  <2>1. requests' = [Reset(requests, gone, <<>>) EXCEPT ![i] = req]
    BY <1>1, <1>3, <1>6
  <2>2. blockedUntil' = [Reset(blockedUntil, gone, 0) EXCEPT ![i] = until]
    <3> HIDE DEF strike
    <3> QED BY <1>1, <1>3, <1>6
  <2>3. eventCount' = CountLess(gone) - (Len(req) + Len(base[i])) + (Len(req) + Len(den))
    <3>1. eventCount' = IF strike THEN count - Len(recent) ELSE count + 1
      BY <1>6 DEF StrikeCount
    <3> HIDE DEF recent, base, gone, req, den, strike
    <3> QED BY <1>4, <1>5, <1>7, <1>8, <3>1
  <2> QED BY <1>6, <2>1, <2>2, <2>3 DEF UpdateStep
<1>11. ASSUME ~overtaken' PROVE Ordered(req, n, until, admitted'[i], n)
  <2>1. ~overtaken /\ latest <= n
    BY <1>0, <1>1, <1>6, <1>11, ReturnFacts DEF Calls
  <2>2. Ordered(req, Reset(lastSeen, gone, 0)[i], Reset(blockedUntil, gone, 0)[i], admitted[i], n)
    BY <1>0, <1>1, <2>1, SweptOrdered
  <2>3. Reset(lastSeen, gone, 0)[i] \in Times
    BY <1>0, <1>1, <1>2, BaseTypes
  <2>4. until <= n + BlockTime
    <3>1. Reset(blockedUntil, gone, 0)[i] <= n + BlockTime
      BY <2>2 DEF Ordered
    <3> HIDE DEF strike, gone
    <3> QED BY <1>1, <3>1, Numbers
  <2>5. admitted' = admitted
    BY <1>6 DEF Return
  <2>6. Ordered(req, n, until, admitted[i], n)
    <3> HIDE DEF req, until
    <3> QED BY <1>1, <1>3, <1>7, <2>2, <2>3, <2>4, OrderedSeen
  <2> QED BY <2>5, <2>6
<1>12. Forced(i) \in BOOLEAN
  BY DEF Forced
<1> HIDE DEF req, den, until
<1> QED BY <1>1, <1>3, <1>6, <1>7, <1>8, <1>9, <1>10, <1>11, <1>12, UpdateCall

-----------------------------------------------------------------------------
(* The other steps *)

\* A client that is left alone while time passes.
LEMMA OrderKept ==
  ASSUME InOrder, UNCHANGED <<requests, lastSeen, blockedUntil, admitted, latest, lag>>
  PROVE  InOrder'
  BY DEF overtaken, InOrder, Ordered, Admissions, Stored, Span

LEMMA CapacityKept ==
  ASSUME Capacity, UNCHANGED client
  PROVE  Capacity'
  BY DEF Capacity, Unknown, EventCountExact, Stamps, WithinCapacity, client

LEMMA ThreadInv ==
  ASSUME LimiterInv, NEW t \in Threads, \/ \E i \in IPs : Arrive(t, i)
                                        \/ ReadClock(t) \/ Resolve(t)
  PROVE  LimiterInv'
<1>0. TypeOK /\ Capacity /\ InOrder /\ \A u \in Threads : WorkerOK(u)
  BY DEF LimiterInv
<1>1. UNCHANGED client
  BY DEF Arrive, ReadClock, Resolve
<1>2. Capacity'
  BY <1>0, <1>1, CapacityKept
<1>3. now \in Times /\ now \in Nat
  BY <1>0, TimesFinite DEF TypeOK
<1>4. ASSUME NEW i \in IPs, Arrive(t, i) PROVE LimiterInv'
  <2>1. TypeOK'
    BY <1>0, <1>4 DEF TypeOK, Arrive, client, history, Calls
  <2>2. \A u \in Threads : WorkerOK(u)'
    BY <1>0, <1>4 DEF WorkerOK, Arrive, TypeOK, Calls
  <2>3. InOrder'
    BY <1>0, <1>4, OrderKept DEF Arrive, client, history
  <2> QED BY <1>2, <2>1, <2>2, <2>3 DEF LimiterInv
<1>5. CASE ReadClock(t)
  <2>1. TypeOK'
    BY <1>0, <1>3, <1>5 DEF TypeOK, ReadClock, client, history
  <2>2. \A u \in Threads : WorkerOK(u)'
    BY <1>0, <1>3, <1>5 DEF WorkerOK, ReadClock, TypeOK
  <2>3. InOrder'
    BY <1>0, <1>5, OrderKept DEF ReadClock, client, history
  <2> QED BY <1>2, <2>1, <2>2, <2>3 DEF LimiterInv
<1>6. CASE Resolve(t)
  <2>1. PICK next \in {"denial", "idle"} : Return(t, next)
    BY <1>6 DEF Resolve
  <2>2. pc[t] = "admitted" /\ at[t] = 0
    BY <1>0, <1>6 DEF Resolve, WorkerOK, Calls
  <2>3. /\ ThreadTypes' /\ \A u \in Threads : WorkerOK(u)'
        /\ latest' = latest /\ lag' = lag
    BY <1>0, <2>1, <2>2, ReturnFacts DEF Calls
  <2>4. admitted' = admitted
    BY <2>1 DEF Return
  <2>5. TypeOK'
    BY <1>0, <1>1, <2>3 DEF ThreadTypes, TypeOK, client
  <2>6. InOrder'
    BY <1>0, <1>1, <2>3, <2>4, OrderKept DEF client
  <2> QED BY <1>2, <2>3, <2>5, <2>6 DEF LimiterInv
<1> QED BY <1>4, <1>5, <1>6

LEMMA SweepsInv ==
  ASSUME LimiterInv, NEW t \in Threads, Blocked(t) \/ NotTracked(t)
  PROVE  LimiterInv'
<1>1. CASE Blocked(t)
  <2>1. SweepStep(Swept(at[t], FALSE)) /\ nextCleanup' = Scheduled(at[t], FALSE)
        /\ pc[t] # "idle" /\ at[t] # 0
    BY <1>1 DEF Blocked, SweepStep
  <2>2. PICK next \in {"idle", "denial", "exceeded"} : Return(t, next)
    BY <1>1 DEF Blocked
  <2>3. next \in Calls \cup {"idle"}
    BY DEF Calls
  <2> QED BY <2>1, <2>2, <2>3, SweepCall
<1>2. CASE NotTracked(t)
  <2>1. /\ SweepStep(Swept(at[t], Forced(ip[t]))) /\ nextCleanup' = Scheduled(at[t], Forced(ip[t]))
        /\ pc[t] # "idle" /\ at[t] # 0 /\ Return(t, "idle") /\ Forced(ip[t]) \in BOOLEAN
    BY <1>2 DEF NotTracked, SweepStep, Forced
  <2> QED BY <2>1, SweepCall
<1> QED BY <1>1, <1>2

LEMMA NoAdmissions ==
  ASSUME NEW n \in Times
  PROVE  Admissions(NoStamps, n) = 0
<1>1. IsFiniteSet(Span(n)) /\ Span(n) \subseteq Times
  <2>1. Span(n) \subseteq Times
    BY DEF Span
  <2> QED BY <2>1, TimesFinite, FS_Subset
<1>2. \A m \in Span(n) : NoStamps[m] = 0
  BY <1>1 DEF NoStamps
<1>3. SumOver(NoStamps, Span(n)) = 0
  BY <1>1, <1>2, SumZero
<1> QED BY <1>3 DEF Admissions

LEMMA OrderedNew ==
  ASSUME NEW last \in Times
  PROVE  Ordered(<<>>, 0, 0, NoStamps, last)
<1>1. \A n \in Times : Stored(<<>>, n) = {}
  BY DEF Stored
<1>2. \A n \in Times : Cardinality(Stored(<<>>, n)) = 0
  BY <1>1, FS_EmptySet
<1>3. DOMAIN <<>> = {}
  OBVIOUS
<1> QED BY <1>2, <1>3, NoAdmissions, TimesFinite, Numbers DEF Ordered

LEMMA UnblockInv ==
  ASSUME LimiterInv, NEW i \in IPs, Unblock(i)
  PROVE  LimiterInv'
<1>0. TypeOK /\ Capacity /\ InOrder /\ \A u \in Threads : WorkerOK(u)
  BY DEF LimiterInv
<1>1. SweepStep({i}) /\ {i} \in SUBSET known
  BY DEF Unblock, SweepStep, UnblockCount
<1>2. ClientTypes' /\ Capacity'
  BY <1>0, <1>1, SweepCapacity
<1>3. NoStamps \in [Times -> Nat]
  BY DEF NoStamps
<1>4. admitted' \in [IPs -> [Times -> Nat]]
  BY <1>0, <1>3, ResetType DEF Unblock, TypeOK
<1>5. TypeOK'
  BY <1>0, <1>2, <1>4 DEF Unblock, ClientTypes, TypeOK, thread
<1>6. \A u \in Threads : WorkerOK(u)'
  BY <1>0 DEF Unblock, WorkerOK, thread
<1>7. InOrder'
  <2> SUFFICES ASSUME ~overtaken', NEW j \in IPs
               PROVE  Ordered(requests'[j], lastSeen'[j], blockedUntil'[j], admitted'[j], latest')
    BY DEF InOrder, Ordered, Admissions, Stored, Span
  <2>1. ~overtaken /\ latest' = latest /\ latest \in Times
    BY <1>0 DEF Unblock, TypeOK, overtaken
  <2>2. CASE j = i
    <3>1. requests'[j] = <<>> /\ lastSeen'[j] = 0 /\ blockedUntil'[j] = 0 /\ admitted'[j] = NoStamps
      BY <2>2 DEF Unblock, Reset
    <3> QED BY <2>1, <3>1, OrderedNew
  <2>3. CASE j # i
    <3>1. /\ requests'[j] = requests[j] /\ lastSeen'[j] = lastSeen[j]
          /\ blockedUntil'[j] = blockedUntil[j] /\ admitted'[j] = admitted[j]
      BY <2>3 DEF Unblock, Reset
    <3> QED BY <1>0, <2>1, <3>1 DEF InOrder
  <2> QED BY <2>2, <2>3
<1> QED BY <1>2, <1>5, <1>6, <1>7 DEF LimiterInv

\* Nothing is known: after clear(), and at the start.
Empty ==
    /\ TypeOK /\ known = {} /\ eventCount = 0
    /\ requests = [i \in IPs |-> <<>>] /\ denials = [i \in IPs |-> <<>>]
    /\ blockedUntil = [i \in IPs |-> 0] /\ lastSeen = [i \in IPs |-> 0]
    /\ admitted = [i \in IPs |-> NoStamps]

LEMMA EmptyInv == Empty => Capacity /\ InOrder
<1> SUFFICES ASSUME Empty PROVE Capacity /\ InOrder
  OBVIOUS
<1>1. SumOver(Stamps, {}) = 0
  BY SumEmpty
<1>2. Capacity
  BY <1>1, FS_EmptySet, Numbers DEF Empty, Capacity, Unknown, EventCountExact, WithinCapacity
<1>3. InOrder
  BY OrderedNew DEF Empty, InOrder, TypeOK
<1> QED BY <1>2, <1>3

LEMMA ClearInv ==
  ASSUME LimiterInv, Clear
  PROVE  LimiterInv'
<1>0. TypeOK /\ \A u \in Threads : WorkerOK(u)
  BY DEF LimiterInv
<1>1. 0 \in Times /\ <<>> \in Seq(Times) /\ NoStamps \in [Times -> Nat]
  BY Numbers, EmptyStamps DEF Times, NoStamps
<1>2. TypeOK'
  BY <1>0, <1>1 DEF Clear, TypeOK, thread
<1>3. Empty'
  BY <1>2 DEF Clear, Empty
<1>4. Empty' => Capacity' /\ InOrder'
  BY EmptyInv, PTL
<1>5. \A u \in Threads : WorkerOK(u)'
  BY <1>0 DEF Clear, WorkerOK, thread
<1> QED BY <1>2, <1>3, <1>4, <1>5 DEF LimiterInv

LEMMA TickInv ==
  ASSUME LimiterInv, Tick
  PROVE  LimiterInv'
<1>0. TypeOK /\ Capacity /\ InOrder /\ \A u \in Threads : WorkerOK(u)
  BY DEF LimiterInv
<1>1. now \in Nat /\ now < MaxTime /\ now' = now + 1
  BY <1>0, TimesFinite DEF Tick, TypeOK
<1>2. TypeOK'
  <2>1. now' \in Times \ {0}
    BY <1>1, Numbers DEF Times
  <2> QED BY <1>0, <2>1 DEF Tick, TypeOK, client, thread, history
<1>3. \A u \in Threads : WorkerOK(u)'
  <2>1. \A u \in Threads : at[u] \in Nat
    BY <1>0, TimesFinite DEF TypeOK
  <2> QED BY <1>0, <1>1, <2>1 DEF Tick, WorkerOK, thread
<1>4. Capacity' /\ InOrder'
  BY <1>0, CapacityKept, OrderKept DEF Tick, client, history
<1> QED BY <1>2, <1>3, <1>4 DEF LimiterInv

-----------------------------------------------------------------------------
(* Theorems *)

LEMMA LimiterInit == Init => LimiterInv
<1> SUFFICES ASSUME Init PROVE LimiterInv
  OBVIOUS
<1>1. 0 \in Times /\ <<>> \in Seq(Times) /\ NoStamps \in [Times -> Nat]
  BY Numbers, EmptyStamps DEF Times, NoStamps
<1>2. TypeOK
  <2>1. 1 \in Times \ {0}
    BY Numbers DEF Times
  <2> QED BY <1>1, <2>1 DEF Init, TypeOK
<1>3. Empty
  BY <1>2 DEF Init, Empty
<1>4. \A u \in Threads : WorkerOK(u)
  BY DEF Init, WorkerOK
<1> QED BY <1>2, <1>3, <1>4, EmptyInv DEF LimiterInv

LEMMA LimiterNext == LimiterInv /\ [Next]_vars => LimiterInv'
<1> SUFFICES ASSUME LimiterInv, [Next]_vars PROVE LimiterInv'
  OBVIOUS
<1>1. ASSUME NEW t \in Threads, Http(t) PROVE LimiterInv'
  BY <1>1, ThreadInv, SweepsInv, ExceedInv, DenialInv DEF Http
<1>2. CASE UNCHANGED vars
  <2>1. TypeOK' /\ \A u \in Threads : WorkerOK(u)'
    BY <1>2 DEF LimiterInv, vars, client, thread, history, TypeOK, WorkerOK
  <2>2. Capacity' /\ InOrder'
    BY <1>2, CapacityKept, OrderKept DEF LimiterInv, vars, client, history
  <2> QED BY <2>1, <2>2 DEF LimiterInv
<1> QED BY <1>1, <1>2, TickInv, UnblockInv, ClearInv DEF Next

LEMMA AlwaysLimiterInv == Spec => []LimiterInv
  BY LimiterInit, LimiterNext, PTL DEF Spec

\* rate_limiter.cpp: eventCount_, kept by hand in trim(), cleanup(), both
\* recording functions and unblock(), is the number of stored stamps whatever
\* the calls, their order and the clients that are swept in between.
THEOREM EventCountAlwaysExact == Spec => []EventCountExact
<1>1. LimiterInv => EventCountExact
  BY DEF LimiterInv, Capacity
<1> QED BY <1>1, AlwaysLimiterInv, PTL

\* rate_limiter.cpp, findOrCreate() and the tests of kMaximumEvents: neither the
\* clients nor their stamps outgrow their capacity.
THEOREM AlwaysWithinCapacity == Spec => []WithinCapacity
<1>1. LimiterInv => WithinCapacity
  BY DEF LimiterInv, Capacity
<1> QED BY <1>1, AlwaysLimiterInv, PTL

\* rate_limiter.cpp, requestExceeded() and cleanup(): as long as calls take the
\* mutex in the order of their clock readings, no address gets more than its
\* limit in any window, not even by having its client swept and created anew.
THEOREM WindowAlwaysBounded == Spec => []WindowBound
<1>1. LimiterInv => WindowBound
  BY DEF LimiterInv, InOrder, Ordered, Admissions, Span, WindowBound, AdmittedWithin
<1> QED BY <1>1, AlwaysLimiterInv, PTL

\* rate_limiter.cpp: a block ends by time or by the operator only, as long as
\* calls take the mutex in the order of their clock readings.
THEOREM BlocksHold == Spec => BlockHolds
<1> DEFINE Held(i) == \/ Unblock(i) \/ Clear
                      \/ i \in known' /\ blockedUntil'[i] >= blockedUntil[i]
<1>1. ASSUME LimiterInv, [Next]_vars
      PROVE  [\A i \in known : blockedUntil[i] > now /\ ~overtaken' => Held(i)]_vars
  <2> SUFFICES ASSUME Next, NEW i \in known, blockedUntil[i] > now, ~overtaken'
               PROVE  Held(i)
    BY <1>1
  <2>0. TypeOK /\ Capacity /\ InOrder /\ \A u \in Threads : WorkerOK(u)
    BY <1>1 DEF LimiterInv
  <2>1. i \in IPs /\ blockedUntil[i] \in Nat /\ now \in Nat
    BY <2>0, TimesFinite DEF TypeOK
  <2>2. CASE UNCHANGED <<known, blockedUntil>>
    BY <2>1, <2>2
  <2>3. ASSUME NEW t \in Threads, Http(t) PROVE Held(i)
    <3>1. ASSUME pc[t] # "idle", NEW force PROVE i \notin Swept(at[t], force)
      <4>1. at[t] \in Nat /\ at[t] <= now
        BY <2>0, <3>1, CallTypes
      <4> QED BY <2>1, <4>1, SweptFacts
    <3>2. CASE (\E j \in IPs : Arrive(t, j)) \/ ReadClock(t) \/ Resolve(t)
      BY <2>2, <3>2 DEF Arrive, ReadClock, Resolve, client
    <3>3. CASE Blocked(t)
      <4>1. i \notin Swept(at[t], FALSE)
        BY <3>1, <3>3 DEF Blocked
      <4>2. known' = known \ Swept(at[t], FALSE) /\ blockedUntil' = Reset(blockedUntil, Swept(at[t], FALSE), 0)
        BY <3>3, Zenon DEF Blocked
      <4>3. blockedUntil'[i] = blockedUntil[i]
        BY <2>1, <4>1, <4>2 DEF Reset
      <4>4. i \in known'
        BY <4>1, <4>2
      <4>5. blockedUntil'[i] >= blockedUntil[i]
        BY <2>1, <4>3
      <4> QED BY <4>4, <4>5, Zenon
    <3>4. CASE NotTracked(t)
      <4>1. i \notin Swept(at[t], Forced(ip[t]))
        BY <3>1, <3>4 DEF NotTracked
      <4> QED BY <2>1, <3>4, <4>1 DEF NotTracked, Reset
    <3>5. CASE RequestExceeded(t)
      <4>1. i \notin Swept(at[t], Forced(ip[t]))
        BY <3>1, <3>5 DEF RequestExceeded
      <4> QED BY <2>1, <3>5, <4>1 DEF RequestExceeded, Reset
    <3>6. CASE RecordDenial(t)
      <4> DEFINE n == at[t]
                 gone == Swept(n, Forced(ip[t]))
                 U == Reset(blockedUntil, gone, 0)
      <4>1. i \notin gone /\ pc[t] = "denial" /\ n # 0
        BY <3>1, <3>6 DEF RecordDenial
      <4>2. known' = (known \ gone) \cup {ip[t]} /\ Return(t, "idle")
        BY <3>6 DEF RecordDenial
      <4>3. blockedUntil' = [U EXCEPT ![ip[t]] = n + BlockTime] \/ blockedUntil' = [U EXCEPT ![ip[t]] = @]
        BY <3>6 DEF RecordDenial
      <4>4. U \in [IPs -> Nat] /\ U[i] = blockedUntil[i] /\ ip[t] \in IPs /\ n \in Nat
        <5>1. gone \in SUBSET known
          BY SweptFacts
        <5>2. U \in [IPs -> Nat]
          BY <2>0, <2>1, <5>1, BaseTypes
        <5>3. U[i] = blockedUntil[i]
          BY <2>1, <4>1 DEF Reset
        <5> QED BY <2>0, <4>1, <5>2, <5>3, CallTypes
      <4>5. n + BlockTime >= blockedUntil[i]
        <5>1. ~overtaken /\ latest <= n /\ latest \in Nat
          BY <2>0, <4>1, <4>2, ReturnFacts, CallTypes DEF Calls
        <5>2. blockedUntil[i] <= latest + BlockTime
          BY <2>0, <2>1, <5>1 DEF InOrder, Ordered
        <5> QED BY <2>1, <4>4, <5>1, <5>2, Numbers
      <4> HIDE DEF U, gone, n
      <4>6. blockedUntil'[i] >= blockedUntil[i]
        BY <2>1, <4>3, <4>4, <4>5
      <4> QED BY <4>1, <4>2, <4>6
    <3> QED BY <2>3, <3>2, <3>3, <3>4, <3>5, <3>6 DEF Http
  <2>4. ASSUME NEW j \in IPs, Unblock(j) PROVE Held(i)
    <3>1. CASE j = i
      BY <2>4, <3>1
    <3>2. CASE j # i
      <4>1. i \in known' /\ blockedUntil'[i] = blockedUntil[i]
        BY <2>1, <2>4, <3>2 DEF Unblock, Reset
      <4> QED BY <2>1, <4>1
    <3> QED BY <3>1, <3>2
  <2> QED BY <2>2, <2>3, <2>4 DEF Next, Tick, client
<1> HIDE DEF Held
<1>2. LimiterInv /\ [Next]_vars
        => [\A i \in known : blockedUntil[i] > now /\ ~overtaken' => Held(i)]_vars
  BY <1>1
<1>3. Spec => [][\A i \in known : blockedUntil[i] > now /\ ~overtaken' => Held(i)]_vars
  BY <1>2, AlwaysLimiterInv, PTL DEF Spec
<1> QED BY <1>3 DEF BlockHolds, Held

-----------------------------------------------------------------------------
(* Stamps out of order.  A worker that was overtaken stores its stamp behind *)
(* newer ones, where trim() does not see it; but never one that is older by  *)
(* more than the worker was late.                                            *)

\* No stamp is newer than the newest reading, and none is older than one before
\* it by more than d.
Reach(req, last, d) ==
    /\ \A p \in DOMAIN req : req[p] <= last
    /\ \A p, q \in DOMAIN req : p <= q => req[p] <= req[q] + d

\* Every stored stamp is an admission: no tick has more of the former.
StampsIn(req, S) == {p \in DOMAIN req : req[p] \in S}
Covered(req, adm) ==
    \A S \in SUBSET Times : Cardinality(StampsIn(req, S)) <= SumOver(adm, S)

Recorded == \A i \in IPs : Reach(requests[i], latest, lag) /\ Covered(requests[i], admitted[i])

LEMMA StampsFinite ==
  ASSUME NEW req \in Seq(Times), NEW S
  PROVE  IsFiniteSet(StampsIn(req, S)) /\ Cardinality(StampsIn(req, S)) \in Nat
<1>1. IsFiniteSet(1..Len(req)) /\ DOMAIN req = 1..Len(req)
  BY StampTypes, UpTo
<1>2. StampsIn(req, S) \subseteq 1..Len(req)
  BY <1>1 DEF StampsIn
<1>3. IsFiniteSet(StampsIn(req, S))
  BY <1>1, <1>2, FS_Subset
<1> QED BY <1>3, FS_CardinalityType

LEMMA SumIn ==
  ASSUME NEW adm \in [Times -> Nat], NEW S \in SUBSET Times
  PROVE  IsFiniteSet(S) /\ SumOver(adm, S) \in Nat
<1>1. IsFiniteSet(S) /\ \A m \in S : adm[m] \in Nat
  BY TimesFinite, FS_Subset
<1> QED BY <1>1, SumType

LEMMA ReachLater ==
  ASSUME NEW req \in Seq(Times), NEW last \in Nat, NEW d \in Nat, Reach(req, last, d),
         NEW newest \in Nat, newest >= last, NEW later \in Nat, later >= d
  PROVE  Reach(req, newest, later)
<1>1. \A p \in DOMAIN req : req[p] \in Nat
  BY StampTypes
<1> QED BY <1>1 DEF Reach

\* A client that stores nothing
LEMMA NothingStored ==
  ASSUME NEW adm \in [Times -> Nat], NEW last, NEW d
  PROVE  Reach(<<>>, last, d) /\ Covered(<<>>, adm)
<1>1. DOMAIN <<>> = {}
  OBVIOUS
<1>2. Reach(<<>>, last, d)
  BY <1>1 DEF Reach
<1>3. ASSUME NEW S \in SUBSET Times
      PROVE  Cardinality(StampsIn(<<>>, S)) <= SumOver(adm, S)
  <2>1. StampsIn(<<>>, S) = {}
    BY <1>1 DEF StampsIn
  <2>2. Cardinality(StampsIn(<<>>, S)) = Cardinality({})
    BY <2>1, Zenon
  <2>3. SumOver(adm, S) \in Nat
    BY SumIn
  <2> QED BY <2>2, <2>3, FS_EmptySet
<1> QED BY <1>2, <1>3 DEF Covered

\* trim() removes stamps and moves the others forward.
LEMMA TrimRecorded ==
  ASSUME NEW req \in Seq(Times), NEW adm \in [Times -> Nat], NEW c \in Int,
         NEW last \in Nat, NEW d \in Nat, Reach(req, last, d), Covered(req, adm)
  PROVE  /\ Trim(req, c) \in Seq(Times)
         /\ Reach(Trim(req, c), last, d) /\ Covered(Trim(req, c), adm)
         /\ \A p \in DOMAIN Trim(req, c) : Trim(req, c)[p] + d > c
<1> DEFINE r == Trim(req, c)
<1>1. r \in Seq(Times)
  BY TrimFacts
<1>2. PICK k \in 0..Len(req) :
        /\ Len(r) = Len(req) - k
        /\ \A p \in 1..(Len(req) - k) : r[p] = req[p + k]
        /\ k < Len(req) => req[k + 1] > c
  BY TrimFacts
<1> HIDE DEF r
<1>3. /\ Len(req) \in Nat /\ k \in Nat /\ Len(r) \in Nat
      /\ DOMAIN req = 1..Len(req) /\ DOMAIN r = 1..Len(r)
      /\ \A p \in DOMAIN req : req[p] \in Nat
  BY <1>1, StampTypes
<1>4. \A p \in DOMAIN r : p + k \in DOMAIN req /\ r[p] = req[p + k] /\ r[p] \in Nat
  BY <1>2, <1>3, SMTT(30)
<1>5. ASSUME NEW p \in DOMAIN r, NEW q \in DOMAIN r, p <= q PROVE r[p] <= r[q] + d
  <2>1. p + k \in DOMAIN req /\ q + k \in DOMAIN req /\ p + k <= q + k
    BY <1>3, <1>4, <1>5
  <2> QED BY <1>4, <2>1 DEF Reach
<1>6. Reach(r, last, d)
  BY <1>4, <1>5 DEF Reach
<1>7. ASSUME NEW p \in DOMAIN r PROVE r[p] + d > c
  <2>1. 1 \in DOMAIN r /\ 1 <= p /\ k < Len(req)
    BY <1>2, <1>3
  <2>2. r[1] > c /\ r[1] \in Nat /\ r[p] \in Nat
    <3>0. 1 \in 1..(Len(req) - k) /\ 1 + k = k + 1
      BY <1>3, <2>1
    <3>1. r[1] = req[1 + k] /\ 1 + k = k + 1
      BY <1>2, <3>0
    <3> QED BY <1>2, <1>4, <2>1, <3>1
  <2>3. r[1] <= r[p] + d
    BY <1>5, <2>1
  <2> QED BY <2>2, <2>3
<1>8. ASSUME NEW S \in SUBSET Times
      PROVE  Cardinality(StampsIn(r, S)) <= SumOver(adm, S)
  <2> DEFINE A == StampsIn(r, S)
             B == StampsIn(req, S)
             f == [p \in A |-> p + k]
  <2>1. \A p \in A : p + k \in B /\ p \in Nat
    BY <1>3, <1>4 DEF StampsIn
  <2>2. IsFiniteSet(B) /\ Cardinality(B) \in Nat
    BY StampsFinite
  <2>3. Cardinality(A) \in Nat
    BY <1>1, StampsFinite
  <2> HIDE DEF A, B
  <2>4. f \in [A -> B] /\ \A p, q \in A : f[p] = f[q] => p = q
    BY <1>3, <2>1
  <2>5. f \in Injection(A, B)
    BY <2>4 DEF Injection, IsInjective
  <2> HIDE DEF f
  <2>6. Cardinality(A) <= Cardinality(B)
    BY <2>2, <2>5, FS_Injection
  <2>7. Cardinality(B) <= SumOver(adm, S) /\ SumOver(adm, S) \in Nat
    BY SumIn DEF Covered, B
  <2> QED BY <2>2, <2>3, <2>6, <2>7 DEF A
<1>9. Covered(r, adm)
  BY <1>8 DEF Covered
<1> QED BY <1>1, <1>6, <1>7, <1>9 DEF r

\* An admission is stored at the end, by a worker that is at most d late.
LEMMA AdmitRecorded ==
  ASSUME NEW req \in Seq(Times), NEW adm \in [Times -> Nat], NEW n \in Times,
         NEW last \in Nat, NEW newest \in Nat, NEW d \in Nat,
         Reach(req, last, d), Covered(req, adm),
         newest >= last, newest >= n, last <= n + d
  PROVE  Reach(Append(req, n), newest, d) /\ Covered(Append(req, n), [adm EXCEPT ![n] = @ + 1])
<1> DEFINE r == Append(req, n)
           more == [adm EXCEPT ![n] = @ + 1]
           l == Len(req)
<1>0. n \in Nat /\ l \in Nat
  BY TimesFinite
<1>1. /\ r \in Seq(Times) /\ DOMAIN r = 1..(l + 1) /\ DOMAIN req = 1..l
      /\ \A p \in 1..l : r[p] = req[p] /\ req[p] \in Nat
      /\ r[l + 1] = n
  <2>1. /\ r \in Seq(Times) /\ Len(r) = l + 1 /\ r[l + 1] = n
        /\ \A p \in 1..l : r[p] = req[p]
    BY <1>0
  <2>2. DOMAIN r = 1..(l + 1)
    BY <2>1
  <2> QED BY <2>1, <2>2, StampTypes
<1>2. \A p \in DOMAIN r : p \in 1..l \/ p = l + 1
  BY <1>0, <1>1
<1>3. more \in [Times -> Nat] /\ more[n] = adm[n] + 1 /\ \A m \in Times \ {n} : more[m] = adm[m]
  <2>1. adm[n] + 1 \in Nat
    OBVIOUS
  <2> QED BY <2>1
<1> HIDE DEF r, more, l
<1>4. Reach(r, newest, d)
  <2>1. \A p \in DOMAIN req : req[p] <= last /\ req[p] \in Nat
    BY <1>1 DEF Reach
  <2>2. \A p \in DOMAIN r : r[p] <= newest
    BY <1>0, <1>1, <1>2, <2>1
  <2>3. ASSUME NEW p \in DOMAIN r, NEW q \in DOMAIN r, p <= q PROVE r[p] <= r[q] + d
    <3>1. CASE q \in 1..l
      <4>1. p \in 1..l
        BY <1>0, <1>2, <2>3, <3>1
      <4> QED BY <1>1, <2>3, <3>1, <4>1 DEF Reach
    <3>2. CASE q = l + 1
      BY <1>0, <1>1, <1>2, <2>1, <3>2
    <3> QED BY <1>2, <3>1, <3>2
  <2> QED BY <2>2, <2>3 DEF Reach
<1>5. ASSUME NEW S \in SUBSET Times
      PROVE  Cardinality(StampsIn(r, S)) <= SumOver(more, S)
  <2>1. IsFiniteSet(StampsIn(req, S)) /\ Cardinality(StampsIn(req, S)) \in Nat
    BY StampsFinite
  <2>2. IsFiniteSet(S) /\ SumOver(adm, S) \in Nat
    BY SumIn
  <2>3. Cardinality(StampsIn(req, S)) <= SumOver(adm, S)
    BY DEF Covered
  <2>4. CASE n \in S
    <3>1. StampsIn(r, S) = StampsIn(req, S) \cup {l + 1} /\ l + 1 \notin StampsIn(req, S)
      BY <1>0, <1>1, <1>2, <2>4 DEF StampsIn
    <3>2. Cardinality(StampsIn(req, S) \cup {l + 1}) = Cardinality(StampsIn(req, S)) + 1
      BY <2>1, <3>1, FS_AddElement
    <3>3. adm[n] \in Nat /\ adm[n] + 1 \in Nat
      OBVIOUS
    <3>4. SumOver([adm EXCEPT ![n] = adm[n] + 1], S) = SumOver(adm, S) + (adm[n] + 1) - adm[n]
      BY <2>2, <2>4, <3>3, SumExceptIn, Zenon
    <3>5. more = [adm EXCEPT ![n] = adm[n] + 1]
      BY DEF more
    <3>6. SumOver(more, S) = SumOver(adm, S) + 1
      BY <2>2, <3>3, <3>4, <3>5
    <3> QED BY <2>1, <2>2, <2>3, <3>1, <3>2, <3>6
  <2>5. CASE n \notin S
    <3>1. StampsIn(r, S) = StampsIn(req, S)
      BY <1>0, <1>1, <1>2, <2>5 DEF StampsIn
    <3>2. \A m \in S : adm[m] \in Nat /\ more[m] = adm[m]
      BY <1>3, <2>5
    <3>3. SumOver(more, S) = SumOver(adm, S)
      BY <2>2, <3>2, SumSame
    <3> QED BY <2>3, <3>1, <3>3
  <2> QED BY <2>4, <2>5
<1> QED BY <1>4, <1>5 DEF Covered, r, more

\* What a step leaves alone or empties is still recorded.
LEMMA RecordedFrame ==
  ASSUME TypeOK, TypeOK', Recorded, latest' >= latest, lag' >= lag, NEW j \in IPs,
         \/ requests'[j] = requests[j] /\ admitted'[j] = admitted[j]
         \/ requests'[j] = <<>>
  PROVE  Reach(requests'[j], latest', lag') /\ Covered(requests'[j], admitted'[j])
<1>1. /\ latest \in Nat /\ latest' \in Nat /\ lag \in Nat /\ lag' \in Nat
      /\ requests[j] \in Seq(Times) /\ admitted'[j] \in [Times -> Nat]
  BY TimesFinite DEF TypeOK
<1>2. CASE requests'[j] = <<>>
  BY <1>1, <1>2, NothingStored
<1>3. CASE requests'[j] = requests[j] /\ admitted'[j] = admitted[j]
  <2>1. Reach(requests[j], latest, lag) /\ Covered(requests[j], admitted[j])
    BY DEF Recorded
  <2>2. Reach(requests[j], latest', lag')
    BY <1>1, <2>1, ReachLater
  <2> QED BY <1>3, <2>1, <2>2
<1> QED BY <1>2, <1>3

\* requestExceeded(): what trim() leaves, then the admission.
LEMMA ExceedRecorded ==
  ASSUME LimiterInv, TypeOK', Recorded, NEW t \in Threads, RequestExceeded(t)
  PROVE  /\ \A j \in IPs : Reach(requests'[j], latest', lag') /\ Covered(requests'[j], admitted'[j])
         /\ LET i == ip[t]
                n == at[t]
                recent == Trim(Reset(requests, Swept(n, Forced(i)), <<>>)[i], n - Window)
            IN /\ recent \in Seq(Times) /\ Covered(recent, admitted[i])
               /\ \A p \in DOMAIN recent : recent[p] + lag' > n - Window /\ recent[p] <= n + lag'
<1> DEFINE i == ip[t]
           n == at[t]
           gone == Swept(n, Forced(i))
           base == Reset(requests, gone, <<>>)
           b == base[i]
           recent == Trim(b, n - Window)
           count == CountLess(gone) - (Len(b) - Len(recent))
           rejected == Len(recent) >= RequestLimit \/ count >= MaximumEvents
           next == IF rejected THEN "idle" ELSE "admitted"
<1>0. TypeOK /\ Capacity /\ \A u \in Threads : WorkerOK(u)
  BY DEF LimiterInv
<1>1. /\ pc[t] = "exceeded" /\ n # 0 /\ i \in IPs /\ n \in Times /\ n \in Nat
      /\ n - Window \in Int
  BY <1>0, CallTypes, Numbers DEF RequestExceeded
<1>2. /\ requests' = [base EXCEPT ![i] = IF rejected THEN recent ELSE Append(recent, n)]
      /\ Return(t, next)
  BY Zenon DEF RequestExceeded
<1>3. gone \in SUBSET known
  BY SweptFacts
<1>4. base \in [IPs -> Seq(Times)] /\ b \in Seq(Times)
  BY <1>0, <1>1, <1>3, BaseTypes
<1>5. \A j \in IPs : base[j] = requests[j] \/ base[j] = <<>>
  BY DEF Reset
<1>6. /\ latest' >= latest /\ lag' >= lag /\ latest' >= n /\ latest <= n + lag'
      /\ latest \in Nat /\ latest' \in Nat /\ lag \in Nat /\ lag' \in Nat
  <2>1. next \in Calls \cup {"idle", "admitted"}
    OBVIOUS
  <2>2. latest' >= latest /\ lag' >= lag /\ latest' >= n /\ latest <= n + lag'
    <3> HIDE DEF next
    <3> QED BY <1>0, <1>1, <1>2, <2>1, ReturnFacts
  <2> QED BY <1>0, <2>2, TimesFinite DEF TypeOK
<1>7. admitted \in [IPs -> [Times -> Nat]] /\ admitted[i] \in [Times -> Nat]
  BY <1>0, <1>1 DEF TypeOK
<1> HIDE DEF gone, base
<1>8. Reach(b, latest, lag') /\ Covered(b, admitted[i])
  <2>1. CASE b = <<>>
    BY <1>7, <2>1, NothingStored
  <2>2. CASE b = requests[i]
    <3>1. Reach(b, latest, lag) /\ Covered(b, admitted[i])
      BY <1>1, <2>2 DEF Recorded
    <3>2. latest >= latest
      BY <1>6
    <3> HIDE DEF b
    <3>3. Reach(b, latest, lag')
      BY <1>4, <1>6, <3>1, <3>2, ReachLater
    <3> QED BY <3>1, <3>3
  <2> QED BY <1>1, <1>5, <2>1, <2>2
<1> HIDE DEF b
<1>9. /\ recent \in Seq(Times) /\ Reach(recent, latest, lag') /\ Covered(recent, admitted[i])
      /\ \A p \in DOMAIN recent : recent[p] + lag' > n - Window
  BY <1>1, <1>4, <1>6, <1>7, <1>8, TrimRecorded
<1> HIDE DEF recent
<1>10. \A p \in DOMAIN recent : recent[p] <= n + lag'
  <2>1. \A p \in DOMAIN recent : recent[p] \in Nat /\ recent[p] <= latest
    BY <1>9, StampTypes DEF Reach
  <2> QED BY <1>1, <1>6, <2>1
<1>11. ASSUME NEW j \in IPs
       PROVE  Reach(requests'[j], latest', lag') /\ Covered(requests'[j], admitted'[j])
  <2>1. CASE j # i
    <3>1. requests'[j] = base[j]
      BY <1>2, <1>4, <2>1
    <3>2. admitted'[j] = admitted[j]
      BY <1>1, <1>2, <1>7, <2>1 DEF Return
    <3> QED BY <1>0, <1>5, <1>6, <3>1, <3>2, RecordedFrame
  <2>2. CASE j = i /\ rejected
    <3>1. requests'[j] = recent /\ Return(t, "idle")
      BY <1>1, <1>2, <1>4, <2>2
    <3>2. admitted' = admitted
      BY <3>1 DEF Return
    <3>3. lag' >= lag'
      BY <1>6
    <3>4. Reach(recent, latest', lag')
      BY <1>6, <1>9, <3>3, ReachLater
    <3> QED BY <1>9, <2>2, <3>1, <3>2, <3>4
  <2>3. CASE j = i /\ ~rejected
    <3>1. requests'[j] = Append(recent, n) /\ Return(t, "admitted")
      BY <1>1, <1>2, <1>4, <2>3
    <3>2. admitted'[i] = [admitted[i] EXCEPT ![n] = @ + 1]
      <4>1. admitted' = [admitted EXCEPT ![i][n] = @ + 1]
        BY <3>1 DEF Return
      <4> HIDE DEF i, n
      <4> QED BY <1>1, <1>7, <4>1
    <3>3. /\ Reach(Append(recent, n), latest', lag')
          /\ Covered(Append(recent, n), [admitted[i] EXCEPT ![n] = @ + 1])
      <4> HIDE DEF i, n
      <4> QED BY <1>1, <1>6, <1>7, <1>9, AdmitRecorded
    <3> QED BY <2>3, <3>1, <3>2, <3>3
  <2> QED BY <2>1, <2>2, <2>3
<1> QED BY <1>9, <1>10, <1>11 DEF recent, b, base, gone

LEMMA RecordedInit == Init => Recorded
<1> SUFFICES ASSUME Init, NEW i \in IPs
             PROVE  Reach(requests[i], latest, lag) /\ Covered(requests[i], admitted[i])
  BY DEF Recorded
<1>1. requests[i] = <<>> /\ admitted[i] \in [Times -> Nat]
  BY DEF Init, NoStamps
<1> QED BY <1>1, NothingStored

LEMMA RecordedNext == LimiterInv /\ Recorded /\ [Next]_vars => Recorded'
<1> SUFFICES ASSUME LimiterInv, Recorded, [Next]_vars, NEW j \in IPs
             PROVE  Reach(requests'[j], latest', lag') /\ Covered(requests'[j], admitted'[j])
  BY DEF Recorded, Reach, Covered, StampsIn
<1>0. TypeOK /\ TypeOK' /\ \A u \in Threads : WorkerOK(u)
  BY LimiterNext DEF LimiterInv
<1>1. latest >= latest /\ lag >= lag
  <2>1. latest \in Nat /\ lag \in Nat
    BY <1>0, TimesFinite DEF TypeOK
  <2> QED BY <2>1
<1>2. CASE UNCHANGED <<requests, history>>
  BY <1>0, <1>1, <1>2, RecordedFrame DEF history
<1>3. ASSUME NEW t \in Threads, Blocked(t) \/ NotTracked(t) \/ RecordDenial(t) \/ Resolve(t)
      PROVE  Reach(requests'[j], latest', lag') /\ Covered(requests'[j], admitted'[j])
  <2>1. PICK next \in Calls \cup {"idle"} : Return(t, next)
    BY <1>3 DEF Blocked, NotTracked, RecordDenial, Resolve, Calls
  <2>2. pc[t] # "idle"
    BY <1>3 DEF Blocked, NotTracked, RecordDenial, Resolve
  <2>3. latest' >= latest /\ lag' >= lag
    BY <1>0, <2>1, <2>2, ReturnFacts
  <2>4. admitted' = admitted
    BY <2>1 DEF Return, Calls
  <2>5. requests'[j] = requests[j] \/ requests'[j] = <<>>
    BY <1>3 DEF Blocked, NotTracked, RecordDenial, Resolve, Reset, client
  <2> QED BY <1>0, <2>3, <2>4, <2>5, RecordedFrame
<1>4. ASSUME NEW t \in Threads, RequestExceeded(t)
      PROVE  Reach(requests'[j], latest', lag') /\ Covered(requests'[j], admitted'[j])
  BY <1>0, <1>4, ExceedRecorded
<1>5. ASSUME NEW i \in IPs, Unblock(i)
      PROVE  Reach(requests'[j], latest', lag') /\ Covered(requests'[j], admitted'[j])
  <2>1. latest' = latest /\ lag' = lag
    BY <1>5 DEF Unblock
  <2>2. \/ requests'[j] = requests[j] /\ admitted'[j] = admitted[j]
        \/ requests'[j] = <<>>
    BY <1>5 DEF Unblock, Reset
  <2> QED BY <1>0, <1>1, <2>1, <2>2, RecordedFrame
<1>6. CASE Clear
  <2>1. requests'[j] = <<>> /\ admitted'[j] \in [Times -> Nat]
    BY <1>6 DEF Clear, NoStamps
  <2> QED BY <2>1, NothingStored
<1>7. ASSUME NEW t \in Threads, NEW i \in IPs, Arrive(t, i) PROVE UNCHANGED <<requests, history>>
  BY <1>7 DEF Arrive, client
<1>8. ASSUME NEW t \in Threads, ReadClock(t) PROVE UNCHANGED <<requests, history>>
  BY <1>8 DEF ReadClock, client
<1>9. CASE Tick
  BY <1>2, <1>9 DEF Tick, client
<1>10. CASE UNCHANGED vars
  BY <1>2, <1>10 DEF vars, client
<1> QED BY <1>2, <1>3, <1>4, <1>5, <1>6, <1>7, <1>8, <1>9, <1>10 DEF Next, Http

LEMMA AlwaysRecorded == Spec => []Recorded
  BY RecordedInit, RecordedNext, AlwaysLimiterInv, PTL DEF Spec

\* rate_limiter.cpp, requestExceeded(): a rejected request is not recorded, so
\* an address is turned away only when admitted requests have used up its
\* window, or when the map or the event store is full.  Stamps out of order,
\* which trim() keeps behind a newer front, lengthen that window by no more than
\* the workers that stored them were late.
THEOREM RejectionsAreJustified == Spec => RejectionsJustified
<1> DEFINE Just(t) == \/ AdmittedAround(ip[t], at[t], lag') >= RequestLimit
                      \/ eventCount' >= MaximumEvents
                      \/ Cardinality(known') >= MaximumClients /\ ip[t] \notin known'
           Rejects(t) == pc[t] = "exceeded" /\ pc'[t] = "idle"
<1>1. ASSUME LimiterInv, LimiterInv', Recorded, [Next]_vars
      PROVE  [\A t \in Threads : Rejects(t) => Just(t)]_vars
  <2> SUFFICES ASSUME Next, NEW t \in Threads, Rejects(t) PROVE Just(t)
    BY <1>1
  <2>0. TypeOK /\ TypeOK' /\ Capacity /\ \A u \in Threads : WorkerOK(u)
    BY <1>1 DEF LimiterInv
  <2>1. pc \in [Threads -> Calls \cup {"idle", "admitted"}]
    BY <2>0 DEF TypeOK
  <2>2. RequestExceeded(t) \/ NotTracked(t)
    <3>1. ASSUME NEW u \in Threads, Http(u) PROVE u = t
      <4>1. PICK p : pc' = [pc EXCEPT ![u] = p] \/ pc' = pc
        BY <3>1 DEF Http, Arrive, ReadClock, Blocked, RequestExceeded, Resolve, RecordDenial,
                    NotTracked, Return
      <4> QED BY <2>1, <4>1
    <3>2. PICK u \in Threads : Http(u)
      BY DEF Next, Tick, Unblock, Clear, thread
    <3>3. Http(t)
      BY <3>1, <3>2
    <3> QED BY <2>1, <3>3 DEF Http, Arrive, ReadClock, Blocked, Resolve, RecordDenial
  <2> DEFINE i == ip[t]
             n == at[t]
             gone == Swept(n, Forced(i))
  <2>3. i \in IPs /\ n \in Times /\ n \in Nat /\ gone \in SUBSET known
    BY <2>0, CallTypes, SweptFacts
  <2>4. CASE NotTracked(t)
    <3>1. known' = known \ gone /\ ~Fits(i, gone)
      BY <2>4, Zenon DEF NotTracked
    <3>2. i \notin known \ gone /\ ~(Cardinality(known \ gone) < MaximumClients)
      BY <3>1, Zenon DEF Fits
    <3>3. known \in SUBSET IPs /\ IsFiniteSet(known \ gone)
      BY <2>0, KnownFinite, FS_Subset DEF TypeOK
    <3>4. Cardinality(known \ gone) \in Nat
      BY <3>3, FS_CardinalityType
    <3>5. Cardinality(known \ gone) >= MaximumClients
      BY <3>2, <3>4, Numbers
    <3> QED BY <3>1, <3>2, <3>5, Zenon
  <2>5. CASE RequestExceeded(t)
    <3> DEFINE base == Reset(requests, gone, <<>>)
               recent == Trim(base[i], n - Window)
               count == CountLess(gone) - (Len(base[i]) - Len(recent))
               rejected == Len(recent) >= RequestLimit \/ count >= MaximumEvents
               near == {m \in Times : n - Window - lag' < m /\ m <= n + lag'}
    <3>1. /\ Return(t, IF rejected THEN "idle" ELSE "admitted")
          /\ eventCount' = IF rejected THEN count ELSE count + 1
      BY <2>5, Zenon DEF RequestExceeded
    <3>2. rejected
      BY <2>1, <3>1 DEF Return
    <3>3. eventCount' = count
      BY <3>1, <3>2, Zenon
    <3>4. CASE count >= MaximumEvents
      BY <3>3, <3>4, Zenon
    <3>5. CASE Len(recent) >= RequestLimit
      <4>1. /\ recent \in Seq(Times) /\ Covered(recent, admitted[i])
            /\ \A p \in DOMAIN recent : recent[p] + lag' > n - Window /\ recent[p] <= n + lag'
        BY <1>1, <2>0, <2>5, ExceedRecorded
      <4> HIDE DEF recent
      <4>2. /\ Len(recent) \in Nat /\ DOMAIN recent = 1..Len(recent)
            /\ \A p \in DOMAIN recent : recent[p] \in Times /\ recent[p] \in Nat
        BY <4>1, StampTypes
      <4>3. lag' \in Nat
        BY <2>0, TimesFinite DEF TypeOK
      <4>4. StampsIn(recent, near) = 1..Len(recent)
        <5>1. \A p \in DOMAIN recent : recent[p] \in near
          BY <2>3, <4>1, <4>2, <4>3, Numbers
        <5> HIDE DEF near
        <5> QED BY <4>2, <5>1 DEF StampsIn
      <4>5. Cardinality(StampsIn(recent, near)) = Len(recent)
        BY <4>2, <4>4, UpTo
      <4>6. Cardinality(StampsIn(recent, near)) <= SumOver(admitted[i], near)
        BY <4>1 DEF Covered
      <4>7. SumOver(admitted[i], near) \in Nat
        BY <2>0, <2>3, SumIn DEF TypeOK
      <4>8. SumOver(admitted[i], near) >= RequestLimit
        <5> HIDE DEF near
        <5> QED BY <3>5, <4>2, <4>5, <4>6, <4>7, Numbers
      <4> QED BY <4>8 DEF AdmittedAround
    <3> QED BY <3>2, <3>4, <3>5, Zenon
  <2> QED BY <2>2, <2>4, <2>5
<1> HIDE DEF Just, Rejects
<1>2. LimiterInv /\ LimiterInv' /\ Recorded /\ [Next]_vars
        => [\A t \in Threads : Rejects(t) => Just(t)]_vars
  BY <1>1
<1>3. Spec => [][\A t \in Threads : Rejects(t) => Just(t)]_vars
  BY <1>2, AlwaysLimiterInv, AlwaysRecorded, PTL DEF Spec
<1> QED BY <1>3 DEF RejectionsJustified, Just, Rejects
=============================================================================
