------------------------- MODULE AsyncLoggerProofs -------------------------
(***************************************************************************)
(* Proofs about AsyncLogger: for any queue bound, retention, number of     *)
(* lines, days and restarts, with every open and every write free to fail. *)
(***************************************************************************)
EXTENDS AsyncLogger, TLAPS

-----------------------------------------------------------------------------
(* Rising sequences *)

Rising(s) == \A i, j \in DOMAIN s : i < j => s[i] < s[j]
Below(s, t) == \A i \in DOMAIN s, j \in DOMAIN t : s[i] < t[j]
UpTo(s, n) == \A i \in DOMAIN s : s[i] <= n

LEMMA RisingConcat ==
  ASSUME NEW s \in Seq(Nat), NEW t \in Seq(Nat), Rising(s), Rising(t), Below(s, t)
  PROVE  Rising(s \o t)
<1> SUFFICES ASSUME NEW i \in DOMAIN (s \o t), NEW j \in DOMAIN (s \o t), i < j
             PROVE  (s \o t)[i] < (s \o t)[j]
  BY DEF Rising
<1>1. /\ \A k \in 1..Len(s) : (s \o t)[k] = s[k] /\ k \in DOMAIN s
      /\ \A k \in DOMAIN (s \o t) :
           k > Len(s) => (s \o t)[k] = t[k - Len(s)] /\ k - Len(s) \in DOMAIN t
      /\ DOMAIN (s \o t) \subseteq Nat \ {0} /\ Len(s) \in Nat
  OBVIOUS
<1>2. CASE i <= Len(s) /\ j <= Len(s)
  BY <1>1, <1>2 DEF Rising
<1>3. CASE i <= Len(s) /\ j > Len(s)
  BY <1>1, <1>3 DEF Below
<1>4. CASE i > Len(s) /\ j > Len(s)
  BY <1>1, <1>4 DEF Rising
<1> QED BY <1>1, <1>2, <1>3, <1>4

LEMMA BelowConcat ==
  ASSUME NEW s \in Seq(Nat), NEW t \in Seq(Nat), NEW u \in Seq(Nat)
  PROVE  /\ Below(s, u) /\ Below(t, u) => Below(s \o t, u)
         /\ Below(s, t) /\ Below(s, u) => Below(s, t \o u)
<1>1. /\ \A k \in DOMAIN (s \o t) : \/ k \in DOMAIN s /\ (s \o t)[k] = s[k]
                                    \/ k - Len(s) \in DOMAIN t /\ (s \o t)[k] = t[k - Len(s)]
      /\ \A k \in DOMAIN (t \o u) : \/ k \in DOMAIN t /\ (t \o u)[k] = t[k]
                                    \/ k - Len(t) \in DOMAIN u /\ (t \o u)[k] = u[k - Len(t)]
  OBVIOUS
<1>2. Below(s, u) /\ Below(t, u) => Below(s \o t, u)
  BY <1>1 DEF Below
<1>3. Below(s, t) /\ Below(s, u) => Below(s, t \o u)
  BY <1>1 DEF Below
<1> QED BY <1>2, <1>3

LEMMA UpToConcat ==
  ASSUME NEW s \in Seq(Nat), NEW t \in Seq(Nat), NEW n \in Nat, UpTo(s, n), UpTo(t, n)
  PROVE  UpTo(s \o t, n)
  BY DEF UpTo

\* A prefix of a batch
LEMMA Prefix ==
  ASSUME NEW S, NEW s \in Seq(S), NEW n \in 0..Len(s)
  PROVE  /\ SubSeq(s, 1, n) \in Seq(S) /\ Len(SubSeq(s, 1, n)) = n
         /\ DOMAIN SubSeq(s, 1, n) \subseteq DOMAIN s
         /\ \A i \in DOMAIN SubSeq(s, 1, n) : SubSeq(s, 1, n)[i] = s[i]
  OBVIOUS

LEMMA ConcatType ==
  ASSUME NEW S, NEW s \in Seq(S), NEW t \in Seq(S)
  PROVE  s \o t \in Seq(S) /\ Len(s \o t) = Len(s) + Len(t)
  OBVIOUS

LEMMA Numbers ==
  /\ MaxDay \in Nat \ {0} /\ MaxQueuedLines \in Nat \ {0}
  /\ MaxLines \in Nat /\ KeepDays \in Nat /\ OldDays \subseteq Int
  BY LoggerConstants

-----------------------------------------------------------------------------
(* The inductive invariant *)

Bounds ==
    /\ day \in 1..MaxDay
    /\ daemon \in BOOLEAN /\ stopping \in BOOLEAN
    /\ tpc \in {"none", "wait", "open", "emit", "exited"}
    /\ opened \in BOOLEAN /\ good \in BOOLEAN
    /\ openDay \in 0..MaxDay
    /\ logs \subseteq OldDays \cup 1..MaxDay
    /\ calls \in 0..MaxLines
    /\ queue \in Seq(1..MaxLines) /\ Len(queue) <= MaxQueuedLines
    /\ batch \in Seq(1..MaxLines)
    /\ written \in Seq(1..MaxLines)
    /\ dropped \in Nat /\ carried \in Nat /\ reported \in Nat /\ failed \in Nat

\* Without a thread write() discards, nothing is queued and no loss is pending;
\* outside Open and Emit the thread holds no lines.
Thread ==
    /\ ~Alive => stopping /\ queue = <<>> /\ dropped = 0
    /\ tpc \notin {"open", "emit"} => batch = <<>> /\ carried = 0

\* A thread that exits takes the losses it has not reported with it.
Total == Len(written) + Len(batch) + Len(queue) + reported + carried + dropped + failed
Balance == Total <= calls /\ (Alive => calls = Total)

Order ==
    /\ Rising(written) /\ Rising(batch) /\ Rising(queue)
    /\ Below(written, batch) /\ Below(written, queue) /\ Below(batch, queue)
    /\ UpTo(written, calls) /\ UpTo(batch, calls) /\ UpTo(queue, calls)

\* What purge() left when the file was opened
Kept ==
    opened => /\ openDay \in logs
              /\ KeepDays # 0 => \A d \in logs : d > openDay - KeepDays

LoggerInv == Bounds /\ Thread /\ Balance /\ Order /\ Kept

LEMMA LoggerShows ==
  LoggerInv => TypeOK /\ LossAccounted /\ NoOrphanLines /\ InOrder
<1> SUFFICES ASSUME LoggerInv PROVE TypeOK /\ LossAccounted /\ NoOrphanLines /\ InOrder
  OBVIOUS
<1> USE Numbers
<1>1. Bounds /\ Thread /\ Balance /\ Order
  BY DEF LoggerInv
<1>2. TypeOK
  <2>1. Len(written) \in Nat /\ Len(batch) \in Nat /\ Len(queue) \in Nat
    BY <1>1 DEF Bounds
  <2>2. /\ dropped \in 0..MaxLines /\ carried \in 0..MaxLines
        /\ reported \in 0..MaxLines /\ failed \in 0..MaxLines
    BY <1>1, <2>1 DEF Balance, Total, Bounds
  <2> QED BY <1>1, <2>2 DEF TypeOK, Bounds
<1>3. InOrder
  <2>1. written \in Seq(Nat) /\ batch \in Seq(Nat) /\ queue \in Seq(Nat)
    BY <1>1 DEF Bounds
  <2>2. Rising(written \o batch) /\ written \o batch \in Seq(Nat)
    BY <1>1, <2>1, RisingConcat DEF Order
  <2>3. Below(written \o batch, queue)
    BY <1>1, <2>1, BelowConcat DEF Order
  <2>4. Rising((written \o batch) \o queue)
    BY <1>1, <2>1, <2>2, <2>3, RisingConcat DEF Order
  <2> QED BY <2>4 DEF InOrder, Rising
<1> QED BY <1>1, <1>2, <1>3 DEF LossAccounted, Balance, Total, NoOrphanLines, Thread

-----------------------------------------------------------------------------
(* One step per action *)

LEMMA LoggerStarts == Init => LoggerInv
<1> SUFFICES ASSUME Init PROVE LoggerInv
  OBVIOUS
<1> USE Numbers
<1>1. /\ written = <<>> /\ batch = <<>> /\ queue = <<>> /\ calls = 0
      /\ reported = 0 /\ carried = 0 /\ dropped = 0 /\ failed = 0
  BY DEF Init
<1>2. Bounds /\ Thread /\ Kept
  <2>1. <<>> \in Seq(1..MaxLines) /\ Len(<<>>) <= MaxQueuedLines
    OBVIOUS
  <2>3. 1 \in 1..MaxDay /\ 0 \in 0..MaxDay /\ 0 \in 0..MaxLines /\ 0 \in Nat
    OBVIOUS
  <2>4. day \in 1..MaxDay /\ openDay \in 0..MaxDay /\ logs \subseteq OldDays \cup 1..MaxDay
    BY <2>3 DEF Init
  <2>2. Bounds
    BY <1>1, <2>1, <2>3, <2>4 DEF Init, Bounds
  <2> QED BY <2>2 DEF Init, Thread, Kept, Alive
<1>3. Balance
  BY <1>1 DEF Balance, Total
<1>4. Order
  BY <1>1 DEF Order, Rising, Below, UpTo
<1> QED BY <1>2, <1>3, <1>4 DEF LoggerInv

LEMMA WriteOK == LoggerInv /\ Write => LoggerInv'
<1> SUFFICES ASSUME LoggerInv, Write PROVE LoggerInv'
  OBVIOUS
<1> USE Numbers
<1>0. Bounds /\ Thread /\ Balance /\ Order /\ Kept
  BY DEF LoggerInv
<1>1. /\ UNCHANGED <<day, daemon, stopping, tpc, batch, carried, opened, good, openDay,
                     logs, written, reported, failed>>
  BY DEF Write, local, output
<1>2. Kept'
  BY <1>0, <1>1 DEF Kept
<1>3. CASE stopping
  BY <1>0, <1>1, <1>2, <1>3
     DEF Write, LoggerInv, Bounds, Thread, Balance, Total, Order, Alive, Rising, Below, UpTo
<1>4. CASE ~stopping /\ Full
  <2>1. calls' = calls + 1 /\ dropped' = dropped + 1 /\ queue' = queue /\ calls < MaxLines
    BY <1>4 DEF Write
  <2>4. Bounds' /\ Thread'
    BY <1>0, <1>1, <1>4, <2>1 DEF Bounds, Thread, Alive
  <2>5. Len(written) \in Nat /\ Len(batch) \in Nat /\ Len(queue) \in Nat
    BY <1>0 DEF Bounds
  <2>2. Bounds' /\ Thread' /\ Balance'
    <3>1. /\ dropped \in Nat /\ carried \in Nat /\ reported \in Nat /\ failed \in Nat
          /\ calls \in Nat
      BY <1>0 DEF Bounds
    <3>2. Total' = Total + 1
      BY <1>1, <2>1, <2>5, <3>1 DEF Total
    <3>3. Total \in Nat
      BY <2>5, <3>1 DEF Total
    <3> QED BY <1>0, <1>1, <2>1, <2>4, <3>1, <3>2, <3>3 DEF Balance, Alive
  <2>3. Order'
    BY <1>0, <1>1, <2>1 DEF Order, Bounds, Rising, Below, UpTo
  <2> QED BY <1>2, <2>2, <2>3 DEF LoggerInv
<1>5. CASE ~stopping /\ ~Full
  <2> DEFINE line == calls + 1
  <2>1. /\ calls' = line /\ dropped' = dropped /\ queue' = Append(queue, line)
        /\ calls < MaxLines /\ Len(queue) < MaxQueuedLines
    BY <1>0, <1>5 DEF Write, Push, Full, Bounds
  <2>7. line \in 1..MaxLines
    BY <1>0, <2>1 DEF Bounds
  <2>8. queue \in Seq(1..MaxLines)
    BY <1>0 DEF Bounds
  <2> HIDE DEF line
  <2>2. /\ line \in 1..MaxLines /\ Len(queue') = Len(queue) + 1
        /\ queue' \in Seq(1..MaxLines)
        /\ DOMAIN queue' = DOMAIN queue \cup {Len(queue) + 1}
        /\ DOMAIN queue = 1..Len(queue)
        /\ queue'[Len(queue) + 1] = line
        /\ \A i \in DOMAIN queue : queue'[i] = queue[i]
    BY <2>1, <2>7, <2>8
  <2>3. Bounds'
    BY <1>0, <1>1, <2>1, <2>2 DEF Bounds
  <2>4. Thread'
    BY <1>0, <1>1, <1>5, <2>1 DEF Thread, Alive
  <2>5. Balance'
    BY <1>0, <1>1, <2>1, <2>2 DEF Balance, Total, Alive, Bounds, line
  <2>6. Order'
    <3>1. /\ \A i \in DOMAIN written : written[i] <= calls /\ written[i] \in Nat
          /\ \A i \in DOMAIN batch : batch[i] <= calls /\ batch[i] \in Nat
          /\ \A i \in DOMAIN queue : queue[i] <= calls /\ queue[i] \in Nat
      BY <1>0 DEF Order, UpTo, Bounds
    <3>2. line = calls + 1 /\ calls \in Nat /\ Len(queue) \in Nat
      BY <1>0, <2>2 DEF line, Bounds
    <3>3. UpTo(written', calls') /\ UpTo(batch', calls') /\ UpTo(queue', calls')
      BY <1>1, <2>1, <2>2, <3>1, <3>2 DEF UpTo
    <3>4. Rising(queue')
      BY <1>0, <2>2, <3>1, <3>2 DEF Order, Rising
    <3>5. Below(written', queue') /\ Below(batch', queue')
      BY <1>0, <1>1, <2>2, <3>1, <3>2 DEF Order, Below
    <3>6. Rising(written') /\ Rising(batch') /\ Below(written', batch')
      BY <1>0, <1>1 DEF Order
    <3> QED BY <3>3, <3>4, <3>5, <3>6 DEF Order
  <2> QED BY <1>2, <2>3, <2>4, <2>5, <2>6 DEF LoggerInv
<1> QED BY <1>3, <1>4, <1>5

LEMMA TakeOK == LoggerInv /\ Take => LoggerInv'
<1> SUFFICES ASSUME LoggerInv, Take PROVE LoggerInv'
  OBVIOUS
<1> USE Numbers
<1>0. Bounds /\ Thread /\ Balance /\ Order /\ Kept
  BY DEF LoggerInv
<1>1. /\ UNCHANGED <<day, daemon, stopping, opened, good, openDay, logs, calls, written,
                     reported, failed>>
      /\ dropped' = 0 /\ batch = <<>> /\ carried = 0
  BY <1>0 DEF Take, output, ghosts, Thread
<1>2. Kept'
  BY <1>0, <1>1 DEF Kept
<1>3. CASE ExitNow
  <2>1. /\ batch' = <<>> /\ queue' = <<>> /\ queue = <<>> /\ carried' = 0
        /\ tpc' = "exited" /\ stopping
    BY <1>3 DEF Take, ExitNow
  <2>2. Bounds' /\ Thread'
    BY <1>0, <1>1, <2>1 DEF Bounds, Thread, Alive
  <2>3. Balance'
    BY <1>0, <1>1, <2>1 DEF Balance, Total, Alive, Bounds
  <2>4. Order'
    BY <1>0, <1>1, <2>1 DEF Order, Rising, Below, UpTo
  <2> QED BY <1>2, <2>2, <2>3, <2>4 DEF LoggerInv
<1>4. CASE ~ExitNow
  <2>1. /\ batch' = queue /\ queue' = <<>> /\ carried' = dropped /\ tpc' = "open"
        /\ tpc = "wait"
    BY <1>4 DEF Take
  <2>2. Bounds' /\ Thread'
    BY <1>0, <1>1, <2>1 DEF Bounds, Thread, Alive
  <2>3. Balance'
    BY <1>0, <1>1, <2>1 DEF Balance, Total, Alive, Bounds
  <2>4. Order'
    BY <1>0, <1>1, <2>1 DEF Order, Rising, Below, UpTo
  <2> QED BY <1>2, <2>2, <2>3, <2>4 DEF LoggerInv
<1> QED BY <1>3, <1>4

LEMMA OpenOK == LoggerInv /\ Open => LoggerInv'
<1> SUFFICES ASSUME LoggerInv, Open PROVE LoggerInv'
  OBVIOUS
<1> USE Numbers
<1>0. Bounds /\ Thread /\ Balance /\ Order /\ Kept
  BY DEF LoggerInv
<1>1. /\ UNCHANGED <<day, daemon, stopping, queue, dropped, batch, carried, calls, written,
                     reported, failed>>
      /\ tpc = "open" /\ tpc' = "emit"
  BY DEF Open, shared, local, ghosts
<1>2. Thread' /\ Balance' /\ Order'
  BY <1>0, <1>1 DEF Thread, Balance, Total, Alive, Order, Rising, Below, UpTo
<1>3. CASE UNCHANGED <<output, logs>>
  BY <1>0, <1>1, <1>2, <1>3 DEF LoggerInv, Bounds, Kept, output
<1>4. CASE /\ opened' = TRUE /\ good' = TRUE /\ openDay' = day
           /\ logs' = (logs \ Purged(day)) \cup {day}
  <2>1. logs \subseteq Int /\ day \in Int
    BY <1>0 DEF Bounds
  <2>2. KeepDays # 0 => \A d \in logs' : d > day - KeepDays
    BY <1>4, <2>1 DEF Purged
  <2>3. Kept'
    BY <1>4, <2>2 DEF Kept
  <2>5. logs' \subseteq OldDays \cup 1..MaxDay /\ openDay' \in 0..MaxDay
    <3>1. day \in 1..MaxDay /\ day \in 0..MaxDay
      BY <1>0 DEF Bounds
    <3> QED BY <1>0, <1>4, <3>1 DEF Bounds
  <2>4. Bounds'
    BY <1>0, <1>1, <1>4, <2>5 DEF Bounds
  <2> QED BY <1>2, <2>3, <2>4 DEF LoggerInv
<1>5. CASE opened' = FALSE /\ good' = FALSE /\ UNCHANGED <<openDay, logs>>
  BY <1>0, <1>1, <1>2, <1>5 DEF LoggerInv, Bounds, Kept
<1> QED BY <1>3, <1>4, <1>5 DEF Open

LEMMA EmitOK == LoggerInv /\ Emit => LoggerInv'
<1> SUFFICES ASSUME LoggerInv, Emit PROVE LoggerInv'
  OBVIOUS
<1> USE Numbers
<1>0. Bounds /\ Thread /\ Balance /\ Order /\ Kept
  BY DEF LoggerInv
<1>1. /\ UNCHANGED <<day, daemon, stopping, queue, opened, openDay, logs, calls>>
      /\ tpc = "emit" /\ tpc' = "wait" /\ batch' = <<>> /\ carried' = 0
  BY DEF Emit
<1>2. Kept' /\ Thread'
  BY <1>0, <1>1 DEF Kept, Thread, Alive
<1>3. calls = Total
  BY <1>0, <1>1 DEF Balance, Alive
<1>4. /\ written \in Seq(1..MaxLines) /\ batch \in Seq(1..MaxLines)
      /\ queue \in Seq(1..MaxLines) /\ 1..MaxLines \subseteq Nat
      /\ written \in Seq(Nat) /\ batch \in Seq(Nat) /\ queue \in Seq(Nat)
      /\ Len(written) \in Nat /\ Len(batch) \in Nat /\ Len(queue) \in Nat
      /\ dropped \in Nat /\ carried \in Nat /\ reported \in Nat /\ failed \in Nat
      /\ calls \in Nat
  BY <1>0 DEF Bounds
<1>5. CASE ~good
  <2>1. /\ dropped' = dropped + carried + Len(batch)
        /\ UNCHANGED <<good, written, reported, failed>>
    BY <1>5 DEF Emit, LossCarried
  <2>2. Bounds'
    BY <1>0, <1>1, <1>4, <2>1 DEF Bounds
  <2>3. Balance'
    BY <1>1, <1>3, <1>4, <2>1 DEF Balance, Total
  <2>4. Order'
    BY <1>0, <1>1, <2>1 DEF Order, Rising, Below, UpTo
  <2> QED BY <1>2, <2>2, <2>3, <2>4 DEF LoggerInv
\* Some prefix of the batch reaches the disk.
<1>6. ASSUME NEW n \in 0..Len(batch), written' = written \o SubSeq(batch, 1, n),
             dropped' = dropped, good' \in BOOLEAN, reported' \in Nat, failed' \in Nat,
             reported' + failed' = reported + failed + carried + Len(batch) - n
      PROVE  LoggerInv'
  <2> DEFINE part == SubSeq(batch, 1, n)
  <2>1. /\ part \in Seq(Nat) /\ part \in Seq(1..MaxLines) /\ Len(part) = n
        /\ DOMAIN part \subseteq DOMAIN batch
        /\ \A i \in DOMAIN part : part[i] = batch[i]
    <3>1. /\ part \in Seq(1..MaxLines) /\ Len(part) = n
          /\ DOMAIN part \subseteq DOMAIN batch
          /\ \A i \in DOMAIN part : part[i] = batch[i]
      <4>1. n \in 0..Len(batch) /\ batch \in Seq(1..MaxLines)
        BY <1>4, <1>6
      <4> QED BY <4>1, Prefix, SMTT(20)
    <3>2. part \in Seq(Nat)
      <4>1. n \in 0..Len(batch) /\ batch \in Seq(Nat)
        BY <1>4, <1>6
      <4> QED BY <4>1, Prefix, SMTT(20)
    <3> QED BY <3>1, <3>2
  <2> HIDE DEF part
  <2>2. written' = written \o part
    BY <1>6 DEF part
  <2>3. written' \in Seq(1..MaxLines) /\ Len(written') = Len(written) + n
    BY <1>4, <2>1, <2>2, ConcatType
  <2>4. Bounds'
    <3>1. Len(<<>>) = 0 /\ <<>> \in Seq(1..MaxLines)
      OBVIOUS
    <3> QED BY <1>0, <1>1, <1>4, <1>6, <2>3, <3>1 DEF Bounds
  <2>5. Balance'
    <3>1. Len(<<>>) = 0
      OBVIOUS
    <3>3. Total' = Len(written) + n + 0 + Len(queue) + reported' + 0 + dropped + failed'
      BY <1>1, <1>6, <2>3, <3>1 DEF Total
    <3>4. calls = Len(written) + Len(batch) + Len(queue) + reported + carried + dropped + failed
      BY <1>3 DEF Total
    <3>5. n \in Nat /\ reported' \in Nat /\ failed' \in Nat
          /\ reported' + failed' = reported + failed + carried + Len(batch) - n
      BY <1>4, <1>6
    <3>6. /\ Len(written) \in Nat /\ Len(batch) \in Nat /\ Len(queue) \in Nat
          /\ dropped \in Nat /\ carried \in Nat /\ reported \in Nat /\ failed \in Nat
      BY <1>4
    <3>7. Len(written) + n + 0 + Len(queue) + reported' + 0 + dropped + failed'
            = Len(written) + Len(batch) + Len(queue) + reported + carried + dropped + failed
      <4> DEFINE w == Len(written)  b == Len(batch)  q == Len(queue)
                 r2 == reported'    f2 == failed'
      <4>1. /\ w \in Nat /\ b \in Nat /\ q \in Nat /\ r2 \in Nat /\ f2 \in Nat /\ n \in Nat
            /\ dropped \in Nat /\ carried \in Nat /\ reported \in Nat /\ failed \in Nat
            /\ r2 + f2 = reported + failed + carried + b - n
        BY <3>5, <3>6
      <4> HIDE DEF w, b, q, r2, f2
      <4>2. w + n + 0 + q + r2 + 0 + dropped + f2
              = w + b + q + reported + carried + dropped + failed
        BY <4>1
      <4> QED BY <4>2 DEF w, b, q, r2, f2
    <3>2. Total' = calls
      BY <3>3, <3>4, <3>7, Zenon
    <3> QED BY <1>1, <1>4, <3>2 DEF Balance
  <2>6. Rising(part) /\ Below(written, part) /\ Below(part, queue) /\ UpTo(part, calls)
    BY <1>0, <2>1 DEF Order, Rising, Below, UpTo
  <2>7. Rising(written')
    BY <1>0, <1>4, <2>1, <2>2, <2>6, RisingConcat DEF Order
  <2>8. Below(written', queue)
    BY <1>0, <1>4, <2>1, <2>2, <2>6, BelowConcat DEF Order
  <2>9. UpTo(written', calls)
    BY <1>0, <1>4, <2>1, <2>2, <2>6, UpToConcat DEF Order
  <2>10. Order'
    BY <1>0, <1>1, <2>7, <2>8, <2>9 DEF Order, Rising, Below, UpTo
  <2> QED BY <1>2, <2>4, <2>5, <2>10 DEF LoggerInv
<1>7. CASE /\ good /\ written' = written \o batch /\ reported' = reported + carried
           /\ UNCHANGED <<dropped, good, failed>>
  <2>1. SubSeq(batch, 1, Len(batch)) = batch
    BY <1>4
  <2>2. /\ reported' \in Nat /\ failed' \in Nat /\ Len(batch) \in 0..Len(batch)
        /\ reported' + failed' = reported + failed + carried + Len(batch) - Len(batch)
    BY <1>4, <1>7
  <2>3. good' \in BOOLEAN
    BY <1>0, <1>7 DEF Bounds
  <2> QED BY <1>6, <1>7, <2>1, <2>2, <2>3
<1>8. ASSUME NEW n \in 0..Len(batch), NEW told \in {0, carried},
             written' = written \o SubSeq(batch, 1, n), reported' = reported + told,
             failed' = failed + carried - told + Len(batch) - n, good' = FALSE,
             UNCHANGED dropped
      PROVE  LoggerInv'
  <2>1. /\ reported' \in Nat /\ failed' \in Nat
        /\ reported' + failed' = reported + failed + carried + Len(batch) - n
    BY <1>4, <1>8
  <2> QED BY <1>6, <1>8, <2>1
<1> QED BY <1>5, <1>7, <1>8 DEF Emit

LEMMA LoggerStep == LoggerInv /\ [Next]_vars => LoggerInv'
<1> SUFFICES ASSUME LoggerInv, [Next]_vars PROVE LoggerInv'
  OBVIOUS
<1> USE Numbers
<1>0. Bounds /\ Thread /\ Balance /\ Order /\ Kept
  BY DEF LoggerInv
<1> USE DEF shared, local, output, ghosts
<1>1. CASE UNCHANGED <<queue, dropped, tpc, batch, carried, opened, openDay, logs, ghosts>>
           /\ (~Alive => stopping')
           /\ day' \in 1..MaxDay /\ daemon' \in BOOLEAN /\ stopping' \in BOOLEAN
           /\ good' = good
  <2>1. Bounds' /\ Thread' /\ Kept'
    BY <1>0, <1>1 DEF Bounds, Thread, Kept, Alive
  <2>2. Balance' /\ Order'
    BY <1>0, <1>1 DEF Balance, Total, Alive, Order, Rising, Below, UpTo
  <2> QED BY <2>1, <2>2 DEF LoggerInv
<1>2. CASE NextDay
  BY <1>0, <1>1, <1>2 DEF NextDay, Bounds, Thread
<1>3. CASE StopDaemon
  BY <1>0, <1>1, <1>3 DEF StopDaemon, Bounds, Thread
<1>4. CASE StopBegin
  BY <1>0, <1>1, <1>4 DEF StopBegin, Bounds, Thread
<1>5. CASE UNCHANGED vars
  BY <1>0, <1>1, <1>5 DEF vars, Bounds, Thread
<1>6. CASE StopEnd
  <2>1. Bounds' /\ Thread' /\ Kept'
    BY <1>0, <1>6 DEF StopEnd, Bounds, Thread, Kept, Alive
  <2>2. queue = <<>> /\ queue' = <<>> /\ UNCHANGED <<dropped, batch, carried, ghosts>>
        /\ ~Alive /\ ~Alive'
    BY <1>0, <1>6 DEF StopEnd, Thread, Alive
  <2>3. Balance' /\ Order'
    BY <1>0, <2>2 DEF Balance, Total, Order, Rising, Below, UpTo
  <2> QED BY <2>1, <2>3 DEF LoggerInv
\* Every start() begins a new account.
<1>7. ASSUME tpc = "none", calls' = 0, written' = <<>>, reported' = 0, failed' = 0,
             dropped' = 0, UNCHANGED <<queue, local>>
      PROVE  Balance' /\ Order'
  <2>1. queue' = <<>> /\ batch' = <<>> /\ carried' = 0
    BY <1>0, <1>7 DEF Thread, Alive
  <2> QED BY <1>7, <2>1 DEF Balance, Total, Order, Rising, Below, UpTo
<1>8. CASE Start
  <2>1. Balance' /\ Order'
    BY <1>7, <1>8 DEF Start
  <2>4. logs' \subseteq OldDays \cup 1..MaxDay /\ 0 \in 0..MaxDay /\ 0 \in 0..MaxLines
        /\ <<>> \in Seq(1..MaxLines)
    BY <1>0, <1>8 DEF Start, Bounds
  <2>2. Bounds' /\ Kept'
    BY <1>0, <1>8, <2>4 DEF Start, Bounds, Kept
  <2>3. Thread'
    BY <1>0, <1>8 DEF Start, Thread, Alive
  <2> QED BY <2>1, <2>2, <2>3 DEF LoggerInv
<1>9. CASE StartFails
  <2>1. dropped' = 0
    BY <1>0, <1>9 DEF StartFails, Thread, Alive
  <2>2. Balance' /\ Order'
    BY <1>7, <1>9, <2>1 DEF StartFails
  <2>3. Bounds' /\ Kept'
    BY <1>0, <1>9 DEF StartFails, StaysStopped, Bounds, Kept
  <2>4. Thread'
    BY <1>0, <1>9, <2>1 DEF StartFails, StaysStopped, Thread, Alive
  <2> QED BY <2>2, <2>3, <2>4 DEF LoggerInv
<1> QED BY <1>2, <1>3, <1>4, <1>5, <1>6, <1>8, <1>9, WriteOK, TakeOK, OpenOK, EmitOK
        DEF Next, Drain

-----------------------------------------------------------------------------

\* start(), write(), stop() and the drain thread keep every variable in its
\* type; in particular the queue stays within kMaxQueuedLines.
THEOREM LoggerTyped == Spec => []TypeOK
<1>1. LoggerInv => TypeOK
  BY LoggerShows
<1> QED BY <1>1, LoggerStarts, LoggerStep, PTL DEF Spec

\* While the drain thread runs every line that write() accepted is on disk, in
\* memory, or counted in a loss: dropped_ and the local counter of run() are
\* handed back and forth without losing or doubling one.
THEOREM EveryLossAccounted == Spec => []LossAccounted
<1>1. LoggerInv => LossAccounted
  BY LoggerShows
<1> QED BY <1>1, LoggerStarts, LoggerStep, PTL DEF Spec

\* The file, the batch and the queue together are in the order of the write()
\* calls, over any number of rollovers, failed opens and failed writes.
THEOREM AlwaysInOrder == Spec => []InOrder
<1>1. LoggerInv => InOrder
  BY LoggerShows
<1> QED BY <1>1, LoggerStarts, LoggerStep, PTL DEF Spec

\* Lines wait in the queue only for a thread that runs: stop() clears an empty
\* queue, and a start() that failed leaves write() discarding.
THEOREM NeverOrphaned == Spec => []NoOrphanLines
<1>1. LoggerInv => NoOrphanLines
  BY LoggerShows
<1> QED BY <1>1, LoggerStarts, LoggerStep, PTL DEF Spec

\* purge() and openForDay(): only files that have expired are removed, and
\* once the file of a day is open no expired one is left.
THEOREM RetentionHolds == Spec => Retention
<1> DEFINE Step == /\ opened' /\ KeepDays # 0 => \A d \in logs' : d > openDay' - KeepDays
                   /\ opened' => openDay' \in logs'
                   /\ \A d \in logs \ logs' : KeepDays # 0 /\ d <= day - KeepDays
<1>1. LoggerInv /\ LoggerInv' /\ [Next]_vars => [Step]_vars
  <2> SUFFICES ASSUME LoggerInv, LoggerInv', Next PROVE Step
    OBVIOUS
  <2>1. Kept'
    BY DEF LoggerInv
  <2>2. \A d \in logs \ logs' : KeepDays # 0 /\ d <= day - KeepDays
    <3>1. day \in Int /\ logs \subseteq Int
      BY LoggerConstants DEF LoggerInv, Bounds
    <3>2. logs \subseteq logs' \/ logs' = (logs \ Purged(day)) \cup {day}
      BY DEF Next, NextDay, Start, StartFails, Write, StopDaemon, StopBegin, StopEnd,
             Drain, Take, Open, Emit
    <3> QED BY <3>1, <3>2, LoggerConstants DEF Purged
  <2> QED BY <2>1, <2>2 DEF Kept
<1> QED BY <1>1, LoggerStarts, LoggerStep, PTL DEF Spec, Retention
=============================================================================
