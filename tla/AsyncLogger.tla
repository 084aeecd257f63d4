---------------------------- MODULE AsyncLogger ----------------------------
(***************************************************************************)
(* The daily log of src/src/logger.cpp: HTTP workers queue a line for      *)
(* every completed request, one thread drains the queue into the file of   *)
(* the day, and FastdlServer starts the logger before and stops it after   *)
(* the HTTP daemon.  Files may fail to open and writes may fail; days      *)
(* pass.  A line is the number of its write() call.                        *)
(***************************************************************************)
EXTENDS Integers, Sequences, FiniteSets

CONSTANTS
    MaxQueuedLines,   \* kMaxQueuedLines
    KeepDays,         \* keepDays_; 0 keeps everything
    OldDays,          \* days whose files exist before the first start
    OpenFaults, WriteFaults,
    MaxDay,           \* bound: the last day that is explored
    MaxLines          \* bound: write() calls per start

ASSUME LoggerConstants ==
    /\ {MaxQueuedLines, MaxDay} \subseteq Nat \ {0}
    /\ {KeepDays, MaxLines} \subseteq Nat
    /\ OldDays \subseteq {d \in Int : d <= 1}
    /\ {OpenFaults, WriteFaults} \subseteq BOOLEAN

VARIABLES
    day,
    daemon,                    \* HTTP workers are running
    stopping, queue, dropped,  \* under mutex_
    tpc, batch, carried,       \* the drain thread and its locals
    opened, good, openDay,     \* output: believed open, usable, of which day
    logs,                      \* days with a log file
    calls, written,            \* history since start(): write() calls, lines on
    reported, failed           \* disk in file order, losses reported on disk,
                               \* lines and reports lost in a failing write

shared == <<stopping, queue, dropped>>
local  == <<batch, carried>>
output == <<opened, good, openDay>>
ghosts == <<calls, written, reported, failed>>
vars   == <<day, daemon, shared, tpc, local, output, logs, ghosts>>

TypeOK ==
    /\ day \in 1..MaxDay
    /\ daemon \in BOOLEAN
    /\ stopping \in BOOLEAN
    /\ queue \in Seq(1..MaxLines)
    /\ Len(queue) <= MaxQueuedLines
    /\ dropped \in 0..MaxLines
    /\ tpc \in {"none", "wait", "open", "emit", "exited"}
    /\ batch \in Seq(1..MaxLines)
    /\ carried \in 0..MaxLines
    /\ opened \in BOOLEAN /\ good \in BOOLEAN
    /\ openDay \in 0..MaxDay
    /\ logs \subseteq OldDays \cup 1..MaxDay
    /\ calls \in 0..MaxLines
    /\ written \in Seq(1..MaxLines)
    /\ reported \in 0..MaxLines
    /\ failed \in 0..MaxLines

-----------------------------------------------------------------------------

NextDay ==
    /\ day < MaxDay
    /\ day' = day + 1
    /\ UNCHANGED <<daemon, shared, tpc, local, output, logs, ghosts>>

\* start(): the probe creates today's file; stopping_ is cleared last.
Start ==
    /\ tpc = "none" /\ ~daemon
    /\ daemon' = TRUE
    /\ stopping' = FALSE
    /\ dropped' = 0
    /\ tpc' = "wait"
    /\ opened' = FALSE /\ good' = TRUE /\ openDay' = 0
    /\ logs' = logs \cup {day}
    /\ calls' = 0 /\ written' = <<>> /\ reported' = 0 /\ failed' = 0
    /\ UNCHANGED <<day, queue, local>>

\* start() without a usable file: the server runs on without a log.
ClearsEarly == FALSE
StaysStopped == stopping

StartFails ==
    /\ tpc = "none" /\ ~daemon
    /\ OpenFaults
    /\ daemon' = TRUE
    /\ dropped' \in {0, dropped}   \* reset before the probe, after create_directories()
    /\ calls' = 0 /\ written' = <<>> /\ reported' = 0 /\ failed' = 0
    /\ stopping' = StaysStopped
    /\ UNCHANGED <<day, queue, tpc, local, output, logs>>

\* The bound and the push of write()
FullLate == Len(queue) > MaxQueuedLines
Full == Len(queue) >= MaxQueuedLines
PushFront(line) == <<line>> \o queue
Push(line) == Append(queue, line)

\* write(), by requestCompleted()
Write ==
    /\ daemon
    /\ calls < MaxLines
    /\ IF stopping THEN UNCHANGED <<queue, dropped, calls>>
       ELSE /\ calls' = calls + 1
            /\ IF Full THEN dropped' = dropped + 1 /\ UNCHANGED queue
               ELSE queue' = Push(calls + 1) /\ UNCHANGED dropped
    /\ UNCHANGED <<day, daemon, stopping, tpc, local, output, logs, written, reported,
                   failed>>

\* FastdlServer::stop() joins the HTTP workers first ...
StopDaemon ==
    /\ daemon
    /\ daemon' = FALSE
    /\ UNCHANGED <<day, shared, tpc, local, output, logs, ghosts>>

\* ... then stop() sets the flag ...
StopBegin ==
    /\ ~daemon /\ ~stopping
    /\ stopping' = TRUE
    /\ UNCHANGED <<day, daemon, queue, dropped, tpc, local, output, logs, ghosts>>

\* ... and clears the queue after the join.
StopEnd ==
    /\ stopping /\ tpc = "exited"
    /\ tpc' = "none"
    /\ queue' = <<>>
    /\ UNCHANGED <<day, daemon, stopping, dropped, local, output, logs, ghosts>>

-----------------------------------------------------------------------------
(* The drain thread: run() *)

\* The wait predicate, and the exit once nothing is left to drain.
Ready == stopping \/ queue # <<>>
ExitWhenOpen == stopping /\ queue = <<>> /\ opened
ExitNow == stopping /\ queue = <<>>

Take ==
    /\ tpc = "wait"
    /\ Ready
    /\ batch' = IF ExitNow THEN <<>> ELSE queue
    /\ queue' = IF ExitNow THEN queue ELSE <<>>
    /\ carried' = IF ExitNow THEN 0 ELSE dropped
    /\ dropped' = 0
    /\ tpc' = IF ExitNow THEN "exited" ELSE "open"
    /\ UNCHANGED <<day, daemon, stopping, output, logs, ghosts>>

\* purge(): files dated before the oldest day to keep
PurgeOneTooMany(today) ==
    IF KeepDays = 0 THEN {} ELSE {d \in logs : d <= today - (KeepDays - 1)}
Purged(today) ==
    IF KeepDays = 0 THEN {} ELSE {d \in logs : d < today - (KeepDays - 1)}

Open ==
    /\ tpc = "open"
    /\ tpc' = "emit"
    /\ \/ /\ opened /\ openDay = day
          /\ UNCHANGED <<output, logs>>
       \/ /\ ~(opened /\ openDay = day)
          /\ opened' = TRUE /\ good' = TRUE /\ openDay' = day
          /\ logs' = (logs \ Purged(day)) \cup {day}
       \/ /\ ~(opened /\ openDay = day) /\ OpenFaults
          /\ opened' = FALSE /\ good' = FALSE
          /\ UNCHANGED <<openDay, logs>>
    /\ UNCHANGED <<day, daemon, shared, local, ghosts>>

\* Without a stream the loss is carried forward; it is added under mutex_.
LossForgotten == dropped
LossCarried == dropped + carried + Len(batch)

\* The report and the lines go to the stream; a failing write loses the rest
\* of the batch and leaves the stream bad.
Emit ==
    /\ tpc = "emit"
    /\ tpc' = "wait"
    /\ batch' = <<>> /\ carried' = 0
    /\ \/ /\ ~good
          /\ dropped' = LossCarried
          /\ UNCHANGED <<good, written, reported, failed>>
       \/ /\ good
          /\ written' = written \o batch
          /\ reported' = reported + carried
          /\ UNCHANGED <<dropped, good, failed>>
       \/ /\ good /\ WriteFaults
          /\ \E n \in 0..Len(batch), told \in {0, carried} :
               /\ n # 0 => told = carried   \* the report goes first
               /\ written' = written \o SubSeq(batch, 1, n)
               /\ reported' = reported + told
               /\ failed' = failed + carried - told + Len(batch) - n
          /\ good' = FALSE
          /\ UNCHANGED dropped
    /\ UNCHANGED <<day, daemon, stopping, queue, opened, openDay, logs, calls>>

-----------------------------------------------------------------------------

\* FastdlServer::start() has called stop() once; no thread exists yet.
Init ==
    /\ day = 1
    /\ daemon = FALSE
    /\ stopping = TRUE /\ queue = <<>> /\ dropped = 0
    /\ tpc = "none" /\ batch = <<>> /\ carried = 0
    /\ opened = FALSE /\ good = TRUE /\ openDay = 0
    /\ logs = OldDays
    /\ calls = 0 /\ written = <<>> /\ reported = 0 /\ failed = 0

Drain == Take \/ Open \/ Emit

Next ==
    \/ NextDay
    \/ Start \/ StartFails \/ Write
    \/ StopDaemon \/ StopBegin \/ StopEnd
    \/ Drain

Spec == Init /\ [][Next]_vars

\* The drain thread is scheduled, and join() returns once it has exited.
FairSpec == Spec /\ WF_vars(Drain) /\ WF_vars(StopEnd)

-----------------------------------------------------------------------------
(* Properties *)

Alive == tpc \in {"wait", "open", "emit"}

\* While the thread runs, every accepted line is on disk, queued, in the batch
\* or counted in a loss that is or will be reported, over failed opens, full
\* queues and rollovers: only a failing write loses lines without a count.
LossAccounted ==
    Alive => calls = Len(written) + Len(batch) + Len(queue)
                       + reported + carried + dropped + failed

\* Lines reach the disk in the order of the write() calls, across rollovers,
\* failed opens and losses.
InOrder ==
    LET all == written \o batch \o queue
    IN \A i, j \in DOMAIN all : i < j => all[i] < all[j]

\* "while it is set write() discards instead of queueing lines no thread would
\* ever drain": lines are only queued while a thread will take them, so stop()
\* discards none, whether start() succeeded or not.
NoOrphanLines == queue # <<>> => Alive

\* Once today's file is open only the last KeepDays days are left, and no file
\* of those days is ever removed.
Retention ==
    [][/\ opened' /\ KeepDays # 0 => \A d \in logs' : d > openDay' - KeepDays
       /\ opened' => openDay' \in logs'
       /\ \A d \in logs \ logs' : KeepDays # 0 /\ d <= day - KeepDays]_vars

\* Shutdown: the thread drains what is queued and exits.
StopReturns == (stopping /\ tpc # "none") ~> (tpc = "none")

\* "Only count the file as open if it really opened", or "one transient failure
\* would silently kill logging for a day": when run() comes to emit a batch, a
\* stream that counts as open takes it; one that an earlier write left bad has
\* been opened again by then.
BadStreamIsReopened == tpc = "emit" /\ opened => good
=============================================================================
