--------------------------- MODULE FastdlServer ---------------------------
(***************************************************************************)
(* FastdlServer of src/src/fastdl_server.cpp: start() and stop(), called   *)
(* by the game thread, and the requests that the workers of libmicrohttpd  *)
(* carry from the first call of the handler to requestCompleted().  A      *)
(* connection stays with one worker; a worker that sits in the bandwidth   *)
(* limiter's acquire() serves no other connection and cannot be joined.    *)
(* What a request asks for is chosen by dispatch()'s outcome.              *)
(***************************************************************************)
EXTENDS Integers, FiniteSets, FiniteSetsExt

CONSTANTS
    Connections, Workers,
    Sizes,        \* lengths of the files that are served
    Block,        \* kFileBlockSize
    MaxCount,     \* the largest std::uint64_t
    MaxRequests   \* bound: requests between two resets of the metrics

ASSUME ServerConstants ==
    /\ IsFiniteSet(Connections)
    /\ Sizes \subseteq Nat
    /\ {Block, MaxCount} \subseteq Nat \ {0}
    /\ MaxRequests \in 1..MaxCount

VARIABLES
    call,      \* where the game thread is inside start() or stop()
    wanted,    \* start() continues after its stop()
    daemon,    \* daemon_: "none", "running" or "stopping"
    alive,     \* workers that have not been joined
    up,        \* components that run
    logging,   \* logging_
    conn,      \* the request on every connection and its RequestState
    metrics,   \* the counters of metrics_
    lines,     \* history: lines the log accepted since it started
    begun,     \* history: transfers started since metrics_.reset()
    refused    \* history: failure() calls of dispatch() since then

history == <<lines, begun, refused>>
requests == <<conn, metrics, history>>
serverVars == <<call, wanted, daemon, alive, up, logging, requests>>

Components == {"bandwidth", "cache", "logger"}
Codes == {"ok", "error", "abort", "timeout", "shutdown"}
NoRequest == [pc |-> "none", worker |-> {}, handled |-> FALSE, active |-> FALSE,
              size |-> 0, supplied |-> 0]
NoTraffic == [requests |-> 0, active |-> 0, completed |-> 0, aborted |-> 0,
              timedOut |-> 0, failed |-> 0]

TypeOK ==
    /\ call \in {"none", "bandwidth", "daemon", "join", "components", "start"}
    /\ wanted \in BOOLEAN
    /\ daemon \in {"none", "running", "stopping"}
    /\ alive \subseteq Workers
    /\ up \subseteq Components
    /\ logging \in BOOLEAN
    /\ conn \in [Connections ->
          [pc : {"none", "open", "reply", "send", "acquire", "read"},
           worker : {{}} \cup {{w} : w \in Workers}, handled : BOOLEAN,
           active : BOOLEAN, size : Sizes \cup {0}, supplied : Nat]]
    /\ \A c \in Connections : conn[c].supplied <= conn[c].size
    /\ metrics \in [DOMAIN NoTraffic -> 0..MaxCount]
    /\ \A n \in {lines, begun, refused} : n \in Nat

-----------------------------------------------------------------------------
(* The metrics' counters *)

Add(counter, n) == Min({MaxCount, counter + n})
FetchSub(counter) == (counter + MaxCount) % (MaxCount + 1)

-----------------------------------------------------------------------------
(* HTTP workers *)

\* A worker that is not inside fileReader() may act for its connections.
Free(w) ==
    /\ w \in alive
    /\ \A c \in Connections : conn[c].worker = {w} => conn[c].pc \notin {"acquire", "read"}

Served(c) == \E w \in Workers : conn[c].worker = {w} /\ Free(w)

\* First call of the handler for a request: a RequestState and nothing else
FirstCall(c, w) ==
    /\ conn[c].pc = "none" /\ Free(w)
    /\ metrics.requests + Cardinality({d \in Connections : conn[d].pc = "open"})
         < MaxRequests
    /\ conn' = [conn EXCEPT ![c] = [NoRequest EXCEPT !.pc = "open", !.worker = {w}]]
    /\ UNCHANGED <<call, wanted, daemon, alive, up, logging, metrics, history>>

\* The log takes lines only while it runs.
LogCompleted(handled) == lines' = IF handled /\ "logger" \in up THEN lines + 1 ELSE lines

\* transferFinished()
Outcome(code, r) ==
    CASE code = "ok" /\ r.supplied = r.size -> "completed"
      [] code = "abort" -> "aborted"
      [] code = "timeout" -> "timedOut"
      [] OTHER -> "failed"

FinishedTwice(m, outcome) ==
    [m EXCEPT !.active = FetchSub(@), !["failed"] = Add(@, 1), ![outcome] = Add(@, 1)]
TransferFinished(m, outcome) ==
    [m EXCEPT !.active = FetchSub(@), ![outcome] = Add(@, 1)]

\* Whether requestCompleted() has a transfer to finish
FinishesFiles(r) == r.handled
FinishesTransfer(r) == r.active

\* requestCompleted(): the transfer is finished, the line written, the
\* RequestState deleted.
Completed(c, code) ==
    LET r == conn[c] IN
    /\ metrics' = IF FinishesTransfer(r)
                  THEN TransferFinished(metrics, Outcome(code, r)) ELSE metrics
    /\ LogCompleted(r.handled)
    /\ conn' = [conn EXCEPT ![c] = NoRequest]
    /\ UNCHANGED <<begun, refused>>

\* dispatch() without a transfer: a text answer (denial, missing file, range
\* error, file or response failure, which is counted), 304, or HEAD.
DispatchReply(c, fails) ==
    /\ conn[c].pc = "open" /\ Served(c)
    /\ metrics' = [metrics EXCEPT !.requests = Add(@, 1), !.failed = Add(@, fails)]
    /\ refused' = refused + fails
    /\ conn' = [conn EXCEPT ![c].pc = "reply", ![c].handled = TRUE]
    /\ UNCHANGED <<call, wanted, daemon, alive, up, logging, lines, begun>>

\* ... a GET of a file of n bytes: the transfer starts once the response is
\* queued.
DispatchFile(c, n) ==
    /\ conn[c].pc = "open" /\ Served(c)
    /\ metrics' = [metrics EXCEPT !.requests = Add(@, 1), !.active = Add(@, 1)]
    /\ begun' = begun + 1
    /\ conn' = [conn EXCEPT ![c].pc = "send", ![c].handled = TRUE,
                            ![c].active = TRUE, ![c].size = n]
    /\ UNCHANGED <<call, wanted, daemon, alive, up, logging, lines, refused>>

\* ... no response could be queued, or an exception: the handler returns
\* MHD_NO and the library closes the connection at once.
DispatchNothing(c, fails) ==
    /\ conn[c].pc = "open" /\ Served(c)
    /\ metrics' = [metrics EXCEPT !.requests = Add(@, 1), !.failed = Add(@, fails)]
    /\ refused' = refused + fails
    /\ LogCompleted(TRUE)
    /\ conn' = [conn EXCEPT ![c] = NoRequest]
    /\ UNCHANGED <<call, wanted, daemon, alive, up, logging, begun>>

\* fileReader() up to acquire()
ReaderAsks(c) ==
    /\ conn[c].pc = "send" /\ Served(c)
    /\ conn[c].supplied < conn[c].size
    /\ conn' = [conn EXCEPT ![c].pc = "acquire"]
    /\ UNCHANGED <<call, wanted, daemon, alive, up, logging, metrics, history>>

\* What one call of the reader may deliver
WholeBlock(r) == 1..Block
Readable(r) == 1..Min({Block, r.size - r.supplied})

\* acquire() returns in any state of the limiter; it grants only while that runs.
NotWoken == "bandwidth" \in up
Returns == TRUE

ReaderGranted(c) ==
    /\ conn[c].pc = "acquire"
    /\ "bandwidth" \in up
    /\ conn' = [conn EXCEPT ![c].pc = "read"]
    /\ UNCHANGED <<call, wanted, daemon, alive, up, logging, metrics, history>>

\* What was granted before stop() is still read and counted after it.
ReaderSupplies(c, n) ==
    /\ conn[c].pc = "read"
    /\ conn' = [conn EXCEPT ![c].pc = "send", ![c].supplied = @ + n]
    /\ UNCHANGED <<call, wanted, daemon, alive, up, logging, metrics, history>>

\* Nothing was granted, or the file could not be read (truncated, removed
\* medium): the library closes the connection.
ReaderFails(c) ==
    /\ conn[c].pc = "read" \/ (conn[c].pc = "acquire" /\ Returns)
    /\ Completed(c, "error")
    /\ UNCHANGED <<call, wanted, daemon, alive, up, logging>>

\* The end of a request as a worker sees it: the response is out, the client
\* went away or was silent for too long, or the socket failed.
RequestEnds(c, code) ==
    /\ conn[c].pc # "none" /\ Served(c)
    /\ code \in Codes \ {"shutdown"}
    /\ code = "ok" => \/ conn[c].pc = "reply"
                      \/ conn[c].pc = "send" /\ conn[c].supplied = conn[c].size
    /\ Completed(c, code)
    /\ UNCHANGED <<call, wanted, daemon, alive, up, logging>>

\* A worker leaves its loop after MHD_stop_daemon() set the flag.
WorkerExit(w) ==
    /\ daemon = "stopping" /\ Free(w)
    /\ alive' = alive \ {w}
    /\ UNCHANGED <<call, wanted, daemon, up, logging, requests>>

-----------------------------------------------------------------------------
(* The game thread in stop() and start() *)

StopsLogToo ==
    /\ call = "bandwidth"
    /\ up' = up \ {"bandwidth", "logger"}
    /\ call' = IF daemon = "none" THEN "components" ELSE "daemon"
    /\ UNCHANGED <<wanted, daemon, alive, logging, requests>>
StopBandwidth ==
    /\ call = "bandwidth"
    /\ up' = up \ {"bandwidth"}
    /\ call' = IF daemon = "none" THEN "components" ELSE "daemon"
    /\ UNCHANGED <<wanted, daemon, alive, logging, requests>>

\* MHD_stop_daemon(): workers are told, joined, and what they leave behind is
\* completed by the game thread.
StopDaemon ==
    /\ call = "daemon"
    /\ call' = "join"
    /\ daemon' = "stopping"
    /\ UNCHANGED <<wanted, alive, up, logging, requests>>

CloseConnection(c) ==
    /\ call = "join"
    /\ conn[c].pc # "none" /\ conn[c].worker \cap alive = {}
    /\ Completed(c, "shutdown")
    /\ UNCHANGED <<call, wanted, daemon, alive, up, logging>>

DaemonStopped ==
    /\ call = "join" /\ alive = {}
    /\ \A c \in Connections : conn[c].pc = "none"
    /\ call' = "components"
    /\ daemon' = "none"
    /\ UNCHANGED <<wanted, alive, up, logging, requests>>

\* compression_.stop(), logger_.stop(), limiter_.clear(); stop() returns here.
StopComponents ==
    /\ call = "components"
    /\ up' = up \ {"cache", "logger"}
    /\ logging' = FALSE
    /\ call' = IF wanted THEN "start" ELSE "none"
    /\ UNCHANGED <<wanted, daemon, alive, requests>>

\* The root is not usable, or an exception came before metrics_.reset() and
\* stop() cleaned up after it: nothing runs, the counters stay.
StartRejected ==
    /\ call = "start"
    /\ call' = "none" /\ wanted' = FALSE
    /\ UNCHANGED <<daemon, alive, up, logging, requests>>

Reset == /\ metrics' = NoTraffic
         /\ lines' = 0 /\ begun' = 0 /\ refused' = 0

\* A bad address or a daemon that does not start undoes what was started.
UndoForgetsCache(started) == started \ {"logger", "bandwidth"}
Undo(started) == started \ {"logger", "bandwidth", "cache"}

StartFails(optional) ==
    /\ call = "start"
    /\ call' = "none" /\ wanted' = FALSE
    /\ up' = Undo(up \cup optional \cup {"bandwidth"})
    /\ Reset
    /\ logging' = FALSE
    /\ UNCHANGED <<daemon, alive, conn>>

\* The cache and the log may fail to start without stopping the server.
StartSucceeds(optional) ==
    /\ call = "start"
    /\ call' = "none" /\ wanted' = FALSE
    /\ up' = up \cup optional \cup {"bandwidth"}
    /\ logging' = ("logger" \in optional)
    /\ Reset
    /\ daemon' = "running" /\ alive' = Workers
    /\ UNCHANGED conn

-----------------------------------------------------------------------------

ServerInit ==
    /\ call = "none" /\ wanted = FALSE
    /\ daemon = "none" /\ alive = {} /\ up = {} /\ logging = FALSE
    /\ conn = [c \in Connections |-> NoRequest]
    /\ metrics = NoTraffic
    /\ lines = 0 /\ begun = 0 /\ refused = 0

Optional == SUBSET {"cache", "logger"}

StartOrStop ==
    \/ StopBandwidth \/ StopDaemon \/ DaemonStopped \/ StopComponents
    \/ \E c \in Connections : CloseConnection(c)
    \/ StartRejected
    \/ \E o \in Optional : StartFails(o) \/ StartSucceeds(o)

ReaderReturns(c) ==
    \/ ReaderGranted(c) \/ ReaderFails(c)
    \/ \E n \in Readable(conn[c]) : ReaderSupplies(c, n)

Request(c) ==
    \/ \E w \in Workers : FirstCall(c, w)
    \/ \E f \in {0, 1} : DispatchReply(c, f) \/ DispatchNothing(c, f)
    \/ \E n \in Sizes : DispatchFile(c, n)
    \/ ReaderAsks(c) \/ ReaderReturns(c)
    \/ \E code \in Codes : RequestEnds(c, code)

ServerNext ==
    \/ StartOrStop
    \/ \E c \in Connections : Request(c)
    \/ \E w \in Workers : WorkerExit(w)

-----------------------------------------------------------------------------
(* Properties *)

Using(P(_)) == {c \in Connections : P(conn[c])}

\* fastdl_stats shows exactly the file transfers that are in progress, over
\* restarts, failed starts and every way a request can end; a decrement without
\* its increment would wrap the counter to 2^64 - 1.
ActiveExact == metrics.active = Cardinality(Using(LAMBDA r : r.active))

\* Every transfer since the counters were reset is in progress or counted under
\* exactly one outcome.
LedgerBalanced ==
    begun + refused = metrics.active + metrics.completed + metrics.aborted
                        + metrics.timedOut + metrics.failed

\* fastdl_server.h: "logged once the connection finishes": while the log is on,
\* every request that was dispatched is still in progress or has its line; in
\* particular no request outlives the log that stop() closes.
LinePerRequest ==
    logging => metrics.requests = lines + Cardinality(Using(LAMBDA r : r.handled))

\* When the game thread is back from start() or stop() and no daemon runs,
\* nothing is left running and no request is left open, whatever failed.
NothingLeftRunning ==
    call \in {"none", "start"} /\ daemon = "none" =>
      up = {} /\ alive = {} /\ Using(LAMBDA r : r.pc # "none") = {}
=============================================================================
