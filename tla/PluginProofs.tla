---------------------------- MODULE PluginProofs ----------------------------
(***************************************************************************)
(* Proofs about Plugin and the FastdlServer below it, for any number of    *)
(* connections, workers and restarts, any file sizes and any width of the  *)
(* counters.                                                               *)
(***************************************************************************)
EXTENDS Plugin, FiniteSetTheorems, TLAPS

-----------------------------------------------------------------------------
(* Counters *)

LEMMA MinPair ==
  ASSUME NEW a \in Nat, NEW b \in Nat
  PROVE  Min({a, b}) = IF a <= b THEN a ELSE b
  BY DEF Min

LEMMA AddTyped ==
  ASSUME NEW a \in 0..MaxCount, NEW n \in Nat
  PROVE  Add(a, n) \in 0..MaxCount
  BY MinPair, ServerConstants DEF Add

\* Below the width nothing is lost.
LEMMA AddExact ==
  ASSUME NEW a \in Nat, NEW n \in Nat, a + n <= MaxCount
  PROVE  Add(a, n) = a + n
  BY MinPair, ServerConstants DEF Add

LEMMA FetchSubTyped ==
  ASSUME NEW a \in 0..MaxCount
  PROVE  FetchSub(a) \in 0..MaxCount
  BY ServerConstants DEF FetchSub

\* Above zero the counter does not wrap.
LEMMA FetchSubExact ==
  ASSUME NEW a \in 1..MaxCount
  PROVE  FetchSub(a) = a - 1
  BY ServerConstants DEF FetchSub

\* A set that changes at one element only
LEMMA CountStep ==
  ASSUME NEW S, NEW T, NEW c, IsFiniteSet(S), T \ {c} = S \ {c}
  PROVE  /\ Cardinality(S) \in Nat /\ Cardinality(T) \in Nat
         /\ Cardinality(T) = Cardinality(S) + (IF c \in T THEN 1 ELSE 0)
                                            - (IF c \in S THEN 1 ELSE 0)
<1>1. IsFiniteSet(T)
  <2>1. IsFiniteSet((S \ {c}) \cup {c})
    BY FS_RemoveElement, FS_AddElement
  <2>2. T \subseteq (S \ {c}) \cup {c}
    OBVIOUS
  <2> QED BY <2>1, <2>2, FS_Subset
<1>2. Cardinality(S) \in Nat /\ Cardinality(T) \in Nat
  BY <1>1, FS_CardinalityType
<1>3. Cardinality(S \ {c}) = IF c \in S THEN Cardinality(S) - 1 ELSE Cardinality(S)
  BY FS_RemoveElement
<1>4. Cardinality(T \ {c}) = IF c \in T THEN Cardinality(T) - 1 ELSE Cardinality(T)
  BY <1>1, FS_RemoveElement
<1> QED BY <1>2, <1>3, <1>4

-----------------------------------------------------------------------------
(* Types *)

Counters == DOMAIN NoTraffic

LEMMA CounterNames ==
  Counters = {"requests", "active", "completed", "aborted", "timedOut", "failed"}
  BY DEF Counters, NoTraffic

PCs == {"none", "open", "reply", "send", "acquire", "read"}
Owners == {{}} \cup {{w} : w \in Workers}
RequestStates ==
    [pc : PCs, worker : Owners, handled : BOOLEAN, active : BOOLEAN,
     size : Sizes \cup {0}, supplied : Nat]

\* The fields of a request belong together.
RequestOK(r) ==
    /\ r \in RequestStates
    /\ r.supplied <= r.size
    /\ r.pc \in {"none", "open"} => r.supplied = 0
    /\ r.handled <=> r.pc \in {"reply", "send", "acquire", "read"}
    /\ r.active <=> r.pc \in {"send", "acquire", "read"}

RequestsOK ==
    /\ conn \in [Connections -> RequestStates]
    /\ \A c \in Connections : RequestOK(conn[c])

CountersTyped ==
    /\ metrics \in [Counters -> 0..MaxCount]
    /\ lines \in Nat /\ begun \in Nat /\ refused \in Nat

\* Where the game thread is, what runs, and whether requests can exist.
Control ==
    /\ call \in {"none", "bandwidth", "daemon", "join", "components", "start"}
    /\ wanted \in BOOLEAN
    /\ daemon \in {"none", "running", "stopping"}
    /\ alive \subseteq Workers
    /\ up \subseteq Components
    /\ daemon = "none" => alive = {}
    /\ daemon = "stopping" <=> call = "join"
    /\ call = "daemon" => daemon = "running"
    /\ call \in {"components", "start"} => daemon = "none"
    /\ call \in {"daemon", "join", "components"} => "bandwidth" \notin up
    /\ call = "start" => up = {}
    /\ call = "none" /\ daemon = "none" => up = {}

\* Without a daemon there is no request.
Quiet == daemon = "none" => \A c \in Connections : conn[c].pc = "none"

\* The log that is announced is the log that runs.
LogOn == logging \in BOOLEAN /\ (logging => "logger" \in up)

Opened == {c \in Connections : conn[c].pc = "open"}
Handled == {c \in Connections : conn[c].handled}
Active == {c \in Connections : conn[c].active}

\* The counters stay below the width because every dispatched request was
\* admitted by FirstCall() and adds to the ledger at most once.
Ledger ==
    /\ metrics["requests"] + Cardinality(Opened) <= MaxRequests
    /\ begun + refused <= metrics["requests"]
    /\ metrics["active"] = Cardinality(Active)
    /\ begun + refused = metrics["active"] + metrics["completed"] + metrics["aborted"]
                           + metrics["timedOut"] + metrics["failed"]
    /\ logging => metrics["requests"] = lines + Cardinality(Handled)

ServerInv == RequestsOK /\ CountersTyped /\ Control /\ Quiet /\ LogOn /\ Ledger

LEMMA ServerTypes == ServerInv => TypeOK
<1> SUFFICES ASSUME ServerInv PROVE TypeOK
  OBVIOUS
<1>1. conn \in [Connections ->
          [pc : {"none", "open", "reply", "send", "acquire", "read"},
           worker : {{}} \cup {{w} : w \in Workers}, handled : BOOLEAN,
           active : BOOLEAN, size : Sizes \cup {0}, supplied : Nat]]
  BY DEF ServerInv, RequestsOK, RequestStates, PCs, Owners
<1>2. \A c \in Connections : conn[c].supplied <= conn[c].size
  BY DEF ServerInv, RequestsOK, RequestOK
<1> QED BY <1>1, <1>2 DEF ServerInv, TypeOK, CountersTyped, Counters, Control, LogOn

LEMMA LedgerShows == Ledger => ActiveExact /\ LedgerBalanced /\ LinePerRequest
<1>1. /\ Using(LAMBDA r : r.active) = Active
      /\ Using(LAMBDA r : r.handled) = Handled
  BY DEF Using, Active, Handled
<1> QED BY <1>1 DEF Ledger, ActiveExact, LedgerBalanced, LinePerRequest

-----------------------------------------------------------------------------
(* One request changes. *)

LEMMA OneRequest ==
  ASSUME RequestsOK, NEW c \in Connections, NEW r, RequestOK(r),
         conn' = [conn EXCEPT ![c] = r]
  PROVE  /\ RequestsOK'
         /\ Cardinality(Opened) \in Nat /\ Cardinality(Opened') \in Nat
         /\ Cardinality(Handled) \in Nat /\ Cardinality(Handled') \in Nat
         /\ Cardinality(Active) \in Nat /\ Cardinality(Active') \in Nat
         /\ Cardinality(Opened') = Cardinality(Opened) + (IF r.pc = "open" THEN 1 ELSE 0)
                                     - (IF conn[c].pc = "open" THEN 1 ELSE 0)
         /\ Cardinality(Handled') = Cardinality(Handled) + (IF r.handled THEN 1 ELSE 0)
                                      - (IF conn[c].handled THEN 1 ELSE 0)
         /\ Cardinality(Active') = Cardinality(Active) + (IF r.active THEN 1 ELSE 0)
                                     - (IF conn[c].active THEN 1 ELSE 0)
<1>1. \A d \in Connections : conn'[d] = IF d = c THEN r ELSE conn[d]
  BY DEF RequestsOK
<1>2. RequestsOK'
  <2>1. conn' \in [Connections -> RequestStates]
    BY DEF RequestsOK, RequestOK
  <2> QED BY <1>1, <2>1 DEF RequestsOK
<1>3. IsFiniteSet(Opened) /\ IsFiniteSet(Handled) /\ IsFiniteSet(Active)
  BY ServerConstants, FS_Subset DEF Opened, Handled, Active
<1>4. /\ Opened' \ {c} = Opened \ {c}
      /\ c \in Opened' <=> r.pc = "open"
      /\ c \in Opened <=> conn[c].pc = "open"
  BY <1>1 DEF Opened
<1>5. /\ Handled' \ {c} = Handled \ {c}
      /\ c \in Handled' <=> r.handled
      /\ c \in Handled <=> conn[c].handled
  BY <1>1 DEF Handled
<1>6. /\ Active' \ {c} = Active \ {c}
      /\ c \in Active' <=> r.active
      /\ c \in Active <=> conn[c].active
  BY <1>1 DEF Active
<1>7. /\ Cardinality(Opened) \in Nat /\ Cardinality(Opened') \in Nat
      /\ Cardinality(Opened') = Cardinality(Opened) + (IF r.pc = "open" THEN 1 ELSE 0)
                                     - (IF conn[c].pc = "open" THEN 1 ELSE 0)
  BY <1>3, <1>4, CountStep
<1>8. /\ Cardinality(Handled) \in Nat /\ Cardinality(Handled') \in Nat
      /\ Cardinality(Handled') = Cardinality(Handled) + (IF r.handled THEN 1 ELSE 0)
                                      - (IF conn[c].handled THEN 1 ELSE 0)
  BY <1>3, <1>5, CountStep
<1>9. /\ Cardinality(Active) \in Nat /\ Cardinality(Active') \in Nat
      /\ Cardinality(Active') = Cardinality(Active) + (IF r.active THEN 1 ELSE 0)
                                     - (IF conn[c].active THEN 1 ELSE 0)
  BY <1>3, <1>6, CountStep
<1> QED BY <1>2, <1>7, <1>8, <1>9

LEMMA NoRequestOK == RequestOK(NoRequest)
  BY DEF RequestOK, NoRequest, RequestStates, PCs, Owners

LEMMA CountersAreNat ==
  CountersTyped =>
    /\ metrics["requests"] \in 0..MaxCount /\ metrics["active"] \in 0..MaxCount
    /\ metrics["completed"] \in 0..MaxCount /\ metrics["aborted"] \in 0..MaxCount
    /\ metrics["timedOut"] \in 0..MaxCount /\ metrics["failed"] \in 0..MaxCount
    /\ lines \in Nat /\ begun \in Nat /\ refused \in Nat
  BY CounterNames DEF CountersTyped

Outside == <<call, wanted, daemon, alive, up, logging>>

\* requestCompleted(), whoever calls it
LEMMA CompletedOK ==
  ASSUME ServerInv, NEW c \in Connections, NEW code, conn[c].pc # "none",
         Completed(c, code), UNCHANGED Outside
  PROVE  ServerInv'
<1> DEFINE r == conn[c]
<1>1. RequestsOK /\ CountersTyped /\ Control /\ Quiet /\ LogOn /\ Ledger
  BY DEF ServerInv
<1>2. RequestOK(r)
  BY <1>1 DEF RequestsOK
<1>3. conn' = [conn EXCEPT ![c] = NoRequest] /\ UNCHANGED <<begun, refused>>
  BY DEF Completed
<1>4. /\ RequestsOK'
      /\ Cardinality(Opened') <= Cardinality(Opened)
      /\ Cardinality(Opened) \in Nat /\ Cardinality(Opened') \in Nat
      /\ Cardinality(Handled) \in Nat /\ Cardinality(Handled') \in Nat
      /\ Cardinality(Active) \in Nat /\ Cardinality(Active') \in Nat
      /\ Cardinality(Handled') = Cardinality(Handled) - (IF r.handled THEN 1 ELSE 0)
      /\ Cardinality(Active') = Cardinality(Active) - (IF r.active THEN 1 ELSE 0)
  <2>1. NoRequest.pc = "none" /\ ~NoRequest.handled /\ ~NoRequest.active
    BY DEF NoRequest
  <2>2. /\ RequestsOK'
        /\ Cardinality(Opened) \in Nat /\ Cardinality(Opened') \in Nat
        /\ Cardinality(Handled) \in Nat /\ Cardinality(Handled') \in Nat
        /\ Cardinality(Active) \in Nat /\ Cardinality(Active') \in Nat
        /\ Cardinality(Opened') = Cardinality(Opened)
              + (IF NoRequest.pc = "open" THEN 1 ELSE 0) - (IF r.pc = "open" THEN 1 ELSE 0)
        /\ Cardinality(Handled') = Cardinality(Handled)
              + (IF NoRequest.handled THEN 1 ELSE 0) - (IF r.handled THEN 1 ELSE 0)
        /\ Cardinality(Active') = Cardinality(Active)
              + (IF NoRequest.active THEN 1 ELSE 0) - (IF r.active THEN 1 ELSE 0)
    BY <1>1, <1>3, NoRequestOK, OneRequest
  <2> QED BY <2>1, <2>2
<1>5. lines' = IF r.handled /\ "logger" \in up THEN lines + 1 ELSE lines
  BY DEF Completed, LogCompleted
<1>6. CountersTyped' /\ Ledger'
  <2>0. MaxRequests \in Nat /\ MaxCount \in Nat /\ MaxRequests <= MaxCount
    BY ServerConstants
  <2>1. CASE ~r.active
    <3>1. UNCHANGED metrics
      BY <2>1 DEF Completed, FinishesTransfer
    <3>2. CountersTyped'
      BY <1>1, <1>3, <1>5, <3>1 DEF CountersTyped
    <3>3. Ledger'
      BY <1>1, <1>3, <1>4, <1>5, <2>0, <2>1, <3>1, CountersAreNat
         DEF Ledger, LogOn, Outside
    <3> QED BY <3>2, <3>3
  <2>2. CASE r.active
    <3> DEFINE o == Outcome(code, r)
    <3>1. o \in {"completed", "aborted", "timedOut", "failed"}
      BY DEF Outcome
    <3>2. metrics' = [metrics EXCEPT !.active = FetchSub(@), ![o] = Add(@, 1)]
      BY <2>2 DEF Completed, FinishesTransfer, TransferFinished
    <3> HIDE DEF o
    <3>3. r.handled
      BY <1>2, <2>2 DEF RequestOK
    <3>4. metrics["active"] \in 1..MaxCount
      BY <1>1, <1>4, <2>2, CountersAreNat DEF Ledger
    <3>5. metrics[o] \in Nat /\ metrics[o] + 1 <= MaxCount
      BY <1>1, <2>0, <3>1, <3>4, <1>4, CountersAreNat DEF Ledger
    <3>6. FetchSub(metrics["active"]) = metrics["active"] - 1 /\ Add(metrics[o], 1) = metrics[o] + 1
      BY <3>4, <3>5, FetchSubExact, AddExact
    <3>7. /\ DOMAIN metrics = Counters
          /\ metrics' \in [Counters -> 0..MaxCount]
          /\ \A n \in Counters : metrics'[n] = IF n = o THEN metrics[n] + 1
                                 ELSE IF n = "active" THEN metrics[n] - 1 ELSE metrics[n]
      <4>1. DOMAIN metrics = Counters /\ "active" \in Counters /\ o \in Counters
            /\ o # "active"
        BY <1>1, <3>1, CounterNames DEF CountersTyped
      <4>2. \A n \in Counters : metrics[n] \in 0..MaxCount
        BY <1>1 DEF CountersTyped
      <4>3. \A n \in Counters : metrics'[n] = IF n = o THEN metrics[n] + 1
                                 ELSE IF n = "active" THEN metrics[n] - 1 ELSE metrics[n]
        BY <3>2, <3>6, <4>1
      <4>4. \A n \in Counters : metrics'[n] \in 0..MaxCount
        BY <2>0, <3>4, <3>5, <4>2, <4>3
      <4>5. metrics' = [n \in Counters |-> metrics'[n]]
        BY <3>2, <4>1
      <4> QED BY <4>1, <4>3, <4>4, <4>5
    <3>8. CountersTyped'
      BY <1>1, <1>3, <1>5, <3>7 DEF CountersTyped
    <3>9. Ledger'
      <4>1. /\ metrics'["requests"] = metrics["requests"]
            /\ metrics'["active"] = metrics["active"] - 1
            /\ metrics'["completed"] + metrics'["aborted"] + metrics'["timedOut"]
                 + metrics'["failed"]
               = metrics["completed"] + metrics["aborted"] + metrics["timedOut"]
                 + metrics["failed"] + 1
        BY <1>1, <3>1, <3>7, CounterNames, CountersAreNat
      <4>2. \A n \in Counters : metrics'[n] \in Nat
        BY <3>7
      <4>3. /\ metrics'["completed"] \in Nat /\ metrics'["aborted"] \in Nat
            /\ metrics'["timedOut"] \in Nat /\ metrics'["failed"] \in Nat
        BY <4>2, CounterNames
      <4>4. /\ metrics'["requests"] + Cardinality(Opened') <= MaxRequests
            /\ begun' + refused' <= metrics'["requests"]
            /\ metrics'["active"] = Cardinality(Active')
        BY <1>1, <1>3, <1>4, <2>0, <2>2, <4>1, CountersAreNat DEF Ledger
      <4>5. begun' + refused' = metrics'["active"] + metrics'["completed"]
                + metrics'["aborted"] + metrics'["timedOut"] + metrics'["failed"]
        BY <1>1, <1>3, <4>1, <4>3, CountersAreNat DEF Ledger
      <4>6. logging' => metrics'["requests"] = lines' + Cardinality(Handled')
        BY <1>1, <1>4, <1>5, <3>3, <4>1, CountersAreNat DEF Ledger, LogOn, Outside
      <4> QED BY <4>4, <4>5, <4>6 DEF Ledger
    <3> QED BY <3>8, <3>9
  <2> QED BY <2>1, <2>2
<1>7. Control' /\ LogOn'
  BY <1>1 DEF Control, LogOn, Outside
<1>8. Quiet'
  BY <1>1 DEF Quiet, Outside
<1> QED BY <1>4, <1>6, <1>7, <1>8 DEF ServerInv

-----------------------------------------------------------------------------
(* Requests *)

LEMMA RequestFrame ==
  ASSUME ServerInv, UNCHANGED Outside, daemon # "none",
         RequestsOK', CountersTyped', Ledger'
  PROVE  ServerInv'
<1>1. Control' /\ LogOn'
  BY DEF ServerInv, Control, LogOn, Outside
<1>2. Quiet'
  BY DEF Quiet, Outside
<1> QED BY <1>1, <1>2 DEF ServerInv

\* A request that is there implies a daemon, and so does a worker.
LEMMA DaemonThere ==
  ASSUME ServerInv
  PROVE  /\ \A c \in Connections : conn[c].pc # "none" => daemon # "none"
         /\ \A w : w \in alive => daemon # "none"
  BY DEF ServerInv, Control, Quiet

LEMMA FirstCallOK ==
  ASSUME ServerInv, NEW c \in Connections, NEW w \in Workers, FirstCall(c, w)
  PROVE  ServerInv'
<1> DEFINE r == [NoRequest EXCEPT !.pc = "open", !.worker = {w}]
<1>1. RequestsOK /\ CountersTyped /\ Control /\ Quiet /\ LogOn /\ Ledger
  BY DEF ServerInv
<1>2. r \in RequestStates
  BY DEF NoRequest, RequestStates, PCs, Owners
<1>3. RequestOK(r) /\ r.pc = "open" /\ ~r.handled /\ ~r.active
  <2>1. DOMAIN NoRequest = {"pc", "worker", "handled", "active", "size", "supplied"}
    BY DEF NoRequest
  <2>2. r.pc = "open" /\ ~r.handled /\ ~r.active /\ r.size = 0 /\ r.supplied = 0
    BY <2>1 DEF NoRequest
  <2> QED BY <1>2, <2>2 DEF RequestOK
<1>4. conn' = [conn EXCEPT ![c] = r] /\ UNCHANGED <<metrics, lines, begun, refused>>
  BY DEF FirstCall, history
<1>5. /\ conn[c].pc = "none" /\ ~conn[c].handled /\ ~conn[c].active
      /\ metrics["requests"] + Cardinality(Opened) < MaxRequests
  BY <1>1 DEF FirstCall, Opened, RequestsOK, RequestOK
<1> HIDE DEF r
<1>6. /\ RequestsOK'
      /\ Cardinality(Opened) \in Nat /\ Cardinality(Opened') \in Nat
      /\ Cardinality(Handled) \in Nat /\ Cardinality(Handled') \in Nat
      /\ Cardinality(Active) \in Nat /\ Cardinality(Active') \in Nat
      /\ Cardinality(Opened') = Cardinality(Opened) + (IF r.pc = "open" THEN 1 ELSE 0)
                                     - (IF conn[c].pc = "open" THEN 1 ELSE 0)
      /\ Cardinality(Handled') = Cardinality(Handled) + (IF r.handled THEN 1 ELSE 0)
                                      - (IF conn[c].handled THEN 1 ELSE 0)
      /\ Cardinality(Active') = Cardinality(Active) + (IF r.active THEN 1 ELSE 0)
                                     - (IF conn[c].active THEN 1 ELSE 0)
  BY <1>1, <1>3, <1>4, OneRequest
<1>7. /\ Cardinality(Opened') = Cardinality(Opened) + 1
      /\ Cardinality(Handled') = Cardinality(Handled)
      /\ Cardinality(Active') = Cardinality(Active)
  BY <1>3, <1>5, <1>6
<1>8. CountersTyped'
  BY <1>1, <1>4 DEF CountersTyped
<1>9. Ledger'
  <2>1. MaxRequests \in Nat
    BY ServerConstants
  <2> QED BY <1>1, <1>4, <1>5, <1>6, <1>7, <2>1, CountersAreNat DEF Ledger, FirstCall
<1>10. UNCHANGED Outside /\ daemon # "none"
  BY DaemonThere DEF FirstCall, Free, Outside
<1> QED BY <1>6, <1>8, <1>9, <1>10, RequestFrame

\* What the three forms of dispatch() have in common
LEMMA DispatchOK ==
  ASSUME ServerInv, NEW c \in Connections, conn[c].pc = "open", UNCHANGED Outside,
         NEW r, RequestOK(r), r.pc # "open", conn' = [conn EXCEPT ![c] = r],
         NEW fails \in {0, 1}, r.active => fails = 0,
         metrics' = [metrics EXCEPT !.requests = Add(@, 1), !.failed = Add(@, fails),
                                    !.active = Add(@, IF r.active THEN 1 ELSE 0)],
         begun' = begun + (IF r.active THEN 1 ELSE 0),
         refused' = refused + fails,
         lines' = IF ~r.handled /\ "logger" \in up THEN lines + 1 ELSE lines
  PROVE  ServerInv'
<1> DEFINE a == IF r.active THEN 1 ELSE 0
<1>1. RequestsOK /\ CountersTyped /\ Control /\ Quiet /\ LogOn /\ Ledger
  BY DEF ServerInv
<1>2. ~conn[c].handled /\ ~conn[c].active
  BY <1>1 DEF RequestsOK, RequestOK
<1>3. /\ RequestsOK'
      /\ Cardinality(Opened) \in Nat /\ Cardinality(Opened') \in Nat
      /\ Cardinality(Handled) \in Nat /\ Cardinality(Handled') \in Nat
      /\ Cardinality(Active) \in Nat /\ Cardinality(Active') \in Nat
      /\ Cardinality(Opened') = Cardinality(Opened) + (IF r.pc = "open" THEN 1 ELSE 0)
                                     - (IF conn[c].pc = "open" THEN 1 ELSE 0)
      /\ Cardinality(Handled') = Cardinality(Handled) + (IF r.handled THEN 1 ELSE 0)
                                      - (IF conn[c].handled THEN 1 ELSE 0)
      /\ Cardinality(Active') = Cardinality(Active) + (IF r.active THEN 1 ELSE 0)
                                     - (IF conn[c].active THEN 1 ELSE 0)
  BY <1>1, OneRequest
<1>4. /\ Cardinality(Opened') = Cardinality(Opened) - 1
      /\ Cardinality(Handled') = Cardinality(Handled) + (IF r.handled THEN 1 ELSE 0)
      /\ Cardinality(Active') = Cardinality(Active) + a
  BY <1>2, <1>3
<1>5. /\ metrics["requests"] + 1 <= MaxCount
      /\ metrics["failed"] + fails <= MaxCount
      /\ metrics["active"] + a <= MaxCount
  <2>1. MaxRequests \in Nat /\ MaxCount \in Nat /\ MaxRequests <= MaxCount
    BY ServerConstants
  <2> QED BY <1>1, <1>3, <1>4, <2>1, CountersAreNat DEF Ledger
<1>6. /\ Add(metrics["requests"], 1) = metrics["requests"] + 1
      /\ Add(metrics["failed"], fails) = metrics["failed"] + fails
      /\ Add(metrics["active"], a) = metrics["active"] + a
  BY <1>1, <1>5, AddExact, CountersAreNat
<1>7. /\ metrics'["requests"] = metrics["requests"] + 1
      /\ metrics'["failed"] = metrics["failed"] + fails
      /\ metrics'["active"] = metrics["active"] + a
      /\ \A n \in {"completed", "aborted", "timedOut"} : metrics'[n] = metrics[n]
      /\ metrics' = [n \in Counters |-> metrics'[n]]
  <2>1. DOMAIN metrics = {"requests", "active", "completed", "aborted", "timedOut", "failed"}
    BY <1>1, CounterNames DEF CountersTyped
  <2> QED BY <1>6, <2>1, CounterNames
<1> HIDE DEF a
<1>8. CountersTyped'
  <2>1. a \in {0, 1} /\ MaxCount \in Nat
    BY ServerConstants DEF a
  <2>2. /\ metrics'["requests"] \in 0..MaxCount /\ metrics'["failed"] \in 0..MaxCount
        /\ metrics'["active"] \in 0..MaxCount
    BY <1>1, <1>5, <1>7, <2>1, CountersAreNat
  <2>4. \A n \in {"completed", "aborted", "timedOut"} : metrics'[n] \in 0..MaxCount
    BY <1>1, <1>7, CountersAreNat
  <2>3. metrics' \in [Counters -> 0..MaxCount]
    BY <1>7, <2>2, <2>4, CounterNames
  <2>5. begun' \in Nat /\ refused' \in Nat /\ lines' \in Nat
    BY <1>1 DEF CountersTyped
  <2> QED BY <2>3, <2>5 DEF CountersTyped
<1>9. Ledger'
  <2>1. a \in {0, 1} /\ begun' = begun + a /\ a + fails \in {0, 1} /\ MaxRequests \in Nat
    BY ServerConstants DEF a
  <2>2. /\ metrics'["requests"] + Cardinality(Opened') <= MaxRequests
        /\ begun' + refused' <= metrics'["requests"]
        /\ metrics'["active"] = Cardinality(Active')
    BY <1>1, <1>3, <1>4, <1>7, <2>1, CountersAreNat DEF Ledger
  <2>3. begun' + refused' = metrics'["active"] + metrics'["completed"]
                + metrics'["aborted"] + metrics'["timedOut"] + metrics'["failed"]
    BY <1>1, <1>7, <2>1, CountersAreNat DEF Ledger
  <2>4. logging' => metrics'["requests"] = lines' + Cardinality(Handled')
    BY <1>1, <1>3, <1>4, <1>7, CountersAreNat DEF Ledger, LogOn, Outside
  <2> QED BY <2>2, <2>3, <2>4 DEF Ledger
<1>10. daemon # "none"
  BY DaemonThere
<1> QED BY <1>3, <1>8, <1>9, <1>10, RequestFrame

LEMMA DispatchesOK ==
  ASSUME ServerInv, NEW c \in Connections,
         (\E f \in {0, 1} : DispatchReply(c, f) \/ DispatchNothing(c, f))
           \/ (\E n \in Sizes : DispatchFile(c, n))
  PROVE  ServerInv'
<1> USE DEF Outside
<1>0. /\ conn[c] \in RequestStates /\ conn \in [Connections -> RequestStates]
      /\ conn[c].supplied <= conn[c].size
      /\ DOMAIN metrics = {"requests", "active", "completed", "aborted", "timedOut", "failed"}
      /\ \A n \in DOMAIN metrics : metrics[n] \in 0..MaxCount
      /\ begun \in Nat /\ refused \in Nat
  BY CounterNames DEF ServerInv, RequestsOK, RequestOK, CountersTyped
<1>01. \A n \in DOMAIN metrics : Add(metrics[n], 0) = metrics[n]
  BY <1>0, AddExact, ServerConstants
<1>1. ASSUME NEW f \in {0, 1}, DispatchReply(c, f) PROVE ServerInv'
  <2> DEFINE r == [conn[c] EXCEPT !.pc = "reply", !.handled = TRUE]
  <2>1. r \in RequestStates
    BY <1>0 DEF RequestStates, PCs
  <2>2. /\ r.pc = "reply" /\ r.handled /\ r.active = conn[c].active
        /\ r.supplied = conn[c].supplied /\ r.size = conn[c].size
    BY <1>0 DEF RequestStates
  <2>3. ~conn[c].active
    BY <1>1 DEF DispatchReply, ServerInv, RequestsOK, RequestOK
  <2>4. RequestOK(r) /\ ~r.active /\ r.handled /\ r.pc # "open"
    BY <1>0, <2>1, <2>2, <2>3 DEF RequestOK
  <2>5. conn' = [conn EXCEPT ![c] = r]
    BY <1>0, <1>1 DEF DispatchReply
  <2> HIDE DEF r
  <2>6. metrics' = [metrics EXCEPT !.requests = Add(@, 1), !.failed = Add(@, f),
                                   !.active = Add(@, IF r.active THEN 1 ELSE 0)]
    BY <1>0, <1>01, <1>1, <2>4 DEF DispatchReply
  <2>7. /\ begun' = begun + (IF r.active THEN 1 ELSE 0)
        /\ refused' = refused + f
        /\ lines' = IF ~r.handled /\ "logger" \in up THEN lines + 1 ELSE lines
    BY <1>0, <1>1, <2>4 DEF DispatchReply
  <2>8. conn[c].pc = "open" /\ UNCHANGED Outside
    BY <1>1 DEF DispatchReply
  <2> QED BY <2>4, <2>5, <2>6, <2>7, <2>8, DispatchOK
<1>2. ASSUME NEW f \in {0, 1}, DispatchNothing(c, f) PROVE ServerInv'
  <2>1. /\ RequestOK(NoRequest) /\ ~NoRequest.active /\ ~NoRequest.handled
        /\ NoRequest.pc # "open"
    BY NoRequestOK DEF NoRequest
  <2>2. metrics' = [metrics EXCEPT !.requests = Add(@, 1), !.failed = Add(@, f),
                                   !.active = Add(@, IF NoRequest.active THEN 1 ELSE 0)]
    BY <1>0, <1>01, <1>2, <2>1 DEF DispatchNothing
  <2>3. /\ begun' = begun + (IF NoRequest.active THEN 1 ELSE 0)
        /\ refused' = refused + f
        /\ lines' = IF ~NoRequest.handled /\ "logger" \in up THEN lines + 1 ELSE lines
    BY <1>0, <1>2, <2>1 DEF DispatchNothing, LogCompleted
  <2>4. /\ conn[c].pc = "open" /\ UNCHANGED Outside
        /\ conn' = [conn EXCEPT ![c] = NoRequest]
    BY <1>2 DEF DispatchNothing
  <2> QED BY <2>1, <2>2, <2>3, <2>4, DispatchOK
<1>3. ASSUME NEW n \in Sizes, DispatchFile(c, n) PROVE ServerInv'
  <2> DEFINE r == [conn[c] EXCEPT !.pc = "send", !.handled = TRUE, !.active = TRUE,
                                  !.size = n]
  <2>1. r \in RequestStates
    BY <1>0 DEF RequestStates, PCs
  <2>2. /\ r.pc = "send" /\ r.handled /\ r.active
        /\ r.supplied = conn[c].supplied /\ r.size = n
    BY <1>0 DEF RequestStates
  <2>3. conn[c].supplied = 0
    BY <1>3 DEF DispatchFile, ServerInv, RequestsOK, RequestOK
  <2>4. RequestOK(r) /\ r.pc # "open"
    BY <2>1, <2>2, <2>3, ServerConstants DEF RequestOK
  <2>5. conn' = [conn EXCEPT ![c] = r]
    BY <1>0, <1>3 DEF DispatchFile
  <2>9. (IF r.active THEN 1 ELSE 0) = 1 /\ r.handled = TRUE
    BY <1>0, <2>1, <2>2 DEF RequestStates
  <2> HIDE DEF r
  <2>10. /\ metrics' = [metrics EXCEPT !.requests = Add(@, 1), !.active = Add(@, 1)]
         /\ begun' = begun + 1 /\ refused' = refused /\ lines' = lines
    BY <1>3 DEF DispatchFile
  <2>6. metrics' = [metrics EXCEPT !.requests = Add(@, 1), !.failed = Add(@, 0),
                                   !.active = Add(@, IF r.active THEN 1 ELSE 0)]
    BY <1>0, <1>01, <2>9, <2>10
  <2>7. /\ begun' = begun + (IF r.active THEN 1 ELSE 0)
        /\ refused' = refused + 0
        /\ lines' = IF ~r.handled /\ "logger" \in up THEN lines + 1 ELSE lines
    BY <1>0, <2>9, <2>10
  <2>8. conn[c].pc = "open" /\ UNCHANGED Outside
    BY <1>3 DEF DispatchFile
  <2> QED BY <2>4, <2>5, <2>6, <2>7, <2>8, DispatchOK
<1> QED BY <1>1, <1>2, <1>3

\* A step inside a transfer moves no counter.
LEMMA TransferOK ==
  ASSUME ServerInv, NEW c \in Connections, conn[c].pc \in {"send", "acquire", "read"},
         NEW r, RequestOK(r), r.pc \in {"send", "acquire", "read"},
         conn' = [conn EXCEPT ![c] = r], UNCHANGED <<Outside, metrics, history>>
  PROVE  ServerInv'
<1>1. RequestsOK /\ CountersTyped /\ Ledger
  BY DEF ServerInv
<1>2. conn[c].handled /\ conn[c].active /\ r.handled /\ r.active
  BY <1>1 DEF RequestsOK, RequestOK
<1>3. \A d \in Connections : conn'[d] = IF d = c THEN r ELSE conn[d]
  BY <1>1 DEF RequestsOK
<1>4. Opened' = Opened /\ Handled' = Handled /\ Active' = Active
  BY <1>2, <1>3 DEF Opened, Handled, Active
<1>5. RequestsOK'
  BY <1>1, OneRequest
<1>6. CountersTyped' /\ Ledger'
  BY <1>1, <1>4 DEF CountersTyped, Ledger, history, Outside
<1>7. daemon # "none" /\ UNCHANGED Outside
  BY DaemonThere
<1> QED BY <1>5, <1>6, <1>7, RequestFrame

LEMMA RequestStep ==
  ASSUME ServerInv, NEW c \in Connections, Request(c)
  PROVE  ServerInv'
<1>0. /\ conn \in [Connections -> RequestStates] /\ conn[c] \in RequestStates
      /\ RequestOK(conn[c])
  BY DEF ServerInv, RequestsOK
<1>1. ASSUME NEW w \in Workers, FirstCall(c, w) PROVE ServerInv'
  BY <1>1, FirstCallOK
<1>2. ASSUME \/ \E f \in {0, 1} : DispatchReply(c, f) \/ DispatchNothing(c, f)
             \/ \E n \in Sizes : DispatchFile(c, n)
      PROVE  ServerInv'
  BY <1>2, DispatchesOK
<1>3. CASE ReaderAsks(c)
  <2> DEFINE r == [conn[c] EXCEPT !.pc = "acquire"]
  <2>1. r \in RequestStates
    BY <1>0 DEF RequestStates, PCs
  <2>2. /\ r.pc = "acquire" /\ r.handled = conn[c].handled /\ r.active = conn[c].active
        /\ r.size = conn[c].size /\ r.supplied = conn[c].supplied
    BY <1>0 DEF RequestStates
  <2>3. conn[c].pc = "send"
    BY <1>3 DEF ReaderAsks
  <2>4. RequestOK(r)
    BY <1>0, <2>1, <2>2, <2>3 DEF RequestOK
  <2>5. conn' = [conn EXCEPT ![c] = r]
    BY <1>0, <1>3 DEF ReaderAsks
  <2>6. UNCHANGED <<Outside, metrics, history>>
    BY <1>3 DEF ReaderAsks, Outside
  <2> HIDE DEF r
  <2> QED BY <2>2, <2>3, <2>4, <2>5, <2>6, TransferOK
<1>4. ASSUME NEW n \in Readable(conn[c]), ReaderSupplies(c, n) PROVE ServerInv'
  <2> DEFINE r == [conn[c] EXCEPT !.pc = "send", !.supplied = @ + n]
  <2>1. /\ conn[c].supplied \in Nat /\ conn[c].size \in Nat
        /\ conn[c].supplied <= conn[c].size /\ conn[c].pc = "read"
    BY <1>0, <1>4, ServerConstants DEF RequestOK, RequestStates, ReaderSupplies
  <2>2. n \in Nat /\ n <= conn[c].size - conn[c].supplied
    <3>1. conn[c].size - conn[c].supplied \in Nat /\ Block \in Nat
      BY <2>1, ServerConstants
    <3>2. n \in 1..Min({Block, conn[c].size - conn[c].supplied})
      BY DEF Readable
    <3> QED BY <3>1, <3>2, MinPair
  <2>3. r \in RequestStates
    <3>1. conn[c].supplied + n \in Nat
      BY <2>1, <2>2
    <3> QED BY <1>0, <3>1 DEF RequestStates, PCs
  <2>4. /\ r.pc = "send" /\ r.handled = conn[c].handled /\ r.active = conn[c].active
        /\ r.size = conn[c].size /\ r.supplied = conn[c].supplied + n
    BY <1>0 DEF RequestStates
  <2>5. RequestOK(r)
    BY <1>0, <2>1, <2>2, <2>3, <2>4 DEF RequestOK
  <2>6. conn' = [conn EXCEPT ![c] = r]
    BY <1>0, <1>4 DEF ReaderSupplies
  <2>7. UNCHANGED <<Outside, metrics, history>>
    BY <1>4 DEF ReaderSupplies, Outside
  <2> HIDE DEF r
  <2> QED BY <2>1, <2>4, <2>5, <2>6, <2>7, TransferOK
<1>5. CASE ReaderFails(c)
  BY <1>5, CompletedOK DEF ReaderFails, Outside
<1>6. ASSUME NEW code \in Codes, RequestEnds(c, code) PROVE ServerInv'
  BY <1>6, CompletedOK DEF RequestEnds, Outside
<1>7. CASE ReaderGranted(c)
  <2> DEFINE r == [conn[c] EXCEPT !.pc = "read"]
  <2>1. r \in RequestStates
    BY <1>0 DEF RequestStates, PCs
  <2>2. /\ r.pc = "read" /\ r.handled = conn[c].handled /\ r.active = conn[c].active
        /\ r.size = conn[c].size /\ r.supplied = conn[c].supplied
    BY <1>0 DEF RequestStates
  <2>3. conn[c].pc = "acquire"
    BY <1>7 DEF ReaderGranted
  <2>4. RequestOK(r)
    BY <1>0, <2>1, <2>2, <2>3 DEF RequestOK
  <2>5. conn' = [conn EXCEPT ![c] = r]
    BY <1>0, <1>7 DEF ReaderGranted
  <2>6. UNCHANGED <<Outside, metrics, history>>
    BY <1>7 DEF ReaderGranted, Outside
  <2> HIDE DEF r
  <2> QED BY <2>2, <2>3, <2>4, <2>5, <2>6, TransferOK
<1> QED BY <1>1, <1>2, <1>3, <1>4, <1>5, <1>6, <1>7 DEF Request, ReaderReturns

-----------------------------------------------------------------------------
(* start() and stop() *)

\* A step of the game thread or of a worker that touches no request
LEMMA ControlFrame ==
  ASSUME ServerInv, Control', LogOn', UNCHANGED <<requests>>,
         logging' => logging,
         daemon' = "none" => daemon = "none" \/ \A c \in Connections : conn[c].pc = "none"
  PROVE  ServerInv'
<1> USE DEF requests, history
<1>1. RequestsOK' /\ CountersTyped'
  BY DEF ServerInv, RequestsOK, CountersTyped
<1>2. Quiet'
  BY DEF ServerInv, Quiet
<1>3. Ledger'
  <2>1. Opened' = Opened /\ Handled' = Handled /\ Active' = Active
    BY DEF Opened, Handled, Active
  <2> QED BY <2>1 DEF ServerInv, Ledger
<1> QED BY <1>1, <1>2, <1>3 DEF ServerInv

\* metrics_.reset() with no request in progress
LEMMA ResetOK ==
  ASSUME ServerInv, daemon = "none", Reset, UNCHANGED conn
  PROVE  RequestsOK' /\ CountersTyped' /\ Ledger'
<1>1. RequestsOK'
  BY DEF ServerInv, RequestsOK
<1>2. \A c \in Connections : conn'[c].pc = "none" /\ ~conn'[c].handled /\ ~conn'[c].active
  BY DEF ServerInv, Quiet, RequestsOK, RequestOK
<1>3. Opened' = {} /\ Handled' = {} /\ Active' = {}
  BY <1>2 DEF Opened, Handled, Active
<1>4. Cardinality({}) = 0
  BY FS_EmptySet
<1>5. /\ metrics' = NoTraffic /\ lines' = 0 /\ begun' = 0 /\ refused' = 0
  BY DEF Reset
<1>6. \A n \in Counters : NoTraffic[n] = 0
  BY CounterNames DEF NoTraffic
<1>7. CountersTyped'
  <2>1. NoTraffic \in [Counters -> 0..MaxCount]
    <3>1. NoTraffic = [n \in Counters |-> NoTraffic[n]]
      BY DEF NoTraffic, Counters
    <3> QED BY <1>6, <3>1, ServerConstants
  <2> QED BY <1>5, <2>1 DEF CountersTyped
<1>8. Ledger'
  <2>1. MaxRequests \in Nat
    BY ServerConstants
  <2> QED BY <1>3, <1>4, <1>5, <1>6, <2>1, CounterNames DEF Ledger
<1> QED BY <1>1, <1>7, <1>8

LEMMA StartOrStopStep ==
  ASSUME ServerInv, StartOrStop
  PROVE  ServerInv'
<1>0. Control /\ LogOn /\ Quiet
  BY DEF ServerInv
<1> USE DEF Control, LogOn, Components
<1>1. CASE StopBandwidth
  <2>1. Control' /\ LogOn'
    BY <1>0, <1>1 DEF StopBandwidth
  <2> QED BY <1>1, <2>1, ControlFrame DEF StopBandwidth
<1>2. CASE StopDaemon
  <2>1. Control' /\ LogOn'
    BY <1>0, <1>2 DEF StopDaemon
  <2> QED BY <1>2, <2>1, ControlFrame DEF StopDaemon
<1>3. CASE DaemonStopped
  <2>1. Control' /\ LogOn'
    BY <1>0, <1>3 DEF DaemonStopped
  <2> QED BY <1>3, <2>1, ControlFrame DEF DaemonStopped
<1>4. CASE StopComponents
  <2>1. Control' /\ LogOn'
    BY <1>0, <1>4 DEF StopComponents
  <2> QED BY <1>4, <2>1, ControlFrame DEF StopComponents
<1>5. ASSUME NEW c \in Connections, CloseConnection(c) PROVE ServerInv'
  BY <1>5, CompletedOK DEF CloseConnection, Outside
<1>6. CASE StartRejected
  <2>1. Control' /\ LogOn'
    BY <1>0, <1>6 DEF StartRejected
  <2> QED BY <1>6, <2>1, ControlFrame DEF StartRejected
<1>7. ASSUME NEW o \in Optional, StartFails(o) PROVE ServerInv'
  <2>1. Control' /\ LogOn'
    BY <1>0, <1>7 DEF StartFails, Undo, Optional
  <2>2. daemon = "none"
    BY <1>0, <1>7 DEF StartFails
  <2>3. Quiet'
    BY <1>0, <1>7 DEF StartFails, Quiet
  <2> QED BY <1>7, <2>1, <2>2, <2>3, ResetOK DEF StartFails, ServerInv
<1>8. ASSUME NEW o \in Optional, StartSucceeds(o) PROVE ServerInv'
  <2>1. Control'
    BY <1>0, <1>8 DEF StartSucceeds, Optional
  <2>4. LogOn'
    <3>1. logging' = ("logger" \in o) /\ o \subseteq up'
      BY <1>8 DEF StartSucceeds
    <3>2. CASE "logger" \in o
      BY <3>1, <3>2 DEF LogOn
    <3>3. CASE "logger" \notin o
      <4>1. ("logger" \in o) = FALSE
        BY <3>3
      <4>2. logging' = FALSE
        BY <3>1, <4>1
      <4> QED BY <4>2 DEF LogOn
    <3> QED BY <3>2, <3>3
  <2>2. daemon = "none"
    BY <1>0, <1>8 DEF StartSucceeds
  <2>3. Quiet'
    BY <1>8 DEF StartSucceeds, Quiet
  <2> QED BY <1>8, <2>1, <2>2, <2>3, <2>4, ResetOK DEF StartSucceeds, ServerInv
<1> QED BY <1>1, <1>2, <1>3, <1>4, <1>5, <1>6, <1>7, <1>8 DEF StartOrStop

LEMMA ServerStep == ServerInv /\ ServerNext => ServerInv'
<1> SUFFICES ASSUME ServerInv, ServerNext PROVE ServerInv'
  OBVIOUS
<1>1. ASSUME NEW w \in Workers, WorkerExit(w) PROVE ServerInv'
  <2>1. Control' /\ LogOn'
    BY <1>1 DEF WorkerExit, ServerInv, Control, LogOn
  <2> QED BY <1>1, <2>1, ControlFrame DEF WorkerExit
<1> QED BY <1>1, StartOrStopStep, RequestStep DEF ServerNext

LEMMA ServerStarts == ServerInit => ServerInv
<1> SUFFICES ASSUME ServerInit PROVE ServerInv
  OBVIOUS
<1>1. \A c \in Connections : conn[c] = NoRequest
  BY DEF ServerInit
<1>2. NoRequest \in RequestStates /\ NoRequest.pc = "none" /\ ~NoRequest.handled
      /\ ~NoRequest.active
  BY NoRequestOK DEF RequestOK, NoRequest
<1>3. RequestsOK
  BY <1>1, <1>2, NoRequestOK DEF RequestsOK, ServerInit
<1>4. Opened = {} /\ Handled = {} /\ Active = {}
  BY <1>1, <1>2 DEF Opened, Handled, Active
<1>5. Cardinality({}) = 0
  BY FS_EmptySet
<1>6. \A n \in Counters : NoTraffic[n] = 0
  BY CounterNames DEF NoTraffic
<1>7. CountersTyped
  <2>1. NoTraffic = [n \in Counters |-> NoTraffic[n]]
    BY DEF NoTraffic, Counters
  <2> QED BY <1>6, <2>1, ServerConstants DEF ServerInit, CountersTyped
<1>8. Ledger
  <2>1. MaxRequests \in Nat
    BY ServerConstants
  <2> QED BY <1>4, <1>5, <1>6, <2>1, CounterNames DEF Ledger, ServerInit
<1>9. Control /\ Quiet /\ LogOn
  BY <1>1, <1>2 DEF ServerInit, Control, Quiet, LogOn
<1> QED BY <1>3, <1>7, <1>8, <1>9 DEF ServerInv

-----------------------------------------------------------------------------
(* The plugin *)

GameTyped ==
    /\ game \in {"idle", "stopping", "starting", "detaching", "detached"}
    /\ registered \in BOOLEAN /\ pending \in BOOLEAN
    /\ auto \in BOOLEAN

\* The game thread is inside start() or stop() only while it does one of them,
\* and the automatic URL stands only between two of them.
GameThread ==
    /\ game \in {"idle", "detached"} => call = "none"
    /\ managed => game = "idle" /\ call = "none" /\ daemon = "running"

\* Both URLs, the announced one and the remembered one
UrlsOK ==
    /\ managed \in BOOLEAN
    /\ own \in Urls
    /\ url \in Urls \cup {OwnUrl}
    /\ IF managed THEN previous = own ELSE previous = "" /\ url = own

PluginInv == ServerInv /\ GameTyped /\ GameThread /\ UrlsOK

LEMMA PluginShows ==
  PluginInv => PluginTypeOK /\ UrlHonest /\ OperatorsUrlKept
<1> SUFFICES ASSUME PluginInv PROVE PluginTypeOK /\ UrlHonest /\ OperatorsUrlKept
  OBVIOUS
<1>1. TypeOK
  BY ServerTypes DEF PluginInv
<1>2. PluginTypeOK
  BY <1>1 DEF PluginInv, PluginTypeOK, GameTyped, UrlsOK
<1> QED BY <1>2 DEF PluginInv, GameThread, UrlsOK, UrlHonest, OperatorsUrlKept

LEMMA ServerShows ==
  ServerInv => ActiveExact /\ LedgerBalanced /\ LinePerRequest /\ NothingLeftRunning
<1> SUFFICES ASSUME ServerInv
             PROVE  ActiveExact /\ LedgerBalanced /\ LinePerRequest /\ NothingLeftRunning
  OBVIOUS
<1>1. ASSUME call \in {"none", "start"}, daemon = "none"
      PROVE  up = {} /\ alive = {} /\ \A c \in Connections : conn[c].pc = "none"
  BY <1>1 DEF ServerInv, Control, Quiet
<1>2. NothingLeftRunning
  BY <1>1 DEF NothingLeftRunning, Using
<1> QED BY <1>2, LedgerShows DEF ServerInv

\* Nothing moves the game thread out of "none" but the plugin.
LEMMA ServerIdle ==
  ASSUME ServerInv, ServerNext, call = "none"
  PROVE  call' = "none" /\ daemon' = daemon
<1>1. ~StartOrStop
  BY DEF StartOrStop, StopBandwidth, StopDaemon, DaemonStopped, StopComponents,
         CloseConnection, StartRejected, StartFails, StartSucceeds
<1>2. CASE \E w \in Workers : WorkerExit(w)
  BY <1>2 DEF WorkerExit
<1>3. CASE \E c \in Connections : Request(c)
  BY <1>3 DEF Request, FirstCall, DispatchReply, DispatchNothing, DispatchFile,
              ReaderAsks, ReaderReturns, ReaderGranted, ReaderFails, ReaderSupplies,
              RequestEnds
<1> QED BY <1>1, <1>2, <1>3 DEF ServerNext

\* start() or stop() begins.
LEMMA CallBegins ==
  ASSUME ServerInv, call = "none", call' = "bandwidth", wanted' \in BOOLEAN,
         UNCHANGED <<daemon, alive, up, logging, requests>>
  PROVE  ServerInv'
<1>1. Control' /\ LogOn'
  BY DEF ServerInv, Control, LogOn
<1> QED BY <1>1, ControlFrame

LEMMA RestoreOK ==
  ASSUME UrlsOK, RestoreDownloadUrl, UNCHANGED own
  PROVE  UrlsOK' /\ ~managed'
  BY DEF UrlsOK, RestoreDownloadUrl

LEMMA Untouched ==
  ASSUME ServerInv, UNCHANGED serverVars
  PROVE  ServerInv'
<1>1. Control' /\ LogOn'
  BY DEF ServerInv, Control, LogOn, serverVars
<1> QED BY <1>1, ControlFrame DEF serverVars

\* fastdl_restart and the first frame
LEMMA StartOK ==
  ASSUME PluginInv, NEW enabled \in BOOLEAN, game = "idle",
         StartServer(enabled) \/ ReadConfigThrows
  PROVE  /\ ServerInv' /\ GameThread' /\ UrlsOK'
         /\ game' \in {"idle", "starting", "stopping"} /\ auto' \in BOOLEAN
<1>0. ServerInv /\ GameTyped /\ GameThread /\ UrlsOK /\ call = "none"
  BY DEF PluginInv, GameThread
<1>1. CASE StartServer(enabled)
  <2>1. UrlsOK' /\ ~managed'
    BY <1>0, <1>1, RestoreOK DEF StartServer
  <2>2. ServerInv'
    BY <1>0, <1>1, CallBegins DEF StartServer
  <2>3. game' \in {"starting", "stopping"} /\ auto' \in BOOLEAN
    BY <1>1 DEF StartServer
  <2> QED BY <2>1, <2>2, <2>3 DEF GameThread
<1>2. CASE ReadConfigThrows
  <2>1. UrlsOK' /\ ~managed'
    BY <1>0, <1>2, RestoreOK DEF ReadConfigThrows
  <2>2. ServerInv' /\ call' = call /\ game' = game /\ auto' = auto
    BY <1>0, <1>2, Untouched DEF ReadConfigThrows, serverVars
  <2> QED BY <1>0, <2>1, <2>2 DEF GameThread, GameTyped
<1> QED BY <1>1, <1>2

LEMMA PluginStep == PluginInv /\ [Next]_vars => PluginInv'
<1> SUFFICES ASSUME PluginInv, [Next]_vars PROVE PluginInv'
  OBVIOUS
<1>0. ServerInv /\ GameTyped /\ GameThread /\ UrlsOK
  BY DEF PluginInv
<1> USE DEF plugin, urls
<1>1. ASSUME NEW enabled \in BOOLEAN, CommandRestart(enabled) PROVE PluginInv'
  <2>1. /\ ServerInv' /\ GameThread' /\ UrlsOK'
        /\ game' \in {"idle", "starting", "stopping"} /\ auto' \in BOOLEAN
    BY <1>1, StartOK DEF CommandRestart
  <2>2. registered' = registered /\ pending' = pending
    BY <1>1 DEF CommandRestart
  <2> QED BY <1>0, <2>1, <2>2 DEF PluginInv, GameTyped
<1>2. ASSUME NEW enabled \in BOOLEAN, StartFrame(enabled) PROVE PluginInv'
  <2>1. /\ ServerInv' /\ GameThread' /\ UrlsOK'
        /\ game' \in {"idle", "starting", "stopping"} /\ auto' \in BOOLEAN
    BY <1>2, StartOK DEF StartFrame
  <2>2. registered' = registered /\ pending' = FALSE
    BY <1>2 DEF StartFrame
  <2> QED BY <1>0, <2>1, <2>2 DEF PluginInv, GameTyped
<1>3. ASSUME NEW u \in Urls, OperatorSetsUrl(u) PROVE PluginInv'
  <2>1. ServerInv'
    BY <1>0, <1>3, Untouched DEF OperatorSetsUrl
  <2>2. UrlsOK'
    BY <1>0, <1>3 DEF OperatorSetsUrl, UrlsOK
  <2>3. GameTyped' /\ GameThread'
    BY <1>0, <1>3 DEF OperatorSetsUrl, GameTyped, GameThread, serverVars
  <2> QED BY <2>1, <2>2, <2>3 DEF PluginInv
<1>4. CASE MetaDetach
  <2>1. ServerInv'
    BY <1>0, <1>4, CallBegins DEF MetaDetach, GameThread
  <2>2. UrlsOK' /\ ~managed'
    BY <1>0, <1>4, RestoreOK DEF MetaDetach
  <2>3. GameTyped' /\ GameThread'
    BY <1>0, <1>4, <2>2 DEF MetaDetach, GameTyped, GameThread
  <2> QED BY <2>1, <2>2, <2>3 DEF PluginInv
<1>5. CASE GameInit
  <2>1. ServerInv'
    BY <1>0, <1>5, Untouched DEF GameInit
  <2>2. UrlsOK' /\ GameTyped' /\ GameThread'
    BY <1>0, <1>5 DEF GameInit, UrlsOK, GameTyped, GameThread, serverVars
  <2> QED BY <2>1, <2>2 DEF PluginInv
<1>6. CASE Returned
  <2>1. ServerInv'
    BY <1>0, <1>6, Untouched DEF Returned
  <2>2. UrlsOK' /\ GameTyped' /\ GameThread'
    BY <1>0, <1>6 DEF Returned, UrlsOK, GameTyped, GameThread, serverVars
  <2> QED BY <2>1, <2>2 DEF PluginInv
<1>7. CASE ConfigureDownloadUrl
  <2>1. ServerInv'
    BY <1>0, <1>7, Untouched DEF ConfigureDownloadUrl
  <2>2. UrlsOK' /\ GameTyped' /\ GameThread'
    BY <1>0, <1>7 DEF ConfigureDownloadUrl, UrlsOK, GameTyped, GameThread, serverVars
  <2> QED BY <2>1, <2>2 DEF PluginInv
<1>8. CASE Detached
  <2>1. ServerInv'
    BY <1>0, <1>8, Untouched DEF Detached
  <2>2. UrlsOK' /\ GameTyped' /\ GameThread'
    BY <1>0, <1>8 DEF Detached, UrlsOK, GameTyped, GameThread, serverVars
  <2> QED BY <2>1, <2>2 DEF PluginInv
<1>9. CASE ServerNext /\ UNCHANGED <<plugin, urls>>
  <2>1. ServerInv'
    BY <1>0, <1>9, ServerStep
  <2>2. UrlsOK' /\ GameTyped'
    BY <1>0, <1>9 DEF UrlsOK, GameTyped
  <2>3. GameThread'
    BY <1>0, <1>9, ServerIdle DEF GameThread
  <2> QED BY <2>1, <2>2, <2>3 DEF PluginInv
<1>10. CASE UNCHANGED vars
  <2>1. ServerInv'
    BY <1>0, <1>10, Untouched DEF vars
  <2>2. UrlsOK' /\ GameTyped' /\ GameThread'
    BY <1>0, <1>10 DEF vars, UrlsOK, GameTyped, GameThread, serverVars
  <2> QED BY <2>1, <2>2 DEF PluginInv
<1> QED BY <1>1, <1>2, <1>3, <1>4, <1>5, <1>6, <1>7, <1>8, <1>9, <1>10
        DEF Next, Operator, Engine

LEMMA PluginStarts == Init => PluginInv
<1> SUFFICES ASSUME Init PROVE PluginInv
  OBVIOUS
<1>1. ServerInv
  BY ServerStarts DEF Init
<1>2. GameTyped /\ GameThread /\ UrlsOK
  BY DEF Init, GameTyped, GameThread, UrlsOK, ServerInit
<1> QED BY <1>1, <1>2 DEF PluginInv

-----------------------------------------------------------------------------

\* Whatever the operator, the engine, the workers and the clients do, every
\* variable of start(), stop(), the requests and the plugin keeps its type.
THEOREM PluginTyped == Spec => []PluginTypeOK
<1>1. PluginInv => PluginTypeOK
  BY PluginShows
<1> QED BY <1>1, PluginStarts, PluginStep, PTL DEF Spec

\* The counter of active transfers that transferStarted() and
\* transferFinished() keep is at every moment the number of transfers in
\* progress, so its decrement never wraps.
THEOREM ActiveAlwaysExact == Spec => []ActiveExact
<1>1. PluginInv => ActiveExact
  BY ServerShows DEF PluginInv
<1> QED BY <1>1, PluginStarts, PluginStep, PTL DEF Spec

\* Every transfer since metrics_.reset() is in progress or was counted by
\* requestCompleted() or failure() under exactly one outcome.
THEOREM LedgerAlwaysBalanced == Spec => []LedgerBalanced
<1>1. PluginInv => LedgerBalanced
  BY ServerShows DEF PluginInv
<1> QED BY <1>1, PluginStarts, PluginStep, PTL DEF Spec

\* While the log is on, each request that handleRequest() dispatched is in
\* progress or has its line in the log, through stop() as well.
THEOREM EveryRequestLogged == Spec => []LinePerRequest
<1>1. PluginInv => LinePerRequest
  BY ServerShows DEF PluginInv
<1> QED BY <1>1, PluginStarts, PluginStep, PTL DEF Spec

\* After stop() and after a start() that failed at any point, no component, no
\* worker and no request is left.
THEOREM StopLeavesNothing == Spec => []NothingLeftRunning
<1>1. PluginInv => NothingLeftRunning
  BY ServerShows DEF PluginInv
<1> QED BY <1>1, PluginStarts, PluginStep, PTL DEF Spec

\* configureDownloadUrl() and restoreDownloadUrl() announce the automatic URL
\* only while the listener runs and is not being stopped.
THEOREM UrlAlwaysHonest == Spec => []UrlHonest
<1>1. PluginInv => UrlHonest
  BY PluginShows
<1> QED BY <1>1, PluginStarts, PluginStep, PTL DEF Spec

\* restoreDownloadUrl() gives back the operator's own value, over any sequence
\* of restarts, failed starts and edits of sv_downloadurl.
THEOREM OperatorsUrlReturns == Spec => []OperatorsUrlKept
<1>1. PluginInv => OperatorsUrlKept
  BY PluginShows
<1> QED BY <1>1, PluginStarts, PluginStep, PTL DEF Spec
=============================================================================
