------------------------ MODULE RepresentationStore ------------------------
(***************************************************************************)
(* What the gzip cache promises to the HTTP server, without its worker,    *)
(* queue, markers, temporaries and limits: a store of representations      *)
(* below a tree of files that change.  A request fixes the version of the  *)
(* file when it begins and is answered from the store with exactly that    *)
(* version, or not at all (the server then sends the plain file).          *)
(* Representations appear whole, only while the cache is up, and only for  *)
(* versions that have existed; they may disappear at any time, which never *)
(* touches a response already being sent; the store outlives the process.  *)
(***************************************************************************)
EXTENDS Integers

CONSTANTS Files, MaxVersion, Threads, NoJob

VARIABLES
    version, present,  \* the files
    up,                \* is the cache running?
    store,             \* versions whose bytes each representation holds
    asked, sent        \* identity and content of every thread's response

Identities == Files \X (1..MaxVersion)
files == <<version, present>>
requests == <<asked, sent>>
vars == <<files, up, store, requests>>

Init ==
    /\ version = [f \in Files |-> 1] /\ present = Files
    /\ up = FALSE
    /\ store = [k \in Identities |-> {}]
    /\ asked = [t \in Threads |-> NoJob] /\ sent = [t \in Threads |-> {}]

Replace(f) ==
    /\ version[f] < MaxVersion
    /\ version' = [version EXCEPT ![f] = @ + 1]
    /\ present' = present \cup {f}
    /\ UNCHANGED <<up, store, requests>>

Remove(f) ==
    /\ present' = present \ {f}
    /\ UNCHANGED <<version, up, store, requests>>

Start == ~up /\ up' = TRUE /\ UNCHANGED <<files, store, requests>>

\* Stopped only between requests
Stop ==
    /\ up /\ up' = FALSE
    /\ asked = [t \in Threads |-> NoJob]
    /\ UNCHANGED <<files, store, requests>>

Crash ==
    /\ up /\ up' = FALSE
    /\ asked' = [t \in Threads |-> NoJob] /\ sent' = [t \in Threads |-> {}]
    /\ UNCHANGED <<files, store>>

Publish(k) ==
    /\ up
    /\ k[2] <= version[k[1]]
    /\ store' = [store EXCEPT ![k] = {k[2]}]
    /\ UNCHANGED <<files, up, requests>>

Withdraw(S) ==
    /\ up
    /\ store' = [k \in Identities |-> IF k \in S THEN {} ELSE store[k]]
    /\ UNCHANGED <<files, up, requests>>

Ask(t, f) ==
    /\ up /\ asked[t] = NoJob
    /\ f \in present
    /\ asked' = [asked EXCEPT ![t] = <<f, version[f]>>]
    /\ UNCHANGED <<files, up, store, sent>>

Send(t) ==
    /\ asked[t] # NoJob /\ sent[t] = {}
    /\ store[asked[t]] # {}
    /\ sent' = [sent EXCEPT ![t] = {asked[t][2]}]
    /\ UNCHANGED <<files, up, store, asked>>

Finish(t) ==
    /\ asked[t] # NoJob
    /\ asked' = [asked EXCEPT ![t] = NoJob]
    /\ sent' = [sent EXCEPT ![t] = {}]
    /\ UNCHANGED <<files, up, store>>

Next ==
    \/ \E f \in Files : Replace(f) \/ Remove(f)
    \/ Start \/ Stop \/ Crash
    \/ \E k \in Identities : Publish(k)
    \/ \E S \in SUBSET Identities : Withdraw(S)
    \/ \E t \in Threads : Send(t) \/ Finish(t) \/ \E f \in Files : Ask(t, f)

Spec == Init /\ [][Next]_vars
=============================================================================
