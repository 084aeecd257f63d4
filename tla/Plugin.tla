------------------------------ MODULE Plugin ------------------------------
(***************************************************************************)
(* The Metamod plugin of src/src/meta_plugin.cpp over FastdlServer: the    *)
(* game thread registers the plugin, starts the server in the first frame  *)
(* after that and at every fastdl_restart, and manages sv_downloadurl.     *)
(* The operator edits console variables only while the game thread is not  *)
(* inside the plugin; startServer() reads all settings at its beginning.   *)
(***************************************************************************)
EXTENDS FastdlServer

CONSTANTS
    Urls,    \* values the operator gives sv_downloadurl
    OwnUrl   \* the normalised fastdl_public_url

ASSUME PluginConstants == OwnUrl \notin Urls /\ Urls # {}

VARIABLES
    game,                  \* what the game thread does
    registered, pending,   \* commands are registered, g_startPending
    auto,                  \* the settings ask for a valid public URL
    url,                   \* sv_downloadurl
    managed, previous,     \* g_downloadUrlManaged, g_previousDownloadUrl
    own                    \* history: the operator's last choice while unmanaged

plugin == <<game, registered, pending>>
urls == <<auto, url, managed, previous, own>>
vars == <<serverVars, plugin, urls>>

PluginTypeOK ==
    /\ TypeOK
    /\ game \in {"idle", "stopping", "starting", "detaching", "detached"}
    /\ registered \in BOOLEAN /\ pending \in BOOLEAN
    /\ auto \in BOOLEAN /\ managed \in BOOLEAN
    /\ url \in Urls \cup {OwnUrl}
    /\ previous \in Urls \cup {OwnUrl, ""}
    /\ own \in Urls

-----------------------------------------------------------------------------

\* gameInit(): registerPlugin() adds the commands, loads the settings and asks
\* for a start in the next frame; an exception leaves the commands behind.
GameInit ==
    /\ game = "idle" /\ ~registered
    /\ registered' = TRUE /\ pending' \in BOOLEAN
    /\ UNCHANGED <<serverVars, game, urls>>

KeepsUrl == UNCHANGED <<url, managed, previous>>
RestoreDownloadUrl ==
    IF managed
    THEN url' = previous /\ previous' = "" /\ managed' = FALSE
    ELSE UNCHANGED <<url, managed, previous>>

\* startServer() up to g_server: the URL is given back, the settings are read.
StartServer(enabled) ==
    /\ RestoreDownloadUrl
    /\ auto' \in {FALSE, enabled}
    /\ game' = IF enabled THEN "starting" ELSE "stopping"
    /\ call' = "bandwidth" /\ wanted' = enabled
    /\ UNCHANGED <<daemon, alive, up, logging, requests, own>>

\* A setting that cannot be converted throws out of readConfig(): the server
\* runs on, without its URL.
ReadConfigThrows == RestoreDownloadUrl /\ UNCHANGED <<serverVars, game, auto, own>>

CommandRestart(enabled) ==
    /\ game = "idle" /\ registered
    /\ StartServer(enabled) \/ ReadConfigThrows
    /\ UNCHANGED <<registered, pending>>

StartFrame(enabled) ==
    /\ game = "idle" /\ pending
    /\ pending' = FALSE
    /\ StartServer(enabled) \/ ReadConfigThrows
    /\ UNCHANGED registered

\* g_server is back: disabled, or start() failed, or the URL may be announced.
Returned ==
    /\ game \in {"stopping", "starting"} /\ call = "none"
    /\ game = "starting" => daemon = "none" \/ ~auto
    /\ game' = "idle" /\ auto' = FALSE
    /\ UNCHANGED <<serverVars, registered, pending, url, managed, previous, own>>

SavesTooLate ==
    /\ game = "starting" /\ call = "none" /\ daemon = "running" /\ auto
    /\ previous' = OwnUrl /\ url' = OwnUrl /\ managed' = TRUE
    /\ game' = "idle" /\ auto' = FALSE
    /\ UNCHANGED <<serverVars, registered, pending, own>>
ConfigureDownloadUrl ==
    /\ game = "starting" /\ call = "none" /\ daemon = "running" /\ auto
    /\ previous' = url /\ url' = OwnUrl /\ managed' = TRUE
    /\ game' = "idle" /\ auto' = FALSE
    /\ UNCHANGED <<serverVars, registered, pending, own>>

MetaDetach ==
    /\ game = "idle"
    /\ RestoreDownloadUrl
    /\ game' = "detaching"
    /\ call' = "bandwidth" /\ wanted' = FALSE
    /\ UNCHANGED <<daemon, alive, up, logging, requests, registered, pending, auto, own>>

\* The process ends after this.
Detached ==
    /\ game = "detaching" /\ call = "none"
    /\ game' = "detached"
    /\ UNCHANGED <<serverVars, registered, pending, urls>>

\* The engine's console
OperatorSetsUrl(u) ==
    /\ game = "idle" /\ url # u
    /\ url' = u
    /\ own' = IF managed THEN own ELSE u
    /\ UNCHANGED <<serverVars, plugin, auto, managed, previous>>

-----------------------------------------------------------------------------

Init ==
    /\ ServerInit
    /\ game = "idle"
    /\ registered = FALSE /\ pending = FALSE
    /\ auto = FALSE
    /\ url \in Urls /\ own = url
    /\ managed = FALSE /\ previous = ""

Operator ==
    \/ \E enabled \in BOOLEAN : CommandRestart(enabled)
    \/ \E u \in Urls : OperatorSetsUrl(u)
    \/ MetaDetach

Engine ==
    \/ GameInit
    \/ \E enabled \in BOOLEAN : StartFrame(enabled)
    \/ Returned \/ ConfigureDownloadUrl \/ Detached

Next == Operator \/ Engine \/ (ServerNext /\ UNCHANGED <<plugin, urls>>)

\* The game thread runs on; acquire() returns (BandwidthLimiter, AcquireReturns);
\* the loop of a worker tests the shutdown flag between two rounds over its
\* connections.
Fairness ==
    /\ WF_vars(StartOrStop /\ UNCHANGED <<plugin, urls>>)
    /\ WF_vars(Returned \/ ConfigureDownloadUrl \/ Detached)
    /\ \A c \in Connections : WF_vars(ReaderReturns(c) /\ UNCHANGED <<plugin, urls>>)
    /\ \A w \in Workers : SF_vars(WorkerExit(w) /\ UNCHANGED <<plugin, urls>>)

Spec == Init /\ [][Next]_vars /\ Fairness

-----------------------------------------------------------------------------
(* Properties *)

\* README: "The URL is assigned only after the listener starts successfully.
\* The previous sv_downloadurl is restored on disable, failed restart, or
\* plugin shutdown": clients are never sent to a listener that is going down.
UrlHonest == managed => daemon = "running" /\ call = "none"

\* However often the server is restarted, reconfigured or fails to start, what
\* restoreDownloadUrl() gives back is a value the operator chose: the automatic
\* URL never takes its place.
OperatorsUrlKept == own = IF managed THEN previous ELSE url

\* A restart, a disable or a shutdown with transfers in progress always gives
\* the game thread back, so the game goes on.
GameGoesOn == game \in {"starting", "stopping", "detaching"} ~> game \in {"idle", "detached"}
=============================================================================
