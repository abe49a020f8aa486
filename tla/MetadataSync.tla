---------------------------- MODULE MetadataSync ----------------------------
(***************************************************************************)
(* MetadataSyncRunner: the one goroutine that copies CPA's metadata (auth  *)
(* files, providers, API keys) into the keeper's tables, and the signals   *)
(* that wake it.                                                           *)
(*                                                                         *)
(* Three wake sources feed its select: a one-slot channel of connection    *)
(* events, a periodic timer that only counts outside notification mode,    *)
(* and refresh requests, merged by a one-slot channel and a trailing       *)
(* debounce.  Signals come from the usage ingest runner through            *)
(* UsageIngestBridge, which drops them until the business services are     *)
(* built, and from API handlers that changed a credential.  A refresh      *)
(* request is two steps, a locked update and a channel send, and the       *)
(* runner can take any step in between.                                    *)
(*                                                                         *)
(* What a synchronisation writes is reduced to whether the tables hold     *)
(* CPA's current metadata.                                                 *)
(***************************************************************************)
VARIABLES
    ready,              \* UsageIngestBridge forwards, and Run has started
    notificationMode,   \* CPA announces changes: the periodic tick is a no-op
    activated,          \* the first connection event has been taken
    connectedRequests,  \* the one slot of the channel of the same name
    refreshRequests,    \* the one slot of the channel of the same name
    debounce,           \* the debounce timer exists
    recent,             \* the last refresh request is within refreshDebounce
    sending,            \* callers between recordRefreshRequest and the send
    loop,               \* where the runner's goroutine is
    owed,               \* history: asked for since a sync last began
    stale,              \* CPA's metadata differs from the tables
    current             \* no change since the sync in progress began

syncVars == <<ready, notificationMode, activated, connectedRequests,
              refreshRequests, debounce, recent, sending, loop, owed, stale,
              current>>

Callers == {"ingest", "local"}

\* What runSync was called from.
Syncs == {"connected", "tick", "refresh"}
Points == {"select", "drained"} \cup Syncs

SyncInit ==
    /\ ready = FALSE
    /\ notificationMode = FALSE
    /\ activated = FALSE
    /\ connectedRequests = FALSE
    /\ refreshRequests = FALSE
    /\ debounce = FALSE
    /\ recent = FALSE
    /\ sending = {}
    /\ loop = "select"
    /\ owed = FALSE
    /\ stale = TRUE
    /\ current = FALSE

-----------------------------------------------------------------------------
(* Signals.  The calls of the ingest runner pass through the bridge.       *)

\* ActivateNormalWriter: forward from now on, and announce a connection
\* whatever the ingest runner's state; the ready tasks start after it.
ActivateNormalWriter ==
    /\ ~ready
    /\ ready' = TRUE
    /\ connectedRequests' = TRUE
    /\ owed' = TRUE
    /\ UNCHANGED <<notificationMode, activated, refreshRequests, debounce,
                   recent, sending, loop, stale, current>>

NotifyIngestConnected ==
    /\ connectedRequests' = (connectedRequests \/ ready)
    /\ owed' = (owed \/ ready)
    /\ UNCHANGED <<ready, notificationMode, activated, refreshRequests,
                   debounce, recent, sending, loop, stale, current>>

SetNotificationMode(on) ==
    /\ notificationMode' = (IF ready THEN on ELSE notificationMode)
    /\ UNCHANGED <<ready, activated, connectedRequests, refreshRequests,
                   debounce, recent, sending, loop, owed, stale, current>>

MarkRefreshSupported == SetNotificationMode(TRUE)
MarkRefreshPollingRequired == SetNotificationMode(FALSE)

\* Before activation nothing is queued: the first connection's sync, which
\* has not begun, covers the request.
recordRefreshRequest(who, upstream) ==
    /\ who \notin sending
    /\ notificationMode' = (notificationMode \/ upstream)
    /\ owed' = TRUE
    /\ recent' = (recent \/ activated)
    /\ sending' = (IF activated THEN sending \cup {who} ELSE sending)
    /\ UNCHANGED <<ready, activated, connectedRequests, refreshRequests,
                   debounce, loop, stale, current>>

RequestMetadataRefresh ==
    \/ ready /\ recordRefreshRequest("ingest", TRUE)
    \/ ~ready /\ UNCHANGED syncVars

SendRefresh(who) ==
    /\ who \in sending
    /\ sending' = sending \ {who}
    /\ refreshRequests' = TRUE
    /\ UNCHANGED <<ready, notificationMode, activated, connectedRequests,
                   debounce, recent, loop, owed, stale, current>>

\* A credential handler that changed CPA asks for a refresh.  The router
\* that reaches it exists once the services are ready.
RequestLocalMetadataRefresh ==
    /\ ready
    /\ recordRefreshRequest("local", FALSE)

\* CPA's metadata changes, announced or not.
MetadataChanges ==
    /\ stale' = TRUE
    /\ current' = FALSE
    /\ UNCHANGED <<ready, notificationMode, activated, connectedRequests,
                   refreshRequests, debounce, recent, sending, loop, owed>>

-----------------------------------------------------------------------------
(* The runner's loop.                                                      *)

\* runSync begins: it reads CPA from here on.
BeginSync(from) ==
    /\ loop' = from
    /\ owed' = FALSE
    /\ current' = TRUE

TakeConnected ==
    /\ ready /\ loop = "select"
    /\ connectedRequests
    /\ connectedRequests' = FALSE
    /\ activated' = TRUE
    /\ BeginSync("connected")
    /\ UNCHANGED <<ready, notificationMode, refreshRequests, debounce, recent,
                   sending, stale>>

Tick ==
    /\ ready /\ loop = "select"
    /\ activated /\ ~notificationMode
    /\ BeginSync("tick")
    /\ UNCHANGED <<ready, notificationMode, activated, connectedRequests,
                   refreshRequests, debounce, recent, sending, stale>>

TakeRefresh ==
    /\ ready /\ loop = "select"
    /\ refreshRequests
    /\ refreshRequests' = FALSE
    /\ debounce' = TRUE
    /\ UNCHANGED <<ready, notificationMode, activated, connectedRequests,
                   recent, sending, loop, owed, stale, current>>

\* The timer fires: drop the merged request, then look at its age.
DebounceFires ==
    /\ ready /\ loop = "select"
    /\ debounce
    /\ refreshRequests' = FALSE
    /\ loop' = "drained"
    /\ UNCHANGED <<ready, notificationMode, activated, connectedRequests,
                   debounce, recent, sending, owed, stale, current>>

\* Variant with a fault: the debounce is dropped when a newer request makes it wait.
DropTimer ==
    /\ loop = "drained"
    /\ recent
    /\ loop' = "select"
    /\ debounce' = FALSE
    /\ UNCHANGED <<ready, notificationMode, activated, connectedRequests,
                   refreshRequests, recent, sending, owed, stale,
                   current>>

\* refreshDebounceDelay > 0: a newer request came, wait for the rest.
WaitLonger ==
    /\ loop = "drained"
    /\ recent
    /\ loop' = "select"
    /\ UNCHANGED <<ready, notificationMode, activated, connectedRequests,
                   refreshRequests, debounce, recent, sending, owed, stale,
                   current>>

SyncAfterDebounce ==
    /\ loop = "drained"
    /\ ~recent
    /\ BeginSync("refresh")
    /\ UNCHANGED <<ready, notificationMode, activated, connectedRequests,
                   refreshRequests, debounce, recent, sending, stale>>

WindowPasses ==
    /\ recent
    /\ recent' = FALSE
    /\ UNCHANGED <<ready, notificationMode, activated, connectedRequests,
                   refreshRequests, debounce, sending, loop, owed, stale,
                   current>>

\* runSync returns; the error is only logged.  The debounce timer that led
\* here is dropped.
SyncEnds(ok) ==
    /\ loop \in Syncs
    /\ loop' = "select"
    /\ stale' = (IF ok THEN ~current ELSE stale)
    /\ debounce' = (debounce /\ loop # "refresh")
    /\ UNCHANGED <<ready, notificationMode, activated, connectedRequests,
                   refreshRequests, recent, sending, owed, current>>

Loop ==
    \/ TakeConnected \/ Tick \/ TakeRefresh
    \/ DebounceFires \/ WaitLonger \/ SyncAfterDebounce
    \/ \E ok \in BOOLEAN : SyncEnds(ok)

\* What happens beside the ingest runner.
Beside ==
    \/ ActivateNormalWriter
    \/ RequestLocalMetadataRefresh \/ SendRefresh("local")
    \/ MetadataChanges
    \/ WindowPasses
    \/ Loop

-----------------------------------------------------------------------------
(* The runner with every sequence of signals an ingest runner may give it. *)
(* That runner makes one call at a time.                                   *)

AnySignal ==
    \/ SendRefresh("ingest")
    \/ /\ "ingest" \notin sending
       /\ \/ NotifyIngestConnected
          \/ MarkRefreshSupported
          \/ MarkRefreshPollingRequired
          \/ RequestMetadataRefresh

SyncNext == Beside \/ AnySignal
SyncSpec == SyncInit /\ [][SyncNext]_syncVars

\* A select takes each ready branch at random, so none that is ready again
\* and again is passed over for ever; callers finish their send; a sync
\* ends.  Requests do not come less than a debounce window apart for ever,
\* and not every sync fails or is overtaken by another change.
SyncFairness ==
    /\ SF_syncVars(TakeConnected) /\ SF_syncVars(Tick)
    /\ SF_syncVars(TakeRefresh) /\ SF_syncVars(~recent /\ DebounceFires)
    /\ SF_syncVars(SyncAfterDebounce)
    /\ WF_syncVars(WaitLonger \/ SyncAfterDebounce)
    /\ WF_syncVars(\E ok \in BOOLEAN : SyncEnds(ok))
    /\ SF_syncVars(current /\ SyncEnds(TRUE))
    /\ WF_syncVars(WindowPasses)
    /\ \A who \in Callers : WF_syncVars(SendRefresh(who))

FairSyncSpec == SyncSpec /\ SyncFairness

-----------------------------------------------------------------------------
(* Properties.                                                             *)

\* The types, and that the refresh machinery is untouched before the first
\* connection event is taken (recordRefreshRequest and Run).
SyncTypeOK ==
    /\ ready \in BOOLEAN /\ notificationMode \in BOOLEAN
    /\ activated \in BOOLEAN /\ connectedRequests \in BOOLEAN
    /\ refreshRequests \in BOOLEAN /\ debounce \in BOOLEAN
    /\ recent \in BOOLEAN /\ owed \in BOOLEAN
    /\ stale \in BOOLEAN /\ current \in BOOLEAN
    /\ sending \in SUBSET Callers
    /\ loop \in Points
    /\ activated \/ ~(refreshRequests \/ debounce \/ recent)

\* A request that no sync has followed yet is never forgotten, whatever is
\* merged, drained or debounced meanwhile: something that leads to a sync is
\* still there (recordRefreshRequest, drainRefreshRequests and Run).
RequestsKept ==
    owed => connectedRequests \/ refreshRequests \/ debounce \/ sending # {}

\* Every request is followed by a sync that begins after it, with merged
\* requests, a debounce restarted by newer ones and failing syncs (the
\* comments of Run: each event triggers a sync).
RequestsServed == []<>~owed

\* Outside notification mode the periodic tick brings the tables up to date
\* even when syncs fail and CPA announces nothing (Run's periodic branch
\* and runSync's "the next connection, tick or refresh tries again").
PollingCatchesUp == []<>(~ready \/ notificationMode \/ ~stale)

=============================================================================
