-------------------------- MODULE UsageEventProofs --------------------------
(***************************************************************************)
(* What is proved of the way usage events come in, and of the log they are *)
(* read from.                                                              *)
(*                                                                         *)
(* Coming in: what the metadata runner promises under every sequence of    *)
(* signals, that the ingest runner gives it no other, and what that runner *)
(* keeps whichever mode it is in.                                          *)
(*                                                                         *)
(* Reading: a walk through the request list, whatever is stored and        *)
(* archived meanwhile; the shared fetch of a request log; the tokens of    *)
(* its download; for any number of rows, clients and tokens.  The overview *)
(* of a range, whatever is stored, cached and rolled up meanwhile.         *)
(***************************************************************************)
EXTENDS IngestModes, UsageEventLog, UsageOverviewReads, FiniteSetTheorems,
        SequenceTheorems, WellFoundedInduction, TLAPS

-----------------------------------------------------------------------------
(* The metadata runner.                                                    *)

\* What leads to a sync when a request came: before the first connection the
\* announcement of that connection, afterwards a send under way or a slot.  A
\* debounce timer is there until its sync ends, but a request that came while
\* that sync ran does not rest on it.
Kept ==
    /\ SyncTypeOK
    /\ RequestsKept
    /\ ready /\ ~activated => connectedRequests
    /\ sending # {} => activated
    /\ loop \in {"drained", "refresh"} => debounce
    /\ loop = "refresh" /\ owed => connectedRequests \/ refreshRequests \/ sending # {}

LEMMA KeptInit == SyncInit => Kept
<1> SUFFICES ASSUME SyncInit PROVE Kept
  OBVIOUS
<1> USE DEF SyncInit
<1>1. loop \in Points /\ sending \in SUBSET Callers
  BY DEF Points
<1>2. SyncTypeOK
  BY <1>1 DEF SyncTypeOK
<1>3. loop \notin {"drained", "refresh"}
  OBVIOUS
<1> QED
  BY <1>2, <1>3 DEF Kept, RequestsKept

\* Signals from either caller add to what leads to a sync.
LEMMA SignalsKeep ==
    ASSUME Kept,
           \/ ActivateNormalWriter \/ NotifyIngestConnected \/ MarkRefreshSupported
           \/ MarkRefreshPollingRequired \/ RequestMetadataRefresh
           \/ RequestLocalMetadataRefresh \/ MetadataChanges
           \/ SendRefresh("ingest") \/ SendRefresh("local")
    PROVE  Kept'
<1> USE DEF Kept, SyncTypeOK, RequestsKept
<1>1. CASE ActivateNormalWriter
  BY <1>1 DEF ActivateNormalWriter
<1>2. CASE NotifyIngestConnected
  BY <1>2 DEF NotifyIngestConnected
<1>3. CASE MarkRefreshSupported \/ MarkRefreshPollingRequired
  <2>1. /\ notificationMode' \in {TRUE, FALSE, notificationMode}
        /\ UNCHANGED <<ready, activated, connectedRequests, refreshRequests,
                       debounce, recent, sending, loop, owed, stale, current>>
    BY <1>3 DEF MarkRefreshSupported, MarkRefreshPollingRequired, SetNotificationMode
  <2>2. notificationMode' \in BOOLEAN
    BY <2>1
  <2> QED
    BY <2>1, <2>2
<1>4. ASSUME NEW who \in Callers, NEW upstream \in BOOLEAN, ready,
             recordRefreshRequest(who, upstream)
      PROVE  Kept'
  BY <1>4 DEF recordRefreshRequest
<1>5. CASE RequestMetadataRefresh
  <2>1. "ingest" \in Callers /\ TRUE \in BOOLEAN
    BY DEF Callers
  <2>2. CASE UNCHANGED syncVars
    BY <2>2 DEF syncVars
  <2> QED
    BY <1>4, <1>5, <2>1, <2>2 DEF RequestMetadataRefresh
<1>6. CASE RequestLocalMetadataRefresh
  <2>1. "local" \in Callers /\ FALSE \in BOOLEAN
    BY DEF Callers
  <2> QED
    BY <1>4, <1>6, <2>1 DEF RequestLocalMetadataRefresh
<1>7. CASE MetadataChanges
  BY <1>7 DEF MetadataChanges
<1>8. CASE SendRefresh("ingest") \/ SendRefresh("local")
  BY <1>8 DEF SendRefresh
<1> QED
  BY <1>1, <1>2, <1>3, <1>5, <1>6, <1>7, <1>8

\* The runner's own steps.  A sync answers every request made before it
\* began, so only later ones are owed when it ends.
LEMMA LoopKeeps ==
    ASSUME Kept, Loop \/ WindowPasses
    PROVE  Kept'
<1> USE DEF Kept, SyncTypeOK, RequestsKept, Points, Syncs
<1>1. CASE TakeConnected
  BY <1>1 DEF TakeConnected, BeginSync
<1>2. CASE Tick
  BY <1>2 DEF Tick, BeginSync
<1>3. CASE TakeRefresh
  BY <1>3 DEF TakeRefresh
<1>4. CASE DebounceFires
  BY <1>4 DEF DebounceFires
<1>5. CASE WaitLonger
  BY <1>5 DEF WaitLonger
<1>6. CASE SyncAfterDebounce
  BY <1>6 DEF SyncAfterDebounce, BeginSync
<1>7. CASE WindowPasses
  BY <1>7 DEF WindowPasses
<1>8. CASE \E ok \in BOOLEAN : SyncEnds(ok)
  <2>1. PICK ok \in BOOLEAN : SyncEnds(ok)
    BY <1>8
  <2>2. /\ loop \in Syncs /\ loop' = "select"
        /\ debounce' = (debounce /\ loop # "refresh")
        /\ UNCHANGED <<ready, notificationMode, activated, connectedRequests,
                       refreshRequests, recent, sending, owed, current>>
    BY <2>1 DEF SyncEnds
  <2>3. stale' \in BOOLEAN
    BY <2>1 DEF SyncEnds
  <2>4. debounce' \in BOOLEAN /\ (debounce' => debounce) /\ (loop # "refresh" /\ debounce => debounce')
    BY <2>2
  <2>5. SyncTypeOK'
    BY <2>2, <2>3, <2>4
  <2>6. RequestsKept'
    BY <2>2, <2>4
  <2> QED
    BY <2>2, <2>4, <2>5, <2>6
<1> QED
  BY <1>1, <1>2, <1>3, <1>4, <1>5, <1>6, <1>7, <1>8 DEF Loop

LEMMA KeptStep == Kept /\ [SyncNext]_syncVars => Kept'
<1> SUFFICES ASSUME Kept, [SyncNext]_syncVars PROVE Kept'
  OBVIOUS
<1>1. CASE UNCHANGED syncVars
  BY <1>1 DEF syncVars, Kept, SyncTypeOK, RequestsKept
<1>2. CASE SyncNext
  BY <1>2, SignalsKeep, LoopKeeps DEF SyncNext, Beside, AnySignal
<1> QED
  BY <1>1, <1>2

\* The types, and that the refresh machinery is untouched before the first
\* connection event is taken.
THEOREM SyncTypeCorrect == SyncSpec => []SyncTypeOK
<1>1. Kept => SyncTypeOK
  BY DEF Kept
<1> QED
  BY <1>1, KeptInit, KeptStep, PTL DEF SyncSpec

\* However requests are merged, drained, debounced and sent in two steps, one
\* that no sync has followed yet still has something that leads to a sync.
THEOREM RequestsAreKept == SyncSpec => []RequestsKept
<1>1. Kept => RequestsKept
  BY DEF Kept
<1> QED
  BY <1>1, KeptInit, KeptStep, PTL DEF SyncSpec

-----------------------------------------------------------------------------
(* The ingest runner.  A call of serialPullAndWrite goes through Writing;  *)
(* the tables say which state each point is reached in.                    *)

Writing == {"signal", "send", "store"}
InCall == Writing \cup {"pull", "done"}
FillSites == {"fillRedis", "fillHTTP"}

NoFailure == ~lastError /\ ~lastWarning
InState(m, sub) == mode = m /\ subState = sub
Filling == InState("subscribe", "backfill")
Receiving == InState("subscribe", "receiving") /\ NoFailure

\* The types of the runner's own variables.
RunnerTypeOK ==
    /\ mode \in Modes /\ subState \in SubStates
    /\ lastError \in BOOLEAN /\ lastWarning \in BOOLEAN
    /\ pc \in Steps /\ site \in Sites
    /\ call \in Calls
    /\ result \in {"ok", "full", "pullErr", "inboxErr"}
    /\ source \in {"none", "redis", "http"}
    /\ degraded \in BOOLEAN /\ due \in BOOLEAN

\* A refresh request of this runner is sent before its next step, and
\* nothing is forwarded before the services are ready.
OneSignal ==
    /\ "ingest" \in sending => pc = "send"
    /\ notificationMode => ready

\* A batch waits only inside a write, or after one that failed.
HeldWhere ==
    /\ held = <<>> \/ \E b \in Batches : held = <<b>>
    /\ pc \in Writing => held # <<>>
    /\ pc \in {"listen", "receive"} => held = <<>>
    /\ pc = "done" /\ result # "inboxErr" => held = <<>>

\* Which state the snapshot shows where.  While a subscription's backfill or
\* the retry of Redis runs the snapshot still shows the state they began in,
\* so that leaving that state ends the failures it complained of.
StatusWhere ==
    /\ pc \in {"listen", "receive"} => site \in FillSites
    /\ pc = "listen" => Filling \/ Receiving
    /\ pc = "receive" => Receiving
    /\ pc = "pull" => call # "received"
    /\ pc = "done" /\ call = "received" => result = "inboxErr"
    /\ pc \in InCall /\ call = "received" => Receiving /\ site \in FillSites
    /\ pc \in InCall /\ call # "received" /\ site \in FillSites => Filling
    /\ pc \in InCall /\ site = "recoverRedis" => subState = "degradedHTTP"
    /\ pc = "idle" => NoFailure
    /\ pc = "backoff" => lastError /\ ~notificationMode

RunnerInv == RunnerTypeOK /\ OneSignal /\ HeldWhere /\ StatusWhere

LEMMA RunnerInit == Init => RunnerInv
<1> SUFFICES ASSUME Init PROVE RunnerInv
  OBVIOUS
<1> USE DEF Init
<1>1. RunnerTypeOK
  BY DEF RunnerTypeOK, Modes, SubStates, Steps, Sites, RedisSites, Fallback, Calls
<1>2. OneSignal
  BY DEF OneSignal, SyncInit
<1>3. HeldWhere
  BY DEF HeldWhere, Writing
<1>4. StatusWhere
  BY DEF StatusWhere, InCall, Writing
<1> QED
  BY <1>1, <1>2, <1>3, <1>4 DEF RunnerInv

\* The call sites in full.
LEMMA SitesAre ==
    /\ RedisSites = {"startRedis", "fillRedis", "pollRedis", "redis", "recoverRedis"}
    /\ HTTPSites = {"startHTTP", "fillHTTP", "pollHTTP", "redisHTTP", "stayHTTP", "http"}
    /\ Sites = RedisSites \cup HTTPSites
    /\ \A s \in RedisSites : Fallback[s] \in HTTPSites
    /\ \A s \in RedisSites : Fallback[s] \in FillSites <=> s = "fillRedis"
    /\ \A s \in Sites : Top(s) \in {"start", "poll", "httpTop", "redisTop"}
<1>1. RedisSites = {"startRedis", "fillRedis", "pollRedis", "redis", "recoverRedis"}
  BY DEF RedisSites, Fallback
<1>2. /\ Fallback["startRedis"] = "startHTTP" /\ Fallback["fillRedis"] = "fillHTTP"
      /\ Fallback["pollRedis"] = "pollHTTP" /\ Fallback["redis"] = "redisHTTP"
      /\ Fallback["recoverRedis"] = "stayHTTP"
  BY DEF Fallback
<1> HIDE DEF Fallback
<1>3. HTTPSites = {"startHTTP", "fillHTTP", "pollHTTP", "redisHTTP", "stayHTTP", "http"}
  BY <1>1, <1>2 DEF HTTPSites
<1>4. \A s \in RedisSites : Fallback[s] \in HTTPSites
  BY <1>1, <1>2, <1>3
<1>5. \A s \in RedisSites : Fallback[s] \in FillSites <=> s = "fillRedis"
  BY <1>1, <1>2 DEF FillSites
<1>6. \A s \in Sites : Top(s) \in {"start", "poll", "httpTop", "redisTop"}
  BY DEF Top
<1> QED
  BY <1>1, <1>3, <1>4, <1>5, <1>6 DEF Sites

\* What recordState leaves.
LEMMA Recorded ==
    ASSUME NEW m \in Modes, NEW sub \in SubStates, RunnerTypeOK, recordState(m, sub)
    PROVE  /\ mode' = m /\ subState' = sub
           /\ lastError' \in BOOLEAN /\ lastWarning' \in BOOLEAN
           /\ NoFailure => NoFailure'
           /\ (subState # sub \/ mode # m) /\ sub \in redisIngestHealthyState => NoFailure'
BY DEF recordState, NoFailure, RunnerTypeOK

\* Run, the tops of the loops, and time: no batch is held in a call there.
LEMMA TopsKeep ==
    ASSUME RunnerInv,
           \/ Starting \/ Subscribed \/ NotSubscribed
           \/ runSubscribeDegradedPolling \/ runRedisPullMode \/ runHTTPPullMode
           \/ Wake \/ RecoveryDue
    PROVE  RunnerTypeOK' /\ HeldWhere' /\ StatusWhere'
<1> USE DEF RunnerInv, CallAt, GoTo
<1>1. CASE Starting
  <2>1. lastError' \in BOOLEAN /\ lastWarning' \in BOOLEAN
    BY <1>1, Recorded DEF Starting, Modes, SubStates
  <2>2. /\ pc' = "dial" /\ mode' = "unknown" /\ subState' = "starting"
        /\ UNCHANGED <<site, call, result, source, degraded, due, held>>
    BY <1>1 DEF Starting, recordState, linkVars
  <2>3. RunnerTypeOK'
    BY <2>1, <2>2 DEF RunnerTypeOK, Modes, SubStates, Steps
  <2> QED
    BY <2>2, <2>3 DEF HeldWhere, StatusWhere, InCall, Writing
<1>2. CASE Subscribed
  <2>1. lastError' \in BOOLEAN /\ lastWarning' \in BOOLEAN
    BY <1>2, Recorded DEF Subscribed, Modes, SubStates
  <2>2. /\ pc' = "pull" /\ site' = "fillRedis" /\ call' = "pulled" /\ result' = "ok"
        /\ mode' = "subscribe" /\ subState' = "backfill"
        /\ UNCHANGED <<source, degraded, due, held>>
    BY <1>2 DEF Subscribed, recordState, linkVars
  <2>3. RunnerTypeOK'
    BY <2>1, <2>2, SitesAre DEF RunnerTypeOK, Modes, SubStates, Steps, Calls
  <2> QED
    BY <2>2, <2>3 DEF HeldWhere, StatusWhere, InCall, Writing, Filling, InState
<1>3. CASE NotSubscribed
  <2>1. /\ lastError' = lastError /\ lastWarning' = TRUE
        /\ pc' = "pull" /\ site' \in {"startRedis", "pollRedis"}
        /\ call' = "pulled" /\ result' = "ok"
        /\ UNCHANGED <<mode, subState, source, degraded, held>>
    BY <1>3 DEF NotSubscribed, recordWarning, recordFailure, RunnerTypeOK
  <2>2. due' \in BOOLEAN
    BY <1>3 DEF NotSubscribed
  <2>3. RunnerTypeOK'
    BY <2>1, <2>2, SitesAre DEF RunnerTypeOK, Steps, Calls
  <2> QED
    BY <2>1, <2>3 DEF HeldWhere, StatusWhere, InCall, Writing, FillSites
<1>4. CASE runSubscribeDegradedPolling
  <2>1. lastError' \in BOOLEAN /\ lastWarning' \in BOOLEAN
    BY <1>4, Recorded DEF runSubscribeDegradedPolling, Modes, SubStates
  <2>2. /\ mode' = "subscribe" /\ subState' = "degradedPolling"
        /\ UNCHANGED <<source, degraded, due, held>>
    BY <1>4 DEF runSubscribeDegradedPolling, recordState, linkVars
  <2>3. \/ pc' = "redial" /\ UNCHANGED <<site, call, result>>
        \/ pc' = "pull" /\ site' = "pollRedis" /\ call' = "pulled" /\ result' = "ok"
    BY <1>4 DEF runSubscribeDegradedPolling
  <2>4. RunnerTypeOK'
    BY <2>1, <2>2, <2>3, SitesAre DEF RunnerTypeOK, Modes, SubStates, Steps, Calls
  <2> QED
    BY <2>2, <2>3, <2>4 DEF HeldWhere, StatusWhere, InCall, Writing, FillSites
<1>5. CASE runRedisPullMode
  <2>1. lastError' \in BOOLEAN /\ lastWarning' \in BOOLEAN
    BY <1>5, Recorded DEF runRedisPullMode, Modes, SubStates
  <2>2. /\ mode' = "redis_pull" /\ subState' \in {"degradedHTTP", "redisActive"}
        /\ pc' = "pull" /\ call' = "pulled" /\ result' = "ok"
        /\ UNCHANGED <<source, degraded, due, held>>
    BY <1>5 DEF runRedisPullMode, recordState, linkVars
  <2>3. /\ site' \in {"recoverRedis", "stayHTTP", "redis"}
        /\ site' = "recoverRedis" => subState' = "degradedHTTP"
    BY <1>5 DEF runRedisPullMode, recordState
  <2>4. RunnerTypeOK'
    BY <2>1, <2>2, <2>3, SitesAre DEF RunnerTypeOK, Modes, SubStates, Steps, Calls
  <2> QED
    BY <2>2, <2>3, <2>4 DEF HeldWhere, StatusWhere, InCall, Writing, FillSites
<1>6. CASE runHTTPPullMode
  <2>1. lastError' \in BOOLEAN /\ lastWarning' \in BOOLEAN
    BY <1>6, Recorded DEF runHTTPPullMode, Modes, SubStates
  <2>2. /\ mode' = "http_pull" /\ subState' = "httpActive"
        /\ pc' = "pull" /\ site' = "http" /\ call' = "pulled" /\ result' = "ok"
        /\ UNCHANGED <<source, degraded, due, held>>
    BY <1>6 DEF runHTTPPullMode, recordState, linkVars
  <2>3. RunnerTypeOK'
    BY <2>1, <2>2, SitesAre DEF RunnerTypeOK, Modes, SubStates, Steps, Calls
  <2> QED
    BY <2>2, <2>3 DEF HeldWhere, StatusWhere, InCall, Writing, FillSites
<1>7. CASE Wake
  <2>1. pc' \in {"start", "poll", "httpTop", "redisTop"}
    BY <1>7, SitesAre DEF Wake, RunnerTypeOK
  <2>2. UNCHANGED <<statusVars, linkVars, site, call, result, held>>
    BY <1>7 DEF Wake
  <2> QED
    BY <2>1, <2>2 DEF statusVars, linkVars, RunnerTypeOK, Steps, HeldWhere, StatusWhere,
                      InCall, Writing
<1>8. CASE RecoveryDue
  BY <1>8 DEF RecoveryDue, syncVars, statusVars, controlVars, RunnerTypeOK, HeldWhere,
              StatusWhere, Filling, Receiving, InState, NoFailure
<1> QED
  BY <1>1, <1>2, <1>3, <1>4, <1>5, <1>6, <1>7, <1>8

\* A batch that is taken is the only one, and it is stored or kept.
LEMMA WritesKeep ==
    ASSUME RunnerInv,
           \/ WriteHeldFirst \/ PullEmpty \/ PullError
           \/ \E b \in Batches, full \in BOOLEAN : PullBatch(b, full)
           \/ \E b \in Batches : ReceiveBatch(b)
           \/ Signal \/ Send \/ Stored \/ NotStored
    PROVE  RunnerTypeOK' /\ HeldWhere' /\ StatusWhere'
<1> USE DEF RunnerInv, GoTo
<1>a. UNCHANGED <<statusVars, linkVars, site>>
  BY DEF WriteHeldFirst, PullEmpty, PullError, Returned, PullBatch, ReceiveBatch, Taken,
         Signal, Send, Stored, NotStored
<1>b. /\ Filling' = Filling /\ (subState = "degradedHTTP")' = (subState = "degradedHTTP")
      /\ Receiving' = Receiving
  BY <1>a DEF Filling, Receiving, InState, NoFailure, statusVars
<1>1. CASE WriteHeldFirst
  <2>1. /\ pc = "pull" /\ held # <<>> /\ pc' = "signal" /\ call' = "flush"
        /\ UNCHANGED <<result, held>>
    BY <1>1 DEF WriteHeldFirst
  <2>2. RunnerTypeOK' /\ HeldWhere'
    BY <1>a, <2>1 DEF statusVars, linkVars, RunnerTypeOK, Steps, Calls, HeldWhere, Writing
  <2> QED
    BY <1>a, <1>b, <2>1, <2>2 DEF StatusWhere, InCall, Writing
<1>2. CASE PullEmpty \/ PullError
  <2>1. /\ pc = "pull" /\ held = <<>> /\ pc' = "done" /\ result' \in {"ok", "pullErr"}
        /\ UNCHANGED <<call, held>>
    BY <1>2 DEF PullEmpty, PullError, Returned
  <2>2. RunnerTypeOK' /\ HeldWhere'
    BY <1>a, <2>1 DEF statusVars, linkVars, RunnerTypeOK, Steps, HeldWhere, Writing
  <2> QED
    BY <1>a, <1>b, <2>1, <2>2 DEF StatusWhere, InCall, Writing
<1>3. ASSUME NEW b \in Batches, held = <<>>, Taken(b)
      PROVE  pc' = "signal" /\ HeldWhere'
  <2>1. held' = <<b>> /\ pc' = "signal"
    BY <1>3 DEF Taken
  <2> QED
    BY <2>1 DEF HeldWhere
<1>4. CASE \E b \in Batches, full \in BOOLEAN : PullBatch(b, full)
  <2>1. PICK b \in Batches, full \in BOOLEAN : PullBatch(b, full)
    BY <1>4
  <2>2. /\ pc = "pull" /\ pc' = "signal" /\ HeldWhere'
        /\ call' = "pulled" /\ result' \in {"ok", "full"}
    BY <1>3, <2>1 DEF PullBatch
  <2>3. RunnerTypeOK'
    BY <1>a, <2>2 DEF statusVars, linkVars, RunnerTypeOK, Steps, Calls
  <2> QED
    BY <1>a, <1>b, <2>2, <2>3 DEF StatusWhere, InCall, Writing
<1>5. CASE \E b \in Batches : ReceiveBatch(b)
  <2>1. PICK b \in Batches : ReceiveBatch(b)
    BY <1>5
  <2>2. pc = "receive" /\ call' = "received" /\ result' = result
    BY <2>1 DEF ReceiveBatch
  <2>3. pc' = "signal" /\ HeldWhere'
    BY <1>3, <2>1, <2>2 DEF ReceiveBatch, HeldWhere
  <2>4. RunnerTypeOK'
    BY <1>a, <2>2, <2>3 DEF statusVars, linkVars, RunnerTypeOK, Steps, Calls
  <2>5. Receiving' /\ site' \in FillSites
    BY <1>a, <1>b, <2>2 DEF StatusWhere
  <2>6. site' # "recoverRedis"
    BY <2>5 DEF FillSites
  <2> QED
    BY <2>2, <2>3, <2>4, <2>5, <2>6 DEF StatusWhere
<1>6. CASE Signal \/ Send
  <2>1. /\ pc \in {"signal", "send"} /\ pc' \in {"send", "store"}
        /\ UNCHANGED <<call, result, held>>
    BY <1>6 DEF Signal, Send
  <2>2. RunnerTypeOK' /\ HeldWhere'
    BY <1>a, <2>1 DEF statusVars, linkVars, RunnerTypeOK, Steps, HeldWhere, Writing
  <2> QED
    BY <1>a, <1>b, <2>1, <2>2 DEF StatusWhere, InCall, Writing
<1>7. CASE Stored
  <2>1. pc = "store" /\ held' = Tail(held) /\ UNCHANGED <<call, result>>
    BY <1>7 DEF Stored
  <2>2. PICK b \in Batches : held = <<b>>
    BY <2>1 DEF HeldWhere, Writing
  <2>3. Tail(held) = <<>>
    BY <2>2
  <2>4. \/ pc' = "pull" /\ call = "flush"
        \/ pc' = "done" /\ call = "pulled"
        \/ pc' = "listen" /\ call = "received"
    BY <1>7, <2>3 DEF Stored, RunnerTypeOK, Calls
  <2>5. RunnerTypeOK' /\ HeldWhere'
    BY <1>a, <2>1, <2>3, <2>4 DEF statusVars, linkVars, RunnerTypeOK, Steps, HeldWhere, Writing
  <2> QED
    BY <1>a, <1>b, <2>1, <2>4, <2>5 DEF StatusWhere, InCall, Writing
<1>8. CASE NotStored
  <2>1. /\ pc = "store" /\ pc' = "done" /\ result' = "inboxErr"
        /\ UNCHANGED <<call, held>>
    BY <1>8 DEF NotStored
  <2>2. RunnerTypeOK' /\ HeldWhere'
    BY <1>a, <2>1 DEF statusVars, linkVars, RunnerTypeOK, Steps, HeldWhere, Writing
  <2> QED
    BY <1>a, <1>b, <2>1, <2>2 DEF StatusWhere, InCall, Writing
<1> QED
  BY <1>1, <1>2, <1>4, <1>5, <1>6, <1>7, <1>8

\* What becomes of a call's result.  A failure that is final is shown and
\* ends notification mode, which was off before the services were ready.
LEMMA FailuresKeep ==
    ASSUME RunnerInv, InboxFailed \/ FallBack \/ NoneLeft \/ Disconnected
    PROVE  RunnerTypeOK' /\ HeldWhere' /\ StatusWhere'
<1> USE DEF RunnerInv, CallAt, GoTo
<1>1. ASSUME NEW final \in BOOLEAN, recordFailure(final)
      PROVE  /\ UNCHANGED <<mode, subState>>
             /\ lastError' \in BOOLEAN /\ lastWarning' \in BOOLEAN
             /\ final => lastError' /\ ~notificationMode'
  <2>1. notificationMode' = FALSE \/ (~ready /\ notificationMode' = notificationMode)
    BY <1>1 DEF recordFailure, MarkRefreshPollingRequired, SetNotificationMode
  <2>2. ~notificationMode'
    BY <2>1 DEF OneSignal
  <2>3. UNCHANGED <<mode, subState>> /\ lastError' = (lastError \/ final) /\ lastWarning' = ~final
    BY <1>1 DEF recordFailure
  <2> QED
    BY <2>2, <2>3 DEF RunnerTypeOK
<1>2. CASE InboxFailed
  <2>1. /\ UNCHANGED <<mode, subState>>
        /\ lastError' \in BOOLEAN /\ lastWarning' \in BOOLEAN
        /\ lastError' /\ ~notificationMode'
    BY <1>1, <1>2 DEF InboxFailed, recordError
  <2>2. pc' = "backoff" /\ UNCHANGED <<site, call, result, source, degraded, due, held>>
    BY <1>2 DEF InboxFailed, linkVars
  <2>3. RunnerTypeOK'
    BY <2>1, <2>2 DEF RunnerTypeOK, Steps
  <2> QED
    BY <2>1, <2>2, <2>3 DEF HeldWhere, StatusWhere, InCall, Writing
<1>3. CASE FallBack
  <2>1. /\ UNCHANGED <<mode, subState>>
        /\ lastError' \in BOOLEAN /\ lastWarning' \in BOOLEAN
    BY <1>1, <1>3 DEF FallBack, recordWarning
  <2>2. /\ pc = "done" /\ result = "pullErr" /\ site \in RedisSites
        /\ pc' = "pull" /\ site' = Fallback[site] /\ call' = "pulled" /\ result' = "ok"
        /\ UNCHANGED <<degraded, held>>
        /\ due' \in BOOLEAN
    BY <1>3 DEF FallBack
  <2>3. source' \in {"none", source}
    BY <1>3 DEF FallBack, markConnectionUnavailable
  <2>4. site' \in HTTPSites /\ (site' \in FillSites => site = "fillRedis")
    BY <2>2, SitesAre
  <2>5. site' # "recoverRedis"
    BY <2>4, SitesAre
  <2>6. RunnerTypeOK'
    BY <2>1, <2>2, <2>3, <2>4, SitesAre DEF RunnerTypeOK, Steps, Calls
  <2>7. HeldWhere'
    BY <2>2 DEF HeldWhere, Writing
  <2>8. Filling' = Filling
    BY <2>1 DEF Filling, InState
  <2>9. site = "fillRedis" => Filling
    BY <2>2 DEF StatusWhere, InCall, FillSites
  <2> QED
    BY <2>2, <2>4, <2>5, <2>6, <2>7, <2>8, <2>9 DEF StatusWhere
<1>4. CASE NoneLeft
  <2>1. /\ pc = "done" /\ result = "pullErr"
        /\ UNCHANGED <<site, call, result, degraded, due, held>>
    BY <1>4 DEF NoneLeft
  <2>2. \/ pc' = "listen" /\ site = "fillHTTP" /\ recordWarning
        \/ pc' = "backoff" /\ recordError
    BY <1>4 DEF NoneLeft
  <2>3. /\ UNCHANGED <<mode, subState>>
        /\ lastError' \in BOOLEAN /\ lastWarning' \in BOOLEAN
        /\ pc' = "backoff" => lastError' /\ ~notificationMode'
    BY <1>1, <2>2 DEF recordWarning, recordError
  <2>4. source' \in {"none", source}
    BY <1>4 DEF NoneLeft, markConnectionUnavailable
  <2>5. RunnerTypeOK'
    BY <2>1, <2>2, <2>3, <2>4 DEF RunnerTypeOK, Steps
  <2>6. HeldWhere'
    BY <2>1, <2>2 DEF HeldWhere, Writing
  <2>7. pc' = "listen" => Filling' /\ site' \in FillSites
    BY <2>1, <2>2, <2>3 DEF StatusWhere, InCall, FillSites, Filling, InState
  <2> QED
    BY <2>2, <2>3, <2>5, <2>6, <2>7 DEF StatusWhere, InCall, Writing
<1>5. CASE Disconnected
  <2>1. /\ UNCHANGED <<mode, subState>>
        /\ lastError' \in BOOLEAN /\ lastWarning' \in BOOLEAN
    BY <1>1, <1>5 DEF Disconnected, recordError
  <2>2. /\ pc = "receive" /\ pc' = "poll" /\ due' = FALSE /\ source' = "none"
        /\ UNCHANGED <<site, call, result, degraded, held>>
    BY <1>5 DEF Disconnected
  <2>3. RunnerTypeOK'
    BY <2>1, <2>2 DEF RunnerTypeOK, Steps
  <2> QED
    BY <2>2, <2>3 DEF HeldWhere, StatusWhere, InCall, Writing
<1> QED
  BY <1>2, <1>3, <1>4, <1>5

\* A call that succeeded has stored everything; where it goes on resting or
\* listening, the failures it overcame are forgotten.
LEMMA SuccessesKeep ==
    ASSUME RunnerInv,
           \/ ChooseRedisPull \/ ChooseHTTPPull \/ Backfilled
           \/ GoOn \/ Degrade \/ Recover \/ Listen
    PROVE  RunnerTypeOK' /\ HeldWhere' /\ StatusWhere'
<1> USE DEF RunnerInv, GoTo
<1>a. ASSUME Rest
      PROVE  /\ pc' \in {"start", "poll", "httpTop", "redisTop", "idle"}
             /\ UNCHANGED <<site, call, result>>
  BY <1>a, SitesAre DEF Rest, RunnerTypeOK
<1>b. ASSUME NEW s, Succeeded(s)
      PROVE  pc = "done" /\ site = s /\ held = <<>> /\ call # "received"
  BY <1>b DEF Succeeded, HeldWhere, StatusWhere
<1>1. CASE ChooseRedisPull
  <2>1. lastError' \in BOOLEAN /\ lastWarning' \in BOOLEAN
    BY <1>1, Recorded DEF ChooseRedisPull, Modes, SubStates
  <2>2. /\ pc' = "redisTop" /\ mode' = "redis_pull" /\ subState' = "redisActive"
        /\ source' = "redis" /\ degraded' = FALSE
        /\ UNCHANGED <<site, call, result, due, held>>
    BY <1>1 DEF ChooseRedisPull, recordState
  <2>3. RunnerTypeOK'
    BY <2>1, <2>2 DEF RunnerTypeOK, Modes, SubStates, Steps
  <2> QED
    BY <2>2, <2>3 DEF HeldWhere, StatusWhere, InCall, Writing
<1>2. CASE ChooseHTTPPull
  <2>1. lastError' \in BOOLEAN /\ lastWarning' \in BOOLEAN
    BY <1>2, Recorded DEF ChooseHTTPPull, Modes, SubStates
  <2>2. /\ pc' = "httpTop" /\ mode' = "http_pull" /\ subState' = "httpActive"
        /\ source' = "http"
        /\ UNCHANGED <<site, call, result, degraded, due, held>>
    BY <1>2 DEF ChooseHTTPPull, recordState
  <2>3. RunnerTypeOK'
    BY <2>1, <2>2 DEF RunnerTypeOK, Modes, SubStates, Steps
  <2> QED
    BY <2>2, <2>3 DEF HeldWhere, StatusWhere, InCall, Writing
<1>3. CASE Backfilled
  <2>1. /\ pc = "done" /\ site \in FillSites /\ held = <<>> /\ call # "received"
        /\ UNCHANGED <<statusVars, linkVars, held>>
    BY <1>3, <1>b DEF Backfilled, FillSites
  <2>2. \/ pc' = "pull" /\ site' = site /\ call' = "pulled" /\ result' = "ok"
        \/ pc' = "listen" /\ UNCHANGED <<site, call, result>>
    BY <1>3 DEF Backfilled, CallAt
  <2>3. Filling'
    BY <2>1 DEF StatusWhere, InCall, Filling, InState, statusVars
  <2>4. RunnerTypeOK'
    BY <2>1, <2>2 DEF statusVars, linkVars, RunnerTypeOK, Steps, Calls
  <2>5. site' # "recoverRedis"
    BY <2>1, <2>2 DEF FillSites
  <2> QED
    BY <2>1, <2>2, <2>3, <2>4, <2>5 DEF HeldWhere, StatusWhere, InCall, Writing
<1>5. CASE GoOn
  <2>1. /\ pc = "done" /\ held = <<>>
        /\ UNCHANGED <<mode, subState, degraded, due, held>>
        /\ lastError' = FALSE /\ lastWarning' = FALSE
    BY <1>5, <1>b DEF GoOn, recordAvailable
  <2>2. source' \in {"redis", "http"}
    BY <1>5 DEF GoOn, markConnectionEstablished, SourceOf
  <2>3. /\ pc' \in {"start", "poll", "httpTop", "redisTop", "idle"}
        /\ UNCHANGED <<site, call, result>>
    BY <1>5, <1>a DEF GoOn
  <2>4. RunnerTypeOK'
    BY <2>1, <2>2, <2>3 DEF RunnerTypeOK, Steps
  <2>5. NoFailure'
    BY <2>1 DEF NoFailure
  <2> QED
    BY <2>1, <2>3, <2>4, <2>5 DEF HeldWhere, StatusWhere, InCall, Writing
<1>6. CASE Degrade
  <2>1. /\ pc = "done" /\ held = <<>>
        /\ UNCHANGED <<mode, held>>
        /\ subState' = "degradedHTTP" /\ degraded' = TRUE /\ due' = FALSE
        /\ source' = "http"
        /\ lastError' = FALSE /\ lastWarning' = FALSE
    BY <1>6, <1>b DEF Degrade, recordAvailable, markConnectionEstablished
  <2>2. /\ pc' \in {"start", "poll", "httpTop", "redisTop", "idle"}
        /\ UNCHANGED <<site, call, result>>
    BY <1>6, <1>a DEF Degrade
  <2>3. RunnerTypeOK'
    BY <2>1, <2>2 DEF RunnerTypeOK, SubStates, Steps
  <2>4. NoFailure'
    BY <2>1 DEF NoFailure
  <2> QED
    BY <2>1, <2>2, <2>3, <2>4 DEF HeldWhere, StatusWhere, InCall, Writing
<1>7. CASE Recover
  <2>1. /\ pc = "done" /\ site = "recoverRedis" /\ held = <<>>
        /\ UNCHANGED <<due, held>> /\ degraded' = FALSE /\ source' = "redis"
    BY <1>7, <1>b DEF Recover, markConnectionEstablished
  <2>2. subState = "degradedHTTP"
    BY <2>1 DEF StatusWhere, InCall
  <2>3. /\ mode' = "redis_pull" /\ subState' = "redisActive"
        /\ lastError' \in BOOLEAN /\ lastWarning' \in BOOLEAN
        /\ NoFailure'
    BY <1>7, <2>2, Recorded DEF Recover, Modes, SubStates, redisIngestHealthyState
  <2>4. /\ pc' \in {"start", "poll", "httpTop", "redisTop", "idle"}
        /\ UNCHANGED <<site, call, result>>
    BY <1>7, <1>a DEF Recover
  <2>5. RunnerTypeOK'
    BY <2>1, <2>3, <2>4 DEF RunnerTypeOK, Modes, SubStates, Steps
  <2> QED
    BY <2>1, <2>3, <2>4, <2>5 DEF HeldWhere, StatusWhere, InCall, Writing
<1>8. CASE Listen
  <2>1. /\ pc = "listen" /\ pc' = "receive"
        /\ UNCHANGED <<site, call, result, source, degraded, due, held>>
    BY <1>8 DEF Listen, linkVars
  <2>2. Filling \/ Receiving
    BY <2>1 DEF StatusWhere
  <2>3. /\ mode' = "subscribe" /\ subState' = "receiving"
        /\ lastError' \in BOOLEAN /\ lastWarning' \in BOOLEAN
        /\ NoFailure => NoFailure'
        /\ subState # "receiving" => NoFailure'
    BY <1>8, Recorded DEF Listen, Modes, SubStates, redisIngestHealthyState
  <2>4. Receiving'
    BY <2>2, <2>3 DEF Filling, Receiving, InState
  <2>5. RunnerTypeOK'
    BY <2>1, <2>3 DEF RunnerTypeOK, Modes, SubStates, Steps
  <2> QED
    BY <2>1, <2>4, <2>5 DEF HeldWhere, StatusWhere, InCall, Writing
<1> QED
  BY <1>1, <1>2, <1>3, <1>5, <1>6, <1>7, <1>8

-----------------------------------------------------------------------------
(* The signals of the ingest runner.                                       *)

\* Every action but the two that handle control messages says at most that a
\* source is connected or that one failed.
Quiet == UNCHANGED syncVars \/ NotifyIngestConnected \/ MarkRefreshPollingRequired

LEMMA MostAreQuiet ==
    ASSUME Runner \/ Outside, ~Signal, ~Send
    PROVE  Quiet /\ (pc # "send" \/ (pc' = pc /\ UNCHANGED syncVars))
<1> USE DEF Quiet
<1>1. CASE \/ Starting \/ Subscribed \/ NotSubscribed
           \/ runSubscribeDegradedPolling \/ runRedisPullMode \/ runHTTPPullMode
  BY <1>1 DEF Starting, Subscribed, NotSubscribed, runSubscribeDegradedPolling,
              runRedisPullMode, runHTTPPullMode, recordWarning, recordFailure
<1>2. CASE \/ WriteHeldFirst \/ PullEmpty \/ PullError \/ Stored \/ NotStored
  BY <1>2 DEF WriteHeldFirst, PullEmpty, PullError, Returned, Stored, NotStored
<1>3. CASE \E b \in Batches, full \in BOOLEAN : PullBatch(b, full)
  BY <1>3 DEF PullBatch, Taken
<1>4. CASE InboxFailed \/ FallBack \/ NoneLeft
  BY <1>4 DEF InboxFailed, FallBack, NoneLeft, recordWarning, recordError, recordFailure
<1>5. CASE ChooseRedisPull \/ ChooseHTTPPull \/ Backfilled
  BY <1>5 DEF ChooseRedisPull, ChooseHTTPPull, Backfilled, Succeeded
<1>6. CASE GoOn \/ Degrade \/ Recover
  BY <1>6 DEF GoOn, Degrade, Recover, Succeeded, markConnectionEstablished
<1>7. CASE Listen \/ Wake
  BY <1>7 DEF Listen, Wake
<1>8. CASE \E b \in Batches : ReceiveBatch(b)
  BY <1>8 DEF ReceiveBatch, Taken
<1>9. CASE Disconnected
  BY <1>9 DEF Disconnected, recordError, recordFailure
<1>10. CASE RecoveryDue
  BY <1>10 DEF RecoveryDue, controlVars
<1> QED
  BY <1>1, <1>2, <1>3, <1>4, <1>5, <1>6, <1>7, <1>8, <1>9, <1>10 DEF Runner, Outside

\* What the metadata runner meets is one of the steps it is proved to bear,
\* and a request is sent before the next call.
LEMMA RunnerSignals ==
    ASSUME Kept, OneSignal, Runner \/ Outside
    PROVE  [SyncNext]_syncVars /\ OneSignal'
<1> USE DEF OneSignal
<1>1. CASE ~Signal /\ ~Send
  <2>1. /\ Quiet
        /\ pc # "send" \/ (pc' = pc /\ UNCHANGED syncVars)
    BY <1>1, MostAreQuiet
  <2>2. [SyncNext]_syncVars
    BY <2>1 DEF Quiet, SyncNext, AnySignal
  <2>3. /\ UNCHANGED <<ready, sending>>
        /\ notificationMode' = FALSE \/ notificationMode' = notificationMode
    BY <2>1 DEF Quiet, syncVars, NotifyIngestConnected, MarkRefreshPollingRequired,
                SetNotificationMode
  <2> QED
    BY <2>1, <2>2, <2>3
<1>2. CASE Signal
  <2>1. /\ "ingest" \notin sending
        /\ RequestMetadataRefresh \/ MarkRefreshSupported \/ UNCHANGED syncVars
        /\ "ingest" \in sending' => pc' = "send"
    BY <1>2 DEF Signal, GoTo
  <2>2. [SyncNext]_syncVars
    BY <2>1 DEF SyncNext, AnySignal
  <2>3. CASE RequestMetadataRefresh
    <3>1. ready' = ready /\ (ready \/ notificationMode' = notificationMode)
      BY <2>3 DEF RequestMetadataRefresh, recordRefreshRequest, syncVars
    <3> QED
      BY <2>1, <2>2, <3>1
  <2>4. CASE MarkRefreshSupported
    <3>1. ready' = ready /\ (ready \/ notificationMode' = notificationMode)
      BY <2>4 DEF MarkRefreshSupported, SetNotificationMode
    <3> QED
      BY <2>1, <2>2, <3>1
  <2>5. CASE UNCHANGED syncVars
    BY <2>1, <2>2, <2>5 DEF syncVars
  <2> QED
    BY <2>1, <2>3, <2>4, <2>5
<1>3. CASE Send
  <2>1. SendRefresh("ingest")
    BY <1>3 DEF Send
  <2>2. [SyncNext]_syncVars
    BY <2>1 DEF SyncNext, AnySignal
  <2>3. /\ "ingest" \notin sending'
        /\ UNCHANGED <<ready, notificationMode>>
    BY <2>1 DEF SendRefresh
  <2> QED
    BY <2>2, <2>3
<1> QED
  BY <1>1, <1>2, <1>3

\* Beside the ingest runner nothing turns notification mode on.
LEMMA ObserverSignals ==
    ASSUME Kept, OneSignal, Observer, pc' = pc
    PROVE  /\ [SyncNext]_syncVars /\ OneSignal'
           /\ UNCHANGED notificationMode
<1>1. SyncNext
  BY DEF Observer, SyncNext, Beside, Loop
<1>2. /\ UNCHANGED notificationMode
      /\ "ingest" \in sending' <=> "ingest" \in sending
      /\ ready => ready'
  BY DEF Observer, ActivateNormalWriter, TakeConnected, RequestLocalMetadataRefresh,
         recordRefreshRequest, SendRefresh, Kept, SyncTypeOK
<1> QED
  BY <1>1, <1>2 DEF OneSignal

-----------------------------------------------------------------------------
(* The theorems about both.                                                *)

\* Every step of the composition is one of the metadata runner's, or none of
\* its business, and keeps what the ingest runner relies on.
LEMMA RunnerStep ==
    Kept /\ RunnerInv /\ [Next]_vars => [SyncNext]_syncVars /\ RunnerInv'
<1> SUFFICES ASSUME Kept, RunnerInv, [Next]_vars
             PROVE  [SyncNext]_syncVars /\ RunnerInv'
  OBVIOUS
<1>1. CASE Runner \/ Outside
  <2>1. [SyncNext]_syncVars /\ OneSignal'
    BY <1>1, RunnerSignals DEF RunnerInv
  <2>2. CASE Runner \/ (\E b \in Batches : ReceiveBatch(b)) \/ RecoveryDue
    <3>1. RunnerTypeOK' /\ HeldWhere' /\ StatusWhere'
      BY <2>2, TopsKeep, WritesKeep, FailuresKeep, SuccessesKeep DEF Runner
    <3> QED
      BY <2>1, <3>1 DEF RunnerInv
  <2>3. CASE Disconnected
    BY <2>1, <2>3, FailuresKeep DEF RunnerInv
  <2> QED
    BY <1>1, <2>2, <2>3 DEF Outside
<1>2. CASE Observer /\ UNCHANGED <<statusVars, controlVars, linkVars, held>>
  <2>1. UNCHANGED <<mode, subState, lastError, lastWarning, pc, site, call, result,
                    source, degraded, due, held>>
    BY <1>2 DEF statusVars, controlVars, linkVars
  <2>2. [SyncNext]_syncVars /\ OneSignal' /\ UNCHANGED notificationMode
    BY <1>2, <2>1, ObserverSignals DEF RunnerInv
  <2>3. RunnerTypeOK' /\ HeldWhere'
    BY <2>1 DEF RunnerInv, RunnerTypeOK, HeldWhere
  <2>4. StatusWhere'
    BY <2>1, <2>2 DEF RunnerInv, StatusWhere, Filling, Receiving, InState, NoFailure
  <2> QED
    BY <2>2, <2>3, <2>4 DEF RunnerInv
<1>3. CASE UNCHANGED vars
  <2>1. UNCHANGED <<mode, subState, lastError, lastWarning, pc, site, call, result,
                    source, degraded, due, held>>
    BY <1>3 DEF vars, statusVars, controlVars, linkVars
  <2>2. UNCHANGED syncVars
    BY <1>3 DEF vars
  <2>3. UNCHANGED <<sending, ready, notificationMode>>
    BY <2>2 DEF syncVars
  <2>4. RunnerTypeOK' /\ HeldWhere'
    BY <2>1 DEF RunnerInv, RunnerTypeOK, HeldWhere
  <2>5. StatusWhere'
    BY <2>1, <2>3 DEF RunnerInv, StatusWhere, Filling, Receiving, InState, NoFailure
  <2> QED
    BY <2>1, <2>2, <2>3, <2>4, <2>5 DEF RunnerInv, OneSignal
<1> QED
  BY <1>1, <1>2, <1>3 DEF Next

LEMMA BothHold == Spec => [](Kept /\ RunnerInv)
<1>1. Init => Kept /\ RunnerInv
  BY KeptInit, RunnerInit DEF Init
<1>2. Kept /\ RunnerInv /\ [Next]_vars => Kept' /\ RunnerInv'
  BY KeptStep, RunnerStep
<1> QED
  BY <1>1, <1>2, PTL DEF Spec

\* The ingest runner, in whatever mode and through whatever failures, gives
\* the metadata runner no sequence of signals that SyncSpec does not have.
THEOREM SignalsConform == Spec => SyncSpec
<1>1. Init => SyncInit
  BY DEF Init
<1>2. Kept /\ RunnerInv /\ [Next]_vars => [SyncNext]_syncVars
  BY RunnerStep
<1> QED
  BY <1>1, <1>2, BothHold, PTL DEF Spec, SyncSpec

\* So no refresh request of either caller is forgotten in the composition.
THEOREM RequestsAreKeptByBoth == Spec => []RequestsKept
BY SignalsConform, RequestsAreKept, PTL

\* The types of both runners; of what is held only its type, its length is
\* the next theorem.
THEOREM TypeCorrect == Spec => []TypeOK
<1>1. ASSUME RunnerTypeOK, HeldWhere, SyncTypeOK
      PROVE  TypeOK
  <2>1. CASE held = <<>>
    BY <1>1, <2>1 DEF RunnerTypeOK, TypeOK
  <2>2. ASSUME NEW b \in Batches, held = <<b>>
        PROVE  TypeOK
    <3> HIDE DEF Batches
    <3>1. held \in Seq(Batches)
      BY <2>2
    <3> QED
      BY <1>1, <3>1 DEF RunnerTypeOK, TypeOK
  <2> QED
    BY <1>1, <2>1, <2>2 DEF HeldWhere
<1>2. Kept /\ RunnerInv => TypeOK
  BY <1>1 DEF Kept, RunnerInv
<1> QED
  BY <1>2, BothHold, PTL

\* Nothing is taken from CPA while a batch that was consumed still waits for
\* its insert, whichever mode is tried after the failure.
THEOREM BacklogStaysUpstream == Spec => []OneBatchHeld
<1>1. HeldWhere => OneBatchHeld
  <2> SUFFICES ASSUME HeldWhere PROVE Len(held) <= 1
    BY DEF OneBatchHeld
  <2>1. CASE held = <<>>
    BY <2>1
  <2>2. CASE \E b \in Batches : held = <<b>>
    BY <2>2
  <2> QED
    BY <2>1, <2>2 DEF HeldWhere
<1>2. Kept /\ RunnerInv => OneBatchHeld
  BY <1>1 DEF RunnerInv
<1> QED
  BY <1>2, BothHold, PTL

\* The status shows a failure exactly while one is being waited out, and
\* until it is over metadata is polled.
THEOREM StatusIsTrue == Spec => [](StatusIsCurrent /\ PollingWhileBroken)
<1>1. StatusWhere => StatusIsCurrent /\ PollingWhileBroken
  BY DEF StatusWhere, StatusIsCurrent, PollingWhileBroken, Receiving, NoFailure
<1>2. Kept /\ RunnerInv => StatusIsCurrent /\ PollingWhileBroken
  BY <1>1 DEF RunnerInv
<1> QED
  BY <1>2, BothHold, PTL
-----------------------------------------------------------------------------
(* The list of requests.                                                   *)

LogRows == Seq([at : Nat, kind : Kinds])

\* The sequence q of ids goes strictly backwards.
Backwards(q) == \A i, j \in DOMAIN q : i < j => Precedes(q[i], q[j])

\* A set of numbers has a smallest one.
LEMMA SmallestOf ==
    ASSUME NEW T \in SUBSET Nat, T # {}
    PROVE  \E n \in T : \A m \in T : n <= m
<1>1. \E n \in T : \A m \in T : ~(<<m, n>> \in OpToRel(<, Nat))
  BY NatLessThanWellFounded, WFMin, Zenon
<1>2. PICK n \in T : \A m \in T : ~(<<m, n>> \in OpToRel(<, Nat))
  BY <1>1
<1>3. \A m \in T : ~(m < n)
  BY <1>2 DEF OpToRel
<1> QED
  BY <1>3

\* Two ranges of indices are the same only if their ends are.
LEMMA SameRange ==
    ASSUME NEW a \in Nat, NEW b \in Nat, 1 .. a = 1 .. b
    PROVE  a = b
<1>1. CASE a < b
  <2>1. b \in 1 .. b
    BY <1>1
  <2> QED
    BY <1>1, <2>1
<1>2. CASE b < a
  <2>1. a \in 1 .. a
    BY <1>2
  <2> QED
    BY <1>2, <2>1
<1> QED
  BY <1>1, <1>2

\* A function on 1 .. n is a sequence of length n.
LEMMA FunctionIsSeq ==
    ASSUME NEW S, NEW n \in Nat, NEW q \in [1 .. n -> S]
    PROVE  q \in Seq(S) /\ Len(q) = n
<1>1. q \in Seq(S)
  BY SeqDef
<1>2. Len(q) \in Nat /\ DOMAIN q = 1 .. Len(q)
  BY <1>1, LenProperties
<1> QED
  BY <1>1, <1>2, SameRange

\* Of two rows exactly one precedes the other.
LEMMA RowsAt ==
    ASSUME rows \in LogRows, NEW e \in DOMAIN rows
    PROVE  e \in Nat \ {0} /\ e <= Len(rows) /\ rows[e].at \in Nat /\ rows[e].kind \in Kinds
<1>1. Len(rows) \in Nat /\ DOMAIN rows = 1 .. Len(rows)
  BY LenProperties DEF LogRows
<1>2. rows[e] \in [at : Nat, kind : Kinds]
  BY <1>1, ElementOfSeq DEF LogRows
<1> QED
  BY <1>1, <1>2

LEMMA PrecedesIsStrict ==
    ASSUME rows \in LogRows, NEW e \in DOMAIN rows, NEW f \in DOMAIN rows
    PROVE  /\ ~Precedes(e, e)
           /\ e # f => (Precedes(e, f) <=> ~Precedes(f, e))
           /\ \A g \in DOMAIN rows : Precedes(e, f) /\ Precedes(f, g) => Precedes(e, g)
           /\ Precedes(e, f) <=> After(f, <<rows[e].at, e>>)
<1> DEFINE at(x) == rows[x].at
<1>1. \A x \in DOMAIN rows : x \in Nat /\ at(x) \in Nat
  BY RowsAt
<1>2. \A x, y \in DOMAIN rows : Precedes(x, y) <=> (at(x) > at(y) \/ (at(x) = at(y) /\ x > y))
  BY DEF Precedes
<1>3. After(f, <<at(e), e>>) <=> (at(f) < at(e) \/ (at(f) = at(e) /\ f < e))
  BY DEF After
<1> HIDE DEF at
<1>4. \A g \in DOMAIN rows : Precedes(e, f) /\ Precedes(f, g) => Precedes(e, g)
  <2> SUFFICES ASSUME NEW g \in DOMAIN rows, Precedes(e, f), Precedes(f, g) PROVE Precedes(e, g)
    OBVIOUS
  <2> QED
    BY <1>1, <1>2
<1>5. ~Precedes(e, e) /\ (e # f => (Precedes(e, f) <=> ~Precedes(f, e)))
  BY <1>1, <1>2
<1>6. Precedes(e, f) <=> After(f, <<at(e), e>>)
  BY <1>1, <1>2, <1>3
<1> QED
  BY <1>4, <1>5, <1>6 DEF at

\* A set of rows has an oldest one.
LEMMA OldestOf ==
    ASSUME rows \in LogRows, NEW S \in SUBSET DOMAIN rows, S # {}
    PROVE  \E e \in S : \A f \in S \ {e} : Precedes(f, e)
<1> DEFINE at(x) == rows[x].at
           times == {at(x) : x \in S}
<1>1. \A x \in S : x \in Nat /\ at(x) \in Nat
  BY RowsAt
<1>2. times \in SUBSET Nat /\ times # {}
  BY <1>1
<1>3. PICK t \in times : \A u \in times : t <= u
  BY <1>2, SmallestOf
<1> DEFINE ids == {x \in S : at(x) = t}
<1>4. ids \in SUBSET Nat /\ ids # {}
  BY <1>1, <1>3
<1>5. PICK e \in ids : \A x \in ids : e <= x
  BY <1>4, SmallestOf
<1>6. ASSUME NEW f \in S \ {e} PROVE Precedes(f, e)
  <2>1. at(e) = t /\ at(f) >= t /\ at(f) \in Nat /\ t \in Nat /\ e \in Nat /\ f \in Nat
    BY <1>1, <1>2, <1>3, <1>5
  <2>2. at(f) = t => f >= e
    BY <1>5
  <2>3. at(f) > at(e) \/ (at(f) = at(e) /\ f > e)
    BY <2>1, <2>2
  <2> QED
    BY <2>3 DEF Precedes
<1> QED
  BY <1>5, <1>6

\* Any finite set of rows can be put in order.
LEMMA OrderExists ==
    ASSUME rows \in LogRows
    PROVE  \A S \in SUBSET DOMAIN rows :
             IsFiniteSet(S) => \E q \in [1 .. Cardinality(S) -> S] : Backwards(q)
<1> DEFINE OfSize(n) == {S \in SUBSET DOMAIN rows : IsFiniteSet(S) /\ Cardinality(S) = n}
           Bad == {n \in Nat : \E S \in OfSize(n) : \A q \in [1 .. n -> S] : ~Backwards(q)}
<1>1. ASSUME Bad # {} PROVE FALSE
  <2>0. Bad \in SUBSET Nat
    OBVIOUS
  <2>1. PICK n \in Bad : \A m \in Bad : n <= m
    BY <1>1, <2>0, SmallestOf
  <2>2. PICK S \in OfSize(n) : \A q \in [1 .. n -> S] : ~Backwards(q)
    BY <2>1
  <2>3. n \in Nat /\ IsFiniteSet(S) /\ Cardinality(S) = n /\ S \subseteq DOMAIN rows
    BY <2>1, <2>2
  <2>4. CASE n = 0
    <3> DEFINE q == [i \in 1 .. 0 |-> 0]
    <3>1. q \in [1 .. n -> S]
      BY <2>4
    <3>2. Backwards(q)
      BY DEF Backwards
    <3> QED
      BY <2>2, <3>1, <3>2
  <2>5. CASE n > 0
    <3>1. S # {}
      BY <2>3, <2>5, FS_EmptySet
    <3>2. PICK e \in S : \A f \in S \ {e} : Precedes(f, e)
      BY <2>3, <3>1, OldestOf
    <3> DEFINE R == S \ {e}
    <3>3. IsFiniteSet(R) /\ Cardinality(R) = n - 1
      BY <2>3, FS_RemoveElement
    <3>4. n - 1 \notin Bad /\ n - 1 \in Nat
      BY <2>1, <2>3, <2>5
    <3>5. R \in OfSize(n - 1)
      BY <2>3, <3>3
    <3>6. \E q \in [1 .. n - 1 -> R] : Backwards(q)
      BY <3>4, <3>5
    <3>7. PICK q \in [1 .. n - 1 -> R] : Backwards(q)
      BY <3>6
    <3> DEFINE p == [i \in 1 .. n |-> IF i = n THEN e ELSE q[i]]
    <3>8. \A i \in 1 .. n : i # n => i \in 1 .. n - 1 /\ q[i] \in R
      BY <2>3, <2>5, <3>7
    <3>9. p \in [1 .. n -> S]
      BY <3>8
    <3>10. ASSUME NEW i \in 1 .. n, NEW j \in 1 .. n, i < j PROVE Precedes(p[i], p[j])
      <4>1. i # n /\ p[i] = q[i]
        BY <2>3, <3>10
      <4>2. CASE j = n
        BY <3>2, <3>8, <4>1, <4>2
      <4>3. CASE j # n
        <5>1. i \in DOMAIN q /\ j \in DOMAIN q /\ p[j] = q[j]
          BY <3>7, <3>8, <4>1, <4>3
        <5> QED
          BY <3>7, <3>10, <4>1, <5>1 DEF Backwards
      <4> QED
        BY <4>2, <4>3
    <3>11. Backwards(p)
      BY <3>9, <3>10 DEF Backwards
    <3> QED
      BY <2>2, <3>9, <3>11
  <2> QED
    BY <2>3, <2>4, <2>5
<1>2. ASSUME NEW S \in SUBSET DOMAIN rows, IsFiniteSet(S)
      PROVE  \E q \in [1 .. Cardinality(S) -> S] : Backwards(q)
  <2>1. Cardinality(S) \in Nat
    BY <1>2, FS_CardinalityType
  <2>2. S \in OfSize(Cardinality(S)) /\ Cardinality(S) \notin Bad
    BY <1>1, <1>2
  <2> QED
    BY <2>1, <2>2
<1> QED
  BY <1>2

\* NewestFirst lists a finite set of rows, each once, backwards.
LEMMA NewestFirstLists ==
    ASSUME rows \in LogRows, NEW S \in SUBSET DOMAIN rows, IsFiniteSet(S)
    PROVE  /\ NewestFirst(S) \in Seq(S)
           /\ Len(NewestFirst(S)) = Cardinality(S)
           /\ Backwards(NewestFirst(S))
           /\ \A e \in S : \E i \in 1 .. Len(NewestFirst(S)) : NewestFirst(S)[i] = e
<1> DEFINE n == Cardinality(S)
<1>0. n \in Nat /\ IsFiniteSet(1 .. n) /\ Cardinality(1 .. n) = n
  BY FS_CardinalityType, FS_Interval
<1>1. PICK q \in [1 .. n -> S] : Backwards(q)
  BY OrderExists
<1> HIDE DEF n
<1>2. \A i, j \in 1 .. n : i # j => q[i] # q[j]
  <2> SUFFICES ASSUME NEW i \in 1 .. n, NEW j \in 1 .. n, i < j, q[i] = q[j] PROVE FALSE
    BY <1>0
  <2>1. Precedes(q[i], q[j]) /\ q[i] \in DOMAIN rows
    BY <1>1 DEF Backwards
  <2> QED
    BY <2>1, PrecedesIsStrict
<1>3. q \in SetToSeqs(S)
  BY <1>1, <1>2 DEF SetToSeqs, n
<1> DEFINE r == NewestFirst(S)
<1>4. r \in SetToSeqs(S) /\ Backwards(r)
  <2>1. \E x \in SetToSeqs(S) : \A i, j \in DOMAIN x : i < j => Precedes(x[i], x[j])
    BY <1>1, <1>3 DEF Backwards
  <2> QED
    BY <2>1, Zenon DEF NewestFirst, Backwards
<1> HIDE DEF r
<1>5. r \in [1 .. n -> S] /\ \A i, j \in 1 .. n : i # j => r[i] # r[j]
  BY <1>4 DEF SetToSeqs, n
<1>6. r \in Seq(S) /\ Len(r) = n
  BY <1>0, <1>5, FunctionIsSeq
<1>7. r \in Injection(1 .. n, S)
  BY <1>5 DEF Injection, IsInjective
<1>8. r \in Surjection(1 .. n, S)
  BY <1>0, <1>7, FS_Injection DEF n
<1>9. \A e \in S : \E i \in 1 .. n : r[i] = e
  BY <1>8 DEF Surjection
<1> QED
  BY <1>4, <1>6, <1>9 DEF r, n
-----------------------------------------------------------------------------
(* The walk.                                                               *)

LEMMA ListedRows ==
    ASSUME rows \in LogRows, NEW kind, NEW S \in SUBSET Listed(kind)
    PROVE  /\ S \in SUBSET DOMAIN rows /\ IsFiniteSet(S) /\ Cardinality(S) \in Nat
<1>1. Len(rows) \in Nat /\ DOMAIN rows = 1 .. Len(rows)
  BY LenProperties DEF LogRows
<1>2. IsFiniteSet(DOMAIN rows)
  BY <1>1, FS_Interval
<1>3. S \in SUBSET DOMAIN rows
  BY DEF Listed
<1>4. IsFiniteSet(S)
  BY <1>2, <1>3, FS_Subset
<1> QED
  BY <1>3, <1>4, FS_CardinalityType

\* What lies behind a cursor.
Behind(kind, after) == {e \in Listed(kind) : After(e, after)}

\* A page after a cursor: the rows behind it, backwards, as many as fit; what
\* does not fit lies behind its last row.
LEMMA PageShows ==
    ASSUME rows \in LogRows, NEW kind, NEW after,
           NEW page, page = CursorPage(kind, after)
    PROVE  /\ page.hasMore \in BOOLEAN
           /\ page.events \in Seq(Behind(kind, after))
           /\ Backwards(page.events)
           /\ page.hasMore => Len(page.events) > 0
           /\ \A e \in Behind(kind, after) :
                \/ \E i \in 1 .. Len(page.events) : page.events[i] = e
                \/ page.hasMore /\ Precedes(page.events[Len(page.events)], e)
<1> DEFINE behind == Behind(kind, after)
           found == NewestFirst(behind)
           n == Len(found)
           m == IF n < PageRows THEN n ELSE PageRows
<1>1. behind \in SUBSET DOMAIN rows /\ IsFiniteSet(behind)
  BY ListedRows DEF Behind
<1>2. /\ found \in Seq(behind) /\ Backwards(found)
      /\ \A e \in behind : \E i \in 1 .. n : found[i] = e
  BY <1>1, NewestFirstLists
<1> DEFINE more == n > PageRows
<1>3. page = [events |-> SubSeq(found, 1, m), hasMore |-> more]
  BY Zenon DEF CursorPage, Behind
<1> HIDE DEF found, behind
<1>4. n \in Nat /\ DOMAIN found = 1 .. n
  BY <1>2, LenProperties
<1>5. PageRows \in Nat \ {0}
  BY EventLogAssumption
<1>13. more \in BOOLEAN /\ (more <=> n > PageRows)
  OBVIOUS
<1> HIDE DEF n, more
<1>6. m \in Nat /\ m <= n /\ (n > PageRows => m > 0) /\ (n <= PageRows => m = n)
  BY <1>4, <1>5
<1> HIDE DEF m
<1>7. \A i \in 1 .. m : found[i] \in behind
  BY <1>2, <1>4, <1>6, ElementOfSeq
<1> DEFINE shown == SubSeq(found, 1, m)
<1>8. shown \in Seq(behind) /\ Len(shown) = m /\ \A i \in 1 .. m : shown[i] = found[i]
  <2>1. /\ shown \in Seq(behind)
        /\ Len(shown) = IF 1 <= m THEN m - 1 + 1 ELSE 0
        /\ \A i \in 1 .. m - 1 + 1 : shown[i] = found[1 + i - 1]
    BY <1>6, <1>7, SubSeqProperties
  <2> QED
    BY <1>6, <2>1
<1> HIDE DEF shown
<1>9. DOMAIN shown = 1 .. m
  BY <1>8, LenProperties
<1>10. Backwards(shown)
  BY <1>2, <1>4, <1>6, <1>8, <1>9 DEF Backwards
<1>11. ASSUME NEW e \in behind
       PROVE  \/ \E i \in 1 .. m : shown[i] = e
              \/ n > PageRows /\ Precedes(shown[m], e)
  <2>1. PICK i \in 1 .. n : found[i] = e
    BY <1>2
  <2>2. CASE i <= m
    BY <1>8, <2>1, <2>2, <1>6
  <2>3. CASE i > m
    <3>1. n > PageRows /\ m \in 1 .. n /\ i \in 1 .. n
      BY <1>4, <1>5, <1>6, <2>1, <2>3
    <3>2. Precedes(found[m], found[i])
      BY <1>2, <1>4, <2>3, <3>1 DEF Backwards
    <3> QED
      BY <1>6, <1>8, <2>1, <3>1, <3>2
  <2> QED
    BY <1>4, <1>6, <2>2, <2>3
<1>12. page.events = shown /\ page.hasMore = more
  <2>1. page = [events |-> shown, hasMore |-> more]
    BY <1>3 DEF shown
  <2> QED
    BY <2>1
<1>14. page.hasMore \in BOOLEAN /\ (page.hasMore <=> n > PageRows)
  BY <1>12, <1>13, Zenon
<1>15. Len(page.events) = m /\ (n > PageRows => m > 0)
  BY <1>6, <1>8, <1>12
<1> HIDE DEF m
<1>16. page.hasMore => Len(page.events) > 0
  BY <1>14, <1>15
<1>17. page.events \in Seq(behind) /\ Backwards(page.events)
  BY <1>8, <1>10, <1>12
<1>18. \A e \in behind :
         \/ \E i \in 1 .. Len(page.events) : page.events[i] = e
         \/ page.hasMore /\ Precedes(page.events[Len(page.events)], e)
  BY <1>11, <1>12, <1>14, <1>15
<1> QED
  BY <1>14, <1>16, <1>17, <1>18 DEF behind

\* The walk has shown, backwards, what it began with and is still stored, or
\* will come to it: it lies behind the last row shown.
Seen(e) == \E i \in DOMAIN walk.got : walk.got[i] = e

WalkInv ==
    /\ rows \in LogRows /\ gone \in SUBSET DOMAIN rows
    /\ walk \in {NoWalk} \cup
          [active : {TRUE}, kind : Kinds \cup {AnyKind}, got : Seq(Nat), more : BOOLEAN, from : Nat]
    /\ walk.active =>
          /\ walk.got \in Seq(DOMAIN rows) /\ walk.from <= Len(rows)
          /\ Backwards(walk.got)
          /\ walk.more => Len(walk.got) > 0
          /\ \A e \in Listed(walk.kind) :
               e <= walk.from =>
                 \/ Seen(e)
                 \/ walk.more /\ Precedes(walk.got[Len(walk.got)], e)

LEMMA ActiveWalk ==
    ASSUME WalkInv, walk.active
    PROVE  walk \in [active : {TRUE}, kind : Kinds \cup {AnyKind}, got : Seq(Nat), more : BOOLEAN,
                     from : Nat]
<1>1. walk # NoWalk
  BY DEF NoWalk
<1> QED
  BY <1>1 DEF WalkInv

LEMMA WalkInit == EventLogInit => WalkInv
<1> SUFFICES ASSUME EventLogInit PROVE WalkInv
  OBVIOUS
<1>1. rows \in LogRows /\ gone \in SUBSET DOMAIN rows
  BY EmptySeq DEF EventLogInit, LogRows
<1>2. walk = NoWalk /\ ~walk.active
  BY DEF EventLogInit, NoWalk
<1> QED
  BY <1>1, <1>2 DEF WalkInv

\* More rows and fewer listed ones leave a walk as it was.
LEMMA WalkUntouched ==
    ASSUME WalkInv, walk' = walk, rows' \in LogRows, gone' \in SUBSET DOMAIN rows',
           Len(rows) <= Len(rows'), \A e \in DOMAIN rows : rows'[e] = rows[e],
           gone \subseteq gone'
    PROVE  WalkInv'
<1>1. /\ Len(rows) \in Nat /\ DOMAIN rows = 1 .. Len(rows)
      /\ Len(rows') \in Nat /\ DOMAIN rows' = 1 .. Len(rows')
  BY LenProperties DEF WalkInv, LogRows
<1>2. \A e, f \in DOMAIN rows : Precedes(e, f)' <=> Precedes(e, f)
  BY DEF Precedes
<1>3. ASSUME walk.active
      PROVE  /\ walk.got \in Seq(DOMAIN rows') /\ walk.from <= Len(rows')
             /\ Backwards(walk.got)'
             /\ walk.more => Len(walk.got) > 0
             /\ \A e \in Listed(walk.kind)' :
                  e <= walk.from =>
                    \/ Seen(e)'
                    \/ walk.more /\ Precedes(walk.got[Len(walk.got)], e)'
  <2>0. walk \in [active : {TRUE}, kind : Kinds \cup {AnyKind}, got : Seq(Nat), more : BOOLEAN,
                  from : Nat]
    BY <1>3, ActiveWalk
  <2>1. walk.got \in Seq(DOMAIN rows) /\ walk.from <= Len(rows) /\ walk.from \in Nat
    BY <1>3, <2>0 DEF WalkInv
  <2>2. walk.got \in Seq(DOMAIN rows') /\ walk.from <= Len(rows')
    <3>1. DOMAIN rows \subseteq DOMAIN rows'
      BY <1>1
    <3> QED
      BY <1>1, <2>1, <3>1, SeqMonotonic
  <2>3. \A i \in DOMAIN walk.got : walk.got[i] \in DOMAIN rows
    BY <2>1, LenProperties, ElementOfSeq
  <2>4. Backwards(walk.got)'
    <3>1. Backwards(walk.got)
      BY <1>3 DEF WalkInv
    <3> QED
      BY <1>2, <2>3, <3>1 DEF Backwards
  <2>5. ASSUME NEW e \in Listed(walk.kind)', e <= walk.from
        PROVE  Seen(e)' \/ (walk.more /\ Precedes(walk.got[Len(walk.got)], e)')
    <3>1. e \in DOMAIN rows
      BY <1>1, <2>1, <2>5 DEF Listed
    <3>2. e \in Listed(walk.kind)
      BY <2>5, <3>1 DEF Listed
    <3>3. CASE Seen(e)
      BY <3>3 DEF Seen
    <3>4. CASE walk.more /\ Precedes(walk.got[Len(walk.got)], e)
      <4>1. Len(walk.got) \in DOMAIN walk.got
        BY <1>3, <2>1, <3>4, LenProperties DEF WalkInv
      <4>2. walk.got[Len(walk.got)] \in DOMAIN rows
        BY <2>3, <4>1
      <4> QED
        BY <1>2, <3>1, <3>4, <4>2
    <3> QED
      BY <1>3, <2>5, <3>2, <3>3, <3>4 DEF WalkInv
  <2> QED
    BY <1>3, <2>2, <2>4, <2>5 DEF WalkInv
<1>4. walk \in {NoWalk} \cup
          [active : {TRUE}, kind : Kinds \cup {AnyKind}, got : Seq(Nat), more : BOOLEAN, from : Nat]
  BY DEF WalkInv
<1> QED
  BY <1>3, <1>4 DEF WalkInv

LEMMA BeginWalkStep ==
    ASSUME WalkInv, NEW kind \in Kinds \cup {AnyKind}, BeginWalk(kind)
    PROVE  WalkInv'
<1> DEFINE behind == Behind(kind, <<>>)
<1> PICK page : page = CursorPage(kind, <<>>)
  OBVIOUS
<1>0. rows \in LogRows
  BY DEF WalkInv
<1>1. /\ page.hasMore \in BOOLEAN
      /\ page.events \in Seq(behind)
      /\ Backwards(page.events)
      /\ page.hasMore => Len(page.events) > 0
      /\ \A e \in behind :
           \/ \E i \in 1 .. Len(page.events) : page.events[i] = e
           \/ page.hasMore /\ Precedes(page.events[Len(page.events)], e)
  BY <1>0, PageShows
<1>2. walk' = [active |-> TRUE, kind |-> kind, got |-> page.events, more |-> page.hasMore,
               from |-> Len(rows)] /\ rows' = rows /\ gone' = gone
  BY DEF BeginWalk
<1>3. behind = Listed(kind) /\ behind \subseteq DOMAIN rows
  BY DEF After, Listed, Behind
<1> HIDE DEF behind
<1>4. /\ walk'.active /\ walk'.kind = kind /\ walk'.got = page.events
      /\ walk'.more = page.hasMore /\ walk'.from = Len(rows)
  BY <1>2
<1>5. Len(rows) \in Nat /\ DOMAIN rows = 1 .. Len(rows)
  BY <1>0, LenProperties DEF LogRows
<1>6. page.events \in Seq(DOMAIN rows) /\ page.events \in Seq(Nat)
  <2>1. behind \subseteq Nat
    BY <1>3, <1>5
  <2> QED
    BY <1>1, <1>3, <2>1, SeqMonotonic
<1>7. DOMAIN page.events = 1 .. Len(page.events)
  BY <1>6, LenProperties
<1>8. walk' \in [active : {TRUE}, kind : Kinds \cup {AnyKind}, got : Seq(Nat), more : BOOLEAN,
                 from : Nat]
  BY <1>1, <1>2, <1>5, <1>6
<1>9. Backwards(walk.got)'
  <2>1. \A e, f \in DOMAIN rows : Precedes(e, f)' <=> Precedes(e, f)
    BY <1>2 DEF Precedes
  <2>2. \A i \in DOMAIN page.events : page.events[i] \in DOMAIN rows
    BY <1>6, <1>7, ElementOfSeq
  <2> QED
    BY <1>1, <1>4, <2>1, <2>2 DEF Backwards
<1>10. ASSUME NEW e \in Listed(walk.kind)'
       PROVE  Seen(e)' \/ (walk.more /\ Precedes(walk.got[Len(walk.got)], e))'
  <2>1. e \in behind
    BY <1>2, <1>3, <1>4 DEF Listed
  <2>2. CASE \E i \in 1 .. Len(page.events) : page.events[i] = e
    BY <1>4, <1>7, <2>2 DEF Seen
  <2>3. CASE page.hasMore /\ Precedes(page.events[Len(page.events)], e)
    BY <1>2, <1>4, <2>3 DEF Precedes
  <2> QED
    BY <1>1, <2>1, <2>2, <2>3
<1> QED
  BY <1>0, <1>1, <1>2, <1>4, <1>5, <1>6, <1>8, <1>9, <1>10 DEF WalkInv

LEMMA NextPageStep ==
    ASSUME WalkInv, NextPage
    PROVE  WalkInv'
<1> DEFINE last == walk.got[Len(walk.got)]
<1>q. PICK kind, after : kind = walk.kind /\ after = <<rows[last].at, last>>
  OBVIOUS
<1> DEFINE behind == Behind(kind, after)
<1>p. PICK page : page = CursorPage(kind, after)
  OBVIOUS
<1>a. walk.active /\ walk.more
  BY DEF NextPage
<1>b. walk \in [active : {TRUE}, kind : Kinds \cup {AnyKind}, got : Seq(Nat), more : BOOLEAN,
                from : Nat]
  BY <1>a, ActiveWalk
<1>0. /\ rows \in LogRows /\ walk.active /\ walk.more /\ Len(walk.got) > 0
      /\ walk.got \in Seq(DOMAIN rows) /\ walk.from <= Len(rows)
  BY <1>a, <1>b DEF WalkInv
<1>2. walk' = [walk EXCEPT !.got = walk.got \o page.events, !.more = page.hasMore]
      /\ rows' = rows /\ gone' = gone
  BY <1>p, <1>q DEF NextPage, Last
<1>1. /\ page.hasMore \in BOOLEAN
      /\ page.events \in Seq(behind)
      /\ Backwards(page.events)
      /\ page.hasMore => Len(page.events) > 0
      /\ \A e \in behind :
           \/ \E i \in 1 .. Len(page.events) : page.events[i] = e
           \/ page.hasMore /\ Precedes(page.events[Len(page.events)], e)
  BY <1>0, <1>p, PageShows
<1>3. Len(walk.got) \in Nat /\ DOMAIN walk.got = 1 .. Len(walk.got)
  BY <1>0, LenProperties
<1>4. last \in DOMAIN rows
  BY <1>0, <1>3, ElementOfSeq
<1>5. behind \subseteq DOMAIN rows /\ DOMAIN rows \subseteq Nat
  <2>1. DOMAIN rows = 1 .. Len(rows)
    BY <1>0, LenProperties DEF LogRows
  <2> QED
    BY <2>1 DEF Listed, Behind
<1>6. \A e \in Listed(walk.kind) : Precedes(last, e) <=> e \in behind
  <2>1. \A e \in DOMAIN rows : Precedes(last, e) <=> After(e, after)
    BY <1>0, <1>4, <1>q, PrecedesIsStrict
  <2> QED
    BY <1>q, <2>1 DEF Listed, Behind
<1>e. behind \subseteq Listed(walk.kind)
  BY <1>q DEF Behind
<1> HIDE DEF behind
<1>7. /\ walk'.active /\ walk'.kind = walk.kind /\ walk'.got = walk.got \o page.events
      /\ walk'.more = page.hasMore /\ walk'.from = walk.from
  BY <1>b, <1>0, <1>2
<1>8. page.events \in Seq(DOMAIN rows)
  BY <1>1, <1>5, SeqMonotonic
<1> DEFINE n == Len(walk.got)
           m == Len(page.events)
           got == walk'.got
           old == walk.got
           new == page.events
<1>9. /\ n \in Nat /\ n > 0 /\ DOMAIN old = 1 .. n /\ old \in Seq(DOMAIN rows)
      /\ m \in Nat /\ DOMAIN new = 1 .. m
  BY <1>0, <1>3, <1>8, LenProperties
<1>10. /\ got \in Seq(DOMAIN rows) /\ Len(got) = n + m
       /\ \A i \in 1 .. n + m : got[i] = IF i <= n THEN old[i] ELSE new[i - n]
  <2>1. got = old \o new /\ old \in Seq(DOMAIN rows) /\ new \in Seq(DOMAIN rows)
        /\ n = Len(old) /\ m = Len(new)
    BY <1>0, <1>7, <1>8
  <2> HIDE DEF got, old, new, n, m
  <2> QED
    BY <2>1, ConcatProperties
<1>11. DOMAIN got = 1 .. n + m
  BY <1>10, LenProperties
<1>12. got \in Seq(Nat)
  BY <1>5, <1>10, SeqMonotonic
<1>13. walk' \in [active : {TRUE}, kind : Kinds \cup {AnyKind}, got : Seq(Nat), more : BOOLEAN,
                  from : Nat]
  BY <1>b, <1>0, <1>1, <1>2, <1>7, <1>12
<1>14. \A i \in 1 .. m : new[i] \in behind /\ new[i] \in Listed(walk.kind)
  BY <1>1, <1>e, ElementOfSeq
<1>15. \A i \in 1 .. n : old[i] \in DOMAIN rows
  BY <1>9, ElementOfSeq
<1>16. \A i, j \in 1 .. n : i < j => Precedes(old[i], old[j])
  BY <1>9, <1>a DEF WalkInv, Backwards
<1>17. \A i, j \in 1 .. m : i < j => Precedes(new[i], new[j])
  BY <1>1, <1>9 DEF Backwards
<1>18. last = old[n]
  OBVIOUS
<1>19. \A e \in behind :
         \/ \E i \in 1 .. m : new[i] = e
         \/ page.hasMore /\ Precedes(new[m], e)
  BY <1>1
<1>20. page.hasMore => m > 0
  BY <1>1
<1>21. \A e \in Listed(walk.kind) :
         e <= walk.from => \/ \E i \in 1 .. n : old[i] = e
                           \/ Precedes(last, e)
  BY <1>a, <1>9 DEF WalkInv, Seen
<1>22. walk'.got = got /\ Len(walk'.got) = n + m
  BY <1>10
<1> HIDE DEF n, m, got, old, new, last
<1>23. \A i \in 1 .. n : i \in 1 .. n + m /\ got[i] = old[i]
  BY <1>9, <1>10
<1>24. \A i \in 1 .. m : n + i \in 1 .. n + m /\ got[n + i] = new[i]
  <2> SUFFICES ASSUME NEW i \in 1 .. m PROVE n + i \in 1 .. n + m /\ got[n + i] = new[i]
    OBVIOUS
  <2>1. n + i \in 1 .. n + m /\ ~(n + i <= n) /\ (n + i) - n = i
    BY <1>9
  <2> QED
    BY <1>10, <2>1
<1>25. ASSUME NEW i \in 1 .. n + m, NEW j \in 1 .. n + m, i < j
       PROVE  Precedes(got[i], got[j])
  <2>1. CASE j <= n
    <3>1. i \in 1 .. n /\ j \in 1 .. n
      BY <1>9, <1>25, <2>1
    <3> QED
      BY <1>16, <1>23, <1>25, <3>1
  <2>2. CASE i > n
    <3>1. /\ i - n \in 1 .. m /\ j - n \in 1 .. m /\ i - n < j - n
          /\ n + (i - n) = i /\ n + (j - n) = j
      BY <1>9, <1>25, <2>2
    <3>2. got[i] = new[i - n] /\ got[j] = new[j - n]
      BY <1>24, <3>1
    <3> QED
      BY <1>17, <3>1, <3>2
  <2>3. CASE i <= n /\ j > n
    <3>1. i \in 1 .. n /\ n \in 1 .. n /\ j - n \in 1 .. m /\ n + (j - n) = j
      BY <1>9, <2>3
    <3>2. got[i] = old[i] /\ got[j] = new[j - n] /\ old[i] \in DOMAIN rows
      BY <1>15, <1>23, <1>24, <3>1
    <3>3. Precedes(last, got[j]) /\ got[j] \in DOMAIN rows
      BY <1>5, <1>6, <1>14, <3>1, <3>2
    <3>4. i = n \/ Precedes(old[i], last)
      <4>1. i = n \/ i < n
        BY <1>9, <3>1
      <4> QED
        BY <1>16, <1>18, <3>1, <4>1
    <3>5. CASE i = n
      BY <1>18, <3>2, <3>3, <3>5
    <3>6. CASE Precedes(old[i], last)
      BY <1>0, <1>4, <3>2, <3>3, <3>6, PrecedesIsStrict
    <3> QED
      BY <3>4, <3>5, <3>6
  <2> QED
    BY <1>9, <1>25, <2>1, <2>2, <2>3
<1>26. Backwards(walk.got)'
  <2>1. \A i, j \in DOMAIN walk'.got : i < j => Precedes(walk'.got[i], walk'.got[j])
    BY <1>11, <1>22, <1>25
  <2>2. \A e, f : Precedes(e, f)' <=> Precedes(e, f)
    BY <1>2 DEF Precedes
  <2> QED
    BY <2>1, <2>2 DEF Backwards
<1>27. ASSUME NEW e \in Listed(walk.kind)', e <= walk'.from
       PROVE  Seen(e)' \/ (walk.more /\ Precedes(walk.got[Len(walk.got)], e))'
  <2>1. e \in Listed(walk.kind) /\ e <= walk.from
    BY <1>2, <1>7, <1>27 DEF Listed
  <2>2. CASE \E i \in 1 .. n : old[i] = e
    <3>1. PICK i \in 1 .. n : old[i] = e
      BY <2>2
    <3>2. i \in DOMAIN walk'.got /\ walk'.got[i] = e
      BY <1>11, <1>22, <1>23, <3>1
    <3> QED
      BY <3>2 DEF Seen
  <2>3. CASE Precedes(last, e)
    <3>1. e \in behind
      BY <1>6, <2>1, <2>3
    <3>2. CASE \E i \in 1 .. m : new[i] = e
      <4>1. PICK i \in 1 .. m : new[i] = e
        BY <3>2
      <4>2. n + i \in DOMAIN walk'.got /\ walk'.got[n + i] = e
        BY <1>11, <1>22, <1>24, <4>1
      <4> QED
        BY <4>2 DEF Seen
    <3>3. CASE page.hasMore /\ Precedes(new[m], e)
      <4>1. m \in 1 .. m
        BY <1>9, <1>20, <3>3
      <4>2. walk'.got[Len(walk'.got)] = new[m]
        BY <1>22, <1>24, <4>1
      <4>3. Precedes(walk'.got[Len(walk'.got)], e)
        BY <3>3, <4>2
      <4>4. Precedes(walk.got[Len(walk.got)], e)'
        BY <1>2, <4>3 DEF Precedes
      <4> QED
        BY <1>7, <3>3, <4>4
    <3> QED
      BY <1>19, <3>1, <3>2, <3>3
  <2> QED
    BY <1>21, <2>1, <2>2, <2>3
<1>28. Len(walk'.got) > 0
  BY <1>9, <1>22
<1>29. /\ rows' \in LogRows /\ gone' \in SUBSET DOMAIN rows' /\ walk'.from <= Len(rows')
       /\ walk'.got \in Seq(DOMAIN rows')
  BY <1>0, <1>2, <1>7, <1>10, <1>22 DEF WalkInv
<1> QED
  BY <1>13, <1>26, <1>27, <1>28, <1>29 DEF WalkInv

LEMMA WalkSteps ==
    ASSUME WalkInv, ListStep \/ UNCHANGED listVars
    PROVE  WalkInv'
<1>0. /\ rows \in LogRows /\ gone \in SUBSET DOMAIN rows /\ Len(rows) \in Nat
      /\ DOMAIN rows = 1 .. Len(rows)
  BY LenProperties DEF WalkInv, LogRows
<1>1. CASE UNCHANGED listVars
  BY <1>0, <1>1, WalkUntouched DEF listVars
<1>2. ASSUME NEW t \in Stamps, NEW k \in Kinds, StoreRow(t, k) PROVE WalkInv'
  <2>1. [at |-> t, kind |-> k] \in [at : Nat, kind : Kinds]
    BY EventLogAssumption
  <2>2. rows' = Append(rows, [at |-> t, kind |-> k]) /\ gone' = gone /\ walk' = walk
    BY <1>2 DEF StoreRow
  <2>3. /\ rows' \in LogRows /\ Len(rows') = Len(rows) + 1
        /\ \A e \in 1 .. Len(rows) : rows'[e] = rows[e]
    BY <1>0, <2>1, <2>2, AppendProperties DEF LogRows
  <2>4. DOMAIN rows' = 1 .. Len(rows) + 1
    BY <2>3, LenProperties DEF LogRows
  <2>5. Len(rows) <= Len(rows') /\ gone' \in SUBSET DOMAIN rows'
    BY <1>0, <2>2, <2>3, <2>4
  <2> QED
    BY <1>0, <2>2, <2>3, <2>5, WalkUntouched
<1>3. ASSUME NEW e \in DOMAIN rows \ gone, ArchiveRow(e) PROVE WalkInv'
  BY <1>0, <1>3, WalkUntouched DEF ArchiveRow
<1>4. CASE EndWalk
  <2>1. walk' = NoWalk /\ rows' = rows /\ gone' = gone
    BY <1>4 DEF EndWalk
  <2>2. ~walk'.active
    BY <2>1 DEF NoWalk
  <2> QED
    BY <1>0, <2>1, <2>2 DEF WalkInv
<1> QED
  BY <1>1, <1>2, <1>3, <1>4, BeginWalkStep, NextPageStep DEF ListStep
-----------------------------------------------------------------------------
(* The pages by number.                                                    *)

\* FlattenSeq is the last value of any sequence that adds one part at a time.
LEMMA FlattenIs ==
    ASSUME NEW seqs, NEW n \in Nat \ {0}, Len(seqs) = n, NEW F,
           \A i \in 1 .. n : F[i] = IF i = 1 THEN seqs[i] ELSE F[i - 1] \o seqs[i]
    PROVE  FlattenSeq(seqs) = F[n]
<1> DEFINE G == CHOOSE f : f = [i \in 1 .. Len(seqs) |->
                                  IF i = 1 THEN seqs[i] ELSE f[i - 1] \o seqs[i]]
<1>1. FlattenSeq(seqs) = G[Len(seqs)]
  <2>1. Len(seqs) # 0
    OBVIOUS
  <2> QED
    BY <2>1, Zenon DEF FlattenSeq
<1>2. G = [i \in 1 .. Len(seqs) |-> IF i = 1 THEN seqs[i] ELSE G[i - 1] \o seqs[i]]
  <2> DEFINE H == [i \in 1 .. n |-> F[i]]
             K == [i \in 1 .. n |-> IF i = 1 THEN seqs[i] ELSE H[i - 1] \o seqs[i]]
  <2>1. ASSUME NEW i \in 1 .. n PROVE H[i] = K[i]
    <3>1. H[i] = F[i] /\ (i # 1 => i - 1 \in 1 .. n /\ H[i - 1] = F[i - 1])
      OBVIOUS
    <3>2. K[i] = IF i = 1 THEN seqs[i] ELSE H[i - 1] \o seqs[i]
      OBVIOUS
    <3> HIDE DEF H, K
    <3> QED
      BY <3>1, <3>2
  <2>2. H = K
    BY <2>1
  <2>3. H = [i \in 1 .. Len(seqs) |-> IF i = 1 THEN seqs[i] ELSE H[i - 1] \o seqs[i]]
    <3> HIDE DEF H
    <3> QED
      BY <2>2
  <2> HIDE DEF H
  <2> QED
    BY <2>3, Zenon
<1> HIDE DEF G
<1> DEFINE Bad == {i \in 1 .. n : G[i] # F[i]}
<1>3. ASSUME Bad # {} PROVE FALSE
  <2>1. Bad \in SUBSET Nat
    OBVIOUS
  <2>2. PICK i \in Bad : \A j \in Bad : i <= j
    BY <1>3, <2>1, SmallestOf
  <2>3. G[i] = IF i = 1 THEN seqs[i] ELSE G[i - 1] \o seqs[i]
    BY <1>2, <2>2
  <2>4. F[i] = IF i = 1 THEN seqs[i] ELSE F[i - 1] \o seqs[i]
    BY <2>2
  <2>5. i # 1 => i - 1 \in 1 .. n /\ i - 1 \notin Bad
    BY <2>2
  <2> QED
    BY <2>2, <2>3, <2>4, <2>5
<1> QED
  BY <1>1, <1>3

\* The pages there are: the last one begins within the n rows and reaches their
\* end.
LEMMA PagesReach ==
    ASSUME NEW n \in Nat, NEW t, t = (n + PageRows - 1) \div PageRows
    PROVE  /\ t \in Nat /\ n <= t * PageRows
           /\ n = 0 => t = 0
           /\ \A i \in 1 .. t : (i - 1) * PageRows < n /\ (i - 1) * PageRows \in Nat
<1>1. PageRows \in Nat \ {0}
  BY EventLogAssumption
<1>2. t \in Nat /\ t * PageRows <= n + PageRows - 1 /\ n + PageRows - 1 < t * PageRows + PageRows
  BY <1>1
<1>3. n <= t * PageRows
  <2>1. t * PageRows \in Nat
    BY <1>1, <1>2
  <2> QED
    BY <1>1, <1>2, <2>1
<1>4. n = 0 => t = 0
  BY <1>1, <1>2
<1>5. ASSUME NEW i \in 1 .. t
      PROVE  (i - 1) * PageRows < n /\ (i - 1) * PageRows \in Nat
  <2>1. i - 1 \in Nat /\ (i - 1) * PageRows \in Nat /\ i * PageRows = (i - 1) * PageRows + PageRows
    BY <1>1, <1>2, <1>5
  <2>2. i * PageRows <= t * PageRows
    BY <1>1, <1>2, <1>5
  <2> QED
    BY <1>1, <1>2, <2>1, <2>2
<1> QED
  BY <1>2, <1>3, <1>4, <1>5

\* Without a cursor the pages 1 to total_pages make up the list.
LEMMA PagesMakeTheList ==
    ASSUME rows \in LogRows, NEW kind
    PROVE  FlattenSeq([p \in 1 .. TotalPages(kind) |-> OffsetPage(kind, p)])
             = NewestFirst(Listed(kind))
<1> DEFINE found == NewestFirst(Listed(kind))
           n == Len(found)
           t == TotalPages(kind)
           end(i) == IF i * PageRows < n THEN i * PageRows ELSE n
           seqs == [p \in 1 .. t |-> OffsetPage(kind, p)]
           F == [i \in 1 .. t |-> SubSeq(found, 1, end(i))]
<1>1. /\ Listed(kind) \in SUBSET DOMAIN rows /\ IsFiniteSet(Listed(kind))
      /\ Cardinality(Listed(kind)) \in Nat
  BY ListedRows
<1>2. found \in Seq(Listed(kind)) /\ n = Cardinality(Listed(kind))
  BY <1>1, NewestFirstLists
<1>3. PageRows \in Nat \ {0}
  BY EventLogAssumption
<1>4. n \in Nat /\ t = (n + PageRows - 1) \div PageRows
  BY <1>1, <1>2 DEF TotalPages
<1>5. /\ t \in Nat /\ n <= t * PageRows
      /\ n = 0 => t = 0
      /\ \A i \in 1 .. t : (i - 1) * PageRows < n /\ (i - 1) * PageRows \in Nat
  BY <1>4, PagesReach
<1>6. ASSUME NEW i \in 1 .. t
      PROVE  /\ end(i) \in Nat /\ end(i) <= n /\ (i - 1) * PageRows < end(i)
             /\ OffsetPage(kind, i) = SubSeq(found, (i - 1) * PageRows + 1, end(i))
             /\ i - 1 \in 1 .. t => end(i - 1) = (i - 1) * PageRows
  <2>1. (i - 1) * PageRows < n /\ (i - 1) * PageRows \in Nat
    BY <1>5
  <2>2. i \in Nat /\ i * PageRows = (i - 1) * PageRows + PageRows
    BY <1>3, <1>5
  <2>3. OffsetPage(kind, i) =
          SubSeq(found, (i - 1) * PageRows + 1,
                 IF (i - 1) * PageRows + PageRows < n THEN (i - 1) * PageRows + PageRows ELSE n)
    BY Zenon DEF OffsetPage
  <2> DEFINE a == (i - 1) * PageRows
             b == i * PageRows
  <2>4. a \in Nat /\ a < n /\ b = a + PageRows
    BY <2>1, <2>2
  <2>5. OffsetPage(kind, i) = SubSeq(found, a + 1, IF b < n THEN b ELSE n)
    BY <2>2, <2>3
  <2>6. end(i) = (IF b < n THEN b ELSE n) /\ end(i - 1) = IF a < n THEN a ELSE n
    OBVIOUS
  <2> HIDE DEF a, b, n, end, found
  <2>7. end(i) \in Nat /\ end(i) <= n /\ a < end(i) /\ end(i - 1) = a
    BY <1>3, <1>4, <2>4, <2>6
  <2>8. OffsetPage(kind, i) = SubSeq(found, a + 1, end(i))
    BY <2>5, <2>6
  <2> QED
    BY <2>7, <2>8 DEF a
<1>7. seqs \in [1 .. t -> Seq(Listed(kind))]
  <2> SUFFICES ASSUME NEW p \in 1 .. t PROVE OffsetPage(kind, p) \in Seq(Listed(kind))
    OBVIOUS
  <2>1. \A i \in (p - 1) * PageRows + 1 .. end(p) : found[i] \in Listed(kind)
    <3> SUFFICES ASSUME NEW i \in (p - 1) * PageRows + 1 .. end(p) PROVE found[i] \in Listed(kind)
      OBVIOUS
    <3> HIDE DEF found, n, end
    <3>1. i \in 1 .. n
      BY <1>4, <1>5, <1>6
    <3> QED
      BY <1>2, <3>1, ElementOfSeq DEF n
  <2> HIDE DEF found, end, t, n
  <2>2. (p - 1) * PageRows + 1 \in Int /\ end(p) \in Int
    BY <1>5, <1>6
  <2>3. SubSeq(found, (p - 1) * PageRows + 1, end(p)) \in Seq(Listed(kind))
    BY <2>1, <2>2, SubSeqProperties
  <2> QED
    BY <1>6, <2>3
<1>8. Len(seqs) = t
  BY <1>5, <1>7, FunctionIsSeq
<1>9. CASE t = 0
  <2>1. n = 0
    BY <1>3, <1>4, <1>5, <1>9
  <2>2. found = <<>>
    BY <1>2, <2>1, EmptySeq
  <2>3. seqs \in Seq(Seq(Listed(kind))) /\ Len(seqs) = 0
    BY <1>5, <1>7, <1>8, <1>9, FunctionIsSeq
  <2>4. seqs = <<>>
    BY <2>3, EmptySeq
  <2>5. FlattenSeq(seqs) = seqs
    <3> HIDE DEF seqs
    <3> QED
      BY <2>3, Zenon DEF FlattenSeq
  <2> QED
    BY <2>2, <2>4, <2>5
<1>10. CASE t # 0
  <2>1. \A i \in 1 .. t : F[i] = IF i = 1 THEN seqs[i] ELSE F[i - 1] \o seqs[i]
    <3> SUFFICES ASSUME NEW i \in 1 .. t
                 PROVE  F[i] = IF i = 1 THEN seqs[i] ELSE F[i - 1] \o seqs[i]
      OBVIOUS
    <3>1. seqs[i] = SubSeq(found, (i - 1) * PageRows + 1, end(i)) /\ F[i] = SubSeq(found, 1, end(i))
      BY <1>6
    <3>2. CASE i = 1
      <4>1. (i - 1) * PageRows + 1 = 1
        BY <1>3, <3>2
      <4> QED
        BY <3>1, <3>2, <4>1
    <3>3. CASE i # 1
      <4>1. i - 1 \in 1 .. t
        BY <1>5, <3>3
      <4>2. F[i - 1] = SubSeq(found, 1, (i - 1) * PageRows)
        BY <1>6, <4>1
      <4> DEFINE a == (i - 1) * PageRows
                 b == end(i)
      <4>3. a \in Nat /\ b \in Nat /\ a < b /\ b <= n
        BY <1>5, <1>6
      <4> HIDE DEF a, b, found
      <4>4. SubSeq(found, 1, a) \o SubSeq(found, a + 1, b) = SubSeq(found, 1, b)
        <5>1. 1 \in 1 .. Len(found) + 1 /\ a \in 1 - 1 .. Len(found) /\ b \in a .. Len(found)
          BY <1>4, <4>3
        <5> QED
          BY <1>2, <5>1, ConcatAdjacentSubSeq
      <4> QED
        BY <3>1, <3>3, <4>2, <4>4 DEF a, b
    <3> QED
      BY <3>2, <3>3
  <2>3. F[t] = found
    <3>1. t \in 1 .. t /\ end(t) = n
      <4> DEFINE z == t * PageRows
      <4>1. end(t) = IF z < n THEN z ELSE n
        OBVIOUS
      <4>2. z \in Nat /\ n <= z /\ n \in Nat /\ t \in Nat /\ t # 0
        BY <1>3, <1>4, <1>5, <1>10
      <4> HIDE DEF z, n, t, end
      <4> QED
        BY <4>1, <4>2
    <3>2. F[t] = SubSeq(found, 1, n)
      BY <3>1
    <3> QED
      BY <1>2, <3>2, SubSeqFull
  <2>a. t \in Nat \ {0}
    BY <1>5, <1>10
  <2> HIDE DEF F, seqs, found, t
  <2>4. FlattenSeq(seqs) = F[t]
    BY <1>8, <2>a, <2>1, FlattenIs
  <2> QED
    BY <2>3, <2>4 DEF seqs, found, t
<1> QED
  BY <1>9, <1>10

LEMMA WalkCompletes == WalkInv => WalkIsComplete
<1> SUFFICES ASSUME WalkInv PROVE WalkIsComplete
  OBVIOUS
<1>0. rows \in LogRows
  BY DEF WalkInv
<1>1. ASSUME walk.active
      PROVE  \A i, j \in DOMAIN walk.got : i < j => Precedes(walk.got[i], walk.got[j])
  BY <1>1 DEF WalkInv, Backwards
<1>2. ASSUME walk.active, ~walk.more
      PROVE  {e \in Listed(walk.kind) : e <= walk.from} \subseteq ToSet(walk.got)
  BY <1>2 DEF WalkInv, Seen, ToSet
<1>3. \A k \in Kinds \cup {AnyKind} :
         FlattenSeq([p \in 1 .. TotalPages(k) |-> OffsetPage(k, p)]) = NewestFirst(Listed(k))
  BY <1>0, PagesMakeTheList
<1> QED
  BY <1>1, <1>2, <1>3 DEF WalkIsComplete
-----------------------------------------------------------------------------
(* The shared fetch.                                                       *)

Flights == [waiters : Nat, cancelled : BOOLEAN, result : {"none", "ok", "error", "cancelled"}]
ClientStates == [state : {"idle", "waiting", "leaving", "answered"}, flight : Nat,
                 answer : {"", "ok", "error", "cancelled"}]

\* The clients that take part in the fetch f.
Joined(f) == {c \in Clients : client[c].state \in {"waiting", "leaving"} /\ client[c].flight = f}

\* The fetch that can be joined is wanted by as many clients as are counted,
\* one at least; any other is over or cancelled, and nobody waits for a
\* cancelled one.
FetchInv ==
    /\ flights \in Seq(Flights)
    /\ inflight \in 0 .. Len(flights)
    /\ client \in [Clients -> ClientStates]
    /\ \A c \in Clients : client[c].state \in {"waiting", "leaving"} => client[c].flight \in DOMAIN flights
    /\ inflight # 0 =>
         /\ flights[inflight].result = "none" /\ ~flights[inflight].cancelled
         /\ flights[inflight].waiters > 0
         /\ IsFiniteSet(Joined(inflight))
         /\ Cardinality(Joined(inflight)) = flights[inflight].waiters
    /\ \A f \in DOMAIN flights : f # inflight => flights[f].result # "none" \/ flights[f].cancelled
    /\ \A f \in DOMAIN flights : flights[f].result = "cancelled" => flights[f].cancelled
    /\ \A c \in Clients : client[c].state = "waiting" => ~flights[client[c].flight].cancelled
    /\ \A c \in Clients : client[c].answer # "cancelled"

LEMMA FlightsAre ==
    ASSUME flights \in Seq(Flights)
    PROVE  /\ Len(flights) \in Nat /\ DOMAIN flights = 1 .. Len(flights)
           /\ \A f \in DOMAIN flights : flights[f] \in Flights
BY LenProperties, ElementOfSeq

LEMMA FetchInit == EventLogInit => FetchInv
<1> SUFFICES ASSUME EventLogInit PROVE FetchInv
  OBVIOUS
<1>1. flights \in Seq(Flights) /\ Len(flights) = 0 /\ inflight = 0
  BY EmptySeq DEF EventLogInit
<1>2. DOMAIN flights = {}
  BY <1>1, FlightsAre
<1>3. \A c \in Clients : client[c].state = "idle" /\ client[c].answer = ""
  BY DEF EventLogInit, Idle
<1>4. client \in [Clients -> ClientStates]
  BY DEF EventLogInit, Idle, ClientStates
<1>5. inflight \in 0 .. Len(flights)
  BY <1>1
<1> QED
  BY <1>1, <1>2, <1>3, <1>4, <1>5 DEF FetchInv

\* A client starts a fetch.
LEMMA BeginsAFetch ==
    ASSUME FetchInv, NEW c \in Clients, BeginFetch(c), ~Shared
    PROVE  FetchInv'
<1>n. PICK n : n = Len(flights) + 1
  OBVIOUS
<1> DEFINE fl == [waiters |-> 1, cancelled |-> FALSE, result |-> "none"]
<1>1. /\ Len(flights) \in Nat /\ DOMAIN flights = 1 .. Len(flights) /\ inflight = 0
      /\ \A f \in DOMAIN flights : flights[f] \in Flights
      /\ flights \in Seq(Flights) /\ client \in [Clients -> ClientStates]
  BY FlightsAre DEF FetchInv, Shared
<1>2. /\ client[c].state = "idle" /\ flights' = Append(flights, fl) /\ inflight' = n
      /\ client' = [client EXCEPT ![c] = [client[c] EXCEPT !.state = "waiting", !.flight = n]]
  BY <1>n DEF BeginFetch
<1>3. fl \in Flights
  BY DEF Flights
<1>4. /\ flights' \in Seq(Flights) /\ Len(flights') = n
      /\ \A f \in DOMAIN flights : flights'[f] = flights[f]
      /\ flights'[n] = fl
  BY <1>n, <1>1, <1>2, <1>3, AppendProperties
<1>5. DOMAIN flights' = 1 .. n /\ n \in Nat /\ n \in 1 .. n /\ n \notin DOMAIN flights
  BY <1>n, <1>1, <1>4, LenProperties
<1> HIDE DEF fl
<1>6. fl.waiters = 1 /\ ~fl.cancelled /\ fl.result = "none"
  BY DEF fl
<1>7. client[c] \in ClientStates
  BY <1>1
<1>8. /\ client'[c].state = "waiting" /\ client'[c].flight = n /\ client'[c].answer = client[c].answer
      /\ client'[c] \in ClientStates
  <2>1. client'[c] = [client[c] EXCEPT !.state = "waiting", !.flight = n]
    BY <1>1, <1>2
  <2> QED
    BY <1>5, <1>7, <2>1 DEF ClientStates
<1>9. \A d \in Clients : d # c => client'[d] = client[d]
  BY <1>1, <1>2
<1>10. client' \in [Clients -> ClientStates]
  BY <1>1, <1>2, <1>8
<1>11. Joined(n)' = {c}
  <2>1. \A d \in Clients : d # c /\ client[d].state \in {"waiting", "leaving"} => client[d].flight # n
    BY <1>5 DEF FetchInv
  <2> QED
    BY <1>8, <1>9, <2>1 DEF Joined
<1>12. IsFiniteSet(Joined(n)') /\ Cardinality(Joined(n)') = 1
  BY <1>11, FS_Singleton
<1>13. \A d \in Clients : client'[d].state \in {"waiting", "leaving"} => client'[d].flight \in DOMAIN flights'
  BY <1>n, <1>1, <1>5, <1>8, <1>9, <1>4 DEF FetchInv
<1>14. \A f \in DOMAIN flights' : f = n \/ (f \in DOMAIN flights /\ flights'[f] = flights[f])
  BY <1>n, <1>1, <1>4, <1>5
<1>15. \A f \in DOMAIN flights' : f # inflight' => flights'[f].result # "none" \/ flights'[f].cancelled
  <2>1. \A f \in DOMAIN flights : flights[f].result # "none" \/ flights[f].cancelled
    BY <1>1 DEF FetchInv
  <2> QED
    BY <1>2, <1>14, <2>1
<1>16. \A f \in DOMAIN flights' : flights'[f].result = "cancelled" => flights'[f].cancelled
  BY <1>4, <1>6, <1>14 DEF FetchInv
<1>17. \A d \in Clients : client'[d].state = "waiting" => ~flights'[client'[d].flight].cancelled
  <2>1. \A d \in Clients : d # c /\ client[d].state = "waiting" =>
            client[d].flight \in DOMAIN flights /\ ~flights[client[d].flight].cancelled
    BY DEF FetchInv
  <2> QED
    BY <1>4, <1>6, <1>8, <1>9, <2>1
<1>18. \A d \in Clients : client'[d].answer # "cancelled"
  BY <1>8, <1>9 DEF FetchInv
<1>19. inflight' \in 0 .. Len(flights')
  BY <1>2, <1>4, <1>5
<1>20. inflight' # 0 =>
         /\ flights'[inflight'].result = "none" /\ ~flights'[inflight'].cancelled
         /\ flights'[inflight'].waiters > 0
         /\ IsFiniteSet(Joined(inflight)')
         /\ Cardinality(Joined(inflight)') = flights'[inflight'].waiters
  <2>1. Joined(inflight)' = Joined(n)'
    BY <1>2 DEF Joined
  <2> QED
    BY <1>2, <1>4, <1>6, <1>12, <2>1
<1> QED
  BY <1>4, <1>10, <1>13, <1>15, <1>16, <1>17, <1>18, <1>19, <1>20 DEF FetchInv

\* A client joins the fetch that runs.
LEMMA JoinsAFetch ==
    ASSUME FetchInv, NEW c \in Clients, BeginFetch(c), Shared
    PROVE  FetchInv'
<1> DEFINE f == inflight
           fl == [flights[f] EXCEPT !.waiters = flights[f].waiters + 1]
<1>1. /\ Len(flights) \in Nat /\ DOMAIN flights = 1 .. Len(flights)
      /\ \A g \in DOMAIN flights : flights[g] \in Flights
      /\ flights \in Seq(Flights) /\ client \in [Clients -> ClientStates]
      /\ f \in DOMAIN flights /\ f # 0
  BY FlightsAre DEF FetchInv, Shared
<1>2. /\ client[c].state = "idle" /\ flights' = [flights EXCEPT ![f] = fl] /\ inflight' = f
      /\ client' = [client EXCEPT ![c] = [client[c] EXCEPT !.state = "waiting", !.flight = f]]
  BY DEF BeginFetch
<1>3. /\ fl \in Flights /\ fl.waiters = flights[f].waiters + 1
      /\ fl.cancelled = flights[f].cancelled /\ fl.result = flights[f].result
  <2>1. flights[f] \in Flights
    BY <1>1
  <2> QED
    BY <2>1 DEF Flights
<1> HIDE DEF fl
<1>4. /\ flights' \in Seq(Flights) /\ Len(flights') = Len(flights)
      /\ flights'[f] = fl
      /\ \A g \in DOMAIN flights : g # f => flights'[g] = flights[g]
  BY <1>1, <1>2, <1>3, ExceptSeq
<1>5. DOMAIN flights' = DOMAIN flights
  BY <1>1, <1>4, LenProperties
<1>6. /\ client'[c].state = "waiting" /\ client'[c].flight = f /\ client'[c].answer = client[c].answer
      /\ client'[c] \in ClientStates
  <2>1. client'[c] = [client[c] EXCEPT !.state = "waiting", !.flight = f]
    BY <1>1, <1>2
  <2>2. client[c] \in ClientStates /\ f \in Nat
    BY <1>1
  <2> HIDE DEF f
  <2> QED
    BY <2>1, <2>2 DEF ClientStates
<1>7. \A d \in Clients : d # c => client'[d] = client[d]
  BY <1>1, <1>2
<1>8. client' \in [Clients -> ClientStates]
  BY <1>1, <1>2, <1>6
<1>9. /\ flights[f].result = "none" /\ ~flights[f].cancelled /\ flights[f].waiters > 0
      /\ IsFiniteSet(Joined(f)) /\ Cardinality(Joined(f)) = flights[f].waiters
      /\ flights[f].waiters \in Nat
  BY <1>1 DEF FetchInv, Flights
<1>10. c \notin Joined(f)
  BY <1>2 DEF Joined
<1>11. Joined(f)' = Joined(f) \cup {c}
  BY <1>2, <1>6, <1>7 DEF Joined
<1>12. IsFiniteSet(Joined(f)') /\ Cardinality(Joined(f)') = flights[f].waiters + 1
  BY <1>9, <1>10, <1>11, FS_AddElement
<1>13. inflight' # 0 =>
         /\ flights'[inflight'].result = "none" /\ ~flights'[inflight'].cancelled
         /\ flights'[inflight'].waiters > 0
         /\ IsFiniteSet(Joined(inflight)')
         /\ Cardinality(Joined(inflight)') = flights'[inflight'].waiters
  <2>1. Joined(inflight)' = Joined(f)'
    BY <1>2 DEF Joined
  <2> QED
    BY <1>2, <1>3, <1>4, <1>9, <1>12, <2>1
<1>14. \A d \in Clients : client'[d].state \in {"waiting", "leaving"} => client'[d].flight \in DOMAIN flights'
  BY <1>1, <1>5, <1>6, <1>7 DEF FetchInv
<1>15. \A g \in DOMAIN flights' : g # inflight' => flights'[g].result # "none" \/ flights'[g].cancelled
  BY <1>2, <1>4, <1>5 DEF FetchInv
<1>16. \A g \in DOMAIN flights' : flights'[g].result = "cancelled" => flights'[g].cancelled
  BY <1>3, <1>4, <1>5, <1>9 DEF FetchInv
<1>17. \A d \in Clients : client'[d].state = "waiting" => ~flights'[client'[d].flight].cancelled
  <2>1. \A d \in Clients : d # c /\ client[d].state = "waiting" =>
            client[d].flight \in DOMAIN flights /\ ~flights[client[d].flight].cancelled
    BY DEF FetchInv
  <2> QED
    BY <1>3, <1>4, <1>6, <1>7, <1>9, <2>1
<1>18. \A d \in Clients : client'[d].answer # "cancelled"
  BY <1>6, <1>7 DEF FetchInv
<1>19. inflight' \in 0 .. Len(flights')
  BY <1>1, <1>2, <1>4
<1> QED
  BY <1>4, <1>8, <1>13, <1>14, <1>15, <1>16, <1>17, <1>18, <1>19 DEF FetchInv

\* A fetch ends.
LEMMA FetchEnds ==
    ASSUME FetchInv, NEW f \in DOMAIN flights, NEW r \in {"ok", "error", "cancelled"},
           FinishFetch(f, r)
    PROVE  FetchInv'
<1> DEFINE fl == [flights[f] EXCEPT !.result = r]
<1>1. /\ Len(flights) \in Nat /\ DOMAIN flights = 1 .. Len(flights)
      /\ \A g \in DOMAIN flights : flights[g] \in Flights
      /\ flights \in Seq(Flights)
  BY FlightsAre DEF FetchInv
<1>2. /\ flights' = [flights EXCEPT ![f] = fl] /\ client' = client
      /\ inflight' = IF inflight = f THEN 0 ELSE inflight
      /\ r = "cancelled" => flights[f].cancelled
  BY DEF FinishFetch
<1>3. /\ fl \in Flights /\ fl.waiters = flights[f].waiters
      /\ fl.cancelled = flights[f].cancelled /\ fl.result = r
  <2>1. flights[f] \in Flights
    BY <1>1
  <2> QED
    BY <2>1 DEF Flights
<1> HIDE DEF fl
<1>4. /\ flights' \in Seq(Flights) /\ Len(flights') = Len(flights)
      /\ flights'[f] = fl
      /\ \A g \in DOMAIN flights : g # f => flights'[g] = flights[g]
  BY <1>1, <1>2, <1>3, ExceptSeq
<1>5. DOMAIN flights' = DOMAIN flights
  BY <1>1, <1>4, LenProperties
<1>6. inflight' # 0 => inflight' = inflight /\ inflight # f /\ inflight \in DOMAIN flights
  BY <1>1, <1>2 DEF FetchInv
<1>7. inflight' # 0 =>
         /\ flights'[inflight'].result = "none" /\ ~flights'[inflight'].cancelled
         /\ flights'[inflight'].waiters > 0
         /\ IsFiniteSet(Joined(inflight)')
         /\ Cardinality(Joined(inflight)') = flights'[inflight'].waiters
  <2> SUFFICES ASSUME inflight' # 0
               PROVE  /\ flights'[inflight'].result = "none" /\ ~flights'[inflight'].cancelled
                      /\ flights'[inflight'].waiters > 0
                      /\ IsFiniteSet(Joined(inflight)')
                      /\ Cardinality(Joined(inflight)') = flights'[inflight'].waiters
    OBVIOUS
  <2>1. flights'[inflight'] = flights[inflight] /\ inflight # 0
    BY <1>4, <1>6
  <2>2. Joined(inflight)' = Joined(inflight)
    BY <1>2, <1>6 DEF Joined
  <2> QED
    BY <2>1, <2>2 DEF FetchInv
<1>8. \A d \in Clients : client'[d].state \in {"waiting", "leaving"} => client'[d].flight \in DOMAIN flights'
  BY <1>2, <1>5 DEF FetchInv
<1>9. \A g \in DOMAIN flights' : g # inflight' => flights'[g].result # "none" \/ flights'[g].cancelled
  <2>1. \A g \in DOMAIN flights : g # inflight => flights[g].result # "none" \/ flights[g].cancelled
    BY DEF FetchInv
  <2> QED
    BY <1>2, <1>3, <1>4, <1>5, <2>1
<1>10. \A g \in DOMAIN flights' : flights'[g].result = "cancelled" => flights'[g].cancelled
  BY <1>2, <1>3, <1>4, <1>5 DEF FetchInv
<1>11. \A g \in DOMAIN flights : flights'[g].cancelled = flights[g].cancelled
  BY <1>3, <1>4
<1>12. \A d \in Clients : client'[d].state = "waiting" => ~flights'[client'[d].flight].cancelled
  BY <1>2, <1>11 DEF FetchInv
<1>13. inflight' \in 0 .. Len(flights')
  BY <1>1, <1>2, <1>4 DEF FetchInv
<1>14. client' \in [Clients -> ClientStates] /\ \A d \in Clients : client'[d].answer # "cancelled"
  BY <1>2 DEF FetchInv
<1> QED
  BY <1>4, <1>7, <1>8, <1>9, <1>10, <1>12, <1>13, <1>14 DEF FetchInv

\* A client turns to the end of its fetch, or away from it.
LEMMA ClientLeaves ==
    ASSUME FetchInv, NEW c \in Clients, Leave(c)
    PROVE  FetchInv'
<1>1. /\ client[c].state = "waiting" /\ client' = [client EXCEPT ![c] = [client[c] EXCEPT !.state = "leaving"]]
      /\ flights' = flights /\ inflight' = inflight
  BY DEF Leave
<1>2. client \in [Clients -> ClientStates] /\ client[c] \in ClientStates
  BY DEF FetchInv
<1>3. /\ client'[c].state = "leaving" /\ client'[c].flight = client[c].flight
      /\ client'[c].answer = client[c].answer /\ client'[c] \in ClientStates
  <2>1. client'[c] = [client[c] EXCEPT !.state = "leaving"]
    BY <1>1, <1>2
  <2> QED
    BY <1>2, <2>1 DEF ClientStates
<1>4. \A d \in Clients : d # c => client'[d] = client[d]
  BY <1>1, <1>2
<1>5. client' \in [Clients -> ClientStates]
  BY <1>1, <1>2, <1>3
<1>6. Joined(inflight)' = Joined(inflight)
  BY <1>1, <1>3, <1>4 DEF Joined
<1>7. /\ \A d \in Clients : client'[d].state \in {"waiting", "leaving"} => client'[d].flight \in DOMAIN flights
      /\ \A d \in Clients : client'[d].state = "waiting" => ~flights[client'[d].flight].cancelled
      /\ \A d \in Clients : client'[d].answer # "cancelled"
  BY <1>1, <1>3, <1>4 DEF FetchInv
<1> QED
  BY <1>1, <1>5, <1>6, <1>7 DEF FetchInv

LEMMA ClientReceives ==
    ASSUME FetchInv, NEW c \in Clients, Receive(c)
    PROVE  FetchInv'
<1>0. PICK r : r = flights[client[c].flight].result
  OBVIOUS
<1>1. /\ client[c].state = "waiting"
      /\ client' = [client EXCEPT ![c] = [client[c] EXCEPT !.state = "answered", !.answer = r]]
      /\ flights' = flights /\ inflight' = inflight /\ r # "none"
  BY <1>0 DEF Receive
<1>2. client \in [Clients -> ClientStates] /\ client[c] \in ClientStates
  BY DEF FetchInv
<1>3. client[c].flight \in DOMAIN flights /\ ~flights[client[c].flight].cancelled
  BY <1>1 DEF FetchInv
<1>4. r \in {"ok", "error"}
  <2>1. flights[client[c].flight] \in Flights
    BY <1>3, FlightsAre DEF FetchInv
  <2>2. r # "cancelled"
    BY <1>0, <1>3 DEF FetchInv
  <2> QED
    BY <1>0, <1>1, <2>1, <2>2 DEF Flights
<1>5. /\ client'[c].state = "answered" /\ client'[c].answer = r /\ client'[c] \in ClientStates
  <2>1. client'[c] = [client[c] EXCEPT !.state = "answered", !.answer = r]
    BY <1>1, <1>2
  <2> QED
    BY <1>2, <1>4, <2>1 DEF ClientStates
<1>6. \A d \in Clients : d # c => client'[d] = client[d]
  BY <1>1, <1>2
<1>7. client' \in [Clients -> ClientStates]
  BY <1>1, <1>2, <1>5
<1>8. inflight # 0 => Joined(inflight)' = Joined(inflight)
  <2>1. ASSUME inflight # 0 PROVE client[c].flight # inflight
    BY <1>0, <1>1, <2>1 DEF FetchInv
  <2> QED
    BY <1>1, <1>5, <1>6, <2>1 DEF Joined
<1>9. /\ \A d \in Clients : client'[d].state \in {"waiting", "leaving"} => client'[d].flight \in DOMAIN flights
      /\ \A d \in Clients : client'[d].state = "waiting" => ~flights[client'[d].flight].cancelled
      /\ \A d \in Clients : client'[d].answer # "cancelled"
  BY <1>4, <1>5, <1>6 DEF FetchInv
<1> QED
  BY <1>1, <1>7, <1>8, <1>9 DEF FetchInv

\* The client that leaves is not counted any more; the last one cancels the
\* fetch, which then has nobody who waits for it.
LEMMA ClientIsReleased ==
    ASSUME FetchInv, NEW c \in Clients, ReleaseWaiter(c)
    PROVE  FetchInv'
<1>0. PICK f : f = client[c].flight
  OBVIOUS
<1>1. /\ Len(flights) \in Nat /\ DOMAIN flights = 1 .. Len(flights)
      /\ \A g \in DOMAIN flights : flights[g] \in Flights
      /\ flights \in Seq(Flights) /\ client \in [Clients -> ClientStates]
      /\ inflight \in 0 .. Len(flights)
  BY FlightsAre DEF FetchInv
<1>2. client[c].state = "leaving" /\ client' = [client EXCEPT ![c] = Idle]
  BY DEF ReleaseWaiter
<1>3. client'[c] = Idle /\ \A d \in Clients : d # c => client'[d] = client[d]
  BY <1>1, <1>2
<1>4. client' \in [Clients -> ClientStates]
  <2>1. Idle \in ClientStates
    BY DEF Idle, ClientStates
  <2> QED
    BY <1>1, <1>2, <2>1
<1>5. client'[c].state = "idle" /\ client'[c].answer = ""
  <2>1. Idle.state = "idle" /\ Idle.answer = ""
    BY DEF Idle
  <2> QED
    BY <1>3, <2>1
<1>6. /\ \A d \in Clients : client'[d].state \in {"waiting", "leaving"} => client'[d].flight \in DOMAIN flights
      /\ \A d \in Clients : client'[d].answer # "cancelled"
  BY <1>3, <1>5 DEF FetchInv
<1>7. f \in DOMAIN flights
  BY <1>0, <1>2 DEF FetchInv
<1>8. \A g : Joined(g)' = Joined(g) \ {c}
  BY <1>3, <1>5 DEF Joined
<1>9. CASE inflight # f
  <2>1. flights' = flights /\ inflight' = inflight
    BY <1>0, <1>9 DEF ReleaseWaiter
  <2>2. Joined(inflight)' = Joined(inflight)
    <3>1. c \notin Joined(inflight)
      BY <1>0, <1>9 DEF Joined
    <3>2. Joined(inflight)' = Joined(inflight) \ {c}
      BY <2>1, <1>3, <1>5 DEF Joined
    <3> QED
      BY <3>1, <3>2
  <2>3. \A d \in Clients : client'[d].state = "waiting" => ~flights[client'[d].flight].cancelled
    BY <1>3, <1>5 DEF FetchInv
  <2> QED
    BY <1>4, <1>6, <2>1, <2>2, <2>3 DEF FetchInv
<1>10. CASE inflight = f
  <2>0. f # 0
    BY <1>1, <1>7
  <2>1. /\ flights[f].waiters \in Nat /\ flights[f].waiters > 0
        /\ flights[f].result = "none" /\ ~flights[f].cancelled
        /\ IsFiniteSet(Joined(f)) /\ Cardinality(Joined(f)) = flights[f].waiters
        /\ flights[f] \in Flights
    BY <1>1, <1>7, <1>10, <2>0 DEF FetchInv, Flights
  <2>2. c \in Joined(f)
    BY <1>0, <1>2 DEF Joined
  <2>3. IsFiniteSet(Joined(f)') /\ Cardinality(Joined(f)') = flights[f].waiters - 1
    BY <1>8, <2>1, <2>2, FS_RemoveElement
  <2>4. CASE flights[f].waiters = 1
    <3> DEFINE fl == [flights[f] EXCEPT !.waiters = 0, !.cancelled = TRUE]
    <3>1. LastWaiter(f)
      BY <1>10, <2>4 DEF LastWaiter
    <3>2. /\ flights' = [flights EXCEPT ![f].waiters = @ - 1, ![f].cancelled = @ \/ LastWaiter(f)]
          /\ inflight' = 0
      BY <1>0, <1>10, <2>1, <3>1 DEF ReleaseWaiter
    <3>a. flights' = [flights EXCEPT ![f] = [flights[f] EXCEPT !.waiters = flights[f].waiters - 1,
                                                             !.cancelled = flights[f].cancelled \/ LastWaiter(f)]]
      BY <1>1, <1>7, <3>2
    <3>b. [flights[f] EXCEPT !.waiters = flights[f].waiters - 1,
                             !.cancelled = flights[f].cancelled \/ LastWaiter(f)] = fl
      <4>1. (flights[f].cancelled \/ LastWaiter(f)) = TRUE
        BY <2>1, <3>1 DEF Flights
      <4>2. flights[f].waiters - 1 = 0
        BY <2>4
      <4> QED
        BY <4>1, <4>2
    <3>3. flights' = [flights EXCEPT ![f] = fl]
      BY <3>a, <3>b
    <3>4. fl \in Flights /\ fl.result = "none" /\ fl.cancelled
      BY <2>1 DEF Flights
    <3> HIDE DEF fl
    <3>5. /\ flights' \in Seq(Flights) /\ Len(flights') = Len(flights) /\ flights'[f] = fl
          /\ \A g \in DOMAIN flights : g # f => flights'[g] = flights[g]
      BY <1>1, <1>7, <3>3, <3>4, ExceptSeq
    <3>6. DOMAIN flights' = DOMAIN flights
      BY <1>1, <3>5, LenProperties
    <3>7. Joined(f)' = {}
      BY <2>3, <2>4, FS_EmptySet
    <3>8. \A d \in Clients : client'[d].state = "waiting" => ~flights'[client'[d].flight].cancelled
      <4> SUFFICES ASSUME NEW d \in Clients, client'[d].state = "waiting"
                   PROVE  ~flights'[client'[d].flight].cancelled
        OBVIOUS
      <4>1. d # c /\ client'[d] = client[d] /\ client[d].state = "waiting"
        BY <1>3, <1>5
      <4>2. client[d].flight # f
        BY <3>7, <4>1 DEF Joined
      <4>3. client[d].flight \in DOMAIN flights /\ ~flights[client[d].flight].cancelled
        BY <4>1 DEF FetchInv
      <4> QED
        BY <3>5, <4>1, <4>2, <4>3
    <3>9. \A g \in DOMAIN flights' : g # inflight' => flights'[g].result # "none" \/ flights'[g].cancelled
      BY <1>10, <3>4, <3>5, <3>6 DEF FetchInv
    <3>10. \A g \in DOMAIN flights' : flights'[g].result = "cancelled" => flights'[g].cancelled
      BY <3>4, <3>5, <3>6 DEF FetchInv
    <3>11. inflight' \in 0 .. Len(flights')
      BY <1>1, <3>2, <3>5
    <3> QED
      BY <1>4, <1>6, <3>2, <3>5, <3>6, <3>8, <3>9, <3>10, <3>11 DEF FetchInv
  <2>5. CASE flights[f].waiters # 1
    <3> DEFINE fl == [flights[f] EXCEPT !.waiters = flights[f].waiters - 1]
    <3>1. ~LastWaiter(f)
      BY <2>5 DEF LastWaiter
    <3>2. /\ flights' = [flights EXCEPT ![f].waiters = @ - 1, ![f].cancelled = @ \/ LastWaiter(f)]
          /\ inflight' = inflight
      BY <1>0, <1>10, <2>1, <3>1 DEF ReleaseWaiter
    <3>3. flights' = [flights EXCEPT ![f] = [flights[f] EXCEPT !.waiters = flights[f].waiters - 1,
                                                             !.cancelled = flights[f].cancelled \/ LastWaiter(f)]]
      BY <1>1, <1>7, <3>2
    <3>4. [flights[f] EXCEPT !.waiters = flights[f].waiters - 1,
                             !.cancelled = flights[f].cancelled \/ LastWaiter(f)] = fl
      <4>1. (flights[f].cancelled \/ LastWaiter(f)) = flights[f].cancelled
        BY <2>1, <3>1 DEF Flights
      <4> QED
        BY <2>1, <4>1 DEF Flights
    <3>5. /\ fl \in Flights /\ fl.result = "none" /\ ~fl.cancelled
          /\ fl.waiters = flights[f].waiters - 1 /\ fl.waiters > 0
      BY <2>1, <2>5 DEF Flights
    <3> HIDE DEF fl
    <3>6. flights' = [flights EXCEPT ![f] = fl]
      BY <3>3, <3>4
    <3>7. /\ flights' \in Seq(Flights) /\ Len(flights') = Len(flights) /\ flights'[f] = fl
          /\ \A g \in DOMAIN flights : g # f => flights'[g] = flights[g]
      BY <1>1, <1>7, <3>5, <3>6, ExceptSeq
    <3>8. DOMAIN flights' = DOMAIN flights
      BY <1>1, <3>7, LenProperties
    <3>9. inflight' # 0 =>
             /\ flights'[inflight'].result = "none" /\ ~flights'[inflight'].cancelled
             /\ flights'[inflight'].waiters > 0
             /\ IsFiniteSet(Joined(inflight)')
             /\ Cardinality(Joined(inflight)') = flights'[inflight'].waiters
      <4>1. Joined(inflight)' = Joined(f)'
        BY <1>10, <3>2 DEF Joined
      <4> QED
        BY <1>10, <2>3, <3>2, <3>5, <3>7, <4>1
    <3>10. \A d \in Clients : client'[d].state = "waiting" => ~flights'[client'[d].flight].cancelled
      <4>1. \A d \in Clients : client'[d].state = "waiting" =>
               /\ client'[d] = client[d] /\ client[d].flight \in DOMAIN flights
               /\ ~flights[client[d].flight].cancelled
        BY <1>3, <1>5 DEF FetchInv
      <4> QED
        BY <3>5, <3>7, <4>1
    <3>11. \A g \in DOMAIN flights' : g # inflight' => flights'[g].result # "none" \/ flights'[g].cancelled
      BY <1>10, <3>2, <3>7, <3>8 DEF FetchInv
    <3>12. \A g \in DOMAIN flights' : flights'[g].result = "cancelled" => flights'[g].cancelled
      BY <3>5, <3>7, <3>8 DEF FetchInv
    <3>13. inflight' \in 0 .. Len(flights')
      BY <1>1, <3>2, <3>7
    <3> QED
      BY <1>4, <1>6, <3>7, <3>8, <3>9, <3>10, <3>11, <3>12, <3>13 DEF FetchInv
  <2> QED
    BY <2>4, <2>5
<1> QED
  BY <1>9, <1>10

LEMMA FetchSteps ==
    ASSUME FetchInv, FetchStep \/ UNCHANGED fetchVars
    PROVE  FetchInv'
<1>1. CASE UNCHANGED fetchVars
  BY <1>1 DEF FetchInv, fetchVars, Joined
<1>2. ASSUME NEW c \in Clients, BeginFetch(c) \/ Receive(c) \/ Leave(c) \/ ReleaseWaiter(c)
      PROVE  FetchInv'
  BY <1>2, BeginsAFetch, JoinsAFetch, ClientReceives, ClientLeaves, ClientIsReleased
<1>3. ASSUME NEW f \in DOMAIN flights, NEW r \in {"ok", "error", "cancelled"}, FinishFetch(f, r)
      PROVE  FetchInv'
  BY <1>3, FetchEnds
<1> QED
  BY <1>1, <1>2, <1>3 DEF FetchStep

LEMMA FetchServes == FetchInv => FetchIsShared
<1> SUFFICES ASSUME FetchInv PROVE FetchIsShared
  OBVIOUS
<1> DEFINE wanted == {f \in DOMAIN flights : flights[f].result = "none" /\ ~flights[f].cancelled}
<1>1. wanted \subseteq {inflight}
  BY DEF FetchInv
<1>2. Cardinality(wanted) <= 1
  <2>1. wanted \in SUBSET {inflight}
    BY <1>1
  <2> HIDE DEF wanted
  <2>2. IsFiniteSet({inflight}) /\ Cardinality({inflight}) = 1
    BY FS_Singleton
  <2> QED
    BY <2>1, <2>2, FS_Subset
<1>3. ASSUME NEW f \in wanted
      PROVE  \E c \in Clients : client[c].state \in {"waiting", "leaving"} /\ client[c].flight = f
  <2>1. f = inflight /\ f # 0
    BY <1>1, FlightsAre DEF FetchInv
  <2>2. flights[f].waiters > 0 /\ IsFiniteSet(Joined(f)) /\ Cardinality(Joined(f)) = flights[f].waiters
    BY <2>1 DEF FetchInv
  <2>3. Joined(f) # {}
    BY <2>2, FS_EmptySet
  <2> QED
    BY <2>3 DEF Joined
<1>4. \A c \in Clients : client[c].answer # "cancelled"
  BY DEF FetchInv
<1> QED
  BY <1>2, <1>3, <1>4 DEF FetchIsShared
-----------------------------------------------------------------------------
(* The download tokens.                                                    *)

Downloads == [token : Nat, event : EventIds, at : Nat]

\* A stored token is what was issued; a token that has opened a download is
\* not stored any more, and opened it for its event and in its time.
TokenInv ==
    /\ now \in Nat
    /\ issued \in Seq([event : EventIds, at : Nat])
    /\ DOMAIN tokens \subseteq DOMAIN issued
    /\ tokens \in [DOMAIN tokens -> [event : EventIds, expiresAt : Nat]]
    /\ \A k \in DOMAIN tokens :
         tokens[k].event = issued[k].event /\ tokens[k].expiresAt = issued[k].at + TokenTTL
    /\ downloads \in Seq(Downloads)
    /\ \A i \in DOMAIN downloads :
         /\ downloads[i].token \in DOMAIN issued \ DOMAIN tokens
         /\ issued[downloads[i].token].event = downloads[i].event
         /\ downloads[i].at < issued[downloads[i].token].at + TokenTTL
         /\ \A j \in DOMAIN downloads : downloads[j].token = downloads[i].token => j = i

LEMMA TokenInit == EventLogInit => TokenInv
<1> SUFFICES ASSUME EventLogInit PROVE TokenInv
  OBVIOUS
<1>1. tokens = <<>> /\ issued = <<>> /\ downloads = <<>> /\ now = 0
  BY DEF EventLogInit
<1>2. DOMAIN tokens = {} /\ DOMAIN issued = {} /\ DOMAIN downloads = {}
  BY <1>1
<1>3. issued \in Seq([event : EventIds, at : Nat]) /\ downloads \in Seq(Downloads)
  BY <1>1, EmptySeq
<1>4. tokens \in [DOMAIN tokens -> [event : EventIds, expiresAt : Nat]]
  BY <1>1
<1> QED
  BY <1>1, <1>2, <1>3, <1>4 DEF TokenInv

\* A new token is one that has opened nothing.
LEMMA TokenIsIssued ==
    ASSUME TokenInv, NEW e \in EventIds, IssueToken(e)
    PROVE  TokenInv'
<1>0. PICK k, expired : k = Len(issued) + 1 /\ expired = {j \in DOMAIN tokens : Expired(j)}
  OBVIOUS
<1> DEFINE new == [event |-> e, at |-> now]
           good == [event |-> e, expiresAt |-> now + TokenTTL]
           kept == [j \in DOMAIN tokens \ expired |-> tokens[j]]
<1>1. /\ issued' = Append(issued, new) /\ now' = now /\ downloads' = downloads
      /\ tokens' = [j \in DOMAIN kept \cup {k} |-> IF j = k THEN good ELSE kept[j]]
  BY <1>0 DEF IssueToken, Without
<1>2. /\ Len(issued) \in Nat /\ DOMAIN issued = 1 .. Len(issued) /\ now \in Nat
      /\ issued \in Seq([event : EventIds, at : Nat]) /\ TokenTTL \in Nat
  BY LenProperties, EventLogAssumption DEF TokenInv
<1>3. /\ issued' \in Seq([event : EventIds, at : Nat]) /\ Len(issued') = k /\ issued'[k] = new
      /\ \A j \in DOMAIN issued : issued'[j] = issued[j]
  <2>1. new \in [event : EventIds, at : Nat]
    BY <1>2
  <2> HIDE DEF new
  <2> QED
    BY <1>0, <1>1, <1>2, <2>1, AppendProperties
<1>4. DOMAIN issued' = 1 .. k /\ k \notin DOMAIN issued /\ k \in DOMAIN issued' /\ DOMAIN issued \subseteq DOMAIN issued'
  <2>1. DOMAIN issued' = 1 .. k
    BY <1>3, LenProperties
  <2> QED
    BY <1>0, <1>2, <2>1
<1>5. DOMAIN kept = DOMAIN tokens \ expired /\ \A j \in DOMAIN kept : kept[j] = tokens[j]
  OBVIOUS
<1>6. good \in [event : EventIds, expiresAt : Nat] /\ good.event = e /\ good.expiresAt = now + TokenTTL
  BY <1>2
<1>7. new.event = e /\ new.at = now
  OBVIOUS
<1> HIDE DEF kept, good, new
<1>8. /\ DOMAIN tokens' = DOMAIN kept \cup {k} /\ tokens'[k] = good
      /\ \A j \in DOMAIN kept : j # k => tokens'[j] = kept[j]
  BY <1>1
<1>9. k \notin DOMAIN tokens /\ DOMAIN tokens \subseteq DOMAIN issued
  BY <1>4 DEF TokenInv
<1>10. \A j \in DOMAIN tokens' : j = k \/ (j \in DOMAIN tokens /\ j # k /\ tokens'[j] = tokens[j])
  BY <1>5, <1>8, <1>9
<1>11. tokens' \in [DOMAIN tokens' -> [event : EventIds, expiresAt : Nat]]
  <2>1. \A j \in DOMAIN tokens' : tokens'[j] \in [event : EventIds, expiresAt : Nat]
    BY <1>6, <1>8, <1>10 DEF TokenInv
  <2>2. tokens' = [j \in DOMAIN tokens' |-> tokens'[j]]
    BY <1>1
  <2> QED
    BY <2>1, <2>2
<1>12. \A j \in DOMAIN tokens' :
         /\ j \in DOMAIN issued'
         /\ tokens'[j].event = issued'[j].event /\ tokens'[j].expiresAt = issued'[j].at + TokenTTL
  <2> SUFFICES ASSUME NEW j \in DOMAIN tokens'
               PROVE  /\ j \in DOMAIN issued'
                      /\ tokens'[j].event = issued'[j].event
                      /\ tokens'[j].expiresAt = issued'[j].at + TokenTTL
    OBVIOUS
  <2>1. CASE j = k
    BY <1>3, <1>4, <1>6, <1>7, <1>8, <2>1
  <2>2. CASE j \in DOMAIN tokens /\ j # k /\ tokens'[j] = tokens[j]
    BY <1>3, <1>4, <1>9, <2>2 DEF TokenInv
  <2> QED
    BY <1>10, <2>1, <2>2
<1>13. \A i \in DOMAIN downloads :
         /\ downloads[i].token \in DOMAIN issued' \ DOMAIN tokens'
         /\ issued'[downloads[i].token].event = downloads[i].event
         /\ downloads[i].at < issued'[downloads[i].token].at + TokenTTL
         /\ \A j \in DOMAIN downloads : downloads[j].token = downloads[i].token => j = i
  <2> SUFFICES ASSUME NEW i \in DOMAIN downloads
               PROVE  /\ downloads[i].token \in DOMAIN issued' \ DOMAIN tokens'
                      /\ issued'[downloads[i].token].event = downloads[i].event
                      /\ downloads[i].at < issued'[downloads[i].token].at + TokenTTL
                      /\ \A j \in DOMAIN downloads : downloads[j].token = downloads[i].token => j = i
    OBVIOUS
  <2>1. /\ downloads[i].token \in DOMAIN issued \ DOMAIN tokens
        /\ issued[downloads[i].token].event = downloads[i].event
        /\ downloads[i].at < issued[downloads[i].token].at + TokenTTL
        /\ \A j \in DOMAIN downloads : downloads[j].token = downloads[i].token => j = i
    BY DEF TokenInv
  <2>2. downloads[i].token # k /\ downloads[i].token \notin DOMAIN tokens'
    BY <1>4, <1>10, <2>1
  <2> QED
    BY <1>3, <1>4, <2>1, <2>2
<1> QED
  BY <1>1, <1>2, <1>3, <1>11, <1>12, <1>13 DEF TokenInv

\* Whether or not it opens the download, the token is gone.
LEMMA TokenIsConsumed ==
    ASSUME TokenInv, NEW e \in EventIds, NEW k \in DOMAIN tokens, ConsumeToken(k, e)
    PROVE  TokenInv'
<1> DEFINE new == [token |-> k, event |-> e, at |-> now]
           opens == ~Expired(k) /\ tokens[k].event = e
<1>1. /\ downloads' = IF opens THEN Append(downloads, new) ELSE downloads
      /\ tokens' = [j \in DOMAIN tokens \ {k} |-> tokens[j]]
      /\ now' = now /\ issued' = issued
  BY DEF ConsumeToken, Without
<1>2. /\ Len(issued) \in Nat /\ DOMAIN issued = 1 .. Len(issued) /\ now \in Nat
      /\ downloads \in Seq(Downloads) /\ Len(downloads) \in Nat
      /\ DOMAIN downloads = 1 .. Len(downloads) /\ k \in DOMAIN issued /\ TokenTTL \in Nat
      /\ tokens \in [DOMAIN tokens -> [event : EventIds, expiresAt : Nat]]
  BY LenProperties, EventLogAssumption DEF TokenInv
<1>3. DOMAIN tokens' = DOMAIN tokens \ {k} /\ \A j \in DOMAIN tokens' : tokens'[j] = tokens[j]
  BY <1>1
<1>4. tokens' \in [DOMAIN tokens' -> [event : EventIds, expiresAt : Nat]]
  <2>1. tokens' = [j \in DOMAIN tokens' |-> tokens'[j]]
    BY <1>1
  <2>2. \A j \in DOMAIN tokens' : tokens'[j] \in [event : EventIds, expiresAt : Nat]
    BY <1>2, <1>3
  <2> QED
    BY <2>1, <2>2
<1>5. \A i \in DOMAIN downloads : downloads[i].token # k
  BY DEF TokenInv
<1>6. CASE ~opens
  <2>1. downloads' = downloads
    BY <1>1, <1>6
  <2> QED
    BY <1>1, <1>2, <1>3, <1>4, <2>1 DEF TokenInv
<1>7. CASE opens
  <2>1. new \in Downloads /\ new.token = k /\ new.event = e /\ new.at = now
    BY <1>2 DEF Downloads
  <2>2. issued[k].event = e /\ now < issued[k].at + TokenTTL
    <3>1. tokens[k].event = issued[k].event /\ tokens[k].expiresAt = issued[k].at + TokenTTL
      BY DEF TokenInv
    <3>2. tokens[k].expiresAt \in Nat
      BY <1>2
    <3>3. now < tokens[k].expiresAt
      BY <1>2, <1>7, <3>2 DEF Expired
    <3> QED
      BY <1>7, <3>1, <3>3
  <2>3. downloads' = Append(downloads, new)
    BY <1>1, <1>7
  <2> DEFINE n == Len(downloads) + 1
  <2> HIDE DEF new
  <2>4. /\ downloads' \in Seq(Downloads) /\ Len(downloads') = n /\ downloads'[n] = new
        /\ \A i \in DOMAIN downloads : downloads'[i] = downloads[i]
    BY <1>2, <2>1, <2>3, AppendProperties
  <2>5. DOMAIN downloads' = 1 .. n
    BY <2>4, LenProperties
  <2>6. \A i \in DOMAIN downloads' : i = n \/ i \in DOMAIN downloads
    BY <1>2, <2>5
  <2>7. n \in DOMAIN downloads' /\ n \notin DOMAIN downloads
    BY <1>2, <2>5
  <2> HIDE DEF n
  <2>8. \A i \in DOMAIN downloads' :
          /\ downloads'[i].token \in DOMAIN issued \ DOMAIN tokens'
          /\ issued[downloads'[i].token].event = downloads'[i].event
          /\ downloads'[i].at < issued[downloads'[i].token].at + TokenTTL
          /\ \A j \in DOMAIN downloads' : downloads'[j].token = downloads'[i].token => j = i
    <3> SUFFICES ASSUME NEW i \in DOMAIN downloads'
                 PROVE  /\ downloads'[i].token \in DOMAIN issued \ DOMAIN tokens'
                        /\ issued[downloads'[i].token].event = downloads'[i].event
                        /\ downloads'[i].at < issued[downloads'[i].token].at + TokenTTL
                        /\ \A j \in DOMAIN downloads' : downloads'[j].token = downloads'[i].token => j = i
      OBVIOUS
    <3>1. CASE i = n
      BY <1>2, <1>3, <1>5, <2>1, <2>2, <2>4, <2>6, <3>1
    <3>2. CASE i \in DOMAIN downloads
      <4>1. /\ downloads'[i] = downloads[i] /\ downloads[i].token # k
            /\ downloads[i].token \in DOMAIN issued \ DOMAIN tokens
            /\ issued[downloads[i].token].event = downloads[i].event
            /\ downloads[i].at < issued[downloads[i].token].at + TokenTTL
            /\ \A j \in DOMAIN downloads : downloads[j].token = downloads[i].token => j = i
        BY <1>5, <2>4, <3>2 DEF TokenInv
      <4> QED
        BY <1>3, <2>1, <2>4, <2>6, <4>1
    <3> QED
      BY <2>6, <3>1, <3>2
  <2> QED
    BY <1>1, <1>2, <1>3, <1>4, <2>4, <2>8 DEF TokenInv
<1> QED
  BY <1>6, <1>7

LEMMA TokenSteps ==
    ASSUME TokenInv, TokenStep \/ UNCHANGED tokenVars
    PROVE  TokenInv'
<1>1. CASE UNCHANGED tokenVars
  BY <1>1 DEF TokenInv, tokenVars
<1>2. CASE TickTokens
  <2>1. now' \in Nat /\ UNCHANGED <<tokens, issued, downloads>>
    BY <1>2 DEF TickTokens, TokenInv
  <2> QED
    BY <2>1 DEF TokenInv
<1> QED
  BY <1>1, <1>2, TokenIsIssued, TokenIsConsumed DEF TokenStep

LEMMA TokensServe == TokenInv => TokensOpenOnce
BY DEF TokenInv, TokensOpenOnce

-----------------------------------------------------------------------------
(* Walks, fetches and tokens together.                                     *)

eventLogVars == <<listVars, fetchVars, tokenVars>>
EventLogSpec == EventLogInit /\ [][ListStep \/ FetchStep \/ TokenStep]_eventLogVars

LEMMA EventLogSteps ==
    WalkInv /\ FetchInv /\ TokenInv /\ [ListStep \/ FetchStep \/ TokenStep]_eventLogVars
      => (WalkInv /\ FetchInv /\ TokenInv)'
<1> SUFFICES ASSUME WalkInv, FetchInv, TokenInv,
                    [ListStep \/ FetchStep \/ TokenStep]_eventLogVars
             PROVE  WalkInv' /\ FetchInv' /\ TokenInv'
  OBVIOUS
<1>1. CASE ListStep
  <2>1. UNCHANGED fetchVars /\ UNCHANGED tokenVars
    BY <1>1 DEF ListStep, StoreRow, ArchiveRow, BeginWalk, NextPage, EndWalk
  <2> QED
    BY <1>1, <2>1, WalkSteps, FetchSteps, TokenSteps
<1>2. CASE FetchStep
  <2>1. UNCHANGED listVars /\ UNCHANGED tokenVars
    BY <1>2 DEF FetchStep, BeginFetch, Receive, Leave, ReleaseWaiter, FinishFetch
  <2> QED
    BY <1>2, <2>1, WalkSteps, FetchSteps, TokenSteps
<1>3. CASE TokenStep
  <2>1. UNCHANGED listVars /\ UNCHANGED fetchVars
    BY <1>3 DEF TokenStep, IssueToken, ConsumeToken, TickTokens
  <2> QED
    BY <1>3, <2>1, WalkSteps, FetchSteps, TokenSteps
<1>4. CASE UNCHANGED eventLogVars
  <2>1. UNCHANGED listVars /\ UNCHANGED fetchVars /\ UNCHANGED tokenVars
    BY <1>4 DEF eventLogVars
  <2> QED
    BY <2>1, WalkSteps, FetchSteps, TokenSteps
<1> QED
  BY <1>1, <1>2, <1>3, <1>4

\* Whatever is stored and archived meanwhile, a walk through the request list
\* shows each row once, newest first, and at its end every row that was there
\* when it began and still is; a client that stays gets the log of the shared
\* fetch, whoever else leaves; and a download link opens once, for its event and
\* in its time.
THEOREM LogServesEveryone == EventLogSpec => []EventLogServes
<1>1. EventLogInit => WalkInv /\ FetchInv /\ TokenInv
  BY WalkInit, FetchInit, TokenInit
<1>2. WalkInv /\ FetchInv /\ TokenInv => EventLogServes
  BY WalkCompletes, FetchServes, TokensServe DEF EventLogServes, LogsServedOnce
<1> QED
  BY <1>1, <1>2, EventLogSteps, PTL DEF EventLogSpec
-----------------------------------------------------------------------------
(* The overview: how a plan covers the range that was asked for.           *)

\* Hour rows hold absolute hours.  In a zone whose hours are not the absolute
\* ones a day does not begin on a row, and what follows fails.
WholeHours == Zone % HourSpan = 0

Windows == [start : Int, end : Int, includeEnd : BOOLEAN, current : BOOLEAN]
Rollups == [grain : {"hour", "day"}, start : Int, end : Int]
Spans == [start : Int, end : Int]

Multiple(t, n) == \E k \in Int : t = k * n
OnHour(t) == Multiple(t, HourSpan)
OnDay(t) == Multiple(t + Zone, DaySpan)

LEMMA Products ==
    ASSUME NEW a \in Int, NEW b \in Int, NEW n \in Nat, a <= b
    PROVE  a * n <= b * n
OBVIOUS

LEMMA Lengths ==
    /\ HourSpan \in Nat \ {0, 1} /\ DayHours \in Nat \ {0} /\ Zone \in Nat
    /\ DaySpan \in Nat /\ DaySpan >= HourSpan /\ DaySpan = DayHours * HourSpan
<1>1. HourSpan \in Nat \ {0, 1} /\ DayHours \in Nat \ {0} /\ Zone \in Nat
  BY OverviewReadsAssumption
<1>2. 1 * HourSpan <= DayHours * HourSpan
  BY <1>1, Products
<1> QED
  BY <1>1, <1>2 DEF DaySpan

LEMMA IsMultiple ==
    ASSUME NEW t, NEW n, NEW k \in Int, t = k * n
    PROVE  Multiple(t, n)
BY DEF Multiple

\* The last multiple that is not behind t.
Floor(t, n) == t - (t % n)

LEMMA Division ==
    ASSUME NEW t \in Int, NEW n \in Nat \ {0}
    PROVE  /\ t % n \in Nat /\ Floor(t, n) \in Int
           /\ Floor(t, n) <= t /\ t < Floor(t, n) + n
           /\ Multiple(Floor(t, n), n)
<1>1. t % n \in 0 .. (n - 1)
  OBVIOUS
<1>2. t = n * (t \div n) + (t % n) /\ t \div n \in Int
  OBVIOUS
<1>3. Floor(t, n) = (t \div n) * n
  BY <1>1, <1>2 DEF Floor
<1>4. Multiple(Floor(t, n), n)
  BY <1>2, <1>3, IsMultiple
<1>5. t % n \in Nat /\ Floor(t, n) \in Int /\ Floor(t, n) <= t /\ t < Floor(t, n) + n
  BY <1>1 DEF Floor
<1> QED
  BY <1>4, <1>5

LEMMA NoRest ==
    ASSUME NEW t \in Nat, NEW n \in Nat \ {0}, t % n = 0
    PROVE  Multiple(t, n)
<1>1. Floor(t, n) = t
  BY DEF Floor
<1> QED
  BY <1>1, Division

\* Two multiples are equal or a whole step apart.
LEMMA Apart2 ==
    ASSUME NEW n \in Nat \ {0}, NEW a \in Int, NEW b \in Int, Multiple(a, n), Multiple(b, n), a < b
    PROVE  a + n <= b
<1>1. PICK i \in Int : a = i * n
  BY DEF Multiple
<1>2. PICK j \in Int : b = j * n
  BY DEF Multiple
<1>3. i + 1 <= j
  <2>1. ASSUME j <= i PROVE FALSE
    BY <1>1, <1>2, <2>1, Products
  <2> QED
    BY <2>1
<1>4. (i + 1) * n <= j * n
  BY <1>3, Products
<1>5. (i + 1) * n = i * n + n
  OBVIOUS
<1> QED
  BY <1>1, <1>2, <1>4, <1>5

LEMMA Sums ==
    ASSUME NEW n \in Nat \ {0}, NEW a \in Int, NEW b \in Int, Multiple(a, n), Multiple(b, n)
    PROVE  Multiple(a + b, n) /\ Multiple(a - b, n)
<1>1. PICK i \in Int : a = i * n
  BY DEF Multiple
<1>2. PICK j \in Int : b = j * n
  BY DEF Multiple
<1>3. (i + j) * n = i * n + j * n /\ (i - j) * n = i * n - j * n
  OBVIOUS
<1>4. a + b = (i + j) * n /\ a - b = (i - j) * n /\ i + j \in Int /\ i - j \in Int
  BY <1>1, <1>2, <1>3
<1> QED
  BY <1>4, IsMultiple

LEMMA Hours ==
    ASSUME NEW t \in Int
    PROVE  /\ Truncated(t) \in Int /\ OnHour(Truncated(t))
           /\ Truncated(t) <= t /\ t < Truncated(t) + HourSpan
           /\ \A b \in Int : OnHour(b) => (b <= Truncated(t) <=> b <= t)
<1>0. Truncated(t) = Floor(t, HourSpan)
  BY DEF Truncated, Floor
<1>1. /\ Truncated(t) \in Int /\ OnHour(Truncated(t))
      /\ Truncated(t) <= t /\ t < Truncated(t) + HourSpan
  BY <1>0, Lengths, Division DEF OnHour
<1>2. ASSUME NEW b \in Int, OnHour(b), b <= t, Truncated(t) < b PROVE FALSE
  BY <1>1, <1>2, Lengths, Apart2 DEF OnHour
<1> QED
  BY <1>1, <1>2

LEMMA Days ==
    ASSUME NEW t \in Int
    PROVE  /\ DayStart(t) \in Int /\ OnDay(DayStart(t))
           /\ DayStart(t) <= t /\ t < DayStart(t) + DaySpan
           /\ \A b \in Int : OnDay(b) => (b <= DayStart(t) <=> b <= t)
<1>0. DaySpan \in Nat \ {0} /\ Zone \in Nat
  BY Lengths
<1> DEFINE u == t + Zone
<1>1. /\ u \in Int /\ u % DaySpan \in Nat /\ Floor(u, DaySpan) \in Int
      /\ Floor(u, DaySpan) <= u /\ u < Floor(u, DaySpan) + DaySpan
      /\ Multiple(Floor(u, DaySpan), DaySpan)
  <2>1. u \in Int
    BY <1>0
  <2> HIDE DEF u
  <2> QED
    BY <1>0, <2>1, Division
<1>2. DayStart(t) \in Int /\ DayStart(t) + Zone = Floor(u, DaySpan)
  BY <1>0, <1>1 DEF DayStart, Floor
<1>3. OnDay(DayStart(t)) /\ DayStart(t) <= t /\ t < DayStart(t) + DaySpan
  BY <1>0, <1>1, <1>2 DEF OnDay
<1>4. ASSUME NEW b \in Int, OnDay(b), b <= t, DayStart(t) < b PROVE FALSE
  BY <1>0, <1>2, <1>3, <1>4, Apart2 DEF OnDay
<1> QED
  BY <1>2, <1>3, <1>4

LEMMA DaysAreHours ==
    ASSUME WholeHours, NEW b \in Int, OnDay(b)
    PROVE  OnHour(b)
<1>1. PICK k \in Int : b + Zone = k * DaySpan
  BY DEF OnDay, Multiple
<1>2. Multiple(Zone, HourSpan)
  BY Lengths, NoRest DEF WholeHours
<1>3. k * DaySpan = (k * DayHours) * HourSpan /\ k * DayHours \in Int
  BY Lengths
<1>4. Multiple(b + Zone, HourSpan)
  BY <1>1, <1>3, IsMultiple
<1>5. Multiple((b + Zone) - Zone, HourSpan)
  BY <1>2, <1>4, Lengths, Sums
<1>6. (b + Zone) - Zone = b
  BY Lengths
<1> QED
  BY <1>5, <1>6 DEF OnHour

LEMMA LocalHours ==
    ASSUME WholeHours, NEW t \in Int
    PROVE  LocalHour(t) \in Int /\ OnHour(LocalHour(t)) /\ LocalHour(t) <= t /\ t < LocalHour(t) + HourSpan
<1> DEFINE u == t + Zone
           h == Floor(u, HourSpan)
<1>1. /\ u \in Int /\ h \in Int /\ h <= u /\ u < h + HourSpan /\ Multiple(h, HourSpan)
      /\ u % HourSpan \in Nat
  <2>1. u \in Int
    BY Lengths
  <2> HIDE DEF u
  <2> QED
    BY <2>1, Lengths, Division
<1>2. Multiple(Zone, HourSpan)
  BY Lengths, NoRest DEF WholeHours
<1>3. LocalHour(t) = h - Zone
  BY <1>1, Lengths DEF LocalHour, Floor
<1>4. Multiple(h - Zone, HourSpan)
  <2> HIDE DEF h
  <2> QED
    BY <1>1, <1>2, Lengths, Sums
<1> HIDE DEF h
<1>5. LocalHour(t) \in Int /\ LocalHour(t) <= t /\ t < LocalHour(t) + HourSpan
  BY <1>1, <1>3, Lengths
<1> QED
  BY <1>3, <1>4, <1>5 DEF OnHour

\* The bucket of an instant.
BucketAt(t, grain) == IF grain = "hour" THEN Truncated(t) ELSE DayStart(t)

\* What the windows and the rows of a plan may count.
InSpan(t, w) == t >= w.start /\ IF w.includeEnd THEN t <= w.end ELSE t < w.end
Reaches(w, t) == t >= w.start /\ (w.current \/ InSpan(t, w))
InRows(s, t) == s.start <= BucketAt(t, s.grain) /\ BucketAt(t, s.grain) < s.end
Full(f, t) == f.start <= t /\ t < f.end

AskedFor(r, t) == t >= r.start /\ IF r.endExclusive THEN t < r.end ELSE t <= r.end
Wanted(r, t) == AskedFor(r, t) \/ (CurrentRight(r) /\ t > r.end)

RowsHold(S, t) == \E i \in DOMAIN S : InRows(S[i], t)
RowsApart(S) == \A i, j \in DOMAIN S, t \in Nat : InRows(S[i], t) /\ InRows(S[j], t) => i = j
WindowsHold(W, t) == \E i \in DOMAIN W : InSpan(t, W[i])
WindowsReach(W, t) == \E i \in DOMAIN W : Reaches(W[i], t)
WindowsApart(W) == \A i, j \in DOMAIN W, t \in Nat : Reaches(W[i], t) /\ Reaches(W[j], t) => i = j

\* Nothing that is still to be read counts an event twice, or one that was not
\* asked for: single events lie outside the full hours, rows within.
Disjoint(W, S, f, r) ==
    /\ W \in Seq(Windows) /\ S \in Seq(Rollups) /\ f \in Spans
    /\ WindowsApart(W) /\ RowsApart(S)
    /\ \A t \in Nat : WindowsReach(W, t) /\ ~Full(f, t) => Wanted(r, t)
    /\ \A t \in Nat : RowsHold(S, t) => AskedFor(r, t) /\ (W # <<>> => Full(f, t))

\* An instant that is still to be counted.
Coming(W, S, f, t) == (WindowsHold(W, t) /\ ~Full(f, t)) \/ RowsHold(S, t)

-----------------------------------------------------------------------------
(* The rows of a plan.                                                     *)

LEMMA HourRows ==
    ASSUME NEW from \in Int, NEW to \in Int, OnHour(from), OnHour(to)
    PROVE  /\ HourStats(from, to) \in Seq(Rollups) /\ RowsApart(HourStats(from, to))
           /\ \A t \in Nat : RowsHold(HourStats(from, to), t) <=> from <= t /\ t < to
<1> DEFINE s == [grain |-> "hour", start |-> from, end |-> to]
<1>1. ASSUME NEW t \in Nat PROVE InRows(s, t) <=> from <= t /\ t < to
  <2>1. BucketAt(t, s.grain) = Truncated(t) /\ s.start = from /\ s.end = to
    BY DEF BucketAt
  <2>2. Truncated(t) \in Int /\ (from <= Truncated(t) <=> from <= t) /\ (to <= Truncated(t) <=> to <= t)
    BY Hours
  <2> HIDE DEF s
  <2> QED
    BY <2>1, <2>2 DEF InRows
<1>2. s \in Rollups
  BY DEF Rollups
<1> HIDE DEF s
<1>3. CASE from < to
  <2>1. HourStats(from, to) = <<s>>
    BY <1>3 DEF HourStats, s
  <2>2. <<s>> \in Seq(Rollups) /\ DOMAIN <<s>> = {1} /\ <<s>>[1] = s
    BY <1>2
  <2> QED
    BY <1>1, <2>1, <2>2 DEF RowsApart, RowsHold
<1>4. CASE ~(from < to)
  <2>1. HourStats(from, to) = <<>>
    BY <1>4 DEF HourStats
  <2>2. <<>> \in Seq(Rollups) /\ DOMAIN HourStats(from, to) = {}
    BY <2>1
  <2> QED
    BY <1>4, <2>1, <2>2 DEF RowsApart, RowsHold
<1> QED
  BY <1>3, <1>4

LEMMA DayRows ==
    ASSUME NEW from \in Int, NEW to \in Int, OnDay(from), OnDay(to)
    PROVE  /\ DayStats(from, to) \in Seq(Rollups) /\ RowsApart(DayStats(from, to))
           /\ \A t \in Nat : RowsHold(DayStats(from, to), t) <=> from <= t /\ t < to
<1> DEFINE s == [grain |-> "day", start |-> from, end |-> to]
<1>1. ASSUME NEW t \in Nat PROVE InRows(s, t) <=> from <= t /\ t < to
  <2>1. BucketAt(t, s.grain) = DayStart(t) /\ s.start = from /\ s.end = to
    BY DEF BucketAt
  <2>2. DayStart(t) \in Int /\ (from <= DayStart(t) <=> from <= t) /\ (to <= DayStart(t) <=> to <= t)
    BY Days
  <2> HIDE DEF s
  <2> QED
    BY <2>1, <2>2 DEF InRows
<1>2. s \in Rollups
  BY DEF Rollups
<1>3. DayStats(from, to) = <<s>>
  BY DEF DayStats
<1> HIDE DEF s
<1>4. <<s>> \in Seq(Rollups) /\ DOMAIN <<s>> = {1} /\ <<s>>[1] = s
  BY <1>2
<1> QED
  BY <1>1, <1>3, <1>4 DEF RowsApart, RowsHold

LEMMA RowsJoin ==
    ASSUME NEW A \in Seq(Rollups), NEW B \in Seq(Rollups), RowsApart(A), RowsApart(B),
           \A t \in Nat : ~(RowsHold(A, t) /\ RowsHold(B, t))
    PROVE  /\ A \o B \in Seq(Rollups) /\ RowsApart(A \o B)
           /\ \A t \in Nat : RowsHold(A \o B, t) <=> RowsHold(A, t) \/ RowsHold(B, t)
<1> DEFINE C == A \o B
<1>1. /\ C \in Seq(Rollups) /\ Len(C) = Len(A) + Len(B)
      /\ \A i \in 1 .. Len(A) + Len(B) : C[i] = IF i <= Len(A) THEN A[i] ELSE B[i - Len(A)]
  BY ConcatProperties
<1>2. /\ Len(A) \in Nat /\ DOMAIN A = 1 .. Len(A) /\ Len(B) \in Nat /\ DOMAIN B = 1 .. Len(B)
      /\ DOMAIN C = 1 .. Len(A) + Len(B)
  <2> HIDE DEF C
  <2> QED
    BY <1>1, LenProperties
<1> HIDE DEF C
<1>3. \A i \in DOMAIN C : \/ i \in DOMAIN A /\ C[i] = A[i]
                          \/ i - Len(A) \in DOMAIN B /\ i > Len(A) /\ C[i] = B[i - Len(A)]
  BY <1>1, <1>2
<1>4. \A i \in DOMAIN A : i \in DOMAIN C /\ C[i] = A[i]
  BY <1>1, <1>2
<1>5. \A i \in DOMAIN B : i + Len(A) \in DOMAIN C /\ C[i + Len(A)] = B[i]
  BY <1>1, <1>2
<1>6. ASSUME NEW t \in Nat PROVE RowsHold(C, t) <=> RowsHold(A, t) \/ RowsHold(B, t)
  BY <1>3, <1>4, <1>5 DEF RowsHold
<1>7. ASSUME NEW i \in DOMAIN C, NEW j \in DOMAIN C, NEW t \in Nat, InRows(C[i], t), InRows(C[j], t)
      PROVE  i = j
  <2>1. CASE i \in DOMAIN A /\ C[i] = A[i] /\ j \in DOMAIN A /\ C[j] = A[j]
    BY <1>7, <2>1 DEF RowsApart
  <2>2. CASE /\ i - Len(A) \in DOMAIN B /\ C[i] = B[i - Len(A)]
             /\ j - Len(A) \in DOMAIN B /\ C[j] = B[j - Len(A)]
    <3>1. i - Len(A) = j - Len(A)
      BY <1>7, <2>2 DEF RowsApart
    <3> QED
      BY <1>2, <3>1
  <2>3. CASE i \in DOMAIN A /\ C[i] = A[i] /\ j - Len(A) \in DOMAIN B /\ C[j] = B[j - Len(A)]
    BY <1>7, <2>3 DEF RowsHold
  <2>4. CASE j \in DOMAIN A /\ C[j] = A[j] /\ i - Len(A) \in DOMAIN B /\ C[i] = B[i - Len(A)]
    BY <1>7, <2>4 DEF RowsHold
  <2> QED
    BY <1>3, <2>1, <2>2, <2>3, <2>4
<1> QED
  BY <1>1, <1>6, <1>7 DEF RowsApart, C

LEMMA DaySteps ==
    ASSUME NEW b \in Int, OnDay(b)
    PROVE  OnDay(b + DaySpan) /\ OnDay(b - DaySpan)
<1>1. DaySpan \in Nat \ {0} /\ Zone \in Nat
  BY Lengths
<1>2. DaySpan = 1 * DaySpan
  BY <1>1
<1>3. Multiple(DaySpan, DaySpan)
  BY <1>2, IsMultiple
<1>4. Multiple((b + Zone) + DaySpan, DaySpan) /\ Multiple((b + Zone) - DaySpan, DaySpan)
  BY <1>1, <1>3, Sums DEF OnDay
<1>5. (b + DaySpan) + Zone = (b + Zone) + DaySpan /\ (b - DaySpan) + Zone = (b + Zone) - DaySpan
  BY <1>1
<1> QED
  BY <1>4, <1>5 DEF OnDay

LEMMA HourSteps ==
    ASSUME NEW b \in Int, OnHour(b), NEW m \in Nat
    PROVE  OnHour(b + HourSpan) /\ OnHour(b - m * HourSpan)
<1>1. HourSpan \in Nat \ {0} /\ HourSpan = 1 * HourSpan /\ m * HourSpan \in Int
  BY Lengths
<1>2. Multiple(HourSpan, HourSpan)
  <2>1. 1 \in Int
    OBVIOUS
  <2> QED
    BY <1>1, <2>1, IsMultiple, Zenon
<1>3. Multiple(m * HourSpan, HourSpan)
  <2>1. m \in Int
    OBVIOUS
  <2> QED
    BY <2>1, IsMultiple, Zenon
<1> QED
  BY <1>1, <1>2, <1>3, Sums DEF OnHour

\* usageOverviewFullHourWindow: whole hours within the range, and all but one
\* of those it touches.
LEMMA FullHoursAre ==
    ASSUME NEW c, c.start \in Int, c.end \in Int
    PROVE  /\ FullHours(c) \in Spans
           /\ OnHour(FullHours(c).start) /\ OnHour(FullHours(c).end)
           /\ c.start <= FullHours(c).start /\ FullHours(c).start <= FullHours(c).end
           /\ IF FullHours(c).start <= c.end
              THEN FullHours(c).end <= c.end
              ELSE FullHours(c).end = FullHours(c).start
<1> DEFINE from == IF Truncated(c.start) = c.start THEN c.start ELSE Truncated(c.start) + HourSpan
           to == Truncated(c.end)
<1>1. /\ Truncated(c.start) \in Int /\ OnHour(Truncated(c.start)) /\ Truncated(c.start) <= c.start
      /\ c.start < Truncated(c.start) + HourSpan
  BY Hours
<1>2. OnHour(Truncated(c.start) + HourSpan)
  BY <1>1, HourSteps
<1>3. from \in Int /\ OnHour(from) /\ c.start <= from
  BY <1>1, <1>2, Lengths
<1> HIDE DEF from
<1>4. to \in Int /\ OnHour(to) /\ to <= c.end /\ (from <= to <=> from <= c.end)
  BY <1>3, Hours
<1> HIDE DEF to
<1>5. FullHours(c) = [start |-> from, end |-> IF to < from THEN from ELSE to]
  BY DEF FullHours, from, to
<1> QED
  BY <1>3, <1>4, <1>5 DEF Spans

LEMMA OneWindow ==
    ASSUME NEW a \in Windows
    PROVE  <<a>> \in Seq(Windows) /\ DOMAIN <<a>> = {1} /\ <<a>>[1] = a /\ Merged(<<a>>) = <<a>>
<1>1. <<a>> \in Seq(Windows) /\ DOMAIN <<a>> = {1} /\ <<a>>[1] = a /\ Len(<<a>>) = 1
  OBVIOUS
<1> QED
  BY <1>1 DEF Merged

LEMMA TwoWindows ==
    ASSUME NEW l \in Windows, NEW q \in Windows
    PROVE  /\ <<l>> \o <<q>> \in Seq(Windows) /\ DOMAIN (<<l>> \o <<q>>) = 1 .. 2
           /\ Len(<<l>> \o <<q>>) = 2
           /\ (<<l>> \o <<q>>)[1] = l /\ (<<l>> \o <<q>>)[2] = q
<1>1. /\ <<l>> \in Seq(Windows) /\ Len(<<l>>) = 1 /\ <<l>>[1] = l
      /\ <<q>> \in Seq(Windows) /\ Len(<<q>>) = 1 /\ <<q>>[1] = q
  OBVIOUS
<1> DEFINE P == <<l>> \o <<q>>
<1>2. /\ P \in Seq(Windows) /\ Len(P) = 1 + 1
      /\ \A i \in 1 .. 1 + 1 : P[i] = IF i <= 1 THEN <<l>>[i] ELSE <<q>>[i - 1]
  BY <1>1, ConcatProperties
<1> HIDE DEF P
<1>3. Len(P) = 2 /\ P[1] = l /\ P[2] = q
  BY <1>1, <1>2
<1>4. DOMAIN P = 1 .. 2
  BY <1>2, <1>3, LenProperties
<1> QED
  BY <1>2, <1>3, <1>4 DEF P

LEMMA WindowFrom ==
    ASSUME NEW w \in Windows, NEW x
    PROVE  [w EXCEPT !.start = x]
             = [start |-> x, end |-> w.end, includeEnd |-> w.includeEnd, current |-> w.current]
BY DEF Windows

LEMMA WindowTo ==
    ASSUME NEW w \in Windows, NEW x \in BOOLEAN, NEW y \in BOOLEAN
    PROVE  [w EXCEPT !.includeEnd = x, !.current = y]
             = [start |-> w.start, end |-> w.end, includeEnd |-> x, current |-> y]
<1> DEFINE v == [w EXCEPT !.includeEnd = x]
<1>1. v = [start |-> w.start, end |-> w.end, includeEnd |-> x, current |-> w.current]
  BY DEF Windows
<1>2. [w EXCEPT !.includeEnd = x, !.current = y] = [v EXCEPT !.current = y]
  OBVIOUS
<1> HIDE DEF v
<1>3. [v EXCEPT !.current = y] = [start |-> w.start, end |-> w.end, includeEnd |-> x, current |-> y]
  BY <1>1
<1> QED
  BY <1>2, <1>3

\* usageOverviewRawEventWindows: the two ragged ends, or one window where no
\* full hour lies between them.
LEMMA RaggedEnds ==
    ASSUME NEW c, c.start \in Int, c.end \in Int, c.endExclusive = FALSE, c.start < c.end,
           NEW open \in BOOLEAN, open \/ ~OnHour(c.end),
           NEW f, f = FullHours(c),
           NEW W, W = Merged(LeftWindow(c, f, open) \o RightWindow(c, f, open))
    PROVE  /\ W \in Seq(Windows) /\ WindowsApart(W)
           /\ \A t \in Nat : WindowsReach(W, t) /\ ~Full(f, t) => t >= c.start /\ (t <= c.end \/ open)
           /\ \A t \in Nat : c.start <= t /\ t <= c.end /\ ~Full(f, t) => WindowsHold(W, t)
<1>1. /\ f \in Spans /\ OnHour(f.start) /\ OnHour(f.end) /\ c.start <= f.start /\ f.start <= f.end
      /\ IF f.start <= c.end THEN f.end <= c.end ELSE f.end = f.start
  BY FullHoursAre
<1>2. f.start \in Int /\ f.end \in Int
  BY <1>1 DEF Spans
<1> DEFINE a == [start |-> c.start, end |-> c.end, includeEnd |-> TRUE, current |-> open]
           q == [start |-> f.end, end |-> c.end, includeEnd |-> TRUE, current |-> open]
           l == [start |-> c.start, end |-> f.start, includeEnd |-> f.start = c.end,
                 current |-> open /\ f.start = c.end]
<1>3. a \in Windows /\ q \in Windows /\ l \in Windows
  BY <1>2 DEF Windows
<1>4. f.end = c.end => open
  BY <1>1
<1>7. (~c.endExclusive) = TRUE
  OBVIOUS
<1>8. ASSUME c.end >= f.end, f.end < c.end \/ open
      PROVE  RightWindow(c, f, open) = <<q>>
  <2>1. (IF f.end < c.start THEN c.start ELSE f.end) = f.end
    BY <1>1, <1>2
  <2>2. f.end < c.end \/ (open /\ f.end = c.end)
    BY <1>2, <1>8
  <2>3. RightWindow(c, f, open)
          = <<[start |-> f.end, end |-> c.end, includeEnd |-> ~c.endExclusive, current |-> open]>>
    BY <1>8, <2>1, <2>2 DEF RightWindow
  <2> QED
    BY <1>7, <2>3
<1>9. ASSUME f.start <= c.end, c.start < f.start
      PROVE  LeftWindow(c, f, open) = <<l>>
  <2>1. (IF c.end < f.start THEN c.end ELSE f.start) = f.start
    BY <1>2, <1>9
  <2>2. LeftWindow(c, f, open)
          = <<[start |-> c.start, end |-> f.start, includeEnd |-> ~c.endExclusive /\ f.start = c.end,
               current |-> open /\ f.start = c.end]>>
    BY <1>9, <2>1 DEF LeftWindow
  <2>3. (~c.endExclusive /\ f.start = c.end) = (f.start = c.end)
    BY <1>7
  <2> QED
    BY <2>2, <2>3
<1>10. /\ l.start = c.start /\ l.end = f.start
       /\ l.includeEnd = (f.start = c.end) /\ l.current = (open /\ f.start = c.end)
       /\ q.start = f.end /\ q.end = c.end /\ q.includeEnd = TRUE /\ q.current = open
       /\ a = [start |-> c.start, end |-> c.end, includeEnd |-> TRUE, current |-> open]
  OBVIOUS
<1>5. CASE f.start = f.end
  <2>1. W = <<a>>
    <3>1. CASE c.end < f.start
      <4>1. LeftWindow(c, f, open) = <<a>>
        <5>1. (IF c.end < f.start THEN c.end ELSE f.start) = c.end
          BY <3>1
        <5>2. c.start < f.start
          BY <1>2, <3>1
        <5>3. LeftWindow(c, f, open)
                = <<[start |-> c.start, end |-> c.end, includeEnd |-> ~c.endExclusive /\ c.end = c.end,
                     current |-> open /\ c.end = c.end]>>
          BY <5>1, <5>2 DEF LeftWindow
        <5>4. (~c.endExclusive /\ c.end = c.end) = TRUE /\ (open /\ c.end = c.end) = open
          BY <1>7
        <5> QED
          BY <5>3, <5>4
      <4>2. RightWindow(c, f, open) = <<>>
        BY <1>2, <1>5, <3>1 DEF RightWindow
      <4>3. <<a>> \o <<>> = <<a>>
        BY <1>3, OneWindow, ConcatEmptySeq
      <4> HIDE DEF a
      <4> QED
        BY <1>3, <4>1, <4>2, <4>3, OneWindow
    <3>2. CASE f.start <= c.end /\ c.start < f.start
      <4>1. LeftWindow(c, f, open) = <<l>>
        BY <1>9, <3>2
      <4>2. RightWindow(c, f, open) = <<q>>
        BY <1>1, <1>2, <1>4, <1>8, <3>2
      <4> DEFINE P == <<l>> \o <<q>>
      <4>3. Len(P) = 2 /\ P[1] = l /\ P[2] = q
        <5> HIDE DEF l, q
        <5> QED BY <1>3, TwoWindows
      <4> HIDE DEF P
      <4>4. Merged(P) = <<IF q.end > l.end THEN [q EXCEPT !.start = l.start]
                          ELSE [l EXCEPT !.includeEnd = @ \/ (q.end = l.end /\ q.includeEnd),
                                         !.current = @ \/ q.current]>>
        <5>1. ~(q.start > l.end)
          BY <1>2, <1>5
        <5> HIDE DEF l, q
        <5> QED BY <4>3, <5>1 DEF Merged
      <4>5. CASE c.end > f.start
        <5>1. [q EXCEPT !.start = l.start] = a
          <6> HIDE DEF l, q, a
          <6>1. [q EXCEPT !.start = l.start]
                  = [start |-> l.start, end |-> q.end, includeEnd |-> q.includeEnd, current |-> q.current]
            BY <1>3, WindowFrom
          <6> QED BY <1>10, <6>1
        <5>2. q.end > l.end
          BY <4>5
        <5> HIDE DEF l, q, a
        <5> QED BY <4>1, <4>2, <4>4, <5>1, <5>2 DEF P
      <4>6. CASE c.end = f.start
        <5>1. [l EXCEPT !.includeEnd = @ \/ (q.end = l.end /\ q.includeEnd),
                        !.current = @ \/ q.current] = a
          <6> HIDE DEF l, q, a
          <6>1. /\ (l.includeEnd \/ (q.end = l.end /\ q.includeEnd)) = TRUE
                /\ (l.current \/ q.current) = open
            BY <1>10, <4>6
          <6>2. [l EXCEPT !.includeEnd = @ \/ (q.end = l.end /\ q.includeEnd),
                          !.current = @ \/ q.current]
                  = [start |-> l.start, end |-> l.end,
                     includeEnd |-> l.includeEnd \/ (q.end = l.end /\ q.includeEnd),
                     current |-> l.current \/ q.current]
            <7> DEFINE x == l.includeEnd \/ (q.end = l.end /\ q.includeEnd)
                       y == l.current \/ q.current
            <7>1. x \in BOOLEAN /\ y \in BOOLEAN
              BY <1>10
            <7> HIDE DEF x, y
            <7>2. [l EXCEPT !.includeEnd = x, !.current = y]
                    = [start |-> l.start, end |-> l.end, includeEnd |-> x, current |-> y]
              BY <1>3, <7>1, WindowTo
            <7> QED BY <7>2 DEF x, y
          <6> QED BY <1>10, <4>6, <6>1, <6>2
        <5>2. ~(q.end > l.end)
          BY <1>2, <4>6
        <5> HIDE DEF l, q, a
        <5> QED BY <4>1, <4>2, <4>4, <5>1, <5>2 DEF P
      <4> QED
        BY <1>2, <3>2, <4>5, <4>6
    <3>3. CASE f.start <= c.end /\ c.start = f.start
      <4>1. LeftWindow(c, f, open) = <<>>
        BY <1>2, <3>3 DEF LeftWindow
      <4>2. RightWindow(c, f, open) = <<a>>
        BY <1>1, <1>2, <1>4, <1>5, <1>8, <3>3
      <4>3. <<>> \o <<a>> = <<a>>
        BY <1>3, OneWindow, ConcatEmptySeq
      <4> HIDE DEF a
      <4> QED
        BY <1>3, <4>1, <4>2, <4>3, OneWindow
    <3> QED
      BY <1>1, <1>2, <3>1, <3>2, <3>3
  <2>2. W \in Seq(Windows) /\ DOMAIN W = {1} /\ W[1] = a
    <3> HIDE DEF a
    <3> QED BY <1>3, <2>1, OneWindow
  <2>3. ASSUME NEW t \in Nat PROVE /\ Reaches(a, t) => t >= c.start /\ (t <= c.end \/ open)
                                   /\ c.start <= t /\ t <= c.end => InSpan(t, a)
    BY DEF Reaches, InSpan
  <2> HIDE DEF a
  <2> QED
    BY <2>2, <2>3 DEF WindowsApart, WindowsReach, WindowsHold
<1>6. CASE f.start < f.end
  <2>0. f.end <= c.end /\ f.start < c.end
    BY <1>1, <1>2, <1>6
  <2>1. RightWindow(c, f, open) = <<q>>
    BY <1>1, <1>2, <1>4, <1>6, <1>8, <2>0
  <2>2. ASSUME NEW t \in Nat
        PROVE  /\ Reaches(q, t) <=> f.end <= t /\ (t <= c.end \/ open)
               /\ InSpan(t, q) <=> f.end <= t /\ t <= c.end
    BY <1>2 DEF Reaches, InSpan
  <2>3. ASSUME NEW t \in Nat
        PROVE  /\ Reaches(l, t) <=> c.start <= t /\ t < f.start
               /\ InSpan(t, l) <=> c.start <= t /\ t < f.start
    <3> HIDE DEF l, q, a
    <3>0. (f.start = c.end) = FALSE /\ (open /\ f.start = c.end) = FALSE
      BY <1>2, <2>0
    <3>1. l.includeEnd = FALSE /\ l.current = FALSE
      BY <1>10, <3>0
    <3> QED
      BY <1>2, <1>10, <2>0, <3>1 DEF Reaches, InSpan
  <2>4. CASE c.start < f.start
    <3>1. LeftWindow(c, f, open) = <<l>>
      BY <1>2, <1>9, <2>0, <2>4
    <3> DEFINE P == <<l>> \o <<q>>
    <3>2. P \in Seq(Windows) /\ DOMAIN P = 1 .. 2 /\ Len(P) = 2 /\ P[1] = l /\ P[2] = q
      <4> HIDE DEF l, q
      <4> QED BY <1>3, TwoWindows
    <3>3. q.start > l.end
      BY <1>6
    <3>4. W = P
      <4> HIDE DEF l, q
      <4>1. Merged(P) = P
        <5> HIDE DEF P
        <5> QED BY <3>2, <3>3 DEF Merged
      <4> QED BY <2>1, <3>1, <4>1
    <3> HIDE DEF l, q, P
    <3>5. WindowsApart(P)
      <4>1. \A t \in Nat : ~(Reaches(l, t) /\ Reaches(q, t))
        BY <1>2, <1>6, <2>2, <2>3
      <4> QED
        BY <3>2, <4>1 DEF WindowsApart
    <3>6. \A t \in Nat : /\ WindowsReach(P, t) <=> Reaches(l, t) \/ Reaches(q, t)
                         /\ WindowsHold(P, t) <=> InSpan(t, l) \/ InSpan(t, q)
      BY <3>2 DEF WindowsReach, WindowsHold
    <3> QED
      BY <1>1, <1>2, <1>6, <2>0, <2>2, <2>3, <3>2, <3>4, <3>5, <3>6 DEF Full
  <2>5. CASE ~(c.start < f.start)
    <3>1. LeftWindow(c, f, open) = <<>>
      BY <2>5 DEF LeftWindow
    <3>2. W = <<q>>
      <4>1. <<>> \o <<q>> = <<q>>
        BY <1>3, OneWindow, ConcatEmptySeq
      <4> HIDE DEF q
      <4> QED BY <1>3, <2>1, <3>1, <4>1, OneWindow
    <3> HIDE DEF q
    <3>3. W \in Seq(Windows) /\ DOMAIN W = {1} /\ W[1] = q
      BY <1>3, <3>2, OneWindow
    <3>4. \A t \in Nat : /\ WindowsReach(W, t) <=> Reaches(q, t)
                         /\ WindowsHold(W, t) <=> InSpan(t, q)
      BY <3>3 DEF WindowsReach, WindowsHold
    <3>5. WindowsApart(W)
      BY <3>3 DEF WindowsApart
    <3> QED
      BY <1>1, <1>2, <1>6, <2>0, <2>2, <2>5, <3>3, <3>4, <3>5 DEF Full
  <2> QED
    BY <2>4, <2>5
<1> QED
  BY <1>1, <1>2, <1>5, <1>6

\* The rollup windows of buildUsageOverviewFromStats cover the whole hours.
LEMMA WholeHoursRead ==
    ASSUME WholeHours, NEW c, c.start \in Int, c.end \in Int,
           NEW f, f = FullHours(c), NEW S, S = StatWindows(c, f)
    PROVE  /\ S \in Seq(Rollups) /\ RowsApart(S)
           /\ \A t \in Nat : RowsHold(S, t) <=> Full(f, t)
<1>1. /\ f \in Spans /\ OnHour(f.start) /\ OnHour(f.end) /\ f.start <= f.end
      /\ f.start \in Int /\ f.end \in Int
  BY FullHoursAre DEF Spans
<1>2. CASE f.end <= f.start
  <2>1. S = <<>>
    BY <1>2 DEF StatWindows
  <2>2. S \in Seq(Rollups) /\ DOMAIN S = {}
    BY <2>1
  <2> QED
    BY <1>1, <1>2, <2>2 DEF RowsApart, RowsHold, Full
<1>3. CASE ~(f.end <= f.start)
  <2> DEFINE d == FullDays(f)
             from == IF DayStart(f.start) = f.start THEN f.start ELSE DayEnd(f.start)
             to == DayStart(f.end)
  <2>1. from \in Int /\ OnDay(from) /\ f.start <= from
    <3>1. /\ DayStart(f.start) \in Int /\ OnDay(DayStart(f.start)) /\ f.start < DayStart(f.start) + DaySpan
      BY <1>1, Days
    <3>2. DayEnd(f.start) \in Int /\ OnDay(DayEnd(f.start)) /\ f.start <= DayEnd(f.start)
      <4>1. DayEnd(f.start) = DayStart(f.start) + DaySpan /\ DaySpan \in Nat
        BY Lengths DEF DayEnd
      <4>2. OnDay(DayStart(f.start) + DaySpan)
        BY <3>1, DaySteps
      <4> QED
        BY <1>1, <3>1, <4>1, <4>2
    <3> QED
      BY <1>1, <3>1, <3>2
  <2>2. to \in Int /\ OnDay(to) /\ to <= f.end
    BY <1>1, Days
  <2> HIDE DEF from, to
  <2>3. d = [start |-> from, end |-> IF to < from THEN from ELSE to]
    BY DEF FullDays, from, to
  <2>4. d.start = from /\ d.end = IF to < from THEN from ELSE to
    BY <2>3
  <2> HIDE DEF d
  <2>5. CASE ~ByDay(c) \/ d.end <= d.start
    <3>1. S = HourStats(f.start, f.end)
      BY <1>3, <2>5 DEF StatWindows, d
    <3> QED
      BY <1>1, <3>1, HourRows DEF Full
  <2>6. CASE ~(~ByDay(c) \/ d.end <= d.start)
    <3> DEFINE A == DayStats(d.start, d.end)
               B == HourStats(f.start, d.start)
               C == HourStats(d.end, f.end)
    <3>1. /\ d.start = from /\ d.end = to /\ from < to
      BY <2>1, <2>2, <2>4, <2>6
    <3>2. OnHour(from) /\ OnHour(to)
      BY <2>1, <2>2, DaysAreHours
    <3>3. A \in Seq(Rollups) /\ RowsApart(A) /\ \A t \in Nat : RowsHold(A, t) <=> from <= t /\ t < to
      BY <2>1, <2>2, <3>1, DayRows
    <3>4. B \in Seq(Rollups) /\ RowsApart(B) /\ \A t \in Nat : RowsHold(B, t) <=> f.start <= t /\ t < from
      BY <1>1, <2>1, <3>1, <3>2, HourRows
    <3>5. C \in Seq(Rollups) /\ RowsApart(C) /\ \A t \in Nat : RowsHold(C, t) <=> to <= t /\ t < f.end
      BY <1>1, <2>2, <3>1, <3>2, HourRows
    <3>6. S = (A \o B) \o C
      BY <1>3, <2>6 DEF StatWindows, d
    <3> HIDE DEF A, B, C
    <3> DEFINE D == A \o B
    <3>7. /\ D \in Seq(Rollups) /\ RowsApart(D)
          /\ \A t \in Nat : RowsHold(D, t) <=> RowsHold(A, t) \/ RowsHold(B, t)
      <4>1. \A t \in Nat : ~(RowsHold(A, t) /\ RowsHold(B, t))
        BY <2>1, <3>3, <3>4
      <4> QED
        BY <3>3, <3>4, <4>1, RowsJoin
    <3> HIDE DEF D
    <3>8. /\ S \in Seq(Rollups) /\ RowsApart(S)
          /\ \A t \in Nat : RowsHold(S, t) <=> RowsHold(D, t) \/ RowsHold(C, t)
      <4>1. \A t \in Nat : ~(RowsHold(D, t) /\ RowsHold(C, t))
        BY <1>1, <2>1, <2>2, <3>1, <3>3, <3>4, <3>5, <3>7
      <4>2. S = D \o C
        BY <3>6 DEF D
      <4> QED
        BY <3>5, <3>7, <4>1, <4>2, RowsJoin
    <3> QED
      BY <1>1, <2>1, <2>2, <3>1, <3>3, <3>4, <3>5, <3>7, <3>8 DEF Full
  <2> QED
    BY <2>5, <2>6
<1> QED
  BY <1>2, <1>3

\* A plan reads what was asked for, and no instant twice.
LEMMA PlanCovers ==
    ASSUME WholeHours, NEW asked \in Nat, NEW r \in Ranges(asked), NEW p, p = Plan(r, asked)
    PROVE  /\ Disjoint(p.windows, p.stats, p.full, r)
           /\ r.start < asked =>
                 \A t \in Nat : t <= asked /\ AskedFor(r, t) => Coming(p.windows, p.stats, p.full, t)
<1>0. asked \in Int
  OBVIOUS
<1>1. /\ DayStart(asked) \in Int /\ OnDay(DayStart(asked)) /\ DayStart(asked) <= asked
      /\ asked < DayStart(asked) + DaySpan
  BY <1>0, Days
<1>2. DaySpan \in Nat /\ DaySpan > 1 /\ HourSpan \in Nat /\ HourSpan > 1
  BY Lengths
<1>3. CASE r \in CustomHours(asked)
  <2>1. PICK m \in 0 .. (DayHours - 1) :
          r = [kind |-> "hour", start |-> LocalHour(asked) - m * HourSpan,
               end |-> LocalHour(asked) + HourSpan, endExclusive |-> TRUE]
    BY <1>3 DEF CustomHours
  <2>2. m \in Nat /\ LocalHour(asked) \in Int /\ OnHour(LocalHour(asked)) /\ m * HourSpan \in Int
    BY <1>0, LocalHours, Lengths
  <2>3. r.kind = "hour" /\ r.start \in Int /\ r.end \in Int /\ r.endExclusive /\ OnHour(r.start) /\ OnHour(r.end)
    BY <2>1, <2>2, HourSteps, Lengths
  <2>4. p.windows = <<>> /\ p.stats = HourStats(r.start, r.end) /\ p.full = [start |-> 0, end |-> 0]
    BY <2>3 DEF Plan
  <2>5. /\ p.stats \in Seq(Rollups) /\ RowsApart(p.stats)
        /\ \A t \in Nat : RowsHold(p.stats, t) <=> r.start <= t /\ t < r.end
    <3> DEFINE a == r.start
               b == r.end
               S == HourStats(a, b)
    <3>1. a \in Int /\ b \in Int /\ OnHour(a) /\ OnHour(b)
      BY <2>3
    <3> HIDE DEF a, b
    <3>2. S \in Seq(Rollups) /\ RowsApart(S) /\ \A t \in Nat : RowsHold(S, t) <=> a <= t /\ t < b
      BY <3>1, HourRows
    <3>3. p.stats = S
      BY <2>4 DEF a, b
    <3> HIDE DEF S
    <3> QED
      BY <3>2, <3>3 DEF a, b
  <2>6. p.windows \in Seq(Windows) /\ DOMAIN p.windows = {} /\ p.full \in Spans
    BY <2>4 DEF Spans
  <2>7. \A t \in Nat : RowsHold(p.stats, t) <=> AskedFor(r, t)
    BY <2>3, <2>5 DEF AskedFor
  <2> QED
    BY <2>4, <2>5, <2>6, <2>7 DEF Disjoint, WindowsApart, WindowsReach, Coming
<1>4. CASE r \in CustomDays(asked)
  <2>1. PICK back \in (0 .. 1) \X (0 .. 1) :
          r = [kind |-> "day", start |-> DayStart(asked) - back[1] * DaySpan,
               end |-> DayEnd(asked) - back[2] * DaySpan, endExclusive |-> TRUE]
    BY <1>4 DEF CustomDays
  <2>2. DayEnd(asked) = DayStart(asked) + DaySpan /\ DayEnd(asked) \in Int /\ OnDay(DayEnd(asked))
    BY <1>1, <1>2, DaySteps DEF DayEnd
  <2>3. \A b \in Int, n \in 0 .. 1 : OnDay(b) => b - n * DaySpan \in Int /\ OnDay(b - n * DaySpan)
    <3>1. \A b \in Int : b - 0 * DaySpan = b /\ b - 1 * DaySpan = b - DaySpan /\ b - DaySpan \in Int
      BY <1>2
    <3> QED
      BY <3>1, DaySteps
  <2>4. back[1] \in 0 .. 1 /\ back[2] \in 0 .. 1
    OBVIOUS
  <2>5. r.kind = "day" /\ r.start \in Int /\ r.end \in Int /\ r.endExclusive /\ OnDay(r.start) /\ OnDay(r.end)
    BY <1>1, <2>1, <2>2, <2>3, <2>4
  <2>6. p.windows = <<>> /\ p.stats = DayStats(r.start, r.end) /\ p.full = [start |-> 0, end |-> 0]
    BY <2>5 DEF Plan
  <2>7. /\ p.stats \in Seq(Rollups) /\ RowsApart(p.stats)
        /\ \A t \in Nat : RowsHold(p.stats, t) <=> r.start <= t /\ t < r.end
    BY <2>5, <2>6, DayRows
  <2>8. p.windows \in Seq(Windows) /\ DOMAIN p.windows = {} /\ p.full \in Spans
    BY <2>6 DEF Spans
  <2>9. \A t \in Nat : RowsHold(p.stats, t) <=> AskedFor(r, t)
    BY <2>5, <2>7 DEF AskedFor
  <2> QED
    BY <2>6, <2>7, <2>8, <2>9 DEF Disjoint, WindowsApart, WindowsReach, Coming
<1>5. CASE r \in {Today(asked), Yesterday(asked)} \cup {RollingRange(asked, d) : d \in Rolling}
  <2> DEFINE c == Effective(r, asked)
             f == FullHours(c)
  <2>1. /\ r = [kind |-> r.kind, start |-> r.start, end |-> r.end, endExclusive |-> FALSE]
        /\ r.kind \notin {"hour", "day"} /\ r.start \in Int /\ r.end \in Int
        /\ r.start < asked => (r.start < r.end /\ r.start <= r.end)
        /\ CurrentRight(r) => r.end >= asked
        /\ ~CurrentRight(r) => r.end < asked /\ r.end = DayStart(asked) - 1
    <3>1. CASE r = Today(asked)
      BY <1>1, <1>2, <3>1 DEF Today, DayEnd, CurrentRight
    <3>2. CASE r = Yesterday(asked)
      BY <1>1, <1>2, <3>2 DEF Yesterday, CurrentRight
    <3>3. ASSUME NEW d \in Rolling, r = RollingRange(asked, d) PROVE <2>1!:
      <4>1. d \in Nat \ {0}
        BY OverviewReadsAssumption
      <4> QED
        BY <3>3, <4>1 DEF RollingRange, CurrentRight
    <3> QED
      BY <1>5, <3>1, <3>2, <3>3
  <2>2. /\ c.start = r.start /\ c.end = (IF r.end > asked THEN asked ELSE r.end)
        /\ c.endExclusive = FALSE
    BY <2>1 DEF Effective
  <2>3. /\ c.start \in Int /\ c.end \in Int /\ c.end <= asked /\ c.end <= r.end
        /\ r.start < asked => c.start < c.end
        /\ CurrentRight(r) => c.end = asked
        /\ ~CurrentRight(r) => c.end = r.end
    BY <2>1, <2>2
  <2>4. CurrentRight(r) \in BOOLEAN
    BY DEF CurrentRight
  <2>5. CurrentRight(c) = CurrentRight(r)
    BY <2>1 DEF CurrentRight, Effective
  <2>6. CurrentRight(r) \/ ~OnHour(c.end)
    <3> SUFFICES ASSUME ~CurrentRight(r), OnHour(c.end) PROVE FALSE
      OBVIOUS
    <3>1. c.end = DayStart(asked) - 1
      BY <2>1, <2>3
    <3>2. OnHour(DayStart(asked))
      BY <1>1, DaysAreHours
    <3>3. (DayStart(asked) - 1) + HourSpan <= DayStart(asked)
      BY <1>1, <1>2, <3>1, <3>2, Apart2 DEF OnHour
    <3> QED
      BY <1>1, <1>2, <3>3
  <2>7. /\ p.windows = RawWindows(c, f) /\ p.stats = StatWindows(c, f) /\ p.full = f
    BY <2>1 DEF Plan
  <2>8. RawWindows(c, f) = Merged(LeftWindow(c, f, CurrentRight(r)) \o RightWindow(c, f, CurrentRight(r)))
    BY <2>5 DEF RawWindows
  <2> HIDE DEF c
  <2>9. /\ f \in Spans /\ f.start \in Int /\ f.end \in Int /\ c.start <= f.start /\ f.start <= f.end
        /\ IF f.start <= c.end THEN f.end <= c.end ELSE f.end = f.start
    BY <2>3, FullHoursAre DEF Spans
  <2>10. /\ p.stats \in Seq(Rollups) /\ RowsApart(p.stats)
         /\ \A t \in Nat : RowsHold(p.stats, t) <=> Full(f, t)
    BY <2>3, <2>7, WholeHoursRead
  <2> HIDE DEF f
  <2>11. ASSUME NEW t \in Nat, Full(f, t) PROVE AskedFor(r, t)
    BY <2>1, <2>2, <2>3, <2>9, <2>11 DEF AskedFor, Full
  <2>12. CASE c.start < c.end
    <3>1. /\ p.windows \in Seq(Windows) /\ WindowsApart(p.windows)
          /\ \A t \in Nat : WindowsReach(p.windows, t) /\ ~Full(f, t) =>
                t >= c.start /\ (t <= c.end \/ CurrentRight(r))
          /\ \A t \in Nat : c.start <= t /\ t <= c.end /\ ~Full(f, t) => WindowsHold(p.windows, t)
      <4> DEFINE open == CurrentRight(r)
      <4>1. open \in BOOLEAN /\ (open \/ ~OnHour(c.end))
        BY <2>4, <2>6
      <4>2. p.windows = Merged(LeftWindow(c, f, open) \o RightWindow(c, f, open))
        BY <2>7, <2>8
      <4>3. f = FullHours(c)
        BY DEF f
      <4> HIDE DEF open
      <4>4. /\ p.windows \in Seq(Windows) /\ WindowsApart(p.windows)
            /\ \A t \in Nat : WindowsReach(p.windows, t) /\ ~Full(f, t) =>
                  t >= c.start /\ (t <= c.end \/ open)
            /\ \A t \in Nat : c.start <= t /\ t <= c.end /\ ~Full(f, t) => WindowsHold(p.windows, t)
        BY <2>2, <2>3, <2>12, <4>1, <4>2, <4>3, RaggedEnds
      <4> QED
        BY <4>4 DEF open
    <3>2. ASSUME NEW t \in Nat, WindowsReach(p.windows, t), ~Full(f, t) PROVE Wanted(r, t)
      <4>1. t >= c.start /\ (t <= c.end \/ CurrentRight(r))
        BY <3>1, <3>2
      <4> QED
        BY <2>1, <2>2, <2>3, <4>1 DEF Wanted, AskedFor
    <3>3. ASSUME NEW t \in Nat, t <= asked, AskedFor(r, t), r.start < asked
          PROVE  Coming(p.windows, p.stats, f, t)
      <4>1. c.start <= t /\ t <= c.end
        BY <2>1, <2>2, <2>3, <3>3 DEF AskedFor
      <4> QED
        BY <2>10, <3>1, <4>1 DEF Coming
    <3> QED
      BY <2>7, <2>9, <2>10, <2>11, <3>1, <3>2, <3>3 DEF Disjoint
  <2>13. CASE ~(c.start < c.end)
    <3>1. p.windows = <<>>
      <4>1. LeftWindow(c, f, CurrentRight(r)) = <<>> /\ RightWindow(c, f, CurrentRight(r)) = <<>>
        BY <2>13 DEF LeftWindow, RightWindow
      <4>2. <<>> \o <<>> = <<>>
        OBVIOUS
      <4>3. Merged(<<>>) = <<>>
        BY DEF Merged
      <4> QED
        BY <2>7, <2>8, <4>1, <4>2, <4>3
    <3>2. p.windows \in Seq(Windows) /\ DOMAIN p.windows = {}
      BY <3>1
    <3> QED
      BY <2>3, <2>7, <2>9, <2>10, <2>11, <2>13, <3>1, <3>2 DEF Disjoint, WindowsApart, WindowsReach
  <2> QED
    BY <2>12, <2>13
<1> QED
  BY <1>3, <1>4, <1>5 DEF Ranges
-----------------------------------------------------------------------------
(* The overview: what a read has counted and what it still will.           *)

OverviewTypes ==
    /\ clock \in Nat
    /\ events \in Seq([at : Nat, inst : Instances]) /\ Len(events) <= MaxEvents
    /\ cursor \in Nat /\ cursor <= Len(events)
    /\ queue \in Seq(Nat) /\ \A i \in DOMAIN queue : queue[i] \in Ids
    /\ cache \subseteq Ids
    /\ \A e \in Ids : Stamp(e) <= clock

Asks == [kind : {"today", "yesterday", "rolling", "day", "hour"}, start : Int, end : Int, endExclusive : BOOLEAN]
Plans == [windows : Seq(Windows), stats : Seq(Rollups), full : Spans]
Counts == [1..MaxEvents -> Nat]
Reads == [phase : {"reading"}, range : Asks, now : Nat, inst : Filters, comparison : BOOLEAN,
          plan : Plans, snap : Seq(Nat), totals : Counts, series : Counts, owed : SUBSET Nat,
          served : SUBSET Windows]

ReadShape ==
    /\ read \in Reads
    /\ Disjoint(read.plan.windows, read.plan.stats, read.plan.full, read.range)

\* A read sees a state of the tables between its request and the present.
SnapshotFits ==
    /\ Snapshot[1] \in Nat /\ Snapshot[1] <= Len(events)
    /\ Snapshot[2] \in Nat /\ Snapshot[2] <= cursor
    /\ \A e \in read.owed : e \in Ids /\ e <= Snapshot[1] /\ e <= Snapshot[2]

\* What was counted was asked for and is not read again.
CountedRightly(e) ==
    /\ read.totals[e] \in {0, 1}
    /\ read.totals[e] = 1 =>
         /\ e \in Ids /\ Matches(e, read.inst) /\ Wanted(read.range, Stamp(e))
         /\ ~RowsHold(read.plan.stats, Stamp(e))
         /\ ~(WindowsReach(read.plan.windows, Stamp(e)) /\ ~Full(read.plan.full, Stamp(e)))

\* What is owed is cached while the cache reaches back, and is counted, will be,
\* or was in a window of the cache and left it.
OwedIsKept(e) ==
    e \in read.owed =>
        /\ e \in cache \/ Stamp(e) < clock - RecentWindow
        /\ (read.range.start < read.now /\ AskedFor(read.range, Stamp(e)) /\ Matches(e, read.inst))
             => \/ read.totals[e] = 1 \/ Slipped(e)
                \/ Coming(read.plan.windows, read.plan.stats, read.plan.full, Stamp(e))

ReadInv ==
    /\ ReadShape /\ SnapshotFits
    /\ \A e \in 1..MaxEvents : CountedRightly(e) /\ OwedIsKept(e)

OverviewInv == OverviewTypes /\ (read.phase = "reading" => ReadInv)

\* What happens beside a read: events are added, none is changed, and the cache
\* loses what it no longer reaches back to.
GoesOn ==
    /\ read' = read /\ clock <= clock' /\ cursor <= cursor' /\ Len(events) <= Len(events')
    /\ \A e \in Ids : e \in Ids' /\ events'[e] = events[e]
    /\ \A e \in cache : e \in cache' \/ Stamp(e) < clock - RecentWindow

LEMMA EventsTyped ==
    ASSUME OverviewTypes
    PROVE  /\ Len(events) \in Nat /\ Ids = 1..Len(events) /\ Ids \subseteq Nat
           /\ \A e \in Ids : Stamp(e) \in Nat /\ Stamp(e) <= clock
<1>1. Len(events) \in Nat /\ Ids = 1..Len(events)
  BY DEF OverviewTypes, Ids
<1>2. ASSUME NEW e \in Ids PROVE Stamp(e) \in Nat /\ Stamp(e) <= clock
  <2>1. events[e] \in [at : Nat, inst : Instances]
    BY <1>1, <1>2, ElementOfSeq DEF OverviewTypes
  <2> QED
    BY <1>2, <2>1 DEF Stamp, OverviewTypes
<1>3. \A n \in Nat : 1..n \subseteq Nat
  OBVIOUS
<1> QED
  BY <1>1, <1>2, <1>3

\* Events that stay as they are keep their instant and their instance.
LEMMA EventsStay ==
    ASSUME events' = events
    PROVE  Ids' = Ids /\ \A e \in Ids : Stamp(e)' = Stamp(e)
BY DEF Ids, Stamp

LEMMA RangesTyped ==
    ASSUME WholeHours, NEW asked \in Nat, NEW r \in Ranges(asked)
    PROVE  r \in Asks
<1>1. asked \in Int /\ DayStart(asked) \in Int /\ LocalHour(asked) \in Int
  <2>1. asked \in Int
    OBVIOUS
  <2> QED
    BY <2>1, Days, LocalHours
<1>2. DaySpan \in Nat /\ HourSpan \in Nat /\ Rolling \subseteq Nat
  BY Lengths, OverviewReadsAssumption
<1>3. CASE r \in CustomHours(asked)
  <2>1. PICK m \in 0 .. (DayHours - 1) :
          r = [kind |-> "hour", start |-> LocalHour(asked) - m * HourSpan,
               end |-> LocalHour(asked) + HourSpan, endExclusive |-> TRUE]
    BY <1>3 DEF CustomHours
  <2>2. m \in Nat /\ m * HourSpan \in Int
    BY <1>2
  <2> QED
    BY <1>1, <1>2, <2>1, <2>2 DEF Asks
<1>4. CASE r \in CustomDays(asked)
  <2>1. PICK back \in (0 .. 1) \X (0 .. 1) :
          r = [kind |-> "day", start |-> DayStart(asked) - back[1] * DaySpan,
               end |-> DayEnd(asked) - back[2] * DaySpan, endExclusive |-> TRUE]
    BY <1>4 DEF CustomDays
  <2>2. back[1] * DaySpan \in Int /\ back[2] * DaySpan \in Int
    BY <1>2
  <2> QED
    BY <1>1, <1>2, <2>1, <2>2 DEF Asks, DayEnd
<1>5. CASE r \in {Today(asked), Yesterday(asked)}
  <2>1. /\ DayEnd(asked) - 1 \in Int /\ DayStart(asked) - 1 \in Int /\ DayStart(asked) - DaySpan \in Int
    BY <1>1, <1>2 DEF DayEnd
  <2>2. Today(asked) \in Asks
    BY <1>1, <2>1 DEF Asks, Today
  <2>3. Yesterday(asked) \in Asks
    BY <1>1, <2>1 DEF Asks, Yesterday
  <2> QED
    BY <1>5, <2>2, <2>3
<1>6. ASSUME NEW d \in Rolling, r = RollingRange(asked, d) PROVE r \in Asks
  <2>1. d \in Nat /\ asked - d \in Int
    BY <1>2, <1>6
  <2> QED
    BY <1>1, <1>6, <2>1 DEF Asks, RollingRange
<1> QED
  BY <1>3, <1>4, <1>5, <1>6 DEF Ranges

LEMMA PlusTyped ==
    ASSUME NEW c \in Counts, NEW S
    PROVE  Plus(c, S) \in Counts /\ \A e \in 1..MaxEvents : Plus(c, S)[e] = IF e \in S THEN c[e] + 1 ELSE c[e]
<1>1. \A e \in 1..MaxEvents : c[e] \in Nat
  BY DEF Counts
<1>2. \A e \in 1..MaxEvents : c[e] + (IF e \in S THEN 1 ELSE 0) \in Nat
  BY <1>1
<1>3. \A e \in 1..MaxEvents : Plus(c, S)[e] = IF e \in S THEN c[e] + 1 ELSE c[e]
  BY <1>1 DEF Plus
<1> QED
  BY <1>2, <1>3 DEF Plus, Counts

LEMMA SnapshotTyped ==
    ASSUME OverviewTypes, read \in Reads
    PROVE  Snapshot \in Seq(Nat)
<1>1. <<Len(events), cursor>> \in Seq(Nat)
  BY EventsTyped DEF OverviewTypes
<1>2. read.snap \in Seq(Nat)
  BY DEF Reads
<1> QED
  BY <1>1, <1>2 DEF Snapshot

LEMMA ReadIsKept ==
    ASSUME OverviewTypes, OverviewTypes', ReadInv, GoesOn
    PROVE  ReadInv'
<1>1. ReadShape'
  BY DEF ReadInv, ReadShape, GoesOn
<1>2. \A e \in Ids : e \in Ids' /\ Stamp(e)' = Stamp(e) /\ Matches(e, read.inst)' = Matches(e, read.inst)
  BY DEF GoesOn, Stamp, Matches
<1>3. SnapshotFits'
  <2>1. CASE read.comparison /\ read.snap # <<>>
    <3>1. Snapshot' = Snapshot
      BY <2>1 DEF Snapshot, GoesOn
    <3> QED
      BY <1>2, <3>1 DEF ReadInv, SnapshotFits, GoesOn, OverviewTypes
  <2>2. CASE ~(read.comparison /\ read.snap # <<>>)
    <3>1. Snapshot = <<Len(events), cursor>> /\ Snapshot' = <<Len(events'), cursor'>>
      BY <2>2 DEF Snapshot, GoesOn
    <3>2. /\ Snapshot[1] = Len(events) /\ Snapshot[2] = cursor
          /\ Snapshot'[1] = Len(events') /\ Snapshot'[2] = cursor'
      BY <3>1
    <3>3. Len(events) \in Nat /\ Len(events') \in Nat /\ cursor \in Nat /\ cursor' \in Nat /\ cursor' <= Len(events')
      BY DEF OverviewTypes
    <3>4. \A e \in read.owed : e \in Ids /\ e <= Len(events) /\ e <= cursor
      BY <3>2 DEF ReadInv, SnapshotFits
    <3>5. ASSUME NEW e \in read'.owed PROVE e \in Ids' /\ e <= Len(events') /\ e <= cursor'
      <4>1. e \in Ids /\ e <= Len(events) /\ e <= cursor
        BY <3>4, <3>5 DEF GoesOn
      <4>2. e \in Nat /\ cursor <= cursor' /\ Len(events) <= Len(events')
        BY <4>1, EventsTyped DEF GoesOn
      <4> QED
        BY <1>2, <3>3, <4>1, <4>2
    <3>6. \A e \in read'.owed : e \in Ids' /\ e <= Snapshot'[1] /\ e <= Snapshot'[2]
      BY <3>2, <3>5
    <3> QED
      BY <3>2, <3>3, <3>6 DEF SnapshotFits
  <2> QED
    BY <2>1, <2>2
<1>4. ASSUME NEW e \in 1..MaxEvents PROVE CountedRightly(e)' /\ OwedIsKept(e)'
  <2>1. CountedRightly(e) /\ OwedIsKept(e)
    BY DEF ReadInv
  <2>2. CountedRightly(e)'
    BY <1>2, <2>1 DEF CountedRightly, GoesOn
  <2>3. ASSUME e \in read.owed PROVE OwedIsKept(e)'
    <3>1. e \in cache \/ Stamp(e) < clock - RecentWindow
      BY <2>1, <2>3 DEF OwedIsKept, ReadInv, SnapshotFits
    <3>2. e \in Ids
      BY <2>3 DEF ReadInv, SnapshotFits
    <3>3. Stamp(e) \in Nat /\ clock \in Nat /\ clock' \in Nat /\ clock <= clock' /\ RecentWindow \in Nat
      BY <3>2, EventsTyped, OverviewReadsAssumption DEF OverviewTypes, GoesOn
    <3>4. e \in cache' \/ Stamp(e)' < clock' - RecentWindow
      BY <1>2, <3>1, <3>2, <3>3 DEF GoesOn
    <3>5. Slipped(e) => Slipped(e)'
      BY <1>2, <3>2, <3>3 DEF Slipped, GoesOn
    <3> QED
      BY <1>2, <2>1, <2>3, <3>2, <3>4, <3>5 DEF OwedIsKept, GoesOn
  <2>4. ASSUME e \notin read.owed PROVE OwedIsKept(e)'
    BY <2>4 DEF OwedIsKept, GoesOn
  <2> QED
    BY <2>2, <2>3, <2>4
<1> QED
  BY <1>1, <1>3, <1>4 DEF ReadInv

LEMMA OthersGoOn ==
    ASSUME OverviewTypes,
           \/ ClockTick \/ AppendRecent \/ Aggregate
           \/ \E t \in {u \in Times : u <= clock}, i \in Instances : Store(t, i)
    PROVE  OverviewTypes' /\ GoesOn
<1>0. /\ Times \subseteq Nat /\ PageSize \in Nat \ {0} /\ MaxEvents \in Nat
      /\ Len(events) \in Nat /\ Ids = 1..Len(events) /\ \A e \in Ids : Stamp(e) \in Nat
  BY EventsTyped, OverviewReadsAssumption DEF OverviewTypes
<1>1. CASE ClockTick
  <2>1. events' = events /\ cursor' = cursor /\ queue' = queue /\ cache' = cache /\ read' = read /\ clock' = clock + 1
    BY <1>1 DEF ClockTick
  <2>2. Ids' = Ids /\ \A e \in Ids : Stamp(e)' = Stamp(e)
    BY <2>1 DEF Ids, Stamp
  <2> QED
    BY <1>0, <2>1, <2>2 DEF OverviewTypes, GoesOn
<1>2. CASE AppendRecent
  <2>1. /\ events' = events /\ cursor' = cursor /\ clock' = clock /\ read' = read
        /\ queue # <<>> /\ queue' = Tail(queue) /\ cache' = Retained(cache \cup {Head(queue)})
    BY <1>2 DEF AppendRecent
  <2>2. Ids' = Ids /\ \A e \in Ids : Stamp(e)' = Stamp(e)
    BY <2>1 DEF Ids, Stamp
  <2>3. /\ Head(queue) = queue[1] /\ 1 \in DOMAIN queue /\ Tail(queue) \in Seq(Nat)
        /\ \A i \in DOMAIN Tail(queue) : i + 1 \in DOMAIN queue /\ Tail(queue)[i] = queue[i + 1]
    BY <2>1 DEF OverviewTypes
  <2>4. cache' \subseteq Ids /\ \A e \in cache : e \in cache' \/ ~(Stamp(e) >= clock - RecentWindow)
    BY <2>1, <2>3 DEF Retained, OverviewTypes
  <2>5. \A e \in cache : e \in cache' \/ Stamp(e) < clock - RecentWindow
    BY <1>0, <2>4, OverviewReadsAssumption DEF OverviewTypes
  <2>6. \A i \in DOMAIN queue' : queue'[i] \in Ids'
    BY <2>1, <2>2, <2>3 DEF OverviewTypes
  <2>7. OverviewTypes'
    BY <2>1, <2>2, <2>3, <2>4, <2>6 DEF OverviewTypes
  <2>8. clock <= clock' /\ cursor <= cursor' /\ Len(events) <= Len(events')
    BY <1>0, <2>1 DEF OverviewTypes
  <2>9. GoesOn
    BY <2>1, <2>2, <2>5, <2>8 DEF GoesOn
  <2> QED
    BY <2>7, <2>9
<1>3. CASE Aggregate
  <2>1. /\ events' = events /\ clock' = clock /\ read' = read /\ queue' = queue /\ cache' = cache
        /\ cursor' \in Nat /\ cursor <= cursor' /\ cursor' <= Len(events)
    BY <1>0, <1>3 DEF Aggregate, OverviewTypes
  <2>2. Ids' = Ids /\ \A e \in Ids : Stamp(e)' = Stamp(e)
    BY <2>1 DEF Ids, Stamp
  <2> QED
    BY <1>0, <2>1, <2>2 DEF OverviewTypes, GoesOn
<1>4. ASSUME NEW t \in {u \in Times : u <= clock}, NEW i \in Instances, Store(t, i)
      PROVE  OverviewTypes' /\ GoesOn
  <2> DEFINE new == [at |-> t, inst |-> i]
  <2>1. /\ clock' = clock /\ cursor' = cursor /\ cache' = cache /\ read' = read
        /\ events' = Append(events, new) /\ Len(events) < MaxEvents
        /\ queue' = IF Len(queue) < QueueSize THEN Append(queue, Len(events) + 1) ELSE queue
    BY <1>4 DEF Store
  <2>2. new \in [at : Nat, inst : Instances] /\ t \in Nat /\ t <= clock /\ new.at = t
    BY <1>0
  <2> HIDE DEF new
  <2>3. /\ events' \in Seq([at : Nat, inst : Instances]) /\ Len(events') = Len(events) + 1
        /\ \A e \in 1..Len(events) : events'[e] = events[e]
        /\ events'[Len(events) + 1] = new
    BY <2>1, <2>2 DEF OverviewTypes
  <2>4. Ids' = 1..(Len(events) + 1)
    BY <2>3 DEF Ids
  <2>5. /\ \A e \in Ids : e \in Ids' /\ events'[e] = events[e]
        /\ Len(events) + 1 \in Ids' /\ \A e \in Ids' : e \in Ids \/ e = Len(events) + 1
    BY <1>0, <2>3, <2>4
  <2>6. \A e \in Ids' : Stamp(e)' <= clock'
    BY <2>1, <2>2, <2>3, <2>5 DEF Stamp, OverviewTypes
  <2>7. queue' \in Seq(Nat) /\ \A k \in DOMAIN queue' : queue'[k] \in Ids'
    <3>1. CASE queue' = queue
      BY <2>5, <3>1 DEF OverviewTypes
    <3>2. CASE queue' = Append(queue, Len(events) + 1)
      <4>1. /\ queue' \in Seq(Nat) /\ Len(queue) \in Nat /\ DOMAIN queue' = 1..(Len(queue) + 1)
            /\ queue'[Len(queue) + 1] = Len(events) + 1
            /\ \A k \in 1..Len(queue) : k \in DOMAIN queue /\ queue'[k] = queue[k]
        BY <1>0, <3>2 DEF OverviewTypes
      <4>2. \A k \in 1..Len(queue) : queue'[k] \in Ids'
        BY <2>5, <4>1 DEF OverviewTypes
      <4>3. \A k \in DOMAIN queue' : k \in 1..Len(queue) \/ k = Len(queue) + 1
        BY <4>1
      <4> QED
        BY <2>5, <4>1, <4>2, <4>3
    <3>3. queue' = queue \/ queue' = Append(queue, Len(events) + 1)
      BY <2>1
    <3> QED
      BY <3>1, <3>2, <3>3
  <2>8. cache' \subseteq Ids' /\ cursor' \in Nat /\ cursor' <= Len(events') /\ Len(events') <= MaxEvents
    BY <1>0, <2>1, <2>3, <2>5 DEF OverviewTypes
  <2>9. OverviewTypes'
    BY <2>1, <2>3, <2>6, <2>7, <2>8 DEF OverviewTypes
  <2>10. GoesOn
    BY <1>0, <2>1, <2>3, <2>5 DEF OverviewTypes, GoesOn
  <2> QED
    BY <2>9, <2>10
<1> QED
  BY <1>1, <1>2, <1>3, <1>4
-----------------------------------------------------------------------------
(* The overview: the steps of a read.                                      *)

LEMMA RowsTail ==
    ASSUME NEW S \in Seq(Rollups), S # <<>>, RowsApart(S)
    PROVE  /\ Tail(S) \in Seq(Rollups) /\ RowsApart(Tail(S))
           /\ \A t \in Nat : RowsHold(S, t) <=> InRows(Head(S), t) \/ RowsHold(Tail(S), t)
           /\ \A t \in Nat : ~(InRows(Head(S), t) /\ RowsHold(Tail(S), t))
<1> DEFINE T == Tail(S)
<1>1. /\ T \in Seq(Rollups) /\ Head(S) = S[1] /\ 1 \in DOMAIN S /\ Len(S) \in Nat /\ DOMAIN S = 1..Len(S)
      /\ DOMAIN T = 1..(Len(S) - 1) /\ \A i \in DOMAIN T : T[i] = S[i + 1]
  OBVIOUS
<1> HIDE DEF T
<1>2. /\ \A i \in DOMAIN T : i + 1 \in DOMAIN S /\ i + 1 # 1
      /\ \A i \in DOMAIN S : i = 1 \/ (i - 1 \in DOMAIN T /\ T[i - 1] = S[i])
      /\ \A i, j \in DOMAIN T : i + 1 = j + 1 => i = j
  BY <1>1
<1>3. RowsApart(T)
  <2> SUFFICES ASSUME NEW i \in DOMAIN T, NEW j \in DOMAIN T, NEW t \in Nat, InRows(T[i], t), InRows(T[j], t)
               PROVE  i = j
    BY DEF RowsApart
  <2>1. i + 1 \in DOMAIN S /\ j + 1 \in DOMAIN S /\ InRows(S[i + 1], t) /\ InRows(S[j + 1], t)
    BY <1>1, <1>2
  <2>2. i + 1 = j + 1
    BY <2>1 DEF RowsApart
  <2> QED
    BY <1>2, <2>2
<1>4. ASSUME NEW t \in Nat PROVE RowsHold(S, t) <=> InRows(Head(S), t) \/ RowsHold(T, t)
  <2>1. RowsHold(S, t) => InRows(S[1], t) \/ RowsHold(T, t)
    BY <1>2 DEF RowsHold
  <2>2. InRows(S[1], t) => RowsHold(S, t)
    BY <1>1 DEF RowsHold
  <2>3. RowsHold(T, t) => RowsHold(S, t)
    BY <1>1, <1>2 DEF RowsHold
  <2> QED
    BY <1>1, <2>1, <2>2, <2>3
<1>5. ASSUME NEW t \in Nat, InRows(Head(S), t), RowsHold(T, t) PROVE FALSE
  <2>1. PICK i \in DOMAIN T : InRows(T[i], t)
    BY <1>5 DEF RowsHold
  <2>2. i + 1 \in DOMAIN S /\ InRows(S[i + 1], t) /\ InRows(S[1], t) /\ 1 \in DOMAIN S /\ i + 1 # 1
    BY <1>1, <1>2, <1>5, <2>1
  <2> QED
    BY <2>2 DEF RowsApart
<1> QED
  BY <1>1, <1>3, <1>4, <1>5 DEF T

LEMMA WindowsTail ==
    ASSUME NEW W \in Seq(Windows), W # <<>>, WindowsApart(W)
    PROVE  /\ Tail(W) \in Seq(Windows) /\ WindowsApart(Tail(W)) /\ Head(W) \in Windows
           /\ \A t \in Nat : WindowsReach(W, t) <=> Reaches(Head(W), t) \/ WindowsReach(Tail(W), t)
           /\ \A t \in Nat : WindowsHold(W, t) => InSpan(t, Head(W)) \/ WindowsHold(Tail(W), t)
           /\ \A t \in Nat : ~(Reaches(Head(W), t) /\ WindowsReach(Tail(W), t))
<1> DEFINE T == Tail(W)
<1>1. /\ T \in Seq(Windows) /\ Head(W) = W[1] /\ 1 \in DOMAIN W /\ Len(W) \in Nat /\ DOMAIN W = 1..Len(W)
      /\ DOMAIN T = 1..(Len(W) - 1) /\ \A i \in DOMAIN T : T[i] = W[i + 1]
  OBVIOUS
<1>2. Head(W) \in Windows
  BY <1>1
<1> HIDE DEF T
<1>3. /\ \A i \in DOMAIN T : i + 1 \in DOMAIN W /\ i + 1 # 1
      /\ \A i \in DOMAIN W : i = 1 \/ (i - 1 \in DOMAIN T /\ T[i - 1] = W[i])
      /\ \A i, j \in DOMAIN T : i + 1 = j + 1 => i = j
  BY <1>1
<1>4. WindowsApart(T)
  <2> SUFFICES ASSUME NEW i \in DOMAIN T, NEW j \in DOMAIN T, NEW t \in Nat, Reaches(T[i], t), Reaches(T[j], t)
               PROVE  i = j
    BY DEF WindowsApart
  <2>1. i + 1 \in DOMAIN W /\ j + 1 \in DOMAIN W /\ Reaches(W[i + 1], t) /\ Reaches(W[j + 1], t)
    BY <1>1, <1>3
  <2>2. i + 1 = j + 1
    BY <2>1 DEF WindowsApart
  <2> QED
    BY <1>3, <2>2
<1>5. ASSUME NEW t \in Nat PROVE WindowsReach(W, t) <=> Reaches(Head(W), t) \/ WindowsReach(T, t)
  <2>1. WindowsReach(W, t) => Reaches(W[1], t) \/ WindowsReach(T, t)
    BY <1>3 DEF WindowsReach
  <2>2. Reaches(W[1], t) => WindowsReach(W, t)
    BY <1>1 DEF WindowsReach
  <2>3. WindowsReach(T, t) => WindowsReach(W, t)
    BY <1>1, <1>3 DEF WindowsReach
  <2> QED
    BY <1>1, <2>1, <2>2, <2>3
<1>6. ASSUME NEW t \in Nat PROVE WindowsHold(W, t) => InSpan(t, Head(W)) \/ WindowsHold(T, t)
  BY <1>1, <1>3 DEF WindowsHold
<1>7. ASSUME NEW t \in Nat, Reaches(Head(W), t), WindowsReach(T, t) PROVE FALSE
  <2>1. PICK i \in DOMAIN T : Reaches(T[i], t)
    BY <1>7 DEF WindowsReach
  <2>2. i + 1 \in DOMAIN W /\ Reaches(W[i + 1], t) /\ Reaches(W[1], t) /\ 1 \in DOMAIN W /\ i + 1 # 1
    BY <1>1, <1>3, <1>7, <2>1
  <2> QED
    BY <2>2 DEF WindowsApart
<1> QED
  BY <1>1, <1>2, <1>4, <1>5, <1>6, <1>7 DEF T

LEMMA SnapshotStays ==
    ASSUME SnapshotFits, OverviewTypes, events' = events, cursor' = cursor,
           read'.comparison = read.comparison, read'.owed = read.owed,
           read'.snap = Snapshot \/ read'.snap = read.snap
    PROVE  SnapshotFits'
<1>1. CASE read.comparison /\ read.snap # <<>>
  <2>1. Snapshot = read.snap
    BY <1>1 DEF Snapshot
  <2>2. Snapshot' = Snapshot
    BY <1>1, <2>1 DEF Snapshot
  <2> QED
    BY <2>2 DEF SnapshotFits, Ids
<1>2. CASE ~(read.comparison /\ read.snap # <<>>)
  <2>1. Snapshot = <<Len(events), cursor>>
    BY <1>2 DEF Snapshot
  <2>2. Snapshot' = Snapshot
    BY <1>2, <2>1 DEF Snapshot
  <2> QED
    BY <2>2 DEF SnapshotFits, Ids
<1> QED
  BY <1>1, <1>2

\* A plan is a record, and nothing has been read of it yet.
LEMMA ReadBegins ==
    ASSUME WholeHours, OverviewTypes, NEW r \in Ranges(clock), NEW inst \in Filters, NEW c \in BOOLEAN, Begin(r, inst, c)
    PROVE  OverviewTypes' /\ ReadInv'
<1> DEFINE p == Plan(r, clock)
<1>1. /\ clock' = clock /\ events' = events /\ cursor' = cursor /\ queue' = queue /\ cache' = cache
      /\ read' = [phase |-> "reading", range |-> r, now |-> clock, inst |-> inst,
                  comparison |-> c, plan |-> p, snap |-> <<>>,
                  totals |-> Nothing, series |-> Nothing, owed |-> Settled, served |-> {}]
  BY DEF Begin
<1>2. p = [windows |-> p.windows, stats |-> p.stats, full |-> p.full]
  <2>1. CASE r.kind = "hour"
    BY <2>1 DEF Plan
  <2>2. CASE r.kind = "day"
    BY <2>2 DEF Plan
  <2>3. CASE r.kind # "hour" /\ r.kind # "day"
    BY <2>3 DEF Plan
  <2> QED
    BY <2>1, <2>2, <2>3
<1>3. /\ Disjoint(p.windows, p.stats, p.full, r)
      /\ r.start < clock =>
           \A t \in Nat : t <= clock /\ AskedFor(r, t) => Coming(p.windows, p.stats, p.full, t)
  BY PlanCovers DEF OverviewTypes
<1> HIDE DEF p
<1>4. /\ read'.phase = "reading" /\ read'.range = r /\ read'.now = clock /\ read'.inst = inst
      /\ read'.comparison = c /\ read'.plan = p /\ read'.snap = <<>> /\ read'.totals = Nothing
      /\ read'.series = Nothing /\ read'.owed = Settled /\ read'.served = {}
  BY <1>1
<1>5. Ids' = Ids /\ \A e \in Ids : Stamp(e)' = Stamp(e) /\ Stamp(e) \in Nat /\ Stamp(e) <= clock
  BY <1>1, EventsStay, EventsTyped
<1>6. OverviewTypes'
  BY <1>1, <1>5 DEF OverviewTypes
<1>7. ReadShape'
  <2>1. r \in Asks /\ clock \in Nat
    BY RangesTyped DEF OverviewTypes
  <2>2. p \in Plans
    BY <1>2, <1>3 DEF Plans, Disjoint
  <2>3. Nothing \in Counts /\ Settled \in SUBSET Nat /\ <<>> \in Seq(Nat)
    BY EventsTyped DEF Nothing, Counts, Settled
  <2>4. read' \in Reads
    BY <1>1, <2>1, <2>2, <2>3 DEF Reads
  <2> QED
    BY <1>3, <1>4, <2>4 DEF ReadShape
<1>8. SnapshotFits'
  <2>1. Snapshot' = <<Len(events), cursor>>
    BY <1>1, <1>4 DEF Snapshot
  <2>2. Snapshot'[1] = Len(events) /\ Snapshot'[2] = cursor
    BY <2>1
  <2>3. Len(events) \in Nat /\ cursor \in Nat /\ cursor <= Len(events) /\ Ids = 1..Len(events)
    BY DEF OverviewTypes, Ids
  <2>4. \A e \in Settled : e \in Ids /\ e <= Len(events) /\ e <= cursor
    BY <2>3 DEF Settled
  <2> QED
    BY <1>1, <1>4, <1>5, <2>2, <2>3, <2>4 DEF SnapshotFits
<1>9. ASSUME NEW e \in 1..MaxEvents PROVE CountedRightly(e)' /\ OwedIsKept(e)'
  <2>1. read'.totals[e] = 0
    BY <1>4 DEF Nothing
  <2>2. CountedRightly(e)'
    BY <2>1 DEF CountedRightly
  <2>3. e \in Settled => e \in Ids /\ (e \in cache \/ Stamp(e) < clock - RecentWindow)
    BY DEF Settled
  <2>4. OwedIsKept(e)'
    BY <1>1, <1>3, <1>4, <1>5, <2>3 DEF OwedIsKept
  <2> QED
    BY <2>2, <2>4
<1> QED
  BY <1>6, <1>7, <1>8, <1>9 DEF ReadInv

\* What an event of a window has to do with its instant.
LEMMA WindowEvents ==
    ASSUME OverviewTypes, SnapshotFits, NEW w \in Windows, NEW e \in Ids
    PROVE  /\ e \in CachedEvents(w, read.inst) <=>
                 e \in cache /\ Matches(e, read.inst) /\ IF w.current THEN Stamp(e) >= w.start ELSE InSpan(Stamp(e), w)
           /\ e \in StoredEvents(w, read.inst, 1..Snapshot[1]) <=>
                 e <= Snapshot[1] /\ Matches(e, read.inst) /\ InSpan(Stamp(e), w)
<1>1. InWindow(e, w) <=> InSpan(Stamp(e), w)
  BY DEF InWindow, InSpan
<1>2. e \in 1..Snapshot[1] <=> e <= Snapshot[1]
  BY DEF SnapshotFits, OverviewTypes, Ids
<1> QED
  BY <1>1, <1>2 DEF CachedEvents, StoredEvents

LEMMA WindowIsRead ==
    ASSUME OverviewTypes, ReadInv, ReadWindow
    PROVE  OverviewTypes' /\ ReadInv'
<1> DEFINE W == read.plan.windows
           T == Tail(W)
           w == Head(W)
           R == read.plan.stats
           f == read.plan.full
           cached == Covers(w, read.now)
           S == Ragged(IF cached THEN CachedEvents(w, read.inst)
                       ELSE StoredEvents(w, read.inst, 1..Snapshot[1]))
<1>1. /\ clock' = clock /\ events' = events /\ cursor' = cursor /\ queue' = queue /\ cache' = cache
      /\ W # <<>>
      /\ read' = [read EXCEPT !.plan.windows = T, !.totals = Plus(@, S), !.series = Plus(@, S),
                              !.snap = IF cached THEN @ ELSE Snapshot,
                              !.served = IF cached THEN @ \cup {w} ELSE @]
  BY DEF ReadWindow
<1> HIDE DEF S
<1>2. read \in Reads /\ Disjoint(W, R, f, read.range)
  BY DEF ReadInv, ReadShape
<1> HIDE DEF W, R, f
<1>3. /\ T \in Seq(Windows) /\ WindowsApart(T) /\ w \in Windows
      /\ \A t \in Nat : WindowsReach(W, t) <=> Reaches(w, t) \/ WindowsReach(T, t)
      /\ \A t \in Nat : WindowsHold(W, t) => InSpan(t, w) \/ WindowsHold(T, t)
      /\ \A t \in Nat : ~(Reaches(w, t) /\ WindowsReach(T, t))
  BY <1>1, <1>2, WindowsTail DEF Disjoint
<1> HIDE DEF T, w
<1>4. /\ read'.range = read.range /\ read'.now = read.now /\ read'.inst = read.inst
      /\ read'.comparison = read.comparison /\ read'.owed = read.owed
      /\ read'.totals = Plus(read.totals, S)
      /\ read'.snap = read.snap \/ read'.snap = Snapshot
      /\ read.served \subseteq read'.served /\ (cached => w \in read'.served)
      /\ read'.plan.windows = T /\ read'.plan.stats = R /\ read'.plan.full = f
      /\ read' \in Reads
  <2> DEFINE snap == IF cached THEN read.snap ELSE Snapshot
             served == IF cached THEN read.served \cup {w} ELSE read.served
  <2>1. Plus(read.totals, S) \in Counts /\ Plus(read.series, S) \in Counts
    BY <1>2, PlusTyped DEF Reads
  <2> HIDE DEF cached
  <2>2. snap \in Seq(Nat) /\ served \in SUBSET Windows
    BY <1>2, <1>3, SnapshotTyped DEF Reads
  <2>3. (snap = read.snap \/ snap = Snapshot) /\ read.served \subseteq served /\ (cached => w \in served)
    OBVIOUS
  <2>4. read' = [read EXCEPT !.plan.windows = T, !.totals = Plus(read.totals, S),
                             !.series = Plus(read.series, S), !.snap = snap, !.served = served]
    BY <1>1
  <2> HIDE DEF snap, served
  <2>5. /\ read' \in Reads
        /\ read'.range = read.range /\ read'.now = read.now /\ read'.inst = read.inst
        /\ read'.comparison = read.comparison /\ read'.owed = read.owed
        /\ read'.totals = Plus(read.totals, S) /\ read'.snap = snap /\ read'.served = served
        /\ read'.plan.windows = T /\ read'.plan.stats = read.plan.stats /\ read'.plan.full = read.plan.full
    BY <1>2, <1>3, <2>1, <2>2, <2>4 DEF Reads, Plans
  <2> QED
    BY <2>3, <2>5 DEF R, f
<1>5. \A e \in 1..MaxEvents : /\ read.totals[e] \in Nat
                             /\ read'.totals[e] = IF e \in S THEN read.totals[e] + 1 ELSE read.totals[e]
  <2>1. read.totals \in Counts
    BY <1>2 DEF Reads
  <2>2. \A e \in 1..MaxEvents : read.totals[e] \in Nat
    BY <2>1 DEF Counts
  <2> QED
    BY <1>4, <2>1, <2>2, PlusTyped
<1>6. Disjoint(T, R, f, read.range)
  BY <1>1, <1>2, <1>3 DEF Disjoint
<1>7. Ids' = Ids /\ \A e \in Ids : Stamp(e)' = Stamp(e) /\ Stamp(e) \in Nat /\ Matches(e, read.inst)' = Matches(e, read.inst)
  <2>1. \A e \in Ids : Matches(e, read.inst)' = Matches(e, read.inst)
    BY <1>1, <1>4 DEF Matches
  <2> QED
    BY <1>1, <2>1, EventsStay, EventsTyped
<1>8. OverviewTypes'
  BY <1>1, <1>7 DEF OverviewTypes
<1>9. ReadShape'
  BY <1>4, <1>6 DEF ReadShape
<1>10. SnapshotFits /\ SnapshotFits'
  BY <1>1, <1>4, SnapshotStays DEF ReadInv
\* An event of the window has not been counted before, and will not be again.
<1>11. ASSUME NEW e \in S
       PROVE  /\ e \in Ids /\ Matches(e, read.inst) /\ ~Full(f, Stamp(e)) /\ Reaches(w, Stamp(e))
  <2>1. ~Full(f, Stamp(e))
    BY <1>11 DEF S, Ragged, Full, f
  <2>2. CASE cached
    <3>1. e \in CachedEvents(w, read.inst)
      BY <1>11, <2>2 DEF S, Ragged
    <3>2. e \in Ids
      BY <3>1 DEF CachedEvents, OverviewTypes
    <3>3. /\ Matches(e, read.inst)
          /\ IF w.current THEN Stamp(e) >= w.start ELSE InSpan(Stamp(e), w)
      BY <1>3, <1>10, <3>1, <3>2, WindowEvents
    <3>4. InSpan(Stamp(e), w) => Stamp(e) >= w.start
      BY DEF InSpan
    <3>5. Stamp(e) >= w.start /\ (w.current \/ InSpan(Stamp(e), w))
      BY <3>3, <3>4
    <3> QED
      BY <2>1, <3>2, <3>3, <3>5 DEF Reaches
  <2>3. CASE ~cached
    <3>1. e \in StoredEvents(w, read.inst, 1..Snapshot[1])
      BY <1>11, <2>3 DEF S, Ragged
    <3>2. e \in Ids
      BY <1>10, <3>1 DEF StoredEvents, SnapshotFits, OverviewTypes, Ids
    <3>3. Matches(e, read.inst) /\ InSpan(Stamp(e), w)
      BY <1>3, <1>10, <3>1, <3>2, WindowEvents
    <3>4. InSpan(Stamp(e), w) => Stamp(e) >= w.start
      BY DEF InSpan
    <3> QED
      BY <2>1, <3>2, <3>3, <3>4 DEF Reaches
  <2> QED
    BY <2>2, <2>3
<1>12. ASSUME NEW e \in 1..MaxEvents PROVE CountedRightly(e)'
  <2>1. CountedRightly(e)
    BY DEF ReadInv
  <2>2. CASE e \in S
    <3>1. /\ e \in Ids /\ Matches(e, read.inst) /\ ~Full(f, Stamp(e)) /\ Reaches(w, Stamp(e)) /\ Stamp(e) \in Nat
      BY <1>7, <1>11, <2>2
    <3>2. WindowsReach(W, Stamp(e)) /\ ~WindowsReach(T, Stamp(e))
      BY <1>3, <3>1
    <3>3. Wanted(read.range, Stamp(e)) /\ ~RowsHold(R, Stamp(e))
      BY <1>1, <1>2, <3>1, <3>2 DEF Disjoint
    <3>4. read.totals[e] = 0
      BY <2>1, <3>1, <3>2 DEF CountedRightly, W, f
    <3>5. read'.totals[e] = 1
      BY <1>5, <2>2, <3>4
    <3> QED
      BY <1>4, <1>7, <3>1, <3>2, <3>3, <3>5 DEF CountedRightly
  <2>3. CASE e \notin S
    <3>1. read'.totals[e] = read.totals[e]
      BY <1>5, <2>3
    <3>2. e \in Ids => (WindowsReach(T, Stamp(e)) => WindowsReach(W, Stamp(e)))
      BY <1>3, <1>7
    <3> QED
      BY <1>4, <1>7, <2>1, <3>1, <3>2 DEF CountedRightly, W, R, f
  <2> QED
    BY <2>2, <2>3
<1>13. ASSUME NEW e \in 1..MaxEvents, e \in read.owed PROVE OwedIsKept(e)'
  <2>1. OwedIsKept(e) /\ CountedRightly(e) /\ CountedRightly(e)'
    BY <1>12 DEF ReadInv
  <2>2. e \in Ids /\ e <= Snapshot[1] /\ (e \in cache \/ Stamp(e) < clock - RecentWindow)
    BY <1>10, <1>13, <2>1 DEF SnapshotFits, OwedIsKept
  <2>3. e \in Ids' /\ (e \in cache' \/ Stamp(e)' < clock' - RecentWindow)
    BY <1>1, <1>7, <2>2
  <2>4. ASSUME read.range.start < read.now, AskedFor(read.range, Stamp(e)), Matches(e, read.inst)
        PROVE  read'.totals[e] = 1 \/ Slipped(e)' \/ Coming(T, R, f, Stamp(e))
    <3>1. CASE read.totals[e] = 1
      <4>1. read'.totals[e] = 1 \/ read'.totals[e] = 2
        BY <1>5, <3>1
      <4> QED
        BY <2>1, <4>1 DEF CountedRightly
    <3>2. CASE Slipped(e)
      BY <1>1, <1>4, <1>7, <2>2, <3>2 DEF Slipped
    <3>3. CASE e \in S /\ read.totals[e] = 0
      BY <1>5, <3>3
    <3>4. CASE Coming(W, R, f, Stamp(e)) /\ e \notin S
      <4>1. CASE InSpan(Stamp(e), w) /\ ~Full(f, Stamp(e))
        <5>1. cached /\ e \notin CachedEvents(w, read.inst)
          <6>1. e \in StoredEvents(w, read.inst, 1..Snapshot[1])
            BY <1>3, <1>10, <2>2, <2>4, <4>1, WindowEvents
          <6> QED
            BY <3>4, <4>1, <6>1 DEF S, Ragged, Full, f
        <5>2. w.start <= Stamp(e) /\ e \notin cache
          BY <1>3, <1>10, <2>2, <2>4, <4>1, <5>1, WindowEvents DEF InSpan
        <5>3. Stamp(e) >= read.now - RecentWindow
          <6>1. w.start \in Int /\ w.end \in Int /\ Stamp(e) \in Nat /\ read.now \in Nat /\ RecentWindow \in Nat
            BY <1>2, <1>3, <1>7, <2>2, OverviewReadsAssumption DEF Windows, Reads
          <6>2. w.start >= read.now - RecentWindow
            BY <4>1, <5>1, <6>1 DEF Covers, InSpan
          <6> QED
            BY <5>2, <6>1, <6>2
        <5> QED
          BY <1>1, <1>4, <1>7, <2>2, <5>1, <5>2, <5>3 DEF Slipped
      <4>2. CASE ~(InSpan(Stamp(e), w) /\ ~Full(f, Stamp(e)))
        BY <1>3, <1>7, <2>2, <3>4, <4>2 DEF Coming
      <4> QED
        BY <4>1, <4>2
    <3>5. read.totals[e] \in {0, 1} /\ (read.totals[e] = 1 \/ Slipped(e) \/ Coming(W, R, f, Stamp(e)))
      BY <1>13, <2>1, <2>4 DEF OwedIsKept, CountedRightly, W, R, f
    <3> QED
      BY <3>1, <3>2, <3>3, <3>4, <3>5
  <2> QED
    BY <1>4, <1>7, <2>2, <2>3, <2>4 DEF OwedIsKept
<1>14. ASSUME NEW e \in 1..MaxEvents, e \notin read.owed PROVE OwedIsKept(e)'
  BY <1>4, <1>14 DEF OwedIsKept
<1> QED
  BY <1>8, <1>9, <1>10, <1>12, <1>13, <1>14 DEF ReadInv

LEMMA StatsAreRead ==
    ASSUME OverviewTypes, ReadInv, ReadStats
    PROVE  OverviewTypes' /\ ReadInv'
<1> DEFINE R == read.plan.stats
           T == Tail(R)
           s == Head(R)
           f == read.plan.full
           S == StatRows(s, read.inst, Snapshot[2])
           series == Plus(read.series, IF read.comparison THEN SeriesRows(s, read.inst, Snapshot[2]) ELSE S)
<1>1. /\ clock' = clock /\ events' = events /\ cursor' = cursor /\ queue' = queue /\ cache' = cache
      /\ read.plan.windows = <<>> /\ R # <<>>
      /\ read' = [read EXCEPT !.plan.stats = T, !.totals = Plus(read.totals, S), !.series = series,
                              !.snap = Snapshot]
  BY DEF ReadStats
<1> HIDE DEF S, series
<1>2. read \in Reads /\ Disjoint(<<>>, R, f, read.range)
  BY <1>1 DEF ReadInv, ReadShape
<1> HIDE DEF R, f
<1>3. /\ T \in Seq(Rollups) /\ RowsApart(T)
      /\ \A t \in Nat : RowsHold(R, t) <=> InRows(s, t) \/ RowsHold(T, t)
      /\ \A t \in Nat : ~(InRows(s, t) /\ RowsHold(T, t))
  BY <1>1, <1>2, RowsTail DEF Disjoint
<1> HIDE DEF T, s
<1>4. /\ read'.range = read.range /\ read'.now = read.now /\ read'.inst = read.inst
      /\ read'.comparison = read.comparison /\ read'.owed = read.owed
      /\ read'.totals = Plus(read.totals, S)
      /\ read'.snap = Snapshot /\ read'.served = read.served
      /\ read'.plan.windows = <<>> /\ read'.plan.stats = T /\ read'.plan.full = f
      /\ read' \in Reads
  <2>1. Plus(read.totals, S) \in Counts /\ series \in Counts
    BY <1>2, PlusTyped DEF Reads, series
  <2>2. Snapshot \in Seq(Nat)
    BY <1>2, SnapshotTyped
  <2>3. /\ read' \in Reads
        /\ read'.range = read.range /\ read'.now = read.now /\ read'.inst = read.inst
        /\ read'.comparison = read.comparison /\ read'.owed = read.owed
        /\ read'.totals = Plus(read.totals, S) /\ read'.snap = Snapshot /\ read'.served = read.served
        /\ read'.plan.windows = read.plan.windows /\ read'.plan.stats = T /\ read'.plan.full = read.plan.full
    BY <1>1, <1>2, <1>3, <2>1, <2>2 DEF Reads, Plans
  <2> QED
    BY <1>1, <2>3 DEF f
<1>5. \A e \in 1..MaxEvents : /\ read.totals[e] \in Nat
                             /\ read'.totals[e] = IF e \in S THEN read.totals[e] + 1 ELSE read.totals[e]
  <2>1. read.totals \in Counts
    BY <1>2 DEF Reads
  <2>2. \A e \in 1..MaxEvents : read.totals[e] \in Nat
    BY <2>1 DEF Counts
  <2> QED
    BY <1>4, <2>1, <2>2, PlusTyped
<1>6. Disjoint(<<>>, T, f, read.range)
  BY <1>2, <1>3 DEF Disjoint
<1>7. Ids' = Ids /\ \A e \in Ids : Stamp(e)' = Stamp(e) /\ Stamp(e) \in Nat /\ Matches(e, read.inst)' = Matches(e, read.inst)
  <2>1. \A e \in Ids : Matches(e, read.inst)' = Matches(e, read.inst)
    BY <1>1, <1>4 DEF Matches
  <2> QED
    BY <1>1, <2>1, EventsStay, EventsTyped
<1>8. OverviewTypes'
  BY <1>1, <1>7 DEF OverviewTypes
<1>9. ReadShape'
  BY <1>4, <1>6 DEF ReadShape
<1>10. SnapshotFits /\ SnapshotFits'
  BY <1>1, <1>4, SnapshotStays DEF ReadInv
<1>11. \A e \in Ids : e \in S <=> e <= Snapshot[2] /\ Matches(e, read.inst) /\ InRows(s, Stamp(e))
  <2>1. ASSUME NEW e \in Ids PROVE BucketOf(e, s.grain) = BucketAt(Stamp(e), s.grain)
    BY DEF BucketOf, BucketAt
  <2>2. \A e \in Ids : e \in 1..Snapshot[2] <=> e <= Snapshot[2]
    BY <1>10 DEF SnapshotFits, OverviewTypes, Ids
  <2> QED
    BY <2>1, <2>2 DEF S, StatRows, InRows
<1>12. S \subseteq Ids
  BY <1>10 DEF S, StatRows, SnapshotFits, OverviewTypes, Ids
<1>13. \A t : ~WindowsReach(<<>>, t) /\ ~WindowsHold(<<>>, t)
  BY DEF WindowsReach, WindowsHold
<1>14. ASSUME NEW e \in 1..MaxEvents PROVE CountedRightly(e)'
  <2>1. CountedRightly(e)
    BY DEF ReadInv
  <2>2. CASE e \in S
    <3>1. e \in Ids /\ Matches(e, read.inst) /\ InRows(s, Stamp(e)) /\ Stamp(e) \in Nat
      BY <1>7, <1>11, <1>12, <2>2
    <3>2. RowsHold(R, Stamp(e)) /\ ~RowsHold(T, Stamp(e))
      BY <1>3, <3>1
    <3>3. Wanted(read.range, Stamp(e))
      BY <1>2, <3>1, <3>2 DEF Disjoint, Wanted
    <3>4. read.totals[e] = 0
      BY <2>1, <3>1, <3>2 DEF CountedRightly, R
    <3>5. read'.totals[e] = 1
      BY <1>5, <2>2, <3>4
    <3> QED
      BY <1>4, <1>7, <1>13, <3>1, <3>2, <3>3, <3>5 DEF CountedRightly
  <2>3. CASE e \notin S
    <3>1. read'.totals[e] = read.totals[e]
      BY <1>5, <2>3
    <3>2. e \in Ids => (RowsHold(T, Stamp(e)) => RowsHold(R, Stamp(e)))
      BY <1>3, <1>7
    <3> QED
      BY <1>4, <1>7, <1>13, <2>1, <3>1, <3>2 DEF CountedRightly, R, f
  <2> QED
    BY <2>2, <2>3
<1>15. ASSUME NEW e \in 1..MaxEvents, e \in read.owed PROVE OwedIsKept(e)'
  <2>1. OwedIsKept(e) /\ CountedRightly(e) /\ CountedRightly(e)'
    BY <1>14 DEF ReadInv
  <2>2. e \in Ids /\ e <= Snapshot[2] /\ (e \in cache \/ Stamp(e) < clock - RecentWindow)
    BY <1>10, <1>15, <2>1 DEF SnapshotFits, OwedIsKept
  <2>3. e \in Ids' /\ (e \in cache' \/ Stamp(e)' < clock' - RecentWindow)
    BY <1>1, <1>7, <2>2
  <2>4. ASSUME read.range.start < read.now, AskedFor(read.range, Stamp(e)), Matches(e, read.inst)
        PROVE  read'.totals[e] = 1 \/ Slipped(e)' \/ Coming(<<>>, T, f, Stamp(e))
    <3>1. read.totals[e] \in {0, 1} /\ (read.totals[e] = 1 \/ Slipped(e) \/ Coming(<<>>, R, f, Stamp(e)))
      BY <1>1, <1>15, <2>1, <2>4 DEF OwedIsKept, CountedRightly, R, f
    <3>2. CASE read.totals[e] = 1
      <4>1. read'.totals[e] = 1 \/ read'.totals[e] = 2
        BY <1>5, <3>2
      <4> QED
        BY <2>1, <4>1 DEF CountedRightly
    <3>3. CASE Slipped(e)
      BY <1>1, <1>4, <1>7, <2>2, <3>3 DEF Slipped
    <3>4. CASE e \in S /\ read.totals[e] = 0
      BY <1>5, <3>4
    <3>5. CASE e \notin S /\ Coming(<<>>, R, f, Stamp(e))
      BY <1>3, <1>7, <1>11, <1>13, <2>2, <2>4, <3>5 DEF Coming
    <3> QED
      BY <3>1, <3>2, <3>3, <3>4, <3>5
  <2> QED
    BY <1>4, <1>7, <2>2, <2>3, <2>4 DEF OwedIsKept
<1>16. ASSUME NEW e \in 1..MaxEvents, e \notin read.owed PROVE OwedIsKept(e)'
  BY <1>4, <1>16 DEF OwedIsKept
<1> QED
  BY <1>8, <1>9, <1>10, <1>14, <1>15, <1>16 DEF ReadInv

\* In a zone of whole hours an overview counts every event of its range once and
\* no other, whatever is stored, cached, pruned and rolled up while it reads
\* (buildUsageOverviewWithFilterAndRecentCache).
THEOREM OverviewCountsOnce ==
    ASSUME WholeHours
    PROVE  OverviewSpec => []CountsOnce
<1>1. OverviewInit => OverviewInv
  BY OverviewReadsAssumption DEF OverviewInit, OverviewInv, OverviewTypes, NoRead, Ids
<1>2. OverviewInv /\ [OverviewStep]_overviewVars => OverviewInv'
  <2> SUFFICES ASSUME OverviewInv, [OverviewStep]_overviewVars PROVE OverviewInv'
    OBVIOUS
  <2>0. OverviewTypes /\ (read.phase = "reading" => ReadInv)
    BY DEF OverviewInv
  <2>1. ASSUME OverviewTypes', GoesOn PROVE OverviewInv'
    <3>1. read'.phase = "reading" => ReadInv'
      BY <2>0, <2>1, ReadIsKept DEF GoesOn
    <3> QED
      BY <2>1, <3>1 DEF OverviewInv
  <2>2. CASE ClockTick
    BY <2>0, <2>1, <2>2, OthersGoOn
  <2>3. CASE \E t \in {u \in Times : u <= clock}, i \in Instances : Store(t, i)
    BY <2>0, <2>1, <2>3, OthersGoOn
  <2>4. CASE AppendRecent
    BY <2>0, <2>1, <2>4, OthersGoOn
  <2>5. CASE Aggregate
    BY <2>0, <2>1, <2>5, OthersGoOn
  <2>6. ASSUME NEW r \in Ranges(clock), NEW inst \in Filters, NEW c \in BOOLEAN, Begin(r, inst, c)
        PROVE  OverviewInv'
    BY <2>0, <2>6, ReadBegins DEF OverviewInv
  <2>7. CASE ReadWindow
    BY <2>0, <2>7, WindowIsRead DEF OverviewInv, ReadWindow
  <2>8. CASE ReadStats
    BY <2>0, <2>8, StatsAreRead DEF OverviewInv, ReadStats
  <2>9. CASE Respond
    <3>1. /\ read' = [phase |-> "idle"] /\ clock' = clock /\ events' = events /\ cursor' = cursor
          /\ queue' = queue /\ cache' = cache
      BY <2>9 DEF Respond, NoRead
    <3>2. read'.phase # "reading"
      BY <3>1
    <3>3. OverviewTypes'
      BY <2>0, <3>1 DEF OverviewTypes, Ids, Stamp
    <3> QED
      BY <3>2, <3>3 DEF OverviewInv
  <2>10. CASE UNCHANGED overviewVars
    <3>1. /\ read' = read /\ clock' = clock /\ events' = events /\ cursor' = cursor
          /\ queue' = queue /\ cache' = cache
      BY <2>10 DEF overviewVars
    <3>2. OverviewTypes'
      BY <2>0, <3>1 DEF OverviewTypes, Ids, Stamp
    <3>3. GoesOn
      BY <2>0, <3>1 DEF GoesOn, OverviewTypes, Ids
    <3> QED
      BY <2>1, <3>2, <3>3
  <2> QED
    BY <2>2, <2>3, <2>4, <2>5, <2>6, <2>7, <2>8, <2>9, <2>10 DEF OverviewStep
<1>4. OverviewInv => CountsOnce
  <2> SUFFICES ASSUME OverviewInv, Answered, NEW e \in Ids
               PROVE  /\ read.totals[e] \in {0, 1}
                      /\ read.totals[e] = 1 =>
                           /\ Matches(e, read.inst)
                           /\ Asked(Stamp(e)) \/ (CurrentRight(read.range) /\ Stamp(e) > read.range.end)
                      /\ (/\ e \in read.owed
                          /\ read.range.start < read.now
                          /\ Asked(Stamp(e)) /\ Matches(e, read.inst))
                            => read.totals[e] = 1 \/ Slipped(e)
    BY DEF CountsOnce
  <2>1. e \in 1..MaxEvents
    BY OverviewReadsAssumption DEF OverviewInv, OverviewTypes, Ids
  <2>2. CountedRightly(e) /\ OwedIsKept(e)
    BY <2>1 DEF OverviewInv, ReadInv, Answered
  <2>3. Asked(Stamp(e)) <=> AskedFor(read.range, Stamp(e))
    BY DEF Asked, AskedFor
  <2>4. ~Coming(read.plan.windows, read.plan.stats, read.plan.full, Stamp(e))
    BY DEF Answered, Coming, WindowsHold, RowsHold
  <2> QED
    BY <2>2, <2>3, <2>4 DEF CountedRightly, OwedIsKept, Wanted
<1> QED
  BY <1>1, <1>2, <1>4, PTL DEF OverviewSpec
=============================================================================
