----------------------------- MODULE IngestModes -----------------------------
(***************************************************************************)
(* RedisIngestRunner: how the keeper takes usage messages from its own CPA *)
(* while that CPA, its Redis and the local database come and go, composed  *)
(* with the metadata runner it signals (MetadataSync).                     *)
(*                                                                         *)
(* Run probes subscribe, then Redis pull, then HTTP pull, and stays in the *)
(* mode of the first that answers.  Each mode falls back in its own way.   *)
(* All of them call serialPullAndWrite, so one call in progress is enough: *)
(* `site` is the call site, and the tables below say what each does with   *)
(* the result.  A consumed batch stays in pendingInbox until its insert    *)
(* succeeds; control messages in it are handed to the metadata runner each *)
(* time the insert is tried.                                               *)
(*                                                                         *)
(* A pull, a subscription or an insert may succeed or fail each time.      *)
(* What messages say is reduced to the control messages among them and     *)
(* whether there is usage to store; delays are reduced to their order.     *)
(***************************************************************************)
EXTENDS MetadataSync, Naturals, Sequences

VARIABLES
    mode, subState,         \* the fields of the same name
    lastError, lastWarning, \* whether the fields of the same name are set
    pc,         \* what the runner's goroutine does next
    site,       \* the call site of serialPullAndWrite that is current
    call,       \* what called writeInboxLocked
    result,     \* how the last call of serialPullAndWrite ended
    held,       \* pendingInbox
    source,     \* connectionSource or fallbackSource of the current mode
    degraded,   \* redis_pull mode is living off HTTP
    due         \* the time of the next recovery attempt has come

statusVars == <<mode, subState, lastError, lastWarning>>
controlVars == <<pc, site, call, result>>
linkVars == <<source, degraded, due>>
vars == <<syncVars, statusVars, controlVars, linkVars, held>>

Modes == {"unknown", "subscribe", "redis_pull", "http_pull"}
SubStates == {"starting", "backfill", "receiving", "degradedPolling",
              "redisActive", "degradedHTTP", "httpActive"}

\* The call sites of serialPullAndWrite: Run's probes, the backfill, the
\* polling of a broken subscription, the two phases of redis_pull mode and
\* http_pull mode.
Fallback ==
    [startRedis |-> "startHTTP", fillRedis |-> "fillHTTP",
     pollRedis |-> "pollHTTP", redis |-> "redisHTTP",
     recoverRedis |-> "stayHTTP"]

RedisSites == DOMAIN Fallback
HTTPSites == {Fallback[s] : s \in RedisSites} \cup {"http"}
Sites == RedisSites \cup HTTPSites

\* The loop a site belongs to, which continues after a wait.
Top(s) ==
    CASE s \in {"startRedis", "startHTTP", "fillRedis", "fillHTTP"} -> "start"
      [] s \in {"pollRedis", "pollHTTP"} -> "poll"
      [] s = "http" -> "httpTop"
      [] OTHER -> "redisTop"

SourceOf(s) == IF s \in RedisSites THEN "redis" ELSE "http"

\* refresh=true also says what support_refresh=true says, so a batch is known
\* by its strongest control message and by whether it holds usage.
Batches == [control : {"none", "support", "refresh"}, usage : BOOLEAN]

\* Who calls writeInboxLocked: serialPullAndWrite before and after its pull,
\* and writeSubscribeBatch.
Calls == {"flush", "pulled", "received"}

Steps == {"start", "dial", "poll", "redial", "redisTop", "httpTop", "pull",
          "signal", "send", "store", "done", "listen", "receive", "idle",
          "backoff"}

Init ==
    /\ SyncInit
    /\ mode = "unknown" /\ subState = "starting"
    /\ lastError = FALSE /\ lastWarning = FALSE
    /\ pc = "start" /\ site = "startRedis"
    /\ call = "pulled" /\ result = "ok"
    /\ held = <<>>
    /\ source = "none" /\ degraded = FALSE /\ due = FALSE

-----------------------------------------------------------------------------
(* The status snapshot.                                                    *)

redisIngestHealthyState == {"backfill", "receiving", "redisActive",
                            "httpActive"}

\* recordState without an error of its own: failures are forgotten only on
\* entering a healthy state.
recordState(m, sub) ==
    LET recovered == /\ <<mode, subState>> # <<m, sub>>
                     /\ sub \in redisIngestHealthyState
    IN  /\ mode' = m
        /\ subState' = sub
        /\ lastError' = (lastError /\ ~recovered)
        /\ lastWarning' = (lastWarning /\ ~recovered)

\* A pull that succeeds ends whatever the snapshot complained of.
recordAvailable ==
    /\ lastError' = FALSE
    /\ lastWarning' = FALSE

recordFailure(final) ==
    /\ MarkRefreshPollingRequired
    /\ lastError' = (lastError \/ final)
    /\ lastWarning' = ~final
    /\ UNCHANGED <<mode, subState>>

recordError == recordFailure(TRUE)
recordWarning == recordFailure(FALSE)

\* markConnectionEstablished: announce a source only when it is new.
markConnectionEstablished(s) ==
    /\ source' = s
    /\ IF source = s THEN UNCHANGED syncVars ELSE NotifyIngestConnected

markConnectionUnavailable(s) ==
    source' = IF source = s THEN "none" ELSE source

\* A call of serialPullAndWrite starts with fresh locals.
CallAt(s) == pc' = "pull" /\ site' = s /\ call' = "pulled" /\ result' = "ok"
GoTo(step) == pc' = step /\ UNCHANGED <<site, call, result>>

-----------------------------------------------------------------------------
(* Run, and the tops of the loops of the three modes.                      *)

Starting ==
    /\ pc = "start"
    /\ recordState("unknown", "starting")
    /\ GoTo("dial")
    /\ UNCHANGED <<syncVars, linkVars, held>>

\* Both Subscribe calls: the probe, and the retry of a broken subscription.
Subscribed ==
    /\ pc \in {"dial", "redial"}
    /\ NotifyIngestConnected
    /\ recordState("subscribe", "backfill")
    /\ CallAt("fillRedis")
    /\ UNCHANGED <<linkVars, held>>

NotSubscribed ==
    /\ pc \in {"dial", "redial"}
    /\ recordWarning
    /\ CallAt(IF pc = "dial" THEN "startRedis" ELSE "pollRedis")
    /\ due' = (due /\ pc = "dial")
    /\ UNCHANGED <<source, degraded, held>>

\* Variant with a fault: every round sets the time of the next attempt.
PollingRearmed ==
    /\ pc = "poll"
    /\ recordState("subscribe", "degradedPolling")
    /\ CallAt("pollRedis")
    /\ due' = FALSE
    /\ UNCHANGED <<syncVars, source, degraded, held>>

runSubscribeDegradedPolling ==
    /\ pc = "poll"
    /\ recordState("subscribe", "degradedPolling")
    /\ \/ due /\ GoTo("redial")
       \/ ~due /\ CallAt("pollRedis")
    /\ UNCHANGED <<syncVars, linkVars, held>>

runRedisPullMode ==
    /\ pc = "redisTop"
    /\ \/ /\ degraded
          /\ recordState("redis_pull", "degradedHTTP")
          /\ CallAt(IF due THEN "recoverRedis" ELSE "stayHTTP")
       \/ /\ ~degraded
          /\ recordState("redis_pull", "redisActive")
          /\ CallAt("redis")
    /\ UNCHANGED <<syncVars, linkVars, held>>

runHTTPPullMode ==
    /\ pc = "httpTop"
    /\ recordState("http_pull", "httpActive")
    /\ CallAt("http")
    /\ UNCHANGED <<syncVars, linkVars, held>>

-----------------------------------------------------------------------------
(* serialPullAndWrite and writeInboxLocked.                                *)

\* Batches kept after a failed insert go first.
WriteHeldFirst ==
    /\ pc = "pull"
    /\ held # <<>>
    /\ pc' = "signal"
    /\ call' = "flush"
    /\ UNCHANGED <<syncVars, statusVars, linkVars, site, result, held>>

\* Messages that have been taken from CPA and not stored.
Taken(b) ==
    /\ held' = Append(held, b)
    /\ pc' = "signal"
    /\ UNCHANGED <<syncVars, statusVars, linkVars, site>>

\* Source.Pull returns messages, BatchSize of them if full.
PullBatch(b, full) ==
    /\ pc = "pull"
    /\ held = <<>>
    /\ Taken(b)
    /\ call' = "pulled"
    /\ result' = IF full THEN "full" ELSE "ok"

Returned(how) ==
    /\ pc = "pull"
    /\ held = <<>>
    /\ pc' = "done"
    /\ result' = how
    /\ UNCHANGED <<syncVars, statusVars, linkVars, site, call, held>>

PullEmpty == Returned("ok")
PullError == Returned("pullErr")

\* ControlAwareRedisInboxWriter: the control messages of the oldest batch.
Signal ==
    /\ pc = "signal"
    /\ LET control == Head(held).control
       IN  \/ control = "refresh" /\ RequestMetadataRefresh
           \/ control = "support" /\ MarkRefreshSupported
           \/ control = "none" /\ UNCHANGED syncVars
    /\ GoTo(IF "ingest" \in sending' THEN "send" ELSE "store")
    /\ UNCHANGED <<statusVars, linkVars, held>>

Send ==
    /\ pc = "send"
    /\ SendRefresh("ingest")
    /\ GoTo("store")
    /\ UNCHANGED <<statusVars, linkVars, held>>

\* Variant with a fault: what was flushed is kept as if it still waited.
StoredAndKept ==
    /\ pc = "store"
    /\ held' = IF call = "flush" THEN held ELSE Tail(held)
    /\ GoTo(IF Tail(held) # <<>> THEN "signal"
            ELSE CASE call = "flush" -> "pull"
                   [] call = "pulled" -> "done"
                   [] call = "received" -> "listen")
    /\ UNCHANGED <<syncVars, statusVars, linkVars>>

\* The rest of it reaches redis_usage_inboxes, or there is none.
Stored ==
    /\ pc = "store"
    /\ held' = Tail(held)
    /\ GoTo(IF Tail(held) # <<>> THEN "signal"
            ELSE CASE call = "flush" -> "pull"
                   [] call = "pulled" -> "done"
                   [] call = "received" -> "listen")
    /\ UNCHANGED <<syncVars, statusVars, linkVars>>

NotStored ==
    /\ pc = "store"
    /\ Head(held).usage
    /\ pc' = "done"
    /\ result' = "inboxErr"
    /\ UNCHANGED <<syncVars, statusVars, linkVars, site, call, held>>

-----------------------------------------------------------------------------
(* What the call sites do with the result.                                 *)

\* pauseAfterInboxWriteFailure, everywhere.
InboxFailed ==
    /\ pc = "done" /\ result = "inboxErr"
    /\ recordError
    /\ GoTo("backoff")
    /\ UNCHANGED <<linkVars, held>>

\* A Redis pull failed: the same caller tries HTTP.
FallBack ==
    /\ pc = "done" /\ result = "pullErr"
    /\ site \in RedisSites
    /\ recordWarning
    /\ markConnectionUnavailable("redis")
    /\ due' = (due /\ site # "recoverRedis")
    /\ CallAt(Fallback[site])
    /\ UNCHANGED <<degraded, held>>

\* HTTP failed too.  A backfill that failed does not end the subscription.
NoneLeft ==
    /\ pc = "done" /\ result = "pullErr"
    /\ site \in HTTPSites
    /\ \/ site = "fillHTTP" /\ recordWarning /\ GoTo("listen")
       \/ site # "fillHTTP" /\ recordError /\ GoTo("backoff")
    /\ markConnectionUnavailable("http")
    /\ UNCHANGED <<degraded, due, held>>

Succeeded(s) == pc = "done" /\ site = s /\ result \in {"ok", "full"}

\* The first source to answer decides the mode.
ChooseRedisPull ==
    /\ Succeeded("startRedis")
    /\ NotifyIngestConnected
    /\ recordState("redis_pull", "redisActive")
    /\ source' = "redis"
    /\ degraded' = FALSE
    /\ GoTo("redisTop")
    /\ UNCHANGED <<due, held>>

ChooseHTTPPull ==
    /\ Succeeded("startHTTP")
    /\ NotifyIngestConnected
    /\ recordState("http_pull", "httpActive")
    /\ source' = "http"
    /\ GoTo("httpTop")
    /\ UNCHANGED <<degraded, due, held>>

\* drainBackfillSource: until a batch is not full.
Backfilled ==
    /\ Succeeded("fillRedis") \/ Succeeded("fillHTTP")
    /\ IF result = "full" THEN CallAt(site) ELSE GoTo("listen")
    /\ UNCHANGED <<syncVars, statusVars, linkVars, held>>

\* A full batch is followed by another pull at once.
Rest == GoTo(IF result = "full" THEN Top(site) ELSE "idle")

\* The source in use goes on, or another one of the same loop takes over.
GoOn ==
    /\ \E s \in {"pollRedis", "pollHTTP", "redis", "stayHTTP", "http"} :
           Succeeded(s)
    /\ markConnectionEstablished(SourceOf(site))
    /\ recordAvailable
    /\ Rest
    /\ UNCHANGED <<mode, subState, degraded, due, held>>

Degrade ==
    /\ Succeeded("redisHTTP")
    /\ markConnectionEstablished("http")
    /\ degraded' = TRUE
    /\ due' = FALSE
    /\ subState' = "degradedHTTP"
    /\ recordAvailable
    /\ Rest
    /\ UNCHANGED <<mode, held>>

Recover ==
    /\ Succeeded("recoverRedis")
    /\ degraded' = FALSE
    /\ recordState("redis_pull", "redisActive")
    /\ markConnectionEstablished("redis")
    /\ Rest
    /\ UNCHANGED <<due, held>>

-----------------------------------------------------------------------------
(* The subscription, and time.                                             *)

Listen ==
    /\ pc = "listen"
    /\ recordState("subscribe", "receiving")
    /\ GoTo("receive")
    /\ UNCHANGED <<syncVars, linkVars, held>>

\* receiveSubscribeBatches hands what one window collected to the writer.
ReceiveBatch(b) ==
    /\ pc = "receive"
    /\ Taken(b)
    /\ call' = "received"
    /\ UNCHANGED result

Disconnected ==
    /\ pc = "receive"
    /\ recordError
    /\ due' = FALSE
    /\ source' = "none"
    /\ GoTo("poll")
    /\ UNCHANGED <<degraded, held>>

\* sleep and sleepUntilRecovery return.
Wake ==
    /\ pc \in {"idle", "backoff"}
    /\ GoTo(Top(site))
    /\ UNCHANGED <<syncVars, statusVars, linkVars, held>>

\* redisIngestRecoveryRetryInterval has passed.
RecoveryDue ==
    /\ ~due
    /\ subState \in {"degradedPolling", "degradedHTTP"}
    /\ due' = TRUE
    /\ UNCHANGED <<syncVars, statusVars, controlVars, source, degraded, held>>

-----------------------------------------------------------------------------
(* The specification.                                                      *)

\* Everything the runner does by itself.
Runner ==
    \/ Starting \/ Subscribed \/ NotSubscribed
    \/ runSubscribeDegradedPolling \/ runRedisPullMode \/ runHTTPPullMode
    \/ WriteHeldFirst \/ PullEmpty \/ PullError
    \/ \E b \in Batches, full \in BOOLEAN : PullBatch(b, full)
    \/ Signal \/ Send \/ Stored \/ NotStored
    \/ InboxFailed \/ FallBack \/ NoneLeft
    \/ ChooseRedisPull \/ ChooseHTTPPull \/ Backfilled
    \/ GoOn \/ Degrade \/ Recover
    \/ Listen \/ Wake

\* What the connection and the clock do to it.
Outside ==
    \/ \E b \in Batches : ReceiveBatch(b)
    \/ Disconnected
    \/ RecoveryDue

\* What the ingest runner's calls meet in the metadata runner and what may
\* change notificationMode beside them: the services become ready, the first
\* connection event is taken, API handlers ask for a refresh.  Nothing else
\* the metadata runner does is read here; MetadataSync checks all of it,
\* under any sequence of these calls.
Observer ==
    \/ ActivateNormalWriter \/ TakeConnected
    \/ RequestLocalMetadataRefresh \/ SendRefresh("local")

Next ==
    \/ Runner \/ Outside
    \/ Observer /\ UNCHANGED <<statusVars, controlVars, linkVars, held>>

Spec == Init /\ [][Next]_vars

HTTPAnswers ==
    /\ site \in HTTPSites
    /\ PullEmpty \/ \E b \in Batches, full \in BOOLEAN : PullBatch(b, full)

\* Anything but a full batch.
QueueRunsDry ==
    PullEmpty \/ PullError \/ \E b \in Batches : PullBatch(b, FALSE)

\* The goroutine keeps running and time passes.  CPA's HTTP interface, its
\* subscription and the local database do not fail every single time (the
\* Redis queue may), their failures do not keep step with the runner's
\* inserts, and no queue fills batches for ever: all of it where here holds.
Fairness ==
    /\ WF_vars(Runner)
    /\ WF_vars(RecoveryDue)
    /\ SF_vars(Subscribed)
    /\ SF_vars(HTTPAnswers)
    /\ SF_vars(QueueRunsDry)
    /\ \A c \in Calls : SF_vars(call = c /\ Stored)

FairSpec == Spec /\ Fairness

-----------------------------------------------------------------------------
(* Properties.                                                             *)

TypeOK ==
    /\ SyncTypeOK
    /\ mode \in Modes /\ subState \in SubStates
    /\ lastError \in BOOLEAN /\ lastWarning \in BOOLEAN
    /\ pc \in Steps /\ site \in Sites
    /\ call \in Calls
    /\ result \in {"ok", "full", "pullErr", "inboxErr"}
    /\ held \in Seq(Batches)
    /\ source \in {"none", "redis", "http"}
    /\ degraded \in BOOLEAN /\ due \in BOOLEAN

\* Nothing is taken from CPA while a consumed batch waits to be stored, in
\* whatever mode the insert failed and whichever mode is tried next: the
\* backlog stays in CPA (serialPullAndWrite's comment).
OneBatchHeld == Len(held) <= 1

\* The snapshot Status returns is about now: no failure is shown while the
\* runner rests after a successful pull or waits on its subscription, and
\* one is shown while it backs off (recordState, recordAvailable).
StatusIsCurrent ==
    /\ pc \in {"idle", "receive"} => ~lastError /\ ~lastWarning
    /\ pc = "backoff" => lastError

\* While the runner backs off after a failure the metadata runner polls,
\* whatever API handlers ask of it in the meantime (recordFailure, and
\* RequestLocalMetadataRefresh's comment).
PollingWhileBroken == pc = "backoff" => ~notificationMode

\* A batch that was consumed is stored in the end, although every retry goes
\* through another probe that may itself fail (writeInboxLocked), and until
\* then nothing more is taken from CPA.
HeldIsStored == []OneBatchHeld /\ []<>(held = <<>>)

\* A broken subscription is restored, or Run probes from the start again
\* (runSubscribeDegradedPolling).  Until then metadata is polled, and the
\* status says so.
SubscriptionReturns ==
    /\ []<>(mode # "subscribe" \/ pc = "receive")
    /\ [](StatusIsCurrent /\ PollingWhileBroken)
=============================================================================
