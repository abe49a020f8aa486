------------------------ MODULE PricingRecalculation ------------------------
(***************************************************************************)
(* Recalculating the stored costs of past usage events with the current    *)
(* prices, while the rest of the keeper runs.                              *)
(*                                                                         *)
(* The inbox processor prices and commits events, the aggregation runner   *)
(* adds their costs to hour and day buckets, the storage maintenance       *)
(* archives events, HTTP handlers read costs, and two caches hold costs in *)
(* memory.  A recalculation first closes three gates (usage work,          *)
(* aggregation turns, cost reads), waits until everyone inside has left,   *)
(* rewrites events and buckets page by page, refreshes the caches and      *)
(* opens the gates again.  A statement may fail at any time, the keeper    *)
(* may be told to stop, and it may crash.                                  *)
(*                                                                         *)
(* An amount is the price revision it was computed with: two revisions     *)
(* price an event differently.  A bucket is kept as the amounts its events *)
(* contribute to it; its cost_usd is their sum.                            *)
(***************************************************************************)
EXTENDS Integers, FiniteSets, Sequences

CONSTANTS
    Legacy,       \* entities.LegacyCPAInstanceID
    Pushed,       \* instances that push their usage
    Times,        \* instants of one day an event may carry
    HourLength,   \* instants per hour
    PageSize,     \* usageAggregationEventPageSize and usageCostRecalculationPageSize
    QueueSize,    \* appendCh and the batch its worker holds
    Expired,      \* the day is past the hot retention
    MaxEvents,    \* bound: events that are ever committed
    MaxRevision,  \* bound: price revisions
    MaxTasks,     \* bound: recalculations that are ever accepted
    MaxReads,     \* bound: cost reads at the same time
    MaxQuota,     \* bound: quota refreshes that ever start
    MaxCrashes    \* bound: restarts of the keeper

Instances == Pushed \cup {Legacy}
Ids == 1..MaxEvents
Revisions == 1..MaxRevision
HourOf(t) == t \div HourLength
HourStarts == {HourLength * HourOf(t) : t \in Times}

ASSUME RecalculationAssumption ==
    /\ Legacy \notin Pushed
    /\ Times \subseteq Nat /\ HourLength \in Nat \ {0} /\ PageSize \in Nat \ {0}
    /\ QueueSize \in Nat \ {0} /\ Expired \in BOOLEAN
    /\ MaxEvents \in Nat /\ MaxRevision \in Nat \ {0} /\ MaxTasks \in Nat
    /\ MaxReads \in Nat /\ MaxQuota \in Nat /\ MaxCrashes \in Nat

VARIABLES
    owner, time,      \* the events by id: instance and timestamp
    cost,             \* usage_events.cost_usd (and cost_available)
    hot,              \* ids in usage_events; the others are archived
    cursor,           \* overview checkpoint of an instance
    inHour, inDay,    \* what an event contributes to its hour and day bucket
    revision,         \* the price revision of the database
    catalog,          \* the published price snapshot
    proc,             \* the inbox processor's batch
    maint,            \* CleanupStorage is under way
    agg,              \* the page the aggregation runner has read
    reads,            \* CostReadGate.active
    queue, recent,    \* the recent event cache: accepted appends, and its events
    recentValid,      \* eventReadsValid
    generation,       \* cacheGeneration of the quota service
    refresh, quota,   \* a quota refresh under way, and the cached results
    usagePaused, aggPaused, blocked,   \* the three gates
    status, task,     \* recalculationTask, and the locals of its goroutine
    closing,          \* LifecycleCtx is cancelled
    tasks, refreshes, crashes

eventVars == <<owner, time, cost, hot>>
bucketVars == <<cursor, inHour, inDay>>
priceVars == <<revision, catalog>>
cacheVars == <<queue, recent, recentValid>>
quotaVars == <<generation, refresh, quota, refreshes>>
gateVars == <<usagePaused, aggPaused, blocked>>
taskVars == <<status, task, tasks>>
vars == <<eventVars, bucketVars, priceVars, proc, maint, agg, reads, cacheVars,
          quotaVars, gateVars, taskVars, closing, crashes>>

Idle == [stage |-> "idle", rev |-> 0, event |-> 0]
NoPage == [inst |-> Legacy, active |-> FALSE, from |-> 0, page |-> {}]
NoRefresh == [stage |-> "idle", gen |-> 0, seen |-> {}]
NoTask == [pc |-> "none", rev |-> 0, start |-> 0, end |-> 0, H |-> 0, scan |-> 0,
           err |-> FALSE]

Init ==
    /\ owner = <<>> /\ time = <<>> /\ cost = <<>> /\ hot = {}
    /\ cursor = [i \in Instances |-> 0]
    /\ inHour = [e \in Ids |-> 0] /\ inDay = [e \in Ids |-> 0]
    /\ revision = 1 /\ catalog = 1
    /\ proc = Idle /\ maint = FALSE /\ agg = NoPage /\ reads = 0
    /\ queue = <<>> /\ recent = {} /\ recentValid = TRUE
    /\ generation = 0 /\ refresh = NoRefresh /\ quota = {} /\ refreshes = 0
    /\ usagePaused = FALSE /\ aggPaused = FALSE /\ blocked = FALSE
    /\ status = "none" /\ task = NoTask /\ tasks = 0
    /\ closing = FALSE /\ crashes = 0

Known == 1..Len(owner)
Own(i) == {e \in hot : owner[e] = i}
Counted(e) == e <= cursor[owner[e]]

\* m is the greatest element of S, 0 when there is none: COALESCE(MAX(id), 0).
IsLast(S, m) == \/ S = {} /\ m = 0
                \/ m \in S /\ \A e \in S : e <= m

\* The first n elements of S by id.
FirstOf(S, n) == {e \in S : Cardinality({f \in S : f <= e}) <= n}

\* The stored amounts of the events in S.
Stored(S) == {<<e, cost[e]>> : e \in S}

-----------------------------------------------------------------------------
(* Prices: mutatePricingRevision holds mutationMu from the transaction to  *)
(* the publication, so Start sees both or neither.                         *)

MutatePricing ==
    /\ status # "running" /\ revision = catalog /\ revision < MaxRevision
    /\ revision' = revision + 1
    /\ UNCHANGED <<eventVars, bucketVars, catalog, proc, maint, agg, reads, cacheVars,
                   quotaVars, gateVars, taskVars, closing, crashes>>

PublishPricing ==
    /\ catalog # revision
    /\ catalog' = revision
    /\ UNCHANGED <<eventVars, bucketVars, revision, proc, maint, agg, reads, cacheVars,
                   quotaVars, gateVars, taskVars, closing, crashes>>

-----------------------------------------------------------------------------
(* The inbox processor and the maintenance share usageWorkGate.            *)

\* usageWorkGate.enter, for a batch that still has rows to process.
MayEnter == proc.stage = "idle" /\ Len(owner) < MaxEvents /\ ~usagePaused

EnterUsage ==
    /\ MayEnter
    /\ proc' = [Idle EXCEPT !.stage = "entered"]
    /\ UNCHANGED <<eventVars, bucketVars, priceVars, maint, agg, reads, cacheVars,
                   quotaVars, gateVars, taskVars, closing, crashes>>

\* One price snapshot for the whole batch.
PriceBatch ==
    /\ proc.stage = "entered"
    /\ proc' = [proc EXCEPT !.stage = "priced", !.rev = catalog]
    /\ UNCHANGED <<eventVars, bucketVars, priceVars, maint, agg, reads, cacheVars,
                   quotaVars, gateVars, taskVars, closing, crashes>>

CommitBatch(i, t) ==
    /\ proc.stage = "priced"
    /\ owner' = Append(owner, i)
    /\ time' = Append(time, t)
    /\ cost' = Append(cost, proc.rev)
    /\ hot' = hot \cup {Len(owner) + 1}
    /\ proc' = [proc EXCEPT !.stage = "committed", !.event = Len(owner) + 1]
    /\ UNCHANGED <<bucketVars, priceVars, maint, agg, reads, cacheVars, quotaVars,
                   gateVars, taskVars, closing, crashes>>

Enqueued == IF Len(queue) < QueueSize
            THEN Append(queue, <<proc.event, proc.rev>>) ELSE queue

\* TryAppend, which drops the batch when the queue is full, then leave.
NotifyRecent ==
    /\ proc.stage = "committed"
    /\ queue' = Enqueued
    /\ proc' = Idle
    /\ UNCHANGED <<eventVars, bucketVars, priceVars, maint, agg, reads, recent,
                   recentValid, quotaVars, gateVars, taskVars, closing, crashes>>

\* Nothing to process, or the transaction is rolled back.
ProcessFails ==
    /\ proc.stage \in {"entered", "priced"}
    /\ proc' = Idle
    /\ UNCHANGED <<eventVars, bucketVars, priceVars, maint, agg, reads, cacheVars,
                   quotaVars, gateVars, taskVars, closing, crashes>>

EnterMaintenance ==
    /\ ~maint /\ ~usagePaused /\ Expired
    /\ maint' = TRUE
    /\ UNCHANGED <<eventVars, bucketVars, priceVars, proc, agg, reads, cacheVars,
                   quotaVars, gateVars, taskVars, closing, crashes>>

\* One batch, the oldest events first, all of them aggregated.
ArchiveBatch(batch) ==
    /\ maint
    /\ batch # {} /\ batch \subseteq Own(Legacy)
    /\ \A e \in batch, f \in Own(Legacy) \ batch : time[e] <= time[f]
    /\ \A e \in batch : Counted(e)
    /\ hot' = hot \ batch
    /\ UNCHANGED <<owner, time, cost, bucketVars, priceVars, proc, maint, agg, reads,
                   cacheVars, quotaVars, gateVars, taskVars, closing, crashes>>

LeaveMaintenance ==
    /\ maint
    /\ maint' = FALSE
    /\ UNCHANGED <<eventVars, bucketVars, priceVars, proc, agg, reads, cacheVars,
                   quotaVars, gateVars, taskVars, closing, crashes>>

\* Variant with a fault: batches are not counted as active.
UsageSettledButBatches == ~maint

\* usageWorkGate.active = 0.
UsageSettled == proc = Idle /\ ~maint

-----------------------------------------------------------------------------
(* The aggregation runner: a turn of the legacy instance inside its gate,  *)
(* or a page of a pushed instance, which does not pass the gate.           *)

\* aggregationWorkGate.enter; aggregateInstanceOnce does not call it.
TurnMayStart(i) == i = Legacy => ~aggPaused

Uncounted(i) == {e \in Own(i) : ~Counted(e)}

ReadPage(i) ==
    /\ agg = NoPage /\ TurnMayStart(i)
    /\ Uncounted(i) # {}
    /\ agg' = [inst |-> i, active |-> i = Legacy, from |-> cursor[i],
               page |-> Stored(FirstOf(Uncounted(i), PageSize))]
    /\ UNCHANGED <<eventVars, bucketVars, priceVars, proc, maint, reads, cacheVars,
                   quotaVars, gateVars, taskVars, closing, crashes>>

\* The contributions of the amounts in page, added to a bucket table.
Added(table, page) ==
    [e \in Ids |-> IF \E p \in page : p[1] = e
                   THEN table[e] + (CHOOSE p \in page : p[1] = e)[2]
                   ELSE table[e]]

\* ApplyUsageOverviewAggregationPage: rows and checkpoint in one transaction,
\* refused when the checkpoint moved.
WritePage ==
    /\ agg.page # {}
    /\ cursor[agg.inst] = agg.from
    /\ inHour' = Added(inHour, agg.page)
    /\ inDay' = Added(inDay, agg.page)
    /\ \E m \in Ids : /\ IsLast({p[1] : p \in agg.page}, m)
                      /\ cursor' = [cursor EXCEPT ![agg.inst] = m]
    /\ agg' = NoPage
    /\ UNCHANGED <<eventVars, priceVars, proc, maint, reads, cacheVars, quotaVars,
                   gateVars, taskVars, closing, crashes>>

TurnFails ==
    /\ agg # NoPage
    /\ agg' = NoPage
    /\ UNCHANGED <<eventVars, bucketVars, priceVars, proc, maint, reads, cacheVars,
                   quotaVars, gateVars, taskVars, closing, crashes>>

-----------------------------------------------------------------------------
(* Cost reads, the recent event cache and the quota cache.                 *)

Acquire ==
    /\ ~blocked /\ reads < MaxReads
    /\ reads' = reads + 1
    /\ UNCHANGED <<eventVars, bucketVars, priceVars, proc, maint, agg, cacheVars,
                   quotaVars, gateVars, taskVars, closing, crashes>>

Release ==
    /\ reads > 0
    /\ reads' = reads - 1
    /\ UNCHANGED <<eventVars, bucketVars, priceVars, proc, maint, agg, cacheVars,
                   quotaVars, gateVars, taskVars, closing, crashes>>

AppendRecent ==
    /\ queue # <<>>
    /\ recent' = recent \cup {Head(queue)}
    /\ queue' = Tail(queue)
    /\ UNCHANGED <<eventVars, bucketVars, priceVars, proc, maint, agg, reads,
                   recentValid, quotaVars, gateVars, taskVars, closing, crashes>>

\* A refresh fixes the generation, reads stored costs, and publishes later.
BeginRefresh ==
    /\ refresh = NoRefresh /\ refreshes < MaxQuota
    /\ refresh' = [stage |-> "begun", gen |-> generation, seen |-> {}]
    /\ refreshes' = refreshes + 1
    /\ UNCHANGED <<eventVars, bucketVars, priceVars, proc, maint, agg, reads, cacheVars,
                   generation, quota, gateVars, taskVars, closing, crashes>>

ReadUsageWindow ==
    /\ refresh.stage = "begun"
    /\ refresh' = [refresh EXCEPT !.stage = "read", !.seen = Stored(hot)]
    /\ UNCHANGED <<eventVars, bucketVars, priceVars, proc, maint, agg, reads, cacheVars,
                   generation, quota, refreshes, gateVars, taskVars, closing, crashes>>

\* A result from before an invalidation is dropped.
Published == IF refresh.gen = generation THEN refresh.seen ELSE quota

PublishQuota ==
    /\ refresh.stage = "read"
    /\ quota' = Published
    /\ refresh' = NoRefresh
    /\ UNCHANGED <<eventVars, bucketVars, priceVars, proc, maint, agg, reads, cacheVars,
                   generation, refreshes, gateVars, taskVars, closing, crashes>>

-----------------------------------------------------------------------------
(* The recalculation: accepted under mutationMu, then one goroutine.       *)

\* The hot events the task has to price, and those in their buckets.
InScope(t) == {e \in hot : e <= t.H /\ t.start <= time[e] /\ time[e] < t.end}

Hours(t) == {HourOf(time[e]) : e \in InScope(t)}
OfHour(t) == {e \in hot : e <= t.H /\ HourOf(time[e]) \in Hours(t)}
OfDay(t) == {e \in hot : e <= t.H /\ InScope(t) # {}}

\* The bucket rows of an event exist: an event of the same row was counted.
HourRow(e) == \E f \in Known : /\ owner[f] = owner[e] /\ Counted(f)
                               /\ HourOf(time[f]) = HourOf(time[e])
DayRow(e) == \E f \in Known : owner[f] = owner[e] /\ Counted(f)

TaskGoes(pc) == task' = [task EXCEPT !.pc = pc]

\* Leave for the deferred clean-up, which every path after the gates takes.
TaskFails == task' = [task EXCEPT !.pc = "reload", !.err = TRUE]

\* The start is a full hour of the hot table; the end is the keeper's now,
\* while timestamps come from CPA.  The price snapshot is fixed here.
StartPricingRecalculation(start, end) ==
    /\ status # "running" /\ revision = catalog /\ ~closing /\ tasks < MaxTasks
    /\ start < end
    /\ \E e \in hot : HourLength * HourOf(time[e]) <= start
    /\ status' = "running"
    /\ task' = [NoTask EXCEPT !.pc = "pauseUsage", !.rev = catalog, !.start = start,
                              !.end = end]
    /\ tasks' = tasks + 1
    /\ UNCHANGED <<eventVars, bucketVars, priceVars, proc, maint, agg, reads, cacheVars,
                   quotaVars, gateVars, closing, crashes>>

PauseUsage ==
    /\ task.pc = "pauseUsage"
    /\ usagePaused' = TRUE
    /\ TaskGoes("settleUsage")
    /\ UNCHANGED <<eventVars, bucketVars, priceVars, proc, maint, agg, reads, cacheVars,
                   quotaVars, aggPaused, blocked, status, tasks, closing, crashes>>

SettleUsage ==
    /\ task.pc = "settleUsage" /\ UsageSettled
    /\ TaskGoes("drain")
    /\ UNCHANGED <<eventVars, bucketVars, priceVars, proc, maint, agg, reads, cacheVars,
                   quotaVars, gateVars, status, tasks, closing, crashes>>

\* Variant with a fault: accepted appends are not waited for.
DrainedNever == TRUE

\* DrainAcceptedAppends: nothing can be accepted while usage work is paused.
Drained == queue = <<>>

DrainRecent ==
    /\ task.pc = "drain" /\ Drained
    /\ TaskGoes("pauseAgg")
    /\ UNCHANGED <<eventVars, bucketVars, priceVars, proc, maint, agg, reads, cacheVars,
                   quotaVars, gateVars, status, tasks, closing, crashes>>

PauseAggregation ==
    /\ task.pc = "pauseAgg"
    /\ aggPaused' = TRUE
    /\ TaskGoes("settleAgg")
    /\ UNCHANGED <<eventVars, bucketVars, priceVars, proc, maint, agg, reads, cacheVars,
                   quotaVars, usagePaused, blocked, status, tasks, closing, crashes>>

SettleAggregation ==
    /\ task.pc = "settleAgg" /\ ~agg.active
    /\ TaskGoes("block")
    /\ UNCHANGED <<eventVars, bucketVars, priceVars, proc, maint, agg, reads, cacheVars,
                   quotaVars, gateVars, status, tasks, closing, crashes>>

BlockReads ==
    /\ task.pc = "block"
    /\ blocked' = TRUE
    /\ TaskGoes("drainReads")
    /\ UNCHANGED <<eventVars, bucketVars, priceVars, proc, maint, agg, reads, cacheVars,
                   quotaVars, usagePaused, aggPaused, status, tasks, closing, crashes>>

ReadsDrained == reads = 0

DrainReads ==
    /\ task.pc = "drainReads" /\ ReadsDrained
    /\ TaskGoes("load")
    /\ UNCHANGED <<eventVars, bucketVars, priceVars, proc, maint, agg, reads, cacheVars,
                   quotaVars, gateVars, status, tasks, closing, crashes>>

\* Variant with a fault: a cancelled wait keeps the gates it holds.
GatesAsTheyAre == UNCHANGED gateVars

\* A cancelled wait opens its gate, the caller opens those it already holds.
OpenGates == usagePaused' = FALSE /\ aggPaused' = FALSE /\ blocked' = FALSE

CancelWait ==
    /\ closing
    /\ task.pc \in {"pauseUsage", "settleUsage", "drain", "pauseAgg", "settleAgg",
                    "block", "drainReads"}
    /\ OpenGates
    /\ task' = [task EXCEPT !.pc = "publish", !.err = TRUE]
    /\ UNCHANGED <<eventVars, bucketVars, priceVars, proc, maint, agg, reads, cacheVars,
                   quotaVars, status, tasks, closing, crashes>>

\* The target is the last event of the legacy instance, an empty scope ends
\* the task.
LoadScope ==
    /\ task.pc = "load"
    /\ \E m \in 0..MaxEvents :
          /\ IsLast(Own(Legacy), m)
          /\ LET t == [task EXCEPT !.H = m]
             IN  task' = [t EXCEPT !.pc = IF InScope(t) = {} THEN "reload" ELSE "catchUp"]
    /\ UNCHANGED <<eventVars, bucketVars, priceVars, proc, maint, agg, reads, cacheVars,
                   quotaVars, gateVars, status, tasks, closing, crashes>>

CaughtUp == cursor[Legacy] >= task.H

\* CatchUpOverviewTo, one page.
CatchUpPage ==
    /\ task.pc = "catchUp" /\ ~CaughtUp
    /\ LET page == FirstOf({e \in Uncounted(Legacy) : e <= task.H}, PageSize)
       IN  /\ inHour' = Added(inHour, Stored(page))
           /\ inDay' = Added(inDay, Stored(page))
           /\ \E m \in Ids : /\ IsLast(page, m)
                             /\ cursor' = [cursor EXCEPT ![Legacy] = m]
    /\ UNCHANGED <<eventVars, priceVars, proc, maint, agg, reads, cacheVars, quotaVars,
                   gateVars, taskVars, closing, crashes>>

CatchUpDone ==
    /\ task.pc = "catchUp" /\ CaughtUp
    /\ TaskGoes("events")
    /\ UNCHANGED <<eventVars, bucketVars, priceVars, proc, maint, agg, reads, cacheVars,
                   quotaVars, gateVars, status, tasks, closing, crashes>>

Scanned == FirstOf({e \in hot : task.scan < e /\ e <= task.H}, PageSize)
Selected == Scanned \cap InScope(task)

\* Variant with a fault: the day table is forgotten.
DayDeltaForgotten == inDay

\* The difference to the stored amount goes into the bucket of each event.
Delta(table) ==
    [e \in Ids |-> IF e \in Selected THEN table[e] + task.rev - cost[e] ELSE table[e]]

DayDelta == Delta(inDay)

\* ApplyUsageCostRecalculationBatch: events, hours and days in one transaction.
\* A missing bucket refuses the page.  A page that is not full is the last.
ApplyPage ==
    /\ task.pc = "events"
    /\ \A e \in Selected : HourRow(e) /\ DayRow(e)
    /\ cost' = [e \in Known |-> IF e \in Selected THEN task.rev ELSE cost[e]]
    /\ inHour' = Delta(inHour)
    /\ inDay' = DayDelta
    /\ \E m \in 0..MaxEvents :
          /\ IF Scanned = {} THEN m = task.H ELSE IsLast(Scanned, m)
          /\ task' = [task EXCEPT !.scan = m,
                                  !.pc = IF Cardinality(Scanned) < PageSize
                                         THEN "hours" ELSE "events"]
    /\ UNCHANGED <<owner, time, hot, cursor, priceVars, proc, maint, agg, reads,
                   cacheVars, quotaVars, gateVars, status, tasks, closing, crashes>>

\* The row of the hour or day table an event belongs to.
RowOf(grain, e) == <<owner[e], IF grain = "hour" THEN HourOf(time[e]) ELSE 0>>

\* The buckets of the events in group are set to the sums of their stored
\* amounts: an event of the bucket outside group no longer counts in it.
Overwritten(table, group, grain) ==
    [e \in Ids |->
        IF e \in Known /\ \E f \in group : RowOf(grain, e) = RowOf(grain, f)
        THEN IF e \in group THEN cost[e] ELSE 0
        ELSE table[e]]

\* FinalizeUsageCostRecalculationStats, first the hours and then the days, in
\* transactions of whole rows: a failure keeps the rows written before it.
WholeRows(part, group, grain) ==
    /\ part \subseteq group
    /\ \A e \in part, f \in group : RowOf(grain, e) = RowOf(grain, f) => f \in part

FinalizeHours ==
    /\ task.pc = "hours"
    /\ \A e \in OfHour(task) : HourRow(e)
    /\ inHour' = Overwritten(inHour, OfHour(task), "hour")
    /\ TaskGoes("days")
    /\ UNCHANGED <<eventVars, cursor, inDay, priceVars, proc, maint, agg, reads,
                   cacheVars, quotaVars, gateVars, status, tasks, closing, crashes>>

FinalizeDays ==
    /\ task.pc = "days"
    /\ \A e \in OfDay(task) : DayRow(e)
    /\ inDay' = Overwritten(inDay, OfDay(task), "day")
    /\ TaskGoes("reload")
    /\ UNCHANGED <<eventVars, cursor, inHour, priceVars, proc, maint, agg, reads,
                   cacheVars, quotaVars, gateVars, status, tasks, closing, crashes>>

FinalizeStops ==
    /\ \/ /\ task.pc = "hours" /\ inDay' = inDay
          /\ \E part \in SUBSET OfHour(task) :
                /\ WholeRows(part, OfHour(task), "hour")
                /\ \A e \in part : HourRow(e)
                /\ inHour' = Overwritten(inHour, part, "hour")
       \/ /\ task.pc = "days" /\ inHour' = inHour
          /\ \E part \in SUBSET OfDay(task) :
                /\ WholeRows(part, OfDay(task), "day")
                /\ \A e \in part : DayRow(e)
                /\ inDay' = Overwritten(inDay, part, "day")
    /\ TaskFails
    /\ UNCHANGED <<eventVars, cursor, priceVars, proc, maint, agg, reads, cacheVars,
                   quotaVars, gateVars, status, tasks, closing, crashes>>

\* A statement fails, a bucket is missing, or the keeper is told to stop.
RewriteFails ==
    /\ task.pc \in {"load", "catchUp", "events"}
    /\ TaskFails
    /\ UNCHANGED <<eventVars, bucketVars, priceVars, proc, maint, agg, reads, cacheVars,
                   quotaVars, gateVars, status, tasks, closing, crashes>>

\* ReloadStoredCostEvents: replaces the events, or sends readers to the database.
ReloadFails ==
    /\ recent' = recent /\ recentValid' = FALSE
    /\ task' = [task EXCEPT !.pc = "invalidate", !.err = TRUE]

ReloadStoredCostEvents ==
    /\ task.pc = "reload"
    /\ \/ /\ recent' = Stored(hot) /\ recentValid' = TRUE
          /\ TaskGoes("invalidate")
       \/ ReloadFails
    /\ UNCHANGED <<eventVars, bucketVars, priceVars, proc, maint, agg, reads, queue,
                   quotaVars, gateVars, status, tasks, closing, crashes>>

InvalidateStoredCostCache ==
    /\ task.pc = "invalidate"
    /\ generation' = generation + 1 /\ quota' = {}
    /\ TaskGoes("openReads")
    /\ UNCHANGED <<eventVars, bucketVars, priceVars, proc, maint, agg, reads, cacheVars,
                   refresh, refreshes, gateVars, status, tasks, closing, crashes>>

ResumeReads ==
    /\ task.pc = "openReads"
    /\ blocked' = FALSE
    /\ TaskGoes("openAgg")
    /\ UNCHANGED <<eventVars, bucketVars, priceVars, proc, maint, agg, reads, cacheVars,
                   quotaVars, usagePaused, aggPaused, status, tasks, closing, crashes>>

ResumeAggregation ==
    /\ task.pc = "openAgg"
    /\ aggPaused' = FALSE
    /\ TaskGoes("openUsage")
    /\ UNCHANGED <<eventVars, bucketVars, priceVars, proc, maint, agg, reads, cacheVars,
                   quotaVars, usagePaused, blocked, status, tasks, closing, crashes>>

ResumeUsage ==
    /\ task.pc = "openUsage"
    /\ usagePaused' = FALSE
    /\ TaskGoes("publish")
    /\ UNCHANGED <<eventVars, bucketVars, priceVars, proc, maint, agg, reads, cacheVars,
                   quotaVars, aggPaused, blocked, status, tasks, closing, crashes>>

\* The final status, under mutationMu.
PublishStatus ==
    /\ task.pc = "publish"
    /\ status' = IF task.err THEN "failed" ELSE "completed"
    /\ TaskGoes("none")
    /\ UNCHANGED <<eventVars, bucketVars, priceVars, proc, maint, agg, reads, cacheVars,
                   quotaVars, gateVars, tasks, closing, crashes>>

-----------------------------------------------------------------------------
(* Stopping, and starting again with what the database holds.              *)

Close ==
    /\ ~closing /\ crashes < MaxCrashes
    /\ closing' = TRUE
    /\ UNCHANGED <<eventVars, bucketVars, priceVars, proc, maint, agg, reads, cacheVars,
                   quotaVars, gateVars, taskVars, crashes>>

\* A crash, or the end of a shutdown.  The recent cache is loaded anew.
Restart ==
    /\ crashes < MaxCrashes
    /\ crashes' = crashes + 1 /\ closing' = FALSE
    /\ catalog' = revision
    /\ proc' = Idle /\ maint' = FALSE /\ agg' = NoPage /\ reads' = 0
    /\ queue' = <<>> /\ recent' = Stored(hot) /\ recentValid' = TRUE
    /\ generation' = 0 /\ refresh' = NoRefresh /\ quota' = {}
    /\ usagePaused' = FALSE /\ aggPaused' = FALSE /\ blocked' = FALSE
    /\ status' = "none" /\ task' = NoTask
    /\ UNCHANGED <<eventVars, bucketVars, revision, tasks, refreshes>>

-----------------------------------------------------------------------------
ProcessorStep ==
    \/ EnterUsage \/ PriceBatch \/ NotifyRecent \/ ProcessFails
    \/ \E i \in Instances, t \in Times : CommitBatch(i, t)

MaintenanceStep ==
    EnterMaintenance \/ LeaveMaintenance \/ \E batch \in SUBSET hot : ArchiveBatch(batch)

AggregationStep == WritePage \/ TurnFails \/ \E i \in Instances : ReadPage(i)

ReaderStep ==
    \/ Acquire \/ Release \/ AppendRecent
    \/ BeginRefresh \/ ReadUsageWindow \/ PublishQuota

GateStep ==
    \/ PauseUsage \/ SettleUsage \/ DrainRecent \/ PauseAggregation \/ SettleAggregation
    \/ BlockReads \/ DrainReads \/ CancelWait
    \/ ResumeReads \/ ResumeAggregation \/ ResumeUsage

RewriteStep ==
    \/ LoadScope \/ CatchUpPage \/ CatchUpDone \/ ApplyPage \/ FinalizeHours
    \/ FinalizeDays \/ FinalizeStops \/ RewriteFails

TaskStep ==
    \/ GateStep \/ RewriteStep
    \/ ReloadStoredCostEvents \/ InvalidateStoredCostCache \/ PublishStatus

Next ==
    \/ MutatePricing \/ PublishPricing
    \/ ProcessorStep \/ MaintenanceStep \/ AggregationStep \/ ReaderStep \/ TaskStep
    \/ \E start \in HourStarts, t \in Times : StartPricingRecalculation(start, t + 1)
    \/ Close \/ Restart

Spec == Init /\ [][Next]_vars

\* Whoever is inside a gate leaves it, the cache worker goes on, and so does
\* the task.
Fairness ==
    /\ WF_vars(PriceBatch \/ NotifyRecent \/ ProcessFails
               \/ \E i \in Instances, t \in Times : CommitBatch(i, t))
    /\ WF_vars(LeaveMaintenance) /\ WF_vars(WritePage \/ TurnFails)
    /\ WF_vars(AppendRecent) /\ WF_vars(Release) /\ WF_vars(TaskStep)

FairSpec == Spec /\ Fairness

-----------------------------------------------------------------------------
(* Properties.                                                             *)

TypeOK ==
    /\ owner \in Seq(Instances) /\ time \in Seq(Times) /\ cost \in Seq(Revisions)
    /\ Len(owner) <= MaxEvents /\ Len(time) = Len(owner) /\ Len(cost) = Len(owner)
    /\ hot \subseteq Known
    /\ cursor \in [Instances -> 0..MaxEvents]
    /\ inHour \in [Ids -> Int] /\ inDay \in [Ids -> Int]
    /\ revision \in Revisions /\ catalog \in Revisions
    /\ proc \in [stage : {"idle", "entered", "priced", "committed"},
                 rev : 0..MaxRevision, event : 0..MaxEvents]
    /\ maint \in BOOLEAN /\ reads \in 0..MaxReads
    /\ agg \in [inst : Instances, active : BOOLEAN, from : 0..MaxEvents,
                page : SUBSET (Ids \X Revisions)]
    /\ queue \in Seq(Ids \X Revisions) /\ Len(queue) <= QueueSize
    /\ recent \subseteq Ids \X Revisions /\ recentValid \in BOOLEAN
    /\ generation \in 0..MaxTasks /\ refreshes \in 0..MaxQuota
    /\ refresh \in [stage : {"idle", "begun", "read"}, gen : 0..MaxTasks,
                    seen : SUBSET (Ids \X Revisions)]
    /\ quota \subseteq Ids \X Revisions
    /\ usagePaused \in BOOLEAN /\ aggPaused \in BOOLEAN /\ blocked \in BOOLEAN
    /\ status \in {"none", "running", "completed", "failed"}
    /\ task \in [pc : {"none", "pauseUsage", "settleUsage", "drain", "pauseAgg",
                       "settleAgg", "block", "drainReads", "load", "catchUp", "events",
                       "hours", "days", "reload", "invalidate", "openReads", "openAgg",
                       "openUsage", "publish"},
                 rev : 0..MaxRevision, start : Nat, end : Nat, H : 0..MaxEvents,
                 scan : 0..MaxEvents, err : BOOLEAN]
    /\ closing \in BOOLEAN /\ tasks \in 0..MaxTasks /\ crashes \in 0..MaxCrashes

\* Every hour and day bucket holds exactly the stored cost of each event that
\* was aggregated into it and nothing of the others, between any two
\* transactions, after failures and after a crash
\* (ApplyUsageCostRecalculationBatch, FinalizeUsageCostRecalculationStats,
\* ApplyUsageOverviewAggregationPage).
CostsAgree ==
    \A e \in Known :
        LET amount == IF Counted(e) THEN cost[e] ELSE 0
        IN  inHour[e] = amount /\ inDay[e] = amount

\* Whenever costs may be read, what the recent event cache and the quota cache
\* serve are the stored amounts, not those from before a recalculation
\* (DrainAcceptedAppends, ReloadStoredCostEvents, InvalidateStoredCostCache).
CachesFresh ==
    ~blocked \/ reads > 0 =>
        /\ recentValid => recent \subseteq Stored(Known)
        /\ quota \subseteq Stored(Known)

\* What readers of costs rely on while tasks come and go: no stored cost changes
\* under a read, long or short (CostReadGate), and no cache serves what was
\* stored before the last rewrite.
ReadersUndisturbed ==
    [][/\ reads > 0 => \A e \in Known : cost'[e] = cost[e]
       /\ CachesFresh']_vars

\* After a completed recalculation no hot event of its period carries a price
\* older than the one the task was started for, batches that were under way
\* with an older price snapshot included (executePricingRecalculation).
OldPricesGone ==
    status = "completed" =>
        \A e \in hot : task.start <= time[e] /\ time[e] < task.end => cost[e] >= task.rev

\* Every accepted recalculation comes to an end and opens the gates, whatever
\* fails and whoever was inside (runPricingRecalculation).
TaskEnds ==
    status = "running" ~> status # "running" /\ ~usagePaused /\ ~aggPaused /\ ~blocked

=============================================================================
