--------------------------- MODULE PricingProofs ---------------------------
(***************************************************************************)
(* That a recalculation disturbs no reader of costs, for any number of     *)
(* instances, events, tasks, reads and restarts and for any page and queue *)
(* sizes; that a completed one leaves no old price in its period, when no  *)
(* other keeper pushes its usage; and that the buckets hold the stored     *)
(* costs and nothing else, when moreover nothing of the day is archived.   *)
(*                                                                         *)
(* The argument has four layers.  Control: types, and what each gate       *)
(* guarantees from the moment its work has settled until it is opened.     *)
(* Fresh: where a stored amount may have changed, the queue is empty, the  *)
(* caches are not read and a refresh has an old generation.  Repriced:     *)
(* what the pages have passed is priced and no old batch is left.  Sums:   *)
(* both tables follow the cursor of the instance, so that a difference, a  *)
(* page and an overwritten row leave the stored amounts again.             *)
(***************************************************************************)
EXTENDS PricingRecalculation, FiniteSetTheorems, SequenceTheorems, TLAPS

\* The amounts that can be stored.
Amounts == Ids \X Revisions

(* The parts of TypeOK.                                                     *)
EventsOK ==
    /\ owner \in Seq(Instances) /\ time \in Seq(Times) /\ cost \in Seq(Revisions)
    /\ Len(owner) <= MaxEvents /\ Len(time) = Len(owner) /\ Len(cost) = Len(owner)
    /\ hot \subseteq Known

BucketsOK ==
    /\ cursor \in [Instances -> 0..MaxEvents]
    /\ inHour \in [Ids -> Int] /\ inDay \in [Ids -> Int]

PricesOK == revision \in Revisions /\ catalog \in Revisions

WorkOK ==
    /\ proc \in [stage : {"idle", "entered", "priced", "committed"},
                 rev : 0..MaxRevision, event : 0..MaxEvents]
    /\ maint \in BOOLEAN /\ reads \in 0..MaxReads
    /\ agg \in [inst : Instances, active : BOOLEAN, from : 0..MaxEvents,
                page : SUBSET Amounts]

CachesOK ==
    /\ queue \in Seq(Amounts) /\ Len(queue) <= QueueSize
    /\ recent \subseteq Amounts /\ recentValid \in BOOLEAN

QuotaOK ==
    /\ generation \in 0..MaxTasks /\ refreshes \in 0..MaxQuota
    /\ refresh \in [stage : {"idle", "begun", "read"}, gen : 0..MaxTasks,
                    seen : SUBSET Amounts]
    /\ quota \subseteq Amounts

Labels == {"none", "pauseUsage", "settleUsage", "drain", "pauseAgg", "settleAgg", "block",
           "drainReads", "load", "catchUp", "events", "hours", "days", "reload",
           "invalidate", "openReads", "openAgg", "openUsage", "publish"}
TaskType == [pc : Labels, rev : 0..MaxRevision, start : Nat, end : Nat, H : 0..MaxEvents,
             scan : 0..MaxEvents, err : BOOLEAN]

TaskOK ==
    /\ usagePaused \in BOOLEAN /\ aggPaused \in BOOLEAN /\ blocked \in BOOLEAN
    /\ status \in {"none", "running", "completed", "failed"}
    /\ task \in TaskType
    /\ closing \in BOOLEAN /\ tasks \in 0..MaxTasks /\ crashes \in 0..MaxCrashes

(* What the types rest on: a batch under way finds room for its event, and  *)
(* was priced with a revision; a task has a revision; and the cache         *)
(* generations count the tasks that passed InvalidateStoredCostCache.       *)
BatchUnderway ==
    /\ proc.stage \in {"entered", "priced"} => Len(owner) < MaxEvents
    /\ proc.stage \in {"priced", "committed"} => proc.rev \in Revisions
    /\ proc.stage = "committed" => proc.event \in Known /\ cost[proc.event] = proc.rev

TaskUnderway ==
    /\ status = "running" <=> task.pc # "none"
    /\ task.pc # "none" => task.rev \in Revisions
    /\ generation <= tasks
    /\ task.pc \notin {"none", "openReads", "openAgg", "openUsage", "publish"}
          => generation < tasks

(* What a gate that was closed and settled guarantees until it is opened.   *)
Outside == {"none", "pauseUsage", "publish"}
UsageStops == Outside \cup {"settleUsage"}
AggregationRuns == UsageStops \cup {"drain", "pauseAgg", "openUsage"}
AggregationStops == AggregationRuns \cup {"settleAgg"}
Rewriting == {"load", "catchUp", "events", "hours", "days", "reload", "invalidate",
              "openReads"}

Gates ==
    /\ task.pc \notin Outside => usagePaused
    /\ task.pc \notin UsageStops => proc = Idle /\ ~maint
    /\ task.pc \notin UsageStops \cup {"drain"} => queue = <<>>
    /\ task.pc \notin AggregationRuns => aggPaused
    /\ task.pc \notin AggregationStops => ~agg.active
    /\ task.pc \in Rewriting \cup {"drainReads"} => blocked
    /\ task.pc \in Rewriting => reads = 0

Control == TypeOK /\ BatchUnderway /\ TaskUnderway /\ Gates

LEMMA TypeByParts ==
    /\ TypeOK <=> /\ EventsOK /\ BucketsOK /\ PricesOK /\ WorkOK /\ CachesOK /\ QuotaOK
                  /\ TaskOK
    /\ TypeOK' <=> /\ EventsOK' /\ BucketsOK' /\ PricesOK' /\ WorkOK' /\ CachesOK'
                   /\ QuotaOK' /\ TaskOK'
BY DEF TypeOK, EventsOK, BucketsOK, PricesOK, WorkOK, CachesOK, QuotaOK, TaskOK, Amounts,
       TaskType, Labels

-----------------------------------------------------------------------------
(* The operators of the model.                                              *)

LEMMA StoredTypes ==
    ASSUME EventsOK, NEW S \in SUBSET Known
    PROVE  Stored(S) \subseteq Amounts
<1>1. ASSUME NEW e \in S PROVE e \in Ids /\ cost[e] \in Revisions
  <2>1. Len(owner) \in Nat /\ e \in 1..Len(cost)
    BY LenProperties DEF EventsOK, Known
  <2>2. cost[e] \in Revisions
    BY <2>1, ElementOfSeq DEF EventsOK
  <2>3. MaxEvents \in Nat
    BY RecalculationAssumption
  <2> QED
    BY <2>1, <2>2, <2>3 DEF EventsOK, Known, Ids
<1> QED
  BY <1>1 DEF Stored, Amounts

LEMMA AddedTypes ==
    ASSUME NEW table \in [Ids -> Int], NEW page \in SUBSET Amounts
    PROVE  Added(table, page) \in [Ids -> Int]
<1>1. ASSUME NEW e \in Ids, NEW p \in page, p[1] = e
      PROVE  (CHOOSE q \in page : q[1] = e)[2] \in Int
  <2>1. PICK q : q = (CHOOSE x \in page : x[1] = e)
    OBVIOUS
  <2>2. q \in page
    BY <1>1, <2>1
  <2>3. q[2] \in Revisions
    BY <2>2 DEF Amounts
  <2> QED
    BY <2>1, <2>3, RecalculationAssumption DEF Revisions
<1>2. ASSUME NEW e \in Ids
      PROVE  (IF \E p \in page : p[1] = e
              THEN table[e] + (CHOOSE p \in page : p[1] = e)[2] ELSE table[e]) \in Int
  <2>1. table[e] \in Int
    OBVIOUS
  <2>2. CASE \E p \in page : p[1] = e
    <3>1. (CHOOSE p \in page : p[1] = e)[2] \in Int
      BY <1>1, <2>2
    <3> QED
      BY <2>1, <2>2, <3>1
  <2>3. CASE ~ \E p \in page : p[1] = e
    BY <2>1, <2>3
  <2> QED
    BY <2>2, <2>3
<1> QED
  BY <1>2 DEF Added

LEMMA StartIsNat == \A h \in HourStarts : h \in Nat
<1>1. ASSUME NEW t \in Times PROVE HourLength * HourOf(t) \in Nat
  <2>1. t \in Nat /\ HourLength \in Nat /\ HourLength > 0
    BY RecalculationAssumption
  <2>2. t \div HourLength \in Nat
    BY <2>1
  <2>3. HourLength * (t \div HourLength) \in Nat
    BY <2>1, <2>2
  <2> QED
    BY <2>3 DEF HourOf
<1> QED
  BY <1>1 DEF HourStarts
-----------------------------------------------------------------------------
(* Which steps change what.                                                 *)

Commits == \E i \in Instances, t \in Times : CommitBatch(i, t)
Archives == \E batch \in SUBSET hot : ArchiveBatch(batch)
Reads == \E i \in Instances : ReadPage(i)
Starts == \E start \in HourStarts, t \in Times : StartPricingRecalculation(start, t + 1)

LEMMA Frames ==
    ASSUME [Next]_vars
    PROVE  /\ UNCHANGED eventVars \/ Commits \/ Archives \/ ApplyPage
           /\ UNCHANGED bucketVars \/ WritePage \/ CatchUpPage \/ ApplyPage \/ FinalizeHours
              \/ FinalizeDays \/ FinalizeStops
           /\ UNCHANGED priceVars \/ MutatePricing \/ PublishPricing \/ Restart
           /\ UNCHANGED proc \/ EnterUsage \/ PriceBatch \/ Commits \/ NotifyRecent
              \/ ProcessFails \/ Restart
           /\ UNCHANGED maint \/ EnterMaintenance \/ LeaveMaintenance \/ Restart
           /\ UNCHANGED agg \/ Reads \/ WritePage \/ TurnFails \/ Restart
           /\ UNCHANGED reads \/ Acquire \/ Release \/ Restart
           /\ UNCHANGED cacheVars \/ NotifyRecent \/ AppendRecent \/ ReloadStoredCostEvents
              \/ Restart
           /\ UNCHANGED quotaVars \/ BeginRefresh \/ ReadUsageWindow \/ PublishQuota
              \/ InvalidateStoredCostCache \/ Restart
           /\ UNCHANGED <<gateVars, taskVars>> \/ TaskStep \/ Starts \/ Restart
           /\ UNCHANGED <<closing, crashes>> \/ Close \/ Restart
<1> USE DEF Next, vars, ProcessorStep, MaintenanceStep, AggregationStep, ReaderStep, GateStep,
       RewriteStep, TaskStep, Commits, Archives, Reads, Starts, eventVars, bucketVars,
       priceVars, cacheVars, quotaVars, gateVars, taskVars, MutatePricing, PublishPricing,
       EnterUsage, PriceBatch, CommitBatch, NotifyRecent, ProcessFails, EnterMaintenance,
       ArchiveBatch, LeaveMaintenance, ReadPage, WritePage, TurnFails, Acquire, Release,
       AppendRecent, BeginRefresh, ReadUsageWindow, PublishQuota, StartPricingRecalculation,
       PauseUsage, SettleUsage, DrainRecent, PauseAggregation, SettleAggregation, BlockReads,
       DrainReads, CancelWait, LoadScope, CatchUpPage, CatchUpDone, ApplyPage, FinalizeHours,
       FinalizeDays, FinalizeStops, RewriteFails, ReloadStoredCostEvents,
       InvalidateStoredCostCache, ResumeReads, ResumeAggregation, ResumeUsage, PublishStatus,
       Close, Restart
<1>1. UNCHANGED eventVars \/ Commits \/ Archives \/ ApplyPage
  OBVIOUS
<1>2. UNCHANGED bucketVars \/ WritePage \/ CatchUpPage \/ ApplyPage \/ FinalizeHours
              \/ FinalizeDays \/ FinalizeStops
  OBVIOUS
<1>3. UNCHANGED priceVars \/ MutatePricing \/ PublishPricing \/ Restart
  OBVIOUS
<1>4. UNCHANGED proc \/ EnterUsage \/ PriceBatch \/ Commits \/ NotifyRecent
              \/ ProcessFails \/ Restart
  OBVIOUS
<1>5. UNCHANGED maint \/ EnterMaintenance \/ LeaveMaintenance \/ Restart
  OBVIOUS
<1>6. UNCHANGED agg \/ Reads \/ WritePage \/ TurnFails \/ Restart
  OBVIOUS
<1>7. UNCHANGED reads \/ Acquire \/ Release \/ Restart
  OBVIOUS
<1>8. UNCHANGED cacheVars \/ NotifyRecent \/ AppendRecent \/ ReloadStoredCostEvents
              \/ Restart
  OBVIOUS
<1>9. UNCHANGED quotaVars \/ BeginRefresh \/ ReadUsageWindow \/ PublishQuota
              \/ InvalidateStoredCostCache \/ Restart
  OBVIOUS
<1>10. UNCHANGED <<gateVars, taskVars>> \/ TaskStep \/ Starts \/ Restart
  OBVIOUS
<1>11. UNCHANGED <<closing, crashes>> \/ Close \/ Restart
  OBVIOUS
<1> QED
  BY <1>1, <1>2, <1>3, <1>4, <1>5, <1>6, <1>7, <1>8, <1>9, <1>10, <1>11

-----------------------------------------------------------------------------
(* Every step keeps the types.                                              *)

LEMMA EventsStep ==
    ASSUME Control, [Next]_vars
    PROVE  EventsOK'
<1>0. TypeOK /\ BatchUnderway /\ TaskUnderway /\ EventsOK /\ WorkOK /\ TaskOK
  BY TypeByParts DEF Control
<1>1. CASE UNCHANGED eventVars
  BY <1>0, <1>1 DEF EventsOK, eventVars, Known
<1>2. CASE Commits
  <2>1. PICK i \in Instances, t \in Times : CommitBatch(i, t)
    BY <1>2 DEF Commits
  <2>2. proc.rev \in Revisions /\ Len(owner) < MaxEvents /\ Len(owner) \in Nat
    BY <1>0, <2>1, LenProperties DEF CommitBatch, BatchUnderway, EventsOK
  <2>3. /\ owner' = Append(owner, i) /\ time' = Append(time, t)
        /\ cost' = Append(cost, proc.rev) /\ hot' = hot \cup {Len(owner) + 1}
    BY <2>1 DEF CommitBatch
  <2>4. /\ owner' \in Seq(Instances) /\ Len(owner') = Len(owner) + 1
        /\ time' \in Seq(Times) /\ Len(time') = Len(time) + 1
        /\ cost' \in Seq(Revisions) /\ Len(cost') = Len(cost) + 1
    BY <1>0, <2>2, <2>3 DEF EventsOK
  <2>5. hot' \subseteq 1..Len(owner')
    <3>1. hot \subseteq 1..Len(owner)
      BY <1>0 DEF EventsOK, Known
    <3>2. \A e \in 1..Len(owner) \cup {Len(owner) + 1} : e \in 1..(Len(owner) + 1)
      BY <2>2
    <3> QED
      BY <2>3, <2>4, <3>1, <3>2
  <2>6. MaxEvents \in Nat
    BY RecalculationAssumption
  <2> QED
    BY <1>0, <2>2, <2>4, <2>5, <2>6 DEF EventsOK, Known
<1>3. CASE Archives
  BY <1>0, <1>3 DEF EventsOK, Archives, ArchiveBatch, Known
<1>4. CASE ApplyPage
  <2>1. task.rev \in Revisions
    BY <1>0, <1>4 DEF ApplyPage, TaskUnderway, TaskOK, TaskType
  <2>2. Len(owner) \in Nat /\ cost \in [1..Len(owner) -> Revisions]
    BY <1>0, LenProperties DEF EventsOK
  <2>3. cost' = [e \in Known |-> IF e \in Selected THEN task.rev ELSE cost[e]]
    BY <1>4 DEF ApplyPage
  <2>4. cost' \in [1..Len(owner) -> Revisions]
    BY <2>1, <2>2, <2>3 DEF Known
  <2>5. cost' \in Seq(Revisions) /\ Len(cost') = Len(owner)
    BY <2>2, <2>4
  <2>6. UNCHANGED <<owner, time, hot>>
    BY <1>4 DEF ApplyPage
  <2> QED
    BY <1>0, <2>5, <2>6 DEF EventsOK, Known
<1> QED
  BY <1>1, <1>2, <1>3, <1>4, Frames

LEMMA BucketTypes ==
    ASSUME TypeOK
    PROVE  /\ \A p \in SUBSET Amounts :
                 Added(inHour, p) \in [Ids -> Int] /\ Added(inDay, p) \in [Ids -> Int]
           /\ \A e \in Known : cost[e] \in Int
           /\ hot \subseteq Known /\ Known \subseteq Ids
<1>1. EventsOK /\ BucketsOK
  BY TypeByParts
<1>2. ASSUME NEW e \in Known PROVE cost[e] \in Int
  <2>1. cost[e] \in Revisions
    BY <1>1, ElementOfSeq DEF Known, EventsOK
  <2> QED
    BY <2>1, RecalculationAssumption DEF Revisions
<1>3. Known \subseteq Ids
  BY <1>1, LenProperties, RecalculationAssumption DEF EventsOK, Known, Ids
<1> QED
  BY <1>1, <1>2, <1>3, AddedTypes DEF BucketsOK, EventsOK

LEMMA RewrittenTypes ==
    ASSUME TypeOK, NEW table \in [Ids -> Int]
    PROVE  /\ Delta(table) \in [Ids -> Int]
           /\ \A group, grain : Overwritten(table, group, grain) \in [Ids -> Int]
<1>1. TaskOK /\ task.rev \in Int
  BY TypeByParts, RecalculationAssumption DEF TaskOK, TaskType
<1>2. Selected \subseteq Known
  BY BucketTypes DEF Selected, InScope
<1>3. ASSUME NEW e \in Ids
      PROVE  (IF e \in Selected THEN table[e] + task.rev - cost[e] ELSE table[e]) \in Int
  <2>1. table[e] \in Int
    OBVIOUS
  <2>2. CASE e \in Selected
    <3>1. cost[e] \in Int
      BY <1>2, <2>2, BucketTypes
    <3> QED
      BY <1>1, <2>1, <2>2, <3>1
  <2>3. CASE e \notin Selected
    BY <2>1, <2>3
  <2> QED
    BY <2>2, <2>3
<1>4. ASSUME NEW group, NEW grain
      PROVE  Overwritten(table, group, grain) \in [Ids -> Int]
  <2>1. ASSUME NEW e \in Ids
        PROVE  (IF e \in Known /\ \E f \in group : RowOf(grain, e) = RowOf(grain, f)
                THEN IF e \in group THEN cost[e] ELSE 0 ELSE table[e]) \in Int
    <3>1. table[e] \in Int
      OBVIOUS
    <3>2. e \in Known => cost[e] \in Int
      BY BucketTypes
    <3> QED
      BY <3>1, <3>2
  <2> QED
    BY <2>1 DEF Overwritten
<1> QED
  BY <1>3, <1>4 DEF Delta

LEMMA BucketsStep ==
    ASSUME Control, [Next]_vars
    PROVE  BucketsOK'
<1>0. TypeOK /\ BatchUnderway /\ TaskUnderway /\ EventsOK /\ BucketsOK /\ WorkOK /\ TaskOK
  BY TypeByParts DEF Control
<1>1. Ids \subseteq 0..MaxEvents
  BY RecalculationAssumption DEF Ids
<1>2. CASE UNCHANGED bucketVars
  BY <1>0, <1>2 DEF BucketsOK, bucketVars
<1>3. CASE WritePage
  <2>1. agg.page \in SUBSET Amounts
    BY <1>0 DEF WorkOK
  <2>2. inHour' = Added(inHour, agg.page) /\ inDay' = Added(inDay, agg.page)
    BY <1>3 DEF WritePage
  <2>3. PICK m \in Ids : cursor' = [cursor EXCEPT ![agg.inst] = m]
    BY <1>3 DEF WritePage
  <2>4. cursor' \in [Instances -> 0..MaxEvents]
    BY <1>0, <1>1, <2>3 DEF BucketsOK
  <2> QED
    BY <1>0, <2>1, <2>2, <2>4, BucketTypes DEF BucketsOK
<1>4. CASE CatchUpPage
  <2>1. PICK page : page = FirstOf({e \in Uncounted(Legacy) : e <= task.H}, PageSize)
    OBVIOUS
  <2>2. page \subseteq Known
    BY <1>0, <2>1, BucketTypes DEF FirstOf, Uncounted, Own
  <2>3. Stored(page) \in SUBSET Amounts
    BY <1>0, <2>2, StoredTypes
  <2>4. inHour' = Added(inHour, Stored(page)) /\ inDay' = Added(inDay, Stored(page))
    BY <1>4, <2>1 DEF CatchUpPage
  <2>5. PICK m \in Ids : cursor' = [cursor EXCEPT ![Legacy] = m]
    BY <1>4 DEF CatchUpPage
  <2>6. cursor' \in [Instances -> 0..MaxEvents]
    BY <1>0, <1>1, <2>5 DEF BucketsOK
  <2> QED
    BY <1>0, <2>3, <2>4, <2>6, BucketTypes DEF BucketsOK
<1>5. CASE ApplyPage
  BY <1>0, <1>5, RewrittenTypes DEF ApplyPage, DayDelta, BucketsOK
<1>6. CASE FinalizeHours
  BY <1>0, <1>6, RewrittenTypes DEF FinalizeHours, BucketsOK
<1>7. CASE FinalizeDays
  BY <1>0, <1>7, RewrittenTypes DEF FinalizeDays, BucketsOK
<1>8. CASE FinalizeStops
  <2>1. cursor' = cursor /\ cursor \in [Instances -> 0..MaxEvents]
    BY <1>0, <1>8 DEF FinalizeStops, BucketsOK
  <2>2. inHour \in [Ids -> Int] /\ inDay \in [Ids -> Int]
    BY <1>0 DEF BucketsOK
  <2>3. \/ inHour' = inHour
        \/ \E part : inHour' = Overwritten(inHour, part, "hour")
    BY <1>8, Zenon DEF FinalizeStops
  <2>4. \/ inDay' = inDay
        \/ \E part : inDay' = Overwritten(inDay, part, "day")
    BY <1>8, Zenon DEF FinalizeStops
  <2>5. inHour' \in [Ids -> Int]
    BY <1>0, <2>2, <2>3, RewrittenTypes
  <2>6. inDay' \in [Ids -> Int]
    BY <1>0, <2>2, <2>4, RewrittenTypes
  <2> QED
    BY <2>1, <2>5, <2>6 DEF BucketsOK
<1> QED
  BY <1>2, <1>3, <1>4, <1>5, <1>6, <1>7, <1>8, Frames

LEMMA WorkStep ==
    ASSUME Control, [Next]_vars
    PROVE  PricesOK' /\ WorkOK'
<1>0. TypeOK /\ BatchUnderway /\ TaskUnderway /\ EventsOK /\ BucketsOK /\ PricesOK /\ WorkOK
  BY TypeByParts DEF Control
<1>1. /\ MaxEvents \in Nat /\ MaxRevision \in Nat /\ MaxReads \in Nat
      /\ Revisions \subseteq 0..MaxRevision /\ 0 \in 0..MaxEvents /\ 0 \in 0..MaxRevision
      /\ 0 \in 0..MaxReads
  BY RecalculationAssumption DEF Revisions
<1>2. Idle \in [stage : {"idle", "entered", "priced", "committed"},
                rev : 0..MaxRevision, event : 0..MaxEvents]
  BY <1>1 DEF Idle
<1>3. NoPage \in [inst : Instances, active : BOOLEAN, from : 0..MaxEvents,
                  page : SUBSET Amounts]
  BY <1>1 DEF NoPage, Instances
<1>4. PricesOK'
  <2>1. CASE MutatePricing
    BY <1>0, <1>1, <2>1 DEF MutatePricing, PricesOK, Revisions
  <2> QED
    BY <1>0, <2>1, Frames DEF priceVars, PricesOK, PublishPricing, Restart
<1>5. maint' \in BOOLEAN
  <2>1. UNCHANGED maint \/ EnterMaintenance \/ LeaveMaintenance \/ Restart
    BY Frames
  <2> QED
    BY <1>0, <2>1 DEF WorkOK, EnterMaintenance, LeaveMaintenance, Restart
<1>6. reads' \in 0..MaxReads
  <2>1. UNCHANGED reads \/ Acquire \/ Release \/ Restart
    BY Frames
  <2> QED
    BY <1>0, <1>1, <2>1 DEF WorkOK, Acquire, Release, Restart
<1>7. proc' \in [stage : {"idle", "entered", "priced", "committed"},
                 rev : 0..MaxRevision, event : 0..MaxEvents]
  <2>1. CASE EnterUsage
    BY <1>1, <2>1 DEF EnterUsage, Idle
  <2>2. CASE PriceBatch
    BY <1>0, <1>1, <2>2 DEF PriceBatch, WorkOK, PricesOK
  <2>3. CASE Commits
    <3>1. Len(owner) + 1 \in 0..MaxEvents
      BY <1>0, <1>1, <2>3, LenProperties DEF EventsOK, Commits, CommitBatch, BatchUnderway
    <3> QED
      BY <1>0, <2>3, <3>1 DEF Commits, CommitBatch, WorkOK
  <2> QED
    BY <1>0, <1>2, <2>1, <2>2, <2>3, Frames
       DEF NotifyRecent, ProcessFails, Restart, WorkOK
<1>8. agg' \in [inst : Instances, active : BOOLEAN, from : 0..MaxEvents,
                page : SUBSET Amounts]
  <2>1. CASE Reads
    <3>1. PICK i \in Instances : ReadPage(i)
      BY <2>1 DEF Reads
    <3>2. PICK page : page = FirstOf(Uncounted(i), PageSize)
      OBVIOUS
    <3>3. page \subseteq Known
      BY <1>0, <3>2 DEF FirstOf, Uncounted, Own, EventsOK
    <3>4. Stored(page) \in SUBSET Amounts
      BY <1>0, <3>3, StoredTypes
    <3>5. cursor[i] \in 0..MaxEvents
      BY <1>0 DEF BucketsOK
    <3>6. agg' = [inst |-> i, active |-> i = Legacy, from |-> cursor[i],
                  page |-> Stored(page)]
      BY <3>1, <3>2 DEF ReadPage
    <3> QED
      BY <3>4, <3>5, <3>6
  <2>2. UNCHANGED agg \/ Reads \/ WritePage \/ TurnFails \/ Restart
    BY Frames
  <2>3. agg' = agg \/ agg' = NoPage \/ Reads
    BY <2>2 DEF WritePage, TurnFails, Restart
  <2> QED
    BY <1>0, <1>3, <2>1, <2>3 DEF WorkOK
<1> QED
  BY <1>4, <1>5, <1>6, <1>7, <1>8 DEF WorkOK

LEMMA CachesStep ==
    ASSUME Control, [Next]_vars
    PROVE  CachesOK' /\ QuotaOK'
<1>0. /\ TypeOK /\ BatchUnderway /\ TaskUnderway
      /\ EventsOK /\ WorkOK /\ CachesOK /\ QuotaOK /\ TaskOK
  BY TypeByParts DEF Control
<1>1. /\ MaxTasks \in Nat /\ MaxQuota \in Nat /\ QueueSize \in Nat /\ 0 \in 0..MaxTasks
      /\ Len(queue) \in Nat
  BY <1>0, RecalculationAssumption, LenProperties DEF CachesOK
<1>2. Stored(hot) \subseteq Amounts
  BY <1>0, StoredTypes DEF EventsOK
<1>3. NoRefresh \in [stage : {"idle", "begun", "read"}, gen : 0..MaxTasks,
                     seen : SUBSET Amounts]
  BY <1>1 DEF NoRefresh
<1>4. CachesOK'
  <2>1. CASE NotifyRecent
    <3>1. proc.event \in Ids /\ proc.rev \in Revisions
      BY <1>0, <2>1, BucketTypes DEF NotifyRecent, BatchUnderway
    <3>2. <<proc.event, proc.rev>> \in Amounts
      BY <3>1 DEF Amounts
    <3>3. /\ Append(queue, <<proc.event, proc.rev>>) \in Seq(Amounts)
          /\ Len(Append(queue, <<proc.event, proc.rev>>)) = Len(queue) + 1
      BY <1>0, <3>2 DEF CachesOK
    <3>4. queue' \in Seq(Amounts) /\ Len(queue') <= QueueSize
      BY <1>0, <1>1, <2>1, <3>3 DEF NotifyRecent, Enqueued, CachesOK
    <3>5. UNCHANGED <<recent, recentValid>>
      BY <2>1 DEF NotifyRecent
    <3> QED
      BY <1>0, <3>4, <3>5 DEF CachesOK
  <2>2. CASE AppendRecent
    <3>1. /\ Head(queue) \in Amounts /\ Tail(queue) \in Seq(Amounts)
          /\ Len(Tail(queue)) <= QueueSize
      BY <1>0, <1>1, <2>2, HeadTailProperties DEF AppendRecent, CachesOK
    <3> QED
      BY <1>0, <2>2, <3>1 DEF AppendRecent, CachesOK
  <2>3. CASE ReloadStoredCostEvents
    BY <1>0, <1>2, <2>3 DEF ReloadStoredCostEvents, ReloadFails, CachesOK
  <2>4. CASE Restart
    <3>1. <<>> \in Seq(Amounts) /\ Len(<<>>) = 0
      BY EmptySeq
    <3> QED
      BY <1>1, <1>2, <2>4, <3>1 DEF Restart, CachesOK
  <2> QED
    BY <1>0, <2>1, <2>2, <2>3, <2>4, Frames DEF cacheVars, CachesOK
<1>5. QuotaOK'
  <2>1. CASE BeginRefresh
    BY <1>0, <1>1, <2>1 DEF BeginRefresh, QuotaOK
  <2>2. CASE ReadUsageWindow
    BY <1>0, <1>2, <2>2 DEF ReadUsageWindow, QuotaOK
  <2>3. CASE PublishQuota
    BY <1>0, <1>3, <2>3 DEF PublishQuota, Published, QuotaOK
  <2>4. CASE InvalidateStoredCostCache
    <3>1. generation < tasks /\ tasks \in 0..MaxTasks /\ generation \in 0..MaxTasks
      BY <1>0, <2>4 DEF InvalidateStoredCostCache, TaskUnderway, TaskOK, QuotaOK
    <3>2. generation + 1 \in 0..MaxTasks
      BY <1>1, <3>1
    <3> QED
      BY <1>0, <2>4, <3>2 DEF InvalidateStoredCostCache, QuotaOK
  <2>5. CASE Restart
    BY <1>0, <1>1, <1>3, <2>5 DEF Restart, QuotaOK
  <2> QED
    BY <1>0, <2>1, <2>2, <2>3, <2>4, <2>5, Frames DEF quotaVars, QuotaOK
<1> QED
  BY <1>4, <1>5

LEMMA TaskStepTypes ==
    ASSUME Control, [Next]_vars
    PROVE  TaskOK'
<1>0. TypeOK /\ BatchUnderway /\ TaskUnderway /\ EventsOK /\ PricesOK /\ TaskOK
  BY TypeByParts DEF Control
<1>1. /\ MaxTasks \in Nat /\ MaxCrashes \in Nat /\ MaxEvents \in Nat /\ MaxRevision \in Nat
      /\ Revisions \subseteq 0..MaxRevision
  BY RecalculationAssumption DEF Revisions
<1>2. NoTask \in TaskType
  BY <1>1 DEF NoTask, TaskType, Labels
<1>3. \A pc \in Labels : /\ [task EXCEPT !.pc = pc] \in TaskType
                         /\ [task EXCEPT !.pc = pc, !.err = TRUE] \in TaskType
  BY <1>0 DEF TaskOK, TaskType
<1>4. closing' \in BOOLEAN /\ crashes' \in 0..MaxCrashes
  <2>1. CASE Restart
    <3>1. crashes < MaxCrashes /\ crashes' = crashes + 1 /\ closing' = FALSE
      BY <2>1 DEF Restart
    <3>2. crashes \in 0..MaxCrashes
      BY <1>0 DEF TaskOK
    <3>3. crashes' \in 0..MaxCrashes
      BY <1>1, <3>1, <3>2
    <3> QED
      BY <3>1, <3>3
  <2>2. CASE Close
    BY <1>0, <2>2 DEF Close, TaskOK
  <2>3. CASE UNCHANGED <<closing, crashes>>
    BY <1>0, <2>3 DEF TaskOK
  <2> QED
    BY <2>1, <2>2, <2>3, Frames
<1>5. CASE Starts
  <2>1. PICK start \in HourStarts, t \in Times : StartPricingRecalculation(start, t + 1)
    BY <1>5 DEF Starts
  <2>2. start \in Nat /\ t + 1 \in Nat /\ catalog \in 0..MaxRevision
    BY <1>0, <1>1, StartIsNat, RecalculationAssumption DEF PricesOK
  <2>3. [NoTask EXCEPT !.pc = "pauseUsage", !.rev = catalog, !.start = start,
                       !.end = t + 1] \in TaskType
    BY <1>2, <2>2 DEF TaskType, Labels
  <2>4. tasks' \in 0..MaxTasks
    BY <1>0, <1>1, <2>1 DEF StartPricingRecalculation, TaskOK
  <2> QED
    BY <1>0, <1>4, <2>1, <2>3, <2>4 DEF StartPricingRecalculation, TaskOK, gateVars
<1>6. CASE Restart
  BY <1>0, <1>2, <1>4, <1>6 DEF Restart, TaskOK
<1>7. CASE GateStep
  <2>1. task' \in TaskType
    BY <1>3, <1>7
       DEF GateStep, PauseUsage, SettleUsage, DrainRecent, PauseAggregation,
           SettleAggregation, BlockReads, DrainReads, CancelWait, ResumeReads,
           ResumeAggregation, ResumeUsage, TaskGoes, Labels
  <2>2. /\ usagePaused' \in BOOLEAN /\ aggPaused' \in BOOLEAN /\ blocked' \in BOOLEAN
        /\ UNCHANGED <<status, tasks>>
    BY <1>0, <1>7
       DEF GateStep, PauseUsage, SettleUsage, DrainRecent, PauseAggregation,
           SettleAggregation, BlockReads, DrainReads, CancelWait, ResumeReads,
           ResumeAggregation, ResumeUsage, gateVars, OpenGates, TaskOK
  <2> QED
    BY <1>0, <1>4, <2>1, <2>2 DEF TaskOK
<1>8. CASE LoadScope
  <2>1. PICK m \in 0..MaxEvents :
           task' = [[task EXCEPT !.H = m] EXCEPT
                       !.pc = IF InScope([task EXCEPT !.H = m]) = {} THEN "reload"
                                                                   ELSE "catchUp"]
    BY <1>8 DEF LoadScope
  <2>2. task' \in TaskType
    BY <1>0, <2>1 DEF TaskOK, TaskType, Labels
  <2> QED
    BY <1>0, <1>4, <1>8, <2>2 DEF LoadScope, gateVars, TaskOK
<1>9. CASE ApplyPage
  <2>1. PICK m \in 0..MaxEvents :
           task' = [task EXCEPT !.scan = m,
                                !.pc = IF Cardinality(Scanned) < PageSize
                                       THEN "hours" ELSE "events"]
    BY <1>9 DEF ApplyPage
  <2>2. task' \in TaskType
    BY <1>0, <2>1 DEF TaskOK, TaskType, Labels
  <2> QED
    BY <1>0, <1>4, <1>9, <2>2 DEF ApplyPage, gateVars, TaskOK
<1>10. CASE CatchUpPage \/ CatchUpDone \/ FinalizeHours \/ FinalizeDays \/ FinalizeStops
            \/ RewriteFails \/ ReloadStoredCostEvents \/ InvalidateStoredCostCache
            \/ PublishStatus
  <2>1. task' \in TaskType
    BY <1>0, <1>3, <1>10
       DEF CatchUpPage, CatchUpDone, FinalizeHours, FinalizeDays, FinalizeStops,
           RewriteFails, ReloadStoredCostEvents, ReloadFails, InvalidateStoredCostCache,
           PublishStatus, TaskGoes, TaskFails, taskVars, Labels, TaskOK
  <2>2. /\ UNCHANGED <<gateVars, tasks>>
        /\ status' \in {"none", "running", "completed", "failed"}
    BY <1>0, <1>10
       DEF CatchUpPage, CatchUpDone, FinalizeHours, FinalizeDays, FinalizeStops,
           RewriteFails, ReloadStoredCostEvents, InvalidateStoredCostCache,
           PublishStatus, taskVars, TaskOK
  <2> QED
    BY <1>0, <1>4, <2>1, <2>2 DEF gateVars, TaskOK
<1>11. CASE UNCHANGED <<gateVars, taskVars>>
  BY <1>0, <1>4, <1>11 DEF gateVars, taskVars, TaskOK
<1>12. TaskStep <=> \/ GateStep \/ LoadScope \/ ApplyPage
                    \/ (CatchUpPage \/ CatchUpDone \/ FinalizeHours \/ FinalizeDays
                        \/ FinalizeStops \/ RewriteFails \/ ReloadStoredCostEvents
                        \/ InvalidateStoredCostCache \/ PublishStatus)
  BY DEF TaskStep, RewriteStep
<1> QED
  BY <1>5, <1>6, <1>7, <1>8, <1>9, <1>10, <1>11, <1>12, Frames

-----------------------------------------------------------------------------
(* The gates.                                                               *)

LEMMA GatesStep ==
    ASSUME Control, [Next]_vars
    PROVE  Gates'
<1> USE DEF Outside, UsageStops, AggregationRuns, AggregationStops, Rewriting
<1>0. TypeOK /\ Gates /\ TaskOK /\ WorkOK
  BY TypeByParts DEF Control
<1>1. \A pc, err : /\ [task EXCEPT !.pc = pc].pc = pc
                   /\ [task EXCEPT !.pc = pc, !.err = err].pc = pc
  BY <1>0 DEF TaskOK, TaskType
<1>2. CASE Starts
  <2>1. task'.pc = "pauseUsage"
    BY <1>2 DEF Starts, StartPricingRecalculation, NoTask
  <2> QED
    BY <2>1 DEF Gates
<1>3. CASE Restart
  <2>1. task'.pc = "none"
    BY <1>3 DEF Restart, NoTask
  <2> QED
    BY <2>1 DEF Gates
<1>4. CASE GateStep
  <2>1. CASE PauseUsage
    BY <1>0, <1>1, <2>1 DEF PauseUsage, TaskGoes, Gates
  <2>2. CASE SettleUsage
    BY <1>0, <1>1, <2>2 DEF SettleUsage, UsageSettled, TaskGoes, gateVars, Gates
  <2>3. CASE DrainRecent
    BY <1>0, <1>1, <2>3 DEF DrainRecent, Drained, TaskGoes, gateVars, cacheVars, Gates
  <2>4. CASE PauseAggregation
    BY <1>0, <1>1, <2>4 DEF PauseAggregation, TaskGoes, cacheVars, Gates
  <2>5. CASE SettleAggregation
    BY <1>0, <1>1, <2>5 DEF SettleAggregation, TaskGoes, gateVars, cacheVars, Gates
  <2>6. CASE BlockReads
    BY <1>0, <1>1, <2>6 DEF BlockReads, TaskGoes, cacheVars, Gates
  <2>7. CASE DrainReads
    BY <1>0, <1>1, <2>7 DEF DrainReads, ReadsDrained, TaskGoes, gateVars, cacheVars, Gates
  <2>8. CASE CancelWait
    BY <1>0, <1>1, <2>8 DEF CancelWait, Gates
  <2>9. CASE ResumeReads
    BY <1>0, <1>1, <2>9 DEF ResumeReads, TaskGoes, cacheVars, Gates
  <2>10. CASE ResumeAggregation
    BY <1>0, <1>1, <2>10 DEF ResumeAggregation, TaskGoes, cacheVars, Gates
  <2>11. CASE ResumeUsage
    BY <1>0, <1>1, <2>11 DEF ResumeUsage, TaskGoes, Gates
  <2> QED
    BY <1>4, <2>1, <2>2, <2>3, <2>4, <2>5, <2>6, <2>7, <2>8, <2>9, <2>10, <2>11
       DEF GateStep
<1>5. CASE TaskStep /\ ~GateStep
  <2>1. task.pc \in Rewriting \cup {"publish"}
    BY <1>5
       DEF TaskStep, RewriteStep, LoadScope, CatchUpPage, CatchUpDone, ApplyPage,
           FinalizeHours, FinalizeDays, FinalizeStops, RewriteFails,
           ReloadStoredCostEvents, InvalidateStoredCostCache, PublishStatus
  <2>2. \/ task.pc = "publish" /\ task'.pc = "none"
        \/ task.pc \in Rewriting /\ task'.pc \in Rewriting
    <3>1. CASE LoadScope
      <4>1. task'.pc \in {"reload", "catchUp"}
        BY <1>0, <3>1 DEF LoadScope, TaskOK, TaskType
      <4> QED
        BY <3>1, <4>1 DEF LoadScope
    <3>2. CASE ApplyPage
      <4>1. task'.pc \in {"hours", "events"}
        BY <1>0, <3>2 DEF ApplyPage, TaskOK, TaskType
      <4> QED
        BY <3>2, <4>1 DEF ApplyPage
    <3>3. CASE CatchUpPage
      BY <3>3 DEF CatchUpPage, taskVars
    <3>4. CASE CatchUpDone \/ FinalizeHours \/ FinalizeDays \/ FinalizeStops
               \/ RewriteFails \/ ReloadStoredCostEvents \/ InvalidateStoredCostCache
               \/ PublishStatus
      <4>1. CASE CatchUpDone
        BY <1>0, <1>1, <4>1 DEF CatchUpDone, TaskGoes
      <4>2. CASE FinalizeHours
        BY <1>0, <1>1, <4>2 DEF FinalizeHours, TaskGoes
      <4>3. CASE FinalizeDays
        BY <1>0, <1>1, <4>3 DEF FinalizeDays, TaskGoes
      <4>4. CASE FinalizeStops
        BY <1>0, <1>1, <4>4 DEF FinalizeStops, TaskFails
      <4>5. CASE RewriteFails
        BY <1>0, <1>1, <4>5 DEF RewriteFails, TaskFails
      <4>6. CASE ReloadStoredCostEvents
        <5>1. task.pc = "reload" /\ (TaskGoes("invalidate") \/ ReloadFails)
          BY <4>6 DEF ReloadStoredCostEvents
        <5>2. task'.pc = "invalidate"
          BY <1>1, <5>1 DEF TaskGoes, ReloadFails
        <5> QED
          BY <5>1, <5>2
      <4>7. CASE InvalidateStoredCostCache
        BY <1>0, <1>1, <4>7 DEF InvalidateStoredCostCache, TaskGoes
      <4>8. CASE PublishStatus
        BY <1>0, <1>1, <4>8 DEF PublishStatus, TaskGoes
      <4> QED
        BY <3>4, <4>1, <4>2, <4>3, <4>4, <4>5, <4>6, <4>7, <4>8
    <3>5. \/ LoadScope \/ ApplyPage \/ CatchUpPage
          \/ (CatchUpDone \/ FinalizeHours \/ FinalizeDays \/ FinalizeStops
               \/ RewriteFails \/ ReloadStoredCostEvents \/ InvalidateStoredCostCache
               \/ PublishStatus)
      BY <1>5 DEF TaskStep, RewriteStep
    <3> QED
      BY <3>1, <3>2, <3>3, <3>4, <3>5
  <2>3. UNCHANGED <<proc, maint, agg, reads, queue, gateVars>>
    BY <1>5
       DEF TaskStep, RewriteStep, LoadScope, CatchUpPage, CatchUpDone, ApplyPage,
           FinalizeHours, FinalizeDays, FinalizeStops, RewriteFails,
           ReloadStoredCostEvents, InvalidateStoredCostCache, PublishStatus, cacheVars
  <2> QED
    BY <1>0, <2>2, <2>3 DEF Gates, gateVars
<1>6. CASE UNCHANGED <<gateVars, taskVars>> /\ ~TaskStep /\ ~Restart
  <2>1. UNCHANGED <<usagePaused, aggPaused, blocked, task>>
    BY <1>6 DEF gateVars, taskVars
  <2>2. task.pc \notin UsageStops => proc' = Idle
    <3>1. UNCHANGED proc \/ EnterUsage \/ PriceBatch \/ Commits \/ NotifyRecent
          \/ ProcessFails
      BY <1>6, Frames
    <3> QED
      BY <1>0, <3>1
         DEF Gates, EnterUsage, MayEnter, PriceBatch, Commits, CommitBatch, NotifyRecent,
             ProcessFails, Idle
  <2>3. task.pc \notin UsageStops => ~maint'
    <3>1. UNCHANGED maint \/ EnterMaintenance \/ LeaveMaintenance
      BY <1>6, Frames
    <3> QED
      BY <1>0, <3>1 DEF Gates, EnterMaintenance, LeaveMaintenance
  <2>4. task.pc \notin UsageStops \cup {"drain"} => queue' = <<>>
    <3>1. UNCHANGED queue \/ NotifyRecent \/ AppendRecent
      BY <1>6, Frames DEF cacheVars, TaskStep
    <3> QED
      BY <1>0, <3>1 DEF Gates, NotifyRecent, AppendRecent, Idle
  <2>5. task.pc \notin AggregationStops => ~agg'.active
    <3>1. UNCHANGED agg \/ Reads \/ agg' = NoPage
      BY <1>6, Frames DEF WritePage, TurnFails
    <3>2. ASSUME task.pc \notin AggregationStops, Reads PROVE ~agg'.active
      <4>1. PICK i \in Instances : ReadPage(i)
        BY <3>2 DEF Reads
      <4>2. aggPaused
        BY <1>0, <3>2 DEF Gates
      <4>3. i # Legacy
        BY <4>1, <4>2 DEF ReadPage, TurnMayStart
      <4> QED
        BY <4>1, <4>3 DEF ReadPage
    <3> QED
      BY <1>0, <3>1, <3>2 DEF Gates, NoPage
  <2>6. task.pc \in Rewriting => reads' = 0
    <3>1. UNCHANGED reads \/ Acquire \/ Release
      BY <1>6, Frames
    <3> QED
      BY <1>0, <3>1 DEF Gates, Acquire, Release
  <2> QED
    BY <1>0, <2>1, <2>2, <2>3, <2>4, <2>5, <2>6 DEF Gates
<1> QED
  BY <1>2, <1>3, <1>4, <1>5, <1>6, Frames

LEMMA BatchStep ==
    ASSUME Control, [Next]_vars
    PROVE  BatchUnderway'
<1>0. EventsOK /\ PricesOK /\ WorkOK /\ BatchUnderway /\ Gates
  BY TypeByParts DEF Control
<1>1. /\ Len(owner) \in Nat /\ Len(cost) = Len(owner)
      /\ cost \in Seq(Revisions) /\ owner \in Seq(Instances)
  BY <1>0, LenProperties DEF EventsOK
<1>2. CASE proc'.stage = "idle"
  BY <1>2 DEF BatchUnderway
<1>3. CASE UNCHANGED proc /\ proc.stage # "idle"
  <2>1. ~ApplyPage
    <3>1. task.pc = "events" => proc.stage = "idle"
      BY <1>0 DEF Gates, Outside, UsageStops, Idle
    <3>2. ApplyPage => task.pc = "events"
      BY DEF ApplyPage
    <3> QED
      BY <1>3, <3>1, <3>2
  <2>2. UNCHANGED <<owner, cost>>
    <3>1. UNCHANGED eventVars \/ Commits \/ Archives
      BY <2>1, Frames
    <3>2. ~Commits
      BY <1>0, <1>3 DEF Commits, CommitBatch, WorkOK
    <3> QED
      BY <3>1, <3>2 DEF eventVars, Archives, ArchiveBatch
  <2> QED
    BY <1>0, <1>3, <2>2 DEF BatchUnderway, Known
<1>4. CASE EnterUsage
  BY <1>4 DEF EnterUsage, MayEnter, Idle, BatchUnderway, eventVars
<1>5. CASE PriceBatch
  BY <1>0, <1>5 DEF PriceBatch, WorkOK, PricesOK, BatchUnderway, eventVars
<1>6. CASE Commits
  <2>1. PICK i \in Instances, t \in Times : CommitBatch(i, t)
    BY <1>6 DEF Commits
  <2>2. /\ owner' = Append(owner, i) /\ cost' = Append(cost, proc.rev)
        /\ proc.rev \in Revisions
    BY <1>0, <2>1 DEF CommitBatch, BatchUnderway
  <2>3. /\ proc'.stage = "committed" /\ proc'.rev = proc.rev
        /\ proc'.event = Len(owner) + 1
    BY <1>0, <2>1 DEF CommitBatch, WorkOK
  <2>4. Len(owner') = Len(owner) + 1 /\ cost'[Len(owner) + 1] = proc.rev
    BY <1>1, <2>2
  <2>5. Len(owner) + 1 \in 1..Len(owner')
    BY <1>1, <2>4
  <2> QED
    BY <2>2, <2>3, <2>4, <2>5 DEF BatchUnderway, Known
<1>7. CASE NotifyRecent \/ ProcessFails \/ Restart
  BY <1>2, <1>7 DEF NotifyRecent, ProcessFails, Restart, Idle
<1>8. CASE UNCHANGED proc /\ proc.stage = "idle"
  BY <1>2, <1>8
<1> QED
  BY <1>3, <1>4, <1>5, <1>6, <1>7, <1>8, Frames

LEMMA TasksStep ==
    ASSUME Control, [Next]_vars
    PROVE  TaskUnderway'
<1>0. PricesOK /\ QuotaOK /\ TaskOK /\ TaskUnderway
  BY TypeByParts DEF Control
<1>1. tasks \in Nat /\ generation \in Nat
  BY <1>0, RecalculationAssumption DEF TaskOK, QuotaOK
<1> DEFINE Before == Labels \ {"none", "openReads", "openAgg", "openUsage", "publish"}
<1>2. \A pc, err : /\ [task EXCEPT !.pc = pc].pc = pc
                   /\ [task EXCEPT !.pc = pc].rev = task.rev
                   /\ [task EXCEPT !.pc = pc, !.err = err].pc = pc
                   /\ [task EXCEPT !.pc = pc, !.err = err].rev = task.rev
  BY <1>0 DEF TaskOK, TaskType
<1>3. CASE Starts
  <2>1. /\ task'.pc = "pauseUsage" /\ task'.rev = catalog /\ status' = "running"
        /\ tasks' = tasks + 1 /\ generation' = generation /\ status # "running"
    BY <1>3 DEF Starts, StartPricingRecalculation, NoTask, quotaVars
  <2> QED
    BY <1>0, <1>1, <2>1 DEF TaskUnderway, PricesOK
<1>4. CASE Restart
  <2>1. task'.pc = "none" /\ status' = "none" /\ generation' = 0 /\ tasks' = tasks
    BY <1>4 DEF Restart, NoTask
  <2> QED
    BY <1>1, <2>1 DEF TaskUnderway
<1>5. CASE InvalidateStoredCostCache
  <2>1. /\ task.pc = "invalidate" /\ task' = [task EXCEPT !.pc = "openReads"]
        /\ generation' = generation + 1 /\ UNCHANGED <<status, tasks>>
    BY <1>5 DEF InvalidateStoredCostCache, TaskGoes
  <2>2. task'.pc = "openReads" /\ task'.rev = task.rev
    BY <1>2, <2>1
  <2> QED
    BY <1>0, <1>1, <2>1, <2>2 DEF TaskUnderway
<1>6. CASE PublishStatus
  <2>1. /\ task' = [task EXCEPT !.pc = "none"] /\ status' \in {"failed", "completed"}
        /\ UNCHANGED <<generation, tasks>>
    BY <1>6 DEF PublishStatus, TaskGoes, quotaVars
  <2>2. task'.pc = "none"
    BY <1>2, <2>1
  <2> QED
    BY <1>0, <2>1, <2>2 DEF TaskUnderway
<1>7. CASE TaskStep /\ ~InvalidateStoredCostCache /\ ~PublishStatus
  <2>1. /\ task.pc # "none" /\ task'.pc # "none" /\ task'.rev = task.rev
        /\ task'.pc \in Before => task.pc \in Before
        /\ UNCHANGED <<status, tasks, generation>>
    <3>1. CASE LoadScope \/ ApplyPage \/ CatchUpPage
      BY <1>0, <3>1 DEF LoadScope, ApplyPage, CatchUpPage, TaskOK, TaskType, Labels,
                        taskVars, quotaVars
    <3>2. CASE FinalizeStops \/ RewriteFails
      BY <1>0, <3>2 DEF FinalizeStops, RewriteFails, TaskFails, TaskOK, TaskType, Labels,
                        quotaVars
    <3>3. CASE CatchUpDone
      BY <1>0, <3>3 DEF CatchUpDone, TaskGoes, TaskOK, TaskType, Labels, quotaVars
    <3>4. CASE FinalizeHours
      BY <1>0, <3>4 DEF FinalizeHours, TaskGoes, TaskOK, TaskType, Labels, quotaVars
    <3>5. CASE FinalizeDays
      BY <1>0, <3>5 DEF FinalizeDays, TaskGoes, TaskOK, TaskType, Labels, quotaVars
    <3>6. CASE ReloadStoredCostEvents
      <4>1. /\ task.pc = "reload" /\ (TaskGoes("invalidate") \/ ReloadFails)
            /\ UNCHANGED <<status, tasks, generation>>
        BY <3>6 DEF ReloadStoredCostEvents, quotaVars
      <4>2. \/ task' = [task EXCEPT !.pc = "invalidate"]
            \/ task' = [task EXCEPT !.pc = "invalidate", !.err = TRUE]
        BY <4>1 DEF TaskGoes, ReloadFails
      <4>3. task'.pc = "invalidate" /\ task'.rev = task.rev
        BY <1>0, <4>2 DEF TaskOK, TaskType
      <4> QED
        BY <4>1, <4>3 DEF Labels
    <3>7. CASE GateStep
      <4>1. \E pc \in Labels, err \in BOOLEAN :
               /\ \/ task' = [task EXCEPT !.pc = pc]
                  \/ task' = [task EXCEPT !.pc = pc, !.err = err]
               /\ pc # "none" /\ task.pc # "none"
               /\ pc \in Before => task.pc \in Before
        BY <3>7
           DEF GateStep, PauseUsage, SettleUsage, DrainRecent, PauseAggregation,
               SettleAggregation, BlockReads, DrainReads, CancelWait, ResumeReads,
               ResumeAggregation, ResumeUsage, TaskGoes, Labels
      <4>2. UNCHANGED <<status, tasks, generation>>
        BY <3>7
           DEF GateStep, PauseUsage, SettleUsage, DrainRecent, PauseAggregation,
               SettleAggregation, BlockReads, DrainReads, CancelWait, ResumeReads,
               ResumeAggregation, ResumeUsage, quotaVars
      <4>3. PICK pc \in Labels, err \in BOOLEAN :
               /\ \/ task' = [task EXCEPT !.pc = pc]
                  \/ task' = [task EXCEPT !.pc = pc, !.err = err]
               /\ pc # "none" /\ task.pc # "none"
               /\ pc \in Before => task.pc \in Before
        BY <4>1
      <4>4. task'.pc = pc /\ task'.rev = task.rev
        BY <1>0, <4>3 DEF TaskOK, TaskType
      <4> QED
        BY <4>2, <4>3, <4>4
    <3>8. \/ GateStep \/ (LoadScope \/ ApplyPage \/ CatchUpPage) \/ CatchUpDone
          \/ FinalizeHours \/ FinalizeDays \/ (FinalizeStops \/ RewriteFails)
          \/ ReloadStoredCostEvents
      BY <1>7 DEF TaskStep, RewriteStep
    <3> QED
      BY <3>1, <3>2, <3>3, <3>4, <3>5, <3>6, <3>7, <3>8
  <2>2. status = "running" /\ status' = "running" /\ task.rev \in Revisions
    BY <1>0, <2>1 DEF TaskUnderway
  <2>3. generation <= tasks /\ (task.pc \in Before => generation < tasks)
    BY <1>0 DEF TaskUnderway
  <2>4. task'.pc \in Labels
    BY TaskStepTypes DEF TaskOK, TaskType
  <2>5. generation' <= tasks' /\ (task'.pc \in Before => generation' < tasks')
    BY <2>1, <2>3
  <2> HIDE <1>0
  <2> QED
    BY <2>1, <2>2, <2>4, <2>5 DEF TaskUnderway
<1>8. CASE UNCHANGED <<gateVars, taskVars>> /\ ~TaskStep /\ ~Restart
  <2>1. UNCHANGED <<status, task, tasks>>
    BY <1>8 DEF taskVars
  <2>2. generation' = generation
    BY <1>8, Frames DEF TaskStep, quotaVars, BeginRefresh, ReadUsageWindow, PublishQuota
  <2> QED
    BY <1>0, <2>1, <2>2 DEF TaskUnderway
<1> QED
  BY <1>3, <1>4, <1>5, <1>6, <1>7, <1>8, Frames

\* The control of the model is in order in every state of every behaviour.
LEMMA ControlHolds == Spec => []Control
<1>1. Init => Control
  <2> SUFFICES ASSUME Init PROVE Control
    OBVIOUS
  <2>1. /\ MaxEvents \in Nat /\ MaxRevision \in Nat \ {0} /\ MaxTasks \in Nat
        /\ MaxReads \in Nat /\ MaxQuota \in Nat /\ MaxCrashes \in Nat /\ QueueSize \in Nat
    BY RecalculationAssumption
  <2>2. \A S : <<>> \in Seq(S) /\ Len(<<>>) = 0
    BY EmptySeq
  <2>3. EventsOK /\ BucketsOK /\ PricesOK
    BY <2>1, <2>2 DEF Init, EventsOK, BucketsOK, PricesOK, Known, Revisions
  <2>4. WorkOK
    <3>1. Idle \in [stage : {"idle", "entered", "priced", "committed"},
                    rev : 0..MaxRevision, event : 0..MaxEvents]
      BY <2>1 DEF Idle
    <3>2. NoPage \in [inst : Instances, active : BOOLEAN, from : 0..MaxEvents,
                      page : SUBSET Amounts]
      BY <2>1 DEF NoPage, Instances
    <3>3. maint \in BOOLEAN
      BY DEF Init
    <3>4. reads \in 0..MaxReads
      BY <2>1 DEF Init
    <3>5. proc = Idle /\ agg = NoPage
      BY DEF Init
    <3> QED
      BY <3>1, <3>2, <3>3, <3>4, <3>5 DEF WorkOK
  <2>5. CachesOK /\ QuotaOK
    BY <2>1, <2>2 DEF Init, CachesOK, QuotaOK, NoRefresh
  <2>6. TaskOK
    <3>1. NoTask \in TaskType
      BY <2>1 DEF NoTask, TaskType, Labels
    <3>2. tasks \in 0..MaxTasks /\ crashes \in 0..MaxCrashes
      BY <2>1 DEF Init
    <3>3. /\ usagePaused = FALSE /\ aggPaused = FALSE /\ blocked = FALSE /\ closing = FALSE
          /\ status = "none" /\ task = NoTask
      BY DEF Init
    <3> QED
      BY <3>1, <3>2, <3>3 DEF TaskOK
  <2>7. BatchUnderway /\ TaskUnderway /\ Gates
    BY DEF Init, BatchUnderway, TaskUnderway, Gates, Outside, UsageStops, AggregationRuns,
           AggregationStops, Rewriting, Idle, NoTask
  <2> QED
    BY <2>3, <2>4, <2>5, <2>6, <2>7, TypeByParts DEF Control
<1>2. Control /\ [Next]_vars => Control'
  <2> SUFFICES ASSUME Control, [Next]_vars PROVE Control'
    OBVIOUS
  <2>1. TypeOK'
    BY EventsStep, BucketsStep, WorkStep, CachesStep, TaskStepTypes, TypeByParts
  <2> QED
    BY <2>1, BatchStep, TasksStep, GatesStep DEF Control
<1> QED
  BY <1>1, <1>2, PTL DEF Spec

-----------------------------------------------------------------------------
(* No cache serves an amount from before a rewrite.                         *)

(* From the first rewritten page on the caches may be behind, until they    *)
(* are reloaded and emptied.                                                *)
RecentBehind == {"events", "hours", "days", "reload"}
QuotaBehind == RecentBehind \cup {"invalidate"}

(* An append that was accepted is never behind: none is accepted while      *)
(* usage work is paused, and the queue is drained before the rewrite.  A    *)
(* refresh is kept from publishing what it read by the generation alone.    *)
Fresh ==
    /\ \A k \in 1..Len(queue) : queue[k] \in Stored(Known)
    /\ task.pc \notin RecentBehind /\ recentValid => recent \subseteq Stored(Known)
    /\ task.pc \notin QuotaBehind => quota \subseteq Stored(Known)
    /\ task.pc \notin QuotaBehind /\ refresh.stage = "read" /\ refresh.gen = generation
          => refresh.seen \subseteq Stored(Known)
    /\ refresh.gen <= generation

\* Only a page of the rewrite takes an amount away.
LEMMA StoredStays ==
    ASSUME Control, [Next]_vars, ~ApplyPage
    PROVE  Stored(Known) \subseteq Stored(Known)'
<1>0. EventsOK
  BY TypeByParts DEF Control
<1>1. CASE UNCHANGED eventVars
  BY <1>1 DEF eventVars, Stored, Known
<1>2. CASE Archives
  BY <1>2 DEF Archives, ArchiveBatch, Stored, Known
<1>3. CASE Commits
  <2>1. PICK i \in Instances, t \in Times : CommitBatch(i, t)
    BY <1>3 DEF Commits
  <2>2. /\ owner' = Append(owner, i) /\ cost' = Append(cost, proc.rev)
        /\ owner \in Seq(Instances) /\ cost \in Seq(Revisions)
        /\ Len(owner) \in Nat /\ Len(cost) = Len(owner)
    BY <1>0, <2>1, LenProperties DEF CommitBatch, EventsOK
  <2>3. ASSUME NEW e \in 1..Len(owner) PROVE e \in 1..Len(owner') /\ cost'[e] = cost[e]
    BY <2>2
  <2> QED
    BY <2>3 DEF Stored, Known
<1> QED
  BY <1>1, <1>2, <1>3, Frames

LEMMA LabelsMove ==
    ASSUME Control, [Next]_vars, ~Restart
    PROVE  /\ task.pc \in RecentBehind /\ ~ReloadStoredCostEvents => task'.pc \in RecentBehind
           /\ task.pc \in QuotaBehind /\ ~InvalidateStoredCostCache => task'.pc \in QuotaBehind
<1> USE DEF RecentBehind, QuotaBehind
<1>0. TaskOK /\ TaskUnderway
  BY TypeByParts DEF Control
<1>1. CASE task.pc \notin QuotaBehind
  BY <1>1
<1>2. CASE UNCHANGED task
  BY <1>2
<1>3. CASE Starts
  <2>1. status # "running"
    BY <1>3 DEF Starts, StartPricingRecalculation
  <2> QED
    BY <1>0, <2>1 DEF TaskUnderway
<1>4. CASE TaskStep /\ task.pc \in QuotaBehind
  <2>1. ~GateStep /\ ~LoadScope /\ ~CatchUpPage /\ ~CatchUpDone /\ ~PublishStatus
    BY <1>4
       DEF GateStep, PauseUsage, SettleUsage, DrainRecent, PauseAggregation,
           SettleAggregation, BlockReads, DrainReads, CancelWait, ResumeReads,
           ResumeAggregation, ResumeUsage, LoadScope, CatchUpPage, CatchUpDone, PublishStatus
  <2>2. CASE ApplyPage
    BY <1>0, <2>2 DEF ApplyPage, TaskOK, TaskType
  <2>3. CASE FinalizeHours
    BY <1>0, <2>3 DEF FinalizeHours, TaskGoes, TaskOK, TaskType
  <2>4. CASE FinalizeDays
    BY <1>0, <2>4 DEF FinalizeDays, TaskGoes, TaskOK, TaskType
  <2>5. CASE FinalizeStops \/ RewriteFails
    <3>1. task'.pc = "reload"
      BY <1>0, <2>5 DEF FinalizeStops, RewriteFails, TaskFails, TaskOK, TaskType
    <3> QED
      BY <3>1
  <2>6. CASE ReloadStoredCostEvents
    <3>1. \/ task' = [task EXCEPT !.pc = "invalidate"]
          \/ task' = [task EXCEPT !.pc = "invalidate", !.err = TRUE]
      BY <2>6 DEF ReloadStoredCostEvents, ReloadFails, TaskGoes
    <3>2. task'.pc = "invalidate"
      BY <1>0, <3>1 DEF TaskOK, TaskType
    <3> QED
      BY <2>6, <3>2
  <2>7. CASE InvalidateStoredCostCache
    <3>1. task.pc = "invalidate"
      BY <2>7 DEF InvalidateStoredCostCache
    <3> QED
      BY <2>7, <3>1
  <2>8. \/ ApplyPage \/ FinalizeHours \/ FinalizeDays \/ (FinalizeStops \/ RewriteFails)
        \/ ReloadStoredCostEvents \/ InvalidateStoredCostCache
    BY <1>4, <2>1 DEF TaskStep, RewriteStep
  <2> QED
    BY <2>2, <2>3, <2>4, <2>5, <2>6, <2>7, <2>8
<1>5. UNCHANGED task \/ Starts \/ TaskStep
  BY Frames DEF taskVars
<1> QED
  BY <1>1, <1>2, <1>3, <1>4, <1>5

LEMMA FreshStep ==
    ASSUME Control, Fresh, [Next]_vars
    PROVE  Fresh'
<1>0. EventsOK /\ CachesOK /\ QuotaOK /\ TaskOK /\ WorkOK /\ BatchUnderway /\ Gates
  BY TypeByParts DEF Control
<1>1. /\ Stored(hot) \subseteq Stored(Known) /\ Len(queue) \in Nat
      /\ queue \in Seq(Amounts) /\ generation \in Nat /\ refresh.gen \in Nat
  BY <1>0, LenProperties, RecalculationAssumption DEF EventsOK, Stored, CachesOK, QuotaOK
<1>2. \A k \in 1..Len(queue) : queue[k] \in Stored(Known)
  BY DEF Fresh
<1>3. task.pc \notin RecentBehind /\ recentValid => recent \subseteq Stored(Known)
  BY DEF Fresh
<1>4. /\ task.pc \notin QuotaBehind => quota \subseteq Stored(Known)
      /\ task.pc \notin QuotaBehind /\ refresh.stage = "read" /\ refresh.gen = generation
            => refresh.seen \subseteq Stored(Known)
      /\ refresh.gen <= generation
  BY DEF Fresh
<1>5. CASE ApplyPage
  <2>1. task.pc = "events" /\ UNCHANGED <<cacheVars, quotaVars>>
    BY <1>5 DEF ApplyPage
  <2>2. queue' = <<>> /\ UNCHANGED <<generation, refresh>>
    BY <1>0, <2>1 DEF Gates, UsageStops, Outside, cacheVars, quotaVars
  <2>3. task'.pc \in RecentBehind
    BY <2>1, <1>5, LabelsMove DEF RecentBehind, ReloadStoredCostEvents, Restart, ApplyPage,
       InvalidateStoredCostCache
  <2>4. \A k \in 1..Len(queue') : queue'[k] \in Stored(Known)'
    BY <2>2, EmptySeq
  <2> QED
    BY <1>4, <2>2, <2>3, <2>4 DEF Fresh, QuotaBehind
<1>6. CASE ~ApplyPage
  <2>1. Stored(Known) \subseteq Stored(Known)'
    BY <1>6, StoredStays
  <2>2. \A k \in 1..Len(queue') : queue'[k] \in Stored(Known)'
    <3>1. CASE UNCHANGED queue
      BY <1>2, <2>1, <3>1
    <3>2. CASE NotifyRecent
      <4>1. <<proc.event, proc.rev>> \in Stored(Known)
        BY <1>0, <3>2 DEF NotifyRecent, BatchUnderway, Stored
      <4>2. proc.event \in Ids /\ proc.rev \in Revisions
        BY <1>0, <3>2, BucketTypes DEF NotifyRecent, BatchUnderway, Control
      <4>3. <<proc.event, proc.rev>> \in Amounts
        BY <4>2 DEF Amounts
      <4>4. \A k \in 1..Len(Append(queue, <<proc.event, proc.rev>>)) :
               Append(queue, <<proc.event, proc.rev>>)[k] \in Stored(Known)
        BY <1>1, <1>2, <4>1, <4>3
      <4>5. queue' = queue \/ queue' = Append(queue, <<proc.event, proc.rev>>)
        BY <3>2 DEF NotifyRecent, Enqueued
      <4> QED
        BY <1>2, <2>1, <4>4, <4>5
    <3>3. CASE AppendRecent
      <4>1. /\ queue' = Tail(queue) /\ Len(Tail(queue)) = Len(queue) - 1
            /\ \A k \in 1..Len(Tail(queue)) : Tail(queue)[k] = queue[k + 1]
        BY <1>1, <3>3, HeadTailProperties DEF AppendRecent
      <4>2. ASSUME NEW k \in 1..Len(Tail(queue)) PROVE Tail(queue)[k] \in Stored(Known)
        <5>1. k + 1 \in 1..Len(queue)
          BY <1>1, <4>1
        <5> QED
          BY <1>2, <4>1, <5>1
      <4> QED
        BY <2>1, <4>1, <4>2
    <3>4. CASE Restart
      <4>1. queue' = <<>>
        BY <3>4 DEF Restart
      <4> QED
        BY <4>1, EmptySeq
    <3> QED
      BY <3>1, <3>2, <3>3, <3>4, Frames DEF cacheVars, ReloadStoredCostEvents
  <2>3. task'.pc \notin RecentBehind /\ recentValid' => recent' \subseteq Stored(Known)'
    <3>1. CASE UNCHANGED <<recent, recentValid>> /\ ~Restart /\ ~ReloadStoredCostEvents
      BY <1>3, <2>1, <3>1, LabelsMove
    <3>2. CASE AppendRecent
      <4>1. recent' = recent \cup {Head(queue)} /\ recentValid' = recentValid /\ task' = task
        BY <3>2 DEF AppendRecent, taskVars
      <4>2. 1 \in 1..Len(queue) /\ Head(queue) = queue[1]
        BY <1>1, <3>2, EmptySeq DEF AppendRecent
      <4> QED
        BY <1>2, <1>3, <2>1, <4>1, <4>2
    <3>3. CASE Restart \/ ReloadStoredCostEvents
      <4>1. recent' = Stored(hot) \/ recentValid' = FALSE
        BY <3>3 DEF Restart, ReloadStoredCostEvents, ReloadFails
      <4> QED
        BY <1>1, <2>1, <4>1
    <3> QED
      BY <3>1, <3>2, <3>3, Frames DEF cacheVars, NotifyRecent
  <2>4. /\ task'.pc \notin QuotaBehind => quota' \subseteq Stored(Known)'
        /\ task'.pc \notin QuotaBehind /\ refresh'.stage = "read" /\ refresh'.gen = generation'
              => refresh'.seen \subseteq Stored(Known)'
        /\ refresh'.gen <= generation'
    <3>1. CASE /\ UNCHANGED <<generation, refresh, quota>>
               /\ ~Restart /\ ~InvalidateStoredCostCache
      BY <1>4, <2>1, <3>1, LabelsMove
    <3>2. CASE BeginRefresh
      <4>1. /\ refresh'.gen = generation /\ refresh'.stage = "begun"
            /\ UNCHANGED <<generation, quota, task>>
        BY <3>2 DEF BeginRefresh, taskVars
      <4> QED
        BY <1>1, <1>4, <2>1, <4>1
    <3>3. CASE ReadUsageWindow
      <4>1. /\ refresh'.gen = refresh.gen /\ refresh'.seen = Stored(hot)
            /\ UNCHANGED <<generation, quota, task>>
        BY <1>0, <3>3 DEF ReadUsageWindow, taskVars, QuotaOK
      <4> QED
        BY <1>1, <1>4, <2>1, <4>1
    <3>4. CASE PublishQuota
      <4>1. /\ refresh' = NoRefresh /\ UNCHANGED <<generation, task>>
            /\ quota' = IF refresh.gen = generation THEN refresh.seen ELSE quota
            /\ refresh.stage = "read"
        BY <3>4 DEF PublishQuota, Published, taskVars
      <4>2. refresh'.gen = 0 /\ refresh'.stage = "idle"
        BY <4>1 DEF NoRefresh
      <4> QED
        BY <1>1, <1>4, <2>1, <4>1, <4>2
    <3>5. CASE InvalidateStoredCostCache
      <4>1. generation' = generation + 1 /\ quota' = {} /\ refresh' = refresh
        BY <3>5 DEF InvalidateStoredCostCache
      <4> QED
        BY <1>1, <1>4, <4>1
    <3>6. CASE Restart
      <4>1. generation' = 0 /\ quota' = {} /\ refresh' = NoRefresh
        BY <3>6 DEF Restart
      <4> QED
        BY <4>1 DEF NoRefresh
    <3> QED
      BY <3>1, <3>2, <3>3, <3>4, <3>5, <3>6, Frames DEF quotaVars
  <2> QED
    BY <2>2, <2>3, <2>4 DEF Fresh
<1> QED
  BY <1>5, <1>6

LEMMA FreshHolds == Spec => []Fresh
<1>1. Init => Fresh
  BY EmptySeq DEF Init, Fresh, NoRefresh
<1>2. Control /\ Fresh /\ [Next]_vars => Fresh'
  BY FreshStep
<1> QED
  BY <1>1, <1>2, ControlHolds, PTL DEF Spec

-----------------------------------------------------------------------------
(* Pages.                                                                   *)

\* The first elements of a set of events leave no gap.
LEMMA FirstOfIsDense ==
    ASSUME NEW m \in Nat, NEW S \in SUBSET (1..m), NEW n \in Nat,
           NEW x \in S, NEW y \in FirstOf(S, n), x <= y
    PROVE  x \in FirstOf(S, n)
<1> DEFINE X == {f \in S : f <= x}
           Y == {f \in S : f <= y}
<1>1. y \in S /\ Cardinality(Y) <= n
  BY DEF FirstOf
<1>2. IsFiniteSet(1..m)
  BY FS_Interval
<1>3. IsFiniteSet(Y)
  BY <1>2, FS_Subset
<1>4. X \subseteq Y
  <2>1. \A f \in S : f \in Nat
    OBVIOUS
  <2>2. x \in Nat /\ y \in Nat
    BY <1>1, <2>1
  <2>3. ASSUME NEW f \in X PROVE f \in Y
    BY <2>1, <2>2
  <2> QED
    BY <2>3
<1>5. IsFiniteSet(X) /\ Cardinality(X) <= Cardinality(Y)
  BY <1>3, <1>4, FS_Subset
<1>6. Cardinality(X) \in Nat /\ Cardinality(Y) \in Nat
  BY <1>3, <1>5, FS_CardinalityType
<1>7. Cardinality(X) <= n
  BY <1>1, <1>5, <1>6
<1> QED
  BY <1>7 DEF FirstOf

LEMMA FirstOfIsSubset == ASSUME NEW S, NEW n PROVE FirstOf(S, n) \subseteq S
BY DEF FirstOf

LEMMA Least ==
    ASSUME NEW T \in SUBSET Nat, T # {}
    PROVE  \E x \in T : \A y \in T : x <= y
<1> DEFINE R == OpToRel(<, Nat)
<1>1. IsWellFoundedOn(R, Nat)
  BY NatLessThanWellFounded
<1>2. \A x, y \in Nat : x < y => <<x, y>> \in R
  BY DEF OpToRel
<1> HIDE DEF R
<1>3. PICK x \in T : \A y \in T : ~(<<y, x>> \in R)
  BY <1>1, WFMin
<1>4. ASSUME NEW y \in T PROVE x <= y
  <2>1. x \in Nat /\ y \in Nat
    OBVIOUS
  <2>2. ~(y < x)
    BY <1>2, <1>3, <2>1
  <2> QED
    BY <2>1, <2>2
<1> QED
  BY <1>4

\* A page that leaves something out is full, and what it leaves out is beyond it.
LEMMA FirstOfIsFull ==
    ASSUME NEW m \in Nat, NEW S \in SUBSET (1..m), NEW n \in Nat,
           NEW x \in S, x \notin FirstOf(S, n)
    PROVE  /\ Cardinality(FirstOf(S, n)) >= n
           /\ \A y \in FirstOf(S, n) : y < x
<1> DEFINE F == FirstOf(S, n)
<1>1. F \subseteq S /\ S \subseteq Nat
  BY FirstOfIsSubset
<1>2. ASSUME NEW y \in F PROVE y < x
  <2>1. x \in Nat /\ y \in Nat
    BY <1>1
  <2>2. ~(x <= y)
    BY FirstOfIsDense
  <2> QED
    BY <2>1, <2>2
<1>3. PICK z \in S \ F : \A y \in S \ F : z <= y
  BY <1>1, Least
<1> DEFINE B == {f \in S : f <= z}
<1>4. IsFiniteSet(1..m)
  BY FS_Interval
<1>5. IsFiniteSet(S) /\ IsFiniteSet(F) /\ IsFiniteSet(B)
  <2>1. IsFiniteSet(S)
    BY <1>4, FS_Subset
  <2> QED
    BY <1>1, <2>1, FS_Subset
<1>6. ~(Cardinality(B) <= n)
  BY <1>3 DEF FirstOf
<1>7. B \subseteq F \cup {z}
  <2> SUFFICES ASSUME NEW f \in S, f <= z, f \notin F PROVE f = z
    OBVIOUS
  <2>1. z <= f /\ f \in Nat /\ z \in Nat
    BY <1>1, <1>3
  <2> QED
    BY <2>1
<1> HIDE DEF F, B
<1>8. IsFiniteSet(F \cup {z}) /\ Cardinality(F \cup {z}) = Cardinality(F) + 1
  BY <1>3, <1>5, FS_AddElement
<1>9. Cardinality(B) <= Cardinality(F) + 1
  BY <1>7, <1>8, FS_Subset
<1>10. Cardinality(B) \in Nat /\ Cardinality(F) \in Nat
  BY <1>5, FS_CardinalityType
<1>11. Cardinality(F) >= n
  BY <1>6, <1>9, <1>10
<1> QED
  BY <1>2, <1>11 DEF F

-----------------------------------------------------------------------------
(* What a completed task has priced.                                        *)

OnlyLegacy == Pushed = {}

InPeriod(e) == task.start <= time[e] /\ time[e] < task.end
PricedUpTo(n) == \A e \in hot : e <= n /\ InPeriod(e) => cost[e] >= task.rev
AllPriced == \A e \in hot : InPeriod(e) => cost[e] >= task.rev

Unscanned == UsageStops \cup {"drain", "pauseAgg", "settleAgg", "block", "drainReads",
                              "load", "catchUp"}
Settled == Labels \ {"none", "pauseUsage", "settleUsage"}
Rewritten == {"hours", "days", "reload", "invalidate", "openReads", "openAgg", "openUsage",
              "publish"}

(* The task carries the published prices of its acceptance; no batch priced *)
(* before it is left once usage work has settled; what it has scanned is    *)
(* priced, and everything is when it left the pages without an error.       *)
Repriced ==
    /\ catalog <= revision /\ task.rev <= catalog
    /\ (task.pc \in Settled /\ ~task.err) \/ status = "completed" =>
          (proc.stage = "priced" => proc.rev >= task.rev)
    /\ task.pc \in Unscanned \ {"none", "publish"} => task.scan = 0
    /\ task.pc \in {"catchUp", "events"} => \A e \in hot : e <= task.H
    /\ task.pc = "events" => PricedUpTo(task.scan)
    /\ (task.pc \in Rewritten /\ ~task.err) \/ status = "completed" => AllPriced

\* A page prices what it passes, and everything if it is not full.
LEMMA PagePrices ==
    ASSUME Control, Control', Repriced, ApplyPage
    PROVE  /\ task'.pc = "events" => PricedUpTo(task.scan)'
           /\ task'.pc = "hours" => AllPriced'
<1> DEFINE S == {e \in hot : task.scan < e /\ e <= task.H}
<1>0. EventsOK /\ TaskOK /\ Len(owner) \in Nat
  BY TypeByParts, LenProperties DEF Control, EventsOK
<1>1. /\ task.rev \in Int /\ task.scan \in Nat /\ task.H \in Nat /\ PageSize \in Nat
      /\ PageSize >= 1
  BY <1>0, RecalculationAssumption DEF TaskOK, TaskType
<1>2. S \in SUBSET (1..Len(owner)) /\ Scanned = FirstOf(S, PageSize)
  BY <1>0 DEF EventsOK, Known, Scanned
<1>3. PICK m \in 0..MaxEvents :
         /\ IF Scanned = {} THEN m = task.H ELSE IsLast(Scanned, m)
         /\ task' = [task EXCEPT !.scan = m,
                                 !.pc = IF Cardinality(Scanned) < PageSize
                                        THEN "hours" ELSE "events"]
  BY DEF ApplyPage
<1>4. /\ task'.scan = m /\ task'.rev = task.rev /\ task'.start = task.start
      /\ task'.end = task.end
      /\ task'.pc = IF Cardinality(Scanned) < PageSize THEN "hours" ELSE "events"
  BY <1>0, <1>3 DEF TaskOK, TaskType
<1>5. /\ task.pc = "events" /\ UNCHANGED <<owner, time, hot>>
      /\ cost' = [e \in Known |-> IF e \in Selected THEN task.rev ELSE cost[e]]
  BY DEF ApplyPage
<1>6. PricedUpTo(task.scan) /\ \A e \in hot : e <= task.H
  BY <1>5 DEF Repriced
<1> HIDE DEF S
<1>7. ASSUME NEW e \in hot, InPeriod(e), task'.pc = "hours" \/ e <= m
      PROVE  cost'[e] >= task.rev
  <2>1. e \in Known /\ e \in Nat
    BY <1>0 DEF EventsOK, Known
  <2>2. CASE e \in Selected
    BY <1>1, <1>5, <2>1, <2>2
  <2>3. CASE e \notin Selected
    <3>1. cost'[e] = cost[e]
      BY <1>5, <2>1, <2>3
    <3>2. CASE e <= task.scan
      BY <1>6, <1>7, <3>1, <3>2 DEF PricedUpTo
    <3>3. CASE task.scan < e
      <4>1. e \in S
        BY <1>6, <3>3 DEF S
      <4>2. e \notin Scanned
        BY <1>6, <1>7, <2>3 DEF Selected, InScope, InPeriod
      <4>3. Cardinality(Scanned) >= PageSize /\ \A y \in Scanned : y < e
        BY <1>0, <1>1, <1>2, <4>1, <4>2, FirstOfIsFull
      <4>4. IsFiniteSet(Scanned)
        <5>1. IsFiniteSet(1..Len(owner))
          BY <1>0, FS_Interval
        <5> QED
          BY <1>2, <5>1, FirstOfIsSubset, FS_Subset
      <4>5. Cardinality(Scanned) \in Nat
        BY <4>4, FS_CardinalityType
      <4>6. ~(Cardinality(Scanned) < PageSize)
        BY <1>1, <4>3, <4>5
      <4>7. Scanned # {}
        BY <1>1, <4>3, FS_EmptySet
      <4>8. m \in Scanned
        BY <1>3, <4>7 DEF IsLast
      <4>9. m < e /\ e <= m
        BY <1>4, <1>7, <4>3, <4>6, <4>8
      <4>10. m \in Nat
        BY <1>3
      <4> QED
        BY <2>1, <4>9, <4>10
    <3> QED
      BY <1>1, <2>1, <3>2, <3>3
  <2> QED
    BY <2>2, <2>3
<1>8. \A e \in hot : InPeriod(e)' => InPeriod(e)
  BY <1>4, <1>5 DEF InPeriod
<1> QED
  BY <1>4, <1>5, <1>7, <1>8 DEF PricedUpTo, AllPriced

Edges == {<<"pauseUsage", "settleUsage">>, <<"settleUsage", "drain">>, <<"drain", "pauseAgg">>,
          <<"pauseAgg", "settleAgg">>, <<"settleAgg", "block">>, <<"block", "drainReads">>,
          <<"drainReads", "load">>, <<"catchUp", "events">>, <<"hours", "days">>,
          <<"days", "reload">>, <<"reload", "invalidate">>, <<"invalidate", "openReads">>,
          <<"openReads", "openAgg">>, <<"openAgg", "openUsage">>, <<"openUsage", "publish">>,
          <<"publish", "none">>}

\* How a task gets from label to label, and how it fails.
LEMMA TaskMoves ==
    ASSUME Control, [Next]_vars, ~Restart, ~Starts
    PROVE  \/ UNCHANGED task
           \/ \E edge \in Edges : task.pc = edge[1] /\ task' = [task EXCEPT !.pc = edge[2]]
           \/ \E pc \in {"publish", "reload", "invalidate"} :
                 task' = [task EXCEPT !.pc = pc, !.err = TRUE]
           \/ LoadScope
           \/ ApplyPage
<1>1. CASE GateStep
  BY <1>1
     DEF GateStep, PauseUsage, SettleUsage, DrainRecent, PauseAggregation,
         SettleAggregation, BlockReads, DrainReads, CancelWait, ResumeReads,
         ResumeAggregation, ResumeUsage, TaskGoes, Edges
<1>2. CASE RewriteStep
  BY <1>2
     DEF RewriteStep, CatchUpPage, CatchUpDone, FinalizeHours, FinalizeDays, FinalizeStops,
         RewriteFails, TaskGoes, TaskFails, Edges, taskVars
<1>3. CASE ReloadStoredCostEvents \/ InvalidateStoredCostCache \/ PublishStatus
  BY <1>3
     DEF ReloadStoredCostEvents, ReloadFails, InvalidateStoredCostCache, PublishStatus,
         TaskGoes, Edges
<1>4. CASE UNCHANGED <<gateVars, taskVars>>
  BY <1>4 DEF taskVars
<1> QED
  BY <1>1, <1>2, <1>3, <1>4, Frames DEF TaskStep

LEMMA TaskMovesOn ==
    ASSUME Control, [Next]_vars, ~Restart, ~Starts
    PROVE  /\ task'.rev = task.rev /\ task'.start = task.start /\ task'.end = task.end
           /\ task'.pc \in Settled /\ ~task'.err =>
                 (task.pc \in Settled /\ ~task.err) \/ task'.pc = "drain"
           /\ task'.pc \in Unscanned \ {"none", "publish"} =>
                 task.pc \in Unscanned \ {"none", "publish"} /\ task'.scan = task.scan
           /\ task'.pc \in {"catchUp", "events"} =>
                 LoadScope \/ (task.pc \in {"catchUp", "events"} /\ task'.H = task.H)
           /\ task'.pc = "events" =>
                 \/ ApplyPage
                 \/ (task.pc = "catchUp" \/ UNCHANGED task) /\ task'.scan = task.scan
           /\ task'.pc \in Rewritten /\ ~task'.err /\ ~LoadScope =>
                 (task.pc \in Rewritten /\ ~task.err) \/ (ApplyPage /\ task'.pc = "hours")
<1> USE DEF Settled, Unscanned, UsageStops, Outside, Labels, Rewritten
<1>0. TaskOK
  BY TypeByParts DEF Control
<1>1. CASE UNCHANGED task
  BY <1>1
<1>2. CASE \E edge \in Edges : task.pc = edge[1] /\ task' = [task EXCEPT !.pc = edge[2]]
  <2>1. PICK edge \in Edges : task.pc = edge[1] /\ task' = [task EXCEPT !.pc = edge[2]]
    BY <1>2
  <2>2. /\ task'.pc = edge[2] /\ task'.rev = task.rev /\ task'.start = task.start
        /\ task'.end = task.end /\ task'.err = task.err /\ task'.scan = task.scan
        /\ task'.H = task.H
    BY <1>0, <2>1 DEF TaskOK, TaskType
  <2> HIDE <1>0
  <2> QED
    BY <2>1, <2>2 DEF Edges
<1>3. CASE \E pc \in {"publish", "reload", "invalidate"} :
              task' = [task EXCEPT !.pc = pc, !.err = TRUE]
  <2>1. PICK pc \in {"publish", "reload", "invalidate"} :
           task' = [task EXCEPT !.pc = pc, !.err = TRUE]
    BY <1>3
  <2>2. /\ task'.pc = pc /\ task'.rev = task.rev /\ task'.start = task.start
        /\ task'.end = task.end /\ task'.err = TRUE
    BY <1>0, <2>1 DEF TaskOK, TaskType
  <2> QED
    BY <2>1, <2>2
<1>4. CASE LoadScope
  <2>1. PICK m \in 0..MaxEvents :
           task' = [[task EXCEPT !.H = m] EXCEPT
                       !.pc = IF InScope([task EXCEPT !.H = m]) = {} THEN "reload"
                                                                   ELSE "catchUp"]
    BY <1>4 DEF LoadScope
  <2>2. /\ task'.pc \in {"reload", "catchUp"} /\ task'.rev = task.rev
        /\ task'.start = task.start /\ task'.end = task.end /\ task'.err = task.err
        /\ task'.scan = task.scan
    BY <1>0, <2>1 DEF TaskOK, TaskType
  <2>3. task.pc = "load"
    BY <1>4 DEF LoadScope
  <2> QED
    BY <1>4, <2>2, <2>3
<1>5. CASE ApplyPage
  <2>1. PICK m \in 0..MaxEvents :
           task' = [task EXCEPT !.scan = m,
                                !.pc = IF Cardinality(Scanned) < PageSize
                                       THEN "hours" ELSE "events"]
    BY <1>5 DEF ApplyPage
  <2>2. /\ task'.pc \in {"hours", "events"} /\ task'.rev = task.rev
        /\ task'.start = task.start /\ task'.end = task.end /\ task'.err = task.err
        /\ task'.H = task.H
    BY <1>0, <2>1 DEF TaskOK, TaskType
  <2>3. task.pc = "events"
    BY <1>5 DEF ApplyPage
  <2> QED
    BY <1>5, <2>2, <2>3
<1> QED
  BY <1>1, <1>2, <1>3, <1>4, <1>5, TaskMoves

LEMMA StatusMoves ==
    ASSUME Control, [Next]_vars, ~Restart, ~Starts, status' = "completed"
    PROVE  /\ (task.pc = "publish" /\ ~task.err) \/ status = "completed"
           /\ ~ApplyPage /\ ~LoadScope
<1>0. TaskUnderway
  BY DEF Control
<1>1. CASE PublishStatus
  BY <1>1 DEF PublishStatus, ApplyPage, LoadScope
<1>2. CASE TaskStep /\ ~PublishStatus
  <2>1. status' = status /\ task.pc # "none"
    BY <1>2
       DEF TaskStep, RewriteStep, GateStep, PauseUsage, SettleUsage, DrainRecent,
           PauseAggregation, SettleAggregation, BlockReads, DrainReads, CancelWait, LoadScope,
           CatchUpPage, CatchUpDone, ApplyPage, FinalizeHours, FinalizeDays, FinalizeStops,
           RewriteFails, ReloadStoredCostEvents, InvalidateStoredCostCache, ResumeReads,
           ResumeAggregation, ResumeUsage, taskVars
  <2> QED
    BY <1>0, <2>1 DEF TaskUnderway
<1>3. CASE UNCHANGED <<gateVars, taskVars>> /\ ~TaskStep
  BY <1>3 DEF taskVars, TaskStep, RewriteStep
<1> QED
  BY <1>1, <1>2, <1>3, Frames

Decided == (task.pc \in Rewritten /\ ~task.err) \/ status = "completed"
NoOldBatch == (task.pc \in Settled /\ ~task.err) \/ status = "completed"

LEMMA AllPricedStep ==
    ASSUME OnlyLegacy, Control, Control', Repriced, [Next]_vars, Decided'
    PROVE  AllPriced'
<1>0. EventsOK /\ WorkOK /\ TaskOK /\ Len(owner) \in Nat
  BY TypeByParts, LenProperties DEF Control, EventsOK
<1>1. ~Restart /\ ~Starts
  <2>1. Restart => task'.pc = "none" /\ status' = "none"
    BY DEF Restart, NoTask
  <2>2. Starts => task'.pc = "pauseUsage" /\ status' = "running"
    BY DEF Starts, StartPricingRecalculation, NoTask
  <2> QED
    BY <2>1, <2>2 DEF Decided, Rewritten
<1>2. task'.rev = task.rev /\ task'.start = task.start /\ task'.end = task.end
  BY <1>1, TaskMovesOn
<1>3. CASE ApplyPage
  <2>1. task.pc = "events" /\ status' = status
    BY <1>3 DEF ApplyPage
  <2>2. status' # "completed"
    BY <2>1, <1>0 DEF Control, TaskUnderway
  <2>3. task'.pc \in {"hours", "events"}
    BY <1>0, <1>3 DEF ApplyPage, TaskOK, TaskType
  <2> QED
    BY <1>3, <2>2, <2>3, PagePrices DEF Decided, Rewritten
<1>4. CASE LoadScope
  <2>1. PICK m \in 0..MaxEvents :
           /\ IsLast(Own(Legacy), m)
           /\ task' = [[task EXCEPT !.H = m] EXCEPT
                         !.pc = IF InScope([task EXCEPT !.H = m]) = {} THEN "reload"
                                                                     ELSE "catchUp"]
    BY <1>4 DEF LoadScope
  <2>2. /\ [task EXCEPT !.H = m].H = m /\ [task EXCEPT !.H = m].start = task.start
        /\ [task EXCEPT !.H = m].end = task.end
        /\ task'.pc = IF InScope([task EXCEPT !.H = m]) = {} THEN "reload" ELSE "catchUp"
    BY <1>0, <2>1 DEF TaskOK, TaskType
  <2>3. status' = status /\ task.pc = "load" /\ UNCHANGED eventVars
    BY <1>4 DEF LoadScope
  <2>4. InScope([task EXCEPT !.H = m]) = {}
    BY <2>2, <2>3 DEF Decided, Rewritten, Control, TaskUnderway
  <2>5. \A e \in hot : e \in Own(Legacy)
    <3>1. \A e \in hot : owner[e] \in Instances
      BY <1>0, ElementOfSeq DEF EventsOK, Known
    <3> QED
      BY <3>1 DEF OnlyLegacy, Instances, Own
  <2>6. \A e \in hot : ~InPeriod(e)
    BY <2>1, <2>2, <2>4, <2>5 DEF InScope, InPeriod, IsLast
  <2> QED
    BY <1>2, <2>3, <2>6 DEF AllPriced, InPeriod, eventVars
<1>5. CASE ~ApplyPage /\ ~LoadScope
  <2>1. AllPriced /\ (proc.stage = "priced" => proc.rev >= task.rev)
    <3>1. Decided
      BY <1>1, <1>5, TaskMovesOn, StatusMoves DEF Decided, Rewritten
    <3> QED
      BY <3>1 DEF Decided, Repriced, Rewritten, Settled, Labels
  <2>2. CASE UNCHANGED eventVars
    BY <1>2, <2>1, <2>2 DEF eventVars, AllPriced, InPeriod
  <2>3. CASE Archives
    BY <1>2, <2>1, <2>3 DEF Archives, ArchiveBatch, AllPriced, InPeriod
  <2>4. CASE Commits
    <3>1. PICK i \in Instances, t \in Times : CommitBatch(i, t)
      BY <2>4 DEF Commits
    <3>2. /\ time' = Append(time, t) /\ cost' = Append(cost, proc.rev)
          /\ hot' = hot \cup {Len(owner) + 1} /\ proc.stage = "priced"
      BY <3>1 DEF CommitBatch
    <3>3. /\ time \in Seq(Times) /\ cost \in Seq(Revisions) /\ Len(time) = Len(owner)
          /\ Len(cost) = Len(owner) /\ hot \subseteq 1..Len(owner)
      BY <1>0 DEF EventsOK, Known
    <3>4. /\ \A e \in 1..Len(owner) : cost'[e] = cost[e] /\ time'[e] = time[e]
          /\ cost'[Len(owner) + 1] = proc.rev
      BY <1>0, <3>2, <3>3
    <3> QED
      BY <1>2, <2>1, <3>2, <3>3, <3>4 DEF AllPriced, InPeriod
  <2> QED
    BY <1>5, <2>2, <2>3, <2>4, Frames
<1> QED
  BY <1>3, <1>4, <1>5

LEMMA OldBatchStep ==
    ASSUME Control, Control', Repriced, [Next]_vars, NoOldBatch', proc'.stage = "priced"
    PROVE  proc'.rev >= task'.rev
<1>0. WorkOK /\ PricesOK
  BY TypeByParts DEF Control
<1>1. ~Restart /\ ~Starts
  <2>1. Restart => task'.pc = "none" /\ status' = "none"
    BY DEF Restart, NoTask
  <2>2. Starts => task'.pc = "pauseUsage" /\ status' = "running"
    BY DEF Starts, StartPricingRecalculation, NoTask
  <2> QED
    BY <2>1, <2>2 DEF NoOldBatch, Settled
<1>2. task'.rev = task.rev
  BY <1>1, TaskMovesOn
<1>3. task'.pc # "drain"
  <2>1. task'.pc = "drain" => proc' = Idle
    BY DEF Control, Gates, UsageStops, Outside
  <2> QED
    BY <2>1 DEF Idle
<1>4. proc.stage = "priced" => proc.rev >= task.rev
  <2>1. NoOldBatch
    BY <1>1, <1>3, TaskMovesOn, StatusMoves DEF NoOldBatch, Settled, Labels
  <2> QED
    BY <2>1 DEF NoOldBatch, Repriced
<1>5. CASE PriceBatch
  <2>1. proc'.rev = catalog
    BY <1>0, <1>5 DEF PriceBatch, WorkOK
  <2> QED
    BY <1>0, <1>2, <2>1, RecalculationAssumption DEF Repriced, PricesOK, Revisions
<1>6. CASE UNCHANGED proc
  BY <1>2, <1>4, <1>6
<1>7. CASE EnterUsage \/ NotifyRecent \/ ProcessFails \/ Restart
  BY <1>7 DEF EnterUsage, NotifyRecent, ProcessFails, Restart, Idle
<1>8. CASE Commits
  BY <1>0, <1>8 DEF Commits, CommitBatch, WorkOK
<1> QED
  BY <1>5, <1>6, <1>7, <1>8, Frames

LEMMA RepricedStep ==
    ASSUME OnlyLegacy, Control, Control', Repriced, [Next]_vars
    PROVE  Repriced'
<1>0. EventsOK /\ WorkOK /\ TaskOK /\ PricesOK /\ Gates' /\ TaskUnderway
  BY TypeByParts DEF Control
<1>1. revision \in Nat /\ catalog \in Nat /\ task.rev \in Nat
  BY <1>0, RecalculationAssumption DEF PricesOK, TaskOK, TaskType, Revisions
<1>2. catalog' <= revision' /\ task'.rev <= catalog'
  <2>1. catalog <= revision /\ task.rev <= catalog
    BY DEF Repriced
  <2>2. /\ revision' = revision \/ (revision' = revision + 1 /\ catalog' = catalog)
        /\ catalog' = catalog \/ (catalog' = revision /\ revision' = revision)
    <3>1. UNCHANGED priceVars \/ MutatePricing \/ PublishPricing \/ Restart
      BY Frames
    <3> QED
      BY <3>1 DEF priceVars, MutatePricing, PublishPricing, Restart
  <2>3. task'.rev \in {task.rev, catalog, 0}
    <3>1. CASE Restart
      BY <3>1 DEF Restart, NoTask
    <3>2. CASE Starts
      BY <3>2 DEF Starts, StartPricingRecalculation, NoTask
    <3>3. CASE ~Restart /\ ~Starts
      BY <3>3, TaskMovesOn
    <3> QED
      BY <3>1, <3>2, <3>3
  <2> QED
    BY <1>1, <2>1, <2>2, <2>3
<1>3. NoOldBatch' => (proc'.stage = "priced" => proc'.rev >= task'.rev)
  BY OldBatchStep
<1>4. Decided' => AllPriced'
  BY AllPricedStep
<1>5. CASE Restart
  <2>1. task' = NoTask
    BY <1>5 DEF Restart
  <2>2. task'.pc = "none"
    BY <2>1 DEF NoTask
  <2> QED
    BY <1>2, <1>3, <1>4, <2>2
       DEF Repriced, NoOldBatch, Decided
<1>6. CASE Starts
  <2>1. task'.pc = "pauseUsage" /\ task'.scan = 0
    BY <1>6 DEF Starts, StartPricingRecalculation, NoTask
  <2> QED
    BY <1>2, <1>3, <1>4, <2>1
       DEF Repriced, NoOldBatch, Decided
<1>7. CASE ~Restart /\ ~Starts
  <2>1. task'.pc \in Unscanned \ {"none", "publish"} => task'.scan = 0
    BY <1>7, TaskMovesOn DEF Repriced
  <2>2. task'.pc \in {"catchUp", "events"} => hot' \subseteq hot
    <3>1. task'.pc \in {"catchUp", "events"} => proc'.stage = "idle"
      BY <1>0 DEF Gates, UsageStops, Outside, Idle
    <3>2. Commits => proc'.stage = "committed"
      BY <1>0 DEF Commits, CommitBatch, WorkOK
    <3> QED
      BY <3>1, <3>2, Frames DEF eventVars, Archives, ArchiveBatch, ApplyPage
  <2>3. task'.pc \in {"catchUp", "events"} => \A e \in hot' : e <= task'.H
    <3>1. CASE LoadScope
      <4>1. PICK m \in 0..MaxEvents :
               /\ IsLast(Own(Legacy), m)
               /\ task' = [[task EXCEPT !.H = m] EXCEPT
                             !.pc = IF InScope([task EXCEPT !.H = m]) = {} THEN "reload"
                                                                         ELSE "catchUp"]
        BY <3>1 DEF LoadScope
      <4>2. task'.H = m
        BY <1>0, <4>1 DEF TaskOK, TaskType
      <4>3. \A e \in hot : owner[e] \in Instances
        BY <1>0, ElementOfSeq DEF EventsOK, Known
      <4>4. hot = Own(Legacy)
        BY <4>3 DEF OnlyLegacy, Instances, Own
      <4>5. \A e \in hot : e <= m
        BY <4>1, <4>4 DEF IsLast
      <4> QED
        BY <2>2, <4>2, <4>5
    <3>2. CASE ~LoadScope
      BY <1>7, <2>2, <3>2, TaskMovesOn DEF Repriced
    <3> QED
      BY <3>1, <3>2
  <2>4. task'.pc = "events" => PricedUpTo(task.scan)'
    <3>1. CASE ApplyPage
      BY <3>1, PagePrices
    <3>2. ASSUME ~ApplyPage, task'.pc = "events" PROVE PricedUpTo(task.scan)'
      <4>1. /\ (task.pc = "catchUp" \/ UNCHANGED task) /\ task'.scan = task.scan
            /\ task'.rev = task.rev /\ task'.start = task.start /\ task'.end = task.end
        BY <1>7, <3>2, TaskMovesOn
      <4>2. CASE task.pc = "catchUp"
        <5>1. task'.scan = 0
          BY <4>1, <4>2 DEF Repriced, Unscanned
        <5>2. \A e \in hot' : ~(e <= 0)
          <6>1. hot' \subseteq 1..Len(owner)
            BY <1>0, <2>2, <3>2 DEF EventsOK, Known
          <6> QED
            BY <1>0, <6>1, LenProperties DEF EventsOK
        <5> QED
          BY <5>1, <5>2 DEF PricedUpTo
      <4>3. CASE UNCHANGED task
        <5>1. PricedUpTo(task.scan)
          BY <3>2, <4>3 DEF Repriced
        <5>2. hot' \subseteq hot
          BY <2>2, <3>2
        <5>3. UNCHANGED eventVars \/ Archives
          <6>1. ~Commits
            <7>1. proc'.stage = "idle"
              BY <1>0, <3>2 DEF Gates, UsageStops, Outside, Idle
            <7> QED
              BY <1>0, <7>1 DEF Commits, CommitBatch, WorkOK
          <6> QED
            BY <3>2, <6>1, Frames
        <5>4. UNCHANGED <<time, cost>>
          BY <5>3 DEF eventVars, Archives, ArchiveBatch
        <5> QED
          BY <4>3, <5>1, <5>2, <5>4 DEF PricedUpTo, InPeriod
      <4> QED
        BY <4>1, <4>2, <4>3
    <3> QED
      BY <3>1, <3>2
  <2> QED
    BY <1>2, <1>3, <1>4, <2>1, <2>3, <2>4 DEF Repriced, NoOldBatch, Decided
<1> QED
  BY <1>5, <1>6, <1>7

-----------------------------------------------------------------------------
(* What the buckets hold.                                                   *)

(* table holds the stored amounts of the events up to n and nothing else.   *)
Agrees(table, n) ==
    \A e \in Ids : table[e] = IF e \in Known /\ e <= n THEN cost[e] ELSE 0

(* page holds stored amounts of events beyond a cursor, without a gap.      *)
PageIs(page, from) ==
    /\ \A p \in page : p[1] \in Known /\ p[2] = cost[p[1]] /\ from < p[1]
    /\ \A p \in page, e \in Known :
          from < e /\ e <= p[1] => \E q \in page : q[1] = e

(* Nothing is archived.                                                     *)
Kept == maint = FALSE /\ hot = Known

(* The buckets follow the cursor; the runner's page is of the state it will *)
(* be written in, whenever it can be written; the rewrite meets no event    *)
(* beyond its target and none that was not counted.                         *)
Sums ==
    /\ Kept
    /\ cursor[Legacy] <= Len(owner)
    /\ Agrees(inHour, cursor[Legacy]) /\ Agrees(inDay, cursor[Legacy])
    /\ agg # NoPage => agg.active /\ agg.inst = Legacy
    /\ PageIs(agg.page, agg.from)
    /\ task.pc \in {"catchUp", "events", "hours", "days"} => Len(owner) <= task.H
    /\ task.pc \in {"events", "hours", "days"} => Len(owner) <= cursor[Legacy]

LEMMA AllOwn ==
    ASSUME OnlyLegacy, TypeOK
    PROVE  /\ \A e \in Known : owner[e] = Legacy
           /\ Own(Legacy) = hot /\ Instances = {Legacy}
           /\ cursor[Legacy] \in 0..MaxEvents /\ cursor[Legacy] \in Nat
           /\ Len(owner) \in Nat /\ Known = 1..Len(owner) /\ Known \subseteq Ids
           /\ Known \subseteq Nat
<1>1. EventsOK /\ BucketsOK
  BY TypeByParts
<1>2. \A e \in Known : owner[e] \in Instances
  BY <1>1, ElementOfSeq DEF EventsOK, Known
<1>3. Instances = {Legacy}
  BY DEF OnlyLegacy, Instances
<1>4. \A e \in hot : e \in Known
  BY <1>1 DEF EventsOK
<1>5. cursor[Legacy] \in 0..MaxEvents /\ MaxEvents \in Nat
  BY <1>1, <1>3, RecalculationAssumption DEF BucketsOK
<1>6. Len(owner) \in Nat
  BY <1>1, LenProperties DEF EventsOK
<1> QED
  BY <1>2, <1>3, <1>4, <1>5, <1>6, BucketTypes DEF Own, Known

LEMMA PageIsStored ==
    ASSUME OnlyLegacy, TypeOK, NEW n \in Nat, NEW S \in SUBSET Known,
           \A e \in S : n < e,
           \A x \in S, e \in Known : n < e /\ e <= x => e \in S
    PROVE  /\ PageIs(Stored(FirstOf(S, PageSize)), n)
           /\ {p[1] : p \in Stored(FirstOf(S, PageSize))} = FirstOf(S, PageSize)
           /\ Stored(FirstOf(S, PageSize)) \in SUBSET Amounts
<1>1. FirstOf(S, PageSize) \subseteq S
  BY FirstOfIsSubset
<1>2. PICK F : F = FirstOf(S, PageSize)
  OBVIOUS
<1>3. ASSUME NEW x \in F, NEW e \in Known, n < e, e <= x PROVE e \in F
  <2>1. S \in SUBSET (1..Len(owner)) /\ Len(owner) \in Nat /\ PageSize \in Nat
    BY AllOwn, RecalculationAssumption
  <2>2. e \in S
    BY <1>1, <1>2, <1>3
  <2> QED
    BY <1>2, <1>3, <2>1, <2>2, FirstOfIsDense
<1>4. Stored(F) \subseteq Amounts
  BY <1>1, <1>2, StoredTypes, TypeByParts
<1>5. \A p \in Stored(F) : p[1] \in F /\ p[2] = cost[p[1]]
  BY DEF Stored
<1>6. \A e \in F : <<e, cost[e]>> \in Stored(F) /\ <<e, cost[e]>>[1] = e
  BY DEF Stored
<1>7. {p[1] : p \in Stored(F)} = F
  BY <1>5, <1>6
<1>8. PageIs(Stored(F), n)
  <2>1. ASSUME NEW p \in Stored(F), NEW e \in Known, n < e, e <= p[1]
        PROVE  \E q \in Stored(F) : q[1] = e
    BY <1>3, <1>5, <1>6, <2>1
  <2> QED
    BY <1>1, <1>2, <1>5, <2>1 DEF PageIs
<1> QED
  BY <1>2, <1>4, <1>7, <1>8

\* A page that begins at the cursor takes the buckets to its last event.
LEMMA AddedAgrees ==
    ASSUME OnlyLegacy, TypeOK, NEW table \in [Ids -> Int], NEW n \in Nat,
           NEW page \in SUBSET Amounts, Agrees(table, n), PageIs(page, n),
           NEW m \in Ids, IsLast({p[1] : p \in page}, m)
    PROVE  Agrees(Added(table, page), m) /\ m <= Len(owner)
<1>1. Ids \subseteq Nat /\ 0 \notin Ids
  BY RecalculationAssumption DEF Ids
<1>2. \E p \in page : p[1] = m
  BY <1>1 DEF IsLast
<1>3. \A p \in page : p[1] <= m
  BY <1>2 DEF IsLast
<1>4. m \in Known /\ n < m /\ m <= Len(owner)
  BY <1>2, AllOwn DEF PageIs
<1>5. ASSUME NEW e \in Ids
      PROVE  Added(table, page)[e] = IF e \in Known /\ e <= m THEN cost[e] ELSE 0
  <2>1. CASE \E p \in page : p[1] = e
    <3>1. PICK q : q = (CHOOSE p \in page : p[1] = e)
      OBVIOUS
    <3>2. q \in page /\ q[1] = e
      BY <2>1, <3>1
    <3>3. e \in Known /\ q[2] = cost[e] /\ n < e /\ e <= m
      BY <1>3, <3>2 DEF PageIs
    <3>4. table[e] = 0
      BY <1>1, <3>3 DEF Agrees
    <3>5. Added(table, page)[e] = table[e] + q[2]
      BY <2>1, <3>1 DEF Added
    <3>6. cost[e] \in Int
      BY <3>3, BucketTypes
    <3> QED
      BY <3>3, <3>4, <3>5, <3>6
  <2>2. CASE ~ \E p \in page : p[1] = e
    <3>1. Added(table, page)[e] = table[e]
      BY <2>2 DEF Added
    <3>2. table[e] = IF e \in Known /\ e <= n THEN cost[e] ELSE 0
      BY DEF Agrees
    <3>3. e \in Known /\ n < e => m < e
      <4>1. e \in Known /\ n < e => ~(e <= m)
        BY <1>2, <2>2 DEF PageIs
      <4> QED
        BY <1>1, <4>1
    <3> QED
      BY <1>1, <1>4, <3>1, <3>2, <3>3
  <2> QED
    BY <2>1, <2>2
<1> QED
  BY <1>4, <1>5 DEF Agrees

-----------------------------------------------------------------------------
(* Every step keeps the sums.                                               *)

LEMMA KeptStep ==
    ASSUME ~Expired, Control, Kept, [Next]_vars
    PROVE  Kept' /\ ~Archives
<1>0. EventsOK /\ Len(owner) \in Nat
  BY TypeByParts, LenProperties DEF Control, EventsOK
<1>1. ~Archives
  BY DEF Kept, Archives, ArchiveBatch
<1>2. maint' = FALSE
  <2>1. UNCHANGED maint \/ EnterMaintenance \/ LeaveMaintenance \/ Restart
    BY Frames
  <2> QED
    BY <2>1 DEF Kept, EnterMaintenance, LeaveMaintenance, Restart
<1>3. CASE UNCHANGED <<owner, hot>>
  BY <1>1, <1>2, <1>3 DEF Kept, Known
<1>4. CASE Commits
  <2>1. PICK i \in Instances, t \in Times : CommitBatch(i, t)
    BY <1>4 DEF Commits
  <2>2. owner' = Append(owner, i) /\ hot' = hot \cup {Len(owner) + 1}
    BY <2>1 DEF CommitBatch
  <2>3. Len(owner') = Len(owner) + 1
    BY <1>0, <2>2 DEF EventsOK
  <2>4. 1..(Len(owner) + 1) = (1..Len(owner)) \cup {Len(owner) + 1}
    BY <1>0
  <2> QED
    BY <1>1, <1>2, <2>2, <2>3, <2>4 DEF Kept, Known
<1> QED
  BY <1>1, <1>3, <1>4, Frames DEF eventVars, ApplyPage

\* A commit and the steps that leave the events alone leave what the buckets
\* and a page agree with.
LEMMA EventsGrow ==
    ASSUME OnlyLegacy, Control, [Next]_vars, ~ApplyPage, ~Archives
    PROVE  /\ Len(owner') >= Len(owner) /\ Len(owner') \in Nat
           /\ \A e \in Known : e \in Known' /\ cost'[e] = cost[e]
           /\ \A e \in Known' : e \notin Known => e > Len(owner)
           /\ Len(owner') > Len(owner) => Commits
<1>0. EventsOK /\ Len(owner) \in Nat
  BY TypeByParts, LenProperties DEF Control, EventsOK
<1>1. CASE UNCHANGED eventVars
  BY <1>0, <1>1 DEF eventVars, Known
<1>2. CASE Commits
  <2>1. PICK i \in Instances, t \in Times : CommitBatch(i, t)
    BY <1>2 DEF Commits
  <2>2. /\ owner' = Append(owner, i) /\ cost' = Append(cost, proc.rev)
        /\ owner \in Seq(Instances) /\ cost \in Seq(Revisions) /\ Len(cost) = Len(owner)
    BY <1>0, <2>1 DEF CommitBatch, EventsOK
  <2>3. Len(owner') = Len(owner) + 1
    BY <2>2
  <2>4. \A e \in 1..Len(owner) : e \in 1..Len(owner') /\ cost'[e] = cost[e]
    BY <1>0, <2>2, <2>3
  <2>5. \A e \in 1..Len(owner') : e \notin 1..Len(owner) => e > Len(owner)
    BY <1>0, <2>3
  <2> QED
    BY <1>0, <1>2, <2>3, <2>4, <2>5 DEF Known
<1> QED
  BY <1>1, <1>2, Frames

LEMMA AgreesStays ==
    ASSUME OnlyLegacy, Control, [Next]_vars, ~ApplyPage, ~Archives,
           NEW table, NEW n \in Nat, n <= Len(owner), Agrees(table, n)
    PROVE  \A e \in Ids : table[e] = IF e \in Known' /\ e <= n THEN cost'[e] ELSE 0
<1>1. /\ Len(owner) \in Nat /\ Known = 1..Len(owner) /\ Known \subseteq Nat
      /\ Known' = 1..Len(owner')
  BY AllOwn DEF Control, Known
<1>2. ASSUME NEW e \in Ids
      PROVE  table[e] = IF e \in Known' /\ e <= n THEN cost'[e] ELSE 0
  <2>1. table[e] = IF e \in Known /\ e <= n THEN cost[e] ELSE 0
    BY DEF Agrees
  <2>2. CASE e \in Known
    BY <2>1, <2>2, EventsGrow
  <2>3. CASE e \notin Known
    <3>1. e \in Known' => ~(e <= n)
      BY <1>1, <2>3, EventsGrow
    <3> QED
      BY <2>1, <2>3, <3>1
  <2> QED
    BY <2>2, <2>3
<1> QED
  BY <1>2

\* The runner's page.
LEMMA AggStep ==
    ASSUME OnlyLegacy, ~Expired, Control, Sums, [Next]_vars
    PROVE  /\ agg' # NoPage => agg'.active /\ agg'.inst = Legacy
           /\ PageIs(agg.page, agg.from)'
<1>0. TypeOK /\ WorkOK /\ Gates /\ Kept /\ ~Archives
  BY TypeByParts, KeptStep DEF Control, Sums
<1>1. CASE agg' = NoPage
  BY <1>1 DEF NoPage, PageIs
<1>2. CASE Reads
  <2>1. PICK i \in Instances : ReadPage(i)
    BY <1>2 DEF Reads
  <2>2. i = Legacy
    BY <1>0, <2>1, AllOwn
  <2>3. agg' = [inst |-> Legacy, active |-> TRUE, from |-> cursor[Legacy],
                page |-> Stored(FirstOf(Uncounted(Legacy), PageSize))]
    BY <2>1, <2>2 DEF ReadPage
  <2>4. Uncounted(Legacy) = {e \in Known : cursor[Legacy] < e}
    BY <1>0, AllOwn DEF Uncounted, Counted, Kept
  <2>5. PageIs(Stored(FirstOf(Uncounted(Legacy), PageSize)), cursor[Legacy])
    BY <1>0, <2>4, PageIsStored, AllOwn
  <2>6. UNCHANGED eventVars
    BY <2>1 DEF ReadPage
  <2> QED
    BY <2>3, <2>5, <2>6 DEF PageIs, Known, eventVars
<1>3. CASE UNCHANGED agg /\ agg # NoPage
  <2>1. agg.active /\ agg.inst = Legacy /\ PageIs(agg.page, agg.from)
    BY <1>3 DEF Sums
  <2>2. ~ApplyPage
    <3>1. task.pc = "events" => ~agg.active
      BY <1>0 DEF Gates, AggregationStops, AggregationRuns, UsageStops, Outside
    <3>2. ApplyPage => task.pc = "events"
      BY DEF ApplyPage
    <3> QED
      BY <2>1, <3>1, <3>2
  <2>3. /\ \A e \in Known : e \in Known' /\ cost'[e] = cost[e]
        /\ \A e \in Known' : e \notin Known => e > Len(owner)
    BY <1>0, <2>2, EventsGrow
  <2>4. ASSUME NEW p \in agg.page, NEW e \in Known', agg.from < e, e <= p[1]
        PROVE  \E q \in agg.page : q[1] = e
    <3>1. p[1] \in Known /\ p[1] \in Nat /\ p[1] <= Len(owner) /\ Len(owner) \in Nat
      BY <1>0, <2>1, AllOwn DEF PageIs
    <3>2. e \in Nat
      BY DEF Known
    <3>3. e \in Known
      BY <2>3, <2>4, <3>1, <3>2
    <3> QED
      BY <2>1, <2>4, <3>3 DEF PageIs
  <2>5. \A p \in agg.page : p[1] \in Known' /\ p[2] = cost'[p[1]] /\ agg.from < p[1]
    BY <2>1, <2>3 DEF PageIs
  <2> QED
    BY <1>3, <2>1, <2>4, <2>5 DEF PageIs
<1>4. UNCHANGED agg \/ agg' = NoPage \/ Reads
  BY Frames DEF WritePage, TurnFails, Restart
<1> QED
  BY <1>1, <1>2, <1>3, <1>4

(* What a bucket step leaves: both tables follow the cursor.                *)
Followed ==
    /\ cursor[Legacy] <= Len(owner)
    /\ Agrees(inHour, cursor[Legacy]) /\ Agrees(inDay, cursor[Legacy])

LEMMA WritePageSums ==
    ASSUME OnlyLegacy, Control, Sums, WritePage
    PROVE  Followed'
<1>0. TypeOK /\ BucketsOK /\ WorkOK
  BY TypeByParts DEF Control
<1>1. agg.inst = Legacy /\ PageIs(agg.page, agg.from)
  BY DEF WritePage, Sums, NoPage
<1>2. PICK m \in Ids : /\ IsLast({p[1] : p \in agg.page}, m)
                       /\ cursor' = [cursor EXCEPT ![Legacy] = m]
  BY <1>1 DEF WritePage
<1>3. agg.from = cursor[Legacy] /\ cursor[Legacy] \in Nat /\ agg.page \in SUBSET Amounts
  BY <1>0, <1>1, AllOwn DEF WritePage, WorkOK
<1>4. cursor'[Legacy] = m
  BY <1>0, <1>2, AllOwn DEF BucketsOK
<1>5. /\ Agrees(Added(inHour, agg.page), m) /\ Agrees(Added(inDay, agg.page), m)
      /\ m <= Len(owner)
  BY <1>0, <1>1, <1>2, <1>3, AddedAgrees DEF Sums, BucketsOK
<1>6. /\ UNCHANGED eventVars
      /\ inHour' = Added(inHour, agg.page) /\ inDay' = Added(inDay, agg.page)
  BY DEF WritePage
<1> QED
  BY <1>4, <1>5, <1>6 DEF Followed, Agrees, Known, eventVars

LEMMA CatchUpSums ==
    ASSUME OnlyLegacy, Control, Sums, CatchUpPage
    PROVE  Followed'
<1>0. TypeOK /\ BucketsOK /\ TaskOK /\ Kept
  BY TypeByParts DEF Control, Sums
<1>1. task.H \in Nat
  BY <1>0 DEF TaskOK, TaskType
<1>2. PICK S : S = {e \in Uncounted(Legacy) : e <= task.H}
  OBVIOUS
<1>3. S = {e \in Known : cursor[Legacy] < e /\ e <= task.H}
  BY <1>0, <1>2, AllOwn DEF Uncounted, Counted, Kept
<1>4. PICK page : page = FirstOf(S, PageSize)
  OBVIOUS
<1>5. /\ PageIs(Stored(page), cursor[Legacy]) /\ Stored(page) \in SUBSET Amounts
      /\ {p[1] : p \in Stored(page)} = page
  <2>1. \A x \in S, e \in Known : cursor[Legacy] < e /\ e <= x => e \in S
    <3>1. \A e \in Known : e \in Nat
      BY <1>0, AllOwn
    <3> QED
      BY <1>1, <1>3, <3>1
  <2> QED
    BY <1>0, <1>3, <1>4, <2>1, PageIsStored, AllOwn
<1>6. PICK m \in Ids : IsLast(page, m) /\ cursor' = [cursor EXCEPT ![Legacy] = m]
  BY <1>2, <1>4 DEF CatchUpPage
<1>7. cursor'[Legacy] = m
  BY <1>0, <1>6, AllOwn DEF BucketsOK
<1>8. /\ Agrees(Added(inHour, Stored(page)), m) /\ Agrees(Added(inDay, Stored(page)), m)
      /\ m <= Len(owner)
  <2>1. IsLast({p[1] : p \in Stored(page)}, m)
    BY <1>5, <1>6
  <2>2. cursor[Legacy] \in Nat
    BY <1>0, AllOwn
  <2>3. Agrees(inHour, cursor[Legacy]) /\ Agrees(inDay, cursor[Legacy])
    BY DEF Sums
  <2>4. inHour \in [Ids -> Int] /\ inDay \in [Ids -> Int]
    BY <1>0 DEF BucketsOK
  <2> QED
    BY <1>0, <1>5, <2>1, <2>2, <2>3, <2>4, AddedAgrees
<1>9. /\ UNCHANGED eventVars
      /\ inHour' = Added(inHour, Stored(page)) /\ inDay' = Added(inDay, Stored(page))
  BY <1>2, <1>4 DEF CatchUpPage
<1> QED
  BY <1>7, <1>8, <1>9 DEF Followed, Agrees, Known, eventVars

LEMMA ApplySums ==
    ASSUME OnlyLegacy, Control, Sums, ApplyPage
    PROVE  Followed'
<1>0. TypeOK /\ EventsOK /\ TaskOK /\ BucketsOK
  BY TypeByParts DEF Control
<1>1. /\ UNCHANGED <<owner, cursor>> /\ inHour' = Delta(inHour) /\ inDay' = Delta(inDay)
      /\ cost' = [e \in Known |-> IF e \in Selected THEN task.rev ELSE cost[e]]
      /\ task.pc = "events"
  BY DEF ApplyPage, DayDelta
<1>2. Selected \subseteq Known /\ Known' = Known
  BY <1>0, <1>1 DEF Selected, InScope, EventsOK, Known
<1>3. \A e \in Known : e <= cursor[Legacy]
  BY <1>0, <1>1, AllOwn DEF Sums
<1>4. task.rev \in Int
  BY <1>0, RecalculationAssumption DEF TaskOK, TaskType
<1>5. ASSUME NEW table \in [Ids -> Int], Agrees(table, cursor[Legacy])
      PROVE  \A e \in Ids : Delta(table)[e] = IF e \in Known /\ e <= cursor[Legacy]
                                              THEN cost'[e] ELSE 0
  <2> SUFFICES ASSUME NEW e \in Ids
               PROVE  Delta(table)[e] = IF e \in Known /\ e <= cursor[Legacy]
                                        THEN cost'[e] ELSE 0
    OBVIOUS
  <2>1. table[e] = IF e \in Known /\ e <= cursor[Legacy] THEN cost[e] ELSE 0
    BY <1>5 DEF Agrees
  <2>2. Delta(table)[e] = IF e \in Selected THEN table[e] + task.rev - cost[e] ELSE table[e]
    BY DEF Delta
  <2>3. CASE e \in Selected
    <3>1. e \in Known /\ cost[e] \in Int /\ cost'[e] = task.rev /\ table[e] = cost[e]
      BY <1>0, <1>1, <1>2, <1>3, <2>1, <2>3, BucketTypes
    <3>2. cost[e] + task.rev - cost[e] = task.rev
      BY <1>4, <3>1
    <3> QED
      BY <1>3, <2>2, <2>3, <3>1, <3>2
  <2>4. CASE e \notin Selected
    BY <1>1, <2>1, <2>2, <2>4
  <2> QED
    BY <2>3, <2>4
<1>6. cursor[Legacy] <= Len(owner)
  BY DEF Sums
<1> QED
  BY <1>0, <1>1, <1>2, <1>5, <1>6 DEF Followed, Sums, Agrees, BucketsOK

\* Overwriting whole rows with the sums of their hot events changes nothing
\* when the rows have no other events.
LEMMA OverwrittenSame ==
    ASSUME OnlyLegacy, TypeOK, NEW table \in [Ids -> Int], Agrees(table, cursor[Legacy]),
           Len(owner) <= cursor[Legacy], NEW part \in SUBSET Known, NEW grain,
           \A e \in Known, f \in part : RowOf(grain, e) = RowOf(grain, f) => e \in part
    PROVE  Overwritten(table, part, grain) = table
<1>1. ASSUME NEW e \in Ids
      PROVE  (IF e \in Known /\ \E f \in part : RowOf(grain, e) = RowOf(grain, f)
              THEN IF e \in part THEN cost[e] ELSE 0 ELSE table[e]) = table[e]
  <2>1. CASE e \in Known /\ \E f \in part : RowOf(grain, e) = RowOf(grain, f)
    <3>1. e \in part /\ e <= cursor[Legacy]
      BY <2>1, AllOwn
    <3>2. table[e] = cost[e]
      BY <2>1, <3>1 DEF Agrees
    <3> QED
      BY <2>1, <3>1, <3>2
  <2>2. CASE ~(e \in Known /\ \E f \in part : RowOf(grain, e) = RowOf(grain, f))
    BY <2>2
  <2> QED
    BY <2>1, <2>2
<1> QED
  BY <1>1 DEF Overwritten

LEMMA FinalizeSums ==
    ASSUME OnlyLegacy, Control, Sums, FinalizeHours \/ FinalizeDays \/ FinalizeStops
    PROVE  Followed'
<1>0. TypeOK /\ BucketsOK /\ TaskOK /\ Kept
  BY TypeByParts DEF Control, Sums
<1>1. /\ task.pc \in {"hours", "days"} /\ UNCHANGED <<eventVars, cursor>>
  BY DEF FinalizeHours, FinalizeDays, FinalizeStops
<1>2. Len(owner) <= cursor[Legacy] /\ Len(owner) <= task.H /\ task.H \in Nat
  BY <1>0, <1>1 DEF Sums, TaskOK, TaskType
<1>3. \A e \in Known : e <= task.H /\ e \in hot
  BY <1>0, <1>2, AllOwn DEF Kept
<1>4. /\ OfHour(task) \subseteq Known /\ OfDay(task) \subseteq Known
      /\ \A e \in Known, f \in OfHour(task) :
            RowOf("hour", e) = RowOf("hour", f) => e \in OfHour(task)
      /\ \A e \in Known, f \in OfDay(task) : e \in OfDay(task)
  BY <1>0, <1>3 DEF OfHour, OfDay, RowOf, Kept
<1>5. /\ Overwritten(inHour, OfHour(task), "hour") = inHour
      /\ Overwritten(inDay, OfDay(task), "day") = inDay
  BY <1>0, <1>2, <1>4, OverwrittenSame DEF Sums, BucketsOK
<1>6. ASSUME NEW part \in SUBSET OfHour(task), WholeRows(part, OfHour(task), "hour")
      PROVE  Overwritten(inHour, part, "hour") = inHour
  <2>1. \A e \in Known, f \in part : RowOf("hour", e) = RowOf("hour", f) => e \in part
    BY <1>4, <1>6 DEF WholeRows
  <2> QED
    BY <1>0, <1>2, <1>4, <2>1, OverwrittenSame DEF Sums, BucketsOK
<1>7. ASSUME NEW part \in SUBSET OfDay(task), WholeRows(part, OfDay(task), "day")
      PROVE  Overwritten(inDay, part, "day") = inDay
  <2>1. \A e \in Known, f \in part : RowOf("day", e) = RowOf("day", f) => e \in part
    BY <1>4, <1>7 DEF WholeRows
  <2> QED
    BY <1>0, <1>2, <1>4, <2>1, OverwrittenSame DEF Sums, BucketsOK
<1>8. inHour' = inHour /\ inDay' = inDay
  <2>1. CASE FinalizeHours
    BY <1>5, <2>1 DEF FinalizeHours
  <2>2. CASE FinalizeDays
    BY <1>5, <2>2 DEF FinalizeDays
  <2>3. CASE FinalizeStops
    BY <1>6, <1>7, <2>3 DEF FinalizeStops
  <2> QED
    BY <2>1, <2>2, <2>3
<1> QED
  BY <1>1, <1>8 DEF Followed, Sums, Agrees, Known, eventVars

\* The task meets no event it did not load and none that was not counted.
LEMMA MeetsNothingNew ==
    ASSUME OnlyLegacy, ~Expired, Control, Control', Sums, Followed', [Next]_vars
    PROVE  /\ task'.pc \in {"catchUp", "events", "hours", "days"} => Len(owner') <= task'.H
           /\ task'.pc \in {"events", "hours", "days"} => Len(owner') <= cursor'[Legacy]
<1>0. TypeOK /\ TypeOK' /\ TaskOK /\ BucketsOK /\ Kept
  BY TypeByParts DEF Control, Sums
<1>1. SUFFICES ASSUME task'.pc \in {"catchUp", "events", "hours", "days"}
               PROVE  /\ Len(owner') <= task'.H
                      /\ task'.pc \in {"events", "hours", "days"} =>
                            Len(owner') <= cursor'[Legacy]
  OBVIOUS
<1>2. ~Restart /\ ~Starts
  <2>1. Restart => task'.pc = "none"
    BY DEF Restart, NoTask
  <2>2. Starts => task'.pc = "pauseUsage"
    BY DEF Starts, StartPricingRecalculation, NoTask
  <2> QED
    BY <1>1, <2>1, <2>2
<1>3. owner' = owner
  <2>1. proc'.stage = "idle"
    BY <1>1 DEF Control, Gates, UsageStops, Outside, Idle
  <2>2. ~Commits
    BY <2>1, TypeByParts DEF Commits, CommitBatch, Control, WorkOK
  <2> QED
    BY <2>2, Frames DEF eventVars, Archives, ArchiveBatch, ApplyPage
<1>4. Len(owner) \in Nat /\ cursor[Legacy] \in Nat /\ cursor'[Legacy] \in Nat
  <2>1. cursor'[Legacy] \in 0..MaxEvents
    BY <1>0, TypeByParts, AllOwn DEF BucketsOK
  <2> QED
    BY <1>0, <2>1, AllOwn
<1>5. CASE LoadScope
  <2>1. PICK m \in 0..MaxEvents :
           /\ IsLast(Own(Legacy), m)
           /\ task' = [[task EXCEPT !.H = m] EXCEPT
                         !.pc = IF InScope([task EXCEPT !.H = m]) = {} THEN "reload"
                                                                     ELSE "catchUp"]
    BY <1>5 DEF LoadScope
  <2>2. task'.H = m /\ task'.pc \in {"reload", "catchUp"}
    BY <1>0, <2>1 DEF TaskOK, TaskType
  <2>3. Own(Legacy) = 1..Len(owner)
    BY <1>0, AllOwn DEF Kept
  <2>4. Len(owner) <= m
    <3>1. CASE Len(owner) = 0
      BY <2>1, <3>1
    <3>2. CASE Len(owner) # 0
      <4>1. Len(owner) \in Own(Legacy)
        BY <1>4, <2>3, <3>2
      <4> QED
        BY <2>1, <4>1 DEF IsLast
    <3> QED
      BY <3>1, <3>2
  <2> QED
    BY <1>3, <2>2, <2>4
<1>6. CASE ApplyPage
  <2>1. task.pc = "events" /\ cursor' = cursor
    BY <1>6 DEF ApplyPage
  <2>2. task'.H = task.H
    BY <1>0, <1>6 DEF ApplyPage, TaskOK, TaskType
  <2> QED
    BY <1>3, <2>1, <2>2 DEF Sums
<1>7. CASE \E edge \in Edges : task.pc = edge[1] /\ task' = [task EXCEPT !.pc = edge[2]]
  <2>1. PICK edge \in Edges : task.pc = edge[1] /\ task' = [task EXCEPT !.pc = edge[2]]
    BY <1>7
  <2>2. task'.pc = edge[2] /\ task'.H = task.H
    BY <1>0, <2>1 DEF TaskOK, TaskType
  <2>3. \/ task.pc = "catchUp" /\ task'.pc = "events"
        \/ task.pc = "hours" /\ task'.pc = "days"
    BY <1>1, <2>1, <2>2 DEF Edges
  <2>4. CASE task.pc = "catchUp" /\ task'.pc = "events"
    <3>1. CatchUpDone
      <4>1. task' # task
        BY <2>4
      <4>2. TaskStep
        BY <1>2, <4>1, Frames DEF taskVars
      <4>3. ~GateStep /\ ~LoadScope /\ ~ApplyPage /\ ~FinalizeHours /\ ~FinalizeDays
            /\ ~FinalizeStops /\ ~ReloadStoredCostEvents /\ ~InvalidateStoredCostCache
            /\ ~PublishStatus
        BY <2>4
           DEF GateStep, PauseUsage, SettleUsage, DrainRecent, PauseAggregation,
               SettleAggregation, BlockReads, DrainReads, CancelWait, ResumeReads,
               ResumeAggregation, ResumeUsage, LoadScope, ApplyPage, FinalizeHours,
               FinalizeDays, FinalizeStops, ReloadStoredCostEvents,
               InvalidateStoredCostCache, PublishStatus
      <4>4. ~CatchUpPage
        BY <4>1 DEF CatchUpPage, taskVars
      <4>5. ~RewriteFails
        <5>1. RewriteFails => task'.pc = "reload"
          BY <1>0 DEF RewriteFails, TaskFails, TaskOK, TaskType
        <5> QED
          BY <2>4, <5>1
      <4> QED
        BY <4>2, <4>3, <4>4, <4>5 DEF TaskStep, RewriteStep
    <3>2. task.H <= cursor[Legacy] /\ cursor' = cursor /\ task.H \in Nat
      BY <1>0, <3>1 DEF CatchUpDone, CaughtUp, bucketVars, TaskOK, TaskType
    <3>3. Len(owner) <= task.H
      BY <2>4 DEF Sums
    <3> QED
      BY <1>3, <1>4, <2>2, <3>2, <3>3
  <2>5. CASE task.pc = "hours" /\ task'.pc = "days"
    <3>1. Len(owner) <= task.H /\ Len(owner) <= cursor[Legacy]
      BY <2>5 DEF Sums
    <3>2. cursor' = cursor
      <4>1. ~CatchUpPage /\ ~WritePage
        <5>1. ~WritePage
          BY <2>5 DEF WritePage, taskVars
        <5> QED
          BY <2>5, <5>1 DEF CatchUpPage
      <4> QED
        BY <4>1, Frames DEF bucketVars, ApplyPage, FinalizeHours, FinalizeDays, FinalizeStops
    <3> QED
      BY <1>3, <2>2, <3>1, <3>2
  <2> QED
    BY <2>3, <2>4, <2>5
<1>8. CASE UNCHANGED task
  <2>1. Len(owner') <= task'.H
    BY <1>1, <1>3, <1>8 DEF Sums
  <2>2. CASE task.pc = "catchUp"
    BY <1>8, <2>1, <2>2
  <2>3. CASE task.pc # "catchUp"
    <3>1. ~CatchUpPage /\ (WritePage => ~agg.active)
      <4>1. task.pc \notin AggregationStops
        BY <1>1, <1>8, <2>3 DEF AggregationStops, AggregationRuns, UsageStops, Outside
      <4> QED
        BY <2>3, <4>1 DEF CatchUpPage, Control, Gates
    <3>2. ~WritePage
      <4>1. WritePage => agg # NoPage
        BY DEF WritePage, NoPage
      <4>2. agg # NoPage => agg.active
        BY DEF Sums
      <4> QED
        BY <3>1, <4>1, <4>2
    <3>3. cursor' = cursor
      BY <3>1, <3>2, Frames DEF bucketVars, ApplyPage, FinalizeHours, FinalizeDays,
                                FinalizeStops
    <3> QED
      BY <1>1, <1>3, <1>8, <2>1, <2>3, <3>3 DEF Sums
  <2> QED
    BY <2>2, <2>3
<1>9. CASE \E pc \in {"publish", "reload", "invalidate"} :
              task' = [task EXCEPT !.pc = pc, !.err = TRUE]
  BY <1>0, <1>1, <1>9 DEF TaskOK, TaskType
<1> QED
  BY <1>2, <1>5, <1>6, <1>7, <1>8, <1>9, TaskMoves

LEMMA SumsStep ==
    ASSUME OnlyLegacy, ~Expired, Control, Control', Sums, [Next]_vars
    PROVE  Sums'
<1>0. TypeOK /\ BucketsOK /\ Kept' /\ ~Archives
  BY TypeByParts, KeptStep DEF Control, Sums
<1>1. Followed'
  <2>1. CASE UNCHANGED bucketVars /\ ~ApplyPage
    <3>1. cursor' = cursor /\ inHour' = inHour /\ inDay' = inDay
      BY <2>1 DEF bucketVars
    <3>2. /\ cursor[Legacy] <= Len(owner) /\ cursor[Legacy] \in Nat /\ Len(owner) \in Nat
          /\ Agrees(inHour, cursor[Legacy]) /\ Agrees(inDay, cursor[Legacy])
      BY <1>0, AllOwn DEF Sums
    <3>3. Len(owner') >= Len(owner) /\ Len(owner') \in Nat
      BY <1>0, <2>1, EventsGrow
    <3>4. /\ \A e \in Ids : inHour[e] = IF e \in Known' /\ e <= cursor[Legacy]
                                        THEN cost'[e] ELSE 0
          /\ \A e \in Ids : inDay[e] = IF e \in Known' /\ e <= cursor[Legacy]
                                       THEN cost'[e] ELSE 0
      BY <1>0, <2>1, <3>2, AgreesStays
    <3> QED
      BY <3>1, <3>2, <3>3, <3>4 DEF Followed, Agrees
  <2> QED
    BY <2>1, WritePageSums, CatchUpSums, ApplySums, FinalizeSums, Frames
<1> QED
  BY <1>0, <1>1, AggStep, MeetsNothingNew DEF Sums, Followed
-----------------------------------------------------------------------------
(* The theorems.                                                            *)

\* Every variable of the recalculation and of the work around it keeps its type:
\* no event, generation or cursor leaves its range, whatever fails and whoever
\* crashes (runPricingRecalculation and the services that share its gates).
THEOREM TypeCorrect == Spec => []TypeOK
<1>1. Control => TypeOK
  BY DEF Control
<1> QED
  BY <1>1, ControlHolds, PTL

\* What readers of costs rely on while tasks come and go: no stored cost changes
\* under a read, and no cache serves what was stored before the last rewrite
\* (CostReadGate, DrainAcceptedAppends, InvalidateStoredCostCache).
THEOREM ReadersAreUndisturbed == Spec => ReadersUndisturbed
<1> DEFINE Calm == /\ reads > 0 => \A e \in Known : cost'[e] = cost[e]
                   /\ CachesFresh'
<1>1. ASSUME Control, Fresh PROVE CachesFresh
  <2>1. Gates /\ WorkOK
    BY <1>1, TypeByParts DEF Control
  <2>2. ~blocked \/ reads > 0 => task.pc \notin Rewriting
    BY <2>1 DEF Gates, WorkOK
  <2>3. task.pc \notin Rewriting => task.pc \notin RecentBehind /\ task.pc \notin QuotaBehind
    BY DEF Rewriting, RecentBehind, QuotaBehind
  <2> QED
    BY <1>1, <2>2, <2>3 DEF CachesFresh, Fresh
<1>2. ASSUME Control, [Next]_vars, reads > 0 PROVE \A e \in Known : cost'[e] = cost[e]
  <2>1. EventsOK /\ Gates
    BY <1>2, TypeByParts DEF Control
  <2>2. ~ApplyPage
    <3>1. task.pc = "events" => reads = 0
      BY <2>1 DEF Gates, Rewriting
    <3>2. ApplyPage => task.pc = "events"
      BY DEF ApplyPage
    <3> QED
      BY <1>2, <3>1, <3>2
  <2>3. CASE UNCHANGED cost
    BY <2>3
  <2>4. CASE Commits
    <3>1. PICK i \in Instances, t \in Times : CommitBatch(i, t)
      BY <2>4 DEF Commits
    <3>2. /\ cost' = Append(cost, proc.rev) /\ cost \in Seq(Revisions)
          /\ Len(cost) = Len(owner) /\ Len(owner) \in Nat
      BY <2>1, <3>1, LenProperties DEF CommitBatch, EventsOK
    <3> QED
      BY <3>2 DEF Known
  <2> QED
    BY <1>2, <2>2, <2>3, <2>4, Frames DEF eventVars, Archives, ArchiveBatch
<1>3. Control /\ Fresh /\ Control' /\ Fresh' /\ [Next]_vars => [Calm]_vars
  <2> SUFFICES ASSUME Control, Fresh, Control', Fresh', [Next]_vars PROVE Calm
    OBVIOUS
  <2>1. CachesFresh'
    BY <1>1, PTL
  <2> QED
    BY <1>2, <2>1
<1>4. ReadersUndisturbed <=> [][Calm]_vars
  BY DEF ReadersUndisturbed
<1> HIDE DEF Calm
<1> QED
  BY <1>3, <1>4, ControlHolds, FreshHolds, PTL DEF Spec

\* After a completed recalculation no hot event of its period carries a price
\* older than the one the task was started for, batches that were under way
\* with an older price snapshot included (executePricingRecalculation), in a
\* keeper to which no other keeper pushes its usage.
THEOREM OldPricesAreGone ==
    ASSUME OnlyLegacy
    PROVE  Spec => []OldPricesGone
<1>1. Init => Repriced
  <2> SUFFICES ASSUME Init PROVE Repriced
    OBVIOUS
  <2>1. /\ task.pc = "none" /\ task.rev = 0 /\ status = "none" /\ revision = 1
        /\ catalog = 1
    BY DEF Init, NoTask
  <2> QED
    BY <2>1 DEF Repriced, Settled, Unscanned, Rewritten
<1>2. Control /\ Control' /\ Repriced /\ [Next]_vars => Repriced'
  BY RepricedStep
<1>3. Repriced => OldPricesGone
  BY DEF Repriced, AllPriced, InPeriod, OldPricesGone
<1> QED
  BY <1>1, <1>2, <1>3, ControlHolds, PTL DEF Spec

\* Every hour and day bucket holds exactly the stored cost of each event that
\* was aggregated into it and nothing of the others, between any two
\* transactions, after failures and after a crash (ApplyUsageCostRecalculation-
\* Batch, FinalizeUsageCostRecalculationStats, ApplyUsageOverviewAggregationPage),
\* in a keeper to which no other keeper pushes its usage and for a day of which
\* nothing is archived.
THEOREM CostsDoAgree ==
    ASSUME OnlyLegacy, ~Expired
    PROVE  Spec => []CostsAgree
<1>1. Init => Sums
  <2> SUFFICES ASSUME Init PROVE Sums
    OBVIOUS
  <2>1. Len(owner) = 0 /\ Known = {} /\ cursor[Legacy] = 0
    BY EmptySeq DEF Init, Known, Instances
  <2>2. /\ task.pc = "none" /\ agg = NoPage /\ agg.page = {} /\ maint = FALSE /\ hot = {}
        /\ inHour = [e \in Ids |-> 0] /\ inDay = [e \in Ids |-> 0]
    BY DEF Init, NoTask, NoPage
  <2> QED
    BY <2>1, <2>2 DEF Sums, Kept, Agrees, PageIs
<1>2. Control /\ Control' /\ Sums /\ [Next]_vars => Sums'
  BY SumsStep
<1>3. Control /\ Sums => CostsAgree
  <2> SUFFICES ASSUME Control, Sums PROVE CostsAgree
    OBVIOUS
  <2>1. \A e \in Known : owner[e] = Legacy /\ e \in Ids
    BY AllOwn DEF Control
  <2> QED
    BY <2>1 DEF Sums, Agrees, CostsAgree, Counted
<1> QED
  BY <1>1, <1>2, <1>3, ControlHolds, PTL DEF Spec
=============================================================================
