------------------------- MODULE UsageOverviewReads -------------------------
(***************************************************************************)
(* Building the usage overview of a time range while usage is stored,      *)
(* cached and rolled up.                                                   *)
(*                                                                         *)
(* A request plans its range once, against one instant (queryNow): whole   *)
(* hours and days come from the rollup tables, the ragged ends from single *)
(* events, which the recent event cache serves when it reaches back far    *)
(* enough and the database otherwise.  The parts are read one after the    *)
(* other; the plain overview reads them from the live database, the        *)
(* comparison from one read transaction, and the cache is outside both.    *)
(*                                                                         *)
(* Time is counted in ticks; a tick is the resolution of a timestamp.      *)
(* What a read adds up is kept as how often it counted each event.  The    *)
(* zone has one offset here; its changes are the subject of UsageClock.    *)
(***************************************************************************)
EXTENDS Integers, FiniteSets, Sequences, SequencesExt

CONSTANTS
    Instances,     \* CPA instances whose usage is stored
    AllInstances,           \* no instance filter: an empty filter.InstanceID
    HourSpan,    \* ticks per hour
    DayHours,      \* hours per day
    Zone,          \* offset of the local zone, in ticks
    RecentWindow,   \* UsageRecentEventCache.window
    LongWindow,    \* usageOverviewDailyBucketThresholdMinutes
    QueueSize,     \* accepted appends the cache has not applied
    PageSize,      \* usageAggregationEventPageSize
    Rolling,       \* lengths of the rolling ranges
    Filters,       \* instance filters a request may carry
    Starts,        \* instants at which the keeper may be found
    Times,         \* instants an event may carry
    MaxTicks,      \* bound: ticks that pass
    MaxEvents      \* bound: events that are ever stored

DaySpan == DayHours * HourSpan

ASSUME OverviewReadsAssumption ==
    /\ AllInstances \notin Instances
    /\ HourSpan \in Nat \ {0, 1} /\ DayHours \in Nat \ {0} /\ Zone \in Nat
    /\ RecentWindow \in Nat \ {0} /\ RecentWindow > HourSpan
    /\ LongWindow \in Nat /\ QueueSize \in Nat /\ PageSize \in Nat \ {0}
    /\ Rolling \subseteq Nat \ {0} /\ Starts \subseteq Nat /\ Times \subseteq Nat
    /\ Filters \subseteq Instances \cup {AllInstances}
    /\ MaxTicks \in Nat /\ MaxEvents \in Nat

VARIABLES
    clock,      \* now
    events,     \* usage_events by id: timestamp and instance
    cursor,     \* the overview checkpoint: rollups hold the events up to it
    queue,      \* appends the cache has accepted
    cache,     \* the events in the recent event cache
    read        \* the overview request under way

overviewVars == <<clock, events, cursor, queue, cache, read>>

Ids == DOMAIN events
Stamp(e) == events[e].at

-----------------------------------------------------------------------------
(* The ranges a request may ask for.                                       *)

\* DayBounds for a zone with one offset: the first instant of t's local day.
DayStart(t) == t - ((t + Zone) % DaySpan)
DayEnd(t) == DayStart(t) + DaySpan

\* The local hour t lies in, and the absolute hour (time.Truncate).
LocalHour(t) == t - ((t + Zone) % HourSpan)
Truncated(t) == t - (t % HourSpan)

\* ParseUsageQueryRangeWithOptions.
Today(now) == [kind |-> "today", start |-> DayStart(now), end |-> DayEnd(now) - 1,
               endExclusive |-> FALSE]
Yesterday(now) == [kind |-> "yesterday", start |-> DayStart(now) - DaySpan,
                   end |-> DayStart(now) - 1, endExclusive |-> FALSE]
RollingRange(now, d) == [kind |-> "rolling", start |-> now - d, end |-> now,
                         endExclusive |-> FALSE]

\* parseCustomUsageDayRange: whole local days that do not end in the future.
CustomDays(now) ==
    {[kind |-> "day", start |-> DayStart(now) - back[1] * DaySpan, end |-> DayEnd(now) - back[2] * DaySpan,
      endExclusive |-> TRUE] : back \in {p \in (0..1) \X (0..1) : p[2] <= p[1]}}

\* parseCustomUsageHourRange: whole local hours up to the current one.
CustomHours(now) ==
    {[kind |-> "hour", start |-> LocalHour(now) - m * HourSpan,
      end |-> LocalHour(now) + HourSpan, endExclusive |-> TRUE] : m \in 0..(DayHours - 1)}

Ranges(now) == {Today(now), Yesterday(now)} \cup {RollingRange(now, d) : d \in Rolling}
               \cup CustomDays(now) \cup CustomHours(now)

-----------------------------------------------------------------------------
(* Planning a read.                                                        *)

\* usageOverviewEffectiveFilter: a future end is cut to queryNow.
Effective(r, now) == [r EXCEPT !.end = IF @ > now THEN now ELSE @]

\* usageOverviewCurrentRightBoundary, for the ranges that reach a raw window.
CurrentRight(r) == r.kind \in {"rolling", "today"}

\* computeWindowMinutes and shouldBucketUsageOverviewByDay.
WindowLength(r) == IF r.end < r.start THEN 0
                   ELSE IF r.end = r.start THEN 1 ELSE r.end - r.start
ByDay(r) == WindowLength(r) >= LongWindow

\* usageOverviewFullHourWindow.
FullHours(r) ==
    LET from == IF Truncated(r.start) = r.start THEN r.start
                ELSE Truncated(r.start) + HourSpan
        to == Truncated(r.end)
    IN [start |-> from, end |-> IF to < from THEN from ELSE to]

\* usageOverviewFullDayWindow.
FullDays(w) ==
    LET from == IF DayStart(w.start) = w.start THEN w.start ELSE DayEnd(w.start)
        to == DayStart(w.end)
    IN [start |-> from, end |-> IF to < from THEN from ELSE to]

\* appendUsageOverviewRawEventBoundaryWindows: the ragged left end ...
LeftWindow(r, full, current) ==
    LET to == IF r.end < full.start THEN r.end ELSE full.start
    IN IF r.start < r.end /\ r.start < full.start
       THEN <<[start |-> r.start, end |-> to,
               includeEnd |-> ~r.endExclusive /\ to = r.end,
               current |-> current /\ to = r.end]>>
       ELSE <<>>

\* Variant with a fault: a range that ends on the hour gets no right window.
RightWindowNeverEmpty(r, full, current) ==
    LET from == IF full.end < r.start THEN r.start ELSE full.end
    IN IF r.start < r.end /\ r.end >= full.end /\ from < r.end
       THEN <<[start |-> from, end |-> r.end, includeEnd |-> ~r.endExclusive,
               current |-> current]>>
       ELSE <<>>

\* ... and the ragged right end, empty or not when it is the present.
RightWindow(r, full, current) ==
    LET from == IF full.end < r.start THEN r.start ELSE full.end
    IN IF /\ r.start < r.end /\ r.end >= full.end
          /\ from < r.end \/ (current /\ from = r.end)
       THEN <<[start |-> from, end |-> r.end, includeEnd |-> ~r.endExclusive,
               current |-> current]>>
       ELSE <<>>

\* mergeUsageOverviewRawEventWindows, for at most two windows.
Merged(ws) ==
    IF Len(ws) < 2 \/ ws[2].start > ws[1].end THEN ws
    ELSE <<IF ws[2].end > ws[1].end
           THEN [ws[2] EXCEPT !.start = ws[1].start]
           ELSE [ws[1] EXCEPT !.includeEnd = @ \/ (ws[2].end = ws[1].end /\ ws[2].includeEnd),
                              !.current = @ \/ ws[2].current]>>

\* usageOverviewRawEventWindows.
RawWindows(r, full) ==
    Merged(LeftWindow(r, full, CurrentRight(r)) \o RightWindow(r, full, CurrentRight(r)))

HourStats(from, to) == IF from < to THEN <<[grain |-> "hour", start |-> from, end |-> to]>>
                    ELSE <<>>
DayStats(from, to) == <<[grain |-> "day", start |-> from, end |-> to]>>

\* The rollup windows of buildUsageOverviewFromStats, in the order it reads them.
StatWindows(r, full) ==
    LET days == FullDays(full)
    IN IF full.end <= full.start THEN <<>>
       ELSE IF ~ByDay(r) \/ days.end <= days.start THEN HourStats(full.start, full.end)
       ELSE DayStats(days.start, days.end) \o HourStats(full.start, days.start)
              \o HourStats(days.end, full.end)

\* buildUsageOverviewFromStats: what is read, and in which order.
Plan(r, now) ==
    LET cut == Effective(r, now)
        full == FullHours(cut)
    IN CASE r.kind = "hour" -> [windows |-> <<>>, stats |-> HourStats(r.start, r.end),
                                full |-> [start |-> 0, end |-> 0]]
         [] r.kind = "day" -> [windows |-> <<>>, stats |-> DayStats(r.start, r.end),
                               full |-> [start |-> 0, end |-> 0]]
         [] OTHER -> [windows |-> RawWindows(cut, full), stats |-> StatWindows(cut, full),
                      full |-> full]

-----------------------------------------------------------------------------
(* The sources of a read.                                                  *)

\* filter.InstanceID.
Matches(e, inst) == inst = AllInstances \/ events[e].inst = inst

\* BucketKeysForEvent: hours are absolute, days are local.
BucketOf(e, grain) == IF grain = "hour" THEN Truncated(Stamp(e)) ELSE DayStart(Stamp(e))

\* usageOverviewRecentCacheCoversWindow.
Covers(w, now) ==
    \/ w.end < w.start
    \/ ~w.includeEnd /\ w.end = w.start /\ ~w.current
    \/ w.start >= now - RecentWindow

InWindow(e, w) == /\ Stamp(e) >= w.start
                  /\ IF w.includeEnd THEN Stamp(e) <= w.end ELSE Stamp(e) < w.end

\* EventsForInstance, and EventsSinceForInstance for the present.
CachedEvents(w, inst) ==
    {e \in cache : Matches(e, inst) /\ IF w.current THEN Stamp(e) >= w.start ELSE InWindow(e, w)}

\* loadUsageOverviewEventRangeWithProjection.
StoredEvents(w, inst, seen) == {e \in seen : Matches(e, inst) /\ InWindow(e, w)}

\* loadUsageOverviewStatProjection and loadUsageOverviewComparisonProjection.
StatRows(s, inst, upTo) ==
    {e \in 1..upTo : /\ Matches(e, inst)
                     /\ s.start <= BucketOf(e, s.grain) /\ BucketOf(e, s.grain) < s.end}

\* loadUsageOverviewComparisonTokenSeries: no instance filter; a row is drawn
\* when the totals have an item to draw it in.
SeriesRows(s, inst, upTo) ==
    IF StatRows(s, inst, upTo) = {} THEN {} ELSE StatRows(s, AllInstances, upTo)

Plus(counts, S) == [e \in 1..MaxEvents |-> counts[e] + IF e \in S THEN 1 ELSE 0]
Nothing == [e \in 1..MaxEvents |-> 0]

-----------------------------------------------------------------------------
(* Usage arrives, is cached and rolled up; time passes.                    *)

NoRead == [phase |-> "idle"]

OverviewInit ==
    /\ clock \in Starts
    /\ events = <<>> /\ cursor = 0 /\ queue = <<>> /\ cache = {}
    /\ read = NoRead

ClockTick ==
    /\ \E s \in Starts : s <= clock /\ clock < s + MaxTicks
    /\ clock' = clock + 1
    /\ UNCHANGED <<events, cursor, queue, cache, read>>

\* A stored event, which TryAppend offers to the cache: a full queue drops it.
Store(t, i) ==
    /\ Len(events) < MaxEvents
    /\ events' = Append(events, [at |-> t, inst |-> i])
    /\ queue' = IF Len(queue) < QueueSize THEN Append(queue, Len(events) + 1) ELSE queue
    /\ UNCHANGED <<clock, cursor, cache, read>>

\* pruneLocked.
Retained(S) == {e \in S : Stamp(e) >= clock - RecentWindow}

\* appendEvents, in the cache's worker.
AppendRecent ==
    /\ queue # <<>>
    /\ cache' = Retained(cache \cup {Head(queue)})
    /\ queue' = Tail(queue)
    /\ UNCHANGED <<clock, events, cursor, read>>

\* One page of the overview aggregation.
Aggregate ==
    /\ cursor < Len(events)
    /\ cursor' = IF cursor + PageSize < Len(events) THEN cursor + PageSize ELSE Len(events)
    /\ UNCHANGED <<clock, events, queue, cache, read>>

-----------------------------------------------------------------------------
(* The read.                                                               *)

\* What the reader is owed: rolled up, and in the cache while that reaches back.
Settled == {e \in Ids : e <= cursor /\ (e \in cache \/ Stamp(e) < clock - RecentWindow)}

\* buildUsageOverviewWithFilterAndRecentCache, up to its first query.
Begin(r, inst, comparison) ==
    /\ read.phase = "idle"
    /\ read' = [phase |-> "reading", range |-> r, now |-> clock, inst |-> inst,
                comparison |-> comparison, plan |-> Plan(r, clock), snap |-> <<>>,
                totals |-> Nothing, series |-> Nothing,
                owed |-> Settled, served |-> {}]
    /\ UNCHANGED <<clock, events, cursor, queue, cache>>

\* The transaction's snapshot is taken by its first statement.
Snapshot == IF read.comparison /\ read.snap # <<>> THEN read.snap
            ELSE <<Len(events), cursor>>

\* usageOverviewEventInsideWindow.
Ragged(S) == {e \in S : ~(read.plan.full.start <= Stamp(e) /\ Stamp(e) < read.plan.full.end)}

\* loadUsageOverviewRawEventWindowsWithFilter, one window.
ReadWindow ==
    /\ read.phase = "reading" /\ read.plan.windows # <<>>
    /\ LET w == Head(read.plan.windows)
           cached == Covers(w, read.now)
           S == Ragged(IF cached THEN CachedEvents(w, read.inst)
                       ELSE StoredEvents(w, read.inst, 1..Snapshot[1]))
       IN read' = [read EXCEPT
                     !.plan.windows = Tail(@),
                     !.totals = Plus(@, S), !.series = Plus(@, S),
                     !.snap = IF cached THEN @ ELSE Snapshot,
                     !.served = IF cached THEN @ \cup {w} ELSE @]
    /\ UNCHANGED <<clock, events, cursor, queue, cache>>

\* loadAndApplyUsageOverviewStats, one rollup window.
ReadStats ==
    /\ read.phase = "reading" /\ read.plan.windows = <<>> /\ read.plan.stats # <<>>
    /\ LET s == Head(read.plan.stats)
       IN read' = [read EXCEPT
                     !.plan.stats = Tail(@),
                     !.totals = Plus(@, StatRows(s, read.inst, Snapshot[2])),
                     !.series = Plus(@, IF read.comparison
                                        THEN SeriesRows(s, read.inst, Snapshot[2])
                                        ELSE StatRows(s, read.inst, Snapshot[2])),
                     !.snap = Snapshot]
    /\ UNCHANGED <<clock, events, cursor, queue, cache>>

\* Everything the plan names has been read.
Answered == read.phase = "reading" /\ read.plan.windows = <<>> /\ read.plan.stats = <<>>

Respond ==
    /\ Answered
    /\ read' = NoRead
    /\ UNCHANGED <<clock, events, cursor, queue, cache>>

OverviewStep ==
    \/ ClockTick
    \/ \E t \in {u \in Times : u <= clock}, i \in Instances : Store(t, i)
    \/ AppendRecent
    \/ Aggregate
    \/ \E r \in Ranges(clock), inst \in Filters, c \in BOOLEAN : Begin(r, inst, c)
    \/ ReadWindow
    \/ ReadStats
    \/ Respond

OverviewSpec == OverviewInit /\ [][OverviewStep]_overviewVars

-----------------------------------------------------------------------------
(* Properties.                                                             *)

\* The instants the request asked for.
Asked(t) == /\ t >= read.range.start
            /\ IF read.range.endExclusive THEN t < read.range.end ELSE t <= read.range.end

\* The cache served the event's window and reached back to the event when the
\* request came, but not since: the cover is judged by queryNow and the pruning
\* by the cache's own clock.
Slipped(e) == /\ Stamp(e) >= read.now - RecentWindow /\ Stamp(e) < clock - RecentWindow
              /\ \E w \in read.served : w.start <= Stamp(e)

\* An answered overview counts every event at most once and none outside the
\* range and the instance (but for usage newer than the request, at the open
\* right end), and counts every event that was rolled up and cached when the
\* request came, whatever is stored, cached or rolled up meanwhile.
CountsOnce ==
    Answered =>
        \A e \in Ids :
            /\ read.totals[e] \in {0, 1}
            /\ read.totals[e] = 1 =>
                 /\ Matches(e, read.inst)
                 /\ Asked(Stamp(e)) \/ (CurrentRight(read.range) /\ Stamp(e) > read.range.end)
            /\ (/\ e \in read.owed
                /\ read.range.start < read.now
                /\ Asked(Stamp(e)) /\ Matches(e, read.inst))
                  => read.totals[e] = 1 \/ Slipped(e)

\* The token series of a comparison adds up to its totals: what
\* usage_overview_comparison_series_test.go demands of every item.
SeriesMatchTotals == Answered => read.series = read.totals
=============================================================================
