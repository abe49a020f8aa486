---------------------------- MODULE UsageRollups ----------------------------
(***************************************************************************)
(* Two rollups of the usage events: the activity heat map and the latency  *)
(* diagnostics.                                                            *)
(*                                                                         *)
(* Activity: how an event finds its bucket in each of the four grains,     *)
(* what a page of events adds to the stored rows, what the cleanup         *)
(* removes, and the grid of HeatmapBlocks cells a query builds.            *)
(*                                                                         *)
(* Latency: a row per local hour and per local day with the number of      *)
(* measured events, the largest times, a sketch of each time and a sample  *)
(* of MaxSamplePoints of them; pages are merged into the stored rows, and  *)
(* the rows of a range into one diagnosis.                                 *)
(*                                                                         *)
(* A stored row is known by its instance, its grain, the start of its      *)
(* bucket and its API group.  Of the columns of an activity row the        *)
(* successes and the failures are kept, since the tokens are summed in the *)
(* same way.  Its bucket times are stored as sortable UTC text, so they    *)
(* compare as instants.  An event is                                       *)
(*   [id, at, inst, key, provider, auth, failed, ttft, latency],           *)
(* with a ttft of 0 when it has none or was not generated.                 *)
(***************************************************************************)
EXTENDS UsageClock, Bags, FiniteSetsExt, Functions, TLC

CONSTANTS
    HeatmapBlocks,     \* cells of a grid
    MediumSeconds,     \* the medium window, in seconds
    LongSeconds,       \* the long window, in seconds
    Retentions,        \* ticks for which the grains with a limit are kept
    NoScope            \* a request that names no provider: a nil scope

ASSUME GrainAssumption ==
    /\ HeatmapBlocks \in Nat \ {0}
    /\ MediumSeconds >= HeatmapBlocks /\ LongSeconds >= HeatmapBlocks

Grains == {"short", "medium", "long", "daily"}
FixedSeconds == [medium |-> MediumSeconds, long |-> LongSeconds]

\* calendarBoundary and fixedBoundary: the start of cell i of `seconds`
\* seconds that begin at `origin`.
Boundary(origin, seconds, i) == origin + SecondLength * ((i * seconds) \div HeatmapBlocks)
Cell(origin, seconds, i) ==
    [start |-> Boundary(origin, seconds, i), end |-> Boundary(origin, seconds, i + 1)]

\* The proportional guess at the cell of instant t.
Guess(origin, seconds, t) ==
    (((t - origin) \div SecondLength) * HeatmapBlocks) \div seconds

\* fixedBucketIndex: up while the next cell has begun, then down while this
\* one has not.
FixedIndex(seconds, t) ==
    LET Up(guess) == CHOOSE i \in guess..(guess + HeatmapBlocks) :
                       /\ t < Boundary(0, seconds, i + 1)
                       /\ \A j \in guess..(i - 1) : t >= Boundary(0, seconds, j + 1)
        Down(up) == Max({i \in (up - HeatmapBlocks)..up : Boundary(0, seconds, i) <= t})
    IN Down(Up(Guess(0, seconds, t)))

\* shortBucketForTimestamp: the cells of the local day; the corrections stop
\* at its first and its last cell.
ShortIndex(day, seconds, guess, t) ==
    LET Begun(i) == Boundary(day, seconds, i) <= t
        up == Max({guess} \cup {i \in (guess + 1)..(HeatmapBlocks - 1) :
                                  \A j \in (guess + 1)..i : Begun(j)})
    IN IF up <= 0 THEN up ELSE Max({i \in 0..up : i = 0 \/ Begun(i)})
ShortCell(day, seconds, t) ==
    Cell(day, seconds, ShortIndex(day, seconds, Guess(day, seconds, t), t))
ShortCellOfDay(z, day, t) == ShortCell(day, (AddDays(z, day, 1) - day) \div SecondLength, t)
ShortBucket(z, t) == ShortCellOfDay(z, StartOfDate(z, t), t)

DayFrom(z, start) == [start |-> start, end |-> AddDays(z, start, 1)]
DailyBucket(z, t) == DayFrom(z, StartOfDate(z, t))

\* BucketForTimestamp.
BucketForTimestamp(z, grain, t) ==
    CASE grain = "short" -> ShortBucket(z, t)
      [] grain = "daily" -> DailyBucket(z, t)
      [] OTHER -> Cell(0, FixedSeconds[grain], FixedIndex(FixedSeconds[grain], t))

\* shortWindowEndingAt: back from the cell that holds the reference, each cell
\* found from the last tick before the one after it.
ShortWindow(z, reference) ==
    LET Last(holding) == IF reference = holding.start THEN holding.start ELSE holding.end
        back[i \in 1..HeatmapBlocks] ==
            ShortBucket(z, (IF i = HeatmapBlocks THEN Last(ShortBucket(z, reference))
                            ELSE back[i + 1].start) - 1)
    IN back

DailyWindow(z, reference) ==
    LET End(day) == IF reference = day THEN day ELSE AddDays(z, day, 1)
        Days(start) == [i \in 1..HeatmapBlocks |-> DayFrom(z, AddDays(z, start, i - 1))]
    IN Days(AddDays(z, End(StartOfDate(z, reference)), -HeatmapBlocks))

\* WindowEndingAt: the last HeatmapBlocks cells up to the reference.
WindowEndingAt(z, grain, reference) ==
    CASE grain = "short" -> ShortWindow(z, reference)
      [] grain = "daily" -> DailyWindow(z, reference)
      [] OTHER ->
           LET seconds == FixedSeconds[grain]
               End(holding) == IF reference = Boundary(0, seconds, holding) THEN holding ELSE holding + 1
               Cells(end) == [i \in 1..HeatmapBlocks |-> Cell(0, seconds, end - HeatmapBlocks + i - 1)]
           IN Cells(End(FixedIndex(seconds, reference)))

-----------------------------------------------------------------------------
(* The stored rows.                                                        *)

\* NormalizeAPIGroupKey, and the instance of a row that names none.
APIGroup(key) == IF key = "" THEN "unknown" ELSE key
OwnInstance(inst) == IF inst = "" THEN "legacy-default" ELSE inst

\* Retention: the grains with a limit.
Kept(grain, t, now) == grain \in DOMAIN Retentions => t >= now - Retentions[grain]

\* The counters of a row for a set of events, and of rows put together.
Counters(events) ==
    [success |-> Cardinality({e \in events : ~e.failed}),
     failure |-> Cardinality({e \in events : e.failed})]
Together(counts, S) ==
    [success |-> MapThenSumSet(LAMBDA k : counts[k].success, S),
     failure |-> MapThenSumSet(LAMBDA k : counts[k].failure, S)]

\* activity.BuildRows of a page of events.
BuildActivity(z, events, now) ==
    LET placed == {[grain |-> g, event |-> e, bucket |-> BucketForTimestamp(z, g, e.at)] :
                     g \in Grains, e \in events}
        Key(p) == <<p.event.inst, p.grain, p.bucket.start, APIGroup(p.event.key)>>
        Rows(kept) ==
            [k \in {Key(p) : p \in kept} |->
               LET own == {p \in kept : Key(p) = k}
               IN [end |-> (CHOOSE p \in own : TRUE).bucket.end] @@ Counters({p.event : p \in own})]
    IN Rows({p \in placed : Kept(p.grain, p.event.at, now)})

\* The key a row is stored under.
StoredKey(k) == [k EXCEPT ![1] = OwnInstance(@)]

\* Variant with a fault: a row that is there is replaced.
StoreRowsReplacing(stored, rows) ==
    [k \in {StoredKey(r) : r \in DOMAIN rows} |-> rows[CHOOSE r \in DOMAIN rows : StoredKey(r) = k]] @@ stored

\* activitystore.ApplyRows, row by row: a row that is there gets the counts
\* added, otherwise it is created.
StoreRows(stored, rows) ==
    [k \in {StoredKey(r) : r \in DOMAIN rows} |->
       LET own == {r \in DOMAIN rows : StoredKey(r) = k}
           added == Together(rows, own)
       IN [end |-> rows[CHOOSE r \in own : TRUE].end]
            @@ (IF k \in DOMAIN stored THEN Together(<<stored[k], added>>, {1, 2}) ELSE added)] @@ stored

\* CleanupUsageActivityStatsForInstance: the limited grains by the end of
\* their buckets.
CleanupActivity(stored, inst, now) ==
    [k \in {x \in DOMAIN stored : x[1] = inst => Kept(x[2], stored[x].end, now)} |-> stored[k]]

-----------------------------------------------------------------------------
(* The grid of a request.  A request is a time condition                   *)
(*   [activity, range, custom, unit, count, start],                        *)
(* start being NoTime when it is missing, and a scope                      *)
(*   [inst, key, excluded, providers, auths]                               *)
(* whose providers and auth indexes are NoScope unless it names a provider.*)

CalendarDay(f) == f.activity \in {"today", "yesterday"} \/ f.range \in {"today", "yesterday"}

\* usageActivityWindowForFilter; "" is the error.
WindowForFilter(f) ==
    CASE f.activity \in {"day", "week", "month", "year"} -> f.activity
      [] f.activity \notin {"day", "week", "month", "year"} /\ CalendarDay(f) -> "day"
      [] OTHER ->
           CASE f.unit = "hour" /\ f.count >= 1 -> "day"
             [] f.unit = "day" /\ f.range = "custom" /\ f.custom = "day" -> "year"
             [] f.unit = "day" /\ ~(f.range = "custom" /\ f.custom = "day") /\ f.count \in 1..30 ->
                  IF f.count = 1 THEN "day" ELSE IF f.count <= 7 THEN "week" ELSE "month"
             [] OTHER -> ""

\* usageActivityGrain.
GrainOfWindow == [day |-> "short", week |-> "medium", month |-> "long", year |-> "daily"]

\* The conditions on the API group: applyUsageAPIKeyScope.
KeyInScope(s, key) == (s.key = "" \/ key = s.key) /\ key \notin s.excluded
InstanceInScope(s, inst) == s.inst = "" \/ inst = s.inst

\* loadUsageActivityProviderRows: for the finer grains from the events of the
\* scope's providers, for "daily" from the overview's rows of its auth
\* indexes, which are one row per day, API group, auth index and instance.
ProviderActivity(z, grain, events, s, start, end) ==
    LET selected == {e \in events :
                       /\ InstanceInScope(s, e.inst)
                       /\ IF grain = "daily"
                          THEN KeyInScope(s, APIGroup(e.key)) /\ e.auth \in s.auths
                          ELSE KeyInScope(s, e.key) /\ e.provider \in s.providers
                       /\ ListSelects(z, start, end, TRUE, IF grain = "daily" THEN StartOfDate(z, e.at) ELSE e.at)}
        placed == {[event |-> e, bucket |-> BucketForTimestamp(z, grain, e.at)] : e \in selected}
    IN [k \in {<<"", grain, p.bucket.start, "">> : p \in placed} |->
          LET own == {p \in placed : p.bucket.start = k[3]}
          IN [end |-> (CHOOSE p \in own : TRUE).bucket.end] @@ Counters({p.event : p \in own})]

\* The stored rows of a scope without providers.
ScopedRows(rows, s) ==
    [k \in {x \in DOMAIN rows : InstanceInScope(s, x[1]) /\ KeyInScope(s, x[4])} |-> rows[k]]

\* A cell of QueryUsageActivityGridWithFilter: the rows of its bucket, unless
\* it begins after the data ends.
GridCell(cell, grain, rows, dataEnd) ==
    LET found == {k \in DOMAIN rows : k[2] = grain /\ k[3] = cell.start /\ k[3] < dataEnd}
    IN [start |-> cell.start, end |-> IF found = {} THEN cell.end ELSE rows[CHOOSE k \in found : TRUE].end]
         @@ Together(rows, found)

\* QueryUsageActivityGridWithFilter over the stored rows, or over the events
\* when the scope has providers.
Grid(z, grain, rows, events, reference, dataEnd, s) ==
    LET cells == WindowEndingAt(z, grain, reference)
        found == IF s.providers # NoScope
                 THEN ProviderActivity(z, grain, events, s, cells[1].start, cells[HeatmapBlocks].end)
                 ELSE ScopedRows(rows, s)
    IN [i \in DOMAIN cells |-> GridCell(cells[i], grain, found, dataEnd)]

\* GetUsageActivity: a calendar day is shown up to its end.  Without a window,
\* or a start for a calendar day, it fails.
ActivityFails(f) == WindowForFilter(f) = "" \/ (CalendarDay(f) /\ f.start = NoTime)
ActivityReference(z, f, now) == IF CalendarDay(f) THEN DayBounds(z, DateOf(z, f.start)).end ELSE now
Activity(z, f, s, rows, events, now) ==
    IF ActivityFails(f) THEN <<>>
    ELSE LET Summary(blocks) == [blocks |-> blocks, total |-> Together(blocks, DOMAIN blocks)]
         IN Summary(Grid(z, GrainOfWindow[WindowForFilter(f)], rows, events,
                         ActivityReference(z, f, now), now, s))
-----------------------------------------------------------------------------
(* The latency rollup.  A sketch is a bag of bins: Bin[v], which grows with*)
(* v, is the bin of the value v.  Priority[id] is the hash of an event's id.*)

CONSTANTS
    HourRetention,     \* HourRetentionDays, in ticks
    DayRetention,      \* DayRetentionDays
    MaxSamplePoints,   \* points of a sample
    Priority,          \* splitMix64 of an event id
    Bin                \* the bin of a value

ASSUME LatencyAssumption ==
    /\ HourTicks \in Nat \ {0} /\ HourRetention \in Nat /\ DayRetention \in Nat \ {0}
    /\ MaxSamplePoints \in Nat \ {0}
    /\ \A i \in DOMAIN Priority : Priority[i] \in Nat

\* localHourStart.
StartOfLocalHour(z, t) == t - (Wall(z, t) % HourTicks)
LatencyBucket(z, grain, t) == IF grain = "hour" THEN StartOfLocalHour(z, t) ELSE StartOfDate(z, t)

\* RetentionBucketStartCutoff.
LatencyCutoff(z, grain, now) ==
    IF grain = "hour" THEN StartOfLocalHour(z, now - HourRetention)
    ELSE AddDays(z, StartOfDate(z, now), -(DayRetention - 1))

\* The events that BuildRows does not skip.
Measured(e) == ~e.failed /\ e.ttft > 0 /\ e.latency > 0

\* samplePointLess and the trimming to the points that come first in it.
Point(e) == [id |-> e.id, priority |-> Priority[e.id], ttft |-> e.ttft, latency |-> e.latency]
PointLess(p, q) == p.priority < q.priority \/ (p.priority = q.priority /\ p.id < q.id)
FirstPoints(points) == {p \in points : Cardinality({q \in points : PointLess(q, p)}) < MaxSamplePoints}

\* Sketch.Add of a field of some events.
Sketch(events, field) ==
    [b \in {Bin[e[field]] : e \in events} |-> Cardinality({e \in events : Bin[e[field]] = b})]

\* Sketch.P95: the first bin up to which 95 percent of the values lie.
P95(sketch) ==
    LET rank == (95 * BagCardinality(sketch) + 99) \div 100
        UpTo(b) == MapThenSumSet(LAMBDA c : sketch[c], {c \in DOMAIN sketch : c <= b})
    IN IF sketch = EmptyBag THEN NoTime ELSE Min({b \in DOMAIN sketch : UpTo(b) >= rank})

\* aggregateRowBuilder.add for the events of a bucket.
LatencyRow(events) ==
    [count |-> Cardinality(events),
     maxTTFT |-> Max({e.ttft : e \in events}), maxLatency |-> Max({e.latency : e \in events}),
     ttft |-> Sketch(events, "ttft"), latency |-> Sketch(events, "latency"),
     points |-> FirstPoints({Point(e) : e \in events})]

\* latency.BuildRows of a page.
BuildLatency(z, events, now) ==
    LET Key(g, e) == <<e.inst, g, LatencyBucket(z, g, e.at), APIGroup(e.key)>>
        kept == {x \in {"hour", "day"} \X {e \in events : Measured(e)} :
                   LatencyBucket(z, x[1], x[2].at) >= LatencyCutoff(z, x[1], now)}
    IN [k \in {Key(x[1], x[2]) : x \in kept} |->
          LatencyRow({x[2] : x \in {y \in kept : Key(y[1], y[2]) = k}})]

\* QuerySketchMerger, and QuerySampleMerger, for two encoded parts.
MergedSketch(a, b) == a (+) b
MergedPoints(a, b) == FirstPoints(a \cup b)

\* mergeLatencyRows.
MergedRow(a, b) ==
    [count |-> a.count + b.count,
     maxTTFT |-> Max({a.maxTTFT, b.maxTTFT}), maxLatency |-> Max({a.maxLatency, b.maxLatency}),
     ttft |-> MergedSketch(a.ttft, b.ttft), latency |-> MergedSketch(a.latency, b.latency),
     points |-> MergedPoints(a.points, b.points)]

\* MergeDiagnosticsRows.
NoRow == [count |-> 0, maxTTFT |-> 0, maxLatency |-> 0, ttft |-> EmptyBag, latency |-> EmptyBag, points |-> {}]
MergedRows(rows) == FoldFunction(MergedRow, NoRow, rows)

\* decodeLatencyRow: a row whose parts disagree is refused.
Readable(row) ==
    /\ row.maxTTFT > 0 /\ row.maxLatency > 0
    /\ BagCardinality(row.ttft) = row.count /\ BagCardinality(row.latency) = row.count
    /\ Cardinality(row.points) <= row.count

\* PrepareRows and WritePreparedRows: nothing is written when two of the rows
\* have one key, or a row cannot be read.
StoreLatency(stored, rows) ==
    LET From(k) == {r \in DOMAIN rows : StoredKey(r) = k}
        keys == {StoredKey(r) : r \in DOMAIN rows}
        fails == \/ \E k \in keys : Cardinality(From(k)) > 1
                 \/ \E r \in DOMAIN rows : ~Readable(rows[r])
                 \/ \E k \in keys \cap DOMAIN stored : ~Readable(stored[k])
    IN IF fails THEN stored
       ELSE [k \in keys |->
               LET new == rows[CHOOSE r \in From(k) : TRUE]
               IN IF k \in DOMAIN stored THEN MergedRow(stored[k], new) ELSE new] @@ stored

\* CleanupUsageLatencyStatsForInstance, which compares the stored text.
CleanupLatency(z, stored, inst, now) ==
    [k \in {x \in DOMAIN stored :
              x[1] = inst => ~Before(Text(z, x[3]), Text(z, LatencyCutoff(z, x[2], now)))} |-> stored[k]]

\* latencyBucketRead and its query: by the order of the text, or by the text of
\* every bucket where the offset changes.
SelectsLatency(z, w, grain, bucket) ==
    LET days == {DayBounds(z, d).start :
                   d \in {x \in DateOf(z, w.start)..DateOf(z, w.end) : DayExists(z, x)}}
        buckets == IF grain = "day"
                   THEN {StartOfDate(z, t) : t \in {x \in days : w.start <= x /\ x < w.end}}
                   ELSE {h \in {StartOfLocalHour(z, t) : t \in w.start..(w.end - 1)} : h >= w.start}
    IN IF StableOffset(z, w.start, w.end)
       THEN AtMost(Text(z, w.start), Text(z, bucket)) /\ Before(Text(z, bucket), Text(z, w.end))
       ELSE Text(z, bucket) \in {Text(z, b) : b \in buckets}

\* What is answered without rows, and when one of them cannot be read.
NoLatency == [total |-> 0, points |-> {}, sampled |-> FALSE, maxTTFT |-> 0, maxLatency |-> 0,
              p95TTFT |-> NoTime, p95Latency |-> NoTime]
LatencyFails == [NoLatency EXCEPT !.total = -1]

\* BuildAnalysisLatencyDiagnosticsWithFilter over an aligned window.  There
\* is no rollup by provider.
Diagnosis(z, stored, w, grain, s) ==
    LET found == {k \in DOMAIN stored : /\ k[2] = grain /\ SelectsLatency(z, w, grain, k[3])
                                       /\ InstanceInScope(s, k[1]) /\ KeyInScope(s, k[4])}
        all == MergedRows([k \in found |-> stored[k]])
    IN CASE w.end <= w.start \/ s.providers # NoScope -> NoLatency
         [] \E k \in found : ~Readable(stored[k]) -> LatencyFails
         [] OTHER -> [total |-> all.count, points |-> all.points,
                      sampled |-> all.count > Cardinality(all.points),
                      maxTTFT |-> all.maxTTFT, maxLatency |-> all.maxLatency,
                      p95TTFT |-> P95(all.ttft), p95Latency |-> P95(all.latency)]
=============================================================================
