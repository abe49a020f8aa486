---------------------------- MODULE UsageAnalyses ----------------------------
(***************************************************************************)
(* What the realtime panel and the analysis page show of the rows read.    *)
(*                                                                         *)
(* The realtime panel: the events of the last 15, 30 or 60 minutes in 30   *)
(* buckets, each point of a curve the sum of the buckets that end with it, *)
(* the totals of the window, the leading models, keys and identities, the  *)
(* speed of each model in the two halves, and a sample of latencies.       *)
(* A time is in seconds, an event is                                       *)
(*   [at, failed, model, key, inst, auth, kind, label, tokens, priced,     *)
(*    timed, measured]                                                     *)
(* where kind and label are the identity fallback, priced says that the    *)
(* stored cost is known, timed that it has a TTFT and a latency and was    *)
(* generated, and measured that it has output tokens and a latency.        *)
(*                                                                         *)
(* The analysis page: which rollup buckets a range reads, for its charts   *)
(* and for its latencies, and how the rows that were read are spread over  *)
(* times, keys, models, credentials and providers.  A range is             *)
(* [kind, start, end] with kind one of today, yesterday, hours and days    *)
(* (rolling), customDay and customHour.  A row is                          *)
(* [bucket, inst, key, model, auth, requests, tokens, priced, samples].    *)
(***************************************************************************)
EXTENDS UsageClock, SequencesExt, FiniteSetsExt, Functions

CONSTANTS
    VisibleBuckets,   \* usageOverviewRealtimeBucketCount
    TopCount,         \* leading items before the rest is one item
    NoIdentity        \* an event that belongs to no identity

ASSUME RealtimeAssumption == VisibleBuckets \in Nat \ {0} /\ TopCount \in Nat \ {0}

\* usageOverviewRealtimeWindow: the length of the window and of a bucket.
RealtimeWindow(label) ==
    CASE label = "30m" -> [length |-> 1800, span |-> 60]
      [] label = "60m" -> [length |-> 3600, span |-> 120]
      [] OTHER -> [length |-> 900, span |-> 30]

AggregationWindow(length) ==
    CASE length = 1800 -> 300 [] length = 3600 -> 600 [] OTHER -> 180

AggregationBuckets(span, window) ==
    IF span <= 0 \/ window <= 0 THEN 1 ELSE (window + span - 1) \div span

WarmupBuckets(n) == IF n <= 1 THEN 0 ELSE n - 1

\* The window that ends at `end`, with the hidden buckets to its left.
RealtimePlan(label, end) ==
    LET w == RealtimeWindow(label)
        rolled == AggregationBuckets(w.span, AggregationWindow(w.length))
        start == end - w.length
    IN [start |-> start, end |-> end, span |-> w.span, rolled |-> rolled,
        readStart |-> start - WarmupBuckets(rolled) * w.span,
        warmup |-> WarmupBuckets(rolled), count |-> VisibleBuckets + WarmupBuckets(rolled)]

\* Both sources of events, the cache and usage_events, read this half-open range.
RealtimeRead(events, plan) ==
    SelectSeq(events, LAMBDA e : plan.readStart <= e.at /\ e.at < plan.end)

\* usageOverviewRealtimeBucketIndex, counted from 0; -1 for none.
BucketIndex(at, plan) ==
    IF at < plan.readStart THEN -1
    ELSE LET i == (at - plan.readStart) \div plan.span
         IN IF i >= plan.count THEN plan.count - 1 ELSE i

Visible(e, plan) == e.at >= plan.start
Tokened(e) == ~e.failed /\ e.tokens > 0

SumOver(events, S, value(_)) == MapThenSumSet(LAMBDA i : value(events[i]), S)

\* The accumulator of a set of events: requests count whatever became of
\* them, tokens and cost only when the request succeeded with tokens.
Accumulated(events, S) ==
    [requests |-> Cardinality(S),
     failures |-> Cardinality({i \in S : events[i].failed}),
     tokens |-> SumOver(events, {i \in S : Tokened(events[i])}, LAMBDA e : e.tokens),
     priced |-> \A i \in S : Tokened(events[i]) => events[i].priced]

BucketOfEvents(events, plan, b) ==
    Accumulated(events, {i \in DOMAIN events : BucketIndex(events[i].at, plan) = b})

Added(a, b) == [requests |-> a.requests + b.requests, failures |-> a.failures + b.failures,
                tokens |-> a.tokens + b.tokens, priced |-> a.priced /\ b.priced]

Empty == [requests |-> 0, failures |-> 0, tokens |-> 0, priced |-> TRUE]

\* aggregateUsageOverviewRealtimeBucket.
Rolled(buckets, i, n) ==
    LET first == IF i - n + 1 < 0 THEN 0 ELSE i - n + 1
    IN FoldFunctionOnSet(Added, Empty, buckets, first..i)

\* buildRealtimeInsights: the visible buckets once each.
Insights(buckets, plan) ==
    FoldFunctionOnSet(Added, Empty, buckets, plan.warmup..(plan.count - 1))

-----------------------------------------------------------------------------
(* Leading items.                                                          *)

\* analysisIdentityKey: rows without an instance belong to the legacy one.
IdentityKey(inst, identity) == <<IF inst = "" THEN "legacy-default" ELSE inst, identity>>

\* usageRecentIdentityFallback, by the normalised auth_type.
IdentityFallback(authType, source, provider) ==
    CASE authType = "oauth" -> <<"credential", source>>
      [] authType = "apikey" -> <<"provider", provider>>
      [] OTHER -> <<"unknown", "">>

\* usageOverviewRealtimeIdentityTargets: a known identity, the credential
\* first; else the fallback under the auth index or, without one, its label.
IdentityTarget(e, lookup) ==
    LET known == {k \in {"credential", "provider"} :
                    e.auth # "" /\ IdentityKey(e.inst, e.auth) \in lookup[k]}
        key == IF e.auth # "" THEN e.auth ELSE e.label
    IN IF "credential" \in known THEN <<"credential", IdentityKey(e.inst, e.auth)>>
       ELSE IF "provider" \in known THEN <<"provider", IdentityKey(e.inst, e.auth)>>
       ELSE IF key = "" \/ e.kind = "unknown" THEN NoIdentity
       ELSE <<e.kind, IdentityKey(e.inst, key)>>

\* applyUsageOverviewRealtimeRequest and ...TokenUsage for one dimension, by
\* the key the dimension gives an event.
DimensionTotals(events, plan, KeyOf(_)) ==
    LET seen == {i \in DOMAIN events : Visible(events[i], plan) /\ KeyOf(events[i]) # NoIdentity}
    IN [k \in {KeyOf(events[i]) : i \in seen} |->
            Accumulated(events, {i \in seen : KeyOf(events[i]) = k})]

ModelTotals(events, plan) == DimensionTotals(events, plan, LAMBDA e : e.model)
IdentityTotals(events, plan, lookup) ==
    DimensionTotals(events, plan, LAMBDA e : IdentityTarget(e, lookup))

\* finalizeUsageOverviewRealtimeTopItems.  Equal tokens are in the order of
\* their keys, which decides only who is shown.
TopItems(totals) ==
    LET order == SetToSortSeq({k \in DOMAIN totals : totals[k].tokens > 0},
                              LAMBDA a, b : totals[a].tokens > totals[b].tokens)
        shown == IF Len(order) > TopCount THEN SubSeq(order, 1, TopCount) ELSE order
        rest == {order[i] : i \in (Len(shown) + 1)..Len(order)}
        items == [i \in DOMAIN shown |-> totals[shown[i]]]
    IN IF rest = {} THEN items
       ELSE Append(items, FoldFunctionOnSet(Added, Empty, totals, rest))

-----------------------------------------------------------------------------
(* Latencies and speeds.                                                   *)

\* usageOverviewRealtimeScatterPointRange: part i of n points in `max` parts.
ScatterRange(i, n, max) ==
    IF max <= 0 THEN [first |-> 0, last |-> 0]
    ELSE [first |-> (i * n) \div max, last |-> ((i + 1) * n) \div max]

\* usageOverviewRealtimeSortedPercentile: the place of the 95th percentile
\* in n sorted values, from 0.
P95Index(n) ==
    LET i == ((95 * n) + 99) \div 100 - 1
    IN IF i < 0 THEN 0 ELSE IF i >= n THEN n - 1 ELSE i

\* buildUsageOverviewRealtimeLatencyScatter: places of the points it keeps.
ScatterPoints(n, max) ==
    IF n <= max THEN [i \in 1..n |-> i - 1]
    ELSE [i \in 1..max |-> LET r == ScatterRange(i - 1, n, max)
                           IN r.first + (r.last - r.first) \div 2]

\* realtimeModelSpeedAccumulator.add: the samples of a model in each half.
SpeedSamples(events, plan, model, half) ==
    LET mid == plan.start + (plan.end - plan.start) \div 2
    IN {i \in DOMAIN events :
          LET e == events[i]
          IN /\ e.model = model /\ e.measured /\ Visible(e, plan) /\ e.at < plan.end
             /\ half = (IF e.at < mid THEN 1 ELSE 2)}
-----------------------------------------------------------------------------
(* The analysis page.                                                      *)

CONSTANTS
    HourLength,      \* ticks per hour
    SpeedBuckets     \* analysisModelSpeedMaxBuckets

ASSUME AnalysesAssumption ==
    HourLength \in Nat \ {0} /\ SpeedBuckets \in Nat \ {0} /\ DayLength % HourLength = 0

HourOf(t) == t - (t % HourLength)
HourUp(t) == IF HourOf(t) = t THEN t ELSE HourOf(t) + HourLength
LocalHourUp(z, t) ==
    LET w == Wall(z, t) IN IF w % HourLength = 0 THEN t ELSE t - (w % HourLength) + HourLength

\* computeWindowMinutes > 24*60; EndTime of a day that is over is its last tick.
LongerThanDay(r) == r.end - r.start > DayLength

\* analysisUsesDailyStats.
UsesDailyStats(z, r) ==
    LET day == DayBounds(z, DateOf(z, r.start))
        wholeHours == day.start = HourOf(day.start) /\ day.end = HourOf(day.end)
    IN CASE r.kind = "customDay" -> TRUE
         [] r.kind = "customHour" -> FALSE
         [] r.kind \in {"today", "yesterday"} -> LongerThanDay(r) /\ ~wholeHours
         [] OTHER -> LongerThanDay(r)

\* analysisRollingDayWindow.
RollingDayWindow(z, r) ==
    [start |-> DayBounds(z, DateOf(z, r.start)).start, end |-> DayBounds(z, DateOf(z, r.end)).end]

\* usageOverviewFullHourWindow.
FullHourWindow(r) ==
    LET from == HourUp(r.start)
    IN [start |-> from, end |-> IF HourOf(r.end) < from THEN from ELSE HourOf(r.end)]

\* analysisHourlyStatsEnd.
HourlyStatsEnd(z, r) ==
    LET full == FullHourWindow(r).end
        day == DayBounds(z, DateOf(z, r.start)).end
    IN CASE r.kind \in {"hours", "days"} -> IF r.end > full THEN full + HourLength ELSE full
         [] r.kind \in {"today", "yesterday"} -> IF day > full THEN day ELSE full
         [] OTHER -> full

\* BuildAnalysisWithFilter: grain and window of the rows it loads.
AnalysisWindow(z, r) ==
    IF UsesDailyStats(z, r)
    THEN [grain |-> "day",
          window |-> IF r.kind = "days" THEN RollingDayWindow(z, r)
                     ELSE [start |-> r.start, end |-> r.end]]
    ELSE [grain |-> "hour",
          window |-> [start |-> FullHourWindow(r).start, end |-> HourlyStatsEnd(z, r)]]

\* analysisLatencyBucketType.
LatencyGrain(r) ==
    CASE r.kind = "customDay" -> "day"
      [] r.kind \in {"today", "yesterday"} \/ ~LongerThanDay(r) -> "hour"
      [] OTHER -> "day"

\* alignAnalysisLatencyBucketEnd.
LatencyAlign(z, t, grain) ==
    IF grain = "hour" THEN LocalHourUp(z, t)
    ELSE LET day == DayBounds(z, DateOf(z, t)) IN IF t = day.start THEN t ELSE day.end

\* BuildAnalysisLatencyDiagnosticsWithFilter: grain and window of the rows.
LatencyWindow(z, r) ==
    LET grain == LatencyGrain(r)
    IN [grain |-> grain,
        window |-> IF grain = "day" /\ r.kind # "customDay" THEN RollingDayWindow(z, r)
                   ELSE [start |-> LatencyAlign(z, r.start, grain),
                         end |-> LatencyAlign(z, r.end, grain)]]

-----------------------------------------------------------------------------
(* The rows.                                                               *)

\* stripProviderPrefix and ResolveModelName: a prefixed model counts under its
\* bare name when that is priced and the prefixed one is not priced otherwise.
\* prices maps registered names to their billing; bare maps prefixed names.
ResolvedModel(m, bare, prices) ==
    IF m \notin DOMAIN bare THEN m
    ELSE IF bare[m] \notin DOMAIN prices THEN m
    ELSE IF m \in DOMAIN prices /\ prices[m] # prices[bare[m]] THEN m
    ELSE bare[m]

RowTotals(rows, S) ==
    [requests |-> SumOver(rows, S, LAMBDA w : w.requests),
     tokens |-> SumOver(rows, S, LAMBDA w : w.tokens),
     priced |-> \A i \in S : rows[i].priced]

Grouped(rows, S, KeyOf(_)) ==
    [k \in {KeyOf(rows[i]) : i \in S} |-> RowTotals(rows, {i \in S : KeyOf(rows[i]) = k})]

\* applyAnalysisRow: a row counts once in every table.
ApplyRows(rows, bare, prices) ==
    LET all == DOMAIN rows
        Name(w) == ResolvedModel(w.model, bare, prices)
    IN [buckets |-> Grouped(rows, all, LAMBDA w : w.bucket),
        modelUsage |-> Grouped(rows, all, LAMBDA w : <<w.bucket, Name(w)>>),
        keys |-> Grouped(rows, all, LAMBDA w : IdentityKey(w.inst, w.key)),
        models |-> Grouped(rows, all, LAMBDA w : Name(w)),
        heatmap |-> Grouped(rows, all, LAMBDA w : <<w.inst, w.key, Name(w)>>)]

\* applyAnalysisIdentityComposition for credentials or AI providers: only
\* identities that are known.
IdentityRows(rows, lookup, kind) ==
    LET known == {i \in DOMAIN rows :
                    /\ rows[i].auth # ""
                    /\ IdentityKey(rows[i].inst, rows[i].auth) \in DOMAIN lookup[kind]}
    IN Grouped(rows, known, LAMBDA w : IdentityKey(w.inst, w.auth))

\* ... and its provider: of the first known identity that names one.
ProviderOf(row, lookup) ==
    LET k == IdentityKey(row.inst, row.auth)
        Names(kind) == row.auth # "" /\ k \in DOMAIN lookup[kind] /\ lookup[kind][k] # ""
    IN IF Names("credential") THEN lookup["credential"][k]
       ELSE IF Names("provider") THEN lookup["provider"][k] ELSE NoIdentity
ProviderRows(rows, lookup) ==
    Grouped(rows, {i \in DOMAIN rows : ProviderOf(rows[i], lookup) # NoIdentity},
            LAMBDA w : ProviderOf(w, lookup))

-----------------------------------------------------------------------------
(* Speeds.                                                                 *)

\* The source buckets of a window: its hours, or its days as far as they exist.
SpeedBoundaries(z, w, grain) ==
    LET days == {DayBounds(z, d).start : 
                    d \in {x \in DateOf(z, w.start)..DateOf(z, w.end) : DayExists(z, x)}}
        inner == IF grain = "day" THEN {t \in days : w.start <= t /\ t < w.end}
                 ELSE {t \in w.start..(w.end - 1) : (t - w.start) % HourLength = 0}
        last == IF grain = "day" \/ (w.end - w.start) % HourLength = 0 THEN w.end
                ELSE w.end + HourLength - ((w.end - w.start) % HourLength)
    IN SetToSortSeq(inner \cup {last}, <)

\* newAnalysisModelSpeed: at most SpeedBuckets groups, the larger ones first.
SpeedGroups(bounds) ==
    LET count == Len(bounds) - 1
        n == IF count < SpeedBuckets THEN count ELSE SpeedBuckets
        First(i) == i * (count \div n) + (IF i < count % n THEN i ELSE count % n)
        Size(i) == count \div n + (IF i < count % n THEN 1 ELSE 0)
    IN [i \in 1..n |-> [start |-> bounds[First(i - 1) + 1],
                        end |-> bounds[First(i - 1) + Size(i - 1) + 1]]]

\* analysisModelSpeedAccumulator.add: the groups a row's bucket falls into.
SpeedGroupOf(groups, bucket) ==
    {i \in DOMAIN groups : groups[i].start <= bucket /\ bucket < groups[i].end}
=============================================================================
