---------------------------- MODULE MCAlgorithms ----------------------------
(***************************************************************************)
(* The pure algorithms for TLC.  A state is one input of one algorithm; a  *)
(* property compares what the code computes from it with what it is meant  *)
(* to compute.                                                             *)
(***************************************************************************)
EXTENDS UsageAnalyses, TokenRules, QuotaWindows, UsageRollups,
        PricingCatalogue

CONSTANTS
    Offsets,      \* offsets a zone may have
    Changes,      \* instants at which it may change them
    ReadFrom,     \* first instant of a range
    ReadTo,       \* last instant of a range
    Horizon       \* instants rows may have: 0..Horizon

VARIABLE in

Beginning == -1000
Zones == {<<[from |-> Beginning, offset |-> o]>> : o \in Offsets}
         \cup {<<[from |-> Beginning, offset |-> x[1]], [from |-> x[2], offset |-> x[3]]>> :
                 x \in {y \in Offsets \X Changes \X Offsets : y[1] # y[3]}}

Instants == 0..Horizon

\* Three days; a day more than the medium and the long window.
ScaledRetentions == [short |-> 24, medium |-> 24, long |-> 32]

Clock ==
    \E z \in Zones, a \in ReadFrom..ReadTo, b \in ReadFrom..ReadTo, c \in BOOLEAN :
        /\ a <= b
        /\ in' = [scene |-> "clock", z |-> z, a |-> a, b |-> b, closed |-> c]

\* Ranges as the API makes them of a moment `now`.
RangesAt(z, now) ==
    LET day == DayBounds(z, DateOf(z, now))
        hour == now - (Wall(z, now) % HourLength)
    IN {[kind |-> "today", start |-> day.start, end |-> day.end - 1],
        [kind |-> "hours", start |-> now - 2 * HourLength, end |-> now],
        [kind |-> "hours", start |-> now - DayLength, end |-> now],
        [kind |-> "days", start |-> now - 2 * DayLength, end |-> now],
        [kind |-> "customHour", start |-> hour - HourLength, end |-> hour + HourLength],
        [kind |-> "customDay", start |-> day.start, end |-> day.end]}

Range1 ==
    \E z \in Zones, n \in ReadFrom..ReadTo :
        \E r \in RangesAt(z, n) : in' = [scene |-> "range", z |-> z, now |-> n, r |-> r]

RealtimeEvents ==
    {[at |-> t, failed |-> f, model |-> m, key |-> "k", inst |-> "", auth |-> a, kind |-> k[1],
      label |-> k[2], tokens |-> n, priced |-> n # 2, timed |-> TRUE, measured |-> TRUE] :
        t \in {3100, 3600, 5150, 6870, 6989, 6999}, f \in {FALSE}, m \in {"m1", "m2"}, a \in {"", "a1"},
        k \in {IdentityFallback(x, "source", "provider") : x \in {"oauth", "other"}}, n \in {0, 2}}
Realtime ==
    \E l \in {"15m", "60m"}, e \in RealtimeEvents, f \in {x \in RealtimeEvents : x.at = 6989 /\ x.tokens = 2} :
        in' = [scene |-> "realtime", label |-> l, events |-> <<e, f>>]

AnalysisRows ==
    {[bucket |-> 0, inst |-> i, key |-> "k", model |-> m, auth |-> a, requests |-> 1,
      tokens |-> n, priced |-> n = 1] :
        i \in {"", "i1"}, m \in {"m1", "x/m1", "m2"}, a \in {"", "a1", "a2"}, n \in {1, 3}}
Rows ==
    \E w \in AnalysisRows, v \in AnalysisRows,
       p \in {<<>>, [m \in {"m1"} |-> 1], [m \in {"m1", "x/m1"} |-> Len(m)]} :
        in' = [scene |-> "rows", rows |-> <<w, v>>, prices |-> p]
Known == [credential |-> [k \in {<<"i1", "a1">>} |-> ""],
          provider |-> [k \in {<<"i1", "a1">>, <<"legacy-default", "a2">>} |-> "p"]]

Routes == {<<"claudeexecutor", "">>, <<"geminiexecutor", "codex">>, <<"codexexecutor", "">>,
           <<"metaexecutor", "">>, <<"kimiexecutor", "">>, <<"openaicompatexecutor", "">>,
           <<"", "claude">>, <<"", "gemini">>, <<"new", "codex">>, <<"", "openai">>, <<"", "">>}
Small == {-1, 0, 1, 3}
Reported ==
    \E x \in Routes, i \in Small, o \in Small, g \in Small, c \in 0..1, r \in Small, w \in 0..1,
       t \in Small, p \in BOOLEAN :
        /\ r # 0 => p
        /\ in' = [scene |-> "tokens", route |-> x,
                 v |-> [input |-> i, output |-> o, reasoning |-> g, cached |-> c, read |-> r,
                        creation |-> w, total |-> t, present |-> p]]

\* What was really used, and the shapes in which CPA's parsers report it.
Uses == [uncached : 0..1, read : 0..1, write : 0..1, visible : 0..1, reasoning : 0..1]
Truth == \E u \in Uses, x \in Routes : in' = [scene |-> "truth", use |-> u, route |-> x]

-----------------------------------------------------------------------------
(* Quota answers: what is true, and the ways in which it may be written.   *)

Raw1(tag, val) == [tag |-> tag, val |-> val]
\* A number under the first spelling, under the second behind a null, as text, or left out.
Writings == {"plain", "second", "text"}
Field(f, how, n) ==
    CASE how = "plain" -> <<f, 1>> :> Raw1("number", n)
      [] how = "second" -> (<<f, 1>> :> Raw1("null", "")) @@ (<<f, 2>> :> Raw1("number", n))
      [] how = "text" -> <<f, 1>> :> Raw1("numeral", n)
      [] OTHER -> <<>>
Flagged(f, b) == IF b = NoValue THEN <<>> ELSE <<f, 1>> :> Raw1("bool", b)
Holding(f, o) == <<f, 1>> :> Raw1("object", o)
Listing(f, s) == <<f, 1>> :> Raw1("array", [k \in DOMAIN s |-> Raw1("object", s[k])])

XAI ==
    \E t \in 0..4, l \in 0..2, c \in 0..2, w \in {NoValue, 99, 100}, h \in Writings,
       b \in BOOLEAN, p \in BOOLEAN :
        in' = [scene |-> "xai", total |-> t, limit |-> l, cap |-> c, weekly |-> w, how |-> h,
              wrapped |-> b, paid |-> p]
Kimi ==
    \E u \in 0..3, l \in 1..2, h \in Writings, b \in BOOLEAN,
       g \in {{"used", "limit", "remaining"}, {"limit", "remaining"}, {"used", "limit"}} :
        in' = [scene |-> "kimi", used |-> u, limit |-> l, how |-> h, given |-> g, inner |-> b]
Codex ==
    \E p \in {0, 99, 100}, s \in {FiveHours, Week, 120}, t \in {NoValue, 7}, a \in {NoValue, 0, 5},
       h \in Writings, r \in {NoValue, TRUE, FALSE}, x \in {"", "premium", "spark"} :
        in' = [scene |-> "codex", percent |-> p, seconds |-> s, at |-> t, after |-> a, how |-> h,
              reached |-> r, active |-> x]
\* Claude: two windows and the extra usage, in each place of the response.
Claude ==
    \E p \in {NoValue, 99, 100}, q \in {0, 100}, x \in {NoValue, 0, 100}, h \in Writings,
       f \in {"five_hour", "seven_day_opus", "iguana_necktie"}, v \in {"body", "bodyText", "text"} :
        in' = [scene |-> "claude", first |-> p, week |-> q, extra |-> x, how |-> h, window |-> f, via |-> v]
\* Antigravity: two groups, each with a window of five hours and one of a week.
Antigravity ==
    \E a \in [1..4 -> {NoValue, 0, 30}], h \in Writings, b \in BOOLEAN, n \in {{"gemini", "pro"}, {"tab"}} :
        in' = [scene |-> "antigravity", left |-> a, how |-> h, wrapped |-> b, name |-> n]
Gemini ==
    \E m \in {0, 5}, f \in {0, 50}, g \in {{"amount", "fraction"}, {"amount"}, {"fraction"}} :
        in' = [scene |-> "gemini", amount |-> m, fraction |-> f, given |-> g]

WindowNow == 200 * Hour + 1200
WindowInstants(reset) ==
    LET up == WholeHour(reset - Week) + Hour
        low == WholeHour(WindowNow) - Hour
    IN {reset - Week - 1, reset - Week, up - 1, up, low - 1, low, low + Hour - 1, low + Hour,
        WindowNow - 1, WindowNow}
WindowEvents(reset) ==
    {e \in [at : WindowInstants(reset), family : {"gemini", "other"}, tokens : {2}, cost : {1, NoValue},
            priced : BOOLEAN, rolled : BOOLEAN, id : 1..2] :
       /\ e.at < WholeHour(WindowNow) - Hour => e.rolled
       /\ e.cost = NoValue => e.priced}
WindowRows(reset) ==
    {[Row("r", "window") EXCEPT !.at = reset, !.seconds = Week],
     [Row("r", "window") EXCEPT !.at = reset, !.seconds = FiveHours],
     [Row("r", "quota_group") EXCEPT !.at = reset, !.seconds = Week, !.group = "gemini"]}
Windows ==
    \E x \in {WindowNow + 2 * Hour, WindowNow + 2 * Hour + 600} :
        \E r \in WindowRows(x), e \in {y \in WindowEvents(x) : y.id = 1},
           f \in {y \in WindowEvents(x) : y.id = 2 /\ y.family = "gemini"} :
            in' = [scene |-> "window", row |-> r, reset |-> x, events |-> {e, f}]

\* The percent falls from 90 to 80 one instant after the cycle begins, to 70
\* another two later.
EfficiencyCycle(id, start, reset, observed) ==
    [id |-> id, role |-> "primary", start |-> start, reset |-> reset, observed |-> observed,
     segments |-> <<[percent |-> 90, first |-> start], [percent |-> 80, first |-> start + 1],
                    [percent |-> 70, first |-> start + 3]>>]
Spans == {<<0, 4>>, <<0, 6>>, <<1, 5>>, <<2, 3>>, <<2, 7>>, <<4, 8>>}
Efficiency ==
    \E a \in Spans, b \in Spans, c \in Spans, n \in {3, 6}, e \in [1..3 -> {1, 3, 4, 5}] :
        in' = [scene |-> "efficiency", now |-> n, events |-> e,
              cycles |-> {EfficiencyCycle(1, a[1], a[2], 1), EfficiencyCycle(2, b[1], b[2], 2),
                          EfficiencyCycle(3, c[1], c[2], 3)}]

Schedule ==
    \E z \in Zones, a \in ReadFrom..ReadTo,
       s \in {[unit |-> "day", value |-> 1], [unit |-> "day", value |-> 3], [unit |-> "hour", value |-> 2]}
              \cup {[unit |-> "week", value |-> n] : n \in {1, 4, 7}} :
        in' = [scene |-> "schedule", z |-> z, anchor |-> a, s |-> s]

\* Two events, aggregated on two pages; the second page and the cleanup come
\* at the time of the request.
ClearMidnights(z) ==
    \A d \in 3..7 : Cardinality({t \in Instants : Wall(z, t) = d * DayLength}) = 1
LongDays(z) == \A i, j \in DOMAIN z : z[i].offset - z[j].offset < HourLength
Heat ==
    \E z \in {x \in Zones : LongDays(x) /\ ClearMidnights(x)}, q \in {36, 38, 41, 43, 44},
       a \in {12, 15, 20} \cup 26..42, b \in {33, 35}, g \in {0, 7}, k \in {"k1", ""} :
        /\ a < q /\ (k = "k1" <=> g = 0)
        /\ in' = [scene |-> "heat", z |-> z, now |-> q, first |-> Max({a, q - g}),
                 events |-> <<[id |-> 1, at |-> a, inst |-> "", key |-> "k1", provider |-> "p", auth |-> "a1",
                              failed |-> FALSE],
                             [id |-> 2, at |-> b, inst |-> IF g = 0 THEN "legacy-default" ELSE "i2", key |-> k,
                              provider |-> "q", auth |-> "a2", failed |-> g # 0]>>]

\* Three events on two pages, and a range as the API makes it of the time of
\* the second page.
SamplePriority == <<3, 1, 2>>
SampleBin == [v \in 1..50 |-> v \div 3]
LatencyEvents(a, b, c, x, k) ==
    <<[id |-> 1, at |-> a, inst |-> "", key |-> "k1", provider |-> "p", failed |-> FALSE, ttft |-> x, latency |-> 6],
      [id |-> 2, at |-> b, inst |-> IF k = "k1" THEN "" ELSE "i2", key |-> k, provider |-> "p",
       failed |-> k = "k2", ttft |-> 3, latency |-> 4],
      [id |-> 3, at |-> c, inst |-> "", key |-> "k1", provider |-> "q", failed |-> FALSE, ttft |-> 2, latency |-> 9]>>
\* Zones in which an hour is skipped or repeated.
HourZones == {<<[from |-> Beginning, offset |-> HourLength - o], [from |-> x, offset |-> o]>> :
                o \in {0, HourLength}, x \in Changes}
Latency ==
    \E z \in {x \in HourZones : ClearMidnights(x)}, n \in {36, 44}, a \in {18, 31, 34, 35, 43}, b \in {1, 5},
       c \in {3, 10}, g \in {0, 7}, x \in {0, 5}, k \in {"k1", "", "k2"} :
        /\ a < n /\ (k # "k1" => x = 5)
        /\ \E r \in RangesAt(z, n) :
             in' = [scene |-> "latency", z |-> z, now |-> n, r |-> r, first |-> Max({a, n - c, n - g}),
                   events |-> LatencyEvents(a, n - b, n - c, x, k)]

\* One event of a legacy database with every combination of counts, and a
\* second one behind it; what cleanup has deleted is still in the rollups.
Index(p) == [name |-> "a", padded |-> p]
LegacyEvent(a, p, x, n) ==
    [auth |-> a, index |-> Index(p), provider |-> x, input |-> n[1], output |-> n[2], reasoning |-> n[3],
     cached |-> n[4], read |-> n[5], creation |-> n[6], total |-> n[7]]
Legacy ==
    \E a \in {"oauth", "apikey", "api_key"}, p \in BOOLEAN, x \in {"claude", "gemini", "openai"},
       y \in {"", "claude", "gemini"}, c \in 0..2, g \in {{"claude", "gemini", "cacheRead"}, {"gemini", "cacheRead"}},
       n \in (0..1) \X {1} \X (0..1) \X (0..1) \X (0..1) \X (0..1) \X {0, 3, 4} :
        in' = [scene |-> "legacy", pending |-> g, cursor |-> c,
              types |-> IF y = "" THEN <<>>
                        ELSE [k \in {<<"oauth", Index(FALSE)>>, <<"apikey", Index(FALSE)>>} |-> y],
              events |-> <<LegacyEvent(a, p, x, n), LegacyEvent(a, FALSE, x, <<1, 1, 1, 0, 1, 0, 0>>)>>]

\* Three entries of a catalogue for a Claude model, with and without a prefix.
\* A catalogue has a provider's model id once.
Name(path, style) == [path |-> path, base |-> "claude", style |-> style]
CatalogueEntry(k, x, p, s, c, old) ==
    [order |-> k, provider |-> x, plan |-> x = "zhipuai-coding-plan", id |-> Name(p, s), name |-> Name(<<>>, s),
     price |-> c, deprecated |-> old, updated |-> 1]
Sellers == {"anthropic", "google-vertex-anthropic", "openrouter", "zhipuai-coding-plan"}
Catalogue ==
    \E m \in {Name(<<>>, "plain"), Name(<<"eu">>, "plain")}, x \in Sellers, y \in Sellers \ {"google-vertex-anthropic"},
       z \in {"anthropic", "openrouter"},
       p \in {<<>>, <<"eu">>}, q \in {<<>>, <<"eu">>}, s \in {"plain", "dashed"}, t \in {"plain", "dashed"},
       c \in {NoPrice, 0, 1}, d \in 0..1, o \in BOOLEAN :
        /\ Cardinality({<<x, p, s>>, <<y, q, "plain">>, <<z, <<>>, t>>}) = 3
        /\ in' = [scene |-> "price", model |-> m,
                 entries |-> {CatalogueEntry(1, x, p, s, c, FALSE), CatalogueEntry(2, y, q, "plain", d, o),
                              CatalogueEntry(3, z, <<>>, t, 1, FALSE)}]

\* The algorithm is chosen first, then its input.
Scenes == {"claude", "antigravity", "clock", "range", "realtime", "rows", "tokens", "truth", "xai", "kimi", "codex", "gemini",
           "window", "efficiency", "schedule", "legacy", "price", "heat", "latency"}
Chosen(scene) == in = [scene |-> "chosen", next |-> scene]

InputInit == in = [scene |-> "none"]
Choose == /\ in = [scene |-> "none"]
          /\ \E x \in Scenes : in' = [scene |-> "chosen", next |-> x]
Input ==
    \/ Chosen("clock") /\ Clock
    \/ Chosen("range") /\ Range1
    \/ Chosen("realtime") /\ Realtime
    \/ Chosen("rows") /\ Rows
    \/ Chosen("tokens") /\ Reported
    \/ Chosen("truth") /\ Truth
    \/ Chosen("xai") /\ XAI
    \/ Chosen("claude") /\ Claude
    \/ Chosen("antigravity") /\ Antigravity
    \/ Chosen("kimi") /\ Kimi
    \/ Chosen("codex") /\ Codex
    \/ Chosen("gemini") /\ Gemini
    \/ Chosen("window") /\ Windows
    \/ Chosen("efficiency") /\ Efficiency
    \/ Chosen("schedule") /\ Schedule
    \/ Chosen("legacy") /\ Legacy
    \/ Chosen("price") /\ Catalogue
    \/ Chosen("heat") /\ Heat
    \/ Chosen("latency") /\ Latency

AlgorithmSpec == InputInit /\ [][Choose \/ Input]_in

\* Kimi's and Gemini's answers alone.
SparseSpec == InputInit /\ [][Kimi \/ Gemini]_in

InRange(t) == in.a <= t /\ (t < in.b \/ (in.closed /\ t = in.b))

\* usageEventTimeReads, and the reads of the cache and of hourly buckets:
\* although rows are compared by the text of their local time, every row of
\* a range is read exactly once and no other row is kept, whatever the zone
\* does inside the range.
ReadsExact ==
    (in.scene = "clock" /\ in.a < in.b) =>
        LET reads == EventTimeReads(in.z, in.a, in.b, in.closed)
        IN \A t \in Instants :
             /\ Cardinality({r \in reads : Selects(in.z, r, t) /\ Holds(r, t)})
                  = IF InRange(t) THEN 1 ELSE 0
             /\ InRange(t) => LoadedSince(in.z, in.a, in.b, t)
             /\ (in.a % HourLength = 0 /\ in.b % HourLength = 0 /\ t % HourLength = 0)
                  => (SelectsBucket(in.z, in.a, in.b, t) <=> in.a <= t /\ t < in.b)

\* timeutil.DayBounds: the bounds of a local day hold every instant shown
\* with that date, and begin and end with one.
DaysExact ==
    in.scene = "clock" =>
        LET d == DateOf(in.z, in.a)
            shown == {t \in Instants : DateOf(in.z, t) = d}
            day == DayBounds(in.z, d)
        IN /\ shown \subseteq day.start..(day.end - 1)
           /\ {day.start, day.end - 1} \subseteq shown

\* applyUsageQueryWindow as its comment has it: the window of the event
\* list, compared by text, selects the rows of the window. The text of a
\* whole second in UTC and a clock set back break this; it is not checked by
\* a run.
ListExact ==
    (in.scene = "clock" /\ in.a < in.b) =>
        \A t \in Instants : ListSelects(in.z, in.a, in.b, ~in.closed, t) <=> InRange(t)

\* The realtime blocks: each visible point rolls up exactly the events of
\* the aggregation window that ends at its right edge, the warm-up buckets
\* before the visible range included; the leading items, the rest and the
\* halves of the speed comparison add up to the visible events.
RealtimeExact ==
    in.scene = "realtime" =>
        LET plan == RealtimePlan(in.label, 7000)
            events == RealtimeRead(in.events, plan)
            buckets == [b \in 0..(plan.count - 1) |-> BucketOfEvents(events, plan, b)]
            wide == AggregationWindow(plan.end - plan.start)
            models == ModelTotals(events, plan)
            identities == IdentityTotals(events, plan, [credential |-> {<<"legacy-default", "a1">>}, provider |-> {}])
            whole == Insights(buckets, plan)
            Spent(f) == SumOver(f, DOMAIN f, LAMBDA x : x.tokens)
        IN /\ \A b \in plan.warmup..(plan.count - 1) :
                LET right == plan.readStart + (b + 1) * plan.span
                IN Rolled(buckets, b, plan.rolled)
                     = Accumulated(in.events, {i \in DOMAIN in.events :
                          right - wide <= in.events[i].at /\ in.events[i].at < right})
           /\ Spent(models) = whole.tokens /\ Spent(identities) <= whole.tokens
           /\ \A totals \in {models, identities} :
                /\ Spent(TopItems(totals)) = Spent(totals)
                /\ Len(TopItems(totals)) <= TopCount + 1
           /\ \A m \in DOMAIN models :
                LET halves == [h \in 1..2 |-> SpeedSamples(events, plan, m, h)]
                IN halves[1] \cap halves[2] = {} /\ Cardinality(halves[1] \cup halves[2]) = models[m].requests

\* The scatter plot keeps at most `max` of n points, in order and none twice; the
\* 95th percentile leaves at most a twentieth of the values above it.
SamplesExact ==
    Chosen("realtime") =>
        \A n \in 1..45 :
            /\ \A max \in 1..6 :
                 LET p == ScatterPoints(n, max)
                 IN /\ Len(p) = Min({n, max})
                    /\ \A i \in DOMAIN p : p[i] \in 0..(n - 1) /\ (i > 1 => p[i - 1] < p[i])
            /\ P95Index(n) \in 0..(n - 1) /\ 20 * (n - 1 - P95Index(n)) <= n

\* The shapes in which CPA's parsers report a use: Claude's with the cache
\* beside the input, Gemini's with the reasoning beside the output; behind a
\* Gemini credential or a compatible provider it may be either when there is
\* a total to tell them apart.
Reports(x, u) ==
    LET r == Resolve(x[1], x[2], 0, <<>>)
        claude == r.handler = "claude"
        write == IF claude THEN u.write ELSE 0
        whole == u.uncached + u.read + write + u.visible + u.reasoning
        Beside(t) == IF r.handler = "gemini" /\ (r.strength = "contract" \/ t = 0) THEN {TRUE}
                     ELSE IF r.handler \in {"gemini", "compat"} /\ t > 0 THEN BOOLEAN ELSE {FALSE}
    IN UNION {{[input |-> u.uncached + (IF claude THEN 0 ELSE u.read),
                output |-> u.visible + (IF b THEN 0 ELSE u.reasoning),
                reasoning |-> IF claude THEN 0 ELSE u.reasoning,
                cached |-> u.read, read |-> n, creation |-> write, total |-> t, present |-> n # 0] :
                  n \in IF claude THEN {u.read} ELSE {0, u.read}, b \in Beside(t)} :
              t \in {0, whole}}

\* tokenprocessor: in every shape in which a provider reports a use, the
\* stored input, output, total and cache read counts are those of the use.
TokensCanonical ==
    in.scene = "truth" =>
        \A v \in Reports(in.route, in.use) :
            \A t \in {Process(v, Resolve(in.route[1], in.route[2], v, <<>>), <<>>).tokens} :
                /\ t.input = in.use.uncached + in.use.read + v.creation
                /\ t.output = in.use.visible + in.use.reasoning
                /\ t.total = t.input + t.output
                /\ t.read = in.use.read

\* tokenprocessor on any report, clamped, contradictory or at the limit of
\* the integers: the stored counts stay in range, a reported total is
\* replaced only on the grounds the handlers name, canonical counts add up,
\* and nothing but separate reasoning or cache counts is added to what was
\* reported.
TotalsJustified ==
    in.scene = "tokens" =>
        \A v \in {Clamp(in.v)}, r \in {Resolve(in.route[1], in.route[2], in.v, <<>>)} :
        \A p \in {Process(in.v, r, <<>>)} :
           LET t == p.tokens
           IN
           /\ \A f \in Fields : t[f] \in 0..MaxTokens
           /\ t.total # v.total =>
                /\ v.total = 0 \/ (ClampedFields(in.v) \subseteq {"cached"} /\ t.total = t.input + t.output)
                /\ v.total = 0 \/ r.handler \in {"claude", "gemini", "responses"}
                /\ in.v.total >= 0
           /\ (p.authority = "canonical" /\ p.outcome \notin {"overflow", "ambiguous"})
                => /\ t.total = t.input + t.output
                   /\ t.read + t.creation <= t.input /\ t.reasoning <= t.output
           /\ t.input + t.output > v.input + v.output =>
                t.input + t.output = v.input + v.output
                  + (IF r.handler = "claude" THEN v.read + v.creation ELSE v.reasoning)

WholeHours(z) == \A k \in DOMAIN z : z[k].offset % HourLength = 0
PastBuckets(w, now) == {t \in w.start..(w.end - 1) : t % HourLength = 0 /\ t <= now}

\* usage_analysis_grain.go and the latency ranges: in zones of whole hours
\* both reports of one request read the same past buckets, no complete hour
\* of the request is left out, and the groups of the speed chart hold every
\* bucket once.
RangesAgree ==
    (in.scene = "range" /\ WholeHours(in.z)) =>
        \A read \in {AnalysisWindow(in.z, in.r)}, latency \in {LatencyWindow(in.z, in.r)} :
        \A groups \in {SpeedGroups(SpeedBoundaries(in.z, read.window, read.grain))} :
           /\ read.grain = latency.grain
           /\ PastBuckets(read.window, in.now) = PastBuckets(latency.window, in.now)
           /\ {t \in HourUp(in.r.start)..in.r.end : t <= in.now /\ t < in.r.end}
                \subseteq read.window.start..(read.window.end - 1)
           /\ \A t \in read.window.start..(read.window.end - 1) :
                Cardinality(SpeedGroupOf(groups, t)) = 1

Total(f) == FoldFunction(LAMBDA a, b : <<a.requests + b[1], a.tokens + b[2]>>, <<0, 0>>, f)

\* The compositions of an analysis: each of them adds up to the totals of
\* the rows, a model priced under its bare name is merged under it, and rows
\* are attributed to at most one identity.
CompositionsAgree ==
    in.scene = "rows" =>
        LET bare == [m \in {"x/m1"} |-> "m1"]
            t == ApplyRows(in.rows, bare, in.prices)
            whole == RowTotals(in.rows, DOMAIN in.rows)
        IN /\ \A table \in DOMAIN t : Total(t[table]) = <<whole.requests, whole.tokens>>
           /\ \A m \in DOMAIN t.models : m \in DOMAIN bare => in.prices # [x \in {"m1"} |-> 1]
           /\ \A k \in {"credential", "provider"} : Total(IdentityRows(in.rows, Known, k))[1] <= 2
           /\ Total(ProviderRows(in.rows, Known))[2] <= whole.tokens

-----------------------------------------------------------------------------

Completed(provider, rows) == [status |-> "completed", quota |-> rows, type |-> provider, http |-> 200]
Judged(provider, rows) == Verdict(Completed(provider, rows), "")

\* What is sent for the xAI input: money as numbers, or as {val} behind the
\* second spelling.
XAIAnswer ==
    LET money(f, n) == IF in.how = "second" THEN <<f, 2>> :> Raw1("object", Field("val", "plain", n))
                       ELSE Field(f, in.how, n)
        spent == money("used", in.total) @@ money("monthlyLimit", in.limit) @@ money("onDemandCap", in.cap)
                   @@ (IF in.paid THEN money("onDemandUsed", Max({0, in.total - in.limit})) ELSE <<>>)
        week == IF in.weekly = NoValue THEN <<>> ELSE Field("creditUsagePercent", in.how, in.weekly)
        Wrap(o) == IF in.wrapped THEN Holding("body", Holding("config", o)) ELSE Holding("config", o)
    IN [weekly |-> Wrap(week), monthly |-> Wrap(spent)]

KimiAnswer ==
    LET numbers == (IF "used" \in in.given THEN Field("used", in.how, in.used) ELSE <<>>)
                     @@ Field("limit", in.how, in.limit)
                     @@ (IF "remaining" \in in.given
                         THEN Field("remaining", in.how, Max({0, in.limit - in.used})) ELSE <<>>)
    IN Listing("limits", <<IF in.inner THEN Holding("detail", numbers) ELSE numbers>>)

GeminiAnswer ==
    Listing("buckets", <<(IF "amount" \in in.given THEN Field("remainingAmount", "plain", in.amount) ELSE <<>>)
                           @@ (IF "fraction" \in in.given
                               THEN Field("remainingFraction", "second", in.fraction) ELSE <<>>)>>)

CodexWindowAnswer ==
    Field("used_percent", in.how, in.percent) @@ Field("limit_window_seconds", in.how, in.seconds)
      @@ (IF in.at = NoValue THEN <<>> ELSE Field("reset_at", in.how, in.at))
      @@ (IF in.after = NoValue THEN <<>> ELSE Field("reset_after_seconds", in.how, in.after))
CodexAnswer ==
    Holding("rate_limit", Flagged("limit_reached", in.reached) @@ Holding("primary_window", CodexWindowAnswer))

ClaudeAnswer ==
    LET window(f, n) == IF n = NoValue THEN <<>> ELSE Holding(f, Field("utilization", in.how, n))
        usage == window(in.window, in.first) @@ window("seven_day", in.week) @@ window("extra_usage", in.extra)
        None == Raw1("null", "")
    IN [status |-> 200,
        body |-> IF in.via = "text" THEN None
                 ELSE Raw1(IF in.via = "body" THEN "object" ELSE "objectText", usage),
        text |-> IF in.via = "text" THEN Raw1("object", usage) ELSE None]

AntigravityAnswer ==
    LET Bucket(n, w) == (<<"window", 1>> :> Raw1("text", w)) @@
                          (IF n = NoValue THEN <<>> ELSE Field("remainingFraction", in.how, n))
        Group(words, a, b) == (<<"displayName", 1>> :> Raw1("text", words))
                                @@ Listing("buckets", <<Bucket(a, "weekly"), Bucket(b, "5h")>>)
        groups == Listing("groups", <<Group(in.name, in.left[1], in.left[2]),
                                      Group({"claude", "gpt"}, in.left[3], in.left[4])>>)
    IN IF in.wrapped THEN Holding("body", groups) ELSE groups

GivenAll == \/ in.scene = "kimi" /\ ("remaining" \in in.given)
            \/ in.scene = "gemini" /\ in.given = {"amount", "fraction"}

\* The inspection of a quota answer: whatever spelling, wrapping or number
\* format the provider uses, the verdict "limit reached" is given exactly
\* when the limit is reached; for Kimi and Gemini when both formats are in
\* the answer.
VerdictExact ==
    /\ in.scene = "xai" =>
         (Judged("xai", XAIRows(XAIAnswer.weekly, XAIAnswer.monthly)) = "limitReached")
            <=> (\/ NoLessThan(in.weekly, 100)
                 \/ in.limit + in.cap > 0 /\ in.total >= in.limit + in.cap)
    /\ (in.scene = "kimi" /\ GivenAll) =>
         ((Judged("kimi", KimiRows(KimiAnswer)) = "limitReached") <=> in.used >= in.limit)
    /\ (in.scene = "gemini" /\ GivenAll) =>
         ((Judged("gemini-cli", GeminiRows(GeminiAnswer, NoValue)) = "limitReached")
            <=> in.amount = 0 \/ in.fraction = 0)
    /\ in.scene = "claude" =>
         ((Judged("claude", ClaudeRows(Answer(ClaudeAnswer))) = "limitReached")
            <=> 100 \in {in.first, in.week, in.extra})
    /\ in.scene = "antigravity" =>
         \A rows \in {AntigravityRows(AntigravityAnswer)} :
            /\ (Judged("antigravity", rows) = "limitReached") <=> \E k \in 1..4 : in.left[k] = 0
            /\ Len(rows) = Cardinality({k \in 1..4 : in.left[k] # NoValue})
            /\ "gemini" \in in.name => \A j, k \in DOMAIN rows :
                 (j < k /\ rows[j].group = rows[k].group) => rows[j].seconds < rows[k].seconds
    /\ in.scene = "codex" =>
         ((Judged("codex", CodexRows(CodexAnswer)) = "limitReached") <=> in.reached = TRUE \/ in.percent >= 100)

\* A quota snapshot from response headers gives the rows that the provider's
\* answer gives, and none of the main windows when the active limit is an
\* additional one.
HeadersAgree ==
    in.scene = "codex" =>
        LET w == [percent |-> in.percent, minutes |-> in.seconds \div 60, after |-> in.after, at |-> in.at]
            none == [w EXCEPT !.percent = NoValue]
        IN \A d \in {DecodedHeader([active |-> in.active, reached |-> in.reached, primary |-> w, secondary |-> none,
                                    additional |-> {[group |-> "spark", name |-> "Spark", primary |-> w,
                                                     secondary |-> none]}])} :
           \A main \in {IF d = NoValue THEN {} ELSE {r \in HeaderRows(d) : r.scope = "window"}},
              sent \in {CodexRows(CodexAnswer)[1]} :
           /\ (main # {}) <=> (in.active # "spark" /\ d # NoValue /\ in.seconds # 120)
           /\ \A r \in main : [r EXCEPT !.tokens = sent.tokens] = sent
           /\ (d # NoValue /\ HistoryAllowed(d) /\ in.seconds # 120) => main # {}

\* The comments of kimiInspectionLimitReached and
\* geminiCLIInspectionLimitReached: an answer in one of the two formats is
\* judged by that format. A missing number reads as zero, so this fails; it
\* is not part of a passing run.
GivenFormatDecides ==
    /\ in.scene = "kimi" =>
         ((Judged("kimi", KimiRows(KimiAnswer)) = "limitReached") <=> in.used >= in.limit)
    /\ in.scene = "gemini" =>
         ((Judged("gemini-cli", GeminiRows(GeminiAnswer, NoValue)) = "limitReached")
            <=> ("amount" \in in.given /\ in.amount = 0) \/ ("fraction" \in in.given /\ in.fraction = 0))

\* What a quota window shows as used: the sum over exactly the events of the
\* window, pieced together from raw events at its edges and hourly rows
\* between, or nothing when a cost or a group is unknown.
WindowUsageExact ==
    in.scene = "window" =>
        LET w == UsageWindow(in.row, WindowNow)
            within == {e \in in.events : w.start <= e.at /\ e.at < w.end}
            own == IF in.row.group = NoValue THEN within ELSE {e \in within : e.family = "gemini"}
            unknown == \/ \E e \in within : e.cost = NoValue
                       \/ in.row.group # NoValue /\ \E e \in within : e.family = "other"
                       \/ in.row.group # NoValue /\ \E e \in own : ~e.priced
        IN AttachedUsage(in.row, in.events, WindowNow)
             = IF unknown THEN NoValue ELSE 2 * Cardinality(own)

\* The efficiency of quota cycles: cycles that overlap in the history are
\* cut so that an instant belongs to at most one of them, and an event is
\* counted for the cycle and for the percent step in which it lies.
EfficiencyExact ==
    in.scene = "efficiency" =>
        \A works \in {Works(in.cycles, "", 0, in.now)} : \A found \in {Located(works, in.events)} :
            LET Within(k, t) == works[k].start <= t /\ t < works[k].end
                Steps(k) == works[k].transitions
            IN /\ \A t \in 0..8 : Cardinality({k \in DOMAIN works : Within(k, t)}) <= 1
               /\ \A e \in DOMAIN in.events :
                    LET t == in.events[e]
                        works0 == {k \in DOMAIN works : Within(k, t)}
                    IN /\ works0 = {} => found[e].work = 0 /\ found[e].step = 0
                       /\ \A k \in works0 :
                            /\ found[e].work = k
                            /\ {found[e].step} \ {0}
                                 = {j \in DOMAIN Steps(k) : Steps(k)[j].from < t /\ t <= Steps(k)[j].to}

DayStarts(z, from, to) == {t \in (from + 1)..to : Wall(z, t) % DayLength = 0}

\* The automatic quota refresh: the next round is never due in the past, a
\* daily schedule is due at the n-th midnight after the anchor and a weekly
\* one at the first midnight of its weekday; in zones that show every
\* midnight once. While a round runs, and after an attempt that failed, the
\* loop never looks again at once.
ScheduleExact ==
    in.scene = "schedule" =>
        \A due \in {DueAfter(in.z, in.anchor, in.s)},
           first \in {in.anchor + FirstDelay(in.z, in.s, in.anchor)} :
        \A starts \in {DayStarts(in.z, in.anchor, due)} :
        LET weekday(t) == DateOf(in.z, t) % 7 = in.s.value % 7
        IN /\ due > in.anchor /\ first >= in.anchor
           /\ (ClearMidnights(in.z) /\ in.s.unit = "day") =>
                /\ due \in starts /\ Cardinality(starts) = in.s.value
                /\ Cardinality(DayStarts(in.z, in.anchor - 1, first)) = 1
           /\ (ClearMidnights(in.z) /\ in.s.unit = "week") =>
                /\ {t \in starts : weekday(t)} = {due}
                /\ {t \in DayStarts(in.z, in.anchor - 1, first) : weekday(t)} = {first}
           /\ \A now \in {in.anchor, due - 1, due, due + 1}, n \in BOOLEAN,
                 t \in {NoTime, in.anchor - 1, in.anchor + 1} :
                \A wait \in {NextDelay(in.z, in.s, [anchor |-> in.anchor, running |-> n, attempt |-> t], now)} :
                   LET tried == t # NoTime /\ t = in.anchor + 1
                   IN
                   /\ wait >= 0
                   /\ (n \/ tried) => wait > 0
                   /\ ~(n \/ tried) => now + wait = IF now < due THEN due ELSE now

ActivityFilters(z, now) ==
    LET f == [activity |-> "", range |-> "", custom |-> "", unit |-> "", count |-> 0, start |-> now]
        d == DateOf(z, now)
    IN {[f EXCEPT !.activity = w] : w \in {"day", "week", "month", "year", "today"}}
       \cup {[f EXCEPT !.activity = "yesterday", !.start = DayBounds(z, d - 1).start],
             [f EXCEPT !.range = "8d", !.unit = "day", !.count = 8],
             [f EXCEPT !.range = "custom", !.custom = "day", !.unit = "day", !.count = 2]}
Everything == [inst |-> "", key |-> "", excluded |-> {}, providers |-> NoScope, auths |-> NoScope]
ActivityScopes ==
    {Everything, [Everything EXCEPT !.key = "unknown"], [Everything EXCEPT !.excluded = {"k1"}],
     [Everything EXCEPT !.inst = "legacy-default"],
     [Everything EXCEPT !.providers = {"p"}, !.auths = {"a1"}],
     [Everything EXCEPT !.providers = {}, !.auths = {}]}
Requests(z, now) ==
    {<<f, Everything>> : f \in ActivityFilters(z, now)}
    \cup {<<f, s>> : f \in {g \in ActivityFilters(z, now) : g.activity \in {"week", "year"}}, s \in ActivityScopes}
InScope(e, s) ==
    /\ InstanceInScope(s, OwnInstance(e.inst)) /\ KeyInScope(s, APIGroup(e.key))
    /\ s.providers # NoScope => e.provider \in s.providers

\* The activity heat map: for every window, the cells are contiguous and
\* each counts exactly the events of the scope between its bounds, although
\* events came in on two pages, late ones after the retention of a grain, a
\* cleanup ran, and a scope with providers is read from other tables; a
\* calendar day's grid is the day.
ActivityExact ==
    in.scene = "heat" =>
        LET events == {in.events[1], in.events[2]}
            steady == Cardinality({in.z[j].offset : j \in DOMAIN in.z}) = 1 /\ in.z[1].offset # 0
            one == StoreRows(<<>>, BuildActivity(in.z, {in.events[1]}, in.first))
            two == StoreRows(one, BuildActivity(in.z, {in.events[2]}, in.now))
            clean == CleanupActivity(two, "legacy-default", in.now)
        IN \A rows \in {clean}, r \in Requests(in.z, in.now) :
             (r[2].providers # NoScope => steady) =>
             \A a \in {Activity(in.z, r[1], r[2], rows, events, in.now)},
                day \in {DayBounds(in.z, DateOf(in.z, r[1].start))} :
                LET g == a.blocks
                    shown == {e \in events : /\ InScope(e, r[2]) /\ g[1].start <= e.at
                                            /\ e.at < g[HeatmapBlocks].end}
                IN /\ \A i \in DOMAIN g :
                        LET own == {e \in shown : g[i].start <= e.at /\ e.at < g[i].end}
                        IN /\ g[i].start < g[i].end
                           /\ i > 1 => g[i].start = g[i - 1].end
                           /\ g[i].success = Counters(own).success /\ g[i].failure = Counters(own).failure
                   /\ a.total = Counters(shown)
                   /\ IF CalendarDay(r[1]) THEN g[1].start = day.start /\ g[HeatmapBlocks].end = day.end
                      ELSE g[HeatmapBlocks].start < in.now /\ in.now <= g[HeatmapBlocks].end

\* The latency diagnosis of a range: it counts exactly the measured events of
\* its scope between the bounds it reads, although they came in on two pages
\* and a cleanup ran; its points are those a sample of all of them would have,
\* whichever page and row they went through. The 95th percentile of
\* a sketch lies in the bin of the value the realtime panel would show.
LatencyExact ==
    /\ in.scene = "latency" =>
        LET one == StoreLatency(<<>>, BuildLatency(in.z, {in.events[1], in.events[3]}, in.first))
            two == StoreLatency(one, BuildLatency(in.z, {in.events[2]}, in.now))
            read == LatencyWindow(in.z, in.r)
            Of(s) == {e \in {in.events[i] : i \in 1..3} :
                        Measured(e) /\ InScope(e, s) /\ read.window.start <= e.at /\ e.at < read.window.end}
        IN \A rows \in {CleanupLatency(in.z, two, "legacy-default", in.now)},
              s \in {x \in ActivityScopes : x.providers = NoScope} :
             \A d \in {Diagnosis(in.z, rows, read.window, read.grain, s)}, own \in {Of(s)} :
                /\ d.total = Cardinality(own) /\ (d.sampled <=> Cardinality(own) > MaxSamplePoints)
                /\ d.points = FirstPoints({Point(e) : e \in own})
                /\ own # {} => /\ d.maxTTFT = Max({e.ttft : e \in own})
                              /\ d.p95Latency = P95(Sketch(own, "latency"))
    /\ Chosen("realtime") =>
        \A n \in 1..45 : P95(Sketch({[value |-> v] : v \in 1..n}, "value")) = Bin[P95Index(n) + 1]

Deleted == [input |-> 2, output |-> 2, cached |-> 2, read |-> 1, total |-> 4]
LegacySum(events, c, f) == Deleted[f] + MapThenSumSet(LAMBDA i : events[i][f], 1..c)
LegacyRollup ==
    [f \in DOMAIN Deleted |-> LegacySum(in.events, in.cursor, f)] @@ [cursor |-> in.cursor, events |-> 1..2]

\* The token migrations 20260601, 20260605 and 20260710: after them every
\* event has the counts its verifier accepts, and a rollup holds the sum of
\* its converted events on top of what cleanup had deleted before.
LegacyConversionExact ==
    in.scene = "legacy" =>
        LET d == Migrated(Database(in.events, <<LegacyRollup>>), in.types, in.pending)
            r == d.rollups[1]
        IN /\ \A i \in 1..2 : Accepted(in.events[i], d.events[i], in.types, in.pending)
           /\ \A f \in {"input", "output", "cached", "total"} : r[f] = LegacySum(d.events, in.cursor, f)
           /\ r.read = Deleted.cached + MapThenSumSet(LAMBDA i : d.events[i].read, 1..in.cursor)

\* The choice of a model's price from the catalogue: the order of the
\* candidates is a strict total order (never better both ways,
\* and the numbers of better ones are 0, 1, 2 ...), a price is offered
\* whenever one is usable, an official provider wins over the others, and a
\* coding plan's zero price is offered only when there is no real one.
PriceChoiceExact ==
    in.scene = "price" =>
        \A C \in {Candidates(in.model, in.entries)}, offered \in {Offered(in.model, in.entries)} :
            LET usable == {c \in C : UsablePrice(c.entry)}
                real == {c \in usable : ~PlanZero(c.entry)}
                official == {c \in real : Rank(in.model, c.entry.provider) < 100}
                Better(c) == {d \in C : Less(in.model, d, c)}
            IN /\ \A c \in C : Better(c) \cap {d \in C : c = d \/ Less(in.model, c, d)} = {}
               /\ {Cardinality(Better(c)) : c \in C} = 0..(Cardinality(C) - 1)
               /\ (offered = <<>>) <=> (usable = {})
               /\ usable # {} =>
                    /\ UsablePrice(offered[1])
                    /\ PlanZero(offered[1]) => real = {}
                    /\ \A c \in official : Rank(in.model, offered[1].provider) <= Rank(in.model, c.entry.provider)

-----------------------------------------------------------------------------
(* What the run checks.                                                    *)

\* Local time: range reads (usage_event_time_read.go), day bounds
\* (timeutil/calendar.go) and refresh schedules (quota/auto_refresh.go) name
\* the instants they mean in every zone.
TimesExact == ReadsExact /\ DaysExact /\ ScheduleExact

\* Reports: the realtime blocks, the analysis and latency ranges, the
\* compositions, the activity heat map and the latency diagnosis agree with the
\* rows they summarise and with one another.
ReportsAgree ==
    RealtimeExact /\ SamplesExact /\ RangesAgree /\ CompositionsAgree /\ ActivityExact /\ LatencyExact

\* Tokens: tokenprocessor.Process stores what was used, and never more than
\* what was reported justifies; the migrations bring older rows to the same.
TokensExact == TokensCanonical /\ TotalsJustified /\ LegacyConversionExact

\* What an event is charged by: its token counts, and the price that is found
\* for its model.
ChargesExact == TokensExact /\ PriceChoiceExact

\* Quota: normalised rows, inspection verdicts, header snapshots, window usage
\* and cycle efficiency say what the provider's answers and the events say.
QuotaExact == VerdictExact /\ HeadersAgree /\ WindowUsageExact /\ EfficiencyExact
=============================================================================
