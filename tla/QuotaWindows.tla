---------------------------- MODULE QuotaWindows ----------------------------
(***************************************************************************)
(* The usage shown beside a quota row, and the rows that come from the     *)
(* headers of ordinary requests instead of from a quota request.           *)
(*                                                                         *)
(* Pure operators.  An event has the instant, the family of its model,     *)
(* tokens, a cost (NoValue before the cost backfill), whether its price    *)
(* was known, and whether the overview has aggregated it into its hour.    *)
(***************************************************************************)
EXTENDS QuotaRows
LOCAL INSTANCE FiniteSetsExt
LOCAL INSTANCE SequencesExt

-----------------------------------------------------------------------------
(* The window.                                                             *)

\* quotaRowUsageWindow: half open, and not beyond now.
UsageWindow(row, now) ==
    LET reset == IF row.at # NoValue THEN row.at
                 ELSE IF NoLessThan(row.after, 0) THEN now + row.after ELSE NoValue
    IN IF ~NoLessThan(row.seconds, 1) \/ reset = NoValue THEN NoValue
       ELSE [start |-> reset - row.seconds, end |-> Min({now, reset})]

\* antigravityQuotaUsageGroupKey.
GroupCounted(row) == /\ row.scope = "quota_group" /\ row.seconds \in {FiveHours, Week}
                     /\ row.group \in {"gemini", "claudeGPT"}

\* antigravityUsageGroupForModel.
ModelGroup(family) == CASE family = "gemini" -> "gemini"
                        [] family \in {"claude", "gpt"} -> "claudeGPT"
                        [] OTHER -> NoValue

\* shouldBackfillWindowUsageStats.
Backfilled(row) == /\ row.scope = "window" \/ row.key = "weekly"
                   /\ row.seconds \in {FiveHours, Week, ThirtyDays, AverageMonth}

-----------------------------------------------------------------------------
(* Stored usage of a window.                                               *)

Hour == 3600
WholeHour(t) == t - (t % Hour)

\* sumRawUsageWindowStoredStats and sumHourlyUsageWindowStoredStats: the events behind.
Raw(events, from, to) == {e \in events : from <= e.at /\ e.at < to}
Hourly(events, from, to) == {e \in events : e.rolled /\ from <= WholeHour(e.at) /\ WholeHour(e.at) < to}

\* Where the right part of raw events begins: the last complete hour may not
\* have been aggregated.
RightStart(start, end, leftEnd) == Max({WholeHour(end) - Hour, start, leftEnd})

\* sumLongUsageWindowStoredStats.
LongSources(events, start, end) ==
    LET up == IF WholeHour(start) = start THEN start ELSE WholeHour(start) + Hour
        leftEnd == Min({up, end})
        right == RightStart(start, end, leftEnd)
    IN <<Raw(events, start, leftEnd), Hourly(events, leftEnd, right), Raw(events, right, end)>>

\* loadUsageWindowStoredStats.
StoredSources(events, w) ==
    IF w.start >= w.end THEN <<>>
    ELSE IF w.end - w.start <= 5 * Hour THEN <<Raw(events, w.start, w.end)>>
    ELSE LongSources(events, w.start, w.end)

Tokens(S) == FoldSet(LAMBDA e, n : e.tokens + n, 0, S)
TokensOf(sources) == FoldSeq(LAMBDA S, n : Tokens(S) + n, 0, sources)

\* usageWindowStatsFromStoredRows: an event without a cost fails the window.
StoredTotal(sources) ==
    LET all == UNION Range(sources)
    IN IF \E e \in all : e.cost = NoValue THEN NoValue
       ELSE [tokens |-> TokensOf(sources), priced |-> \A e \in all : e.priced]

\* usageWindowGroupedStatsFromStoredRows: complete when no used model lacks a group.
StoredGroup(sources, group) ==
    LET Of(S) == {e \in S : ModelGroup(e.family) = group}
        all == UNION Range(sources)
    IN IF StoredTotal(sources) = NoValue \/ \E e \in all : e.tokens > 0 /\ ModelGroup(e.family) = NoValue
       THEN NoValue
       ELSE StoredTotal([k \in DOMAIN sources |-> Of(sources[k])])

\* attachWindowUsageStatsWithProvider, for one row: the provider's own pair
\* wins; a group also needs every price.
AttachedUsage(row, events, now) ==
    LET own == row.tokens # NoValue /\ row.cost # NoValue
        w == UsageWindow(row, now)
        sources == IF w = NoValue THEN <<>> ELSE StoredSources(events, w)
        stats == IF GroupCounted(row) THEN StoredGroup(sources, row.group) ELSE StoredTotal(sources)
    IN IF own THEN row.tokens
       ELSE IF ~GroupCounted(row) /\ ~Backfilled(row) THEN row.tokens
       ELSE IF w = NoValue \/ stats = NoValue THEN NoValue
       ELSE IF GroupCounted(row) /\ ~stats.priced THEN NoValue ELSE stats.tokens

-----------------------------------------------------------------------------
(* Codex headers.                                                          *)

\* parseCodexDecodedHeaderUsageWindow, for integers.
HeaderWindow(h) ==
    LET after == IF NoLessThan(h.after, 0) THEN h.after ELSE NoValue
        at == IF NoLessThan(h.at, 1) THEN h.at ELSE NoValue
    IN IF h.percent = NoValue \/ ~NoLessThan(h.minutes, 1) \/ (after = NoValue /\ at = NoValue)
       THEN NoValue
       ELSE [percent |-> h.percent, seconds |-> h.minutes * 60, after |-> after, at |-> at]

\* decodeCodexHeaderQuota with parseCodexDecodedAdditionalHeaderLimits: NoValue without a window.
DecodedHeader(h) ==
    LET Group(a) == [group |-> a.group, name |-> a.name,
                     primary |-> HeaderWindow(a.primary), secondary |-> HeaderWindow(a.secondary)]
        additional == {g \in {Group(a) : a \in h.additional} :
                         g.primary # NoValue \/ g.secondary # NoValue}
        d == [active |-> h.active, reached |-> h.reached, additional |-> additional,
              primary |-> HeaderWindow(h.primary), secondary |-> HeaderWindow(h.secondary)]
    IN IF d.primary = NoValue /\ d.secondary = NoValue /\ additional = {} THEN NoValue ELSE d

\* activeLimitMatchesAdditionalGroup, by the normalised alias.
ActiveIsAdditional(d) == \E g \in d.additional : d.active = g.group

\* mainQuotaHistoryAllowed: "" is absent.
HistoryAllowed(d) == d.active = "" \/ (~ActiveIsAdditional(d) /\ d.active = "premium")

\* codexDecodedCacheWindow: not negative, and of a known length.
CacheWindow(w) ==
    IF w = NoValue THEN NoValue
    ELSE IF w.percent >= 0 /\ w.seconds \in {FiveHours, Week, ThirtyDays, AverageMonth} THEN w ELSE NoValue

\* cacheOutput through normalizeCodexQuotaRows: the windows without a group
\* stand for the active limit, which the additional rows already show.
HeaderRow(w, key, scope, reached) ==
    IF w = NoValue THEN {}
    ELSE {[Row(key, scope) EXCEPT !.percent = w.percent, !.reached = reached, !.seconds = w.seconds,
                                  !.after = IF w.after = 0 THEN NoValue ELSE w.after, !.at = w.at]}
HeaderRows(d) ==
    LET Pair(g, prefix, scope, reached) ==
            HeaderRow(CacheWindow(g.primary), <<prefix, "primary_window">>, scope, reached)
              \cup HeaderRow(CacheWindow(g.secondary), <<prefix, "secondary_window">>, scope, reached)
    IN (IF ActiveIsAdditional(d) THEN {} ELSE Pair(d, "rate_limit", "window", d.reached))
         \cup UNION {Pair(g, g.name, "additional", NoValue) : g \in d.additional}

-----------------------------------------------------------------------------
(* The efficiency report: usage by quota cycle and by step of the percent.  *)
(* Cycles of a role may overlap: a provider's wrong window is a cycle until *)
(* the next observation.  The report cuts them into disjoint periods, and a *)
(* cursor gives every event to at most one.                                 *)

\* The order of observation, by (LastObservedAt, ID).
Later(c, d) == c.observed > d.observed \/ (c.observed = d.observed /\ c.id > d.id)

\* buildQuotaEfficiencyWindows: the latest cycle of each role names its window.
LatestOf(cycles, role) ==
    CHOOSE c \in {x \in cycles : x.role = role} : \A d \in {x \in cycles : x.role = role} : ~Later(d, c)
RoleWindow(cycles, role, now) ==
    LET c == LatestOf(cycles, role)
    IN [role |-> role, observed |-> c.observed, current |-> c.start <= now /\ now < c.reset]

\* selectCodexQuotaEfficiencyWindow: the one asked for, else the one observed
\* last, else a current one, else the primary.  "" is none.
SelectedRole(cycles, wanted, now) ==
    LET roles == {c.role : c \in cycles}
        w(r) == RoleWindow(cycles, r, now)
        later == w("secondary").observed > w("primary").observed
        onlyCurrent == w("secondary").observed = w("primary").observed
                         /\ w("secondary").current /\ ~w("primary").current
    IN IF wanted # "" THEN (IF wanted \in roles THEN wanted ELSE "")
       ELSE IF Cardinality(roles) < 2 THEN (IF roles = {} THEN "" ELSE CHOOSE r \in roles : TRUE)
       ELSE IF later \/ onlyCurrent THEN "secondary" ELSE "primary"

\* buildCodexQuotaEfficiencyCyclePeriods: every later cycle takes over at its start.
Period(cycles, c) ==
    [start |-> c.start, end |-> Min({c.reset} \cup {d.start : d \in {x \in cycles : Later(x, c)}})]
IsCurrent(cycles, c, now) ==
    LET p == Period(cycles, c)
    IN /\ c = LatestOf(cycles, c.role) /\ RoleWindow(cycles, c.role, now).current
       /\ p.start <= now /\ now < p.end

\* buildCodexQuotaEfficiencyTransitions: what falls between two neighbours.
Transitions(segments) ==
    LET step == [k \in 1..Max({0, Len(segments) - 1}) |->
                    [points |-> segments[k].percent - segments[k + 1].percent,
                     from |-> segments[k].first, to |-> segments[k + 1].first]]
    IN SelectSeq(step, LAMBDA s : s.points > 0)

\* BuildCodexQuotaEfficiencyHistory: the cycles it returns, in the order of
\* streamCodexQuotaEfficiencyUsage.
Works(all, wanted, rangeStart, now) ==
    LET read == {c \in all : c.reset >= rangeStart /\ c.start < now}
        role == SelectedRole(read, wanted, now)
        cycles == {c \in read : c.role = role}
        returned == {c \in cycles :
                       LET p == Period(cycles, c)
                       IN /\ p.start < p.end /\ p.end >= rangeStart
                          /\ IsCurrent(cycles, c, now) \/ p.end <= now}
        Work(c) == [id |-> c.id, start |-> c.start, transitions |-> Transitions(c.segments),
                    end |-> IF IsCurrent(cycles, c, now) THEN now ELSE Period(cycles, c).end]
        Earlier(v, w) == \/ v.start < w.start
                         \/ v.start = w.start /\ v.end < w.end
                         \/ v.start = w.start /\ v.end = w.end /\ v.id < w.id
    IN SetToSortSeq({Work(c) : c \in returned}, Earlier)

-----------------------------------------------------------------------------
(* The cursor.                                                             *)

\* sort.Search in a sequence of right ends.
SearchFrom(n, Found(_)) == Min({k \in 1..n : Found(k)} \cup {n + 1})
FirstFrom(i, n, Found(_)) == Min({k \in i..n : Found(k)} \cup {Max({i, n + 1})})

\* Variant with a fault: the cursor only moves on.
LocateOnward(works, c, at) ==
    LET w == FirstFrom(c.work, Len(works), LAMBDA k : at < works[k].end)
        inside == w <= Len(works) /\ works[w].start <= at
        kept == IF w = c.work THEN c.step ELSE 1
        steps == works[w].transitions
        t == FirstFrom(kept, Len(steps), LAMBDA k : at <= steps[k].to)
    IN IF ~inside THEN [cursor |-> [work |-> w, step |-> kept, at |-> at], work |-> 0, step |-> 0]
       ELSE [cursor |-> [work |-> w, step |-> t, at |-> at], work |-> w,
             step |-> IF t <= Len(steps) /\ steps[t].from < at THEN t ELSE 0]

\* locate: on, or back by a search when an event is earlier than the last.
Locate(works, c, at) ==
    LET back == at < c.at
        w == IF back THEN SearchFrom(Len(works), LAMBDA k : at < works[k].end)
             ELSE FirstFrom(c.work, Len(works), LAMBDA k : at < works[k].end)
        inside == w <= Len(works) /\ works[w].start <= at
        kept == IF back \/ w # c.work THEN 1 ELSE c.step
        steps == works[w].transitions
        t == IF back THEN SearchFrom(Len(steps), LAMBDA k : at <= steps[k].to)
             ELSE FirstFrom(kept, Len(steps), LAMBDA k : at <= steps[k].to)
    IN IF ~inside THEN [cursor |-> [work |-> w, step |-> kept, at |-> at], work |-> 0, step |-> 0]
       ELSE [cursor |-> [work |-> w, step |-> t, at |-> at], work |-> w,
             step |-> IF t <= Len(steps) /\ steps[t].from < at THEN t ELSE 0]

\* streamCodexQuotaEfficiencyUsageRead: where each of the events goes.
StartCursor == [work |-> 1, step |-> 1, at |-> -1]
Located(works, events) ==
    LET found[k \in 0..Len(events)] ==
          IF k = 0 THEN <<[cursor |-> StartCursor, work |-> 0, step |-> 0]>>
          ELSE Append(found[k - 1], Locate(works, Last(found[k - 1]).cursor, events[k]))
    IN Tail(found[Len(events)])
=============================================================================
