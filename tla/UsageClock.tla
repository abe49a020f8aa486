----------------------------- MODULE UsageClock -----------------------------
(***************************************************************************)
(* Reading rows by time when their times are stored as local text.         *)
(*                                                                         *)
(* usage_events.timestamp holds RFC3339Nano text in the local zone, and    *)
(* SQLite compares it as text.  Text order is not time order: the wall     *)
(* clock is set back when the zone's offset falls, a whole second is       *)
(* written without a fraction, and in UTC its "Z" sorts after the "." of a *)
(* fraction.  A read therefore asks for a superset by text, one zone       *)
(* segment at a time, and checks the instants afterwards.                  *)
(*                                                                         *)
(* An instant is a number of ticks, SecondLength of them to a second.  A   *)
(* zone is the sequence of its segments, each with the instant it starts   *)
(* at and its offset.  A text is its wall clock second, the place of the   *)
(* rest within that second, and the offset it ends in.                     *)
(***************************************************************************)
EXTENDS Integers, FiniteSets, Sequences

CONSTANTS
    SecondLength,   \* ticks per second
    DayLength,      \* ticks per day
    Guard           \* usageReadHasStableOffset's margin: 48 hours

ASSUME ClockAssumption ==
    /\ SecondLength \in Nat \ {0} /\ DayLength \in Nat \ {0} /\ Guard \in Nat

\* The segment of zone z that holds instant t.
SegmentOf(z, t) == CHOOSE k \in DOMAIN z : /\ z[k].from <= t
                                           /\ k < Len(z) => t < z[k + 1].from
Offset(z, t) == z[SegmentOf(z, t)].offset
Wall(z, t) == t + Offset(z, t)

\* ZoneSegmentEnd: the end of t's segment; none for the last one.
HasEnd(z, t) == SegmentOf(z, t) < Len(z)
SegmentEnd(z, t) == z[SegmentOf(z, t) + 1].from

\* FormatStorageTime of t, in a fixed offset o: time.RFC3339Nano.
TextIn(t, o) ==
    LET w == t + o
        fraction == w % SecondLength
    IN [second |-> w \div SecondLength,
        rank |-> IF fraction = 0 /\ o = 0 THEN SecondLength ELSE fraction,
        offset |-> o]
Text(z, t) == TextIn(t, Offset(z, t))

\* The text of t's second alone, which is a prefix of every text in it.
Prefix(t, o) == [second |-> (t + o) \div SecondLength, rank |-> -1, offset |-> 0]

\* SQLite's order of texts.
Before(a, b) ==
    \/ a.second < b.second
    \/ a.second = b.second /\ a.rank < b.rank
    \/ a.second = b.second /\ a.rank = b.rank /\ a.offset < b.offset
AtMost(a, b) == a = b \/ Before(a, b)

-----------------------------------------------------------------------------
(* Days of a zone.                                                         *)

DateOf(z, t) == Wall(z, t) \div DayLength

\* The part of segment k in which the wall shows a time of date d.
DayPart(z, k, d) ==
    LET first == d * DayLength - z[k].offset
        last == first + DayLength
        from == IF first < z[k].from THEN z[k].from ELSE first
        to == IF k < Len(z) /\ z[k + 1].from < last THEN z[k + 1].from ELSE last
    IN [start |-> from, end |-> to]

\* The parts of a date; a zone that jumps over the date has none.
DayParts(z, d) == {k \in DOMAIN z : DayPart(z, k, d).start < DayPart(z, k, d).end}
DayExists(z, d) == DayParts(z, d) # {}

\* DayBounds: from the first part that is not empty to the end of the last.
DayBounds(z, d) ==
    LET parts == DayParts(z, d)
        first == CHOOSE k \in parts : \A j \in parts : k <= j
        last == CHOOSE k \in parts : \A j \in parts : j <= k
    IN [start |-> DayPart(z, first, d).start, end |-> DayPart(z, last, d).end]

-----------------------------------------------------------------------------
(* Reads of usage_events.                                                  *)

\* usageReadHasStableOffset.
StableOffset(z, start, end) ==
    ~HasEnd(z, start - Guard) \/ SegmentEnd(z, start - Guard) > end + Guard

\* The read of one segment, from its first instant in the range.
SegmentRead(z, cursor, end, includeEnd, separate) ==
    LET o == Offset(z, cursor)
        cut == HasEnd(z, cursor) /\ SegmentEnd(z, cursor) <= end
        to == IF cut THEN SegmentEnd(z, cursor) ELSE end
        closed == ~cut /\ includeEnd
    IN [start |-> cursor, end |-> to, includeEnd |-> closed,
        lower |-> IF o = 0 THEN Prefix(cursor, o) ELSE TextIn(cursor, o),
        upper |-> IF o = 0 THEN Prefix(to + SecondLength, o) ELSE TextIn(to, o),
        upperInclusive |-> closed /\ o # 0,
        suffix |-> IF separate THEN {o} ELSE {}]

\* Where the loop of usageEventTimeReads stands: the start, and every segment
\* that begins later in the range.
ReadStarts(z, start, end, includeEnd) ==
    {c \in {start} \cup {z[k].from : k \in {j \in DOMAIN z : z[j].from > start}} :
        c < end \/ (includeEnd /\ c = end)}

\* Variant with a fault: one read for the range, whatever its segments.
ReadsAsOne(z, start, end, includeEnd) ==
    {[SegmentRead(z, start, end, includeEnd, FALSE)
        EXCEPT !.end = end, !.includeEnd = includeEnd, !.upper = Prefix(end + SecondLength, Offset(z, end))]}

\* usageEventTimeReads.
EventTimeReads(z, start, end, includeEnd) ==
    {SegmentRead(z, c, end, includeEnd, ~StableOffset(z, start, end)) :
        c \in ReadStarts(z, start, end, includeEnd)}

\* usageEventTimeRead.query: what the database returns ...
Selects(z, r, t) ==
    /\ AtMost(r.lower, Text(z, t))
    /\ IF r.upperInclusive THEN AtMost(Text(z, t), r.upper) ELSE Before(Text(z, t), r.upper)
    /\ r.suffix # {} => Offset(z, t) \in r.suffix

\* ... and usageEventTimeRead.contains: what is kept of it.
Holds(r, t) == r.start <= t /\ (t < r.end \/ (r.includeEnd /\ t = r.end))

\* usageEventTimeReadSince, up to the anchor: the smallest lower bound of any segment.
SinceLower(z, start, anchor) ==
    LET bounds == {Text(z, start)} \cup {r.lower : r \in EventTimeReads(z, start, anchor, TRUE)}
    IN CHOOSE b \in bounds : \A c \in bounds : AtMost(b, c)
LoadedSince(z, start, anchor, t) == AtMost(SinceLower(z, start, anchor), Text(z, t)) /\ t >= start

\* overviewBucketRead and its query, for buckets at absolute hours.
SelectsBucket(z, start, end, h) ==
    IF StableOffset(z, start, end)
    THEN AtMost(Text(z, start), Text(z, h)) /\ Before(Text(z, h), Text(z, end))
    ELSE Text(z, h) \in {Text(z, b) : b \in start..(end - 1)}

\* applyUsageQueryWindow: the window of the event list, by text alone.
ListSelects(z, start, end, endExclusive, t) ==
    /\ AtMost(Text(z, start), Text(z, t))
    /\ IF endExclusive THEN Before(Text(z, t), Text(z, end)) ELSE AtMost(Text(z, t), Text(z, end))

-----------------------------------------------------------------------------
(* When the next automatic quota refresh is due: every n minutes or hours   *)
(* after the last round, every n days at local midnight, or a weekday at    *)
(* local midnight.  Midnights are made by time.Date and moved by AddDate, on*)
(* the zone's wall clock.                                                   *)

CONSTANTS MinuteTicks, HourTicks, CheckInterval, NoTime

\* time.Date: the wall time read with the offset of that wall time taken as
\* UTC, or where that is not valid with the offset of the result.
DateAt(z, wall) ==
    LET guess == SegmentOf(z, wall)
        t == wall - z[guess].offset
    IN IF SegmentOf(z, t) = guess THEN t ELSE wall - Offset(z, t)

\* AddDate: the same wall clock, n days on.
AddDays(z, t, n) == DateAt(z, Wall(z, t) + n * DayLength)

StartOfDate(z, t) == DateAt(z, DateOf(z, t) * DayLength)

\* nextLocalMidnightAtOrAfter and nextLocalMidnightAfter.
MidnightAtOrAfter(z, now) ==
    LET m == StartOfDate(z, now) IN IF m < now THEN AddDays(z, m, 1) ELSE m
MidnightAfter(z, anchor) ==
    LET m == StartOfDate(z, anchor) IN IF m > anchor THEN m ELSE AddDays(z, m, 1)

\* weekdayMidnight: this day or the first one after it that is the weekday.
WeekdayMidnight(z, t, weekday) ==
    LET m == StartOfDate(z, t)
    IN AddDays(z, m, ((weekday % 7) - (DateOf(z, m) % 7) + 7) % 7)

\* nextWeekdayMidnightAtOrAfter and nextWeekdayMidnightAfter.
WeekdayAtOrAfter(z, now, weekday) ==
    LET m == WeekdayMidnight(z, now, weekday) IN IF m < now THEN AddDays(z, m, 7) ELSE m
WeekdayAfter(z, anchor, weekday) ==
    LET m == WeekdayMidnight(z, anchor, weekday) IN IF m > anchor THEN m ELSE AddDays(z, m, 7)

\* nextAutoRefreshDelayWithoutAnchor.
FirstDelay(z, s, now) ==
    LET due == CASE s.unit = "minute" -> now + s.value * MinuteTicks
                 [] s.unit = "hour" -> now + s.value * HourTicks
                 [] s.unit = "day" -> MidnightAtOrAfter(z, now)
                 [] s.unit = "week" -> WeekdayAtOrAfter(z, now, s.value)
    IN IF now < due THEN due - now ELSE 0

\* nextAutoRefreshDueAt.
DueAfter(z, anchor, s) ==
    CASE s.unit = "minute" -> anchor + s.value * MinuteTicks
      [] s.unit = "hour" -> anchor + s.value * HourTicks
      [] s.unit = "day" -> AddDays(z, MidnightAfter(z, anchor), s.value - 1)
      [] s.unit = "week" -> WeekdayAfter(z, anchor, s.value)

\* nextAutoRefreshDelay: a round that runs or an attempt that failed is only
\* looked at again after the check interval.
NextDelay(z, s, state, now) ==
    LET due == DueAfter(z, state.anchor, s)
    IN IF state.running /\ (state.anchor = NoTime \/ now >= due) THEN CheckInterval
       ELSE IF state.running THEN due - now
       ELSE IF state.attempt # NoTime /\ (state.anchor = NoTime \/ state.attempt > state.anchor)
       THEN CheckInterval
       ELSE IF state.anchor = NoTime THEN FirstDelay(z, s, now)
       ELSE IF now >= due THEN 0 ELSE due - now
=============================================================================
