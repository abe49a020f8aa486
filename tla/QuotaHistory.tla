---------------------------- MODULE QuotaHistory ----------------------------
(***************************************************************************)
(* The history of an account's main quota windows.  Responses are queued   *)
(* by two kinds of producers, a runner collects the headers of a minute    *)
(* (a trusted query ends the minute at once), merges them in memory and    *)
(* writes cycles and percent segments; a cycle can be deleted meanwhile.   *)
(* All of it is for one account: a key is the role of a window.  Resets    *)
(* and observation times are small numbers, a percent is a level.          *)
(***************************************************************************)
EXTENDS Integers, Sequences, FiniteSets, FiniteSetsExt, SequencesExt

CONSTANTS
    Responses,     \* what a provider may answer: sequences of observations
    Tolerance,     \* codexQuotaHistoryResetTolerance
    QueueLimit,    \* codexQuotaHistoryQueueSize
    WriteBatch,    \* codexQuotaHistoryWriteBatchSize
    MaxResponses,  \* bound on the responses
    MaxFailures,   \* bound on the failing reads and writes
    NoState        \* nothing in memory for a role

ASSUME HistoryAssumption ==
    /\ Tolerance \in Nat /\ QueueLimit \in Nat \ {0} /\ WriteBatch \in Nat \ {0}
    /\ MaxResponses \in Nat /\ MaxFailures \in Nat

Roles == {"primary", "secondary"}

VARIABLES
    headerQueue, trustedQueue,  \* the two channels
    headerWake, trustedWake,    \* their notifications, capacity one
    runner,                     \* "idle", "window", "done"
    stopping,                   \* codexQuotaHistoryClosing and the closed stop channel
    cur, stable,                \* the runner's state per role
    cycles,                     \* rows of quota_cycles with their segments
    responses, failures         \* counters of the bounds

historyVars == <<headerQueue, trustedQueue, headerWake, trustedWake, runner, stopping,
                 cur, stable, cycles, responses, failures>>

HistoryInit ==
    /\ headerQueue = <<>> /\ trustedQueue = <<>>
    /\ headerWake = FALSE /\ trustedWake = FALSE
    /\ runner = "idle" /\ stopping = FALSE
    /\ cur = [r \in Roles |-> NoState] /\ stable = [r \in Roles |-> NoState]
    /\ cycles = {}
    /\ responses = 0 /\ failures = 0

-----------------------------------------------------------------------------
(* Producers.                                                               *)

Trusting(response, trusted) == [i \in DOMAIN response |-> response[i] @@ [auth |-> trusted]]

\* A full header queue drops its head.
HeaderArrives ==
    /\ ~stopping /\ responses < MaxResponses
    /\ responses' = responses + 1
    /\ \E response \in Responses :
          LET queue == Append(headerQueue, Trusting(response, FALSE))
          IN headerQueue' = IF Len(queue) > QueueLimit THEN Tail(queue) ELSE queue
    /\ headerWake' = TRUE
    /\ UNCHANGED <<trustedQueue, trustedWake, runner, stopping, cur, stable, cycles, failures>>

\* A full trusted queue refuses the newcomer.
TrustedArrives ==
    /\ ~stopping /\ responses < MaxResponses /\ Len(trustedQueue) < QueueLimit
    /\ responses' = responses + 1
    /\ \E response \in Responses :
          trustedQueue' = Append(trustedQueue, Trusting(response, TRUE))
    /\ trustedWake' = TRUE
    /\ UNCHANGED <<headerQueue, headerWake, runner, stopping, cur, stable, cycles, failures>>

-----------------------------------------------------------------------------
(* The rows.                                                                *)

Near(a, b) == a - b <= Tolerance /\ b - a <= Tolerance

\* quotaCycleMatchesObservation, codexQuotaHistorySameCycle
SameCycle(c, o) == c.window = o.window /\ Near(c.reset, o.reset)

Later(c, d) == c.last > d.last \/ (c.last = d.last /\ c.id > d.id)

\* loadCurrentQuotaCycle: the greatest in (last_observed_at, id), as a set.
LatestOf(rows, role) ==
    {c \in rows : c.role = role /\ \A d \in rows : d.role = role /\ d # c => Later(c, d)}

Distance(c, o) == IF c.reset > o.reset THEN c.reset - o.reset ELSE o.reset - c.reset

\* loadMatchingQuotaCycle with closestMatchingQuotaCycle
MatchingOf(rows, o) ==
    LET candidates == {c \in rows : c.role = o.role /\ SameCycle(c, o)}
    IN {c \in candidates : \A d \in candidates \ {c} :
            \/ Distance(c, o) < Distance(d, o)
            \/ Distance(c, o) = Distance(d, o) /\ Later(c, d)}

\* The tail: the greatest in (first_observed_at, id).
TailOf(c) == CHOOSE s \in c.segs : \A t \in c.segs \ {s} : s.first > t.first \/ (s.first = t.first /\ s.id > t.id)

NextIn(S) == 1 + Max({x.id : x \in S} \cup {0})

Segment(o, id) == [id |-> id, pct |-> o.pct, first |-> o.first, last |-> o.last]

NewCycle(rows, o) ==
    [id |-> NextIn(rows), role |-> o.role, window |-> o.window, src |-> o.src, reset |-> o.reset,
     last |-> o.last, segs |-> {Segment(o, 1)}]

\* Either a trusted calibration or a countdown replaced by a given time.
Recalibrates(c, o) ==
    \/ o.auth /\ (c.src # o.src \/ c.reset # o.reset)
    \/ c.src = "relative" /\ o.src = "absolute"

\* upgradeQuotaCycleBoundary
UpgradeBoundary(c, o) ==
    IF Recalibrates(c, o) THEN [c EXCEPT !.src = o.src, !.reset = o.reset] ELSE c

Extend(c, s, o) ==
    [c EXCEPT !.segs = (@ \ {s}) \cup {[s EXCEPT !.last = o.last]}, !.last = o.last]

\* correctQuotaPercentTail: what lies below a trusted value never was.
CorrectTail(c, o) ==
    LET kept == {s \in c.segs : s.pct >= o.pct}
        same == {s \in kept : s.pct = o.pct}
    IN IF same = {}
       THEN [c EXCEPT !.segs = kept \cup {Segment(o, NextIn(c.segs))}, !.last = o.last]
       ELSE Extend([c EXCEPT !.segs = kept], CHOOSE s \in same : TRUE, o)

\* What becomes of the cycle an observation belongs to.
Recorded(c, o) ==
    LET tail == TailOf(c)
    IN IF o.last < tail.last THEN c
       ELSE IF o.auth /\ o.pct > tail.pct THEN CorrectTail(c, o)
       ELSE IF o.first <= tail.last \/ o.pct > tail.pct THEN c
       ELSE IF o.pct = tail.pct THEN Extend(c, tail, o)
       ELSE [c EXCEPT !.segs = @ \cup {Segment(o, NextIn(c.segs))}, !.last = o.last]

\* applyCodexMainQuotaObservation
ApplyObservation(rows, o) ==
    LET latest == LatestOf(rows, o.role)
        found == IF \E c \in latest : SameCycle(c, o) THEN latest ELSE MatchingOf(rows, o)
        ignored ==
            \E l \in latest :
                \/ o.last < l.last
                \/ \E c \in found : c # l /\ c.window = l.window
                \/ found = {} /\ l.window = o.window /\ o.reset < l.reset
    IN IF ignored THEN rows
       ELSE IF found = {} THEN rows \cup {NewCycle(rows, o)}
       ELSE {IF c \in found /\ o.last >= c.last THEN Recorded(UpgradeBoundary(c, o), o) ELSE c : c \in rows}

\* WriteCodexMainQuotaObservations: one transaction per batch; a failure keeps
\* the batches before it.
Batches(pending) == (Len(pending) + WriteBatch - 1) \div WriteBatch

WrittenBatches(rows, pending, batches) ==
    FoldLeft(ApplyObservation, rows,
             SubSeq(pending, 1, Min({Len(pending), batches * WriteBatch})))

\* LoadLatestQuotaHistoryState
Recovered(rows, role) ==
    LET latest == LatestOf(rows, role)
    IN IF latest = {} THEN NoState
       ELSE LET c == CHOOSE c \in latest : TRUE
                tail == TailOf(c)
            IN [window |-> c.window, src |-> c.src, reset |-> c.reset, pct |-> tail.pct,
                last |-> tail.last, index |-> 0]

-----------------------------------------------------------------------------
(* The merge in memory: st holds the state of both roles, the observations  *)
(* to write, and the times whose responses are written in this batch.       *)

\* appendDeferredCodexQuotaHistoryStable
Sealed(st, role) ==
    IF st.stable[role] = NoState THEN st
    ELSE [st EXCEPT !.pending = Append(@, st.stable[role].obs), !.stable[role] = NoState]

\* appendCodexQuotaHistoryChange
Changed(st, o) ==
    [st EXCEPT !.pending = Append(@, o), !.written = @ \cup {o.last},
               !.cur[o.role] = [window |-> o.window, src |-> o.src, reset |-> o.reset, pct |-> o.pct,
                                last |-> o.last, index |-> Len(st.pending) + 1]]

\* The observation o joins an entry that is not written yet.
Joined(entry, o, boundary) ==
    LET e == [entry EXCEPT !.last = o.last, !.auth = @ \/ o.auth]
    IN IF boundary THEN [e EXCEPT !.src = o.src, !.reset = o.reset] ELSE e

\* mergeDeferredCodexQuotaHistoryStable
Deferred(st, o, immediate) ==
    LET old == st.stable[o.role]
    IN [st EXCEPT !.stable[o.role] =
          IF old = NoState THEN [obs |-> o, immediate |-> immediate]
          ELSE [obs |-> Joined(old.obs, o, o.auth \/ (old.obs.src = "relative" /\ o.src = "absolute")),
                immediate |-> old.immediate \/ immediate]]

\* A calibration at the very time of the tail.
Calibrated(st, c, o) ==
    LET sealed == Sealed(st, o.role)
    IN IF c.index # 0
       THEN [sealed EXCEPT !.pending[c.index] = Joined(@, o, TRUE), !.cur[o.role] = c,
                           !.written = @ \cup {o.last}]
       ELSE [sealed EXCEPT !.pending = Append(@, [o EXCEPT !.pct = c.pct]),
                           !.cur[o.role] = [c EXCEPT !.index = Len(sealed.pending) + 1],
                           !.written = @ \cup {o.last}]

Stayed(st, c, o, boundary) ==
    LET d == [c EXCEPT !.last = o.last]
    IN IF c.index # 0
       THEN [st EXCEPT !.pending[c.index] = Joined(@, o, boundary), !.cur[o.role] = d,
                       !.written = @ \cup {o.last}]
       ELSE [Deferred(st, o, boundary \/ o.auth) EXCEPT !.cur[o.role] = d]

\* An observation of the cycle that is in memory, not older than its tail.
MergedInCycle(st, c, o) ==
    LET boundary == Recalibrates(c, o)
        d == IF boundary THEN [c EXCEPT !.src = o.src, !.reset = o.reset] ELSE c
    IN CASE o.pct > c.pct /\ o.auth -> Changed(Sealed(st, o.role), o)
         [] ~(o.pct > c.pct /\ o.auth) /\ o.last = c.last ->
                IF boundary THEN Calibrated(st, d, o) ELSE st
         [] o.last # c.last /\ o.pct > c.pct /\ ~o.auth -> st
         [] o.last # c.last /\ o.pct = c.pct -> Stayed(st, d, o, boundary)
         [] o.last # c.last /\ o.pct < c.pct -> Changed(Sealed(st, o.role), o)

\* mergeCodexQuotaHistoryObservation; unread are the roles whose recovery fails.
MergeObservation(st, o) ==
    LET c == IF st.cur[o.role] = NoState THEN Recovered(cycles, o.role) ELSE st.cur[o.role]
        loaded == [st EXCEPT !.cur[o.role] = c]
    IN IF st.cur[o.role] = NoState /\ o.role \in st.unread THEN st
       ELSE IF c = NoState THEN Changed(Sealed(st, o.role), o)
       ELSE IF o.last < c.last THEN loaded
       ELSE IF SameCycle(c, o) THEN MergedInCycle(loaded, c, o)
       ELSE IF c.window = o.window /\ o.reset < c.reset THEN loaded
       ELSE Changed(Sealed(loaded, o.role), o)

Before(o, p) ==
    (o.role = "primary" /\ p.role = "secondary") \/ (o.role = p.role /\ o.first < p.first)

Inserted(done, o) ==
    LET n == Cardinality({i \in DOMAIN done : ~Before(o, done[i])})
    IN SubSeq(done, 1, n) \o <<o>> \o SubSeq(done, n + 1, Len(done))

\* sortCodexQuotaHistoryCandidates, and the order of the rows to write
InOrder(seq) == FoldLeft(Inserted, <<>>, seq)

\* splitPreferredCodexQuotaHistoryCandidates: a trusted figure replaces the headers' of its role.
Preferred ==
    LET trusted == FlattenSeq(trustedQueue)
        roles == {trusted[i].role : i \in DOMAIN trusted}
    IN trusted \o SelectSeq(FlattenSeq(headerQueue), LAMBDA o : o.role \notin roles)

\* The headers' account is looked up once per batch.
Verified(found) == SelectSeq(Preferred, LAMBDA o : o.auth \/ found)

\* appendDueCodexQuotaHistoryStable: what is due takes the rest of its response along.
DueStable(st, aged, all) ==
    LET waiting == {r \in Roles : st.stable[r] # NoState}
        due == {r \in waiting : \/ all \/ r \in aged
                                \/ st.stable[r].immediate \/ st.stable[r].obs.last \in st.written
                                \/ st.cur[r] = NoState}
    IN {r \in waiting : \E d \in due : st.stable[d].obs.last = st.stable[r].obs.last}

WithStable(pending, st, due) ==
    pending \o SetToSortSeq({st.stable[r].obs : r \in due}, Before)

Forget(f, roles) == [r \in Roles |-> IF r \in roles THEN NoState ELSE f[r]]

\* Variant with a fault: the state survives the write that failed.
FlushKeepingState(st, pending, due, batches) ==
    /\ cycles' = WrittenBatches(cycles, InOrder(pending), batches)
    /\ cur' = [r \in Roles |-> IF st.cur[r] = NoState THEN NoState ELSE [st.cur[r] EXCEPT !.index = 0]]
    /\ stable' = Forget(st.stable, due)

\* flushCodexQuotaHistory: a failure forgets every role it was writing.
Flush(st, pending, due, batches) ==
    LET failed == batches < Batches(pending)
        lost == IF failed THEN {pending[i].role : i \in DOMAIN pending} ELSE {}
    IN /\ cycles' = WrittenBatches(cycles, InOrder(pending), batches)
       /\ cur' = [r \in Roles |-> IF r \in lost \/ st.cur[r] = NoState THEN NoState
                                  ELSE [st.cur[r] EXCEPT !.index = 0]]
       /\ stable' = Forget(st.stable, IF failed THEN lost ELSE due)

\* processPreferredCodexQuotaHistoryInputs; both queues are taken under the lock.
ProcessInputs(all) ==
    \E found \in IF failures < MaxFailures THEN BOOLEAN ELSE {TRUE},
       unread \in IF failures < MaxFailures THEN SUBSET {r \in Roles : cur[r] = NoState} ELSE {{}},
       aged \in SUBSET {r \in Roles : cur[r] # NoState} :
        LET st == FoldLeft(MergeObservation,
                           [cur |-> cur, stable |-> stable, pending |-> <<>>, written |-> {}, unread |-> unread],
                           InOrder(Verified(found)))
            due == DueStable(st, aged, all)
            pending == WithStable(st.pending, st, due)
        IN \E batches \in 0 .. Batches(pending) :
             LET faults == (IF found THEN 0 ELSE 1) + Cardinality(unread)
                           + (IF batches < Batches(pending) THEN 1 ELSE 0)
             IN /\ failures + faults <= MaxFailures /\ failures' = failures + faults
                /\ Flush(st, pending, due, batches)
                /\ headerQueue' = <<>> /\ trustedQueue' = <<>>
                /\ headerWake' = FALSE /\ trustedWake' = FALSE
                /\ UNCHANGED responses

-----------------------------------------------------------------------------
(* The runner.                                                              *)

\* The first header opens the minute.
HeaderWakes ==
    /\ runner = "idle" /\ headerWake
    /\ headerWake' = FALSE
    /\ runner' = IF headerQueue # <<>> THEN "window" ELSE "idle"
    /\ UNCHANGED <<headerQueue, trustedQueue, trustedWake, stopping, cur, stable, cycles, responses, failures>>

\* The minute is over, or a trusted answer has come.
ProcessBatch ==
    /\ runner = "window" \/ (runner = "idle" /\ trustedWake)
    /\ ProcessInputs(FALSE)
    /\ runner' = "idle"
    /\ UNCHANGED stopping

StopHistory ==
    /\ ~stopping
    /\ stopping' = TRUE
    /\ UNCHANGED <<headerQueue, trustedQueue, headerWake, trustedWake, runner, cur, stable, cycles,
                   responses, failures>>

RunnerStops ==
    /\ stopping /\ runner # "done"
    /\ ProcessInputs(TRUE)
    /\ runner' = "done"
    /\ UNCHANGED stopping

\* MatchesObservation: the current row first, then the nearest.
OfCycle(c, o) ==
    /\ o.role = c.role /\ SameCycle(c, o)
    /\ LET current == {l \in LatestOf(cycles, c.role) : SameCycle(l, o)}
       IN c \in (IF current # {} THEN current ELSE MatchingOf(cycles, o))

Without(queue, c) ==
    SelectSeq([i \in DOMAIN queue |-> SelectSeq(queue[i], LAMBDA o : ~OfCycle(c, o))],
              LAMBDA response : response # <<>>)

\* deleteCodexQuotaHistoryCycle, between two batches of the runner.
DeleteCycle ==
    /\ runner # "done"
    /\ \E c \in cycles :
          /\ cycles' = cycles \ {c}
          /\ cur' = [r \in Roles |-> IF cur[r] # NoState /\ OfCycle(c, cur[r] @@ [role |-> r])
                                     THEN NoState ELSE cur[r]]
          /\ stable' = [r \in Roles |-> IF stable[r] # NoState /\ OfCycle(c, stable[r].obs)
                                        THEN NoState ELSE stable[r]]
          /\ headerQueue' = Without(headerQueue, c)
    /\ UNCHANGED <<trustedQueue, headerWake, trustedWake, runner, stopping, responses, failures>>

HistoryStep == HeaderWakes \/ ProcessBatch \/ RunnerStops

HistoryRequests == HeaderArrives \/ TrustedArrives \/ DeleteCycle \/ StopHistory

-----------------------------------------------------------------------------
(* Within a cycle the remaining percent only falls: the segments, in the    *)
(* order in which they were observed, have ever lower percents and do not   *)
(* overlap, whatever order responses, corrections and failed writes came in *)
(* (correctQuotaPercentTail deletes a whole suffix on that ground).         *)
SegmentsFall ==
    \A c \in cycles : \A s, t \in c.segs :
        s.first < t.first => s.last < t.first /\ s.pct > t.pct

(* A late response never turns the history back: for a role that keeps its  *)
(* window, the current cycle gives way only to one with a later reset,      *)
(* unless it was deleted; a calibration moves its reset by the tolerance.   *)
ResetsAdvance ==
    [][\A r \in Roles : \A l \in LatestOf(cycles, r) : \A m \in LatestOf(cycles', r) :
          /\ \A c \in cycles' : c.role = r => c.window = l.window
          /\ \E c \in cycles' : c.id = l.id /\ c.role = r
          => m.reset >= l.reset - Tolerance]_<<cycles>>

(* What the runner remembers is backed by rows, across failed writes, reads *)
(* and deletions: the cycle in its memory exists, and no row of the role is *)
(* newer than the memory, so a stale memory never decides what is written   *)
(* (as long as the resets of one cycle stay within the tolerance).          *)
MemoryIsBacked ==
    \A r \in Roles : cur[r] # NoState =>
        /\ \E c \in cycles : c.role = r /\ SameCycle(c, cur[r])
        /\ \A c \in cycles : c.role = r => c.last <= cur[r].last

(* No accepted response is forgotten: while a queue holds one, a            *)
(* notification or an open window will bring the runner to it, and the      *)
(* runner that has stopped leaves neither queue nor deferred rows behind.   *)
NoInputForgotten ==
    /\ runner # "done" =>
          /\ headerQueue # <<>> => headerWake \/ runner = "window"
          /\ trustedQueue # <<>> => trustedWake
    /\ runner = "done" =>
          /\ headerQueue = <<>> /\ trustedQueue = <<>>
          /\ \A r \in Roles : stable[r] = NoState

(* The history of the Codex quota, the runner's memory of it and the queues *)
(* before it are consistent in every state, and no step turns it back.      *)
HistoryConsistent ==
    [](SegmentsFall /\ MemoryIsBacked /\ NoInputForgotten) /\ ResetsAdvance
=============================================================================
