---------------------------- MODULE QuotaHeaders ----------------------------
(***************************************************************************)
(* Quota figures that arrive as response headers of ordinary usage.  Every *)
(* committed event may yield a snapshot; snapshots of a minute are merged  *)
(* per identity in a bounded map, and a worker flushes the map into the    *)
(* same records that QuotaRefresh keeps, beside refreshes that query the   *)
(* provider directly.                                                      *)
(*                                                                         *)
(* A figure is known by the time it was observed (0 when absent): the     *)
(* windows and the limit flag of a Codex account, the two windows of a     *)
(* Claude one.                                                             *)
(***************************************************************************)
EXTENDS QuotaRefresh

CONSTANTS PendingLimit,   \* usageHeaderPendingIdentityLimit
          MaxSnapshots,   \* bound on the snapshots captured
          MaxTime         \* bound on the clock

VARIABLES
    pending,     \* usageHeaderPending: snapshots, at most one per key
    captured,    \* snapshots so far
    arriving,    \* a snapshot whose generation is captured, not yet stored
    wake,        \* usageHeaderWake, capacity one
    timer,       \* is the flush window open?
    jobs,        \* the snapshots of the flush under way
    headers      \* the worker: "run", "flush", "last" (the flush of the stop), "done"

headerVars == <<pending, captured, arriving, wake, timer, jobs, headers>>

Key(s) == <<s.kind, s.auth>>

HeadersInit ==
    /\ pending = {} /\ captured = 0 /\ arriving = None /\ wake = FALSE /\ timer = FALSE
    /\ jobs = {} /\ headers = "run"

\* What BuildUsageHeaderSnapshot makes of one response: the flag comes with
\* the main windows, and a response without figures yields nothing.
Snapshots ==
    {[auth |-> a, kind |-> k, at |-> t, gen |-> generation,
      rows |-> [c \in Components |-> IF c \in present THEN t ELSE 0]] :
        a \in Auths, k \in {"codex", "claude"}, t \in 1 .. clock,
        present \in (SUBSET Components) \ {{}}}

Built(s) ==
    LET present == {c \in Components : s.rows[c] # 0}
    IN present \subseteq ComponentsOf(s.kind) /\ ("flag" \in present => "main" \in present)

\* TryAppendUsageHeaderSnapshots fixes the generation before it takes usageHeaderMu.
CaptureSnapshot ==
    /\ captured < MaxSnapshots /\ captured' = captured + 1
    /\ arriving = None
    /\ \E s \in {s \in Snapshots : Built(s)} : arriving' = s
    /\ UNCHANGED <<refreshVars, pending, wake, timer, jobs, headers>>

Newer(s, t) == s.at >= t.at

\* A figure of the candidate replaces one that is not newer than itself.
MergedRows(old, new) ==
    [c \in Components |->
        IF new[c] # 0 /\ (old[c] = 0 \/ new[c] >= old[c]) THEN new[c] ELSE old[c]]

\* mergePendingUsageHeaderCacheSnapshot
MergeSnapshot(old, new) ==
    IF old.gen # new.gen THEN (IF new.gen > old.gen THEN new ELSE old)
    ELSE [(IF Newer(new, old) THEN new ELSE old) EXCEPT !.rows = MergedRows(old.rows, new.rows)]

\* oldestPendingUsageHeaderSnapshot; ties go to one of the keys.
IsOldest(s) == s \in pending /\ \A t \in pending : s.at <= t.at

\* mergePendingUsageHeaderSnapshotPointers for one snapshot.
Stored(s) ==
    IF \E t \in pending : Key(t) = Key(s)
    THEN {{IF Key(t) = Key(s) THEN MergeSnapshot(t, s) ELSE t : t \in pending}}
    ELSE IF Cardinality(pending) < PendingLimit
    THEN {pending \cup {s}}
    ELSE {IF Newer(s, t) THEN (pending \ {t}) \cup {s} ELSE pending : t \in {t \in pending : IsOldest(t)}}

\* Under usageHeaderMu: refused once the worker is told to stop.
StoreSnapshot ==
    /\ arriving # None
    /\ IF headers \in {"last", "done"}
       THEN UNCHANGED <<pending, wake>>
       ELSE pending' \in Stored(arriving) /\ wake' = (wake \/ pending' # {})
    /\ arriving' = None
    /\ UNCHANGED <<refreshVars, captured, timer, jobs, headers>>

\* A wake opens the window once; a wake without anything pending is ignored.
WorkerWakes ==
    /\ headers = "run" /\ wake
    /\ wake' = FALSE
    /\ timer' = (timer \/ pending # {})
    /\ UNCHANGED <<refreshVars, captured, pending, arriving, jobs, headers>>

\* The figures of one snapshot that share an observation time go in together,
\* the older ones first; a Codex snapshot is applied as a whole.
Part(s, t) ==
    IF t = 0 THEN <<>>
    ELSE <<[at |-> t, rows |-> [c \in Components |-> IF s.rows[c] = t THEN t ELSE 0]]>>

PartsOf(s) ==
    LET five == s.rows["five"]
        seven == s.rows["seven"]
    IN  CASE s.kind = "codex" -> <<[at |-> s.at, rows |-> s.rows]>>
          [] s.kind # "codex" /\ five = seven -> Part(s, five)
          [] s.kind # "codex" /\ five < seven -> Part(s, five) \o Part(s, seven)
          [] s.kind # "codex" /\ five > seven -> Part(s, seven) \o Part(s, five)

Job(s) == [auth |-> s.auth, kind |-> s.kind, gen |-> s.gen, parts |-> PartsOf(s), phase |-> "lookup"]

\* The window ends: the whole map is swapped out under the lock.
TimerFires ==
    /\ headers = "run" /\ timer
    /\ jobs' = {Job(s) : s \in pending} /\ pending' = {}
    /\ timer' = FALSE
    /\ headers' = "flush"
    /\ UNCHANGED <<refreshVars, captured, arriving, wake>>

\* stopUsageHeaderSnapshotWorker, called when the refresh tasks are stopped.
WorkerStops ==
    /\ headers = "run" /\ closing
    /\ jobs' = {Job(s) : s \in pending} /\ pending' = {}
    /\ timer' = FALSE
    /\ headers' = "last"
    /\ UNCHANGED <<refreshVars, captured, arriving, wake>>

\* The identity is looked up once per flush and has to be of the snapshot's type.
LookUp(j) ==
    /\ j.phase = "lookup"
    /\ jobs' = (jobs \ {j}) \cup
          (IF kind[j.auth] = j.kind /\ j.parts # <<>> THEN {[j EXCEPT !.phase = "check"]} ELSE {})
    /\ UNCHANGED <<refreshVars, captured, pending, arriving, wake, timer, headers>>

\* shouldProcessUsageHeaderQuotaSnapshot, and the second test of the publication.
MayPublish(j) ==
    LET t == tasks[j.auth]
    IN /\ j.gen = generation
       /\ t # None /\ t.kind = j.kind =>
            /\ ~Active(t)
            /\ ~(t.status = "completed" /\ t.at >= Head(j.parts).at)

NextPart(j) ==
    IF Len(j.parts) = 1 THEN {} ELSE {[j EXCEPT !.parts = Tail(@), !.phase = "check"]}

CheckPart(j) ==
    /\ j.phase = "check"
    /\ jobs' = (jobs \ {j}) \cup
                  (IF MayPublish(j) THEN {[j EXCEPT !.phase = "merge"]} ELSE NextPart(j))
    /\ UNCHANGED <<refreshVars, captured, pending, arriving, wake, timer, headers>>

\* mergeUsageHeaderQuotaResponse: the header's figures over the ones it lacks; a
\* flag that is not newer than the record is left out.
PublishedRows(t, part, k) ==
    LET old == IF t # None /\ t.kind = k THEN t.rows ELSE NoRows
        stale == /\ k = "codex" /\ t # None /\ t.kind = k
                 /\ t.status = "completed" /\ t.at >= part.rows["flag"]
    IN [c \in Components |->
          IF part.rows[c] # 0 /\ ~(c = "flag" /\ stale) THEN part.rows[c] ELSE old[c]]

HeaderRecord(j) ==
    [id |-> 0, gen |-> 0, source |-> "usage_header", kind |-> j.kind, status |-> "completed",
     http |-> FALSE, expired |-> FALSE, at |-> Head(j.parts).at,
     rows |-> PublishedRows(tasks[j.auth], Head(j.parts), j.kind)]

\* Variant with a fault: the record is replaced without looking at it again.
PublishUnchecked(j) ==
    /\ tasks' = [tasks EXCEPT ![j.auth] = HeaderRecord(j)]
    /\ jobs' = (jobs \ {j}) \cup NextPart(j)

\* mergeUsageHeaderQuotaCache, under refreshMu.
Publish(j) ==
    /\ tasks' = IF MayPublish(j) THEN [tasks EXCEPT ![j.auth] = HeaderRecord(j)] ELSE tasks
    /\ jobs' = (jobs \ {j}) \cup NextPart(j)

MergePart(j) ==
    /\ j.phase = "merge"
    /\ Publish(j)
    /\ UNCHANGED <<generation, scans, dispatchers, workers, inspection, autoRunning, closing, abandoned, overlapped,
                   kind, clock, started, captured, pending, arriving, wake, timer, headers>>

FlushEnds ==
    /\ headers \in {"flush", "last"} /\ jobs = {}
    /\ headers' = IF headers = "flush" THEN "run" ELSE "done"
    /\ UNCHANGED <<refreshVars, captured, pending, arriving, wake, timer, jobs>>

\* A recalculation takes usageHeaderMu inside refreshMu and empties the map too.
InvalidateWithHeaders ==
    /\ InvalidateTasks
    /\ pending' = {}
    /\ UNCHANGED <<scans, dispatchers, workers, autoRunning, closing, abandoned, overlapped, kind, clock, started,
                   captured, arriving, wake, timer, jobs, headers>>

\* Metadata sync finds another type under the same auth_index.
ChangeKind(a) ==
    /\ kind[a] = "codex"
    /\ kind' = [kind EXCEPT ![a] = "claude"]
    /\ UNCHANGED <<tasks, generation, scans, dispatchers, workers, inspection, autoRunning, closing, abandoned, overlapped, clock, started, headerVars>>

Tick ==
    /\ clock < MaxTime
    /\ clock' = clock + 1
    /\ UNCHANGED <<tasks, generation, scans, dispatchers, workers, inspection, autoRunning, closing, abandoned, overlapped, kind, started, headerVars>>

HeaderStep ==
    \/ StoreSnapshot \/ WorkerWakes \/ TimerFires \/ WorkerStops \/ FlushEnds
    \/ \E j \in jobs : LookUp(j) \/ CheckPart(j) \/ MergePart(j)

HeaderRequests ==
    CaptureSnapshot \/ InvalidateWithHeaders \/ Tick \/ \E a \in Auths : ChangeKind(a)

QuotaNext ==
    \/ (RefreshStep \/ RefreshRequests) /\ UNCHANGED headerVars
    \/ HeaderStep \/ HeaderRequests

QuotaSpec == RefreshInit /\ HeadersInit /\ [][QuotaNext]_<<refreshVars, headerVars>>

-----------------------------------------------------------------------------
(* While a record of one type stands, the limit flag of a Codex account and *)
(* the windows of a Claude account only move forward in observation time,   *)
(* however late and in whatever order headers, flushes and refreshes of the *)
(* same credential come.                                                    *)
NeverOlder ==
    [][\A a \in Auths : \A c \in {"flag", "five", "seven"} :
          /\ tasks[a] # None /\ tasks'[a] # None
          /\ tasks[a].kind = tasks'[a].kind /\ tasks[a].rows[c] # 0 /\ tasks'[a].rows[c] # 0
          => tasks'[a].rows[c] >= tasks[a].rows[c]]_<<tasks>>

(* No accepted snapshot is forgotten: while the map holds one, a wake-up or *)
(* an open window will bring the worker to it, however stores, flushes and  *)
(* recalculations interleave, and the stopped worker leaves the map empty.  *)
NoSnapshotForgotten ==
    /\ pending # {} /\ headers # "done" => wake \/ timer
    /\ headers \in {"last", "done"} => pending = {}

(* What the rounds, the inspections and the header worker promise together  *)
(* about the one map of tasks they share.                                   *)
RefreshSound == OneCallPerCredential /\ CompletedMeansEnded /\ NoSnapshotForgotten
=============================================================================
