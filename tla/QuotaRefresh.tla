---------------------------- MODULE QuotaRefresh ----------------------------
(***************************************************************************)
(* The quota service's refresh tasks: manual requests, inspections and     *)
(* scheduled rounds queue one task per credential in a shared map, a       *)
(* dispatcher per round hands them to a bounded number of workers, and a   *)
(* recalculation of costs empties the map under a new generation while     *)
(* scans, dispatchers and workers of the old one are still at work.        *)
(*                                                                         *)
(* A worker changes its record only while the map still holds that very    *)
(* record, so a record lives in the map and everyone else keeps a          *)
(* reference to it.  What a provider answers is one of a few verdicts;     *)
(* expiry is the flag that TTLElapses raises on a failed task.             *)
(***************************************************************************)
EXTENDS Naturals, Sequences, FiniteSets, SequencesExt

CONSTANTS
    Auths,            \* credentials, by auth_index
    Unsupported,      \* those of a type that no provider handles
    Callers,          \* concurrent requests, subset of the four below
    WorkerLimit,      \* RefreshWorkerLimit
    MaxGeneration,    \* bound on the recalculations
    MaxRounds,        \* bound on the requests and rounds
    None

ASSUME RefreshAssumption ==
    /\ IsFiniteSet(Auths) /\ Unsupported \subseteq Auths
    /\ Callers \subseteq {"manual", "inspection", "inspection2", "scheduled"}
    /\ WorkerLimit \in Nat \ {0} /\ MaxGeneration \in Nat /\ MaxRounds \in Nat

VARIABLES
    tasks,        \* refreshTasks: the current record of each credential
    generation,   \* cacheGeneration
    scans,        \* what each caller is scanning, None when it is not
    dispatchers,  \* the goroutines that wait for worker slots
    workers,      \* the goroutines that hold a slot: reference and phase
    inspection,   \* the explicit inspection round: active, set, completed
    autoRunning,  \* autoRefreshRunning
    closing,      \* refreshClosing, and with it the cancelled context
    abandoned,    \* history: credentials queued by a request that then failed
    overlapped,   \* history: did two inspections start at the same time?
    kind,         \* the type of each credential in usage_identities
    clock,        \* time of the latest observation
    started       \* rounds started so far

refreshVars == <<tasks, generation, scans, dispatchers, workers, inspection,
                 autoRunning, closing, abandoned, overlapped, kind, clock, started>>

Components == {"main", "flag", "five", "seven"}
ComponentsOf(k) ==
    IF k = "codex" THEN {"main", "flag"} ELSE {"five", "seven"}
NoRows == [c \in Components |-> 0]

Kinds == {"codex", "claude"}
Records ==
    [id : Nat, gen : Nat, source : {"manual", "inspection", "scheduled", "usage_header"},
     kind : Kinds, status : {"queued", "running", "failed", "completed"},
     http : BOOLEAN, expired : BOOLEAN, at : Nat, rows : [Components -> Nat]]

ASSUME NoneAssumption == None \notin Records

SourceOf(c) == IF c = "inspection2" THEN "inspection" ELSE c

Active(t) == t # None /\ t.status \in {"queued", "running"}

\* A cached 401 or 402 that the scheduled round will not try again yet.
CachedError(t) == t # None /\ t.status = "failed" /\ t.http /\ ~t.expired

\* refreshTaskCurrentLocked: the generation, and the very record in the map.
Current(ref) ==
    /\ ref.gen = generation
    /\ tasks[ref.auth] # None /\ tasks[ref.auth].id = ref.id

Held == (UNION {Range(scans[c].queue) : c \in {c \in Callers : scans[c] # None}})
        \cup (UNION {d.all : d \in dispatchers}) \cup {w.ref : w \in workers}

\* An id for a new record of a that no goroutine and not the map uses.
FreshId(a) ==
    CHOOSE n \in 1 .. Cardinality(Held) + 2 :
        /\ \A ref \in Held : ref.auth = a => ref.id # n
        /\ tasks[a] = None \/ tasks[a].id # n
        /\ \A m \in 1 .. n - 1 : (\E ref \in Held : ref.auth = a /\ ref.id = m)
                                 \/ (tasks[a] # None /\ tasks[a].id = m)

NewTask(a, source) ==
    [id |-> FreshId(a), gen |-> generation, source |-> source, kind |-> kind[a],
     status |-> "queued", http |-> FALSE, expired |-> FALSE, at |-> 0, rows |-> NoRows]

Failed(t, http) == [t EXCEPT !.status = "failed", !.http = http, !.at = clock]

Unexpired(map) == [a \in Auths |-> IF map[a] # None /\ map[a].expired THEN None ELSE map[a]]

\* markQueuedRefreshTasksFailed over a set of references.
FailAll(map, refs) ==
    [a \in Auths |->
        IF \E ref \in refs : ref.auth = a /\ Current(ref) /\ Active(map[a])
        THEN Failed(map[a], FALSE) ELSE map[a]]

NoInspection == [active |-> FALSE, set |-> {}, completed |-> FALSE]

RefreshInit ==
    /\ tasks = [a \in Auths |-> None]
    /\ generation = 0
    /\ scans = [c \in Callers |-> None]
    /\ dispatchers = {} /\ workers = {}
    /\ inspection = NoInspection
    /\ autoRunning = FALSE /\ closing = FALSE /\ overlapped = FALSE /\ abandoned = {}
    /\ kind \in [Auths -> {"codex", "claude"}]
    /\ clock = 1 /\ started = 0

-----------------------------------------------------------------------------
(* The three callers.  A scan remembers what it queued and, for an          *)
(* inspection, whose results it waits for.                                  *)

NewScan(todo) == [todo |-> todo, gen |-> generation, queue |-> <<>>, adopted |-> {},
                  invalidated |-> FALSE]

Credentials == SetToSeq(Auths)

StartRound == started < MaxRounds /\ started' = started + 1

StartRefresh ==
    /\ StartRound
    /\ "manual" \in Callers /\ scans["manual"] = None
    /\ \E requested \in (SUBSET Auths) \ {{}} :
          scans' = [scans EXCEPT !["manual"] = NewScan(SetToSeq(requested))]
    /\ tasks' = Unexpired(tasks)
    /\ UNCHANGED <<generation, dispatchers, workers, inspection, autoRunning, closing, abandoned, overlapped, kind, clock>>

\* Variant with a fault: the new inspection drops the tasks that still run.
WithoutAny(map) == [a \in Auths |-> None]

WithoutEnded(map) == [a \in Auths |-> IF Active(map[a]) THEN map[a] ELSE None]

\* beginInspectionRound: the old results and the old round go in one step.
BeginInspectionRound(c) ==
    /\ tasks' = WithoutEnded(tasks)
    /\ inspection' = NoInspection
    /\ scans' = [scans EXCEPT ![c] = NewScan(Credentials)]

StartInspection(c) ==
    /\ StartRound
    /\ SourceOf(c) = "inspection" /\ scans[c] = None
    /\ BeginInspectionRound(c)
    /\ overlapped' = \E d \in Callers \ {c} : SourceOf(d) = "inspection" /\ scans[d] # None
    /\ UNCHANGED <<generation, dispatchers, workers, autoRunning, closing, abandoned, kind, clock>>

RunAutoRefresh ==
    /\ StartRound
    /\ "scheduled" \in Callers /\ scans["scheduled"] = None /\ ~autoRunning
    /\ autoRunning' = TRUE
    /\ tasks' = Unexpired(tasks)
    /\ scans' = [scans EXCEPT !["scheduled"] = NewScan(Credentials)]
    /\ UNCHANGED <<generation, dispatchers, workers, inspection, closing, abandoned, overlapped, kind, clock>>

Invalidated(s) == [s EXCEPT !.todo = <<>>, !.invalidated = TRUE]
Skipped(s) == [s EXCEPT !.todo = Tail(@)]
Adopted(s, a) == [Skipped(s) EXCEPT !.adopted = @ \cup {a}]
NewRef(a) == [auth |-> a, id |-> FreshId(a), gen |-> generation, kind |-> kind[a]]
Queued(s, a) == [Adopted(s, a) EXCEPT !.queue = Append(@, NewRef(a))]

\* ensureRefreshTaskWithIdentityAtGeneration, under refreshMu.
EnsureTask(c, a) ==
    \/ /\ SourceOf(c) # "manual" /\ scans[c].gen # generation
       /\ scans' = [scans EXCEPT ![c] = Invalidated(@)]
       /\ UNCHANGED tasks
    \/ /\ SourceOf(c) = "manual" \/ scans[c].gen = generation
       /\ IF Active(tasks[a])
          THEN /\ scans' = [scans EXCEPT ![c] =
                               IF tasks[a].source = SourceOf(c) THEN Adopted(@, a) ELSE Skipped(@)]
               /\ UNCHANGED tasks
          ELSE /\ tasks' = [tasks EXCEPT ![a] = NewTask(a, SourceOf(c))]
               /\ scans' = [scans EXCEPT ![c] = Queued(@, a)]

\* One identity of Refresh or of queueCredentialRefreshRound.
ScanOne(c) ==
    /\ scans[c] # None /\ scans[c].todo # <<>>
    /\ LET a == Head(scans[c].todo)
       IN IF \/ a \in Unsupported
             \/ SourceOf(c) = "scheduled" /\ CachedError(tasks[a])
          THEN /\ scans' = [scans EXCEPT ![c] = Skipped(@)]
               /\ UNCHANGED tasks
          ELSE EnsureTask(c, a)
    /\ UNCHANGED <<generation, dispatchers, workers, inspection, autoRunning, closing, abandoned, overlapped, kind, clock, started>>

\* The lookup of an identity fails: a manual request returns its error at once.
ValidateFails ==
    /\ "manual" \in Callers
    /\ scans["manual"] # None /\ scans["manual"].todo # <<>>
    /\ abandoned' = abandoned \cup {ref.auth : ref \in Range(scans["manual"].queue)}
    /\ scans' = [scans EXCEPT !["manual"] = None]
    /\ UNCHANGED <<tasks, generation, dispatchers, workers, inspection, autoRunning, closing, overlapped, kind, clock, started>>

\* Variant with a fault: what was queued for a dispatcher that cannot start any
\* more is left as it is.
StartDispatcherOrNothing(c) ==
    LET queue == scans[c].queue
    IN IF queue = <<>> \/ closing
       THEN UNCHANGED <<tasks, dispatchers>>
       ELSE /\ dispatchers' = dispatchers \cup
                  {[source |-> SourceOf(c), rest |-> queue, all |-> Range(queue)]}
            /\ UNCHANGED tasks

\* startRefreshGoroutine(dispatch...), or every queued task fails at once.
StartDispatcher(c) ==
    LET queue == scans[c].queue
    IN IF queue = <<>>
       THEN UNCHANGED <<tasks, dispatchers>>
       ELSE IF closing
       THEN tasks' = FailAll(tasks, Range(queue)) /\ UNCHANGED dispatchers
       ELSE /\ dispatchers' = dispatchers \cup
                  {[source |-> SourceOf(c), rest |-> queue, all |-> Range(queue)]}
            /\ UNCHANGED tasks

FinishRefresh ==
    /\ "manual" \in Callers
    /\ scans["manual"] # None /\ scans["manual"].todo = <<>>
    /\ StartDispatcher("manual")
    /\ scans' = [scans EXCEPT !["manual"] = None]
    /\ UNCHANGED <<generation, workers, inspection, autoRunning, closing, abandoned, overlapped, kind, clock, started>>

\* setInspectionRoundAuthIndexes compares the generation once more.
FinishInspection(c) ==
    /\ SourceOf(c) = "inspection"
    /\ scans[c] # None /\ scans[c].todo = <<>>
    /\ IF scans[c].invalidated \/ scans[c].gen # generation
       THEN UNCHANGED <<tasks, dispatchers, inspection>>
       ELSE /\ inspection' = [inspection EXCEPT !.active = TRUE, !.set = scans[c].adopted]
            /\ StartDispatcher(c)
    /\ scans' = [scans EXCEPT ![c] = None]
    /\ UNCHANGED <<generation, workers, autoRunning, closing, abandoned, overlapped, kind, clock, started>>

\* The round stays active while its dispatcher runs; without one it ends here.
FinishAutoRefresh ==
    /\ "scheduled" \in Callers
    /\ scans["scheduled"] # None /\ scans["scheduled"].todo = <<>>
    /\ IF scans["scheduled"].invalidated \/ scans["scheduled"].gen # generation
       THEN autoRunning' = FALSE /\ UNCHANGED <<tasks, dispatchers>>
       ELSE /\ StartDispatcher("scheduled")
            /\ autoRunning' = (scans["scheduled"].queue # <<>> /\ ~closing)
    /\ scans' = [scans EXCEPT !["scheduled"] = None]
    /\ UNCHANGED <<generation, workers, inspection, closing, abandoned, overlapped, kind, clock, started>>

-----------------------------------------------------------------------------
(* Dispatchers and workers.                                                 *)

Advance(d, e) == dispatchers' = (dispatchers \ {d}) \cup {e}

\* A slot is free: start the worker, unless the service closes meanwhile.
Dispatch(d) ==
    /\ d.rest # <<>> /\ Cardinality(workers) < WorkerLimit
    /\ IF closing
       THEN /\ tasks' = FailAll(tasks, Range(d.rest))
            /\ Advance(d, [d EXCEPT !.rest = <<>>])
            /\ UNCHANGED workers
       ELSE /\ workers' = workers \cup {[ref |-> Head(d.rest), phase |-> "start"]}
            /\ Advance(d, [d EXCEPT !.rest = Tail(@)])
            /\ UNCHANGED tasks
    /\ UNCHANGED <<generation, scans, inspection, autoRunning, closing, abandoned, overlapped, kind, clock, started>>

\* The context is cancelled while the dispatcher waits for a slot.
DispatchCancelled(d) ==
    /\ d.rest # <<>> /\ closing
    /\ tasks' = FailAll(tasks, Range(d.rest))
    /\ Advance(d, [d EXCEPT !.rest = <<>>])
    /\ UNCHANGED <<generation, scans, workers, inspection, autoRunning, closing, abandoned, overlapped, kind, clock, started>>

\* hasActiveRefreshTask: a scheduled task of this round, by its record.
RoundActive(d) ==
    \E ref \in d.all :
        /\ tasks[ref.auth] # None /\ tasks[ref.auth].id = ref.id /\ tasks[ref.auth].gen = ref.gen
        /\ tasks[ref.auth].source = "scheduled" /\ Active(tasks[ref.auth])

DispatcherEnds(d) ==
    /\ d.rest = <<>>
    /\ d.source = "scheduled" => closing \/ ~RoundActive(d)
    /\ dispatchers' = dispatchers \ {d}
    /\ autoRunning' = IF d.source = "scheduled" THEN FALSE ELSE autoRunning
    /\ UNCHANGED <<tasks, generation, scans, workers, inspection, closing, abandoned, overlapped, kind, clock, started>>

\* markRefreshTaskRunning; a task that is gone only gives the slot back.
MarkRunning(w) ==
    /\ w.phase = "start"
    /\ IF Current(w.ref) /\ tasks[w.ref.auth].status = "queued"
       THEN /\ tasks' = [tasks EXCEPT ![w.ref.auth].status = "running"]
            /\ workers' = (workers \ {w}) \cup {[w EXCEPT !.phase = "call"]}
       ELSE /\ workers' = workers \ {w}
            /\ UNCHANGED tasks
    /\ UNCHANGED <<generation, scans, dispatchers, inspection, autoRunning, closing, abandoned, overlapped, kind, clock, started>>

\* The rows of a successful query, all observed now.
FullRows(k) == [c \in Components |-> IF c \in ComponentsOf(k) THEN clock ELSE 0]

\* markRefreshTaskCompleted, markRefreshTaskFailed and deleteRefreshTask.
EndTask(ref, verdict) ==
    LET a == ref.auth
    IN IF ~Current(ref) \/ ~Active(tasks[a])
       THEN tasks
       ELSE CASE verdict = "completed" /\ tasks[a].status = "running" ->
                     [tasks EXCEPT ![a].status = "completed", ![a].at = clock,
                                   ![a].rows = FullRows(tasks[a].kind)]
              [] verdict = "unsupported" -> [tasks EXCEPT ![a] = None]
              [] verdict \in {"failed", "http"} ->
                     [tasks EXCEPT ![a] = Failed(tasks[a], verdict = "http")]
              [] OTHER -> tasks

\* The provider has answered: publish, and give the slot back after the cooldown.
EndCall(w) ==
    /\ w.phase = "call"
    /\ \E verdict \in {"completed", "failed", "http", "unsupported"} :
          tasks' = EndTask(w.ref, verdict)
    /\ workers' = workers \ {w}
    /\ UNCHANGED <<generation, scans, dispatchers, inspection, autoRunning, closing, abandoned, overlapped, kind, clock, started>>

-----------------------------------------------------------------------------
(* Time, reads, recalculation and shutdown.                                 *)

TTLElapses(a) ==
    /\ tasks[a] # None /\ tasks[a].status = "failed" /\ ~tasks[a].expired
    /\ tasks' = [tasks EXCEPT ![a].expired = TRUE]
    /\ UNCHANGED <<generation, scans, dispatchers, workers, inspection, autoRunning, closing, abandoned, overlapped, kind, clock, started>>

\* GetCachedQuota and GetRefreshTaskByAuthIndex drop what has expired; the full
\* clean-up runs at most once a minute.
ReadTask(a) ==
    /\ tasks[a] # None /\ tasks[a].expired
    /\ tasks' \in {[tasks EXCEPT ![a] = None], Unexpired(tasks)}
    /\ UNCHANGED <<generation, scans, dispatchers, workers, inspection, autoRunning, closing, abandoned, overlapped, kind, clock, started>>

RunningInspection(map) ==
    \E a \in inspection.set :
        /\ Active(map[a]) /\ map[a].source = "inspection"
        /\ inspection.active /\ ~inspection.completed

\* inspectionRoundCompletedLocked
RoundCompleted(map) ==
    /\ inspection.active /\ inspection.set # {}
    /\ \/ inspection.completed
       \/ \A a \in inspection.set : ~(Active(map[a]) /\ map[a].source = "inspection")

\* GetInspectionStatus records the completion it is the first to see.
GetInspectionStatus ==
    /\ LET map == Unexpired(tasks)
       IN /\ ~inspection.completed
          /\ ~RunningInspection(map) /\ RoundCompleted(map)
          /\ tasks' = map
    /\ inspection' = [inspection EXCEPT !.completed = TRUE]
    /\ UNCHANGED <<generation, scans, dispatchers, workers, autoRunning, closing, abandoned, overlapped, kind, clock, started>>

\* InvalidateStoredCostCache; the time of the last completed inspection stays.
InvalidateTasks ==
    /\ generation < MaxGeneration
    /\ generation' = generation + 1
    /\ tasks' = [a \in Auths |-> None]
    /\ inspection' = [inspection EXCEPT !.active = FALSE, !.set = {}]

InvalidateStoredCostCache ==
    /\ InvalidateTasks
    /\ UNCHANGED <<scans, dispatchers, workers, autoRunning, closing, abandoned, overlapped, kind, clock, started>>

StopRefreshTasks ==
    /\ ~closing
    /\ closing' = TRUE
    /\ UNCHANGED <<tasks, generation, scans, dispatchers, workers, inspection, autoRunning, abandoned, overlapped, kind, clock, started>>

RefreshStep ==
    \/ \E c \in Callers : ScanOne(c)
    \/ ValidateFails
    \/ FinishRefresh \/ FinishAutoRefresh
    \/ \E c \in Callers : FinishInspection(c)
    \/ \E d \in dispatchers : Dispatch(d) \/ DispatchCancelled(d) \/ DispatcherEnds(d)
    \/ \E w \in workers : MarkRunning(w) \/ EndCall(w)

RefreshRequests ==
    \/ StartRefresh
    \/ RunAutoRefresh
    \/ \E c \in Callers : StartInspection(c)
    \/ \E a \in Auths : TTLElapses(a) \/ ReadTask(a)
    \/ GetInspectionStatus
    \/ StopRefreshTasks

-----------------------------------------------------------------------------
(* At any moment at most one worker queries the provider for a credential,  *)
(* whatever the mix of manual requests, inspections and scheduled rounds;   *)
(* a worker of an older generation or of a type the credential had before   *)
(* may still be on its way.                                                 *)
OneCallPerCredential ==
    \A a \in Auths :
        Cardinality({w \in workers : /\ w.phase = "call" /\ w.ref.auth = a
                                     /\ w.ref.gen = generation /\ w.ref.kind = kind[a]}) <= 1

(* An inspection that is reported as completed has no task of its own left  *)
(* to run (unless two of them were started at the same time: then the later *)
(* one inherits the completion that a reader recorded for the earlier).     *)
CompletedMeansEnded ==
    inspection.completed /\ ~overlapped =>
        \A a \in inspection.set : ~(Active(tasks[a]) /\ tasks[a].source = "inspection")

(* No task stays queued or running for ever and no scheduled round stays    *)
(* open for ever: every path out of a scan, a dispatcher and a worker ends  *)
(* the tasks it was given and returns the slot it holds.  Left out are the  *)
(* tasks of a request whose next lookup failed (see QueuedTasksEnd).        *)
TasksEnd ==
    /\ \A a \in Auths : []<>(~Active(tasks[a]) \/ a \in abandoned)
    /\ []<>~autoRunning

(* What the comments of Refresh promise, without exception: a task that was *)
(* created does not stay queued for ever.                                   *)
QueuedTasksEnd == \A a \in Auths : []<>~Active(tasks[a])
=============================================================================
