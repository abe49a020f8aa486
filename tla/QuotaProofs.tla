----------------------------- MODULE QuotaProofs -----------------------------
(***************************************************************************)
(* Proofs about QuotaRefresh and QuotaHeaders, for any number of           *)
(* credentials, rounds, snapshots and recalculations, and any limits.      *)
(***************************************************************************)
EXTENDS QuotaHeaders, FiniteSetTheorems, SequenceTheorems, TLAPS

vars == <<refreshVars, headerVars>>

-----------------------------------------------------------------------------
(* Types.                                                                   *)

Refs == [auth : Auths, id : Nat, gen : Nat, kind : Kinds]
Scans == [todo : Seq(Auths), gen : Nat, queue : Seq(Refs), adopted : SUBSET Auths,
          invalidated : BOOLEAN]
Figures == [Components -> Nat]
Snaps == [auth : Auths, kind : Kinds, at : Nat, gen : Nat, rows : Figures]
Parts == [at : Nat, rows : Figures]
Jobs == [auth : Auths, kind : Kinds, gen : Nat, parts : Seq(Parts),
         phase : {"lookup", "check", "merge"}]

TasksOK == tasks \in [Auths -> Records \cup {None}] /\ generation \in Nat /\ clock \in Nat
ScansOK == scans \in [Callers -> Scans \cup {None}]
GoroutinesOK ==
    /\ dispatchers \in SUBSET [source : {"manual", "inspection", "scheduled"},
                               rest : Seq(Refs), all : SUBSET Refs]
    /\ workers \in SUBSET [ref : Refs, phase : {"start", "call"}]
    /\ \A d \in dispatchers : Range(d.rest) \subseteq d.all
    /\ IsFiniteSet(Held)
RoundsOK ==
    /\ inspection \in [active : BOOLEAN, set : SUBSET Auths, completed : BOOLEAN]
    /\ autoRunning \in BOOLEAN /\ closing \in BOOLEAN /\ overlapped \in BOOLEAN
    /\ abandoned \in SUBSET Auths /\ kind \in [Auths -> Kinds] /\ started \in Nat
HeadersOK ==
    /\ pending \in SUBSET Snaps /\ captured \in Nat /\ arriving \in Snaps \cup {None}
    /\ wake \in BOOLEAN /\ timer \in BOOLEAN /\ jobs \in SUBSET Jobs
    /\ headers \in {"run", "flush", "last", "done"}
    /\ \A j \in jobs : j.phase # "lookup" => j.parts # <<>>

TypeOK == TasksOK /\ ScansOK /\ GoroutinesOK /\ RoundsOK /\ HeadersOK

LEMMA SourceTypes ==
    \A c \in Callers : SourceOf(c) \in {"manual", "inspection", "scheduled"}
BY RefreshAssumption DEF SourceOf

LEMMA Listed ==
    ASSUME NEW S \in SUBSET Auths
    PROVE  SetToSeq(S) \in Seq(Auths)
<1>1. IsFiniteSet(S)
  BY RefreshAssumption, FS_Subset
<1> DEFINE n == Cardinality(S)
<1>2. n \in Nat /\ ExistsBijection(1..n, S)
  BY <1>1, FS_CardinalityType
<1>3. \E f \in [1..n -> S] : IsInjective(f)
  BY <1>2 DEF ExistsBijection, Bijection, Injection
<1>4. SetToSeq(S) \in [1..n -> S]
  BY <1>3 DEF SetToSeq
<1> HIDE DEF n
<1>5. SetToSeq(S) \in Seq(S)
  BY <1>2, <1>4
<1> QED
  BY <1>5

LEMMA Least ==
    ASSUME NEW T \in SUBSET Nat, T # {}
    PROVE  \E x \in T : \A y \in T : x <= y
<1> DEFINE R == OpToRel(<, Nat)
<1>1. IsWellFoundedOn(R, Nat)
  BY NatLessThanWellFounded
<1>2. \A x, y \in Nat : x < y => <<x, y>> \in R
  BY DEF OpToRel
<1> HIDE DEF R
<1>3. PICK x \in T : \A y \in T : ~(<<y, x>> \in R)
  BY <1>1, WFMin
<1>4. ASSUME NEW y \in T PROVE x <= y
  <2>1. x \in Nat /\ y \in Nat
    OBVIOUS
  <2>2. ~(y < x)
    BY <1>2, <1>3, <2>1
  <2> QED
    BY <2>1, <2>2
<1> QED
  BY <1>4

\* A new record gets an id that no record or reference of its credential has.
LEMMA FreshIsFresh ==
    ASSUME TypeOK, NEW a \in Auths
    PROVE  /\ FreshId(a) \in Nat
           /\ \A ref \in Held : ref.auth = a => ref.id # FreshId(a)
           /\ tasks[a] = None \/ tasks[a].id # FreshId(a)
<1> DEFINE K == Cardinality(Held) + 2
           S == {ref \in Held : ref.auth = a}
           f == [ref \in S |-> ref.id]
           T == {f[ref] : ref \in S}
           U == T \cup {tasks[a].id}
           Free(n) == /\ \A ref \in Held : ref.auth = a => ref.id # n
                      /\ tasks[a] = None \/ tasks[a].id # n
           Taken(n) == (\E ref \in Held : ref.auth = a /\ ref.id = n)
                       \/ (tasks[a] # None /\ tasks[a].id = n)
           Good == {n \in 1..K : Free(n)}
<1>1. IsFiniteSet(Held) /\ IsFiniteSet(S) /\ Cardinality(S) <= Cardinality(Held)
  BY FS_Subset DEF TypeOK, GoroutinesOK
<1>2. Cardinality(Held) \in Nat /\ Cardinality(S) \in Nat /\ K \in Nat
  BY <1>1, FS_CardinalityType
<1>3. f \in Surjection(S, T)
  BY DEF Surjection
<1>4. IsFiniteSet(T) /\ Cardinality(T) <= Cardinality(S)
  <2> HIDE DEF f, T, S
  <2> QED
    BY <1>1, <1>3, FS_Surjection
<1>5. Cardinality(T) \in Nat
  BY <1>4, FS_CardinalityType
<1>6. IsFiniteSet(U) /\ Cardinality(U) <= Cardinality(T) + 1
  <2> DEFINE x == tasks[a].id
  <2> HIDE DEF T, x
  <2>1. /\ IsFiniteSet(T \cup {x})
        /\ Cardinality(T \cup {x}) = IF x \in T THEN Cardinality(T) ELSE Cardinality(T) + 1
    BY <1>4, FS_AddElement
  <2>2. Cardinality(T \cup {x}) <= Cardinality(T) + 1
    BY <1>5, <2>1
  <2> QED
    BY <2>1, <2>2 DEF x
<1>7. IsFiniteSet(1..K) /\ Cardinality(1..K) = K
  BY <1>2, FS_Interval
<1>8. \E n \in 1..K : n \notin U
  <2> SUFFICES ASSUME 1..K \subseteq U PROVE FALSE
    OBVIOUS
  <2> DEFINE I == 1..K
  <2> HIDE DEF U, K, I
  <2>1. Cardinality(I) <= Cardinality(U)
    BY <1>6, FS_Subset DEF I
  <2>2. Cardinality(U) \in Nat
    BY <1>6, FS_CardinalityType
  <2> QED
    BY <1>1, <1>2, <1>4, <1>5, <1>6, <1>7, <2>1, <2>2 DEF K, I
<1>9. Good # {} /\ Good \subseteq Nat
  BY <1>2, <1>8
<1>10. PICK n \in Good : \A m \in Good : n <= m
  <2> HIDE DEF Good
  <2> QED
    BY <1>9, Least
<1>11. n \in 1..K /\ Free(n) /\ \A m \in 1..n - 1 : Taken(m)
  <2>1. n \in 1..K /\ Free(n)
    BY <1>10
  <2>2. ASSUME NEW m \in 1..n - 1 PROVE Taken(m)
    <3>1. m \in 1..K /\ ~(n <= m)
      BY <1>2, <2>1
    <3>2. ~Free(m)
      BY <1>10, <3>1
    <3> QED
      BY <3>2
  <2> QED
    BY <2>1, <2>2
<1>12. FreshId(a) = CHOOSE m \in 1..K : Free(m) /\ \A k \in 1..m - 1 : Taken(k)
  BY DEF FreshId
<1> HIDE DEF Taken
<1>13. FreshId(a) \in 1..K /\ Free(FreshId(a))
  <2> HIDE DEF Free, K
  <2> QED
    BY <1>11, <1>12
<1> QED
  BY <1>2, <1>13

-----------------------------------------------------------------------------
(* Which steps change what.                                                 *)

Scanning == \E c \in Callers : ScanOne(c)
Inspecting == \E c \in Callers : StartInspection(c)
InspectionFinishes == \E c \in Callers : FinishInspection(c)
Finishes == FinishRefresh \/ FinishAutoRefresh \/ InspectionFinishes
Dispatches == \E d \in dispatchers : Dispatch(d)
Cancels == \E d \in dispatchers : DispatchCancelled(d)
DispatcherLeaves == \E d \in dispatchers : DispatcherEnds(d)
Runs == \E w \in workers : MarkRunning(w)
CallEnds == \E w \in workers : EndCall(w)
Elapses == \E a \in Auths : TTLElapses(a)
ReadsTask == \E a \in Auths : ReadTask(a)
Merges == \E j \in jobs : MergePart(j)
JobMoves == \E j \in jobs : LookUp(j) \/ CheckPart(j)
KindChanges == \E a \in Auths : ChangeKind(a)

LEMMA Frames ==
    ASSUME [QuotaNext]_vars
    PROVE  /\ UNCHANGED tasks \/ StartRefresh \/ Inspecting \/ RunAutoRefresh \/ Scanning
              \/ Finishes \/ Dispatches \/ Cancels \/ Runs \/ CallEnds \/ Elapses \/ ReadsTask
              \/ GetInspectionStatus \/ Merges \/ InvalidateWithHeaders
           /\ UNCHANGED generation \/ InvalidateWithHeaders
           /\ UNCHANGED scans \/ StartRefresh \/ Inspecting \/ RunAutoRefresh \/ Scanning
              \/ ValidateFails \/ Finishes
           /\ UNCHANGED dispatchers \/ Finishes \/ Dispatches \/ Cancels \/ DispatcherLeaves
           /\ UNCHANGED workers \/ Dispatches \/ Runs \/ CallEnds
           /\ UNCHANGED inspection \/ Inspecting \/ InspectionFinishes \/ GetInspectionStatus
              \/ InvalidateWithHeaders
           /\ UNCHANGED autoRunning \/ RunAutoRefresh \/ FinishAutoRefresh \/ DispatcherLeaves
           /\ UNCHANGED closing \/ StopRefreshTasks
           /\ UNCHANGED abandoned \/ ValidateFails
           /\ UNCHANGED overlapped \/ Inspecting
           /\ UNCHANGED kind \/ KindChanges
           /\ UNCHANGED clock \/ Tick
           /\ UNCHANGED started \/ StartRound
           /\ UNCHANGED pending \/ StoreSnapshot \/ TimerFires \/ WorkerStops
              \/ InvalidateWithHeaders
           /\ UNCHANGED <<arriving, captured>> \/ CaptureSnapshot \/ StoreSnapshot
           /\ UNCHANGED wake \/ StoreSnapshot \/ WorkerWakes
           /\ UNCHANGED timer \/ WorkerWakes \/ TimerFires \/ WorkerStops
           /\ UNCHANGED jobs \/ TimerFires \/ WorkerStops \/ JobMoves \/ Merges
           /\ UNCHANGED headers \/ TimerFires \/ WorkerStops \/ FlushEnds
<1> USE DEF vars, refreshVars, headerVars, QuotaNext, RefreshStep, RefreshRequests, HeaderStep,
       HeaderRequests, Scanning, Inspecting, InspectionFinishes, Finishes, Dispatches, Cancels,
       DispatcherLeaves, Runs, CallEnds, Elapses, ReadsTask, Merges, JobMoves, KindChanges,
       StartRefresh, BeginInspectionRound, StartInspection, RunAutoRefresh, ScanOne,
       ValidateFails, FinishRefresh, FinishInspection, FinishAutoRefresh, Dispatch,
       DispatchCancelled, DispatcherEnds, MarkRunning, EndCall, TTLElapses, ReadTask,
       GetInspectionStatus, InvalidateTasks, StopRefreshTasks, CaptureSnapshot, StoreSnapshot,
       WorkerWakes, TimerFires, WorkerStops, LookUp, CheckPart, MergePart, Publish, FlushEnds,
       InvalidateWithHeaders, ChangeKind, Tick
<1>1. UNCHANGED tasks \/ StartRefresh \/ Inspecting \/ RunAutoRefresh \/ Scanning
              \/ Finishes \/ Dispatches \/ Cancels \/ Runs \/ CallEnds \/ Elapses \/ ReadsTask
              \/ GetInspectionStatus \/ Merges \/ InvalidateWithHeaders
  BY ZenonT(40)
<1>2. UNCHANGED generation \/ InvalidateWithHeaders
  BY ZenonT(40)
<1>3. UNCHANGED scans \/ StartRefresh \/ Inspecting \/ RunAutoRefresh \/ Scanning
              \/ ValidateFails \/ Finishes
  BY ZenonT(40)
<1>4. UNCHANGED dispatchers \/ Finishes \/ Dispatches \/ Cancels \/ DispatcherLeaves
  BY ZenonT(40)
<1>5. UNCHANGED workers \/ Dispatches \/ Runs \/ CallEnds
  BY ZenonT(40)
<1>6. UNCHANGED inspection \/ Inspecting \/ InspectionFinishes \/ GetInspectionStatus
              \/ InvalidateWithHeaders
  BY ZenonT(40)
<1>7. UNCHANGED autoRunning \/ RunAutoRefresh \/ FinishAutoRefresh \/ DispatcherLeaves
  BY ZenonT(40)
<1>8. UNCHANGED closing \/ StopRefreshTasks
  BY ZenonT(40)
<1>9. UNCHANGED abandoned \/ ValidateFails
  BY ZenonT(40)
<1>10. UNCHANGED overlapped \/ Inspecting
  BY ZenonT(40)
<1>11. UNCHANGED kind \/ KindChanges
  BY ZenonT(40)
<1>12. UNCHANGED clock \/ Tick
  BY ZenonT(40)
<1>13. UNCHANGED started \/ StartRound
  BY ZenonT(40)
<1>14. UNCHANGED pending \/ StoreSnapshot \/ TimerFires \/ WorkerStops
              \/ InvalidateWithHeaders
  BY ZenonT(40)
<1>15. UNCHANGED <<arriving, captured>> \/ CaptureSnapshot \/ StoreSnapshot
  BY ZenonT(40)
<1>16. UNCHANGED wake \/ StoreSnapshot \/ WorkerWakes
  BY ZenonT(40)
<1>17. UNCHANGED timer \/ WorkerWakes \/ TimerFires \/ WorkerStops
  BY ZenonT(40)
<1>18. UNCHANGED jobs \/ TimerFires \/ WorkerStops \/ JobMoves \/ Merges
  BY ZenonT(40)
<1>19. UNCHANGED headers \/ TimerFires \/ WorkerStops \/ FlushEnds
  BY ZenonT(40)
<1> QED
  BY <1>1, <1>2, <1>3, <1>4, <1>5, <1>6, <1>7, <1>8, <1>9, <1>10, <1>11, <1>12, <1>13, <1>14,
     <1>15, <1>16, <1>17, <1>18, <1>19

-----------------------------------------------------------------------------
(* What a step may do to the record of a credential.                        *)

Drops(a) == tasks'[a] = None
Queues(a) ==
    /\ ~Active(tasks[a])
    /\ \E c \in Callers : scans[c] # None /\ tasks'[a] = NewTask(a, SourceOf(c))
Fails(a) == Active(tasks[a]) /\ \E http \in BOOLEAN : tasks'[a] = Failed(tasks[a], http)
Begins(a) ==
    /\ tasks[a] # None /\ tasks[a].status = "queued"
    /\ tasks'[a] = [tasks[a] EXCEPT !.status = "running"]
Completes(a) ==
    /\ Active(tasks[a])
    /\ tasks'[a] = [tasks[a] EXCEPT !.status = "completed", !.at = clock,
                                    !.rows = FullRows(tasks[a].kind)]
Expires(a) ==
    /\ tasks[a] # None /\ tasks[a].status = "failed"
    /\ tasks'[a] = [tasks[a] EXCEPT !.expired = TRUE]
Publishes(a) ==
    \E j \in jobs : /\ j.auth = a /\ j.phase = "merge" /\ MayPublish(j)
                    /\ tasks'[a] = HeaderRecord(j)

LEMMA FailAllStep ==
    ASSUME NEW refs, NEW a \in Auths, tasks' = FailAll(tasks, refs)
    PROVE  tasks'[a] = tasks[a] \/ Fails(a)
BY DEF FailAll, Fails

LEMMA StartDispatcherStep ==
    ASSUME NEW c, StartDispatcher(c)
    PROVE  \/ tasks' = tasks
           \/ tasks' = FailAll(tasks, Range(scans[c].queue))
BY DEF StartDispatcher

LEMMA EndTaskStep ==
    ASSUME TypeOK, NEW w \in workers, NEW verdict \in {"completed", "failed", "http", "unsupported"},
           tasks' = EndTask(w.ref, verdict), NEW a \in Auths, a # w.ref.auth \/ Current(w.ref)
    PROVE  tasks'[a] = tasks[a] \/ Drops(a) \/ Fails(a) \/ Completes(a)
<1> DEFINE b == w.ref.auth
<1>1. b \in Auths /\ DOMAIN tasks = Auths
  BY DEF TypeOK, TasksOK, GoroutinesOK, Refs
<1>2. CASE ~Current(w.ref) \/ ~Active(tasks[b])
  BY <1>2 DEF EndTask
<1>3. CASE Active(tasks[b]) /\ verdict = "completed" /\ tasks[b].status = "running" /\ Current(w.ref)
  <2>1. tasks' = [tasks EXCEPT ![b].status = "completed", ![b].at = clock,
                               ![b].rows = FullRows(tasks[b].kind)]
    BY <1>3 DEF EndTask
  <2>2. a # b => tasks'[a] = tasks[a]
    BY <1>1, <2>1
  <2>3. a = b => tasks'[a] = [tasks[a] EXCEPT !.status = "completed", !.at = clock,
                                              !.rows = FullRows(tasks[a].kind)]
    BY <1>1, <2>1
  <2> QED
    BY <1>3, <2>2, <2>3 DEF Completes
<1>4. CASE verdict = "completed" /\ tasks[b].status # "running"
  BY <1>4 DEF EndTask
<1>5. CASE Active(tasks[b]) /\ verdict = "unsupported" /\ Current(w.ref)
  <2>1. tasks' = [tasks EXCEPT ![b] = None]
    BY <1>5 DEF EndTask
  <2> QED
    BY <1>1, <2>1 DEF Drops
<1>6. CASE Active(tasks[b]) /\ verdict \in {"failed", "http"} /\ Current(w.ref)
  <2>1. tasks' = [tasks EXCEPT ![b] = Failed(tasks[b], verdict = "http")]
    BY <1>6 DEF EndTask
  <2>2. a # b => tasks'[a] = tasks[a]
    BY <1>1, <2>1
  <2>3. a = b => tasks'[a] = Failed(tasks[a], verdict = "http")
    BY <1>1, <2>1
  <2> QED
    BY <1>6, <2>2, <2>3 DEF Fails
<1> QED
  BY <1>2, <1>3, <1>4, <1>5, <1>6

LEMMA ScanStep ==
    ASSUME TypeOK, NEW c \in Callers, ScanOne(c), NEW a \in Auths
    PROVE  tasks'[a] = tasks[a] \/ Queues(a)
<1>1. DOMAIN tasks = Auths /\ scans[c] # None
  BY DEF TypeOK, TasksOK, ScanOne
<1>2. CASE UNCHANGED tasks
  BY <1>2
<1>3. CASE \E b : ~Active(tasks[b]) /\ tasks' = [tasks EXCEPT ![b] = NewTask(b, SourceOf(c))]
  <2>1. PICK b : ~Active(tasks[b]) /\ tasks' = [tasks EXCEPT ![b] = NewTask(b, SourceOf(c))]
    BY <1>3
  <2>2. a # b => tasks'[a] = tasks[a]
    BY <1>1, <2>1
  <2>3. a = b => tasks'[a] = NewTask(a, SourceOf(c))
    BY <1>1, <2>1
  <2> QED
    BY <1>1, <2>1, <2>2, <2>3 DEF Queues
<1> QED
  BY <1>2, <1>3 DEF ScanOne, EnsureTask

LEMMA TaskSteps ==
    ASSUME TypeOK, [QuotaNext]_vars, NEW a \in Auths
    PROVE  tasks'[a] = tasks[a] \/ Drops(a) \/ Queues(a) \/ Fails(a) \/ Begins(a)
           \/ Completes(a) \/ Expires(a) \/ Publishes(a)
<1>1. DOMAIN tasks = Auths
  BY DEF TypeOK, TasksOK
<1>2. CASE StartRefresh \/ RunAutoRefresh \/ GetInspectionStatus
  BY <1>2 DEF StartRefresh, RunAutoRefresh, GetInspectionStatus, Unexpired, Drops
<1>3. CASE Inspecting
  BY <1>3 DEF Inspecting, StartInspection, BeginInspectionRound, WithoutEnded, Drops
<1>4. CASE Scanning
  BY <1>4, ScanStep DEF Scanning
<1>5. CASE Finishes
  <2>1. tasks' = tasks \/ \E c : StartDispatcher(c)
    BY <1>5 DEF Finishes, FinishRefresh, FinishAutoRefresh, InspectionFinishes, FinishInspection
  <2> QED
    BY <2>1, StartDispatcherStep, FailAllStep
<1>6. CASE Dispatches \/ Cancels
  <2>1. tasks' = tasks \/ \E refs : tasks' = FailAll(tasks, refs)
    BY <1>6 DEF Dispatches, Cancels, Dispatch, DispatchCancelled
  <2> QED
    BY <2>1, FailAllStep
<1>7. CASE Runs
  <2>1. PICK w \in workers : MarkRunning(w)
    BY <1>7 DEF Runs
  <2>2. CASE tasks' = tasks
    BY <2>2
  <2>3. CASE Current(w.ref) /\ tasks[w.ref.auth].status = "queued"
    <3>1. tasks' = [tasks EXCEPT ![w.ref.auth].status = "running"]
      BY <2>1, <2>3 DEF MarkRunning
    <3>2. a # w.ref.auth => tasks'[a] = tasks[a]
      BY <1>1, <3>1
    <3>3. a = w.ref.auth => tasks'[a] = [tasks[a] EXCEPT !.status = "running"]
      BY <1>1, <3>1
    <3> QED
      BY <2>3, <3>2, <3>3 DEF Begins, Current
  <2> QED
    BY <2>1, <2>2, <2>3 DEF MarkRunning
<1>8. CASE CallEnds
  <2>1. PICK w \in workers, verdict \in {"completed", "failed", "http", "unsupported"} :
           tasks' = EndTask(w.ref, verdict)
    BY <1>8 DEF CallEnds, EndCall
  <2>2. CASE a # w.ref.auth \/ Current(w.ref)
    BY <2>1, <2>2, EndTaskStep
  <2>3. CASE ~Current(w.ref)
    BY <2>1, <2>3 DEF EndTask
  <2> QED
    BY <2>2, <2>3
<1>9. CASE Elapses
  <2>1. PICK b \in Auths : TTLElapses(b)
    BY <1>9 DEF Elapses
  <2>2. tasks[b] # None /\ tasks[b].status = "failed" /\ tasks' = [tasks EXCEPT ![b].expired = TRUE]
    BY <2>1 DEF TTLElapses
  <2>3. a # b => tasks'[a] = tasks[a]
    BY <1>1, <2>2
  <2>4. a = b => tasks'[a] = [tasks[a] EXCEPT !.expired = TRUE]
    BY <1>1, <2>2
  <2> QED
    BY <2>2, <2>3, <2>4 DEF Expires
<1>10. CASE ReadsTask
  <2>1. PICK b \in Auths : tasks' \in {[tasks EXCEPT ![b] = None], Unexpired(tasks)}
    BY <1>10 DEF ReadsTask, ReadTask
  <2> QED
    BY <1>1, <2>1 DEF Unexpired, Drops
<1>11. CASE Merges
  <2>1. PICK j \in jobs : MergePart(j)
    BY <1>11 DEF Merges
  <2>2. CASE ~MayPublish(j)
    BY <2>1, <2>2 DEF MergePart, Publish
  <2>3. CASE MayPublish(j)
    <3>1. j.phase = "merge" /\ tasks' = [tasks EXCEPT ![j.auth] = HeaderRecord(j)]
      BY <2>1, <2>3 DEF MergePart, Publish
    <3>2. a # j.auth => tasks'[a] = tasks[a]
      BY <1>1, <3>1
    <3>3. a = j.auth => tasks'[a] = HeaderRecord(j)
      BY <1>1, <3>1
    <3> QED
      BY <2>3, <3>1, <3>2, <3>3 DEF Publishes
  <2> QED
    BY <2>2, <2>3
<1>12. CASE InvalidateWithHeaders
  BY <1>12 DEF InvalidateWithHeaders, InvalidateTasks, Drops
<1> QED
  BY <1>2, <1>3, <1>4, <1>5, <1>6, <1>7, <1>8, <1>9, <1>10, <1>11, <1>12, Frames

-----------------------------------------------------------------------------
(* Every step keeps the types.                                              *)

LEMMA NewTaskType ==
    ASSUME TypeOK, NEW a \in Auths, NEW c \in Callers
    PROVE  /\ NewTask(a, SourceOf(c)) \in Records
           /\ NewTask(a, SourceOf(c)).rows = NoRows
<1>1. FreshId(a) \in Nat /\ SourceOf(c) \in {"manual", "inspection", "scheduled"}
  BY FreshIsFresh, SourceTypes
<1>2. generation \in Nat /\ kind[a] \in Kinds
  BY DEF TypeOK, TasksOK, RoundsOK
<1>3. NoRows \in [Components -> Nat]
  BY DEF NoRows
<1> QED
  BY <1>1, <1>2, <1>3 DEF NewTask, Records

LEMMA JobParts ==
    ASSUME TypeOK, NEW j \in jobs, j.phase # "lookup"
    PROVE  /\ j.auth \in Auths /\ j.kind \in Kinds /\ j.gen \in Nat /\ j.parts \in Seq(Parts)
           /\ Head(j.parts) \in Parts /\ Len(j.parts) \in Nat /\ j.parts # <<>>
           /\ Len(j.parts) # 1 => Tail(j.parts) \in Seq(Parts) /\ Tail(j.parts) # <<>>
<1>1. /\ j \in Jobs /\ j.parts # <<>>
  BY DEF TypeOK, HeadersOK
<1>2. /\ j.auth \in Auths /\ j.kind \in Kinds /\ j.gen \in Nat /\ j.parts \in Seq(Parts)
  BY <1>1 DEF Jobs
<1>3. Head(j.parts) \in Parts /\ Tail(j.parts) \in Seq(Parts)
  BY <1>1, <1>2, HeadTailProperties
<1>4. Len(Tail(j.parts)) = Len(j.parts) - 1 /\ Len(j.parts) \in Nat
  BY <1>1, <1>2, HeadTailProperties, LenProperties
<1>5. Len(j.parts) # 1 => Tail(j.parts) # <<>>
  <2> DEFINE n == Len(j.parts)
             q == Tail(j.parts)
  <2>1. Len(<<>>) = 0 /\ n \in Nat /\ Len(q) = n - 1
    BY <1>4
  <2> HIDE DEF n, q
  <2>2. n # 1 => q # <<>>
    BY <2>1
  <2> QED
    BY <2>2 DEF n, q
<1> QED
  BY <1>1, <1>2, <1>3, <1>4, <1>5

LEMMA HeaderRecordType ==
    ASSUME TypeOK, NEW j \in jobs, j.phase = "merge"
    PROVE  HeaderRecord(j) \in Records
<1>1. /\ j.auth \in Auths /\ j.kind \in Kinds /\ Head(j.parts) \in Parts
  BY JobParts
<1>2. tasks[j.auth] # None => tasks[j.auth].rows \in Figures
  BY <1>1 DEF TypeOK, TasksOK, Records, Figures
<1>3. Head(j.parts).rows \in Figures /\ Head(j.parts).at \in Nat
  BY <1>1 DEF Parts
<1>4. NoRows \in Figures
  BY DEF NoRows, Figures
<1>5. PublishedRows(tasks[j.auth], Head(j.parts), j.kind) \in [Components -> Nat]
  BY <1>2, <1>3, <1>4 DEF PublishedRows, Figures
<1> QED
  BY <1>1, <1>3, <1>5 DEF HeaderRecord, Records

LEMMA TasksMap ==
    ASSUME TypeOK, [QuotaNext]_vars
    PROVE  tasks' = [a \in Auths |-> tasks'[a]]
<1>1. tasks = [a \in Auths |-> tasks[a]]
  BY DEF TypeOK, TasksOK
<1>2. CASE StartRefresh \/ RunAutoRefresh \/ GetInspectionStatus \/ Inspecting
           \/ InvalidateWithHeaders
  BY <1>2 DEF StartRefresh, RunAutoRefresh, GetInspectionStatus, Unexpired, Inspecting,
         StartInspection, BeginInspectionRound, WithoutEnded, InvalidateWithHeaders,
         InvalidateTasks
<1>3. CASE \E a, t : tasks' = [tasks EXCEPT ![a] = t]
  BY <1>1, <1>3
<1>4. CASE \E refs : tasks' = FailAll(tasks, refs)
  BY <1>4 DEF FailAll
<1>5. CASE tasks' = tasks
  BY <1>1, <1>5
<1>6. CASE Scanning
  <2>1. UNCHANGED tasks \/ \E a, t : tasks' = [tasks EXCEPT ![a] = t]
    BY <1>6 DEF Scanning, ScanOne, EnsureTask
  <2> QED
    BY <2>1, <1>3, <1>5
<1>7. CASE Finishes
  <2>1. tasks' = tasks \/ \E c : StartDispatcher(c)
    BY <1>7 DEF Finishes, FinishRefresh, FinishAutoRefresh, InspectionFinishes, FinishInspection
  <2> QED
    BY <2>1, <1>4, <1>5, StartDispatcherStep
<1>8. CASE Dispatches \/ Cancels
  <2>1. tasks' = tasks \/ \E refs : tasks' = FailAll(tasks, refs)
    BY <1>8 DEF Dispatches, Cancels, Dispatch, DispatchCancelled
  <2> QED
    BY <2>1, <1>4, <1>5
<1>9. CASE Runs
  <2>1. PICK w \in workers : MarkRunning(w)
    BY <1>9 DEF Runs
  <2>2. tasks' = tasks \/ tasks' = [tasks EXCEPT ![w.ref.auth].status = "running"]
    BY <2>1 DEF MarkRunning
  <2> QED
    BY <1>1, <2>2
<1>10. CASE CallEnds
  <2>1. PICK w \in workers, verdict \in {"completed", "failed", "http", "unsupported"} :
           tasks' = EndTask(w.ref, verdict)
    BY <1>10 DEF CallEnds, EndCall
  <2> DEFINE b == w.ref.auth
  <2>2. \/ tasks' = tasks
        \/ tasks' = [tasks EXCEPT ![b].status = "completed", ![b].at = clock,
                                  ![b].rows = FullRows(tasks[b].kind)]
        \/ tasks' = [tasks EXCEPT ![b] = None]
        \/ tasks' = [tasks EXCEPT ![b] = Failed(tasks[b], verdict = "http")]
    BY <2>1 DEF EndTask
  <2> QED
    BY <1>1, <2>2
<1>11. CASE Elapses
  <2>1. PICK b \in Auths : tasks' = [tasks EXCEPT ![b].expired = TRUE]
    BY <1>11 DEF Elapses, TTLElapses
  <2> QED
    BY <1>1, <2>1
<1>12. CASE ReadsTask
  <2>1. PICK b \in Auths : tasks' \in {[tasks EXCEPT ![b] = None], Unexpired(tasks)}
    BY <1>12 DEF ReadsTask, ReadTask
  <2> QED
    BY <1>1, <2>1 DEF Unexpired
<1>13. CASE Merges
  <2>1. UNCHANGED tasks \/ \E a, t : tasks' = [tasks EXCEPT ![a] = t]
    BY <1>13 DEF Merges, MergePart, Publish
  <2> QED
    BY <2>1, <1>3, <1>5
<1> QED
  BY <1>2, <1>5, <1>6, <1>7, <1>8, <1>9, <1>10, <1>11, <1>12, <1>13, Frames

LEMMA TasksStep ==
    ASSUME TypeOK, [QuotaNext]_vars
    PROVE  TasksOK'
<1>1. generation' \in Nat /\ clock' \in Nat
  <2>1. generation \in Nat /\ clock \in Nat
    BY DEF TypeOK, TasksOK
  <2>2. generation' = generation \/ generation' = generation + 1
    BY Frames DEF InvalidateWithHeaders, InvalidateTasks
  <2>3. clock' = clock \/ clock' = clock + 1
    BY Frames DEF Tick
  <2> QED
    BY <2>1, <2>2, <2>3
<1>2. ASSUME NEW a \in Auths PROVE tasks'[a] \in Records \cup {None}
  <2>1. tasks[a] \in Records \cup {None} /\ clock \in Nat
    BY DEF TypeOK, TasksOK
  <2>2. CASE Queues(a)
    BY <2>2, NewTaskType DEF Queues
  <2>3. CASE Fails(a)
    <3>1. tasks[a] \in Records
      BY <2>1, <2>3 DEF Fails, Active
    <3>2. PICK http \in BOOLEAN : tasks'[a] = Failed(tasks[a], http)
      BY <2>3 DEF Fails
    <3> QED
      BY <2>1, <3>1, <3>2 DEF Failed, Records
  <2>4. CASE Begins(a)
    BY <2>1, <2>4 DEF Begins, Records
  <2>5. CASE Completes(a)
    <3>1. tasks[a] \in Records
      BY <2>1, <2>5 DEF Completes, Active
    <3>2. FullRows(tasks[a].kind) \in [Components -> Nat]
      BY <2>1 DEF FullRows
    <3> QED
      BY <2>1, <2>5, <3>1, <3>2 DEF Completes, Records
  <2>6. CASE Expires(a)
    BY <2>1, <2>6 DEF Expires, Records
  <2>7. CASE Publishes(a)
    BY <2>7, HeaderRecordType DEF Publishes
  <2>8. CASE tasks'[a] = tasks[a] \/ Drops(a)
    BY <2>1, <2>8 DEF Drops
  <2> QED
    BY <2>2, <2>3, <2>4, <2>5, <2>6, <2>7, <2>8, TaskSteps
<1> QED
  BY <1>1, <1>2, TasksMap DEF TasksOK

LEMMA NewRefType ==
    ASSUME TypeOK, NEW a \in Auths
    PROVE  NewRef(a) \in Refs
BY FreshIsFresh DEF NewRef, TypeOK, TasksOK, RoundsOK, Refs

LEMMA ScanFields ==
    ASSUME TypeOK, NEW c \in Callers, scans[c] # None, scans[c].todo # <<>>
    PROVE  /\ scans[c] \in Scans /\ Head(scans[c].todo) \in Auths
           /\ Skipped(scans[c]) \in Scans
           /\ \A a \in Auths : /\ Adopted(scans[c], a) \in Scans
                               /\ Adopted(scans[c], a).queue = scans[c].queue
           /\ Skipped(scans[c]).queue = scans[c].queue
<1>1. scans[c] \in Scans
  BY DEF TypeOK, ScansOK
<1>2. scans[c].todo \in Seq(Auths)
  BY <1>1 DEF Scans
<1>3. Head(scans[c].todo) \in Auths /\ Tail(scans[c].todo) \in Seq(Auths)
  BY <1>2, HeadTailProperties
<1> QED
  BY <1>1, <1>3 DEF Skipped, Adopted, Scans

NewScans(c) == \E todo \in Seq(Auths) : scans' = [scans EXCEPT ![c] = NewScan(todo)]
Moves(c) ==
    /\ scans[c] # None /\ scans[c].todo # <<>>
    /\ \E s \in Scans :
          /\ scans' = [scans EXCEPT ![c] = s]
          /\ \/ s.queue = scans[c].queue
             \/ \E a \in Auths : s.queue = Append(scans[c].queue, NewRef(a))

LEMMA ScanMoves ==
    ASSUME TypeOK, NEW c \in Callers, ScanOne(c)
    PROVE  Moves(c)
<1> DEFINE s == scans[c]
           a == Head(s.todo)
<1>1. /\ s # None /\ s.todo # <<>> /\ s \in Scans /\ a \in Auths /\ Skipped(s) \in Scans
      /\ Adopted(s, a) \in Scans /\ Adopted(s, a).queue = s.queue /\ Skipped(s).queue = s.queue
  BY ScanFields DEF ScanOne
<1>2. NewRef(a) \in Refs
  BY <1>1, NewRefType
<1>3. s.queue \in Seq(Refs)
  BY <1>1 DEF Scans
<1>5. c \in DOMAIN scans
  BY DEF TypeOK, ScansOK
<1>6. CASE scans' = [scans EXCEPT ![c] = Invalidated(@)]
  <2>1. scans' = [scans EXCEPT ![c] = Invalidated(s)]
    BY <1>5, <1>6
  <2>2. Invalidated(s) \in Scans /\ Invalidated(s).queue = s.queue
    <3> HIDE DEF s
    <3>1. <<>> \in Seq(Auths) /\ s \in Scans
      BY <1>1
    <3>2. [s EXCEPT !.todo = <<>>] \in Scans /\ [s EXCEPT !.todo = <<>>].queue = s.queue
      BY <3>1 DEF Scans
    <3> QED
      BY <3>2 DEF Invalidated, Scans
  <2> QED
    BY <1>1, <2>1, <2>2 DEF Moves
<1>7. CASE \/ scans' = [scans EXCEPT ![c] = Skipped(@)]
           \/ scans' = [scans EXCEPT ![c] = Adopted(@, a)]
  <2>1. \/ scans' = [scans EXCEPT ![c] = Skipped(s)]
        \/ scans' = [scans EXCEPT ![c] = Adopted(s, a)]
    BY <1>5, <1>7
  <2> QED
    BY <1>1, <2>1 DEF Moves
<1>8. CASE scans' = [scans EXCEPT ![c] = Queued(@, a)]
  <2>1. scans' = [scans EXCEPT ![c] = Queued(s, a)]
    BY <1>5, <1>8
  <2>3. Append(s.queue, NewRef(a)) \in Seq(Refs)
    BY <1>2, <1>3, AppendProperties
  <2>4. /\ Queued(s, a) \in Scans
        /\ Queued(s, a).queue = Append(s.queue, NewRef(a))
    <3> DEFINE t == Adopted(s, a)
    <3>1. t \in Scans /\ t.queue = s.queue
      BY <1>1
    <3>2. Queued(s, a) = [t EXCEPT !.queue = Append(s.queue, NewRef(a))]
      BY <3>1, Zenon DEF Queued
    <3> HIDE DEF t, s
    <3> QED
      BY <2>3, <3>1, <3>2 DEF Scans
  <2> QED
    BY <1>1, <2>1, <2>4 DEF Moves
<1>9. \/ scans' = [scans EXCEPT ![c] = Skipped(@)]
      \/ EnsureTask(c, a)
  BY DEF ScanOne
<1>10. CASE EnsureTask(c, a)
  <2>1. \/ scans' = [scans EXCEPT ![c] = Invalidated(@)]
        \/ scans' = [scans EXCEPT ![c] = Skipped(@)]
        \/ scans' = [scans EXCEPT ![c] = Adopted(@, a)]
        \/ scans' = [scans EXCEPT ![c] = Queued(@, a)]
    BY <1>10 DEF EnsureTask
  <2> QED
    BY <1>6, <1>7, <1>8, <2>1
<1> QED
  BY <1>7, <1>9, <1>10

LEMMA ScanKinds ==
    ASSUME TypeOK, [QuotaNext]_vars
    PROVE  \/ scans' = scans
           \/ \E c \in Callers : NewScans(c) \/ Moves(c) \/ scans' = [scans EXCEPT ![c] = None]
<1>1. Credentials \in Seq(Auths) /\ \A S \in SUBSET Auths : SetToSeq(S) \in Seq(Auths)
  BY Listed DEF Credentials
<1>2. CASE StartRefresh
  BY <1>1, <1>2 DEF StartRefresh, NewScans
<1>3. CASE Inspecting
  BY <1>1, <1>3 DEF Inspecting, StartInspection, BeginInspectionRound, NewScans
<1>4. CASE RunAutoRefresh
  BY <1>1, <1>4 DEF RunAutoRefresh, NewScans
<1>5. CASE Scanning
  BY <1>5, ScanMoves DEF Scanning
<1>6. CASE ValidateFails \/ Finishes
  BY <1>6 DEF ValidateFails, Finishes, FinishRefresh, FinishAutoRefresh, InspectionFinishes,
         FinishInspection
<1> QED
  BY <1>2, <1>3, <1>4, <1>5, <1>6, Frames

LEMMA ScansStep ==
    ASSUME TypeOK, [QuotaNext]_vars
    PROVE  ScansOK'
<1>1. scans \in [Callers -> Scans \cup {None}] /\ generation \in Nat
  BY DEF TypeOK, ScansOK, TasksOK
<1>2. ASSUME NEW c \in Callers, NewScans(c) PROVE ScansOK'
  <2>1. PICK todo \in Seq(Auths) : scans' = [scans EXCEPT ![c] = NewScan(todo)]
    BY <1>2 DEF NewScans
  <2>2. NewScan(todo) \in Scans
    BY <1>1 DEF NewScan, Scans
  <2> QED
    BY <1>1, <2>1, <2>2 DEF ScansOK
<1>3. ASSUME NEW c \in Callers, Moves(c) PROVE ScansOK'
  BY <1>1, <1>3 DEF Moves, ScansOK
<1>4. ASSUME NEW c \in Callers, scans' = [scans EXCEPT ![c] = None] PROVE ScansOK'
  BY <1>1, <1>4 DEF ScansOK
<1>5. CASE scans' = scans
  BY <1>1, <1>5 DEF ScansOK
<1> QED
  BY <1>2, <1>3, <1>4, <1>5, ScanKinds

LEMMA Ranges ==
    ASSUME NEW S, NEW s \in Seq(S)
    PROVE  /\ Range(s) \subseteq S
           /\ \A r \in S : Range(Append(s, r)) \subseteq Range(s) \cup {r}
           /\ s # <<>> => /\ Head(s) \in Range(s) /\ Tail(s) \in Seq(S)
                          /\ Range(Tail(s)) \subseteq Range(s)
<1>1. DOMAIN s = 1..Len(s) /\ Len(s) \in Nat /\ \A i \in 1..Len(s) : s[i] \in S
  BY LenProperties, ElementOfSeq
<1>2. ASSUME NEW r \in S PROVE Range(Append(s, r)) \subseteq Range(s) \cup {r}
  <2>1. /\ DOMAIN Append(s, r) = 1..Len(s) + 1
        /\ \A i \in 1..Len(s) + 1 : Append(s, r)[i] = IF i = Len(s) + 1 THEN r ELSE s[i]
    BY <1>1, AppendProperties
  <2> QED
    BY <1>1, <2>1 DEF Range
<1>3. ASSUME s # <<>>
      PROVE  Head(s) \in Range(s) /\ Tail(s) \in Seq(S) /\ Range(Tail(s)) \subseteq Range(s)
  <2>1. /\ Head(s) = s[1] /\ Len(s) >= 1 /\ Tail(s) \in Seq(S) /\ Len(Tail(s)) = Len(s) - 1
        /\ DOMAIN Tail(s) = 1..Len(Tail(s))
        /\ \A i \in 1..Len(Tail(s)) : Tail(s)[i] = s[i+1]
    BY <1>1, <1>3, HeadTailProperties, EmptySeq, LenProperties
  <2> QED
    BY <1>1, <2>1 DEF Range
<1> QED
  BY <1>1, <1>2, <1>3 DEF Range

LEMMA HeldBy ==
    ASSUME NEW r
    PROVE  r \in Held <=> \/ \E c \in Callers : scans[c] # None /\ r \in Range(scans[c].queue)
                          \/ \E d \in dispatchers : r \in d.all
                          \/ \E w \in workers : r = w.ref
BY DEF Held

LEMMA HeldByNext ==
    ASSUME NEW r
    PROVE  r \in Held' <=> \/ \E c \in Callers : scans'[c] # None /\ r \in Range(scans'[c].queue)
                           \/ \E d \in dispatchers' : r \in d.all
                           \/ \E w \in workers' : r = w.ref
BY DEF Held

LEMMA QueueType ==
    ASSUME TypeOK, NEW c \in Callers, scans[c] # None
    PROVE  /\ scans[c].queue \in Seq(Refs) /\ Range(scans[c].queue) \in SUBSET Refs
           /\ Range(scans[c].queue) \subseteq Held
<1>1. scans[c].queue \in Seq(Refs)
  BY DEF TypeOK, ScansOK, Scans
<1> QED
  BY <1>1, Ranges, HeldBy

NewDispatchers ==
    \E c \in Callers :
        /\ scans[c] # None
        /\ dispatchers' = dispatchers \cup {[source |-> SourceOf(c), rest |-> scans[c].queue,
                                             all |-> Range(scans[c].queue)]}
Advances ==
    \E d \in dispatchers : \E rest \in {<<>>, Tail(d.rest)} :
        /\ d.rest # <<>>
        /\ dispatchers' = (dispatchers \ {d}) \cup {[d EXCEPT !.rest = rest]}
Leaves == \E d \in dispatchers : dispatchers' = dispatchers \ {d}

LEMMA DispatcherSteps ==
    ASSUME [QuotaNext]_vars
    PROVE  UNCHANGED dispatchers \/ NewDispatchers \/ Advances \/ Leaves
<1>1. CASE FinishRefresh
  BY <1>1 DEF FinishRefresh, StartDispatcher, NewDispatchers
<1>2. CASE FinishAutoRefresh
  BY <1>2 DEF FinishAutoRefresh, StartDispatcher, NewDispatchers
<1>3. CASE InspectionFinishes
  BY <1>3 DEF InspectionFinishes, FinishInspection, StartDispatcher, NewDispatchers
<1>4. CASE Dispatches
  <2>1. PICK d \in dispatchers : Dispatch(d)
    BY <1>4 DEF Dispatches
  <2>2. /\ d.rest # <<>>
        /\ \/ Advance(d, [d EXCEPT !.rest = <<>>])
           \/ Advance(d, [d EXCEPT !.rest = Tail(@)])
    BY <2>1 DEF Dispatch
  <2> QED
    BY <2>2 DEF Advance, Advances
<1>5. CASE Cancels
  <2>1. PICK d \in dispatchers : DispatchCancelled(d)
    BY <1>5 DEF Cancels
  <2>2. d.rest # <<>> /\ Advance(d, [d EXCEPT !.rest = <<>>])
    BY <2>1 DEF DispatchCancelled
  <2> QED
    BY <2>2 DEF Advance, Advances
<1>6. CASE DispatcherLeaves
  BY <1>6 DEF DispatcherLeaves, DispatcherEnds, Leaves
<1> QED
  BY <1>1, <1>2, <1>3, <1>4, <1>5, <1>6, Frames DEF Finishes

Starts ==
    \E d \in dispatchers :
        /\ ~closing /\ d.rest # <<>>
        /\ workers' = workers \cup {[ref |-> Head(d.rest), phase |-> "start"]}
        /\ UNCHANGED <<tasks, generation>>
Calls ==
    \E w \in workers :
        /\ w.phase = "start" /\ Current(w.ref) /\ tasks[w.ref.auth].status = "queued"
        /\ tasks' = [tasks EXCEPT ![w.ref.auth].status = "running"]
        /\ workers' = (workers \ {w}) \cup {[w EXCEPT !.phase = "call"]}

LEMMA WorkerSteps ==
    ASSUME [QuotaNext]_vars
    PROVE  workers' \subseteq workers \/ Starts \/ Calls
<1>1. CASE Dispatches
  BY <1>1 DEF Dispatches, Dispatch, Starts
<1>2. CASE Runs
  BY <1>2 DEF Runs, MarkRunning, Calls
<1>3. CASE CallEnds
  BY <1>3 DEF CallEnds, EndCall
<1> QED
  BY <1>1, <1>2, <1>3, Frames

\* Every step adds at most the reference to a new record.
LEMMA HeldStep ==
    ASSUME TypeOK, [QuotaNext]_vars
    PROVE  Held' \subseteq Held \/ \E a \in Auths : Held' \subseteq Held \cup {NewRef(a)}
<1>1. ASSUME NEW d \in dispatchers' PROVE d.all \subseteq Held
  <2>1. CASE UNCHANGED dispatchers \/ Leaves
    BY <1>1, <2>1, HeldBy DEF Leaves
  <2>2. CASE NewDispatchers
    <3>1. PICK c \in Callers :
             /\ scans[c] # None
             /\ dispatchers' = dispatchers \cup {[source |-> SourceOf(c), rest |-> scans[c].queue,
                                                  all |-> Range(scans[c].queue)]}
      BY <2>2 DEF NewDispatchers
    <3>2. d \in dispatchers \/ d.all = Range(scans[c].queue)
      BY <1>1, <3>1
    <3> QED
      BY <3>1, <3>2, HeldBy, QueueType
  <2>3. CASE Advances
    <3>0. PICK e \in dispatchers : \E rest \in {<<>>, Tail(e.rest)} :
             dispatchers' = (dispatchers \ {e}) \cup {[e EXCEPT !.rest = rest]}
      BY <2>3 DEF Advances
    <3>1. PICK rest \in {<<>>, Tail(e.rest)} :
             dispatchers' = (dispatchers \ {e}) \cup {[e EXCEPT !.rest = rest]}
      BY <3>0
    <3>2. e \in [source : {"manual", "inspection", "scheduled"}, rest : Seq(Refs),
                 all : SUBSET Refs]
      BY <3>1 DEF TypeOK, GoroutinesOK
    <3>3. [e EXCEPT !.rest = rest].all = e.all
      BY <3>2
    <3>4. d \in dispatchers \/ d = [e EXCEPT !.rest = rest]
      BY <1>1, <3>1
    <3>5. d \in dispatchers \/ d.all = e.all
      BY <3>3, <3>4
    <3> QED
      BY <3>1, <3>5, HeldBy
  <2> QED
    BY <2>1, <2>2, <2>3, DispatcherSteps
<1>2. ASSUME NEW w \in workers' PROVE w.ref \in Held
  <2>1. CASE w \in workers
    BY <2>1, HeldBy
  <2>2. CASE Starts
    <3>1. PICK d \in dispatchers :
             /\ d.rest # <<>>
             /\ workers' = workers \cup {[ref |-> Head(d.rest), phase |-> "start"]}
      BY <2>2 DEF Starts
    <3>2. Head(d.rest) \in d.all
      BY <3>1, Ranges DEF TypeOK, GoroutinesOK
    <3>3. w \in workers \/ w.ref = Head(d.rest)
      BY <1>2, <3>1
    <3> QED
      BY <2>1, <3>1, <3>2, <3>3, HeldBy
  <2>3. CASE Calls
    <3>1. PICK x \in workers : workers' = (workers \ {x}) \cup {[x EXCEPT !.phase = "call"]}
      BY <2>3 DEF Calls
    <3>2. [x EXCEPT !.phase = "call"].ref = x.ref
      BY <3>1 DEF TypeOK, GoroutinesOK
    <3>3. w \in workers \/ w = [x EXCEPT !.phase = "call"]
      BY <1>2, <3>1
    <3>4. w \in workers \/ w.ref = x.ref
      BY <3>2, <3>3
    <3> QED
      BY <2>1, <3>1, <3>4, HeldBy
  <2> QED
    BY <1>2, <2>1, <2>2, <2>3, WorkerSteps
<1>3. CASE scans' = scans
  BY <1>1, <1>2, <1>3, HeldBy, HeldByNext
<1>4. ASSUME NEW c \in Callers, NewScans(c) PROVE Held' \subseteq Held
  <2>1. PICK todo : scans' = [scans EXCEPT ![c] = NewScan(todo)]
    BY <1>4 DEF NewScans
  <2>2. DOMAIN scans = Callers /\ Range(NewScan(todo).queue) = {}
    BY DEF TypeOK, ScansOK, NewScan, Range
  <2>3. \A d \in Callers : scans'[d] = scans[d] \/ Range(scans'[d].queue) = {}
    BY <2>1, <2>2
  <2> QED
    BY <1>1, <1>2, <2>3, HeldBy, HeldByNext
<1>5. ASSUME NEW c \in Callers, Moves(c)
      PROVE  Held' \subseteq Held \/ \E a \in Auths : Held' \subseteq Held \cup {NewRef(a)}
  <2>1. scans[c] # None
    BY <1>5 DEF Moves
  <2>2. PICK s \in Scans :
           /\ scans' = [scans EXCEPT ![c] = s]
           /\ \/ s.queue = scans[c].queue
              \/ \E a \in Auths : s.queue = Append(scans[c].queue, NewRef(a))
    BY <1>5 DEF Moves
  <2>3. /\ DOMAIN scans = Callers
        /\ scans[c].queue \in Seq(Refs) /\ Range(scans[c].queue) \subseteq Held
    BY <2>1, QueueType DEF TypeOK, ScansOK
  <2>4. \A d \in Callers : scans'[d] = scans[d] \/ (d = c /\ scans'[d] = s)
    BY <2>2, <2>3
  <2>5. CASE s.queue = scans[c].queue
    BY <1>1, <1>2, <2>3, <2>4, <2>5, HeldBy, HeldByNext
  <2>6. CASE \E a \in Auths : s.queue = Append(scans[c].queue, NewRef(a))
    <3>1. PICK a \in Auths : s.queue = Append(scans[c].queue, NewRef(a))
      BY <2>6
    <3>2. Range(s.queue) \subseteq Range(scans[c].queue) \cup {NewRef(a)}
      BY <2>3, <3>1, NewRefType, Ranges
    <3>3. Range(s.queue) \subseteq Held \cup {NewRef(a)}
      BY <2>3, <3>2
    <3>4. \A d \in Callers : scans'[d] # None => Range(scans'[d].queue) \subseteq Held \cup {NewRef(a)}
      BY <2>4, <3>3, HeldBy
    <3> QED
      BY <1>1, <1>2, <3>4, HeldByNext
  <2> QED
    BY <2>2, <2>5, <2>6
<1>6. ASSUME NEW c \in Callers, scans' = [scans EXCEPT ![c] = None] PROVE Held' \subseteq Held
  <2>1. \A d \in Callers : scans'[d] = None \/ scans'[d] = scans[d]
    BY <1>6 DEF TypeOK, ScansOK
  <2> QED
    BY <1>1, <1>2, <2>1, HeldBy, HeldByNext
<1> QED
  BY <1>3, <1>4, <1>5, <1>6, ScanKinds

LEMMA HeldIsRefs ==
    ASSUME TypeOK
    PROVE  Held \subseteq Refs
<1>1. \A c \in Callers : scans[c] # None => Range(scans[c].queue) \in SUBSET Refs
  BY QueueType
<1> QED
  BY <1>1, HeldBy DEF TypeOK, GoroutinesOK

DispatcherType == [source : {"manual", "inspection", "scheduled"}, rest : Seq(Refs),
                   all : SUBSET Refs]

LEMMA GoroutinesStep ==
    ASSUME TypeOK, [QuotaNext]_vars
    PROVE  GoroutinesOK'
<1>1. /\ dispatchers \in SUBSET DispatcherType
      /\ \A d \in dispatchers : Range(d.rest) \subseteq d.all
  BY DEF TypeOK, GoroutinesOK, DispatcherType
<1>2. workers \in SUBSET [ref : Refs, phase : {"start", "call"}]
  BY DEF TypeOK, GoroutinesOK
<1>3. ASSUME NEW d \in dispatchers' PROVE d \in DispatcherType /\ Range(d.rest) \subseteq d.all
  <2>1. CASE d \in dispatchers
    BY <1>1, <2>1
  <2>2. CASE NewDispatchers
    <3>1. PICK c \in Callers :
             /\ scans[c] # None
             /\ dispatchers' = dispatchers \cup {[source |-> SourceOf(c), rest |-> scans[c].queue,
                                                  all |-> Range(scans[c].queue)]}
      BY <2>2 DEF NewDispatchers
    <3>2. /\ scans[c].queue \in Seq(Refs) /\ Range(scans[c].queue) \in SUBSET Refs
          /\ SourceOf(c) \in {"manual", "inspection", "scheduled"}
      BY <3>1, QueueType, SourceTypes
    <3> DEFINE e == [source |-> SourceOf(c), rest |-> scans[c].queue,
                     all |-> Range(scans[c].queue)]
    <3>3. e \in DispatcherType /\ Range(e.rest) \subseteq e.all
      BY <3>2 DEF DispatcherType
    <3>4. d \in dispatchers \/ d = e
      BY <1>3, <3>1
    <3> QED
      BY <2>1, <3>3, <3>4
  <2>3. CASE Advances
    <3>0. PICK e \in dispatchers : \E rest \in {<<>>, Tail(e.rest)} :
             /\ e.rest # <<>>
             /\ dispatchers' = (dispatchers \ {e}) \cup {[e EXCEPT !.rest = rest]}
      BY <2>3 DEF Advances
    <3>1. PICK rest \in {<<>>, Tail(e.rest)} :
             /\ e.rest # <<>>
             /\ dispatchers' = (dispatchers \ {e}) \cup {[e EXCEPT !.rest = rest]}
      BY <3>0
    <3>2. e \in DispatcherType /\ e.rest \in Seq(Refs) /\ Range(e.rest) \subseteq e.all
      BY <1>1, <3>1 DEF DispatcherType
    <3>3. Tail(e.rest) \in Seq(Refs) /\ Range(Tail(e.rest)) \subseteq Range(e.rest)
      BY <3>1, <3>2, Ranges
    <3>4. <<>> \in Seq(Refs) /\ Range(<<>>) = {}
      BY DEF Range
    <3>5. rest \in Seq(Refs) /\ Range(rest) \subseteq e.all
      BY <3>1, <3>2, <3>3, <3>4
    <3> DEFINE f == [e EXCEPT !.rest = rest]
    <3>6. f \in DispatcherType /\ f.rest = rest /\ f.all = e.all
      BY <3>2, <3>5 DEF DispatcherType
    <3>7. d \in dispatchers \/ d = f
      BY <1>3, <3>1
    <3> HIDE DEF f
    <3> QED
      BY <2>1, <3>5, <3>6, <3>7
  <2> QED
    BY <1>3, <2>1, <2>2, <2>3, DispatcherSteps DEF Leaves
<1>4. ASSUME NEW w \in workers' PROVE w \in [ref : Refs, phase : {"start", "call"}]
  <2>1. CASE w \in workers
    BY <1>2, <2>1
  <2>2. CASE Starts
    <3>1. PICK d \in dispatchers :
             /\ d.rest # <<>>
             /\ workers' = workers \cup {[ref |-> Head(d.rest), phase |-> "start"]}
      BY <2>2 DEF Starts
    <3>2. Head(d.rest) \in d.all /\ d.all \subseteq Refs
      BY <1>1, <3>1, Ranges DEF DispatcherType
    <3> QED
      BY <1>2, <1>4, <3>1, <3>2
  <2>3. CASE Calls
    BY <1>2, <1>4, <2>3 DEF Calls
  <2> QED
    BY <1>4, <2>1, <2>2, <2>3, WorkerSteps
<1>5. IsFiniteSet(Held')
  <2>1. IsFiniteSet(Held) /\ \A a : IsFiniteSet(Held \cup {NewRef(a)})
    BY FS_AddElement DEF TypeOK, GoroutinesOK
  <2> QED
    BY <2>1, HeldStep, FS_Subset
<1> QED
  BY <1>3, <1>4, <1>5 DEF GoroutinesOK, DispatcherType

LEMMA RoundsStep ==
    ASSUME TypeOK, [QuotaNext]_vars
    PROVE  RoundsOK'
<1>1. /\ inspection \in [active : BOOLEAN, set : SUBSET Auths, completed : BOOLEAN]
      /\ autoRunning \in BOOLEAN /\ closing \in BOOLEAN /\ overlapped \in BOOLEAN
      /\ abandoned \in SUBSET Auths /\ kind \in [Auths -> Kinds] /\ started \in Nat
  BY DEF TypeOK, RoundsOK
<1>2. inspection' \in [active : BOOLEAN, set : SUBSET Auths, completed : BOOLEAN]
  <2>1. CASE Inspecting
    BY <2>1 DEF Inspecting, StartInspection, BeginInspectionRound, NoInspection
  <2>2. CASE InspectionFinishes
    <3>1. PICK c \in Callers : FinishInspection(c)
      BY <2>2 DEF InspectionFinishes
    <3>2. scans[c].adopted \in SUBSET Auths
      BY <3>1 DEF FinishInspection, TypeOK, ScansOK, Scans
    <3>3. \/ inspection' = inspection
          \/ inspection' = [inspection EXCEPT !.active = TRUE, !.set = scans[c].adopted]
      BY <3>1 DEF FinishInspection
    <3> QED
      BY <1>1, <3>2, <3>3
  <2>3. CASE GetInspectionStatus
    BY <1>1, <2>3 DEF GetInspectionStatus
  <2>4. CASE InvalidateWithHeaders
    BY <1>1, <2>4 DEF InvalidateWithHeaders, InvalidateTasks
  <2> QED
    BY <1>1, <2>1, <2>2, <2>3, <2>4, Frames
<1>3. autoRunning' \in BOOLEAN
  <2>1. CASE RunAutoRefresh
    BY <2>1 DEF RunAutoRefresh
  <2>2. CASE FinishAutoRefresh
    BY <2>2 DEF FinishAutoRefresh
  <2>3. CASE DispatcherLeaves
    BY <1>1, <2>3 DEF DispatcherLeaves, DispatcherEnds
  <2> QED
    BY <1>1, <2>1, <2>2, <2>3, Frames
<1>4. closing' \in BOOLEAN
  BY <1>1, Frames DEF StopRefreshTasks
<1>5. overlapped' \in BOOLEAN
  BY <1>1, Frames DEF Inspecting, StartInspection
<1>6. abandoned' \in SUBSET Auths
  <2>1. CASE ValidateFails
    <3>1. "manual" \in Callers /\ scans["manual"] # None
          /\ abandoned' = abandoned \cup {ref.auth : ref \in Range(scans["manual"].queue)}
      BY <2>1 DEF ValidateFails
    <3>2. Range(scans["manual"].queue) \in SUBSET Refs
      BY <3>1, QueueType
    <3> QED
      BY <1>1, <3>1, <3>2 DEF Refs
  <2> QED
    BY <1>1, <2>1, Frames
<1>7. kind' \in [Auths -> Kinds]
  <2>1. CASE KindChanges
    BY <1>1, <2>1 DEF KindChanges, ChangeKind, Kinds
  <2> QED
    BY <1>1, <2>1, Frames
<1>8. started' \in Nat
  BY <1>1, Frames DEF StartRound
<1> QED
  BY <1>2, <1>3, <1>4, <1>5, <1>6, <1>7, <1>8 DEF RoundsOK

\* Where a snapshot or a job of the next state comes from.
LEMMA SnapshotSteps ==
    ASSUME [QuotaNext]_vars, NEW s \in pending'
    PROVE  \/ s \in pending
           \/ arriving # None /\ s = arriving
           \/ arriving # None /\ \E t \in pending : /\ Key(t) = Key(arriving)
                                                   /\ s = MergeSnapshot(t, arriving)
<1>1. CASE StoreSnapshot
  <2>1. CASE UNCHANGED pending
    BY <2>1
  <2>2. CASE arriving # None /\ pending' \in Stored(arriving)
    BY <2>2 DEF Stored
  <2> QED
    BY <1>1, <2>1, <2>2 DEF StoreSnapshot
<1>2. CASE TimerFires \/ WorkerStops \/ InvalidateWithHeaders
  BY <1>2 DEF TimerFires, WorkerStops, InvalidateWithHeaders
<1> QED
  BY <1>1, <1>2, Frames

Looked(j) == [j EXCEPT !.phase = "check"]
Checked(j) == [j EXCEPT !.phase = "merge"]

LEMMA JobSteps ==
    ASSUME TypeOK, [QuotaNext]_vars, NEW k \in jobs'
    PROVE  \/ k \in jobs
           \/ \E s \in pending : k = Job(s)
           \/ \E j \in jobs : /\ j.phase = "lookup" /\ kind[j.auth] = j.kind /\ j.parts # <<>>
                              /\ k = Looked(j)
           \/ \E j \in jobs : j.phase = "check" /\ k = Checked(j)
           \/ \E j \in jobs : j.phase # "lookup" /\ k \in NextPart(j)
<1>1. CASE TimerFires \/ WorkerStops
  BY <1>1 DEF TimerFires, WorkerStops
<1>2. CASE JobMoves
  <2>1. PICK j \in jobs : LookUp(j) \/ CheckPart(j)
    BY <1>2 DEF JobMoves
  <2>2. CASE LookUp(j)
    BY <2>2 DEF LookUp, Looked
  <2>3. CASE CheckPart(j)
    BY <2>3 DEF CheckPart, Checked
  <2> QED
    BY <2>1, <2>2, <2>3
<1>3. CASE Merges
  BY <1>3 DEF Merges, MergePart, Publish
<1> QED
  BY <1>1, <1>2, <1>3, Frames

LEMMA MergeType ==
    ASSUME NEW s \in Snaps, NEW t \in Snaps
    PROVE  MergeSnapshot(s, t) \in Snaps
<1>1. s.rows \in Figures /\ t.rows \in Figures
  BY DEF Snaps
<1>2. MergedRows(s.rows, t.rows) \in Figures
  BY <1>1 DEF MergedRows, Figures
<1>3. \A x \in Snaps, rows \in Figures : [x EXCEPT !.rows = rows] \in Snaps
  BY DEF Snaps
<1> QED
  BY <1>2, <1>3 DEF MergeSnapshot

LEMMA PartType ==
    ASSUME NEW s \in Snaps, NEW t \in Nat
    PROVE  Part(s, t) \in Seq(Parts)
<1>1. s.rows \in Figures
  BY DEF Snaps
<1> DEFINE p == [at |-> t, rows |-> [c \in Components |-> IF s.rows[c] = t THEN t ELSE 0]]
<1>2. p.rows \in Figures
  BY DEF Figures
<1>3. p \in Parts
  BY <1>2 DEF Parts
<1>4. Part(s, t) = IF t = 0 THEN <<>> ELSE <<p>>
  BY DEF Part
<1> HIDE DEF p
<1> QED
  BY <1>3, <1>4

LEMMA PartsType ==
    ASSUME NEW s \in Snaps
    PROVE  PartsOf(s) \in Seq(Parts) /\ Job(s) \in Jobs /\ Job(s).phase = "lookup"
<1>1. s.rows \in Figures /\ s.at \in Nat /\ s.rows["five"] \in Nat /\ s.rows["seven"] \in Nat
  BY DEF Snaps, Figures, Components
<1>2. Part(s, s.rows["five"]) \in Seq(Parts) /\ Part(s, s.rows["seven"]) \in Seq(Parts)
  BY <1>1, PartType
<1>3. /\ Part(s, s.rows["five"]) \o Part(s, s.rows["seven"]) \in Seq(Parts)
      /\ Part(s, s.rows["seven"]) \o Part(s, s.rows["five"]) \in Seq(Parts)
  BY <1>2, ConcatProperties
<1>4. [at |-> s.at, rows |-> s.rows] \in Parts
  BY <1>1 DEF Parts
<1>5. PartsOf(s) \in Seq(Parts)
  <2>1. CASE s.kind = "codex"
    <3>1. PartsOf(s) = <<[at |-> s.at, rows |-> s.rows]>>
      BY <2>1 DEF PartsOf
    <3> QED
      BY <1>4, <3>1
  <2>2. CASE s.kind # "codex" /\ s.rows["five"] = s.rows["seven"]
    <3>1. PartsOf(s) = Part(s, s.rows["five"])
      BY <1>1, <2>2 DEF PartsOf
    <3> QED
      BY <1>2, <3>1
  <2>3. CASE s.kind # "codex" /\ s.rows["five"] < s.rows["seven"]
    <3>1. PartsOf(s) = Part(s, s.rows["five"]) \o Part(s, s.rows["seven"])
      BY <1>1, <2>3 DEF PartsOf
    <3> QED
      BY <1>3, <3>1
  <2>4. CASE s.kind # "codex" /\ s.rows["five"] > s.rows["seven"]
    <3>1. PartsOf(s) = Part(s, s.rows["seven"]) \o Part(s, s.rows["five"])
      BY <1>1, <2>4 DEF PartsOf
    <3> QED
      BY <1>3, <3>1
  <2> QED
    BY <1>1, <2>1, <2>2, <2>3, <2>4
<1> QED
  BY <1>5 DEF Job, Jobs, Snaps

LEMMA NextPartType ==
    ASSUME TypeOK, NEW j \in jobs, j.phase # "lookup", NEW k \in NextPart(j)
    PROVE  /\ k \in Jobs /\ k.phase = "check" /\ k.parts = Tail(j.parts) /\ k.parts # <<>>
           /\ k.auth = j.auth /\ k.kind = j.kind /\ k.gen = j.gen
<1>1. j \in Jobs /\ j.parts \in Seq(Parts) /\ (Len(j.parts) # 1 => Tail(j.parts) \in Seq(Parts) /\ Tail(j.parts) # <<>>)
  BY JobParts DEF TypeOK, HeadersOK
<1>2. Len(j.parts) # 1 /\ k = [j EXCEPT !.parts = Tail(@), !.phase = "check"]
  BY DEF NextPart
<1> DEFINE rest == Tail(j.parts)
<1>3. k = [[j EXCEPT !.parts = rest] EXCEPT !.phase = "check"]
  BY <1>2
<1>4. rest \in Seq(Parts) /\ rest # <<>>
  BY <1>1, <1>2
<1> HIDE DEF rest
<1>5. [j EXCEPT !.parts = rest] \in Jobs /\ [j EXCEPT !.parts = rest].parts = rest
      /\ [j EXCEPT !.parts = rest].auth = j.auth /\ [j EXCEPT !.parts = rest].kind = j.kind
      /\ [j EXCEPT !.parts = rest].gen = j.gen
  BY <1>1, <1>4 DEF Jobs
<1>6. k \in Jobs /\ k.phase = "check" /\ k.parts = rest
      /\ k.auth = j.auth /\ k.kind = j.kind /\ k.gen = j.gen
  BY <1>3, <1>5 DEF Jobs
<1> QED
  BY <1>4, <1>6 DEF rest

LEMMA PhaseChange ==
    ASSUME NEW j \in Jobs
    PROVE  /\ Looked(j) \in Jobs /\ Looked(j).phase = "check"
           /\ Looked(j).parts = j.parts /\ Looked(j).kind = j.kind /\ Looked(j).auth = j.auth
           /\ Checked(j) \in Jobs /\ Checked(j).phase = "merge"
           /\ Checked(j).parts = j.parts /\ Checked(j).kind = j.kind /\ Checked(j).auth = j.auth
BY DEF Looked, Checked, Jobs

LEMMA ArrivingStep ==
    ASSUME TypeOK, [QuotaNext]_vars
    PROVE  \/ arriving' = arriving \/ arriving' = None
           \/ arriving' \in Snaps /\ arriving' \in Snapshots /\ Built(arriving')
<1>1. CASE CaptureSnapshot
  <2>1. arriving' \in Snapshots /\ Built(arriving')
    BY <1>1 DEF CaptureSnapshot
  <2>2. PICK a \in Auths, k \in {"codex", "claude"}, t \in 1 .. clock, present \in SUBSET Components :
           arriving' = [auth |-> a, kind |-> k, at |-> t, gen |-> generation,
                        rows |-> [c \in Components |-> IF c \in present THEN t ELSE 0]]
    BY <2>1 DEF Snapshots
  <2>3. t \in Nat /\ generation \in Nat
    BY DEF TypeOK, TasksOK
  <2>4. [c \in Components |-> IF c \in present THEN t ELSE 0] \in Figures
    BY <2>3 DEF Figures
  <2> QED
    BY <2>1, <2>2, <2>3, <2>4 DEF Snaps, Kinds
<1>2. CASE StoreSnapshot
  BY <1>2 DEF StoreSnapshot
<1> QED
  BY <1>1, <1>2, Frames

LEMMA HeadersStep ==
    ASSUME TypeOK, [QuotaNext]_vars
    PROVE  HeadersOK'
<1>1. /\ pending \in SUBSET Snaps /\ captured \in Nat /\ arriving \in Snaps \cup {None}
      /\ wake \in BOOLEAN /\ timer \in BOOLEAN /\ jobs \in SUBSET Jobs
      /\ headers \in {"run", "flush", "last", "done"}
      /\ \A j \in jobs : j.phase # "lookup" => j.parts # <<>>
  BY DEF TypeOK, HeadersOK
<1>2. pending' \in SUBSET Snaps
  <2> SUFFICES ASSUME NEW s \in pending' PROVE s \in Snaps
    OBVIOUS
  <2> QED
    BY <1>1, MergeType, SnapshotSteps
<1>3. captured' \in Nat
  BY <1>1, Frames DEF CaptureSnapshot, StoreSnapshot
<1>4. arriving' \in Snaps \cup {None}
  BY <1>1, ArrivingStep
<1>5. wake' \in BOOLEAN
  <2>1. CASE StoreSnapshot
    BY <1>1, <2>1 DEF StoreSnapshot
  <2>2. CASE WorkerWakes
    BY <2>2 DEF WorkerWakes
  <2> QED
    BY <1>1, <2>1, <2>2, Frames
<1>6. timer' \in BOOLEAN
  <2>1. CASE WorkerWakes
    BY <1>1, <2>1 DEF WorkerWakes
  <2>2. CASE TimerFires \/ WorkerStops
    BY <2>2 DEF TimerFires, WorkerStops
  <2> QED
    BY <1>1, <2>1, <2>2, Frames
<1>7. ASSUME NEW k \in jobs' PROVE k \in Jobs /\ (k.phase # "lookup" => k.parts # <<>>)
  <2>1. CASE k \in jobs
    BY <1>1, <2>1
  <2>2. CASE \E s \in pending : k = Job(s)
    BY <1>1, <2>2, PartsType
  <2>3. CASE \E j \in jobs : j.parts # <<>> /\ k = Looked(j)
    BY <1>1, <2>3, PhaseChange
  <2>4. CASE \E j \in jobs : j.phase = "check" /\ k = Checked(j)
    BY <1>1, <2>4, PhaseChange
  <2>5. CASE \E j \in jobs : j.phase # "lookup" /\ k \in NextPart(j)
    BY <2>5, NextPartType
  <2> QED
    BY <1>7, <2>1, <2>2, <2>3, <2>4, <2>5, JobSteps
<1>8. headers' \in {"run", "flush", "last", "done"}
  <2>1. CASE TimerFires \/ WorkerStops
    BY <2>1 DEF TimerFires, WorkerStops
  <2>2. CASE FlushEnds
    BY <2>2 DEF FlushEnds
  <2> QED
    BY <1>1, <2>1, <2>2, Frames
<1> QED
  BY <1>2, <1>3, <1>4, <1>5, <1>6, <1>7, <1>8 DEF HeadersOK

LEMMA TypeInit ==
    ASSUME RefreshInit, HeadersInit
    PROVE  TypeOK
<1>1. Held = {} /\ IsFiniteSet({})
  <2>1. \A c \in Callers : scans[c] = None
    BY DEF RefreshInit
  <2>2. \A r : r \notin Held
    BY <2>1, HeldBy DEF RefreshInit
  <2> QED
    BY <2>2, FS_EmptySet
<1>2. TasksOK /\ ScansOK
  BY DEF RefreshInit, TasksOK, ScansOK
<1>3. GoroutinesOK
  BY <1>1 DEF RefreshInit, GoroutinesOK
<1>4. RoundsOK
  BY DEF RefreshInit, RoundsOK, NoInspection, Kinds
<1>5. HeadersOK
  BY DEF HeadersInit, HeadersOK
<1> QED
  BY <1>2, <1>3, <1>4, <1>5 DEF TypeOK

LEMMA TypeStep ==
    ASSUME TypeOK, [QuotaNext]_vars
    PROVE  TypeOK'
BY TasksStep, ScansStep, GoroutinesStep, RoundsStep, HeadersStep DEF TypeOK

\* Every value the service keeps is one its code can hold; the references that
\* goroutines still keep are finitely many, so a new record always has an id.
THEOREM TypeCorrect == QuotaSpec => []TypeOK
<1>1. RefreshInit /\ HeadersInit => TypeOK
  BY TypeInit
<1>2. TypeOK /\ [QuotaNext]_vars => TypeOK'
  BY TypeStep
<1> QED
  BY <1>1, <1>2, PTL DEF QuotaSpec, vars

-----------------------------------------------------------------------------
(* Accepted snapshots reach the worker.                                     *)

LEMMA ForgottenStep ==
    ASSUME NoSnapshotForgotten, [QuotaNext]_vars
    PROVE  NoSnapshotForgotten'
<1>1. CASE StoreSnapshot
  BY <1>1 DEF StoreSnapshot, NoSnapshotForgotten
<1>2. CASE WorkerWakes
  BY <1>2 DEF WorkerWakes, NoSnapshotForgotten
<1>3. CASE TimerFires \/ WorkerStops
  BY <1>3 DEF TimerFires, WorkerStops, NoSnapshotForgotten
<1>4. CASE InvalidateWithHeaders
  BY <1>4 DEF InvalidateWithHeaders, NoSnapshotForgotten
<1>5. CASE FlushEnds
  BY <1>5 DEF FlushEnds, NoSnapshotForgotten
<1>6. CASE UNCHANGED <<pending, wake, timer, headers>>
  BY <1>6 DEF NoSnapshotForgotten
<1> QED
  BY <1>1, <1>2, <1>3, <1>4, <1>5, <1>6, Frames

-----------------------------------------------------------------------------
(* An inspection that is reported as completed has ended.                   *)

Inspects(c) == SourceOf(c) = "inspection" /\ scans[c] # None

\* Unless two inspections were started at the same time, at most one scans,
\* and the round whose results it will install has not begun.
OneInspection ==
    ~overlapped =>
        /\ \A c, d \in Callers : Inspects(c) /\ Inspects(d) => c = d
        /\ (\E c \in Callers : Inspects(c)) => ~inspection.active /\ ~inspection.completed

Inspected == OneInspection /\ CompletedMeansEnded

LEMMA OneInspectionStep ==
    ASSUME TypeOK, OneInspection, [QuotaNext]_vars
    PROVE  OneInspection'
<1>1. DOMAIN scans = Callers
  BY DEF TypeOK, ScansOK
<1>2. CASE Inspecting
  <2>1. PICK c \in Callers : StartInspection(c)
    BY <1>2 DEF Inspecting
  <2>2. /\ SourceOf(c) = "inspection" /\ inspection' = NoInspection
        /\ scans' = [scans EXCEPT ![c] = NewScan(Credentials)]
        /\ overlapped' = \E d \in Callers \ {c} : SourceOf(d) = "inspection" /\ scans[d] # None
    BY <2>1 DEF StartInspection, BeginInspectionRound
  <2>3. \A d \in Callers \ {c} : scans'[d] = scans[d]
    BY <1>1, <2>2
  <2>4. ~overlapped' => \A d \in Callers : Inspects(d)' => d = c
    BY <2>2, <2>3 DEF Inspects
  <2>5. ~inspection'.active /\ ~inspection'.completed
    BY <2>2 DEF NoInspection
  <2> QED
    BY <2>4, <2>5 DEF OneInspection
<1>3. overlapped' = overlapped \/ Inspecting
  BY Frames
<1>4. CASE ~Inspecting
  <2>1. \A d \in Callers : Inspects(d)' => Inspects(d)
    <3>1. CASE StartRefresh
      BY <1>1, <3>1 DEF StartRefresh, Inspects, SourceOf
    <3>2. CASE RunAutoRefresh
      BY <1>1, <3>2 DEF RunAutoRefresh, Inspects, SourceOf
    <3>3. CASE \E c \in Callers : Moves(c)
      BY <1>1, <3>3 DEF Moves, Inspects
    <3>4. CASE \E c \in Callers : scans' = [scans EXCEPT ![c] = None]
      BY <1>1, <3>4 DEF Inspects
    <3>5. CASE Scanning
      BY <3>3, <3>5, ScanMoves DEF Scanning
    <3>6. CASE ValidateFails \/ Finishes
      BY <3>4, <3>6 DEF ValidateFails, Finishes, FinishRefresh, FinishAutoRefresh,
             InspectionFinishes, FinishInspection
    <3>7. CASE scans' = scans
      BY <3>7 DEF Inspects
    <3> QED
      BY <1>4, <3>1, <3>2, <3>5, <3>6, <3>7, Frames
  <2>2. overlapped' = overlapped
    BY <1>3, <1>4
  <2>3. CASE InspectionFinishes
    <3>1. PICK c \in Callers : FinishInspection(c)
      BY <2>3 DEF InspectionFinishes
    <3>2. Inspects(c) /\ scans' = [scans EXCEPT ![c] = None]
      BY <3>1 DEF FinishInspection, Inspects
    <3>3. ~Inspects(c)'
      BY <1>1, <3>2 DEF Inspects
    <3>4. ~overlapped' => \A d \in Callers : ~Inspects(d)'
      BY <2>1, <2>2, <3>2, <3>3 DEF OneInspection
    <3> QED
      BY <3>4 DEF OneInspection
  <2>4. CASE GetInspectionStatus
    <3>1. inspection.active
      BY <2>4 DEF GetInspectionStatus, RoundCompleted
    <3>2. ~overlapped => \A c \in Callers : ~Inspects(c)
      BY <3>1 DEF OneInspection
    <3> QED
      BY <2>1, <2>2, <3>2 DEF OneInspection
  <2>5. CASE InvalidateWithHeaders
    <3>1. inspection' = [inspection EXCEPT !.active = FALSE, !.set = {}]
      BY <2>5 DEF InvalidateWithHeaders, InvalidateTasks
    <3>2. ~inspection'.active /\ inspection'.completed = inspection.completed
      BY <3>1 DEF TypeOK, RoundsOK
    <3> QED
      BY <2>1, <2>2, <3>2 DEF OneInspection
  <2>6. CASE inspection' = inspection
    BY <2>1, <2>2, <2>6 DEF OneInspection
  <2> QED
    BY <1>4, <2>3, <2>4, <2>5, <2>6, Frames
<1> QED
  BY <1>2, <1>4

LEMMA EndedStep ==
    ASSUME TypeOK, Inspected, [QuotaNext]_vars
    PROVE  CompletedMeansEnded'
<1> DEFINE Own(a) == Active(tasks[a]) /\ tasks[a].source = "inspection"
<1>1. inspection \in [active : BOOLEAN, set : SUBSET Auths, completed : BOOLEAN]
  BY DEF TypeOK, RoundsOK
<1>2. ASSUME NEW a \in Auths, Own(a)', inspection.completed, ~overlapped
      PROVE  Own(a)
  <2>1. tasks[a] \in Records \cup {None}
    BY DEF TypeOK, TasksOK
  <2>2. CASE tasks'[a] = tasks[a]
    BY <1>2, <2>2 DEF Active
  <2>3. CASE Queues(a)
    <3>1. PICK c \in Callers : scans[c] # None /\ tasks'[a] = NewTask(a, SourceOf(c))
      BY <2>3 DEF Queues
    <3>2. tasks'[a].source = SourceOf(c)
      BY <3>1 DEF NewTask
    <3>3. Inspects(c)
      BY <1>2, <3>1, <3>2 DEF Inspects
    <3> QED
      BY <1>2, <3>3 DEF Inspected, OneInspection
  <2>4. CASE Begins(a)
    <3>1. tasks'[a].source = tasks[a].source
      BY <2>1, <2>4 DEF Begins, Records
    <3> QED
      BY <1>2, <2>4, <3>1 DEF Begins, Active
  <2>5. CASE Fails(a)
    <3>1. tasks[a] \in Records
      BY <2>1, <2>5 DEF Fails, Active
    <3>2. tasks'[a].status = "failed"
      BY <2>5, <3>1 DEF Fails, Failed, Records
    <3> QED
      BY <1>2, <3>2 DEF Active
  <2>6. CASE Completes(a)
    <3>1. tasks[a] \in Records
      BY <2>1, <2>6 DEF Completes, Active
    <3>2. tasks'[a].status = "completed"
      BY <2>6, <3>1 DEF Completes, Records
    <3> QED
      BY <1>2, <3>2 DEF Active
  <2>7. CASE Expires(a)
    <3>1. tasks'[a].status = "failed"
      BY <2>1, <2>7 DEF Expires, Records
    <3> QED
      BY <1>2, <3>1 DEF Active
  <2>8. CASE Publishes(a)
    <3>1. tasks'[a].status = "completed"
      BY <2>8 DEF Publishes, HeaderRecord
    <3> QED
      BY <1>2, <3>1 DEF Active
  <2>9. CASE Drops(a)
    BY <1>2, <2>9 DEF Drops, Active
  <2> QED
    BY <2>2, <2>3, <2>4, <2>5, <2>6, <2>7, <2>8, <2>9, TaskSteps
<1>3. CASE Inspecting
  BY <1>3 DEF Inspecting, StartInspection, BeginInspectionRound, NoInspection, CompletedMeansEnded
<1>4. CASE InspectionFinishes /\ inspection' # inspection
  <2>1. PICK c \in Callers : FinishInspection(c)
    BY <1>4 DEF InspectionFinishes
  <2>2. Inspects(c) /\ inspection' = [inspection EXCEPT !.active = TRUE, !.set = scans[c].adopted]
        /\ overlapped' = overlapped
    BY <1>4, <2>1 DEF FinishInspection, Inspects
  <2>3. inspection'.completed = inspection.completed
    BY <1>1, <2>2
  <2> QED
    BY <2>2, <2>3 DEF Inspected, OneInspection, CompletedMeansEnded
<1>5. CASE GetInspectionStatus
  <2>1. inspection' = [inspection EXCEPT !.completed = TRUE] /\ tasks' = Unexpired(tasks)
        /\ RoundCompleted(Unexpired(tasks)) /\ ~inspection.completed
    BY <1>5 DEF GetInspectionStatus
  <2>2. inspection'.set = inspection.set
    BY <1>1, <2>1
  <2>3. \A a \in inspection.set : ~(Active(tasks'[a]) /\ tasks'[a].source = "inspection")
    BY <2>1 DEF RoundCompleted
  <2> QED
    BY <2>2, <2>3 DEF CompletedMeansEnded, Active
<1>6. CASE InvalidateWithHeaders
  <2>1. inspection' = [inspection EXCEPT !.active = FALSE, !.set = {}]
    BY <1>6 DEF InvalidateWithHeaders, InvalidateTasks
  <2>2. inspection'.set = {}
    BY <1>1, <2>1
  <2> QED
    BY <2>2 DEF CompletedMeansEnded
<1>7. CASE inspection' = inspection /\ ~Inspecting
  <2>1. overlapped' = overlapped
    BY <1>7, Frames
  <2>2. inspection.completed /\ ~overlapped => \A a \in inspection.set : ~Own(a)'
    BY <1>1, <1>2 DEF Inspected, CompletedMeansEnded
  <2> QED
    BY <1>7, <2>1, <2>2 DEF CompletedMeansEnded, Active
<1> QED
  BY <1>3, <1>4, <1>5, <1>6, <1>7, Frames

-----------------------------------------------------------------------------
(* Figures do not become older.                                             *)

\* What a snapshot carries was observed by its time, and nothing else.
WindowsOf(rows, k) == k = "codex" => rows["five"] = 0 /\ rows["seven"] = 0
SnapSound(s) == (\A c \in Components : s.rows[c] <= s.at) /\ WindowsOf(s.rows, s.kind)
PartSound(p, k) ==
    /\ \A c \in Components : p.rows[c] <= p.at
    /\ WindowsOf(p.rows, k)
    /\ k # "codex" => \A c \in Components : p.rows[c] \in {0, p.at}
TaskSound(t) ==
    t # None => \A c \in Components : t.rows[c] # 0 => t.status = "completed" /\ t.rows[c] <= t.at

Observed ==
    /\ \A a \in Auths : TaskSound(tasks[a])
    /\ \A s \in pending : SnapSound(s)
    /\ arriving # None => SnapSound(arriving)
    /\ \A j \in jobs : \A p \in Range(j.parts) : PartSound(p, j.kind)

LEMMA BuiltSound ==
    ASSUME TypeOK, NEW s \in Snapshots, Built(s)
    PROVE  SnapSound(s)
<1>1. PICK a \in Auths, k \in {"codex", "claude"}, t \in 1 .. clock, present \in SUBSET Components :
         s = [auth |-> a, kind |-> k, at |-> t, gen |-> generation,
              rows |-> [c \in Components |-> IF c \in present THEN t ELSE 0]]
  BY DEF Snapshots
<1>2. t \in Nat
  BY DEF TypeOK, TasksOK
<1>3. \A c \in Components : s.rows[c] = IF c \in present THEN t ELSE 0
  BY <1>1
<1>4. s.at = t
  BY <1>1
<1>5. \A c \in Components : s.rows[c] <= s.at
  BY <1>2, <1>3, <1>4
<1>6. s.kind = "codex" => s.rows["five"] = 0 /\ s.rows["seven"] = 0
  BY DEF Built, ComponentsOf, Components
<1> QED
  BY <1>5, <1>6 DEF SnapSound, WindowsOf

LEMMA MergeSound ==
    ASSUME NEW s \in Snaps, NEW t \in Snaps, SnapSound(s), SnapSound(t), s.kind = t.kind
    PROVE  SnapSound(MergeSnapshot(s, t))
<1>1. s.rows \in Figures /\ t.rows \in Figures /\ s.at \in Nat /\ t.at \in Nat
  BY DEF Snaps
<1> DEFINE rows == MergedRows(s.rows, t.rows)
           r == [(IF Newer(t, s) THEN t ELSE s) EXCEPT !.rows = rows]
<1>2. CASE s.gen # t.gen
  BY <1>2 DEF MergeSnapshot
<1>3. CASE s.gen = t.gen
  <2>1. MergeSnapshot(s, t) = r
    BY <1>3 DEF MergeSnapshot
  <2>2. r.rows = rows /\ r.at = (IF t.at >= s.at THEN t.at ELSE s.at) /\ r.kind = s.kind
    BY DEF Snaps, Newer
  <2>3. \A c \in Components : rows[c] \in {s.rows[c], t.rows[c]}
    BY DEF MergedRows
  <2>4. \A c \in Components : s.rows[c] \in Nat /\ t.rows[c] \in Nat /\ s.rows[c] <= s.at /\ t.rows[c] <= t.at
    BY <1>1 DEF SnapSound, Figures
  <2>5. WindowsOf(rows, s.kind)
    BY <2>3 DEF SnapSound, WindowsOf, Components
  <2> HIDE DEF rows, r
  <2>6. \A c \in Components : rows[c] <= r.at
    BY <1>1, <2>2, <2>3, <2>4
  <2> QED
    BY <2>1, <2>2, <2>5, <2>6 DEF SnapSound
<1> QED
  BY <1>2, <1>3

LEMMA OneElement ==
    ASSUME NEW x
    PROVE  Range(<<x>>) = {x} /\ Range(<<>>) = {}
BY DEF Range

LEMMA Joined ==
    ASSUME NEW s \in Seq(Parts), NEW t \in Seq(Parts)
    PROVE  Range(s \o t) \subseteq Range(s) \cup Range(t)
<1>1. /\ DOMAIN (s \o t) = 1..Len(s) + Len(t) /\ Len(s) \in Nat /\ Len(t) \in Nat
      /\ \A i \in 1..Len(s) + Len(t) : (s \o t)[i] = IF i <= Len(s) THEN s[i] ELSE t[i - Len(s)]
      /\ DOMAIN s = 1..Len(s) /\ DOMAIN t = 1..Len(t)
  BY ConcatProperties, LenProperties
<1> SUFFICES ASSUME NEW i \in 1..Len(s) + Len(t) PROVE (s \o t)[i] \in Range(s) \cup Range(t)
  BY <1>1 DEF Range
<1>2. CASE i <= Len(s)
  BY <1>1, <1>2 DEF Range
<1>3. CASE ~(i <= Len(s))
  <2>1. i - Len(s) \in DOMAIN t /\ (s \o t)[i] = t[i - Len(s)]
    BY <1>1, <1>3
  <2> QED
    BY <2>1 DEF Range
<1> QED
  BY <1>2, <1>3

LEMMA JobSound ==
    ASSUME NEW s \in Snaps, SnapSound(s), NEW p \in Range(Job(s).parts)
    PROVE  PartSound(p, s.kind)
<1>1. s.rows \in Figures /\ s.at \in Nat /\ s.rows["five"] \in Nat /\ s.rows["seven"] \in Nat
  BY DEF Snaps, Figures, Components
<1>2. Job(s).parts = PartsOf(s)
  BY DEF Job
<1> DEFINE P(t) == [at |-> t, rows |-> [c \in Components |-> IF s.rows[c] = t THEN t ELSE 0]]
<1>3. CASE s.kind = "codex"
  <2>1. PartsOf(s) = <<[at |-> s.at, rows |-> s.rows]>>
    BY <1>3 DEF PartsOf
  <2>2. p = [at |-> s.at, rows |-> s.rows]
    BY <1>2, <2>1, OneElement
  <2> QED
    BY <1>3, <2>2 DEF SnapSound, PartSound
<1>4. CASE s.kind # "codex"
  <2>1. \A t \in Nat : Part(s, t) \in Seq(Parts) /\ Range(Part(s, t)) \subseteq {P(t)}
    <3>1. \A t : Part(s, t) = IF t = 0 THEN <<>> ELSE <<P(t)>>
      BY DEF Part
    <3> HIDE DEF P
    <3>2. \A t \in Nat : Part(s, t) \in Seq(Parts)
      BY PartType
    <3> QED
      BY <3>1, <3>2, OneElement
  <2>2. /\ Part(s, s.rows["five"]) \in Seq(Parts)
        /\ Part(s, s.rows["seven"]) \in Seq(Parts)
        /\ Range(Part(s, s.rows["five"])) \subseteq {P(s.rows["five"])}
        /\ Range(Part(s, s.rows["seven"])) \subseteq {P(s.rows["seven"])}
    BY <1>1, <2>1
  <2>3. \/ PartsOf(s) = Part(s, s.rows["five"])
        \/ PartsOf(s) = Part(s, s.rows["five"]) \o Part(s, s.rows["seven"])
        \/ PartsOf(s) = Part(s, s.rows["seven"]) \o Part(s, s.rows["five"])
    <3> DEFINE five == s.rows["five"]
               seven == s.rows["seven"]
    <3>1. five = seven \/ five < seven \/ five > seven
      BY <1>1
    <3>2. CASE five = seven
      BY <1>1, <1>4, <3>2 DEF PartsOf
    <3>3. CASE five < seven
      BY <1>1, <1>4, <3>3 DEF PartsOf
    <3>4. CASE five > seven
      BY <1>1, <1>4, <3>4 DEF PartsOf
    <3> QED
      BY <3>1, <3>2, <3>3, <3>4
  <2> HIDE DEF P
  <2>4. Range(PartsOf(s)) \subseteq Range(Part(s, s.rows["five"])) \cup Range(Part(s, s.rows["seven"]))
    BY <2>2, <2>3, Joined
  <2>5. PICK t \in Nat : p = P(t)
    BY <1>1, <1>2, <2>2, <2>4
  <2>6. p.at = t /\ \A c \in Components : p.rows[c] \in {0, t}
    BY <2>5 DEF P
  <2>7. \A c \in Components : p.rows[c] <= p.at
    BY <2>6
  <2> QED
    BY <1>4, <2>6, <2>7 DEF PartSound, WindowsOf
<1> QED
  BY <1>3, <1>4

LEMMA PublishSound ==
    ASSUME TypeOK, Observed, NEW j \in jobs, j.phase = "merge", MayPublish(j),
           NEW c \in Components
    PROVE  LET t == tasks[j.auth]
               h == HeaderRecord(j)
           IN  /\ h.status = "completed" /\ h.kind = j.kind /\ h.rows[c] <= h.at
               /\ t # None /\ t.kind = j.kind /\ t.rows[c] # 0 /\ h.rows[c] # 0 /\ c # "main"
                  => h.rows[c] >= t.rows[c]
<1> DEFINE t == tasks[j.auth]
           p == Head(j.parts)
           Same == t # None /\ t.kind = j.kind
           h == HeaderRecord(j)
<1>1. /\ j.auth \in Auths /\ j.kind \in Kinds /\ p \in Parts /\ PartSound(p, j.kind)
  <2>1. j.auth \in Auths /\ j.kind \in Kinds /\ p \in Parts /\ j.parts \in Seq(Parts) /\ j.parts # <<>>
    BY JobParts
  <2>2. p \in Range(j.parts)
    BY <2>1, Ranges
  <2> QED
    BY <2>1, <2>2 DEF Observed
<1>2. /\ p.at \in Nat /\ p.rows \in Figures /\ p.rows[c] \in Nat /\ p.rows["flag"] \in Nat
      /\ p.rows[c] <= p.at
  BY <1>1 DEF Parts, Figures, Components, PartSound
<1>3. t \in Records \cup {None} /\ TaskSound(t)
  BY <1>1 DEF TypeOK, TasksOK, Observed
<1>4. t # None => t.at \in Nat /\ t.rows \in Figures /\ t.rows[c] \in Nat
  BY <1>3 DEF Records, Figures
<1>5. /\ h.status = "completed" /\ h.kind = j.kind /\ h.at = p.at
      /\ h.rows = PublishedRows(t, p, j.kind)
  BY DEF HeaderRecord
<1>6. Same /\ t.rows[c] # 0 => t.status = "completed" /\ t.rows[c] <= t.at /\ t.at < p.at
  <2>1. Same /\ t.rows[c] # 0 => t.status = "completed" /\ t.rows[c] <= t.at
    BY <1>3 DEF TaskSound
  <2>2. Same => ~(t.status = "completed" /\ t.at >= p.at)
    BY DEF MayPublish
  <2> QED
    BY <1>2, <1>4, <2>1, <2>2
<1>7. \/ h.rows[c] = IF Same THEN t.rows[c] ELSE 0
      \/ /\ h.rows[c] = p.rows[c] /\ p.rows[c] # 0
         /\ ~(/\ c = "flag" /\ j.kind = "codex" /\ Same
              /\ t.status = "completed" /\ t.at >= p.rows["flag"])
  BY <1>5 DEF PublishedRows, NoRows
<1>8. h.rows[c] <= h.at
  <2>1. CASE h.rows[c] = IF Same THEN t.rows[c] ELSE 0
    <3>1. CASE Same /\ t.rows[c] # 0
      <4> HIDE DEF t, p, h, Same
      <4> QED
        BY <1>2, <1>4, <1>5, <1>6, <2>1, <3>1 DEF Same
    <3>2. CASE h.rows[c] = 0
      <4> HIDE DEF t, p, h, Same
      <4> QED
        BY <1>2, <1>5, <3>2
    <3> QED
      BY <2>1, <3>1, <3>2
  <2>2. CASE h.rows[c] = p.rows[c]
    <3> HIDE DEF t, p, h, Same
    <3> QED
      BY <1>2, <1>5, <2>2
  <2> QED
    BY <1>7, <2>1, <2>2
<1>9. ASSUME Same, t.rows[c] # 0, h.rows[c] # 0, c # "main"
      PROVE  h.rows[c] >= t.rows[c]
  <2>1. CASE h.rows[c] = t.rows[c]
    <3> HIDE DEF t, p, h
    <3> QED
      BY <1>4, <1>9, <2>1 DEF Same
  <2>2. CASE /\ h.rows[c] = p.rows[c] /\ p.rows[c] # 0
             /\ ~(/\ c = "flag" /\ j.kind = "codex" /\ Same
                  /\ t.status = "completed" /\ t.at >= p.rows["flag"])
    <3>1. CASE j.kind = "codex"
      <4>1. c = "flag"
        BY <1>1, <1>9, <2>2, <3>1 DEF PartSound, WindowsOf, Components
      <4>2. ~(t.at >= p.rows[c])
        BY <1>6, <1>9, <2>2, <3>1, <4>1
      <4> HIDE DEF t, p, h
      <4> QED
        BY <1>2, <1>4, <1>6, <1>9, <2>2, <4>2 DEF Same
    <3>2. CASE j.kind # "codex"
      <4>1. p.rows[c] = p.at
        BY <1>1, <2>2, <3>2 DEF PartSound
      <4> HIDE DEF t, p, h
      <4> QED
        BY <1>2, <1>4, <1>6, <1>9, <2>2, <4>1 DEF Same
    <3> QED
      BY <3>1, <3>2
  <2> QED
    BY <1>7, <1>9, <2>1, <2>2
<1> QED
  BY <1>5, <1>8, <1>9

Older(a) ==
    \E c \in {"flag", "five", "seven"} :
        /\ tasks[a] # None /\ tasks'[a] # None /\ tasks[a].kind = tasks'[a].kind
        /\ tasks[a].rows[c] # 0 /\ tasks'[a].rows[c] # 0
        /\ ~(tasks'[a].rows[c] >= tasks[a].rows[c])

LEMMA TaskSoundStep ==
    ASSUME TypeOK, Observed, [QuotaNext]_vars, NEW a \in Auths
    PROVE  TaskSound(tasks'[a]) /\ ~Older(a)
<1>1. tasks[a] \in Records \cup {None} /\ TaskSound(tasks[a]) /\ clock \in Nat
  BY DEF TypeOK, TasksOK, Observed
<1>2. \A c \in Components : tasks[a] # None => tasks[a].rows[c] \in Nat
  BY <1>1 DEF Records
<1>3. {"flag", "five", "seven"} \subseteq Components
  BY DEF Components
<1>4. CASE tasks'[a] = tasks[a]
  <2>1. \A c \in Components : tasks[a] # None => tasks[a].rows[c] >= tasks[a].rows[c]
    BY <1>2
  <2> QED
    BY <1>1, <1>3, <1>4, <2>1 DEF Older
<1>5. CASE Drops(a)
  BY <1>5 DEF Drops, Older, TaskSound
<1>6. CASE tasks'[a] # None /\ \A c \in Components : tasks'[a].rows[c] = 0
  BY <1>3, <1>6 DEF Older, TaskSound
<1>7. CASE Queues(a)
  <2>1. tasks'[a] \in Records /\ tasks'[a].rows = NoRows
    BY <1>7, NewTaskType DEF Queues
  <2>2. \A c \in Components : tasks'[a].rows[c] = 0
    BY <2>1 DEF NoRows
  <2> QED
    BY <1>7, <2>1, <2>2, <1>6, NoneAssumption
<1>8. Active(tasks[a]) => tasks[a] \in Records /\ \A c \in Components : tasks[a].rows[c] = 0
  BY <1>1 DEF Active, TaskSound
<1>9. CASE Fails(a)
  <2>1. PICK http \in BOOLEAN : tasks'[a] = Failed(tasks[a], http)
    BY <1>9 DEF Fails
  <2>2. tasks'[a].rows = tasks[a].rows /\ tasks'[a] \in Records
    BY <1>1, <1>8, <1>9, <2>1 DEF Fails, Failed, Records
  <2> QED
    BY <1>6, <1>8, <1>9, <2>2, NoneAssumption DEF Fails
<1>10. CASE Begins(a)
  <2>1. Active(tasks[a])
    BY <1>10 DEF Begins, Active
  <2>2. tasks'[a].rows = tasks[a].rows /\ tasks'[a] \in Records
    BY <1>8, <1>10, <2>1 DEF Begins, Records
  <2> QED
    BY <1>6, <1>8, <2>1, <2>2, NoneAssumption
<1>11. CASE Completes(a)
  <2>1. Active(tasks[a]) /\ tasks[a] \in Records
    BY <1>8, <1>11 DEF Completes
  <2>2. tasks'[a].rows = FullRows(tasks[a].kind) /\ tasks'[a].status = "completed" /\ tasks'[a].at = clock
    BY <1>11, <2>1 DEF Completes, Records
  <2>3. \A c \in Components : tasks'[a].rows[c] \in {0, clock}
    BY <2>2 DEF FullRows
  <2>4. \A c \in Components : tasks'[a].rows[c] <= tasks'[a].at
    BY <1>1, <2>2, <2>3
  <2> QED
    BY <1>3, <1>8, <2>1, <2>2, <2>4 DEF TaskSound, Older
<1>12. CASE Expires(a)
  <2>1. /\ tasks[a] \in Records /\ tasks[a].status = "failed"
        /\ tasks'[a].rows = tasks[a].rows /\ tasks'[a] \in Records
    BY <1>1, <1>12 DEF Expires, Records
  <2>2. \A c \in Components : tasks[a].rows[c] = 0
    BY <1>1, <2>1, NoneAssumption DEF TaskSound
  <2> QED
    BY <1>6, <2>1, <2>2, NoneAssumption
<1>13. CASE Publishes(a)
  <2>1. PICK j \in jobs : j.auth = a /\ j.phase = "merge" /\ MayPublish(j) /\ tasks'[a] = HeaderRecord(j)
    BY <1>13 DEF Publishes
  <2>2. \A c \in Components :
           /\ tasks'[a].status = "completed" /\ tasks'[a].kind = j.kind
           /\ tasks'[a].rows[c] <= tasks'[a].at
           /\ tasks[a] # None /\ tasks[a].kind = j.kind /\ tasks[a].rows[c] # 0
              /\ tasks'[a].rows[c] # 0 /\ c # "main" => tasks'[a].rows[c] >= tasks[a].rows[c]
    BY <2>1, PublishSound
  <2> QED
    BY <1>3, <2>2 DEF TaskSound, Older
<1> QED
  BY <1>4, <1>5, <1>7, <1>9, <1>10, <1>11, <1>12, <1>13, TaskSteps

LEMMA ObservedStep ==
    ASSUME TypeOK, Observed, [QuotaNext]_vars
    PROVE  Observed'
<1>1. pending \in SUBSET Snaps /\ arriving \in Snaps \cup {None} /\ jobs \in SUBSET Jobs
  BY DEF TypeOK, HeadersOK
<1>2. \A a \in Auths : TaskSound(tasks'[a])
  BY TaskSoundStep
<1>3. \A s \in pending' : SnapSound(s)
  <2> TAKE s \in pending'
  <2>1. CASE \E t \in pending : Key(t) = Key(arriving) /\ s = MergeSnapshot(t, arriving) /\ arriving # None
    <3>1. PICK t \in pending : Key(t) = Key(arriving) /\ s = MergeSnapshot(t, arriving) /\ arriving # None
      BY <2>1
    <3>2. t.kind = arriving.kind
      BY <3>1 DEF Key
    <3>3. t \in Snaps /\ arriving \in Snaps /\ SnapSound(t) /\ SnapSound(arriving)
      BY <1>1, <3>1 DEF Observed
    <3> QED
      BY <3>1, <3>2, <3>3, MergeSound
  <2> QED
    BY <2>1, SnapshotSteps DEF Observed
<1>4. arriving' # None => SnapSound(arriving')
  BY ArrivingStep, BuiltSound DEF Observed
<1>5. ASSUME NEW k \in jobs', NEW p \in Range(k.parts) PROVE PartSound(p, k.kind)
  <2>1. CASE k \in jobs
    BY <1>5, <2>1 DEF Observed
  <2>2. CASE \E s \in pending : k = Job(s)
    <3>1. PICK s \in pending : k = Job(s)
      BY <2>2
    <3>2. k.kind = s.kind
      BY <3>1 DEF Job
    <3> QED
      BY <1>1, <1>5, <3>1, <3>2, JobSound DEF Observed
  <2>3. CASE \E j \in jobs : k = Looked(j) \/ k = Checked(j)
    <3>1. PICK j \in jobs : k = Looked(j) \/ k = Checked(j)
      BY <2>3
    <3>2. k.parts = j.parts /\ k.kind = j.kind
      BY <1>1, <3>1, PhaseChange
    <3> QED
      BY <1>5, <3>2 DEF Observed
  <2>4. CASE \E j \in jobs : j.phase # "lookup" /\ k \in NextPart(j)
    <3>1. PICK j \in jobs : j.phase # "lookup" /\ k \in NextPart(j)
      BY <2>4
    <3>2. k.parts = Tail(j.parts) /\ k.kind = j.kind
      BY <3>1, NextPartType
    <3>3. j.parts \in Seq(Parts) /\ j.parts # <<>>
      BY <3>1, JobParts
    <3>4. Range(k.parts) \subseteq Range(j.parts)
      BY <3>2, <3>3, Ranges
    <3> QED
      BY <1>5, <3>2, <3>4 DEF Observed
  <2> QED
    BY <1>5, <2>1, <2>2, <2>3, <2>4, JobSteps
<1> QED
  BY <1>2, <1>3, <1>4, <1>5 DEF Observed

-----------------------------------------------------------------------------
(* One provider call per credential, while credentials keep their types.    *)

\* What is queued, called or published for a credential is of its type, and
\* only a failed task expires.
OfItsType ==
    /\ \A ref \in Held : ref.kind = kind[ref.auth] /\ ref.gen <= generation
    /\ \A j \in jobs : j.phase # "lookup" => j.kind = kind[j.auth]
    /\ \A a \in Auths : Active(tasks[a]) => tasks[a].kind = kind[a]
    /\ \A a \in Auths : tasks[a] # None /\ tasks[a].expired => tasks[a].status = "failed"

OnCall(w) == w.phase = "call" /\ w.ref.gen = generation
Queued1(ref) == Current(ref) /\ tasks[ref.auth].status = "queued"
Running1(ref) == Current(ref) /\ tasks[ref.auth].status = "running"
Ready(w) == w.phase = "start" /\ Queued1(w.ref)

\* A call is made for the running task of its credential; once the service
\* closes the task may be failed meanwhile, but then no other worker starts.
Calling ==
    /\ ~closing => \A w \in workers : OnCall(w) => Running1(w.ref)
    /\ \A w, x \in workers : OnCall(w) /\ x.ref.auth = w.ref.auth =>
          ~Ready(x) /\ (OnCall(x) => x = w)

Separate == OfItsType /\ Calling

LEMMA WorkerFields ==
    ASSUME TypeOK, NEW w \in workers
    PROVE  /\ w.ref \in Held /\ w.ref.auth \in Auths /\ w.ref \in Refs
           /\ w = [ref |-> w.ref, phase |-> w.phase]
           /\ \A x \in workers : x.ref = w.ref /\ x.phase = w.phase => x = w
<1>1. workers \in SUBSET [ref : Refs, phase : {"start", "call"}]
  BY DEF TypeOK, GoroutinesOK
<1> QED
  BY <1>1, HeldBy DEF Refs

LEMMA GenerationSteps ==
    ASSUME TypeOK, [QuotaNext]_vars
    PROVE  \/ generation' = generation
           \/ /\ generation' = generation + 1 /\ UNCHANGED <<workers, closing>>
              /\ InvalidateWithHeaders
BY Frames DEF InvalidateWithHeaders, InvalidateTasks

LEMMA OfItsTypeStep ==
    ASSUME TypeOK, OfItsType, [QuotaNext]_vars, kind' = kind
    PROVE  OfItsType'
<1>1. ASSUME NEW ref \in Held' PROVE ref.kind = kind[ref.auth] /\ ref.gen <= generation'
  <2>1. CASE ref \in Held
    <3>1. ref.gen \in Nat /\ generation \in Nat /\ ref.gen <= generation /\ ref.kind = kind[ref.auth]
      BY <2>1, HeldIsRefs DEF Refs, TypeOK, TasksOK, OfItsType
    <3>2. generation' = generation \/ generation' = generation + 1
      BY GenerationSteps
    <3> QED
      BY <3>1, <3>2
  <2>2. CASE \E a \in Auths : ref = NewRef(a) /\ ref \notin Held
    <3>1. ref.kind = kind[ref.auth] /\ ref.gen = generation
      BY <2>2 DEF NewRef
    <3>2. generation' \in {generation, generation + 1} /\ generation \in Nat
      BY GenerationSteps DEF TypeOK, TasksOK
    <3> QED
      BY <3>1, <3>2
  <2> QED
    BY <1>1, <2>1, <2>2, HeldStep
<1>2. ASSUME NEW k \in jobs', k.phase # "lookup" PROVE k.kind = kind[k.auth]
  <2>1. jobs \in SUBSET Jobs /\ pending \in SUBSET Snaps
    BY DEF TypeOK, HeadersOK
  <2>2. CASE k \in jobs
    BY <1>2, <2>2 DEF OfItsType
  <2>3. CASE \E s \in pending : k = Job(s)
    BY <1>2, <2>1, <2>3, PartsType
  <2>4. CASE \E j \in jobs : kind[j.auth] = j.kind /\ k = Looked(j)
    BY <2>1, <2>4, PhaseChange
  <2>5. CASE \E j \in jobs : j.phase = "check" /\ k = Checked(j)
    BY <2>1, <2>5, PhaseChange DEF OfItsType
  <2>6. CASE \E j \in jobs : j.phase # "lookup" /\ k \in NextPart(j)
    BY <2>6, NextPartType DEF OfItsType
  <2> QED
    BY <1>2, <2>2, <2>3, <2>4, <2>5, <2>6, JobSteps
<1>3. ASSUME NEW a \in Auths
      PROVE  /\ Active(tasks'[a]) => tasks'[a].kind = kind[a]
             /\ tasks'[a] # None /\ tasks'[a].expired => tasks'[a].status = "failed"
  <2>1. /\ tasks[a] \in Records \cup {None}
        /\ Active(tasks[a]) => tasks[a].kind = kind[a]
        /\ tasks[a] # None /\ tasks[a].expired => tasks[a].status = "failed"
    BY DEF TypeOK, TasksOK, OfItsType
  <2>2. CASE tasks'[a] = tasks[a] \/ Drops(a)
    BY <2>1, <2>2 DEF Drops, Active
  <2>3. CASE Queues(a)
    <3>1. tasks'[a].kind = kind[a] /\ ~tasks'[a].expired
      BY <2>3 DEF Queues, NewTask
    <3> QED
      BY <3>1
  <2>4. CASE Fails(a)
    <3>1. tasks[a] \in Records
      BY <2>1, <2>4 DEF Fails, Active
    <3>2. tasks'[a].status = "failed"
      BY <2>4, <3>1 DEF Fails, Failed, Records
    <3> QED
      BY <3>2 DEF Active
  <2>5. CASE Begins(a)
    <3>1. tasks'[a].kind = tasks[a].kind /\ tasks'[a].expired = tasks[a].expired
      BY <2>1, <2>5 DEF Begins, Records
    <3> QED
      BY <2>1, <2>5, <3>1 DEF Begins, Active
  <2>6. CASE Completes(a)
    <3>1. tasks[a] \in Records /\ Active(tasks[a])
      BY <2>1, <2>6 DEF Completes, Active
    <3>2. tasks'[a].status = "completed" /\ tasks'[a].expired = tasks[a].expired
      BY <2>6, <3>1 DEF Completes, Records
    <3> QED
      BY <2>1, <3>1, <3>2 DEF Active
  <2>7. CASE Expires(a)
    <3>1. tasks'[a].status = "failed"
      BY <2>1, <2>7 DEF Expires, Records
    <3> QED
      BY <3>1 DEF Active
  <2>8. CASE Publishes(a)
    <3>1. tasks'[a].status = "completed" /\ ~tasks'[a].expired
      BY <2>8 DEF Publishes, HeaderRecord
    <3> QED
      BY <3>1 DEF Active
  <2> QED
    BY <2>2, <2>3, <2>4, <2>5, <2>6, <2>7, <2>8, TaskSteps
<1> QED
  BY <1>1, <1>2, <1>3 DEF OfItsType, Active

\* A task that is called stays as it is until its own worker ends the call.
LEMMA RunningKept ==
    ASSUME TypeOK, Separate, [QuotaNext]_vars, ~closing, generation' = generation,
           NEW w \in workers, w \in workers', OnCall(w)
    PROVE  tasks'[w.ref.auth] = tasks[w.ref.auth]
<1> DEFINE a == w.ref.auth
<1>1. /\ a \in Auths /\ tasks[a] # None /\ tasks[a].status = "running" /\ tasks[a].id = w.ref.id
      /\ Active(tasks[a]) /\ ~tasks[a].expired /\ tasks[a].kind = kind[a] /\ Running1(w.ref)
  <2>1. Running1(w.ref) /\ a \in Auths
    BY WorkerFields DEF Separate, Calling
  <2>2. tasks[a] # None /\ tasks[a].status = "running" /\ tasks[a].id = w.ref.id
    BY <2>1 DEF Running1, Current
  <2>3. Active(tasks[a])
    BY <2>2 DEF Active
  <2> QED
    BY <2>1, <2>2, <2>3 DEF Separate, OfItsType
<1>2. CASE StartRefresh \/ RunAutoRefresh \/ GetInspectionStatus
  <2>1. tasks' = Unexpired(tasks)
    BY <1>2 DEF StartRefresh, RunAutoRefresh, GetInspectionStatus
  <2> QED
    BY <1>1, <2>1 DEF Unexpired
<1>3. CASE Inspecting
  <2>1. tasks' = WithoutEnded(tasks)
    BY <1>3 DEF Inspecting, StartInspection, BeginInspectionRound
  <2> QED
    BY <1>1, <2>1 DEF WithoutEnded
<1>4. CASE Scanning
  BY <1>1, <1>4, ScanStep DEF Scanning, Queues
<1>5. CASE Finishes
  <2>1. tasks' = tasks \/ \E c : StartDispatcher(c)
    BY <1>5 DEF Finishes, FinishRefresh, FinishAutoRefresh, InspectionFinishes, FinishInspection
  <2>2. tasks' = tasks
    BY <2>1 DEF StartDispatcher
  <2> QED
    BY <2>2
<1>6. CASE Dispatches \/ Cancels
  <2>1. tasks' = tasks
    BY <1>6 DEF Dispatches, Cancels, Dispatch, DispatchCancelled
  <2> QED
    BY <2>1
<1>7. CASE Runs
  <2>1. PICK x \in workers : MarkRunning(x)
    BY <1>7 DEF Runs
  <2>2. CASE tasks' = tasks
    BY <2>2
  <2>3. CASE /\ tasks[x.ref.auth].status = "queued"
             /\ tasks' = [tasks EXCEPT ![x.ref.auth].status = "running"]
    <3>1. x.ref.auth # a
      BY <1>1, <2>3
    <3> QED
      BY <2>3, <3>1
  <2> QED
    BY <2>1, <2>2, <2>3 DEF MarkRunning
<1>8. CASE CallEnds
  <2>1. PICK x \in workers : EndCall(x)
    BY <1>8 DEF CallEnds
  <2>2. x # w /\ x.phase = "call"
    BY <2>1 DEF EndCall
  <2>3. PICK verdict \in {"completed", "failed", "http", "unsupported"} : tasks' = EndTask(x.ref, verdict)
    BY <2>1 DEF EndCall
  <2>4. ~(x.ref.auth = a /\ Current(x.ref))
    <3> SUFFICES ASSUME x.ref.auth = a, Current(x.ref) PROVE FALSE
      OBVIOUS
    <3>1. x.ref.gen = generation
      BY DEF Current
    <3>2. OnCall(x)
      BY <2>2, <3>1 DEF OnCall
    <3> QED
      BY <2>2, <3>2 DEF Separate, Calling
  <2>5. CASE ~Current(x.ref) \/ ~Active(tasks[x.ref.auth])
    BY <2>3, <2>5 DEF EndTask
  <2>6. CASE x.ref.auth # a
    <3>1. tasks' = tasks \/ \E t : tasks' = [tasks EXCEPT ![x.ref.auth] = t]
          \/ tasks' = [tasks EXCEPT ![x.ref.auth].status = "completed", ![x.ref.auth].at = clock,
                                    ![x.ref.auth].rows = FullRows(tasks[x.ref.auth].kind)]
      BY <2>3 DEF EndTask
    <3> DEFINE b == x.ref.auth
               rows == FullRows(tasks[b].kind)
    <3>2. a \in DOMAIN tasks /\ a # b
      BY <1>1, <2>6 DEF TypeOK, TasksOK
    <3>3. tasks' = tasks \/ \E t : tasks' = [tasks EXCEPT ![b] = t]
          \/ tasks' = [tasks EXCEPT ![b].status = "completed", ![b].at = clock, ![b].rows = rows]
      BY <3>1
    <3> HIDE DEF a, b, rows
    <3>4. tasks'[a] = tasks[a]
      BY <3>2, <3>3
    <3> QED
      BY <3>4 DEF a
  <2> QED
    BY <2>4, <2>5, <2>6
<1>9. CASE Elapses
  <2>1. PICK b \in Auths : tasks[b].status = "failed" /\ tasks' = [tasks EXCEPT ![b].expired = TRUE]
    BY <1>9 DEF Elapses, TTLElapses
  <2>2. a # b /\ a \in DOMAIN tasks
    BY <1>1, <2>1 DEF TypeOK, TasksOK
  <2> HIDE DEF a
  <2>3. tasks'[a] = tasks[a]
    BY <2>1, <2>2
  <2> QED
    BY <2>3 DEF a
<1>10. CASE ReadsTask
  <2>1. PICK b \in Auths : tasks[b].expired /\ tasks' \in {[tasks EXCEPT ![b] = None], Unexpired(tasks)}
    BY <1>10 DEF ReadsTask, ReadTask
  <2>2. a # b /\ a \in DOMAIN tasks
    BY <1>1, <2>1 DEF TypeOK, TasksOK
  <2>3. Unexpired(tasks)[a] = tasks[a]
    BY <1>1 DEF Unexpired
  <2> HIDE DEF a
  <2>4. tasks'[a] = tasks[a]
    BY <2>1, <2>2, <2>3
  <2> QED
    BY <2>4 DEF a
<1>11. CASE Merges
  <2>1. PICK j \in jobs : j.phase = "merge" /\ Publish(j)
    BY <1>11 DEF Merges, MergePart
  <2>2. CASE ~MayPublish(j)
    BY <2>1, <2>2 DEF Publish
  <2>3. CASE MayPublish(j)
    <3>1. j.kind = kind[j.auth]
      BY <2>1 DEF Separate, OfItsType
    <3>2. j.auth # a
      BY <1>1, <2>3, <3>1 DEF MayPublish
    <3>3. tasks' = [tasks EXCEPT ![j.auth] = HeaderRecord(j)]
      BY <2>1, <2>3 DEF Publish
    <3>4. a \in DOMAIN tasks
      BY <1>1 DEF TypeOK, TasksOK
    <3> DEFINE h == HeaderRecord(j)
    <3> HIDE DEF a, h
    <3>5. tasks'[a] = tasks[a]
      BY <3>2, <3>3, <3>4 DEF h
    <3> QED
      BY <3>5 DEF a
  <2> QED
    BY <2>2, <2>3
<1>12. CASE InvalidateWithHeaders
  <2>1. generation' = generation + 1 /\ generation \in Nat
    BY <1>12 DEF InvalidateWithHeaders, InvalidateTasks, TypeOK, TasksOK
  <2> QED
    BY <2>1
<1> QED
  BY <1>2, <1>3, <1>4, <1>5, <1>6, <1>7, <1>8, <1>9, <1>10, <1>11, <1>12, Frames

\* No reference that is about comes to stand for a record queued later.
LEMMA QueuedBefore ==
    ASSUME TypeOK, [QuotaNext]_vars, generation' = generation, NEW ref \in Held, Queued1(ref)'
    PROVE  Queued1(ref) /\ tasks'[ref.auth] = tasks[ref.auth]
<1> DEFINE a == ref.auth
<1>1. a \in Auths /\ tasks[a] \in Records \cup {None}
  BY HeldIsRefs DEF TypeOK, TasksOK, Refs
<1>2. /\ ref.gen = generation' /\ tasks'[a] # None /\ tasks'[a].id = ref.id
      /\ tasks'[a].status = "queued"
  BY DEF Queued1, Current
<1>3. CASE tasks'[a] = tasks[a]
  BY <1>2, <1>3 DEF Queued1, Current
<1>4. ~Queues(a)
  <2> SUFFICES ASSUME Queues(a) PROVE FALSE
    OBVIOUS
  <2>1. FreshId(a) # ref.id
    BY <1>1, FreshIsFresh
  <2>2. PICK c \in Callers : tasks'[a] = NewTask(a, SourceOf(c))
    BY DEF Queues
  <2>3. tasks'[a].id = FreshId(a)
    BY <2>2 DEF NewTask
  <2> QED
    BY <1>2, <2>1, <2>3
<1>5. ~Fails(a)
  <2> SUFFICES ASSUME Fails(a) PROVE FALSE
    OBVIOUS
  <2>1. tasks[a] \in Records
    BY <1>1 DEF Fails, Active
  <2>2. tasks'[a].status = "failed"
    BY <2>1 DEF Fails, Failed, Records
  <2> QED
    BY <1>2, <2>2
<1>6. ~Begins(a)
  <2> SUFFICES ASSUME Begins(a) PROVE FALSE
    OBVIOUS
  <2>1. tasks[a] \in Records /\ tasks'[a] = [tasks[a] EXCEPT !.status = "running"]
    BY <1>1 DEF Begins
  <2>2. tasks'[a].status = "running"
    BY <2>1 DEF Records
  <2> QED
    BY <1>2, <2>2
<1>7. ~Completes(a)
  <2> SUFFICES ASSUME Completes(a) PROVE FALSE
    OBVIOUS
  <2>1. tasks[a] \in Records
    BY <1>1 DEF Completes, Active
  <2>2. tasks'[a].status = "completed"
    BY <2>1 DEF Completes, Records
  <2> QED
    BY <1>2, <2>2
<1>8. ~Expires(a)
  <2> SUFFICES ASSUME Expires(a) PROVE FALSE
    OBVIOUS
  <2>1. tasks[a] \in Records /\ tasks[a].status = "failed"
        /\ tasks'[a] = [tasks[a] EXCEPT !.expired = TRUE]
    BY <1>1 DEF Expires
  <2>2. tasks'[a].status = "failed"
    BY <2>1 DEF Records
  <2> QED
    BY <1>2, <2>2
<1>9. ~Publishes(a)
  <2> SUFFICES ASSUME Publishes(a) PROVE FALSE
    OBVIOUS
  <2>1. PICK j \in jobs : tasks'[a] = HeaderRecord(j)
    BY DEF Publishes
  <2>2. tasks'[a].status = "completed"
    BY <2>1 DEF HeaderRecord
  <2> QED
    BY <1>2, <2>2
<1>10. ~Drops(a)
  BY <1>2 DEF Drops
<1> QED
  BY <1>1, <1>3, <1>4, <1>5, <1>6, <1>7, <1>8, <1>9, <1>10, TaskSteps

LEMMA CallingStep ==
    ASSUME TypeOK, Separate, [QuotaNext]_vars, kind' = kind
    PROVE  Calling'
<1>1. CASE generation' # generation
  <2>1. generation' = generation + 1 /\ UNCHANGED <<workers, closing>> /\ generation \in Nat
    BY <1>1, GenerationSteps DEF TypeOK, TasksOK
  <2>2. ASSUME NEW w \in workers PROVE ~OnCall(w)'
    <3>1. w.ref.gen \in Nat /\ w.ref.gen <= generation
      BY WorkerFields DEF Separate, OfItsType, Refs
    <3>2. w.ref.gen # generation'
      BY <2>1, <3>1
    <3> QED
      BY <3>2 DEF OnCall
  <2> QED
    BY <2>1, <2>2 DEF Calling
<1>2. CASE generation' = generation
  <2>1. ASSUME NEW w \in workers', OnCall(w)', w \notin workers
        PROVE  \E y \in workers :
                  /\ Ready(y) /\ w.ref = y.ref /\ w = [y EXCEPT !.phase = "call"]
                  /\ workers' = (workers \ {y}) \cup {w}
                  /\ tasks'[y.ref.auth] # None /\ tasks'[y.ref.auth].id = y.ref.id
                  /\ tasks'[y.ref.auth].status = "running"
    <3>1. ~Starts
      BY <2>1 DEF Starts, OnCall
    <3>2. PICK y \in workers :
             /\ y.phase = "start" /\ Current(y.ref) /\ tasks[y.ref.auth].status = "queued"
             /\ tasks' = [tasks EXCEPT ![y.ref.auth].status = "running"]
             /\ workers' = (workers \ {y}) \cup {[y EXCEPT !.phase = "call"]}
      BY <2>1, <3>1, WorkerSteps DEF Calls
    <3>3. w = [y EXCEPT !.phase = "call"]
      BY <2>1, <3>2
    <3>4. w.ref = y.ref
      BY <3>3 DEF TypeOK, GoroutinesOK
    <3> DEFINE a == y.ref.auth
    <3>5. a \in Auths /\ tasks[a] \in Records /\ tasks[a].id = y.ref.id
      BY <3>2, WorkerFields DEF Current, TypeOK, TasksOK
    <3>6. tasks'[a] = [tasks[a] EXCEPT !.status = "running"]
      BY <3>2, <3>5 DEF TypeOK, TasksOK
    <3>7. tasks'[a] \in Records /\ tasks'[a].id = y.ref.id /\ tasks'[a].status = "running"
      BY <3>5, <3>6 DEF Records
    <3> QED
      BY <3>2, <3>3, <3>4, <3>7, NoneAssumption DEF Ready, Queued1
  <2>2. \A w \in workers : OnCall(w)' <=> OnCall(w)
    BY <1>2 DEF OnCall
  <2>3. ASSUME ~closing', NEW w \in workers', OnCall(w)'
        PROVE  Running1(w.ref)'
    <3>1. ~closing
      BY <2>3, Frames DEF StopRefreshTasks
    <3>2. CASE w \in workers
      <4>1. OnCall(w) /\ Running1(w.ref)
        BY <2>2, <2>3, <3>1, <3>2 DEF Separate, Calling
      <4>2. tasks'[w.ref.auth] = tasks[w.ref.auth]
        BY <1>2, <2>3, <3>1, <3>2, <4>1, RunningKept
      <4> QED
        BY <1>2, <4>1, <4>2 DEF Running1, Current
    <3>3. CASE w \notin workers
      BY <2>1, <2>3, <3>3 DEF Running1, Current, OnCall
    <3> QED
      BY <3>2, <3>3
  <2>4. ASSUME NEW w \in workers', NEW x \in workers', OnCall(w)', x.ref.auth = w.ref.auth, Ready(x)'
        PROVE  FALSE
    <3>1. x.phase = "start" /\ Queued1(x.ref)' /\ tasks'[x.ref.auth].status = "queued"
      BY <2>4 DEF Ready, Queued1
    <3>2. w \in workers
      BY <2>1, <2>4, <3>1
    <3>3. OnCall(w)
      BY <2>2, <2>4, <3>2
    <3>4. CASE x \in workers
      <4>1. Queued1(x.ref)
        BY <1>2, <3>1, <3>4, WorkerFields, QueuedBefore
      <4> QED
        BY <2>4, <3>1, <3>2, <3>3, <3>4, <4>1 DEF Separate, Calling, Ready
    <3>5. CASE x \notin workers
      <4>1. ~Calls
        <5> SUFFICES ASSUME Calls PROVE FALSE
          OBVIOUS
        <5>1. PICK y \in workers : workers' = (workers \ {y}) \cup {[y EXCEPT !.phase = "call"]}
          BY DEF Calls
        <5>2. x = [y EXCEPT !.phase = "call"]
          BY <3>5, <5>1
        <5>3. x.phase = "call"
          BY <5>2 DEF TypeOK, GoroutinesOK
        <5> QED
          BY <3>1, <5>3
      <4>2. ~closing /\ UNCHANGED tasks
        BY <3>5, <4>1, WorkerSteps DEF Starts
      <4>3. tasks[w.ref.auth].status = "running"
        BY <3>2, <3>3, <4>2 DEF Separate, Calling, Running1
      <4> QED
        BY <2>4, <3>1, <4>2, <4>3
    <3> QED
      BY <3>4, <3>5
  <2>5. ASSUME NEW w \in workers', NEW x \in workers', OnCall(w)', OnCall(x)',
               x.ref.auth = w.ref.auth
        PROVE  x = w
    <3>1. CASE w \in workers /\ x \in workers
      BY <2>2, <2>5, <3>1 DEF Separate, Calling
    <3>2. CASE w \in workers /\ x \notin workers
      <4>1. PICK y \in workers : Ready(y) /\ x.ref = y.ref
        BY <2>1, <2>5, <3>2
      <4> QED
        BY <2>2, <2>5, <3>2, <4>1 DEF Separate, Calling
    <3>3. CASE w \notin workers /\ x \in workers
      <4>1. PICK y \in workers : Ready(y) /\ w.ref = y.ref
        BY <2>1, <2>5, <3>3
      <4> QED
        BY <2>2, <2>5, <3>3, <4>1 DEF Separate, Calling
    <3>4. CASE w \notin workers /\ x \notin workers
      <4>1. \E y \in workers : workers' = (workers \ {y}) \cup {w}
        BY <2>1, <2>5, <3>4
      <4> QED
        BY <2>5, <3>4, <4>1
    <3> QED
      BY <3>1, <3>2, <3>3, <3>4
  <2> QED
    BY <2>3, <2>4, <2>5 DEF Calling
<1> QED
  BY <1>1, <1>2

LEMMA CallingIsOne ==
    ASSUME TypeOK, Separate
    PROVE  OneCallPerCredential
<1> SUFFICES ASSUME NEW a \in Auths
             PROVE  Cardinality({w \in workers : /\ w.phase = "call" /\ w.ref.auth = a
                                                 /\ w.ref.gen = generation
                                                 /\ w.ref.kind = kind[a]}) <= 1
  BY DEF OneCallPerCredential
<1> DEFINE S == {w \in workers : /\ w.phase = "call" /\ w.ref.auth = a
                                 /\ w.ref.gen = generation /\ w.ref.kind = kind[a]}
<1>1. \A w, x \in S : x = w
  BY DEF Separate, Calling, OnCall
<1> HIDE DEF S
<1>2. S = {} \/ \E w \in S : S = {w}
  BY <1>1
<1>3. Cardinality({}) = 0 /\ \A w : Cardinality({w}) = 1
  BY FS_EmptySet, FS_Singleton
<1>4. Cardinality(S) = 0 \/ Cardinality(S) = 1
  BY <1>2, <1>3
<1>5. Cardinality(S) <= 1
  BY <1>4
<1> QED
  BY <1>5 DEF S

-----------------------------------------------------------------------------
(* The theorems.                                                            *)

LEMMA SoundInit ==
    ASSUME RefreshInit, HeadersInit
    PROVE  NoSnapshotForgotten /\ Inspected /\ Observed /\ Separate
<1>1. NoSnapshotForgotten
  BY DEF HeadersInit, NoSnapshotForgotten
<1>2. Inspected
  BY DEF RefreshInit, NoInspection, Inspected, OneInspection, Inspects, CompletedMeansEnded
<1>3. Observed
  BY DEF RefreshInit, HeadersInit, Observed, TaskSound
<1>4. \A r : r \notin Held
  <2>1. \A c \in Callers : scans[c] = None
    BY DEF RefreshInit
  <2> QED
    BY <2>1, HeldBy DEF RefreshInit
<1>5. Separate
  BY <1>4 DEF RefreshInit, HeadersInit, Separate, OfItsType, Calling, Active
<1> QED
  BY <1>1, <1>2, <1>3, <1>5

\* The windows and the flag of a credential never go back to figures that were
\* observed earlier, in whatever order headers, flushes, refreshes, new types
\* and recalculations come.
THEOREM FiguresNeverOlder == QuotaSpec => NeverOlder
<1>1. RefreshInit /\ HeadersInit => TypeOK /\ Observed
  BY TypeInit, SoundInit
<1>2. TypeOK /\ Observed /\ [QuotaNext]_vars => TypeOK' /\ Observed'
  BY TypeStep, ObservedStep
<1>3. TypeOK /\ Observed /\ [QuotaNext]_vars
      => [\A a \in Auths : \A c \in {"flag", "five", "seven"} :
            /\ tasks[a] # None /\ tasks'[a] # None
            /\ tasks[a].kind = tasks'[a].kind /\ tasks[a].rows[c] # 0 /\ tasks'[a].rows[c] # 0
            => tasks'[a].rows[c] >= tasks[a].rows[c]]_<<tasks>>
  <2> SUFFICES ASSUME TypeOK, Observed, [QuotaNext]_vars
               PROVE  \A a \in Auths : \A c \in {"flag", "five", "seven"} :
                         /\ tasks[a] # None /\ tasks'[a] # None
                         /\ tasks[a].kind = tasks'[a].kind /\ tasks[a].rows[c] # 0
                         /\ tasks'[a].rows[c] # 0
                         => tasks'[a].rows[c] >= tasks[a].rows[c]
    OBVIOUS
  <2> QED
    BY TaskSoundStep DEF Older
<1> QED
  BY <1>1, <1>2, <1>3, PTL DEF QuotaSpec, NeverOlder, vars

\* A completed inspection has no task of its own left, unless two inspections
\* were started at the same time; and no snapshot that the map accepted is left
\* without a wake-up or an open window.  Types may change.
THEOREM InspectionsAndSnapshots ==
    QuotaSpec => [](CompletedMeansEnded /\ NoSnapshotForgotten)
<1>1. RefreshInit /\ HeadersInit => TypeOK /\ Inspected /\ NoSnapshotForgotten
  BY TypeInit, SoundInit
<1>2. TypeOK /\ Inspected /\ NoSnapshotForgotten /\ [QuotaNext]_vars
      => TypeOK' /\ Inspected' /\ NoSnapshotForgotten'
  BY TypeStep, OneInspectionStep, EndedStep, ForgottenStep DEF Inspected
<1> QED
  BY <1>1, <1>2, PTL DEF QuotaSpec, vars, Inspected

\* While the credentials keep the types they had at the start, all that the
\* rounds, the inspections and the header worker promise holds: above all, a
\* credential has at most one provider call of the current generation.
THEOREM RefreshIsSound ==
    QuotaSpec /\ [][UNCHANGED kind]_vars => []RefreshSound
<1>1. RefreshInit /\ HeadersInit => TypeOK /\ Inspected /\ NoSnapshotForgotten /\ Separate
  BY TypeInit, SoundInit
<1>2. TypeOK /\ Inspected /\ NoSnapshotForgotten /\ Separate
      /\ [QuotaNext]_vars /\ [UNCHANGED kind]_vars
      => TypeOK' /\ Inspected' /\ NoSnapshotForgotten' /\ Separate'
  <2> SUFFICES ASSUME TypeOK, Inspected, NoSnapshotForgotten, Separate, [QuotaNext]_vars,
                      [UNCHANGED kind]_vars
               PROVE  TypeOK' /\ Inspected' /\ NoSnapshotForgotten' /\ Separate'
    OBVIOUS
  <2>1. kind' = kind
    BY DEF vars, refreshVars
  <2> QED
    BY <2>1, TypeStep, OneInspectionStep, EndedStep, ForgottenStep, OfItsTypeStep, CallingStep
       DEF Inspected, Separate
<1>3. TypeOK /\ Inspected /\ NoSnapshotForgotten /\ Separate => RefreshSound
  BY CallingIsOne DEF RefreshSound, Inspected
<1> QED
  BY <1>1, <1>2, <1>3, PTL DEF QuotaSpec, vars
=============================================================================
