-------------------------- MODULE UsageAggregation --------------------------
(***************************************************************************)
(* UsageAggregationRunner: one goroutine that carries committed usage      *)
(* events into the overview, activity and latency rollups and into the     *)
(* statistics of the identities, and the archive that moves aggregated     *)
(* events out of the hot table.                                            *)
(*                                                                         *)
(* The runner sleeps until the inbox processor or the metadata sync tells  *)
(* it of new work.  The legacy instance is aggregated in short turns up to *)
(* a target frozen by a debounce timer; a turn yields to waiting inbox     *)
(* rows before every write.  Pushed instances are caught up in one pass    *)
(* between turns.  Any statement may fail, the keeper may stop anywhere.   *)
(***************************************************************************)
EXTENDS Integers, FiniteSets, Sequences

CONSTANTS
    Legacy,         \* entities.LegacyCPAInstanceID
    Pushed,         \* instances that push their usage
    MaxRows,        \* bound: inbox rows that ever arrive
    MaxIdentities,  \* bound: rows of usage_identities
    Home,           \* the instance of an identity row
    Author,         \* the identity a usage event belongs to
    PageSize,       \* usageAggregationEventPageSize
    NamePage,       \* UsageIdentityAggregationBatchSize
    Broken,         \* rollups whose writes always fail
    MaxCrashes      \* bound: restarts of the keeper

Instances == Pushed \cup {Legacy}
Events == 1..MaxRows
Names == 1..MaxIdentities

\* The order in which a turn writes the three rollups.
Types == <<"overview", "activity", "latency">>
Rollups == {"overview", "activity", "latency"}

ASSUME AggregationAssumption ==
    /\ Legacy \notin Pushed
    /\ MaxRows \in Nat /\ MaxIdentities \in Nat /\ MaxCrashes \in Nat
    /\ PageSize \in Nat \ {0} /\ NamePage \in Nat \ {0}
    /\ Home \in [Names -> Instances] /\ Author \in [Events -> Nat]
    /\ Broken \subseteq Rollups

VARIABLES
    inbox,      \* processable inbox rows, by instance
    arrived,    \* inbox rows that arrived so far
    owner,      \* usage events by id (AUTOINCREMENT): the instance of each
    hot,        \* ids in usage_events; the others are archived
    enabled,    \* cpa_instances.enabled
    cursor,     \* usage_aggregation_checkpoints, by instance and rollup
    counted,    \* how often a rollup contains an event
    known,      \* rows of usage_identities
    nameCursor, \* last_aggregated_usage_event_id of an identity
    nameCount,  \* how often an event is in its identity's statistics
    notice,     \* the processor: an event it committed but has not announced
    sync,       \* the metadata sync: announcement under way
    mem,        \* the runner's fields guarded by mu
    timer,      \* debounceTimer
    wake,       \* the wake channel holds a token
    pc, turn,   \* where the runner is, and its local variables
    crashes

inboxVars == <<inbox, arrived>>
eventVars == <<owner, hot, enabled>>
rollupVars == <<cursor, counted>>
nameVars == <<known, nameCursor, nameCount>>
senderVars == <<notice, sync>>
runnerVars == <<mem, timer, wake, pc, turn>>
vars == <<inboxVars, eventVars, rollupVars, nameVars, senderVars, runnerVars, crashes>>

Quiet == [stage |-> "none", event |-> 0]
NoCursor == [t \in Rollups |-> 0]

\* NewUsageAggregationRunner.
NewMem == [next |-> "rollups", active |-> FALSE, target |-> 0, reached |-> FALSE,
           pending |-> 0, after |-> 0, want |-> 1, scan |-> 0, other |-> TRUE]

NoTurn == [kind |-> "none", inst |-> Legacy, target |-> 0, snap |-> NoCursor,
           shared |-> FALSE, page |-> {}, at |-> 0, err |-> FALSE,
           gen |-> 0, after |-> 0, todo |-> {}]

Init ==
    /\ inbox = [i \in Instances |-> 0] /\ arrived = 0
    /\ owner = <<>> /\ hot = {} /\ enabled \in [Pushed -> BOOLEAN]
    /\ cursor = [i \in Instances |-> NoCursor]
    /\ counted = [t \in Rollups |-> [e \in Events |-> 0]]
    /\ known = 0 /\ nameCursor = [x \in Names |-> 0]
    /\ nameCount = [e \in Events |-> 0]
    /\ notice = Quiet /\ sync = "none"
    /\ mem = NewMem /\ timer = "off" /\ wake = FALSE
    /\ pc = "startup" /\ turn = NoTurn
    /\ crashes = 0

Own(i) == {e \in hot : owner[e] = i}

\* m is the greatest element of S, 0 when there is none: COALESCE(MAX(id), 0).
IsLast(S, m) == \/ S = {} /\ m = 0
                \/ m \in S /\ \A e \in S : e <= m

\* The first n elements of S by id.
FirstOf(S, n) == {e \in S : Cardinality({f \in S : f <= e}) <= n}

-----------------------------------------------------------------------------
(* The inbox processor, the metadata sync and the administrator.           *)

Ingest(i) ==
    /\ arrived < MaxRows
    /\ inbox' = [inbox EXCEPT ![i] = inbox[i] + 1]
    /\ arrived' = arrived + 1
    /\ UNCHANGED <<eventVars, rollupVars, nameVars, senderVars, runnerVars, crashes>>

\* The row becomes an event; the announcement follows the commit.  No more events
\* than rows: the bound holds by itself.
CommitEvent(i) ==
    /\ inbox[i] > 0 /\ notice = Quiet
    /\ Len(owner) < MaxRows
    /\ inbox' = [inbox EXCEPT ![i] = inbox[i] - 1]
    /\ owner' = Append(owner, i)
    /\ hot' = hot \cup {Len(owner) + 1}
    /\ notice' = [stage |-> "committed", event |-> Len(owner) + 1]
    /\ UNCHANGED <<arrived, enabled, rollupVars, nameVars, sync, runnerVars, crashes>>

\* The row ends undecodable or out of attempts: no event, no announcement.
Discard(i) ==
    /\ inbox[i] > 0 /\ notice = Quiet
    /\ inbox' = [inbox EXCEPT ![i] = inbox[i] - 1]
    /\ UNCHANGED <<arrived, eventVars, rollupVars, nameVars, senderVars, runnerVars,
                   crashes>>

\* NotifyUsageEventsCommitted, under mu.
Announced(m, e) ==
    IF owner[e] = Legacy
    THEN [m EXCEPT !.pending = IF e > m.pending THEN e ELSE m.pending,
                   !.want = m.want + 1]
    ELSE [m EXCEPT !.other = TRUE]

NotifyUsageEventsCommitted ==
    /\ notice.stage = "committed"
    /\ mem' = Announced(mem, notice.event)
    /\ notice' = [notice EXCEPT !.stage = "noted"]
    /\ UNCHANGED <<inboxVars, eventVars, rollupVars, nameVars, sync, timer, wake, pc,
                   turn, crashes>>

\* Its signalWake, after the unlock.
SignalUsage ==
    /\ notice.stage = "noted"
    /\ wake' = TRUE
    /\ notice' = Quiet
    /\ UNCHANGED <<inboxVars, eventVars, rollupVars, nameVars, sync, mem, timer, pc,
                   turn, crashes>>

\* A metadata sync, or a pushed snapshot, adds an identity row.
AddIdentity ==
    /\ known < MaxIdentities /\ sync = "none"
    /\ known' = known + 1
    /\ sync' = IF Home[known + 1] = Legacy THEN "stored" ELSE "none"
    /\ UNCHANGED <<inboxVars, eventVars, rollupVars, nameCursor, nameCount, notice,
                   runnerVars, crashes>>

NotifyUsageIdentitiesChanged ==
    /\ sync = "stored"
    /\ mem' = [mem EXCEPT !.want = mem.want + 1]
    /\ sync' = "noted"
    /\ UNCHANGED <<inboxVars, eventVars, rollupVars, nameVars, notice, timer, wake, pc,
                   turn, crashes>>

SignalIdentities ==
    /\ sync = "noted"
    /\ wake' = TRUE
    /\ sync' = "none"
    /\ UNCHANGED <<inboxVars, eventVars, rollupVars, nameVars, notice, mem, timer, pc,
                   turn, crashes>>

SetEnabled(i) ==
    /\ enabled' = [enabled EXCEPT ![i] = ~enabled[i]]
    /\ UNCHANGED <<inboxVars, owner, hot, rollupVars, nameVars, senderVars, runnerVars,
                   crashes>>

-----------------------------------------------------------------------------
(* The archive: one batch of ArchiveExpiredUsageEvents.                    *)

\* hasPendingUsageIdentityAggregationForInstance, for one event.
Uncounted(e) ==
    /\ Author[e] \in 1..known /\ Home[Author[e]] = owner[e]
    /\ nameCursor[Author[e]] < e

\* Variant with a fault: the identities are not asked.
CaughtUpRollups(batch) == \A e \in batch, t \in Rollups : cursor[Legacy][t] >= e

\* usageEventAggregationsCaughtUpForInstance, up to the newest of the batch.
CaughtUp(batch) ==
    \A e \in batch :
        /\ \A t \in Rollups : cursor[Legacy][t] >= e
        /\ \A f \in Own(Legacy) : f <= e => ~Uncounted(f)

Archive(batch) ==
    /\ batch # {} /\ batch \subseteq Own(Legacy)
    /\ CaughtUp(batch)
    /\ hot' = hot \ batch
    /\ UNCHANGED <<inboxVars, owner, enabled, rollupVars, nameVars, senderVars,
                   runnerVars, crashes>>

-----------------------------------------------------------------------------
(* The runner: start, targets and the loop of Run.                         *)

Goto(label) == pc' = label

StartupTarget ==
    /\ pc = "startup"
    /\ \E m \in 0..MaxRows :
          IsLast(Own(Legacy), m) /\ turn' = [turn EXCEPT !.target = m]
    /\ Goto("adopt")
    /\ UNCHANGED <<inboxVars, eventVars, rollupVars, nameVars, senderVars, mem, timer,
                   wake, crashes>>

\* Notices of events beyond the target wait for the next window.
Adopted(m, target) ==
    [m EXCEPT !.active = TRUE, !.target = target, !.reached = target = 0,
              !.pending = IF m.pending <= target THEN 0 ELSE m.pending]

Adopt ==
    /\ pc = "adopt"
    /\ mem' = Adopted(mem, turn.target)
    /\ turn' = NoTurn
    /\ Goto("loop")
    /\ UNCHANGED <<inboxVars, eventVars, rollupVars, nameVars, senderVars, timer, wake,
                   crashes>>

\* freezePendingTarget.
Frozen(m) ==
    IF m.pending = 0 THEN m
    ELSE IF m.active /\ m.pending <= m.target THEN [m EXCEPT !.pending = 0]
    ELSE [m EXCEPT !.active = TRUE, !.target = m.pending, !.pending = 0,
                   !.reached = FALSE]

IdentityPending(m) == m.after # 0 \/ m.scan < m.want
Runnable(m) == m.active \/ IdentityPending(m)

\* Variant with a fault: rollups go first as long as there are any.
NextKindGreedy(m) == IF m.active THEN "rollups" ELSE "identity"

\* nextRunnableKindLocked, when there is something to run.
NextKind(m) ==
    IF m.active /\ IdentityPending(m) THEN m.next
    ELSE IF m.active THEN "rollups" ELSE "identity"

\* Run opens a window for a target beyond the current one.
Window ==
    IF timer = "off" /\ mem.pending > 0 /\ (~mem.active \/ mem.pending > mem.target)
    THEN "armed" ELSE timer

\* The top of the loop: pushed instances first, then an expired window, then
\* a turn, else sleep.
FindPushed ==
    /\ pc = "loop" /\ mem.other
    /\ timer' = Window
    /\ mem' = [mem EXCEPT !.other = FALSE]
    /\ Goto("list")
    /\ UNCHANGED <<inboxVars, eventVars, rollupVars, nameVars, senderVars, wake, turn,
                   crashes>>

FindTurn ==
    /\ pc = "loop" /\ ~mem.other /\ timer # "fired" /\ Runnable(mem)
    /\ timer' = Window
    /\ Goto("turn")
    /\ UNCHANGED <<inboxVars, eventVars, rollupVars, nameVars, senderVars, mem, wake,
                   turn, crashes>>

Sleep ==
    /\ pc = "loop" /\ ~mem.other /\ timer # "fired" /\ ~Runnable(mem)
    /\ timer' = Window
    /\ Goto("blocked")
    /\ UNCHANGED <<inboxVars, eventVars, rollupVars, nameVars, senderVars, mem, wake,
                   turn, crashes>>

Freeze ==
    /\ timer = "fired"
    /\ (pc = "loop" /\ ~mem.other) \/ pc = "blocked"
    /\ mem' = Frozen(mem)
    /\ timer' = "off"
    /\ Goto("loop")
    /\ UNCHANGED <<inboxVars, eventVars, rollupVars, nameVars, senderVars, wake, turn,
                   crashes>>

Woken ==
    /\ pc = "blocked" /\ wake
    /\ wake' = FALSE
    /\ Goto("loop")
    /\ UNCHANGED <<inboxVars, eventVars, rollupVars, nameVars, senderVars, mem, timer,
                   turn, crashes>>

\* waitForRetry: the delay ends, or a token is consumed.
WaitForRetry ==
    /\ pc = "retry"
    /\ wake' \in {wake, FALSE}
    /\ Goto("loop")
    /\ UNCHANGED <<inboxVars, eventVars, rollupVars, nameVars, senderVars, mem, timer,
                   turn, crashes>>

TimerFires ==
    /\ timer = "armed"
    /\ timer' = "fired"
    /\ UNCHANGED <<inboxVars, eventVars, rollupVars, nameVars, senderVars, mem, wake, pc,
                   turn, crashes>>

-----------------------------------------------------------------------------
(* The runner: a turn of the legacy instance, and the pages of any.        *)

\* runPreparedOnce, under mu: the turn captures the target, or the generation
\* its scan of the identities will have covered.
BeginTurn ==
    /\ pc = "turn"
    /\ turn' = [turn EXCEPT !.kind = NextKind(mem), !.target = mem.target,
                            !.after = mem.after,
                            !.gen = IF mem.after = 0 THEN mem.want ELSE mem.scan]
    /\ Goto("work")
    /\ UNCHANGED <<inboxVars, eventVars, rollupVars, nameVars, senderVars, mem, timer,
                   wake, crashes>>

\* The first inbox check finds waiting rows.
DeferTurn ==
    /\ pc = "work" /\ inbox[Legacy] > 0
    /\ turn' = NoTurn
    /\ Goto("retry")
    /\ UNCHANGED <<inboxVars, eventVars, rollupVars, nameVars, senderVars, mem, timer,
                   wake, crashes>>

Other(kind) == IF kind = "rollups" THEN "identity" ELSE "rollups"

\* A statement before the writes fails: advanceAfterFailure.
TurnFails ==
    /\ pc = "work"
    /\ mem' = [mem EXCEPT !.next = Other(turn.kind)]
    /\ turn' = NoTurn
    /\ Goto("retry")
    /\ UNCHANGED <<inboxVars, eventVars, rollupVars, nameVars, senderVars, timer, wake,
                   crashes>>

Equal(snap) == \A t, u \in Rollups : snap[t] = snap[u]

\* LoadUsageAggregationEventPageForInstance.
Page(i, from, to) == FirstOf({e \in Own(i) : from < e /\ e <= to}, PageSize)

\* The checkpoints and, when they are equal, the one page for all rollups.
Loaded(i, target) ==
    LET snap == cursor[i]
        done == \A t \in Rollups : snap[t] >= target
    IN  [turn EXCEPT !.inst = i, !.target = target, !.snap = snap,
             !.at = IF done THEN Len(Types) + 1 ELSE 1,
             !.shared = Equal(snap),
             !.page = IF Equal(snap) /\ ~done
                      THEN Page(i, snap["overview"], target) ELSE {}]

LoadRollups ==
    /\ pc = "work" /\ turn.kind = "rollups" /\ inbox[Legacy] = 0
    /\ turn' = Loaded(Legacy, turn.target)
    /\ Goto("rollup")
    /\ UNCHANGED <<inboxVars, eventVars, rollupVars, nameVars, senderVars, mem, timer,
                   wake, crashes>>

Current == Types[turn.at]
Writing == pc = "rollup" /\ turn.at <= Len(Types)
Behind(t) == turn.snap[t] < turn.target

\* The events of the page that rollup t gets.
PageOf(t) == IF turn.shared THEN turn.page ELSE Page(turn.inst, turn.snap[t], turn.target)

\* A fallback turn passes over a rollup that has reached the target.
SkipRollup ==
    /\ Writing /\ ~Behind(Current)
    /\ turn' = [turn EXCEPT !.at = turn.at + 1]
    /\ UNCHANGED <<inboxVars, eventVars, rollupVars, nameVars, senderVars, mem, timer,
                   wake, pc, crashes>>

\* deferForInbox between two writes: what was written stays.
DeferRollup ==
    /\ Writing /\ Behind(Current) /\ turn.inst = Legacy /\ inbox[Legacy] > 0
    /\ mem' = [mem EXCEPT !.next = "identity"]
    /\ turn' = NoTurn
    /\ Goto("retry")
    /\ UNCHANGED <<inboxVars, eventVars, rollupVars, nameVars, senderVars, timer, wake,
                   crashes>>

\* Variant with a fault: the checkpoint moves to the target of the turn.
ApplyToTarget(t, page, next) ==
    /\ counted' = [counted EXCEPT ![t] =
           [e \in Events |-> IF e \in page THEN counted[t][e] + 1 ELSE counted[t][e]]]
    /\ cursor' = [cursor EXCEPT ![turn.inst] =
           [u \in Rollups |-> IF u = t THEN turn.target ELSE cursor[turn.inst][u]]]

\* ApplyUsage...AggregationPageForInstance: rows and checkpoint in one
\* transaction, with the expected checkpoint compared.
Apply(t, page, next) ==
    /\ cursor[turn.inst][t] = turn.snap[t]
    /\ counted' = [counted EXCEPT ![t] =
           [e \in Events |-> IF e \in page THEN counted[t][e] + 1 ELSE counted[t][e]]]
    /\ cursor' = [cursor EXCEPT ![turn.inst] =
           [u \in Rollups |-> IF u = t THEN next ELSE cursor[turn.inst][u]]]

WriteRollup ==
    /\ Writing /\ Behind(Current) /\ Current \notin Broken
    /\ turn.inst = Legacy => inbox[Legacy] = 0
    /\ \E next \in Events :
          /\ PageOf(Current) # {} /\ IsLast(PageOf(Current), next)
          /\ Apply(Current, PageOf(Current), next)
          /\ turn' = [turn EXCEPT !.at = turn.at + 1,
                 !.snap = [u \in Rollups |-> IF u = Current THEN next ELSE turn.snap[u]]]
    /\ UNCHANGED <<inboxVars, eventVars, nameVars, senderVars, mem, timer, wake, pc,
                   crashes>>

\* A rollup of the legacy instance fails; the others are still written.
RollupFails ==
    /\ Writing /\ Behind(Current) /\ turn.inst = Legacy
    /\ turn' = [turn EXCEPT !.at = turn.at + 1, !.err = TRUE]
    /\ UNCHANGED <<inboxVars, eventVars, rollupVars, nameVars, senderVars, mem, timer,
                   wake, pc, crashes>>

ReachedTarget == \A t \in Rollups : turn.snap[t] >= turn.target

\* Variant with a fault: a window that opened during the turn is forgotten.
CompletedForgetful(m) ==
    [m EXCEPT !.active = FALSE, !.target = 0, !.reached = FALSE, !.pending = 0]

\* completeRollupRoundIfReadyLocked, once the round is ready.
Completed(m) ==
    [m EXCEPT !.active = FALSE, !.target = 0, !.reached = FALSE,
              !.pending = IF m.pending <= m.target THEN 0 ELSE m.pending]

Turned(m) == [m EXCEPT !.next = "identity"]

FinishRollups ==
    /\ pc = "rollup" /\ turn.at > Len(Types) /\ turn.inst = Legacy
    /\ mem' = IF ~turn.err /\ ReachedTarget THEN Completed(Turned(mem)) ELSE Turned(mem)
    /\ turn' = NoTurn
    /\ Goto(IF turn.err THEN "retry" ELSE "loop")
    /\ UNCHANGED <<inboxVars, eventVars, rollupVars, nameVars, senderVars, timer, wake,
                   crashes>>

\* The next page of identity rows of instance i.
NamesOf(i, after) ==
    FirstOf({x \in 1..known : Home[x] = i /\ x > after}, NamePage)

\* The events identity x has not counted yet.
Delta(x) == {e \in Own(Home[x]) : Author[e] = x /\ e > nameCursor[x]}

\* AggregateUsageIdentityStatsBatchForInstance: every identity of the page
\* counts its new events and moves its own cursor, in one transaction.
CountNames(page) ==
    /\ nameCount' = [e \in Events |->
           IF \E x \in page : e \in Delta(x) THEN nameCount[e] + 1 ELSE nameCount[e]]
    /\ \E moved \in [page -> Events \cup {0}] :
          /\ \A x \in page : IsLast(Delta(x), moved[x])
          /\ nameCursor' = [x \in Names |->
                 IF x \in page /\ Delta(x) # {} THEN moved[x] ELSE nameCursor[x]]

ReachedEnd(page) == Cardinality(page) < NamePage

Scanned(m, page, gen, last) ==
    [m EXCEPT !.next = "rollups", !.after = IF ReachedEnd(page) THEN 0 ELSE last,
              !.scan = gen]

IdentityTurn ==
    /\ pc = "work" /\ turn.kind = "identity" /\ inbox[Legacy] = 0
    /\ LET page == NamesOf(Legacy, turn.after)
       IN  /\ CountNames(page)
           /\ \E last \in 0..MaxIdentities :
                 IsLast(page, last) /\ mem' = Scanned(mem, page, turn.gen, last)
    /\ turn' = NoTurn
    /\ Goto("loop")
    /\ UNCHANGED <<inboxVars, eventVars, rollupVars, known, senderVars, timer, wake,
                   crashes>>

-----------------------------------------------------------------------------
(* The runner: the pass over the pushed instances.                         *)

\* The second, unguarded reset of nonLegacyPending, and the list.
ListPushed ==
    /\ pc = "list"
    /\ mem' = [mem EXCEPT !.other = FALSE]
    /\ turn' = [turn EXCEPT !.kind = "pass", !.todo = {i \in Pushed : enabled[i]}]
    /\ Goto("pass")
    /\ UNCHANGED <<inboxVars, eventVars, rollupVars, nameVars, senderVars, timer, wake,
                   crashes>>

\* An instance with waiting rows is passed over.
PassOver(i) ==
    /\ pc = "pass" /\ i \in turn.todo /\ inbox[i] > 0
    /\ turn' = [turn EXCEPT !.todo = turn.todo \ {i}]
    /\ UNCHANGED <<inboxVars, eventVars, rollupVars, nameVars, senderVars, mem, timer,
                   wake, pc, crashes>>

EnterInstance(i) ==
    /\ pc = "pass" /\ i \in turn.todo /\ inbox[i] = 0
    /\ turn' = [turn EXCEPT !.inst = i, !.todo = turn.todo \ {i}]
    /\ Goto("read")
    /\ UNCHANGED <<inboxVars, eventVars, rollupVars, nameVars, senderVars, mem, timer,
                   wake, crashes>>

\* The target is read again for every page.
ReadInstance ==
    /\ pc = "read" \/ (pc = "rollup" /\ turn.at > Len(Types) /\ turn.inst # Legacy)
    /\ \E m \in 0..MaxRows :
          /\ IsLast(Own(turn.inst), m)
          /\ LET next == Loaded(turn.inst, m)
             IN  /\ turn' = IF next.at > Len(Types) THEN [turn EXCEPT !.after = 0] ELSE next
                 /\ Goto(IF next.at > Len(Types) THEN "names" ELSE "rollup")
    /\ UNCHANGED <<inboxVars, eventVars, rollupVars, nameVars, senderVars, mem, timer,
                   wake, crashes>>

\* AggregateUsageIdentityStatsForInstance, page by page.
InstanceNames ==
    /\ pc = "names"
    /\ LET page == NamesOf(turn.inst, turn.after)
       IN  /\ CountNames(page)
           /\ \E last \in 0..MaxIdentities :
                 /\ IsLast(page, last)
                 /\ turn' = IF ReachedEnd(page)
                            THEN [NoTurn EXCEPT !.kind = "pass", !.todo = turn.todo]
                            ELSE [turn EXCEPT !.after = last]
           /\ Goto(IF ReachedEnd(page) THEN "pass" ELSE "names")
    /\ UNCHANGED <<inboxVars, eventVars, rollupVars, known, senderVars, mem, timer, wake,
                   crashes>>

EndPass ==
    /\ pc = "pass" /\ turn.todo = {}
    /\ turn' = NoTurn
    /\ Goto("loop")
    /\ UNCHANGED <<inboxVars, eventVars, rollupVars, nameVars, senderVars, mem, timer,
                   wake, crashes>>

\* Any error ends the pass; it is requested again.
PassFails ==
    /\ \/ pc \in {"list", "read", "names"}
       \/ pc = "pass" /\ turn.todo # {}
       \/ pc = "rollup" /\ turn.inst # Legacy /\ (Writing => Behind(Current))
    /\ mem' = [mem EXCEPT !.other = TRUE]
    /\ turn' = NoTurn
    /\ Goto("retry")
    /\ UNCHANGED <<inboxVars, eventVars, rollupVars, nameVars, senderVars, timer, wake,
                   crashes>>

\* The keeper stops and starts again: only the database remains.
Restart ==
    /\ crashes < MaxCrashes
    /\ crashes' = crashes + 1
    /\ mem' = NewMem /\ timer' = "off" /\ wake' = FALSE
    /\ turn' = NoTurn /\ Goto("startup")
    /\ notice' = Quiet /\ sync' = "none"
    /\ UNCHANGED <<inboxVars, eventVars, rollupVars, nameVars>>

-----------------------------------------------------------------------------

Processor ==
    \/ \E i \in Instances : CommitEvent(i) \/ Discard(i)
    \/ NotifyUsageEventsCommitted \/ SignalUsage

MetadataSync == NotifyUsageIdentitiesChanged \/ SignalIdentities

LegacyTurn ==
    \/ BeginTurn \/ DeferTurn \/ TurnFails \/ LoadRollups \/ SkipRollup
    \/ DeferRollup \/ WriteRollup \/ RollupFails \/ FinishRollups \/ IdentityTurn

PushedPass ==
    \/ ListPushed \/ ReadInstance \/ InstanceNames \/ EndPass \/ PassFails
    \/ \E i \in Pushed : PassOver(i) \/ EnterInstance(i)

Runner ==
    \/ StartupTarget \/ Adopt
    \/ FindPushed \/ FindTurn \/ Sleep \/ Freeze \/ Woken \/ WaitForRetry
    \/ LegacyTurn \/ PushedPass

Next ==
    \/ \E i \in Instances : Ingest(i)
    \/ Processor \/ AddIdentity \/ MetadataSync
    \/ \E i \in Pushed : SetEnabled(i)
    \/ \E batch \in SUBSET hot : Archive(batch)
    \/ Runner \/ TimerFires \/ Restart

Spec == Init /\ [][Next]_vars

\* The goroutines run, the timer fires, and no statement fails for ever
\* except the writes of the broken rollups.
Fairness ==
    /\ WF_vars(Processor) /\ WF_vars(MetadataSync)
    /\ WF_vars(Runner) /\ WF_vars(TimerFires) /\ WF_vars(Freeze)
    /\ SF_vars(LoadRollups) /\ SF_vars(IdentityTurn)
    /\ \A t \in Rollups : SF_vars(turn.at \in 1..3 /\ Current = t /\ WriteRollup)
    /\ SF_vars(ListPushed) /\ SF_vars(ReadInstance) /\ SF_vars(InstanceNames)
    /\ SF_vars(EndPass)
    /\ \A i \in Pushed : SF_vars(EnterInstance(i))

FairSpec == Spec /\ Fairness

-----------------------------------------------------------------------------
(* Properties.                                                             *)

Cursors == [Rollups -> 0..MaxRows]

TypeOK ==
    /\ inbox \in [Instances -> 0..MaxRows] /\ arrived \in 0..MaxRows
    /\ owner \in Seq(Instances) /\ Len(owner) <= MaxRows
    /\ hot \subseteq 1..Len(owner) /\ enabled \in [Pushed -> BOOLEAN]
    /\ cursor \in [Instances -> Cursors]
    /\ counted \in [Rollups -> [Events -> Nat]]
    /\ known \in 0..MaxIdentities /\ nameCursor \in [Names -> 0..MaxRows]
    /\ nameCount \in [Events -> Nat]
    /\ notice \in [stage : {"none", "committed", "noted"}, event : 0..MaxRows]
    /\ sync \in {"none", "stored", "noted"}
    /\ mem \in [next : {"rollups", "identity"}, active : BOOLEAN, target : 0..MaxRows,
                reached : BOOLEAN, pending : 0..MaxRows, after : 0..MaxIdentities,
                want : Nat, scan : Nat, other : BOOLEAN]
    /\ timer \in {"off", "armed", "fired"} /\ wake \in BOOLEAN
    /\ pc \in {"startup", "adopt", "loop", "blocked", "retry", "turn", "work", "rollup",
               "list", "pass", "read", "names"}
    /\ turn \in [kind : {"none", "rollups", "identity", "pass"}, inst : Instances,
                 target : 0..MaxRows, snap : Cursors, shared : BOOLEAN,
                 page : SUBSET Events, at : 0..4, err : BOOLEAN, gen : Nat,
                 after : 0..MaxIdentities, todo : SUBSET Pushed]
    /\ crashes \in 0..MaxCrashes

\* Every event is in every rollup exactly once, from the moment its
\* checkpoint passes it: over failed writes, deferred turns, shared and single
\* pages, restarts and the archive.  An identity counts an event at most once,
\* and none before its cursor that was in the hot table is missing.
CountedOnce ==
    \A e \in 1..Len(owner) :
        /\ \A t \in Rollups : counted[t][e] = IF e <= cursor[owner[e]][t] THEN 1 ELSE 0
        /\ nameCount[e] <= 1
        /\ (e \in hot /\ Author[e] \in Names /\ Home[Author[e]] = owner[e])
             => nameCount[e] = IF e <= nameCursor[Author[e]] THEN 1 ELSE 0

\* The archive takes no event away from a rollup or an identity that still
\* has to count it.
ArchiveOnlyCounted ==
    [][\A e \in hot \ hot' :
          /\ \A t \in Rollups : counted[t][e] = 1
          /\ (Author[e] \in 1..known /\ Home[Author[e]] = owner[e]) => nameCount[e] = 1]_vars

\* When the runner sleeps with no token, no window and no announcement under
\* way, every legacy event is in all rollups and in its identity.
Asleep ==
    pc = "blocked" /\ ~wake /\ timer = "off" /\ notice = Quiet /\ sync = "none"

AsleepMeansDone ==
    Asleep => \A e \in 1..Len(owner) : owner[e] = Legacy =>
        /\ \A t \in Rollups : cursor[Legacy][t] >= e
        /\ e \in hot => ~Uncounted(e)

\* A rollup that works catches up with the legacy events again and again,
\* whatever the other rollups do, and so do the identities.
HealthyRollupsGoOn ==
    []<>(/\ \A e \in 1..Len(owner), t \in Rollups \ Broken :
              owner[e] = Legacy => cursor[Legacy][t] >= e
         /\ \A e \in hot : owner[e] = Legacy => ~Uncounted(e))
=============================================================================
