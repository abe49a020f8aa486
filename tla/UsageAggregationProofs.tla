----------------------- MODULE UsageAggregationProofs -----------------------
(***************************************************************************)
(* That every usage event is in every rollup exactly once, and in the      *)
(* statistics of its identity at most once, for any number of instances,   *)
(* events, identities and restarts and for any page sizes; that the        *)
(* archive takes no event before it was counted; that the runner does not  *)
(* sleep while a legacy event is still to be counted; and that the samples *)
(* of the latency rollup do not depend on the pages they were built from.  *)
(***************************************************************************)
EXTENDS UsageAggregation, UsageRollups, FiniteSetTheorems, WellFoundedInduction, TLAPS

(* What a rollup holds and what was moved out of the hot table agree with   *)
(* the checkpoint; no checkpoint is ahead of the events.                    *)
CursorsBehind ==
    /\ \A i \in Instances, t \in Rollups : cursor[i][t] <= Len(owner)
    /\ \A x \in Names : nameCursor[x] <= Len(owner)

NoneAhead ==
    \A e \in Events : e > Len(owner) =>
        nameCount[e] = 0 /\ \A t \in Rollups : counted[t][e] = 0

(* An event that is not in the hot table any more has been passed.          *)
ArchivedPassed ==
    \A e \in 1..Len(owner), t \in Rollups :
        e \notin hot => e <= cursor[owner[e]][t]

(* page holds the events of instance i from a checkpoint on, without a gap. *)
PageExact(page, i, from) ==
    /\ page \subseteq 1..Len(owner)
    /\ \A e \in 1..Len(owner) :
          e \in page <=> owner[e] = i /\ from < e /\ \E p \in page : e <= p

(* The page that was read once for all rollups is still what each rollup    *)
(* that has not been written yet expects.                                   *)
SharedExact ==
    pc = "rollup" =>
        /\ turn.at \in 1..4
        /\ turn.shared =>
              \A k \in turn.at..3 : PageExact(turn.page, turn.inst, turn.snap[Types[k]])

TableInv == CursorsBehind /\ NoneAhead /\ ArchivedPassed /\ CountedOnce

InboxBehind == \A i \in Instances : inbox[i] <= arrived

IInv == TypeOK /\ InboxBehind /\ TableInv /\ SharedExact

-----------------------------------------------------------------------------
(* Pages.                                                                   *)

\* The first elements of a set of events leave no gap.
LEMMA FirstOfIsDense ==
    ASSUME NEW m \in Nat, NEW S \in SUBSET (1..m), NEW n \in Nat,
           NEW x \in S, NEW y \in FirstOf(S, n), x <= y
    PROVE  x \in FirstOf(S, n)
<1> DEFINE X == {f \in S : f <= x}
           Y == {f \in S : f <= y}
<1>1. y \in S /\ Cardinality(Y) <= n
  BY DEF FirstOf
<1>2. IsFiniteSet(1..m)
  BY FS_Interval
<1>3. IsFiniteSet(Y)
  BY <1>2, FS_Subset
<1>4. X \subseteq Y
  <2>1. \A f \in S : f \in Nat
    OBVIOUS
  <2>2. x \in Nat /\ y \in Nat
    BY <1>1, <2>1
  <2>3. ASSUME NEW f \in X PROVE f \in Y
    BY <2>1, <2>2
  <2> QED
    BY <2>3
<1>5. IsFiniteSet(X) /\ Cardinality(X) <= Cardinality(Y)
  BY <1>3, <1>4, FS_Subset
<1>6. Cardinality(X) \in Nat /\ Cardinality(Y) \in Nat
  BY <1>3, <1>5, FS_CardinalityType
<1>7. Cardinality(X) <= n
  BY <1>1, <1>5, <1>6
<1> QED
  BY <1>7 DEF FirstOf

LEMMA FirstOfIsSubset == ASSUME NEW S, NEW n PROVE FirstOf(S, n) \subseteq S
BY DEF FirstOf

\* A page read from the hot table is exact when nothing beyond the checkpoint
\* was archived (LoadUsageAggregationEventPageForInstance).
LEMMA PageIsExact ==
    ASSUME TypeOK, NEW i \in Instances,
           NEW from \in 0..MaxRows, NEW to \in 0..MaxRows,
           \A e \in 1..Len(owner) : owner[e] = i /\ from < e => e \in hot
    PROVE  PageExact(Page(i, from, to), i, from)
<1> DEFINE S == {e \in Own(i) : from < e /\ e <= to}
           P == FirstOf(S, PageSize)
<1>1. Len(owner) \in Nat /\ hot \subseteq 1..Len(owner) /\ PageSize \in Nat
  BY AggregationAssumption DEF TypeOK
<1>2. S \in SUBSET (1..Len(owner))
  BY <1>1 DEF Own
<1>3. P \subseteq S
  BY FirstOfIsSubset
<1>4. ASSUME NEW e \in P PROVE owner[e] = i /\ from < e /\ e <= e
  <2>1. e \in S
    BY <1>3
  <2> QED
    BY <1>1, <2>1 DEF Own
<1>5. ASSUME NEW e \in 1..Len(owner), owner[e] = i, from < e, NEW p \in P, e <= p
      PROVE  e \in P
  <2>1. p \in S /\ p <= to
    BY <1>3, <1>5
  <2>2. e \in S
    BY <1>1, <1>2, <1>5, <2>1 DEF Own
  <2> HIDE DEF S
  <2> QED
    BY <1>1, <1>2, <1>5, <2>2, FirstOfIsDense
<1>6. P = Page(i, from, to)
  BY DEF Page
<1> HIDE DEF P, S
<1>7. P \subseteq 1..Len(owner)
  BY <1>2, <1>3
<1> QED
  BY <1>4, <1>5, <1>6, <1>7 DEF PageExact

\* A later event does not change an exact page.
LEMMA PageStaysExact ==
    ASSUME NEW page, NEW i, NEW from, PageExact(page, i, from),
           owner \in Seq(Instances), NEW j \in Instances, owner' = Append(owner, j)
    PROVE  PageExact(page, i, from)'
<1>1. Len(owner) \in Nat /\ Len(owner') = Len(owner) + 1
  OBVIOUS
<1>2. \A e \in 1..Len(owner) : owner'[e] = owner[e]
  OBVIOUS
<1>3. page \subseteq 1..Len(owner)
  BY DEF PageExact
<1>4. \A e \in 1..Len(owner') : e \in 1..Len(owner) \/ e = Len(owner) + 1
  BY <1>1
<1>5. \A p \in page : ~(Len(owner) + 1 <= p)
  BY <1>1, <1>3
<1>6. Len(owner) + 1 \notin page
  BY <1>5, <1>1
<1> QED
  BY <1>1, <1>2, <1>3, <1>4, <1>5, <1>6 DEF PageExact

-----------------------------------------------------------------------------
(* Types.                                                                   *)

Mems == [next : {"rollups", "identity"}, active : BOOLEAN, target : 0..MaxRows,
         reached : BOOLEAN, pending : 0..MaxRows, after : 0..MaxIdentities,
         want : Nat, scan : Nat, other : BOOLEAN]

Turns == [kind : {"none", "rollups", "identity", "pass"}, inst : Instances,
          target : 0..MaxRows, snap : Cursors, shared : BOOLEAN,
          page : SUBSET Events, at : 0..4, err : BOOLEAN, gen : Nat,
          after : 0..MaxIdentities, todo : SUBSET Pushed]

Labels == {"startup", "adopt", "loop", "blocked", "retry", "turn", "work", "rollup",
           "list", "pass", "read", "names"}

(* The type invariant by group of variables.                                *)
InboxOK == inbox \in [Instances -> 0..MaxRows] /\ arrived \in 0..MaxRows
EventsOK ==
    /\ owner \in Seq(Instances) /\ Len(owner) <= MaxRows
    /\ hot \subseteq 1..Len(owner) /\ enabled \in [Pushed -> BOOLEAN]
RollupsOK == cursor \in [Instances -> Cursors] /\ counted \in [Rollups -> [Events -> Nat]]
NamesOK ==
    /\ known \in 0..MaxIdentities /\ nameCursor \in [Names -> 0..MaxRows]
    /\ nameCount \in [Events -> Nat]
SendersOK ==
    /\ notice \in [stage : {"none", "committed", "noted"}, event : 0..MaxRows]
    /\ sync \in {"none", "stored", "noted"}
RunnerOK ==
    /\ mem \in Mems /\ timer \in {"off", "armed", "fired"} /\ wake \in BOOLEAN
    /\ pc \in Labels /\ turn \in Turns

LEMMA TypeByGroups ==
    /\ TypeOK <=> /\ InboxOK /\ EventsOK /\ RollupsOK /\ NamesOK /\ SendersOK /\ RunnerOK
                  /\ crashes \in 0..MaxCrashes
    /\ TypeOK' <=> /\ InboxOK' /\ EventsOK' /\ RollupsOK' /\ NamesOK' /\ SendersOK'
                   /\ RunnerOK' /\ crashes' \in 0..MaxCrashes
BY DEF TypeOK, InboxOK, EventsOK, RollupsOK, NamesOK, SendersOK, RunnerOK, Mems, Turns,
       Labels

LEMMA InitialTypes == NoTurn \in Turns /\ NewMem \in Mems /\ NoCursor \in Cursors
BY AggregationAssumption DEF NoTurn, NewMem, Turns, Mems, NoCursor, Cursors, Instances

\* What is done with the fields under mu.
LEMMA MemTypes ==
    ASSUME NEW m \in Mems
    PROVE  /\ \A e \in 0..MaxRows : Announced(m, e) \in Mems
           /\ [m EXCEPT !.want = m.want + 1] \in Mems
           /\ \A target \in 0..MaxRows : Adopted(m, target) \in Mems
           /\ Frozen(m) \in Mems
           /\ \A b \in BOOLEAN : [m EXCEPT !.other = b] \in Mems
           /\ \A kind \in STRING : [m EXCEPT !.next = Other(kind)] \in Mems
           /\ Turned(m) \in Mems /\ Completed(Turned(m)) \in Mems
           /\ \A page : \A gen \in Nat, last \in 0..MaxIdentities :
                 Scanned(m, page, gen, last) \in Mems
<1> USE DEF Mems
<1>0. 0 \in 0..MaxRows /\ 0 \in 0..MaxIdentities /\ MaxRows \in Nat
  BY AggregationAssumption
<1>1. ASSUME NEW e \in 0..MaxRows PROVE Announced(m, e) \in Mems
  <2> DEFINE p == IF e > m.pending THEN e ELSE m.pending
  <2>1. p \in 0..MaxRows /\ m.want + 1 \in Nat
    OBVIOUS
  <2>2. Announced(m, e) = IF owner[e] = Legacy
                          THEN [m EXCEPT !.pending = p, !.want = m.want + 1]
                          ELSE [m EXCEPT !.other = TRUE]
    BY DEF Announced
  <2> HIDE DEF p
  <2> QED
    BY <2>1, <2>2
<1>2. [m EXCEPT !.want = m.want + 1] \in Mems
  OBVIOUS
<1>3. ASSUME NEW target \in 0..MaxRows PROVE Adopted(m, target) \in Mems
  <2>1. (IF m.pending <= target THEN 0 ELSE m.pending) \in 0..MaxRows
    BY <1>0
  <2>2. (target = 0) \in BOOLEAN
    OBVIOUS
  <2> QED
    BY <2>1, <2>2 DEF Adopted
<1>4. Frozen(m) \in Mems
  <2>1. [m EXCEPT !.pending = 0] \in Mems
    BY <1>0
  <2>2. [m EXCEPT !.active = TRUE, !.target = m.pending, !.pending = 0, !.reached = FALSE] \in Mems
    BY <1>0
  <2> QED
    BY <2>1, <2>2 DEF Frozen
<1>5. \A b \in BOOLEAN : [m EXCEPT !.other = b] \in Mems
  OBVIOUS
<1>6. \A kind \in STRING : [m EXCEPT !.next = Other(kind)] \in Mems
  BY DEF Other
<1>7. Turned(m) \in Mems /\ Completed(Turned(m)) \in Mems
  <2>1. Turned(m) \in Mems
    BY DEF Turned
  <2>2. ASSUME NEW n \in Mems PROVE Completed(n) \in Mems
    <3>1. (IF n.pending <= n.target THEN 0 ELSE n.pending) \in 0..MaxRows
      BY <1>0
    <3> QED
      BY <1>0, <3>1 DEF Completed
  <2> QED
    BY <2>1, <2>2
<1>8. ASSUME NEW page, NEW gen \in Nat, NEW last \in 0..MaxIdentities
      PROVE  Scanned(m, page, gen, last) \in Mems
  <2>1. (IF ReachedEnd(page) THEN 0 ELSE last) \in 0..MaxIdentities
    BY <1>0
  <2> QED
    BY <2>1 DEF Scanned
<1> QED
  BY <1>1, <1>2, <1>3, <1>4, <1>5, <1>6, <1>7, <1>8

\* The runner's local variables.
LEMMA TurnFields ==
    ASSUME NEW r \in Turns
    PROVE  /\ r.inst \in Instances /\ r.target \in 0..MaxRows
           /\ r.snap \in Cursors /\ r.shared \in BOOLEAN /\ r.page \subseteq Events
           /\ r.at \in 0..4 /\ r.gen \in Nat /\ r.after \in 0..MaxIdentities
           /\ r.todo \subseteq Pushed
BY DEF Turns

LEMMA TurnSteps ==
    ASSUME NEW r \in Turns, NEW v \in 0..MaxRows, NEW a \in 0..MaxIdentities,
           NEW S \in SUBSET Pushed, NEW i \in Instances, NEW g \in Nat,
           NEW k \in {"rollups", "identity"}
    PROVE  /\ [r EXCEPT !.target = v] \in Turns
           /\ [r EXCEPT !.kind = k, !.target = v, !.after = a, !.gen = g] \in Turns
           /\ [r EXCEPT !.kind = "pass", !.todo = S] \in Turns
           /\ [r EXCEPT !.todo = S] \in Turns
           /\ [r EXCEPT !.inst = i, !.todo = S] \in Turns
           /\ [r EXCEPT !.after = a] \in Turns
BY DEF Turns

LEMMA RollupSteps ==
    ASSUME NEW r \in Turns, r.at <= 3, NEW s \in Cursors
    PROVE  /\ [r EXCEPT !.at = r.at + 1] \in Turns
           /\ [r EXCEPT !.at = r.at + 1, !.err = TRUE] \in Turns
           /\ [r EXCEPT !.at = r.at + 1, !.snap = s] \in Turns
<1>1. r.at + 1 \in 0..4
  BY DEF Turns
<1> QED
  BY <1>1 DEF Turns

LEMMA HotAreEvents == TypeOK => hot \subseteq Events
<1> SUFFICES ASSUME TypeOK, NEW e \in hot PROVE e \in Events
  OBVIOUS
<1>1. Len(owner) \in Nat /\ Len(owner) <= MaxRows /\ e \in 1..Len(owner)
  BY DEF TypeOK
<1> QED
  BY <1>1, AggregationAssumption DEF Events

LEMMA LoadedType ==
    ASSUME TypeOK, NEW i \in Instances, NEW v \in 0..MaxRows
    PROVE  Loaded(i, v) \in Turns
<1> DEFINE snap == cursor[i]
           done == \A t \in Rollups : snap[t] >= v
           at == IF done THEN Len(Types) + 1 ELSE 1
           page == IF Equal(snap) /\ ~done THEN Page(i, snap["overview"], v) ELSE {}
<1>1. turn \in Turns /\ snap \in Cursors /\ Equal(snap) \in BOOLEAN
  BY TypeByGroups DEF RunnerOK, RollupsOK, Equal
<1>2. at \in 0..4
  BY DEF Types
<1>3. page \subseteq Events
  <2>1. Page(i, snap["overview"], v) \subseteq hot
    BY FirstOfIsSubset DEF Page, Own
  <2> QED
    BY <2>1, HotAreEvents
<1>4. Loaded(i, v) = [turn EXCEPT !.inst = i, !.target = v, !.snap = snap, !.at = at,
                                  !.shared = Equal(snap), !.page = page]
  BY DEF Loaded
<1> HIDE DEF snap, at, page
<1> QED
  BY <1>1, <1>2, <1>3, <1>4 DEF Turns

\* CountNames keeps the types, whichever identities the page has.
LEMMA CountNamesType ==
    ASSUME TypeOK, NEW page, CountNames(page)
    PROVE  nameCursor' \in [Names -> 0..MaxRows] /\ nameCount' \in [Events -> Nat]
<1>1. nameCursor \in [Names -> 0..MaxRows] /\ nameCount \in [Events -> Nat]
  BY DEF TypeOK
<1>2. nameCount' \in [Events -> Nat]
  BY <1>1 DEF CountNames
<1>3. PICK moved \in [page -> Events \cup {0}] :
          nameCursor' = [x \in Names |->
              IF x \in page /\ Delta(x) # {} THEN moved[x] ELSE nameCursor[x]]
  BY DEF CountNames
<1>4. Events \cup {0} \subseteq 0..MaxRows
  BY AggregationAssumption DEF Events
<1> QED
  BY <1>1, <1>2, <1>3, <1>4

-----------------------------------------------------------------------------
(* Every step keeps the types.                                              *)

\* The groups of variables a step leaves alone keep their types.
LEMMA Frames ==
    /\ InboxOK /\ UNCHANGED inboxVars => InboxOK'
    /\ EventsOK /\ UNCHANGED eventVars => EventsOK'
    /\ RollupsOK /\ UNCHANGED rollupVars => RollupsOK'
    /\ NamesOK /\ UNCHANGED nameVars => NamesOK'
    /\ SendersOK /\ UNCHANGED senderVars => SendersOK'
    /\ RunnerOK /\ UNCHANGED runnerVars => RunnerOK'
BY DEF InboxOK, EventsOK, RollupsOK, NamesOK, SendersOK, RunnerOK, inboxVars, eventVars,
       rollupVars, nameVars, senderVars, runnerVars

\* Around the runner: the inbox, the senders, the administrator, the archive.
LEMMA SurroundingsType ==
    ASSUME TypeOK, InboxBehind,
           \/ \E i \in Instances : Ingest(i)
           \/ Processor \/ AddIdentity \/ MetadataSync
           \/ \E i \in Pushed : SetEnabled(i)
           \/ \E batch \in SUBSET hot : Archive(batch)
    PROVE  TypeOK'
<1> USE TypeByGroups, Frames
<1>0. /\ InboxOK /\ EventsOK /\ RollupsOK /\ NamesOK /\ SendersOK /\ RunnerOK
      /\ crashes \in 0..MaxCrashes /\ MaxRows \in Nat
  BY AggregationAssumption
<1>1. ASSUME NEW i \in Instances, Ingest(i) PROVE TypeOK'
  <2>1. inbox[i] + 1 \in 0..MaxRows /\ arrived + 1 \in 0..MaxRows
    BY <1>0, <1>1 DEF Ingest, InboxOK, InboxBehind
  <2>2. InboxOK'
    BY <1>0, <1>1, <2>1 DEF Ingest, InboxOK
  <2> QED
    BY <1>0, <1>1, <2>2 DEF Ingest
<1>2. ASSUME NEW i \in Instances, CommitEvent(i) PROVE TypeOK'
  <2>1. InboxOK'
    BY <1>0, <1>2 DEF CommitEvent, InboxOK
  <2>2. EventsOK'
    <3>1. owner \in Seq(Instances) /\ owner' = Append(owner, i) /\ Len(owner) < MaxRows
      BY <1>0, <1>2 DEF CommitEvent, EventsOK
    <3>2. owner' \in Seq(Instances) /\ Len(owner') = Len(owner) + 1 /\ Len(owner) \in Nat
      BY <3>1
    <3>3. hot' \subseteq 1..Len(owner')
      <4>1. hot \subseteq 1..Len(owner) /\ hot' = hot \cup {Len(owner) + 1}
        BY <1>0, <1>2 DEF CommitEvent, EventsOK
      <4>2. ASSUME NEW e \in hot' PROVE e \in 1..(Len(owner) + 1)
        BY <3>2, <4>1
      <4> QED
        BY <3>2, <4>2
    <3> QED
      BY <1>0, <1>2, <3>1, <3>2, <3>3 DEF CommitEvent, EventsOK
  <2>3. SendersOK'
    BY <1>0, <1>2 DEF CommitEvent, SendersOK, EventsOK
  <2> QED
    BY <1>0, <1>2, <2>1, <2>2, <2>3 DEF CommitEvent
<1>3. ASSUME NEW i \in Instances, Discard(i) PROVE TypeOK'
  <2>1. InboxOK'
    BY <1>0, <1>3 DEF Discard, InboxOK
  <2> QED
    BY <1>0, <1>3, <2>1 DEF Discard
<1>4. CASE NotifyUsageEventsCommitted
  <2>1. mem' \in Mems
    BY <1>0, <1>4, MemTypes DEF NotifyUsageEventsCommitted, RunnerOK, SendersOK
  <2>2. RunnerOK' /\ SendersOK'
    BY <1>0, <1>4, <2>1 DEF NotifyUsageEventsCommitted, RunnerOK, SendersOK
  <2> QED
    BY <1>0, <1>4, <2>2 DEF NotifyUsageEventsCommitted
<1>5. CASE SignalUsage
  <2>1. RunnerOK' /\ SendersOK'
    BY <1>0, <1>5 DEF SignalUsage, RunnerOK, SendersOK, Quiet
  <2> QED
    BY <1>0, <1>5, <2>1 DEF SignalUsage
<1>6. CASE AddIdentity
  <2>1. NamesOK' /\ SendersOK'
    BY <1>0, <1>6, AggregationAssumption DEF AddIdentity, NamesOK, SendersOK
  <2> QED
    BY <1>0, <1>6, <2>1 DEF AddIdentity
<1>7. CASE NotifyUsageIdentitiesChanged
  <2>1. mem' \in Mems
    BY <1>0, <1>7, MemTypes DEF NotifyUsageIdentitiesChanged, RunnerOK
  <2>2. RunnerOK' /\ SendersOK'
    BY <1>0, <1>7, <2>1 DEF NotifyUsageIdentitiesChanged, RunnerOK, SendersOK
  <2> QED
    BY <1>0, <1>7, <2>2 DEF NotifyUsageIdentitiesChanged
<1>8. CASE SignalIdentities
  <2>1. RunnerOK' /\ SendersOK'
    BY <1>0, <1>8 DEF SignalIdentities, RunnerOK, SendersOK
  <2> QED
    BY <1>0, <1>8, <2>1 DEF SignalIdentities
<1>9. ASSUME NEW i \in Pushed, SetEnabled(i) PROVE TypeOK'
  <2>1. EventsOK'
    BY <1>0, <1>9 DEF SetEnabled, EventsOK
  <2> QED
    BY <1>0, <1>9, <2>1 DEF SetEnabled
<1>10. ASSUME NEW batch \in SUBSET hot, Archive(batch) PROVE TypeOK'
  <2>1. EventsOK'
    BY <1>0, <1>10 DEF Archive, EventsOK
  <2> QED
    BY <1>0, <1>10, <2>1 DEF Archive
<1> QED
  BY <1>1, <1>2, <1>3, <1>4, <1>5, <1>6, <1>7, <1>8, <1>9, <1>10
     DEF Processor, MetadataSync

\* The loop of the runner, between turns and passes.
LEMMA LoopType ==
    ASSUME TypeOK,
           \/ StartupTarget \/ Adopt
           \/ FindPushed \/ FindTurn \/ Sleep \/ Freeze \/ Woken \/ WaitForRetry
           \/ TimerFires \/ Restart
    PROVE  TypeOK'
<1> USE TypeByGroups, Frames
<1>0. /\ InboxOK /\ EventsOK /\ RollupsOK /\ NamesOK /\ SendersOK /\ RunnerOK
      /\ crashes \in 0..MaxCrashes
      /\ mem \in Mems /\ turn \in Turns /\ wake \in BOOLEAN
      /\ timer \in {"off", "armed", "fired"} /\ pc \in Labels
      /\ Window \in {"off", "armed", "fired"} /\ NoTurn \in Turns /\ NewMem \in Mems
  BY InitialTypes DEF RunnerOK, Window
<1> USE DEF Goto, Labels
<1>1. CASE StartupTarget
  <2>1. PICK m \in 0..MaxRows : turn' = [turn EXCEPT !.target = m]
    BY <1>1 DEF StartupTarget
  <2>2. turn' \in Turns
    BY <1>0, <2>1 DEF Turns
  <2> QED
    BY <1>0, <1>1, <2>2 DEF StartupTarget, RunnerOK
<1>2. CASE Adopt
  <2>1. mem' \in Mems
    BY <1>0, <1>2, MemTypes, TurnFields DEF Adopt
  <2> QED
    BY <1>0, <1>2, <2>1 DEF Adopt, RunnerOK
<1>3. CASE FindPushed
  <2>1. mem' \in Mems
    BY <1>0, <1>3, MemTypes DEF FindPushed
  <2> QED
    BY <1>0, <1>3, <2>1 DEF FindPushed, RunnerOK
<1>4. CASE FindTurn
  BY <1>0, <1>4 DEF FindTurn, RunnerOK
<1>5. CASE Sleep
  BY <1>0, <1>5 DEF Sleep, RunnerOK
<1>6. CASE Freeze
  <2>1. mem' \in Mems
    BY <1>0, <1>6, MemTypes DEF Freeze
  <2> QED
    BY <1>0, <1>6, <2>1 DEF Freeze, RunnerOK
<1>7. CASE Woken
  BY <1>0, <1>7 DEF Woken, RunnerOK
<1>8. CASE WaitForRetry
  BY <1>0, <1>8 DEF WaitForRetry, RunnerOK
<1>9. CASE TimerFires
  BY <1>0, <1>9 DEF TimerFires, RunnerOK
<1>10. CASE Restart
  <2>1. SendersOK' /\ RunnerOK'
    <3>1. RunnerOK'
      BY <1>0, <1>10 DEF Restart, RunnerOK
    <3>2. 0 \in 0..MaxRows
      BY AggregationAssumption
    <3> QED
      BY <1>10, <3>1, <3>2 DEF Restart, SendersOK, Quiet
  <2>2. crashes' \in 0..MaxCrashes
    BY <1>0, <1>10, AggregationAssumption DEF Restart
  <2> QED
    BY <1>0, <1>10, <2>1, <2>2 DEF Restart
<1> QED
  BY <1>1, <1>2, <1>3, <1>4, <1>5, <1>6, <1>7, <1>8, <1>9, <1>10

\* A turn of the legacy instance.
LEMMA TurnType ==
    ASSUME TypeOK, SharedExact, LegacyTurn
    PROVE  TypeOK'
<1> USE TypeByGroups, Frames
<1>0. /\ InboxOK /\ EventsOK /\ RollupsOK /\ NamesOK /\ SendersOK /\ RunnerOK
      /\ crashes \in 0..MaxCrashes
      /\ mem \in Mems /\ turn \in Turns /\ wake \in BOOLEAN
      /\ timer \in {"off", "armed", "fired"} /\ pc \in Labels
      /\ NoTurn \in Turns /\ Legacy \in Instances
  BY InitialTypes DEF RunnerOK, Instances
<1> USE DEF Goto, Labels
<1>1. CASE BeginTurn
  <2>1. /\ NextKind(mem) \in {"rollups", "identity"} /\ mem.target \in 0..MaxRows
        /\ mem.after \in 0..MaxIdentities
        /\ (IF mem.after = 0 THEN mem.want ELSE mem.scan) \in Nat
    BY <1>0 DEF NextKind, Mems
  <2>2. turn' \in Turns
    BY <1>0, <1>1, <2>1 DEF BeginTurn, Turns
  <2> QED
    BY <1>0, <1>1, <2>2 DEF BeginTurn, RunnerOK
<1>2. CASE DeferTurn
  BY <1>0, <1>2 DEF DeferTurn, RunnerOK
<1>3. CASE TurnFails
  <2>1. mem' \in Mems
    BY <1>0, <1>3 DEF TurnFails, Mems, Other
  <2> QED
    BY <1>0, <1>3, <2>1 DEF TurnFails, RunnerOK
<1>4. CASE LoadRollups
  <2>1. turn' \in Turns
    BY <1>0, <1>4, LoadedType, TurnFields DEF LoadRollups
  <2> QED
    BY <1>0, <1>4, <2>1 DEF LoadRollups, RunnerOK
<1>5. CASE SkipRollup
  <2>1. turn.at <= 3
    BY <1>5 DEF SkipRollup, Writing, Types
  <2>2. turn' \in Turns
    BY <1>0, <1>5, <2>1, RollupSteps, TurnFields DEF SkipRollup
  <2> QED
    BY <1>0, <1>5, <2>2 DEF SkipRollup, RunnerOK
<1>6. CASE DeferRollup
  <2>1. mem' \in Mems
    BY <1>0, <1>6 DEF DeferRollup, Mems
  <2> QED
    BY <1>0, <1>6, <2>1 DEF DeferRollup, RunnerOK
<1>7. CASE WriteRollup
  <2>1. turn.at \in 1..3 /\ Current \in Rollups
    BY <1>7 DEF WriteRollup, Writing, Types, SharedExact, Current, Rollups
  <2>2. PICK next \in Events :
           /\ Apply(Current, PageOf(Current), next)
           /\ turn' = [turn EXCEPT !.at = turn.at + 1,
                 !.snap = [u \in Rollups |-> IF u = Current THEN next ELSE turn.snap[u]]]
    BY <1>7 DEF WriteRollup
  <2>3. next \in 0..MaxRows /\ turn.snap \in Cursors /\ turn.inst \in Instances
    BY <1>0, TurnFields, AggregationAssumption DEF Events
  <2>4. RollupsOK'
    BY <1>0, <2>1, <2>2, <2>3 DEF Apply, RollupsOK, Cursors
  <2>5. turn' \in Turns
    <3> DEFINE s == [u \in Rollups |-> IF u = Current THEN next ELSE turn.snap[u]]
    <3>1. s \in Cursors
      BY <2>3 DEF Cursors
    <3>2. turn' = [turn EXCEPT !.at = turn.at + 1, !.snap = s]
      BY <2>2
    <3>3. turn.at + 1 \in 0..4
      BY <2>1
    <3> HIDE DEF s
    <3> QED
      BY <1>0, <3>1, <3>2, <3>3 DEF Turns
  <2> QED
    BY <1>0, <1>7, <2>4, <2>5 DEF WriteRollup, RunnerOK
<1>8. CASE RollupFails
  <2>1. turn.at <= 3
    BY <1>8 DEF RollupFails, Writing, Types
  <2>2. turn' \in Turns
    BY <1>0, <1>8, <2>1, RollupSteps, TurnFields DEF RollupFails
  <2> QED
    BY <1>0, <1>8, <2>2 DEF RollupFails, RunnerOK
<1>9. CASE FinishRollups
  <2>1. mem' \in Mems
    BY <1>0, <1>9, MemTypes DEF FinishRollups
  <2> QED
    BY <1>0, <1>9, <2>1 DEF FinishRollups, RunnerOK
<1>10. CASE IdentityTurn
  <2>1. PICK last \in 0..MaxIdentities :
           mem' = Scanned(mem, NamesOf(Legacy, turn.after), turn.gen, last)
    BY <1>10 DEF IdentityTurn
  <2>2. mem' \in Mems
    <3>1. turn.gen \in Nat
      BY <1>0, TurnFields
    <3> QED
      BY <1>0, <2>1, <3>1, MemTypes
  <2>3. NamesOK'
    BY <1>0, <1>10, CountNamesType DEF IdentityTurn, NamesOK
  <2> QED
    BY <1>0, <1>10, <2>2, <2>3 DEF IdentityTurn, RunnerOK
<1> QED
  BY <1>1, <1>2, <1>3, <1>4, <1>5, <1>6, <1>7, <1>8, <1>9, <1>10 DEF LegacyTurn

\* The pass over the pushed instances.
LEMMA PassType ==
    ASSUME TypeOK, PushedPass
    PROVE  TypeOK'
<1> USE TypeByGroups, Frames
<1>0. /\ InboxOK /\ EventsOK /\ RollupsOK /\ NamesOK /\ SendersOK /\ RunnerOK
      /\ crashes \in 0..MaxCrashes
      /\ mem \in Mems /\ turn \in Turns /\ wake \in BOOLEAN
      /\ timer \in {"off", "armed", "fired"} /\ pc \in Labels
      /\ NoTurn \in Turns /\ Pushed \subseteq Instances /\ 0 \in 0..MaxIdentities
  BY InitialTypes, AggregationAssumption DEF RunnerOK, Instances
<1> USE DEF Goto, Labels
<1>1. CASE ListPushed
  <2>1. mem' \in Mems
    BY <1>0, <1>1 DEF ListPushed, Mems
  <2>2. turn' \in Turns
    BY <1>0, <1>1 DEF ListPushed, Turns
  <2> QED
    BY <1>0, <1>1, <2>1, <2>2 DEF ListPushed, RunnerOK
<1>2. CASE ReadInstance
  <2>1. PICK m \in 0..MaxRows :
           turn' = IF Loaded(turn.inst, m).at > Len(Types)
                   THEN [turn EXCEPT !.after = 0] ELSE Loaded(turn.inst, m)
    BY <1>2 DEF ReadInstance
  <2>2. Loaded(turn.inst, m) \in Turns
    BY <1>0, LoadedType, TurnFields
  <2>3. [turn EXCEPT !.after = 0] \in Turns
    BY <1>0 DEF Turns
  <2>4. turn' \in Turns
    BY <2>1, <2>2, <2>3
  <2>5. pc' \in {"names", "rollup"}
    BY <1>2 DEF ReadInstance
  <2> QED
    BY <1>0, <1>2, <2>4, <2>5 DEF ReadInstance, RunnerOK
<1>3. CASE InstanceNames
  <2> DEFINE page == NamesOf(turn.inst, turn.after)
  <2>1. PICK last \in 0..MaxIdentities :
           turn' = IF ReachedEnd(page)
                   THEN [NoTurn EXCEPT !.kind = "pass", !.todo = turn.todo]
                   ELSE [turn EXCEPT !.after = last]
    BY <1>3 DEF InstanceNames
  <2>2. [NoTurn EXCEPT !.kind = "pass", !.todo = turn.todo] \in Turns
    BY <1>0, TurnFields DEF Turns
  <2>3. [turn EXCEPT !.after = last] \in Turns
    BY <1>0 DEF Turns
  <2>4. NamesOK'
    BY <1>0, <1>3, CountNamesType DEF InstanceNames, NamesOK
  <2>5. pc' \in {"pass", "names"}
    BY <1>3 DEF InstanceNames
  <2> QED
    BY <1>0, <1>3, <2>1, <2>2, <2>3, <2>4, <2>5 DEF InstanceNames, RunnerOK
<1>4. CASE EndPass
  BY <1>0, <1>4 DEF EndPass, RunnerOK
<1>5. CASE PassFails
  <2>1. mem' \in Mems
    BY <1>0, <1>5 DEF PassFails, Mems
  <2> QED
    BY <1>0, <1>5, <2>1 DEF PassFails, RunnerOK
<1>6. ASSUME NEW i \in Pushed, PassOver(i) PROVE TypeOK'
  <2>1. turn' \in Turns
    BY <1>0, <1>6 DEF PassOver, Turns
  <2> QED
    BY <1>0, <1>6, <2>1 DEF PassOver, RunnerOK
<1>7. ASSUME NEW i \in Pushed, EnterInstance(i) PROVE TypeOK'
  <2>1. turn' \in Turns
    BY <1>0, <1>7 DEF EnterInstance, Turns
  <2> QED
    BY <1>0, <1>7, <2>1 DEF EnterInstance, RunnerOK
<1> QED
  BY <1>1, <1>2, <1>3, <1>4, <1>5, <1>6, <1>7 DEF PushedPass

-----------------------------------------------------------------------------
(* What the tables hold, step by step.                                      *)

tableVars == <<owner, hot, rollupVars, nameCursor, nameCount>>

LEMMA TablesStay == TableInv /\ UNCHANGED tableVars => TableInv'
BY DEF TableInv, CursorsBehind, NoneAhead, ArchivedPassed, CountedOnce, tableVars,
       rollupVars

\* A new event is in no rollup, and no checkpoint covers it.
LEMMA CommitKeepsTables ==
    ASSUME TypeOK, TableInv, NEW i \in Instances, CommitEvent(i)
    PROVE  TableInv'
<1>1. /\ owner \in Seq(Instances) /\ owner' = Append(owner, i)
      /\ hot' = hot \cup {Len(owner) + 1} /\ Len(owner) < MaxRows
      /\ UNCHANGED <<cursor, counted, nameCursor, nameCount>>
      /\ MaxRows \in Nat
  BY AggregationAssumption DEF CommitEvent, TypeOK, rollupVars, nameVars
<1>2. /\ Len(owner) \in Nat /\ Len(owner') = Len(owner) + 1
      /\ \A e \in 1..Len(owner) : owner'[e] = owner[e]
      /\ owner'[Len(owner) + 1] = i
  BY <1>1
<1>3. /\ \A j \in Instances, t \in Rollups : cursor[j][t] \in 0..MaxRows
      /\ \A x \in Names : nameCursor[x] \in 0..MaxRows
  BY DEF TypeOK, Cursors
<1>4. CursorsBehind'
  BY <1>1, <1>2, <1>3 DEF TableInv, CursorsBehind
<1>5. NoneAhead'
  BY <1>1, <1>2 DEF TableInv, NoneAhead, Events
<1>6. ArchivedPassed'
  BY <1>1, <1>2 DEF TableInv, ArchivedPassed
<1>7. CountedOnce'
  <2> SUFFICES ASSUME NEW e \in 1..Len(owner')
               PROVE  /\ \A t \in Rollups :
                            counted[t][e] = IF e <= cursor[owner'[e]][t] THEN 1 ELSE 0
                      /\ nameCount[e] <= 1
                      /\ (e \in hot' /\ Author[e] \in Names /\ Home[Author[e]] = owner'[e])
                            => nameCount[e] = IF e <= nameCursor[Author[e]] THEN 1 ELSE 0
    BY <1>1 DEF CountedOnce
  <2>1. CASE e \in 1..Len(owner)
    <3>1. e # Len(owner) + 1 /\ owner'[e] = owner[e]
      BY <1>2, <2>1
    <3> QED
      BY <1>1, <2>1, <3>1 DEF TableInv, CountedOnce
  <2>2. CASE e = Len(owner) + 1
    <3>1. e \in Events /\ e > Len(owner) /\ owner'[e] = i
      BY <1>1, <1>2, <2>2 DEF Events
    <3>2. nameCount[e] = 0 /\ \A t \in Rollups : counted[t][e] = 0
      BY <3>1 DEF TableInv, NoneAhead
    <3>3. \A t \in Rollups : ~(e <= cursor[i][t])
      BY <1>2, <1>3, <2>2 DEF TableInv, CursorsBehind
    <3>4. \A x \in Names : ~(e <= nameCursor[x])
      BY <1>2, <1>3, <2>2 DEF TableInv, CursorsBehind
    <3> QED
      BY <3>1, <3>2, <3>3, <3>4
  <2> QED
    BY <1>2, <2>1, <2>2
<1> QED
  BY <1>4, <1>5, <1>6, <1>7 DEF TableInv

\* The archive takes only what every rollup has passed (CaughtUp).
LEMMA ArchiveKeepsTables ==
    ASSUME TypeOK, TableInv, NEW batch \in SUBSET hot, Archive(batch)
    PROVE  TableInv'
<1>1. /\ hot' = hot \ batch /\ batch \subseteq Own(Legacy) /\ CaughtUp(batch)
      /\ UNCHANGED <<owner, cursor, counted, nameCursor, nameCount>>
  BY DEF Archive, rollupVars, nameVars
<1>2. CursorsBehind' /\ NoneAhead'
  BY <1>1 DEF TableInv, CursorsBehind, NoneAhead
<1>3. ArchivedPassed'
  <2> SUFFICES ASSUME NEW e \in 1..Len(owner), NEW t \in Rollups, e \notin hot'
               PROVE  e <= cursor[owner[e]][t]
    BY <1>1 DEF ArchivedPassed
  <2>1. CASE e \in batch
    <3>1. owner[e] = Legacy /\ cursor[Legacy][t] >= e
      BY <1>1, <2>1 DEF Own, CaughtUp
    <3>2. cursor[Legacy][t] \in Nat
      BY AggregationAssumption DEF TypeOK, Cursors, Instances
    <3> QED
      BY <3>1, <3>2
  <2>2. CASE e \notin batch
    BY <1>1, <2>2 DEF TableInv, ArchivedPassed
  <2> QED
    BY <2>1, <2>2
<1>4. CountedOnce'
  BY <1>1 DEF TableInv, CountedOnce
<1> QED
  BY <1>2, <1>3, <1>4 DEF TableInv

\* What a rollup does not contain yet has not been archived.
LEMMA BeyondIsHot ==
    ASSUME TypeOK, TableInv, NEW i \in Instances, NEW t \in Rollups
    PROVE  \A e \in 1..Len(owner) : owner[e] = i /\ cursor[i][t] < e => e \in hot
<1>1. cursor[i][t] \in Nat
  BY DEF TypeOK, Cursors
<1> QED
  BY <1>1 DEF TableInv, ArchivedPassed

\* The page of a rollup, shared or its own, is what lies beyond its checkpoint.
LEMMA PageOfIsExact ==
    ASSUME TypeOK, TableInv, SharedExact, pc = "rollup", turn.at \in 1..3,
           cursor[turn.inst][Current] = turn.snap[Current]
    PROVE  PageExact(PageOf(Current), turn.inst, turn.snap[Current])
<1>1. /\ turn.inst \in Instances /\ Current \in Rollups
      /\ turn.snap[Current] \in 0..MaxRows /\ turn.target \in 0..MaxRows
  BY TypeByGroups, TurnFields DEF RunnerOK, Current, Types, Rollups, Cursors
<1>2. CASE turn.shared
  BY <1>2 DEF SharedExact, PageOf, Current
<1>3. CASE ~turn.shared
  <2>1. PageOf(Current) = Page(turn.inst, turn.snap[Current], turn.target)
    BY <1>3 DEF PageOf
  <2> QED
    BY <1>1, <2>1, BeyondIsHot, PageIsExact
<1> QED
  BY <1>2, <1>3

\* Rows and checkpoint of one rollup move together
\* (ApplyUsage...AggregationPageForInstance).
LEMMA WriteKeepsTables ==
    ASSUME TypeOK, TableInv, SharedExact, WriteRollup
    PROVE  TableInv'
<1> DEFINE c == Current
           i == turn.inst
           P == PageOf(c)
           s == turn.snap[c]
<1>1. turn.at \in 1..3 /\ pc = "rollup"
  BY DEF WriteRollup, Writing, Types, SharedExact
<1>2. c \in Rollups /\ i \in Instances /\ s \in 0..MaxRows
  BY <1>1, TypeByGroups, TurnFields DEF RunnerOK, Current, Types, Rollups, Cursors
<1>3. PICK next \in Events : IsLast(P, next) /\ P # {} /\ Apply(c, P, next)
  BY DEF WriteRollup
<1>4. /\ cursor[i][c] = s
      /\ counted' = [counted EXCEPT ![c] =
            [e \in Events |-> IF e \in P THEN counted[c][e] + 1 ELSE counted[c][e]]]
      /\ cursor' = [cursor EXCEPT ![i] =
            [u \in Rollups |-> IF u = c THEN next ELSE cursor[i][u]]]
      /\ UNCHANGED <<owner, hot, nameCursor, nameCount>>
  BY <1>3 DEF Apply, WriteRollup, eventVars, nameVars
<1>5. PageExact(P, i, s)
  BY <1>1, <1>4, PageOfIsExact
<1>6. next \in P /\ \A p \in P : p <= next
  BY <1>3 DEF IsLast
<1>7. /\ P \subseteq 1..Len(owner) /\ next \in 1..Len(owner)
      /\ Len(owner) \in Nat /\ Len(owner) <= MaxRows /\ MaxRows \in Nat
      /\ owner \in Seq(Instances)
  <2>1. /\ Len(owner) \in Nat /\ Len(owner) <= MaxRows /\ MaxRows \in Nat
        /\ owner \in Seq(Instances)
    BY AggregationAssumption DEF TypeOK
  <2>2. P \subseteq 1..Len(owner)
    BY <1>5 DEF PageExact
  <2> QED
    BY <1>6, <2>1, <2>2
<1>8. /\ \A j \in Instances, t \in Rollups : cursor[j][t] \in 0..MaxRows
      /\ cursor \in [Instances -> [Rollups -> 0..MaxRows]]
      /\ counted \in [Rollups -> [Events -> Nat]]
  BY DEF TypeOK, Cursors
<1> HIDE DEF c, i, P, s
<1>9. \A e \in 1..Len(owner) : e \in P <=> owner[e] = i /\ s < e /\ e <= next
  <2> SUFFICES ASSUME NEW e \in 1..Len(owner)
               PROVE  e \in P <=> owner[e] = i /\ s < e /\ e <= next
    OBVIOUS
  <2>1. e \in P <=> owner[e] = i /\ s < e /\ \E p \in P : e <= p
    BY <1>5 DEF PageExact
  <2>2. (\E p \in P : e <= p) <=> e <= next
    BY <1>6, <1>7
  <2> QED
    BY <2>1, <2>2
<1>10. s < next /\ owner[next] = i
  BY <1>6, <1>7, <1>9
<1>11. \A j \in Instances, t \in Rollups :
          cursor'[j][t] = IF j = i /\ t = c THEN next ELSE cursor[j][t]
  BY <1>2, <1>4, <1>8
<1>12. \A t \in Rollups, e \in Events :
          counted'[t][e] = IF t = c /\ e \in P THEN counted[t][e] + 1 ELSE counted[t][e]
  BY <1>2, <1>4, <1>8
<1>13. \A e \in 1..Len(owner) : e \in Events /\ owner[e] \in Instances
  BY <1>7 DEF Events
<1>14. CursorsBehind'
  BY <1>4, <1>7, <1>11 DEF TableInv, CursorsBehind
<1>15. NoneAhead'
  <2> SUFFICES ASSUME NEW e \in Events, e > Len(owner)
               PROVE  nameCount[e] = 0 /\ \A t \in Rollups : counted'[t][e] = 0
    BY <1>4 DEF NoneAhead
  <2>1. e \notin P
    BY <1>7
  <2> QED
    BY <1>12, <2>1 DEF TableInv, NoneAhead
<1>16. ArchivedPassed'
  <2> SUFFICES ASSUME NEW e \in 1..Len(owner), NEW t \in Rollups, e \notin hot
               PROVE  e <= cursor'[owner[e]][t]
    BY <1>4 DEF ArchivedPassed
  <2>1. e <= cursor[owner[e]][t]
    BY DEF TableInv, ArchivedPassed
  <2>2. CASE owner[e] = i /\ t = c
    <3>1. cursor'[owner[e]][t] = next /\ cursor[owner[e]][t] = s
      BY <1>2, <1>4, <1>11, <2>2
    <3> QED
      BY <1>2, <1>7, <1>10, <2>1, <3>1
  <2>3. CASE ~(owner[e] = i /\ t = c)
    <3>1. cursor'[owner[e]][t] = cursor[owner[e]][t]
      BY <1>11, <1>13, <2>3
    <3> QED
      BY <2>1, <3>1
  <2> QED
    BY <2>2, <2>3
<1>17. CountedOnce'
  <2> SUFFICES ASSUME NEW e \in 1..Len(owner), NEW t \in Rollups
               PROVE  counted'[t][e] = IF e <= cursor'[owner[e]][t] THEN 1 ELSE 0
    BY <1>4 DEF CountedOnce, TableInv
  <2>1. counted[t][e] = IF e <= cursor[owner[e]][t] THEN 1 ELSE 0
    BY DEF TableInv, CountedOnce
  <2>2. CASE t = c /\ owner[e] = i
    <3>1. cursor[owner[e]][t] = s /\ cursor'[owner[e]][t] = next
      BY <1>2, <1>4, <1>11, <2>2
    <3>2. e \in P <=> s < e /\ e <= next
      BY <1>9, <2>2
    <3>3. counted'[t][e] = IF e \in P THEN counted[t][e] + 1 ELSE counted[t][e]
      BY <1>12, <1>13, <2>2
    <3> QED
      BY <1>2, <1>7, <1>10, <2>1, <3>1, <3>2, <3>3
  <2>3. CASE ~(t = c /\ owner[e] = i)
    <3>1. cursor'[owner[e]][t] = cursor[owner[e]][t]
      BY <1>11, <1>13, <2>3
    <3>2. ~(t = c /\ e \in P)
      BY <1>9, <2>3
    <3>3. counted'[t][e] = counted[t][e]
      BY <1>12, <1>13, <3>2
    <3> QED
      BY <2>1, <3>1, <3>3
  <2> QED
    BY <2>2, <2>3
<1> QED
  BY <1>14, <1>15, <1>16, <1>17 DEF TableInv

\* Every identity of a page counts what lies beyond its own cursor
\* (AggregateUsageIdentityStatsBatchForInstance).
LEMMA CountNamesKeepsTables ==
    ASSUME TypeOK, TableInv, NEW page, page \subseteq Names, CountNames(page),
           UNCHANGED <<owner, hot, cursor, counted>>
    PROVE  TableInv'
<1>1. PICK moved \in [page -> Events \cup {0}] :
          /\ \A x \in page : IsLast(Delta(x), moved[x])
          /\ nameCursor' = [x \in Names |->
                 IF x \in page /\ Delta(x) # {} THEN moved[x] ELSE nameCursor[x]]
  BY DEF CountNames
<1>2. nameCount' = [e \in Events |->
           IF \E x \in page : e \in Delta(x) THEN nameCount[e] + 1 ELSE nameCount[e]]
  BY DEF CountNames
<1>3. /\ Len(owner) \in Nat /\ Len(owner) <= MaxRows /\ hot \subseteq 1..Len(owner)
      /\ \A x \in Names : nameCursor[x] \in 0..MaxRows
      /\ \A e \in Events : nameCount[e] \in Nat
      /\ MaxRows \in Nat /\ hot \subseteq Events
  <2>1. MaxRows \in Nat /\ hot \subseteq Events
    BY AggregationAssumption, HotAreEvents
  <2>2. Len(owner) \in Nat /\ Len(owner) <= MaxRows /\ hot \subseteq 1..Len(owner)
    BY TypeByGroups DEF EventsOK
  <2>3. \A x \in Names : nameCursor[x] \in 0..MaxRows
    BY TypeByGroups DEF NamesOK
  <2>4. \A e \in Events : nameCount[e] \in Nat
    BY TypeByGroups DEF NamesOK
  <2> QED
    BY <2>1, <2>2, <2>3, <2>4
<1>4. \A x : Delta(x) \subseteq hot
  BY DEF Delta, Own
<1>5. \A x \in Names : nameCursor'[x] \in 0..Len(owner)
  <2> SUFFICES ASSUME NEW x \in Names PROVE nameCursor'[x] \in 0..Len(owner)
    OBVIOUS
  <2>1. CASE x \in page /\ Delta(x) # {}
    <3>1. moved[x] \in Delta(x)
      BY <1>1, <2>1 DEF IsLast
    <3>2. moved[x] \in 1..Len(owner)
      BY <1>3, <1>4, <3>1
    <3>3. nameCursor'[x] = moved[x]
      BY <1>1, <2>1
    <3> QED
      BY <1>3, <3>2, <3>3
  <2>2. CASE ~(x \in page /\ Delta(x) # {})
    BY <1>1, <1>3, <2>2 DEF TableInv, CursorsBehind
  <2> QED
    BY <2>1, <2>2
<1>6. CursorsBehind'
  BY <1>3, <1>5 DEF TableInv, CursorsBehind
<1>7. NoneAhead'
  <2> SUFFICES ASSUME NEW e \in Events, e > Len(owner)
               PROVE  nameCount'[e] = 0 /\ \A t \in Rollups : counted[t][e] = 0
    BY DEF NoneAhead
  <2>1. e \notin hot
    BY <1>3
  <2> QED
    BY <1>2, <1>4, <2>1 DEF TableInv, NoneAhead
<1>8. ArchivedPassed'
  BY DEF TableInv, ArchivedPassed
<1>9. ASSUME NEW e \in 1..Len(owner)
      PROVE  /\ nameCount'[e] <= 1
             /\ (e \in hot /\ Author[e] \in Names /\ Home[Author[e]] = owner[e])
                   => nameCount'[e] = IF e <= nameCursor'[Author[e]] THEN 1 ELSE 0
  <2>0. e \in Events /\ nameCount[e] <= 1 /\ nameCount[e] \in Nat
    BY <1>3 DEF TableInv, CountedOnce, Events
  <2>1. CASE \E x \in page : e \in Delta(x)
    <3>1. PICK x \in page : e \in Delta(x)
      BY <2>1
    <3>2. e \in hot /\ owner[e] = Home[x] /\ Author[e] = x /\ e > nameCursor[x]
      BY <3>1 DEF Delta, Own
    <3>3. x \in Names /\ nameCount[e] = 0
      BY <1>3, <3>2 DEF TableInv, CountedOnce
    <3>4. nameCount'[e] = 1
      BY <1>2, <2>0, <2>1, <3>3
    <3>5. e <= moved[x] /\ nameCursor'[x] = moved[x]
      BY <1>1, <3>1, <3>3 DEF IsLast
    <3> QED
      BY <3>2, <3>4, <3>5
  <2>2. CASE ~\E x \in page : e \in Delta(x)
    <3>1. nameCount'[e] = nameCount[e]
      BY <1>2, <2>0, <2>2
    <3>2. ASSUME e \in hot, Author[e] \in Names, Home[Author[e]] = owner[e]
          PROVE  nameCount'[e] = IF e <= nameCursor'[Author[e]] THEN 1 ELSE 0
      <4> DEFINE x == Author[e]
      <4>1. nameCount[e] = IF e <= nameCursor[x] THEN 1 ELSE 0
        BY <3>2 DEF TableInv, CountedOnce
      <4>2. CASE x \in page /\ Delta(x) # {}
        <5>1. e \notin Delta(x)
          BY <2>2, <4>2
        <5>2. e <= nameCursor[x]
          BY <1>3, <3>2, <5>1 DEF Delta, Own
        <5>3. moved[x] \in Delta(x) /\ nameCursor'[x] = moved[x]
          BY <1>1, <3>2, <4>2 DEF IsLast
        <5>4. moved[x] > nameCursor[x] /\ moved[x] \in 1..Len(owner)
          <6>1. moved[x] > nameCursor[x]
            BY <5>3 DEF Delta
          <6>2. moved[x] \in 1..Len(owner)
            BY <1>3, <1>4, <5>3
          <6> QED
            BY <6>1, <6>2
        <5>5. e <= nameCursor'[x]
          BY <1>3, <3>2, <5>2, <5>3, <5>4
        <5> QED
          BY <3>1, <4>1, <5>2, <5>5
      <4>3. CASE ~(x \in page /\ Delta(x) # {})
        <5>1. nameCursor'[x] = nameCursor[x]
          BY <1>1, <3>2, <4>3
        <5> QED
          BY <3>1, <4>1, <5>1
      <4> QED
        BY <4>2, <4>3
    <3> QED
      BY <2>0, <3>1, <3>2
  <2> QED
    BY <2>1, <2>2
<1>10. CountedOnce'
  BY <1>9 DEF TableInv, CountedOnce
<1> QED
  BY <1>6, <1>7, <1>8, <1>10 DEF TableInv

-----------------------------------------------------------------------------
(* The shared page, step by step.                                           *)

LEMMA SharedStays ==
    SharedExact /\ UNCHANGED <<owner, pc, turn>> => SharedExact'
BY DEF SharedExact, PageExact

LEMMA SharedElsewhere == pc' # "rollup" => SharedExact'
BY DEF SharedExact

\* The page was read when the three checkpoints were equal.
LEMMA LoadIsShared ==
    ASSUME TypeOK, TableInv, NEW i \in Instances, NEW v \in 0..MaxRows,
           turn' = Loaded(i, v), UNCHANGED owner
    PROVE  SharedExact'
<1> DEFINE snap == cursor[i]
           done == \A t \in Rollups : snap[t] >= v
<1>1. turn \in Turns /\ snap \in Cursors
  BY TypeByGroups DEF RunnerOK, RollupsOK
<1>2. /\ turn'.inst = i /\ turn'.snap = snap /\ turn'.shared = Equal(snap)
      /\ turn'.at = (IF done THEN 4 ELSE 1)
      /\ turn'.page = IF Equal(snap) /\ ~done THEN Page(i, snap["overview"], v) ELSE {}
  BY <1>1 DEF Loaded, Turns, Types
<1> HIDE DEF snap, done
<1>3. ASSUME Equal(snap), ~done, NEW k \in 1..3
      PROVE  PageExact(turn'.page, i, snap[Types[k]])
  <2>1. "overview" \in Rollups /\ Types[k] \in Rollups
    BY DEF Rollups, Types
  <2>2. snap[Types[k]] = snap["overview"] /\ snap["overview"] \in 0..MaxRows
    BY <1>1, <1>3, <2>1 DEF Equal, Cursors
  <2>3. PageExact(Page(i, snap["overview"], v), i, snap["overview"])
    BY <2>1, <2>2, BeyondIsHot, PageIsExact DEF snap
  <2> QED
    BY <1>2, <1>3, <2>2, <2>3
<1>4. ASSUME turn'.shared, NEW k \in turn'.at..3
      PROVE  PageExact(turn'.page, turn'.inst, turn'.snap[Types[k]])
  BY <1>2, <1>3, <1>4
<1>5. turn'.at \in 1..4
  BY <1>2
<1>6. ASSUME NEW page, NEW j, NEW from, PageExact(page, j, from)
      PROVE  /\ page \subseteq 1..Len(owner')
             /\ \A e \in 1..Len(owner') :
                   e \in page <=> owner'[e] = j /\ from < e /\ \E p \in page : e <= p
  BY <1>6 DEF PageExact
<1> QED
  BY <1>4, <1>5, <1>6 DEF SharedExact, PageExact

\* The rollups still to be written keep their snapshots.
LEMMA WriteKeepsShared ==
    ASSUME TypeOK, SharedExact, pc = "rollup", turn.at \in 1..3,
           turn'.at = turn.at + 1, turn'.inst = turn.inst, turn'.page = turn.page,
           turn'.shared = turn.shared,
           \A t \in Rollups : t # Current => turn'.snap[t] = turn.snap[t],
           UNCHANGED owner
    PROVE  SharedExact'
<1>1. turn'.at \in 1..4
  OBVIOUS
<1>2. ASSUME NEW k \in turn'.at..3
      PROVE  k \in turn.at..3 /\ turn'.snap[Types[k]] = turn.snap[Types[k]]
  <2>1. k \in 1..3 /\ k # turn.at /\ k \in turn.at..3
    OBVIOUS
  <2>2. Types[k] \in Rollups /\ Types[k] # Types[turn.at]
    BY <2>1 DEF Types, Rollups
  <2> QED
    BY <2>1, <2>2 DEF Current
<1>3. ASSUME turn'.shared, NEW k \in turn'.at..3
      PROVE  PageExact(turn'.page, turn'.inst, turn'.snap[Types[k]])
  BY <1>2, <1>3 DEF SharedExact
<1> QED
  BY <1>1, <1>3 DEF SharedExact, PageExact

\* No event is added to the page while the runner works on it.
LEMMA CommitKeepsShared ==
    ASSUME TypeOK, SharedExact, NEW i \in Instances, CommitEvent(i)
    PROVE  SharedExact'
<1>1. UNCHANGED <<pc, turn>> /\ owner' = Append(owner, i) /\ owner \in Seq(Instances)
  BY DEF CommitEvent, runnerVars, TypeOK
<1> SUFFICES ASSUME pc = "rollup"
             PROVE  /\ turn.at \in 1..4
                    /\ turn.shared =>
                          \A k \in turn.at..3 :
                             PageExact(turn.page, turn.inst, turn.snap[Types[k]])'
  BY <1>1 DEF SharedExact
<1>2. ASSUME turn.shared, NEW k \in turn.at..3
      PROVE  PageExact(turn.page, turn.inst, turn.snap[Types[k]])'
  <2>1. PageExact(turn.page, turn.inst, turn.snap[Types[k]])
    BY <1>2 DEF SharedExact
  <2> QED
    BY <1>1, <2>1, PageStaysExact
<1> QED
  BY <1>2 DEF SharedExact

-----------------------------------------------------------------------------
(* The inductive invariant.                                                 *)

LEMMA InitInv == Init => IInv
<1> SUFFICES ASSUME Init PROVE IInv
  OBVIOUS
<1>1. /\ MaxRows \in Nat /\ MaxIdentities \in Nat /\ MaxCrashes \in Nat
      /\ 0 \in 0..MaxRows /\ owner = <<>> /\ Len(owner) = 0
  BY AggregationAssumption DEF Init
<1>2. InboxOK /\ SendersOK
  BY <1>1 DEF Init, InboxOK, SendersOK, Quiet
<1>3. EventsOK
  BY <1>1 DEF Init, EventsOK
<1>4. RollupsOK
  BY <1>1, InitialTypes DEF Init, RollupsOK
<1>5. NamesOK /\ crashes \in 0..MaxCrashes
  BY <1>1 DEF Init, NamesOK
<1>6. RunnerOK
  BY InitialTypes DEF Init, RunnerOK, Labels
<1>7. InboxBehind /\ SharedExact
  BY DEF Init, InboxBehind, SharedExact
<1>8. TableInv
  BY <1>1 DEF Init, TableInv, CursorsBehind, NoneAhead, ArchivedPassed, CountedOnce, NoCursor
<1> QED
  BY <1>2, <1>3, <1>4, <1>5, <1>6, <1>7, <1>8, TypeByGroups DEF IInv

LEMMA InboxStep ==
    ASSUME TypeOK, InboxBehind, [Next]_vars
    PROVE  InboxBehind'
<1>0. inbox \in [Instances -> 0..MaxRows] /\ arrived \in Nat
  BY DEF TypeOK
<1>1. ASSUME NEW i \in Instances, Ingest(i) PROVE InboxBehind'
  BY <1>0, <1>1 DEF Ingest, InboxBehind
<1>2. ASSUME NEW i \in Instances, CommitEvent(i) \/ Discard(i) PROVE InboxBehind'
  BY <1>0, <1>2 DEF CommitEvent, Discard, InboxBehind
<1>3. CASE UNCHANGED inboxVars
  BY <1>3 DEF InboxBehind, inboxVars
<1> QED
  BY <1>1, <1>2, <1>3
     DEF Next, vars, Processor, MetadataSync, Runner, LegacyTurn, PushedPass,
         NotifyUsageEventsCommitted, SignalUsage, AddIdentity,
         NotifyUsageIdentitiesChanged, SignalIdentities, SetEnabled, Archive,
         StartupTarget, Adopt, FindPushed, FindTurn, Sleep, Freeze, Woken, WaitForRetry,
         TimerFires, Restart, BeginTurn, DeferTurn, TurnFails, LoadRollups, SkipRollup,
         DeferRollup, WriteRollup, RollupFails, FinishRollups, IdentityTurn, ListPushed,
         PassOver, EnterInstance, ReadInstance, InstanceNames, EndPass, PassFails

LEMMA TypeStep ==
    ASSUME TypeOK, InboxBehind, SharedExact, [Next]_vars
    PROVE  TypeOK'
<1>1. CASE UNCHANGED vars
  <2>1. UNCHANGED <<inboxVars, eventVars, rollupVars, nameVars, senderVars, runnerVars,
                    crashes>>
    BY <1>1 DEF vars
  <2> QED
    BY <2>1, Frames, TypeByGroups
<1>2. CASE Next
  BY <1>2, SurroundingsType, LoopType, TurnType, PassType DEF Next, Runner
<1> QED
  BY <1>1, <1>2

LEMMA NamesOfAreNames == TypeOK => \A i, after : NamesOf(i, after) \subseteq Names
<1> SUFFICES ASSUME TypeOK, NEW i, NEW after PROVE NamesOf(i, after) \subseteq Names
  OBVIOUS
<1>1. NamesOf(i, after) \subseteq 1..known
  BY FirstOfIsSubset DEF NamesOf
<1>2. known \in 0..MaxIdentities /\ MaxIdentities \in Nat
  BY AggregationAssumption DEF TypeOK
<1>3. ASSUME NEW x \in NamesOf(i, after) PROVE x \in Names
  BY <1>1, <1>2 DEF Names
<1> QED
  BY <1>3

\* Steps of a turn of the legacy instance.
LEMMA TurnInv ==
    ASSUME TypeOK, TableInv, SharedExact, LegacyTurn
    PROVE  TableInv' /\ SharedExact'
<1> USE DEF Goto, eventVars, rollupVars, nameVars, tableVars, runnerVars
<1>1. CASE BeginTurn \/ DeferTurn \/ TurnFails \/ DeferRollup \/ FinishRollups
  <2>1. UNCHANGED tableVars /\ pc' # "rollup"
    BY <1>1 DEF BeginTurn, DeferTurn, TurnFails, DeferRollup, FinishRollups
  <2> QED
    BY <2>1, TablesStay, SharedElsewhere
<1>2. CASE LoadRollups
  <2>1. UNCHANGED tableVars /\ turn' = Loaded(Legacy, turn.target)
    BY <1>2 DEF LoadRollups
  <2>2. Legacy \in Instances /\ turn.target \in 0..MaxRows
    BY TypeByGroups, TurnFields DEF RunnerOK, Instances
  <2> QED
    BY <2>1, <2>2, TablesStay, LoadIsShared
<1>3. CASE SkipRollup \/ RollupFails
  <2>1. /\ UNCHANGED tableVars /\ turn.at \in 1..3 /\ pc = "rollup"
        /\ \/ turn' = [turn EXCEPT !.at = turn.at + 1]
           \/ turn' = [turn EXCEPT !.at = turn.at + 1, !.err = TRUE]
    BY <1>3 DEF SkipRollup, RollupFails, Writing, Types, SharedExact
  <2>2. turn \in Turns
    BY TypeByGroups DEF RunnerOK
  <2>3. /\ turn'.at = turn.at + 1 /\ turn'.inst = turn.inst /\ turn'.page = turn.page
        /\ turn'.shared = turn.shared /\ turn'.snap = turn.snap
    BY <2>1, <2>2 DEF Turns
  <2> QED
    BY <2>1, <2>3, TablesStay, WriteKeepsShared
<1>4. CASE WriteRollup
  <2>1. PICK next \in Events :
           turn' = [turn EXCEPT !.at = turn.at + 1,
                 !.snap = [u \in Rollups |-> IF u = Current THEN next ELSE turn.snap[u]]]
    BY <1>4 DEF WriteRollup
  <2>2. turn \in Turns
    BY TypeByGroups DEF RunnerOK
  <2>3. /\ turn'.at = turn.at + 1 /\ turn'.inst = turn.inst /\ turn'.page = turn.page
        /\ turn'.shared = turn.shared
        /\ turn'.snap = [u \in Rollups |-> IF u = Current THEN next ELSE turn.snap[u]]
    BY <2>1, <2>2 DEF Turns
  <2>4. UNCHANGED owner /\ turn.at \in 1..3 /\ pc = "rollup"
    BY <1>4 DEF WriteRollup, Writing, Types, SharedExact
  <2>5. SharedExact'
    BY <2>3, <2>4, WriteKeepsShared
  <2> QED
    BY <1>4, <2>5, WriteKeepsTables
<1>5. CASE IdentityTurn
  <2>1. /\ CountNames(NamesOf(Legacy, turn.after)) /\ pc' # "rollup"
        /\ UNCHANGED <<owner, hot, cursor, counted>>
    BY <1>5 DEF IdentityTurn
  <2> QED
    BY <2>1, NamesOfAreNames, CountNamesKeepsTables, SharedElsewhere
<1> QED
  BY <1>1, <1>2, <1>3, <1>4, <1>5 DEF LegacyTurn

\* Steps of the pass over the pushed instances.
LEMMA PassInv ==
    ASSUME TypeOK, TableInv, SharedExact, PushedPass
    PROVE  TableInv' /\ SharedExact'
<1> USE DEF Goto, eventVars, rollupVars, nameVars, tableVars, runnerVars
<1>1. CASE \/ ListPushed \/ EndPass \/ PassFails
           \/ \E i \in Pushed : PassOver(i) \/ EnterInstance(i)
  <2>1. UNCHANGED tableVars /\ pc' # "rollup"
    BY <1>1 DEF ListPushed, EndPass, PassFails, PassOver, EnterInstance
  <2> QED
    BY <2>1, TablesStay, SharedElsewhere
<1>2. CASE ReadInstance
  <2>1. UNCHANGED tableVars
    BY <1>2 DEF ReadInstance
  <2>2. PICK m \in 0..MaxRows :
           pc' # "names" => turn' = Loaded(turn.inst, m)
    BY <1>2 DEF ReadInstance
  <2>3. turn.inst \in Instances
    BY TypeByGroups, TurnFields DEF RunnerOK
  <2>4. SharedExact'
    <3>1. CASE pc' = "names"
      BY <3>1, SharedElsewhere
    <3>2. CASE pc' # "names"
      BY <2>1, <2>2, <2>3, <3>2, LoadIsShared
    <3> QED
      BY <3>1, <3>2
  <2> QED
    BY <2>1, <2>4, TablesStay
<1>3. CASE InstanceNames
  <2>1. /\ CountNames(NamesOf(turn.inst, turn.after)) /\ pc' # "rollup"
        /\ UNCHANGED <<owner, hot, cursor, counted>>
    BY <1>3 DEF InstanceNames
  <2> QED
    BY <2>1, NamesOfAreNames, CountNamesKeepsTables, SharedElsewhere
<1> QED
  BY <1>1, <1>2, <1>3 DEF PushedPass

\* Everything else leaves the tables alone, except the commit of an event and
\* the archive.
LEMMA SurroundingsInv ==
    ASSUME TypeOK, TableInv, SharedExact,
           \/ \E i \in Instances : Ingest(i)
           \/ Processor \/ AddIdentity \/ MetadataSync
           \/ \E i \in Pushed : SetEnabled(i)
           \/ \E batch \in SUBSET hot : Archive(batch)
           \/ StartupTarget \/ Adopt
           \/ FindPushed \/ FindTurn \/ Sleep \/ Freeze \/ Woken \/ WaitForRetry
           \/ TimerFires \/ Restart
    PROVE  TableInv' /\ SharedExact'
<1> USE DEF Goto, eventVars, rollupVars, nameVars, tableVars, runnerVars
<1>1. CASE \/ \E i \in Instances : Ingest(i) \/ Discard(i)
           \/ NotifyUsageEventsCommitted \/ SignalUsage \/ AddIdentity
           \/ MetadataSync \/ TimerFires
           \/ \E i \in Pushed : SetEnabled(i)
  <2>1. UNCHANGED tableVars /\ UNCHANGED <<owner, pc, turn>>
    BY <1>1 DEF Ingest, Discard, NotifyUsageEventsCommitted, SignalUsage, AddIdentity,
                MetadataSync, NotifyUsageIdentitiesChanged, SignalIdentities, TimerFires,
                SetEnabled
  <2> QED
    BY <2>1, TablesStay, SharedStays
<1>2. CASE \/ StartupTarget \/ Adopt \/ FindPushed \/ FindTurn \/ Sleep \/ Freeze
           \/ Woken \/ WaitForRetry \/ Restart
  <2>1. UNCHANGED tableVars /\ pc' # "rollup"
    BY <1>2 DEF StartupTarget, Adopt, FindPushed, FindTurn, Sleep, Freeze, Woken,
                WaitForRetry, Restart
  <2> QED
    BY <2>1, TablesStay, SharedElsewhere
<1>3. ASSUME NEW i \in Instances, CommitEvent(i) PROVE TableInv' /\ SharedExact'
  BY <1>3, CommitKeepsTables, CommitKeepsShared
<1>4. ASSUME NEW batch \in SUBSET hot, Archive(batch) PROVE TableInv' /\ SharedExact'
  <2>1. UNCHANGED <<owner, pc, turn>>
    BY <1>4 DEF Archive
  <2> QED
    BY <1>4, <2>1, ArchiveKeepsTables, SharedStays
<1> QED
  BY <1>1, <1>2, <1>3, <1>4 DEF Processor

LEMMA NextInv == IInv /\ [Next]_vars => IInv'
<1> SUFFICES ASSUME IInv, [Next]_vars PROVE IInv'
  OBVIOUS
<1> USE DEF IInv
<1>1. TypeOK' /\ InboxBehind'
  BY TypeStep, InboxStep
<1>2. CASE UNCHANGED vars
  <2>1. UNCHANGED tableVars /\ UNCHANGED <<owner, pc, turn>>
    BY <1>2 DEF vars, tableVars, eventVars, nameVars, runnerVars
  <2> QED
    BY <1>1, <2>1, TablesStay, SharedStays
<1>3. CASE Next
  BY <1>1, <1>3, SurroundingsInv, TurnInv, PassInv DEF Next, Runner
<1> QED
  BY <1>2, <1>3

THEOREM Inductive == Spec => []IInv
BY InitInv, NextInv, PTL DEF Spec

-----------------------------------------------------------------------------
(* The results.                                                             *)

\* The variables keep their types, over restarts and failing statements.
THEOREM TypeCorrect == Spec => []TypeOK
<1>1. IInv => TypeOK
  BY DEF IInv
<1> QED
  BY <1>1, Inductive, PTL

\* Every event is in every rollup exactly once from the moment its checkpoint
\* passes it, and in its identity's statistics at most once (ApplyUsage...
\* AggregationPageForInstance, AggregateUsageIdentityStatsBatchForInstance).
THEOREM EventsCountedOnce == Spec => []CountedOnce
<1>1. IInv => CountedOnce
  BY DEF IInv, TableInv
<1> QED
  BY <1>1, Inductive, PTL

\* What the archive moves out of the hot table is in all rollups and, when it
\* has an identity, in the statistics of that identity
\* (usageEventAggregationsCaughtUpForInstance).
THEOREM ArchivedWereCounted == Spec => ArchiveOnlyCounted
<1> DEFINE Gone(e) ==
      /\ \A t \in Rollups : counted[t][e] = 1
      /\ (Author[e] \in 1..known /\ Home[Author[e]] = owner[e]) => nameCount[e] = 1
<1>1. ASSUME IInv, [Next]_vars PROVE [\A e \in hot \ hot' : Gone(e)]_vars
  <2>1. TypeOK /\ CountedOnce
    BY <1>1 DEF IInv, TableInv
  <2>2. ASSUME NEW batch \in SUBSET hot, Archive(batch), NEW e \in hot \ hot' PROVE Gone(e)
    <3>1. e \in batch /\ e \in Own(Legacy) /\ CaughtUp(batch)
      BY <2>2 DEF Archive
    <3>2. e \in 1..Len(owner) /\ owner[e] = Legacy /\ e \in hot
      BY <2>1, <3>1 DEF Own, TypeOK
    <3>3. \A t \in Rollups : cursor[Legacy][t] >= e /\ cursor[Legacy][t] \in Nat
      BY <2>1, <3>1 DEF CaughtUp, TypeOK, Cursors, Instances
    <3>4. \A t \in Rollups : counted[t][e] = 1
      BY <2>1, <3>2, <3>3 DEF CountedOnce
    <3>5. ASSUME Author[e] \in 1..known, Home[Author[e]] = owner[e]
          PROVE  nameCount[e] = 1
      <4>1. ~Uncounted(e)
        BY <3>1, <3>2 DEF CaughtUp
      <4>2. known \in 0..MaxIdentities /\ MaxIdentities \in Nat
        BY <2>1, AggregationAssumption DEF TypeOK
      <4>3. Author[e] \in Names
        BY <3>5, <4>2 DEF Names
      <4>4. nameCursor[Author[e]] \in Nat
        BY <2>1, <4>3 DEF TypeOK
      <4>5. e <= nameCursor[Author[e]]
        BY <3>2, <3>5, <4>1, <4>4 DEF Uncounted
      <4> QED
        BY <2>1, <3>2, <3>5, <4>3, <4>5 DEF CountedOnce
    <3> QED
      BY <3>4, <3>5
  <2>3. CASE hot \subseteq hot'
    BY <2>3
  <2>4. hot \subseteq hot' \/ \E batch \in SUBSET hot : Archive(batch)
    BY <1>1
       DEF Next, vars, Processor, MetadataSync, Runner, LegacyTurn, PushedPass, eventVars,
           Ingest, CommitEvent, Discard,
           NotifyUsageEventsCommitted, SignalUsage, AddIdentity,
           NotifyUsageIdentitiesChanged, SignalIdentities, SetEnabled,
           StartupTarget, Adopt, FindPushed, FindTurn, Sleep, Freeze, Woken, WaitForRetry,
           TimerFires, Restart, BeginTurn, DeferTurn, TurnFails, LoadRollups, SkipRollup,
           DeferRollup, WriteRollup, RollupFails, FinishRollups, IdentityTurn, ListPushed,
           PassOver, EnterInstance, ReadInstance, InstanceNames, EndPass, PassFails
  <2> QED
    BY <2>2, <2>3, <2>4
<1> QED
  BY <1>1, Inductive, PTL DEF Spec, ArchiveOnlyCounted

-----------------------------------------------------------------------------
(* The sleep of the runner.  What is still to be done for an event is       *)
(* always written down somewhere: in an announcement that is to come, in    *)
(* the fields under mu, or in the start of the runner that is to read them  *)
(* from the tables.                                                         *)

Committed(e) == notice.stage = "committed" /\ notice.event = e

RollupDue(e) ==
    \/ \A t \in Rollups : e <= cursor[Legacy][t]
    \/ Committed(e)
    \/ e <= mem.pending
    \/ mem.active /\ e <= mem.target
    \/ pc = "startup"
    \/ pc = "adopt" /\ e <= turn.target

RollupsDue == \A e \in 1..Len(owner) : owner[e] = Legacy => RollupDue(e)

NameDue(e) ==
    \/ Committed(e)
    \/ sync = "stored"
    \/ mem.scan < mem.want
    \/ mem.after # 0 /\ mem.after < Author[e]

NamesDue == \A e \in Own(Legacy) : Uncounted(e) => NameDue(e)

\* What a turn captured under mu is still so.
TurnKnows ==
    /\ mem.scan <= mem.want
    /\ pc \in {"startup", "adopt"} => ~mem.active
    /\ pc \in {"read", "names"} => turn.inst \in Pushed
    /\ pc = "work" /\ turn.kind = "rollups" => turn.target = mem.target
    /\ pc = "work" /\ turn.kind = "identity" =>
          /\ turn.after = mem.after /\ turn.gen <= mem.want
          /\ mem.after # 0 => turn.gen = mem.scan
    /\ pc = "rollup" /\ turn.inst = Legacy =>
          turn.target = mem.target /\ turn.snap = cursor[Legacy]

\* What is announced after the runner looked and before it sleeps wakes it.
SleepsRight ==
    pc = "blocked" =>
        /\ ~mem.active /\ mem.after = 0
        /\ mem.pending > 0 => timer # "off" \/ wake \/ notice.stage = "noted"
        /\ mem.scan < mem.want => wake \/ notice.stage = "noted" \/ sync = "noted"

WakeInv == RollupsDue /\ NamesDue /\ TurnKnows /\ SleepsRight

\* Steps that do not concern the rollups' side of mem, or the identities' side.
SameRollups ==
    /\ UNCHANGED <<owner, cursor>>
    /\ mem'.active = mem.active /\ mem'.target = mem.target /\ mem'.pending = mem.pending

SameNames ==
    /\ UNCHANGED <<owner, known, nameCursor>> /\ hot' \subseteq hot
    /\ mem'.after = mem.after /\ mem'.want = mem.want /\ mem'.scan = mem.scan

\* Steps of others that the runner does not notice.
Elsewhere ==
    \/ \E i \in Instances : Ingest(i) \/ Discard(i)
    \/ \E i \in Pushed : SetEnabled(i)
    \/ \E batch \in SUBSET hot : Archive(batch)

\* Steps of the runner that move no target and finish no page.
Moves ==
    \/ FindPushed \/ FindTurn \/ Sleep \/ Woken \/ WaitForRetry
    \/ BeginTurn \/ DeferTurn \/ TurnFails \/ LoadRollups \/ SkipRollup
    \/ DeferRollup \/ RollupFails
    \/ ListPushed \/ ReadInstance \/ EndPass \/ PassFails
    \/ \E i \in Pushed : PassOver(i) \/ EnterInstance(i)

LEMMA MemFields ==
    ASSUME NEW m \in Mems
    PROVE  /\ m.active \in BOOLEAN /\ m.target \in 0..MaxRows /\ m.pending \in 0..MaxRows
           /\ m.after \in 0..MaxIdentities /\ m.want \in Nat /\ m.scan \in Nat
           /\ m.next \in {"rollups", "identity"}
BY DEF Mems

LEMMA ElsewhereStays ==
    ASSUME TypeOK, Elsewhere
    PROVE  /\ SameRollups /\ SameNames
           /\ UNCHANGED <<notice, sync, mem, timer, wake, pc, turn>>
BY DEF Elsewhere, Ingest, Discard, SetEnabled, Archive, SameRollups, SameNames, eventVars,
       rollupVars, nameVars, senderVars, runnerVars

LEMMA MovesStay ==
    ASSUME TypeOK, Moves
    PROVE  /\ SameRollups /\ SameNames /\ UNCHANGED <<notice, sync>>
           /\ pc \notin {"startup", "adopt"} /\ pc' \notin {"startup", "adopt"}
<1>0. mem \in Mems
  BY TypeByGroups DEF RunnerOK
<1> DEFINE Same(m) ==
      /\ m.active = mem.active /\ m.target = mem.target /\ m.pending = mem.pending
      /\ m.after = mem.after /\ m.want = mem.want /\ m.scan = mem.scan
<1>1. /\ Same(mem)
      /\ \A b : Same([mem EXCEPT !.other = b])
      /\ \A k : Same([mem EXCEPT !.next = k])
  BY <1>0 DEF Mems
<1> HIDE DEF Same
<1>2. /\ UNCHANGED <<owner, hot, cursor, known, nameCursor, notice, sync>>
      /\ \/ mem' = mem
         \/ \E b : mem' = [mem EXCEPT !.other = b]
         \/ \E k : mem' = [mem EXCEPT !.next = k]
  BY DEF Moves, FindPushed, FindTurn, Sleep, Woken, WaitForRetry, BeginTurn, DeferTurn,
         TurnFails, LoadRollups, SkipRollup, DeferRollup, RollupFails, ListPushed,
         ReadInstance, EndPass, PassFails, PassOver, EnterInstance, eventVars,
         rollupVars, nameVars, senderVars
<1>3. pc \notin {"startup", "adopt"} /\ pc' \notin {"startup", "adopt"}
  BY DEF Moves, FindPushed, FindTurn, Sleep, Woken, WaitForRetry, BeginTurn, DeferTurn,
         TurnFails, LoadRollups, SkipRollup, DeferRollup, RollupFails, ListPushed,
         ReadInstance, EndPass, PassFails, PassOver, EnterInstance, Goto, Writing
<1>4. Same(mem')
  BY <1>1, <1>2
<1> QED
  BY <1>2, <1>3, <1>4 DEF SameRollups, SameNames, Same

\* A page moves its checkpoint forward, to what the turn then remembers.
LEMMA WriteMovesOn ==
    ASSUME IInv, TurnKnows, WriteRollup
    PROVE  /\ \A t \in Rollups : cursor[Legacy][t] <= cursor'[Legacy][t]
           /\ turn.inst = Legacy => turn'.snap = cursor'[Legacy]
           /\ turn'.inst = turn.inst /\ turn'.target = turn.target
           /\ pc = "rollup" /\ pc' = "rollup" /\ mem' = mem
<1> USE DEF IInv
<1> DEFINE c == Current
           i == turn.inst
           s == turn.snap[c]
<1>1. turn.at \in 1..3 /\ pc = "rollup" /\ pc' = "rollup" /\ mem' = mem
  BY DEF WriteRollup, Writing, Types, SharedExact
<1>2. c \in Rollups /\ i \in Instances /\ s \in 0..MaxRows /\ turn \in Turns
  BY <1>1, TypeByGroups, TurnFields DEF RunnerOK, Current, Types, Rollups, Cursors
<1>3. PICK next \in Events :
         /\ IsLast(PageOf(c), next) /\ PageOf(c) # {} /\ Apply(c, PageOf(c), next)
         /\ turn' = [turn EXCEPT !.at = turn.at + 1,
                !.snap = [u \in Rollups |-> IF u = c THEN next ELSE turn.snap[u]]]
  BY DEF WriteRollup
<1>4. /\ cursor[i][c] = s
      /\ cursor' = [cursor EXCEPT ![i] =
            [u \in Rollups |-> IF u = c THEN next ELSE cursor[i][u]]]
  BY <1>3 DEF Apply
<1>5. PageExact(PageOf(c), i, s) /\ next \in PageOf(c)
  BY <1>1, <1>3, <1>4, PageOfIsExact DEF IsLast
<1>6. s < next
  BY <1>5 DEF PageExact
<1>7. cursor \in [Instances -> [Rollups -> 0..MaxRows]] /\ Legacy \in Instances
  BY DEF TypeOK, Cursors, Instances
<1>8. /\ turn'.snap = [u \in Rollups |-> IF u = c THEN next ELSE turn.snap[u]]
      /\ turn'.inst = turn.inst /\ turn'.target = turn.target
  BY <1>2, <1>3 DEF Turns
<1>9. next \in 0..MaxRows
  BY AggregationAssumption DEF Events
<1> HIDE DEF c, i, s
<1>10. \A j \in Instances, t \in Rollups :
          cursor'[j][t] = IF j = i /\ t = c THEN next ELSE cursor[j][t]
  BY <1>2, <1>4, <1>7
<1>11. \A t \in Rollups : cursor[Legacy][t] <= cursor'[Legacy][t]
  <2> SUFFICES ASSUME NEW t \in Rollups PROVE cursor[Legacy][t] <= cursor'[Legacy][t]
    OBVIOUS
  <2>1. cursor[Legacy][t] \in 0..MaxRows
    BY <1>7
  <2>2. CASE Legacy = i /\ t = c
    BY <1>2, <1>4, <1>6, <1>7, <1>9, <1>10, <2>2
  <2>3. CASE ~(Legacy = i /\ t = c)
    BY <1>7, <1>10, <2>1, <2>3
  <2> QED
    BY <2>2, <2>3
<1>12. turn.inst = Legacy => turn'.snap = cursor'[Legacy]
  <2> SUFFICES ASSUME turn.inst = Legacy PROVE turn'.snap = cursor'[Legacy]
    OBVIOUS
  <2>1. turn.snap = cursor[Legacy] /\ i = Legacy
    BY <1>1 DEF TurnKnows, i
  <2>2. cursor'[Legacy] = [u \in Rollups |-> IF u = c THEN next ELSE cursor[Legacy][u]]
    BY <1>4, <1>7, <2>1
  <2> QED
    BY <1>8, <2>1, <2>2
<1> QED
  BY <1>1, <1>8, <1>11, <1>12

\* No legacy event is forgotten by the rollups.
LEMMA RollupsStayDue ==
    ASSUME IInv, RollupsDue, TurnKnows, Next
    PROVE  RollupsDue'
<1> USE DEF IInv
<1>0. /\ mem \in Mems /\ MaxRows \in Nat /\ Len(owner) \in Nat /\ owner \in Seq(Instances)
      /\ \A t \in Rollups : cursor[Legacy][t] \in Nat
      /\ notice \in [stage : {"none", "committed", "noted"}, event : 0..MaxRows]
      /\ mem.pending \in 0..MaxRows /\ mem.target \in 0..MaxRows /\ turn.target \in 0..MaxRows
      /\ hot \subseteq 1..Len(owner)
  <2>1. /\ mem \in Mems /\ MaxRows \in Nat /\ Len(owner) \in Nat /\ owner \in Seq(Instances)
        /\ turn.target \in 0..MaxRows /\ hot \subseteq 1..Len(owner)
    BY AggregationAssumption, TypeByGroups, TurnFields DEF RunnerOK, EventsOK
  <2>2. \A t \in Rollups : cursor[Legacy][t] \in Nat
    BY DEF TypeOK, Cursors, Instances
  <2>3. notice \in [stage : {"none", "committed", "noted"}, event : 0..MaxRows]
    BY TypeByGroups DEF SendersOK
  <2> QED
    BY <2>1, <2>2, <2>3, MemFields
<1>1. CASE Elsewhere \/ Moves
  <2>1. /\ UNCHANGED <<owner, cursor, notice>>
        /\ mem'.active = mem.active /\ mem'.target = mem.target
        /\ mem'.pending = mem.pending
    BY <1>1, ElsewhereStays, MovesStay DEF SameRollups
  <2>2. UNCHANGED <<pc, turn>> \/ pc \notin {"startup", "adopt"}
    BY <1>1, ElsewhereStays, MovesStay
  <2> QED
    BY <2>1, <2>2 DEF RollupsDue, RollupDue, Committed
<1>2. ASSUME NEW i \in Instances, CommitEvent(i) PROVE RollupsDue'
  <2>1. /\ notice = Quiet /\ owner' = Append(owner, i)
        /\ notice' = [stage |-> "committed", event |-> Len(owner) + 1]
        /\ UNCHANGED <<cursor, mem, pc, turn>>
    BY <1>2 DEF CommitEvent, rollupVars, runnerVars
  <2>2. /\ Len(owner') = Len(owner) + 1
        /\ \A e \in 1..Len(owner) : owner'[e] = owner[e]
    BY <1>0, <2>1
  <2>3. ASSUME NEW e \in 1..Len(owner'), owner'[e] = Legacy PROVE RollupDue(e)'
    <3>1. CASE e = Len(owner) + 1
      BY <2>1, <3>1 DEF RollupDue, Committed
    <3>2. CASE e # Len(owner) + 1
      <4>1. e \in 1..Len(owner) /\ owner[e] = Legacy
        BY <1>0, <2>2, <2>3, <3>2
      <4> QED
        BY <2>1, <4>1 DEF RollupsDue, RollupDue, Committed, Quiet
    <3> QED
      BY <3>1, <3>2
  <2> QED
    BY <2>3 DEF RollupsDue
<1>3. CASE NotifyUsageEventsCommitted
  <2>1. /\ notice.stage = "committed" /\ mem' = Announced(mem, notice.event)
        /\ UNCHANGED <<owner, cursor, pc, turn>>
    BY <1>3 DEF NotifyUsageEventsCommitted, eventVars, rollupVars
  <2>2. /\ mem'.active = mem.active /\ mem'.target = mem.target
        /\ mem'.pending >= mem.pending
        /\ owner[notice.event] = Legacy => mem'.pending >= notice.event
    <3> DEFINE p == IF notice.event > mem.pending THEN notice.event ELSE mem.pending
    <3>1. p \in Nat /\ p >= mem.pending /\ p >= notice.event
      BY <1>0
    <3>2. CASE owner[notice.event] = Legacy
      <4>1. mem' = [mem EXCEPT !.pending = p, !.want = mem.want + 1]
        BY <2>1, <3>2 DEF Announced
      <4> HIDE DEF p
      <4> QED
        BY <1>0, <3>1, <4>1 DEF Mems
    <3>3. CASE owner[notice.event] # Legacy
      <4>1. mem' = [mem EXCEPT !.other = TRUE]
        BY <2>1, <3>3 DEF Announced
      <4> QED
        BY <1>0, <3>3, <4>1 DEF Mems
    <3> QED
      BY <3>2, <3>3
  <2>3. mem'.pending \in Nat
    BY TypeByGroups, TypeStep, MemFields, <1>0, <2>2 DEF RunnerOK
  <2> QED
    BY <1>0, <2>1, <2>2, <2>3 DEF RollupsDue, RollupDue, Committed
<1>4. CASE SignalUsage \/ AddIdentity \/ SignalIdentities \/ TimerFires
  <2>1. /\ UNCHANGED <<owner, cursor, mem, pc, turn>>
        /\ notice' = notice \/ notice.stage = "noted"
    BY <1>4 DEF SignalUsage, AddIdentity, SignalIdentities, TimerFires, eventVars,
                rollupVars, senderVars, runnerVars
  <2> QED
    BY <2>1 DEF RollupsDue, RollupDue, Committed
<1>5. CASE NotifyUsageIdentitiesChanged
  <2>1. /\ UNCHANGED <<owner, cursor, notice, pc, turn>>
        /\ mem' = [mem EXCEPT !.want = mem.want + 1]
    BY <1>5 DEF NotifyUsageIdentitiesChanged, eventVars, rollupVars
  <2>2. /\ mem'.active = mem.active /\ mem'.target = mem.target
        /\ mem'.pending = mem.pending
    BY <1>0, <2>1 DEF Mems
  <2> QED
    BY <2>1, <2>2 DEF RollupsDue, RollupDue, Committed
<1>6. CASE StartupTarget
  <2>1. PICK m \in 0..MaxRows :
           IsLast(Own(Legacy), m) /\ turn' = [turn EXCEPT !.target = m]
    BY <1>6 DEF StartupTarget
  <2>2. turn'.target = m /\ pc' = "adopt" /\ UNCHANGED <<owner, hot, cursor>>
    BY <1>6, <2>1, TypeByGroups DEF StartupTarget, Goto, RunnerOK, Turns, eventVars, rollupVars
  <2>3. ASSUME NEW e \in 1..Len(owner), owner[e] = Legacy PROVE RollupDue(e)'
    <3>1. CASE e \in hot
      <4>1. e <= m
        BY <2>1, <2>3, <3>1 DEF IsLast, Own
      <4> QED
        BY <2>2, <4>1 DEF RollupDue
    <3>2. CASE e \notin hot
      BY <2>2, <2>3, <3>2 DEF RollupDue, TableInv, ArchivedPassed
    <3> QED
      BY <3>1, <3>2
  <2> QED
    BY <2>2, <2>3 DEF RollupsDue
<1>7. CASE Adopt
  <2>1. /\ pc = "adopt" /\ UNCHANGED <<owner, cursor, notice>>
        /\ mem' = Adopted(mem, turn.target) /\ ~mem.active
    BY <1>7 DEF Adopt, TurnKnows, eventVars, rollupVars, senderVars
  <2>2. /\ mem'.active /\ mem'.target = turn.target
        /\ mem'.pending = IF mem.pending <= turn.target THEN 0 ELSE mem.pending
    BY <1>0, <2>1 DEF Adopted, Mems
  <2> QED
    BY <1>0, <2>1, <2>2 DEF RollupsDue, RollupDue, Committed
<1>8. CASE Freeze
  <2>1. /\ pc \notin {"startup", "adopt"} /\ UNCHANGED <<owner, cursor, notice>>
        /\ mem' = Frozen(mem)
    BY <1>8 DEF Freeze, eventVars, rollupVars, senderVars
  <2>2. \/ mem' = mem
        \/ /\ mem.active /\ mem.pending <= mem.target
           /\ mem'.active /\ mem'.target = mem.target /\ mem'.pending = 0
        \/ /\ ~(mem.active /\ mem.pending <= mem.target)
           /\ mem'.active /\ mem'.target = mem.pending /\ mem'.pending = 0
    BY <1>0, <2>1 DEF Frozen, Mems
  <2> QED
    BY <1>0, <2>1, <2>2 DEF RollupsDue, RollupDue, Committed
<1>9. CASE WriteRollup
  <2>1. /\ \A t \in Rollups : cursor[Legacy][t] <= cursor'[Legacy][t]
        /\ UNCHANGED <<owner, notice, mem>> /\ pc = "rollup"
    BY <1>9, WriteMovesOn DEF WriteRollup, eventVars, senderVars
  <2>2. \A t \in Rollups : cursor'[Legacy][t] \in Nat
    <3>1. TypeOK'
      BY TypeStep
    <3> QED
      BY <3>1 DEF TypeOK, Cursors, Instances
  <2> QED
    BY <1>0, <2>1, <2>2 DEF RollupsDue, RollupDue, Committed
<1>10. CASE FinishRollups
  <2>1. /\ pc = "rollup" /\ turn.inst = Legacy /\ UNCHANGED <<owner, cursor, notice>>
        /\ mem' = IF ~turn.err /\ ReachedTarget THEN Completed(Turned(mem)) ELSE Turned(mem)
    BY <1>10 DEF FinishRollups, eventVars, rollupVars, senderVars
  <2>2. turn.target = mem.target /\ turn.snap = cursor[Legacy]
    BY <2>1 DEF TurnKnows
  <2>3. /\ Turned(mem) \in Mems
        /\ Turned(mem).active = mem.active /\ Turned(mem).target = mem.target
        /\ Turned(mem).pending = mem.pending
    BY <1>0 DEF Turned, Mems
  <2>4. CASE ~(~turn.err /\ ReachedTarget)
    BY <2>1, <2>3, <2>4 DEF RollupsDue, RollupDue, Committed
  <2>5. CASE ~turn.err /\ ReachedTarget
    <3>1. \A t \in Rollups : cursor[Legacy][t] >= mem.target
      BY <2>2, <2>5 DEF ReachedTarget
    <3>2. mem'.pending = IF mem.pending <= mem.target THEN 0 ELSE mem.pending
      BY <2>1, <2>3, <2>5 DEF Completed, Mems
    <3> QED
      BY <1>0, <2>1, <3>1, <3>2 DEF RollupsDue, RollupDue, Committed
  <2> QED
    BY <2>4, <2>5
<1>11. CASE IdentityTurn \/ InstanceNames
  <2>1. /\ UNCHANGED <<owner, cursor, notice>> /\ pc \notin {"startup", "adopt"}
        /\ \/ mem' = mem
           \/ \E page, gen, last : mem' = Scanned(mem, page, gen, last)
    BY <1>11 DEF IdentityTurn, InstanceNames, eventVars, rollupVars, senderVars
  <2>2. /\ mem'.active = mem.active /\ mem'.target = mem.target
        /\ mem'.pending = mem.pending
    BY <1>0, <2>1 DEF Scanned, Mems
  <2> QED
    BY <2>1, <2>2 DEF RollupsDue, RollupDue, Committed
<1>12. CASE Restart
  BY <1>12 DEF Restart, Goto, RollupsDue, RollupDue
<1> QED
  BY <1>1, <1>2, <1>3, <1>4, <1>5, <1>6, <1>7, <1>8, <1>9, <1>10, <1>11, <1>12
     DEF Next, Processor, MetadataSync, Runner, LegacyTurn, PushedPass, Elsewhere, Moves

-----------------------------------------------------------------------------
(* What an identity turn leaves due.                                        *)

LEMMA Least ==
    ASSUME NEW T \in SUBSET Nat, T # {}
    PROVE  \E x \in T : \A y \in T : x <= y
<1> DEFINE R == OpToRel(<, Nat)
<1>1. IsWellFoundedOn(R, Nat)
  BY NatLessThanWellFounded
<1>2. \A x, y \in Nat : x < y => <<x, y>> \in R
  BY DEF OpToRel
<1> HIDE DEF R
<1>3. PICK x \in T : \A y \in T : ~(<<y, x>> \in R)
  BY <1>1, WFMin
<1>4. ASSUME NEW y \in T PROVE x <= y
  <2>1. x \in Nat /\ y \in Nat
    OBVIOUS
  <2>2. ~(y < x)
    BY <1>2, <1>3, <2>1
  <2> QED
    BY <2>1, <2>2
<1> QED
  BY <1>4

\* A page that leaves something out is full, and what it leaves out is beyond it.
LEMMA FirstOfIsFull ==
    ASSUME NEW m \in Nat, NEW S \in SUBSET (1..m), NEW n \in Nat,
           NEW x \in S, x \notin FirstOf(S, n)
    PROVE  /\ Cardinality(FirstOf(S, n)) >= n
           /\ \A y \in FirstOf(S, n) : y < x
<1> DEFINE F == FirstOf(S, n)
<1>1. F \subseteq S /\ S \subseteq Nat
  BY FirstOfIsSubset
<1>2. ASSUME NEW y \in F PROVE y < x
  <2>1. x \in Nat /\ y \in Nat
    BY <1>1
  <2>2. ~(x <= y)
    BY FirstOfIsDense
  <2> QED
    BY <2>1, <2>2
<1>3. PICK z \in S \ F : \A y \in S \ F : z <= y
  BY <1>1, Least
<1> DEFINE B == {f \in S : f <= z}
<1>4. IsFiniteSet(1..m)
  BY FS_Interval
<1>5. IsFiniteSet(S) /\ IsFiniteSet(F) /\ IsFiniteSet(B)
  <2>1. IsFiniteSet(S)
    BY <1>4, FS_Subset
  <2> QED
    BY <1>1, <2>1, FS_Subset
<1>6. ~(Cardinality(B) <= n)
  BY <1>3 DEF FirstOf
<1>7. B \subseteq F \cup {z}
  <2> SUFFICES ASSUME NEW f \in S, f <= z, f \notin F PROVE f = z
    OBVIOUS
  <2>1. z <= f /\ f \in Nat /\ z \in Nat
    BY <1>1, <1>3
  <2> QED
    BY <2>1
<1> HIDE DEF F, B
<1>8. IsFiniteSet(F \cup {z}) /\ Cardinality(F \cup {z}) = Cardinality(F) + 1
  BY <1>3, <1>5, FS_AddElement
<1>9. Cardinality(B) <= Cardinality(F) + 1
  BY <1>7, <1>8, FS_Subset
<1>10. Cardinality(B) \in Nat /\ Cardinality(F) \in Nat
  BY <1>5, FS_CardinalityType
<1>11. Cardinality(F) >= n
  BY <1>6, <1>9, <1>10
<1> QED
  BY <1>2, <1>11 DEF F

\* A page of identities reaches the end, or leaves out only what is beyond it.
LEMMA PageOfNames ==
    ASSUME TypeOK, NEW i, NEW after \in Nat, NEW last \in Nat,
           IsLast(NamesOf(i, after), last),
           NEW x \in 1..known, Home[x] = i, after < x, x \notin NamesOf(i, after)
    PROVE  ~ReachedEnd(NamesOf(i, after)) /\ last # 0 /\ last < x
<1> DEFINE S == {y \in 1..known : Home[y] = i /\ y > after}
<1>1. known \in Nat /\ NamePage \in Nat /\ NamePage >= 1
  BY AggregationAssumption DEF TypeOK
<1>2. NamesOf(i, after) = FirstOf(S, NamePage) /\ x \in S /\ S \subseteq 1..known
  BY <1>1 DEF NamesOf
<1> HIDE DEF S
<1>3. /\ Cardinality(NamesOf(i, after)) >= NamePage
      /\ \A y \in NamesOf(i, after) : y < x
  BY <1>1, <1>2, FirstOfIsFull
<1>4. NamesOf(i, after) # {}
  BY <1>1, <1>3, FS_EmptySet
<1>5. last \in NamesOf(i, after) /\ NamesOf(i, after) \subseteq 1..known
  BY <1>2, <1>4, FirstOfIsSubset DEF IsLast
<1>6. IsFiniteSet(NamesOf(i, after))
  <2>1. IsFiniteSet(1..known)
    BY <1>1, FS_Interval
  <2> QED
    BY <1>5, <2>1, FS_Subset
<1>7. Cardinality(NamesOf(i, after)) \in Nat
  BY <1>6, FS_CardinalityType
<1> QED
  BY <1>1, <1>3, <1>5, <1>7 DEF ReachedEnd

\* Nothing of an identity that was in the page is left uncounted, and the
\* other identities are as they were.
LEMMA CountNamesLeaves ==
    ASSUME TypeOK, NEW page, page \subseteq Names, CountNames(page),
           UNCHANGED <<owner, hot, known>>, NEW e \in Own(Legacy), Uncounted(e)'
    PROVE  Uncounted(e) /\ Author[e] \notin page
<1> DEFINE x == Author[e]
<1>1. PICK moved \in [page -> Events \cup {0}] :
          /\ \A y \in page : IsLast(Delta(y), moved[y])
          /\ nameCursor' = [y \in Names |->
                 IF y \in page /\ Delta(y) # {} THEN moved[y] ELSE nameCursor[y]]
  BY DEF CountNames
<1>2. x \in 1..known /\ Home[x] = owner[e] /\ nameCursor'[x] < e /\ owner[e] = Legacy
  BY DEF Uncounted, Own
<1>3. known \in 0..MaxIdentities /\ MaxIdentities \in Nat
  BY AggregationAssumption DEF TypeOK
<1>4. x \in Names
  BY <1>2, <1>3 DEF Names
<1>5. /\ e \in Nat /\ nameCursor[x] \in Nat /\ e \in hot
      /\ \A y \in page : moved[y] \in Nat
  <2>1. e \in hot /\ hot \subseteq 1..Len(owner) /\ Len(owner) \in Nat
    BY TypeByGroups DEF Own, EventsOK
  <2>2. nameCursor[x] \in Nat
    BY <1>4 DEF TypeOK
  <2>3. Events \cup {0} \subseteq Nat
    BY DEF Events
  <2> QED
    BY <2>1, <2>2, <2>3
<1>6. CASE x \in page /\ Delta(x) # {}
  <2>1. nameCursor'[x] = moved[x] /\ IsLast(Delta(x), moved[x])
    BY <1>1, <1>4, <1>6
  <2>2. moved[x] \in Delta(x) /\ \A f \in Delta(x) : f <= moved[x]
    BY <1>6, <2>1 DEF IsLast
  <2>3. moved[x] > nameCursor[x]
    BY <2>2 DEF Delta
  <2>4. e \in Delta(x)
    BY <1>2, <1>5, <1>6, <2>1, <2>3 DEF Delta, Own
  <2>5. e <= moved[x]
    BY <2>2, <2>4
  <2> QED
    BY <1>2, <1>5, <1>6, <2>1, <2>5
<1>7. CASE ~(x \in page /\ Delta(x) # {})
  <2>1. nameCursor'[x] = nameCursor[x]
    BY <1>1, <1>4, <1>7
  <2>2. e \in Delta(x)
    BY <1>2, <1>5, <2>1 DEF Delta, Own
  <2> QED
    BY <1>2, <1>7, <2>1, <2>2 DEF Uncounted
<1> QED
  BY <1>6, <1>7

\* No identity is left with an event that nobody will come back for.
LEMMA NamesStayDue ==
    ASSUME IInv, NamesDue, TurnKnows, Next
    PROVE  NamesDue'
<1> USE DEF IInv
<1>0. /\ mem \in Mems /\ Len(owner) \in Nat /\ owner \in Seq(Instances)
      /\ mem.after \in Nat /\ mem.want \in Nat /\ mem.scan \in Nat
      /\ turn.after \in Nat /\ turn.gen \in Nat
      /\ hot \subseteq 1..Len(owner)
  BY AggregationAssumption, TypeByGroups, TurnFields, MemFields DEF RunnerOK, EventsOK
<1>1. ASSUME SameNames,
             \/ sync' = sync
             \/ sync # "stored"
             \/ sync' = "stored",
             notice' = notice \/ notice.stage # "committed"
      PROVE  NamesDue'
  <2> SUFFICES ASSUME NEW e \in Own(Legacy)', Uncounted(e)' PROVE NameDue(e)'
    BY DEF NamesDue
  <2>1. e \in Own(Legacy) /\ Uncounted(e)
    BY <1>1 DEF SameNames, Own, Uncounted
  <2> QED
    BY <1>1, <2>1 DEF NamesDue, NameDue, SameNames, Committed
<1>2. CASE Elsewhere \/ Moves
  BY <1>1, <1>2, ElsewhereStays, MovesStay
<1>3. ASSUME NEW i \in Instances, CommitEvent(i) PROVE NamesDue'
  <2>1. /\ notice = Quiet /\ owner' = Append(owner, i) /\ hot' = hot \cup {Len(owner) + 1}
        /\ notice' = [stage |-> "committed", event |-> Len(owner) + 1]
        /\ UNCHANGED <<known, nameCursor, sync, mem>>
    BY <1>3 DEF CommitEvent, nameVars, runnerVars
  <2>2. \A e \in 1..Len(owner) : owner'[e] = owner[e]
    BY <1>0, <2>1
  <2>3. ASSUME NEW e \in Own(Legacy)', Uncounted(e)' PROVE NameDue(e)'
    <3>1. CASE e = Len(owner) + 1
      BY <2>1, <3>1 DEF NameDue, Committed
    <3>2. CASE e # Len(owner) + 1
      <4>1. e \in hot /\ owner'[e] = owner[e]
        BY <1>0, <2>1, <2>2, <2>3, <3>2 DEF Own
      <4>2. e \in Own(Legacy) /\ Uncounted(e)
        BY <2>1, <2>3, <4>1 DEF Own, Uncounted
      <4> QED
        BY <2>1, <4>2 DEF NamesDue, NameDue, Committed, Quiet
    <3> QED
      BY <3>1, <3>2
  <2> QED
    BY <2>3 DEF NamesDue
<1>4. ASSUME mem'.want > mem'.scan PROVE NamesDue'
  BY <1>4 DEF NamesDue, NameDue
<1>5. CASE NotifyUsageEventsCommitted
  <2>1. /\ notice.stage = "committed" /\ mem' = Announced(mem, notice.event)
        /\ UNCHANGED <<owner, hot, known, nameCursor, sync>>
    BY <1>5 DEF NotifyUsageEventsCommitted, eventVars, nameVars
  <2>2. CASE owner[notice.event] = Legacy
    <3>1. mem'.want = mem.want + 1 /\ mem'.scan = mem.scan
      BY <1>0, <2>1, <2>2 DEF Announced, Mems
    <3> QED
      BY <1>0, <1>4, <3>1 DEF TurnKnows
  <2>3. CASE owner[notice.event] # Legacy
    <3>1. mem'.want = mem.want /\ mem'.scan = mem.scan /\ mem'.after = mem.after
      BY <1>0, <2>1, <2>3 DEF Announced, Mems
    <3> QED
      BY <2>1, <2>3, <3>1 DEF NamesDue, NameDue, Committed, Own, Uncounted
  <2> QED
    BY <2>2, <2>3
<1>6. CASE SignalUsage
  <2>1. SameNames /\ sync' = sync /\ notice.stage # "committed"
    BY <1>6 DEF SignalUsage, SameNames, eventVars, nameVars
  <2> QED
    BY <1>1, <2>1
<1>7. CASE AddIdentity
  <2>1. /\ known' = known + 1 /\ sync = "none"
        /\ sync' = IF Home[known + 1] = Legacy THEN "stored" ELSE "none"
        /\ UNCHANGED <<owner, hot, nameCursor, notice, mem>>
    BY <1>7 DEF AddIdentity, eventVars, runnerVars
  <2>2. known \in Nat
    BY AggregationAssumption DEF TypeOK
  <2>3. CASE Home[known + 1] = Legacy
    BY <2>1, <2>3 DEF NamesDue, NameDue
  <2>4. CASE Home[known + 1] # Legacy
    <3> SUFFICES ASSUME NEW e \in Own(Legacy)', Uncounted(e)' PROVE NameDue(e)'
      BY DEF NamesDue
    <3>1. e \in Own(Legacy) /\ owner[e] = Legacy
      BY <2>1 DEF Own
    <3>2. Author[e] \in 1..(known + 1) /\ Home[Author[e]] = Legacy /\ nameCursor[Author[e]] < e
      BY <2>1, <3>1 DEF Uncounted
    <3>3. Author[e] \in 1..known
      BY <2>2, <2>4, <3>2
    <3>4. Uncounted(e)
      BY <3>1, <3>2, <3>3 DEF Uncounted
    <3> QED
      BY <2>1, <3>1, <3>4 DEF NamesDue, NameDue, Committed
  <2> QED
    BY <2>3, <2>4
<1>8. CASE NotifyUsageIdentitiesChanged
  <2>1. mem' = [mem EXCEPT !.want = mem.want + 1]
    BY <1>8 DEF NotifyUsageIdentitiesChanged
  <2>2. mem'.want = mem.want + 1 /\ mem'.scan = mem.scan
    BY <1>0, <2>1 DEF Mems
  <2> QED
    BY <1>0, <1>4, <2>2 DEF TurnKnows
<1>9. CASE SignalIdentities
  <2>1. SameNames /\ sync # "stored" /\ notice' = notice
    BY <1>9 DEF SignalIdentities, SameNames, eventVars, nameVars
  <2> QED
    BY <1>1, <2>1
<1>10. CASE TimerFires \/ StartupTarget \/ WriteRollup
  <2>1. SameNames /\ sync' = sync /\ notice' = notice
    BY <1>10 DEF TimerFires, StartupTarget, WriteRollup, SameNames, eventVars, nameVars,
                 senderVars
  <2> QED
    BY <1>1, <2>1
<1>11. CASE Adopt \/ Freeze \/ FinishRollups
  <2>1. UNCHANGED <<owner, hot, known, nameCursor, sync, notice>>
    BY <1>11 DEF Adopt, Freeze, FinishRollups, eventVars, nameVars, senderVars
  <2>2. ASSUME NEW m \in Mems
        PROVE  /\ \A target : LET n == Adopted(m, target)
                              IN  n.after = m.after /\ n.want = m.want /\ n.scan = m.scan
               /\ Frozen(m).after = m.after /\ Frozen(m).want = m.want
               /\ Frozen(m).scan = m.scan
               /\ Turned(m).after = m.after /\ Turned(m).want = m.want
               /\ Turned(m).scan = m.scan /\ Turned(m) \in Mems
               /\ Completed(m).after = m.after /\ Completed(m).want = m.want
               /\ Completed(m).scan = m.scan
    BY DEF Adopted, Frozen, Turned, Completed, Mems
  <2>3. \/ \E target : mem' = Adopted(mem, target)
        \/ mem' = Frozen(mem) \/ mem' = Turned(mem) \/ mem' = Completed(Turned(mem))
    BY <1>11 DEF Adopt, Freeze, FinishRollups
  <2>4. mem'.after = mem.after /\ mem'.want = mem.want /\ mem'.scan = mem.scan
    BY <1>0, <2>2, <2>3
  <2>5. SameNames
    BY <2>1, <2>4 DEF SameNames
  <2> QED
    BY <1>1, <2>1, <2>5
<1>12. CASE IdentityTurn
  <2> DEFINE page == NamesOf(Legacy, turn.after)
  <2>1. PICK last \in 0..MaxIdentities :
           IsLast(page, last) /\ mem' = Scanned(mem, page, turn.gen, last)
    BY <1>12 DEF IdentityTurn
  <2>2. /\ CountNames(page) /\ pc = "work" /\ turn.kind = "identity"
        /\ UNCHANGED <<owner, hot, known, sync, notice>>
    BY <1>12 DEF IdentityTurn, eventVars, senderVars
  <2>3. page \subseteq Names
    BY NamesOfAreNames
  <2>4. /\ mem'.after = IF ReachedEnd(page) THEN 0 ELSE last
        /\ mem'.scan = turn.gen /\ mem'.want = mem.want
    BY <1>0, <2>1 DEF Scanned, Mems
  <2>5. /\ turn.after = mem.after /\ turn.gen <= mem.want
        /\ mem.after # 0 => turn.gen = mem.scan
    BY <2>2 DEF TurnKnows
  <2>6. last \in Nat
    BY AggregationAssumption
  <2> SUFFICES ASSUME NEW e \in Own(Legacy)', Uncounted(e)' PROVE NameDue(e)'
    BY DEF NamesDue
  <2>7. e \in Own(Legacy) /\ owner[e] = Legacy
    BY <2>2 DEF Own
  <2>8. Uncounted(e) /\ Author[e] \notin page
    BY <2>2, <2>3, <2>7, CountNamesLeaves
  <2>9. Author[e] \in 1..known /\ Home[Author[e]] = Legacy
    BY <2>7, <2>8 DEF Uncounted
  <2>10. known \in Nat
    BY AggregationAssumption DEF TypeOK
  <2>11. CASE Author[e] > turn.after
    <3>1. ~ReachedEnd(page) /\ last # 0 /\ last < Author[e]
      BY <1>0, <2>1, <2>6, <2>8, <2>9, <2>11, PageOfNames
    <3> QED
      BY <2>4, <3>1 DEF NameDue
  <2>12. CASE ~(Author[e] > turn.after)
    <3>1. mem.after # 0 /\ ~(mem.after < Author[e])
      BY <1>0, <2>5, <2>9, <2>10, <2>12
    <3>2. Committed(e) \/ sync = "stored" \/ mem.scan < mem.want
      BY <2>7, <2>8, <3>1 DEF NamesDue, NameDue
    <3> QED
      BY <2>2, <2>4, <2>5, <3>1, <3>2 DEF NameDue, Committed
  <2> QED
    BY <2>11, <2>12
<1>13. CASE InstanceNames
  <2> DEFINE page == NamesOf(turn.inst, turn.after)
  <2>1. /\ CountNames(page) /\ pc = "names"
        /\ UNCHANGED <<owner, hot, known, sync, notice, mem>>
    BY <1>13 DEF InstanceNames, eventVars, senderVars
  <2>2. page \subseteq Names
    BY NamesOfAreNames
  <2> SUFFICES ASSUME NEW e \in Own(Legacy)', Uncounted(e)' PROVE NameDue(e)'
    BY DEF NamesDue
  <2>3. e \in Own(Legacy)
    BY <2>1 DEF Own
  <2>4. Uncounted(e)
    BY <2>1, <2>2, <2>3, CountNamesLeaves
  <2> QED
    BY <2>1, <2>3, <2>4 DEF NamesDue, NameDue, Committed
<1>14. CASE Restart
  <2>1. mem'.want > mem'.scan
    BY <1>14 DEF Restart, NewMem
  <2> QED
    BY <1>4, <2>1
<1> QED
  BY <1>2, <1>3, <1>5, <1>6, <1>7, <1>8, <1>9, <1>10, <1>11, <1>12, <1>13, <1>14
     DEF Next, Processor, MetadataSync, Runner, LegacyTurn, PushedPass, Elsewhere, Moves

\* What a turn captured is not touched while it goes on.
LEMMA TurnStaysKnown ==
    ASSUME IInv, TurnKnows, Next
    PROVE  TurnKnows'
<1> USE DEF IInv
<1>0. /\ mem \in Mems /\ turn \in Turns
      /\ mem.want \in Nat /\ mem.scan \in Nat /\ turn.gen \in Nat
      /\ mem.target \in 0..MaxRows /\ Legacy \notin Pushed /\ Legacy \in Instances
  BY AggregationAssumption, TypeByGroups, TurnFields, MemFields DEF RunnerOK, Instances
<1> USE DEF Goto
<1>1. ASSUME mem'.active = mem.active, mem'.target = mem.target, mem'.after = mem.after,
             mem'.scan = mem.scan, mem'.want \in Nat, mem'.want >= mem.want,
             UNCHANGED <<pc, turn, cursor>>
      PROVE  TurnKnows'
  <2>1. mem'.scan <= mem'.want
    BY <1>0, <1>1 DEF TurnKnows
  <2>2. turn.gen <= mem.want => turn.gen <= mem'.want
    BY <1>0, <1>1
  <2> QED
    BY <1>1, <2>1, <2>2 DEF TurnKnows
<1>2. CASE Elsewhere
  BY <1>0, <1>1, <1>2, ElsewhereStays DEF SameRollups
<1>3. CASE \/ \E i \in Instances : CommitEvent(i)
           \/ SignalUsage \/ AddIdentity \/ SignalIdentities \/ TimerFires
  <2>1. UNCHANGED <<mem, pc, turn, cursor>>
    BY <1>3 DEF CommitEvent, SignalUsage, AddIdentity, SignalIdentities, TimerFires,
                rollupVars, runnerVars
  <2> QED
    BY <1>0, <1>1, <2>1
<1>4. CASE NotifyUsageEventsCommitted \/ NotifyUsageIdentitiesChanged
  <2>1. /\ UNCHANGED <<pc, turn, cursor>>
        /\ \/ mem' = Announced(mem, notice.event)
           \/ mem' = [mem EXCEPT !.want = mem.want + 1]
    BY <1>4 DEF NotifyUsageEventsCommitted, NotifyUsageIdentitiesChanged, rollupVars
  <2>2. /\ mem'.active = mem.active /\ mem'.target = mem.target /\ mem'.after = mem.after
        /\ mem'.scan = mem.scan /\ (mem'.want = mem.want \/ mem'.want = mem.want + 1)
    <3>1. CASE mem' = [mem EXCEPT !.want = mem.want + 1]
      BY <1>0, <3>1 DEF Mems
    <3>2. CASE mem' = Announced(mem, notice.event)
      <4> DEFINE p == IF notice.event > mem.pending THEN notice.event ELSE mem.pending
      <4>1. \/ mem' = [mem EXCEPT !.pending = p, !.want = mem.want + 1]
            \/ mem' = [mem EXCEPT !.other = TRUE]
        BY <3>2 DEF Announced
      <4> HIDE DEF p
      <4> QED
        BY <1>0, <4>1 DEF Mems
    <3> QED
      BY <2>1, <3>1, <3>2
  <2> QED
    BY <1>0, <1>1, <2>1, <2>2
<1>5. ASSUME pc' \notin {"startup", "adopt", "read", "names", "work", "rollup"},
             mem'.scan <= mem'.want
      PROVE  TurnKnows'
  BY <1>5 DEF TurnKnows
<1>6. ASSUME Moves PROVE mem'.scan <= mem'.want
  BY <1>6, MovesStay DEF SameNames, TurnKnows
<1>7. CASE \/ FindPushed \/ FindTurn \/ Sleep \/ Woken \/ WaitForRetry
           \/ DeferTurn \/ TurnFails \/ DeferRollup \/ ListPushed \/ EndPass \/ PassFails
  <2>1. pc' \notin {"startup", "adopt", "read", "names", "work", "rollup"}
    BY <1>7 DEF FindPushed, FindTurn, Sleep, Woken, WaitForRetry, DeferTurn, TurnFails,
                DeferRollup, ListPushed, EndPass, PassFails
  <2> QED
    BY <1>5, <1>6, <1>7, <2>1 DEF Moves
<1>8. CASE StartupTarget
  <2>1. pc' = "adopt" /\ mem' = mem /\ pc = "startup"
    BY <1>8 DEF StartupTarget
  <2> QED
    BY <2>1 DEF TurnKnows
<1>9. CASE Adopt \/ Freeze \/ FinishRollups
  <2>1. pc' \in {"loop", "retry"}
    BY <1>9 DEF Adopt, Freeze, FinishRollups
  <2>2. ASSUME NEW m \in Mems
        PROVE  /\ \A target : LET n == Adopted(m, target)
                              IN  n.want = m.want /\ n.scan = m.scan
               /\ Frozen(m).want = m.want /\ Frozen(m).scan = m.scan
               /\ Turned(m).want = m.want /\ Turned(m).scan = m.scan /\ Turned(m) \in Mems
               /\ Completed(m).want = m.want /\ Completed(m).scan = m.scan
    BY DEF Adopted, Frozen, Turned, Completed, Mems
  <2>3. \/ \E target : mem' = Adopted(mem, target)
        \/ mem' = Frozen(mem) \/ mem' = Turned(mem) \/ mem' = Completed(Turned(mem))
    BY <1>9 DEF Adopt, Freeze, FinishRollups
  <2>4. mem'.want = mem.want /\ mem'.scan = mem.scan
    BY <1>0, <2>2, <2>3
  <2> QED
    BY <1>5, <2>1, <2>4 DEF TurnKnows
<1>10. CASE BeginTurn
  <2>1. /\ pc' = "work" /\ mem' = mem
        /\ turn' = [turn EXCEPT !.kind = NextKind(mem), !.target = mem.target,
                                !.after = mem.after,
                                !.gen = IF mem.after = 0 THEN mem.want ELSE mem.scan]
    BY <1>10 DEF BeginTurn
  <2>2. /\ turn'.target = mem.target /\ turn'.after = mem.after
        /\ turn'.gen = IF mem.after = 0 THEN mem.want ELSE mem.scan
    BY <1>0, <2>1 DEF Turns
  <2> QED
    BY <1>0, <2>1, <2>2 DEF TurnKnows
<1>11. ASSUME NEW i \in Instances, NEW v \in 0..MaxRows
       PROVE  /\ Loaded(i, v).inst = i /\ Loaded(i, v).target = v
              /\ Loaded(i, v).snap = cursor[i]
  BY <1>0 DEF Loaded, Turns
<1>12. CASE LoadRollups
  <2>1. /\ pc' = "rollup" /\ pc = "work" /\ turn.kind = "rollups" /\ mem' = mem
        /\ cursor' = cursor /\ turn' = Loaded(Legacy, turn.target)
    BY <1>12 DEF LoadRollups, rollupVars
  <2>2. turn.target = mem.target
    BY <2>1 DEF TurnKnows
  <2>3. turn'.target = mem.target /\ turn'.snap = cursor[Legacy]
    BY <1>0, <1>11, <2>1, <2>2
  <2> QED
    BY <2>1, <2>3 DEF TurnKnows
<1>13. CASE SkipRollup \/ RollupFails
  <2>1. /\ pc = "rollup" /\ pc' = "rollup" /\ mem' = mem /\ cursor' = cursor
        /\ \/ turn' = [turn EXCEPT !.at = turn.at + 1]
           \/ turn' = [turn EXCEPT !.at = turn.at + 1, !.err = TRUE]
    BY <1>13 DEF SkipRollup, RollupFails, Writing, rollupVars
  <2>2. turn'.inst = turn.inst /\ turn'.target = turn.target /\ turn'.snap = turn.snap
    BY <1>0, <2>1 DEF Turns
  <2> QED
    BY <2>1, <2>2 DEF TurnKnows
<1>14. CASE WriteRollup
  BY <1>14, WriteMovesOn DEF TurnKnows
<1>15. CASE IdentityTurn
  <2>1. PICK last : mem' = Scanned(mem, NamesOf(Legacy, turn.after), turn.gen, last)
    BY <1>15 DEF IdentityTurn
  <2>2. mem'.scan = turn.gen /\ mem'.want = mem.want
    BY <1>0, <2>1 DEF Scanned, Mems
  <2>3. pc = "work" /\ turn.kind = "identity" /\ pc' = "loop"
    BY <1>15 DEF IdentityTurn
  <2> QED
    BY <1>5, <2>2, <2>3 DEF TurnKnows
<1>16. ASSUME NEW i \in Pushed, PassOver(i) PROVE TurnKnows'
  <2>1. pc' = "pass" /\ mem' = mem
    BY <1>16 DEF PassOver
  <2> QED
    BY <1>5, <2>1 DEF TurnKnows
<1>17. ASSUME NEW i \in Pushed, EnterInstance(i) PROVE TurnKnows'
  <2>1. pc' = "read" /\ mem' = mem /\ turn'.inst = i
    BY <1>0, <1>17 DEF EnterInstance, Turns
  <2> QED
    BY <2>1 DEF TurnKnows
<1>18. CASE ReadInstance
  <2>1. turn.inst \in Pushed /\ turn.inst \in Instances
    BY <1>0, <1>18, TurnFields DEF ReadInstance, TurnKnows, Instances, Turns
  <2>2. PICK m \in 0..MaxRows :
           /\ turn' = Loaded(turn.inst, m) \/ turn' = [turn EXCEPT !.after = 0]
           /\ pc' \in {"names", "rollup"}
    BY <1>18 DEF ReadInstance
  <2>3. turn'.inst = turn.inst /\ mem' = mem
    BY <1>0, <1>11, <1>18, <2>1, <2>2 DEF Turns, ReadInstance
  <2> QED
    BY <1>0, <2>1, <2>2, <2>3 DEF TurnKnows
<1>19. CASE InstanceNames
  <2>1. /\ mem' = mem /\ pc = "names" /\ pc' \in {"pass", "names"}
        /\ pc' = "names" => \E last : turn' = [turn EXCEPT !.after = last]
    BY <1>19 DEF InstanceNames
  <2>2. pc' = "names" => turn'.inst = turn.inst
    BY <1>0, <2>1 DEF Turns
  <2> QED
    BY <2>1, <2>2 DEF TurnKnows
<1>20. CASE Restart
  BY <1>20 DEF Restart, NewMem, TurnKnows
<1> QED
  BY <1>2, <1>3, <1>4, <1>7, <1>8, <1>9, <1>10, <1>12, <1>13, <1>14, <1>15, <1>16, <1>17,
     <1>18, <1>19, <1>20
     DEF Next, Processor, MetadataSync, Runner, LegacyTurn, PushedPass, Elsewhere

\* What comes while the runner sleeps is followed by its signal.
LEMMA SleepStaysRight ==
    ASSUME IInv, SleepsRight, Next
    PROVE  SleepsRight'
<1> USE DEF IInv
<1>0. /\ mem \in Mems /\ mem.pending \in Nat /\ mem.want \in Nat /\ mem.scan \in Nat
      /\ mem.after \in Nat
  BY AggregationAssumption, TypeByGroups, MemFields DEF RunnerOK
<1> USE DEF Goto
<1>1. CASE \/ Elsewhere
           \/ \E i \in Instances : CommitEvent(i)
           \/ AddIdentity \/ TimerFires
  <2>1. /\ UNCHANGED <<mem, wake, pc>>
        /\ timer # "off" => timer' # "off"
        /\ notice.stage = "noted" => notice'.stage = "noted"
        /\ sync = "noted" => sync' = "noted"
    BY <1>1, ElsewhereStays DEF CommitEvent, AddIdentity, TimerFires, Quiet, runnerVars,
       senderVars
  <2> QED
    BY <2>1 DEF SleepsRight
<1>2. CASE NotifyUsageEventsCommitted
  <2>1. /\ notice' = [notice EXCEPT !.stage = "noted"] /\ UNCHANGED <<wake, pc>>
        /\ mem' = Announced(mem, notice.event)
    BY <1>2 DEF NotifyUsageEventsCommitted
  <2>2. notice'.stage = "noted"
    BY <2>1, TypeByGroups DEF SendersOK
  <2>3. mem'.active = mem.active /\ mem'.after = mem.after
    <3> DEFINE p == IF notice.event > mem.pending THEN notice.event ELSE mem.pending
    <3>1. \/ mem' = [mem EXCEPT !.pending = p, !.want = mem.want + 1]
          \/ mem' = [mem EXCEPT !.other = TRUE]
      BY <2>1 DEF Announced
    <3> HIDE DEF p
    <3> QED
      BY <1>0, <3>1 DEF Mems
  <2> QED
    BY <2>1, <2>2, <2>3 DEF SleepsRight
<1>3. CASE SignalUsage \/ SignalIdentities
  <2>1. wake' /\ UNCHANGED <<mem, pc>>
    BY <1>3 DEF SignalUsage, SignalIdentities
  <2> QED
    BY <2>1 DEF SleepsRight
<1>4. CASE NotifyUsageIdentitiesChanged
  <2>1. /\ mem' = [mem EXCEPT !.want = mem.want + 1] /\ sync' = "noted"
        /\ UNCHANGED <<notice, timer, wake, pc>>
    BY <1>4 DEF NotifyUsageIdentitiesChanged
  <2>2. mem'.active = mem.active /\ mem'.after = mem.after /\ mem'.pending = mem.pending
    BY <1>0, <2>1 DEF Mems
  <2> QED
    BY <2>1, <2>2 DEF SleepsRight
<1>5. CASE Sleep
  <2>1. /\ UNCHANGED <<mem, wake, notice, sync>> /\ ~Runnable(mem) /\ timer' = Window
    BY <1>5 DEF Sleep, senderVars
  <2>2. ~mem.active /\ mem.after = 0 /\ ~(mem.scan < mem.want)
    BY <2>1 DEF Runnable, IdentityPending
  <2>3. mem.pending > 0 => timer' # "off"
    BY <2>1, <2>2 DEF Window
  <2> QED
    BY <2>1, <2>2, <2>3 DEF SleepsRight
<1>6. ASSUME pc' # "blocked" PROVE SleepsRight'
  BY <1>6 DEF SleepsRight
<1>7. CASE \/ StartupTarget \/ Adopt \/ FindPushed \/ FindTurn \/ Freeze \/ Woken
           \/ WaitForRetry \/ Restart
  <2>1. pc' # "blocked"
    BY <1>7 DEF StartupTarget, Adopt, FindPushed, FindTurn, Freeze, Woken, WaitForRetry,
                Restart
  <2> QED
    BY <1>6, <2>1
<1>8. CASE LegacyTurn
  <2>1. pc' # "blocked"
    BY <1>8 DEF LegacyTurn, BeginTurn, DeferTurn, TurnFails, LoadRollups, SkipRollup,
                DeferRollup, WriteRollup, RollupFails, FinishRollups, IdentityTurn, Writing
  <2> QED
    BY <1>6, <2>1
<1>9. CASE PushedPass
  <2>1. pc' # "blocked"
    BY <1>9 DEF PushedPass, ListPushed, ReadInstance, InstanceNames, EndPass, PassFails,
                PassOver, EnterInstance
  <2> QED
    BY <1>6, <2>1
<1> QED
  BY <1>1, <1>2, <1>3, <1>4, <1>5, <1>7, <1>8, <1>9
     DEF Next, Processor, MetadataSync, Runner, Elsewhere

LEMMA InitialWake == Init => WakeInv
BY DEF Init, WakeInv, RollupsDue, NamesDue, TurnKnows, SleepsRight, NewMem, Own

LEMMA NextWake == IInv /\ WakeInv /\ [Next]_vars => WakeInv'
<1> SUFFICES ASSUME IInv, WakeInv, [Next]_vars PROVE WakeInv'
  OBVIOUS
<1>1. CASE Next
  BY <1>1, RollupsStayDue, NamesStayDue, TurnStaysKnown, SleepStaysRight DEF WakeInv
<1>2. CASE UNCHANGED vars
  <2>1. /\ UNCHANGED <<owner, hot, cursor, known, nameCursor, notice, sync, mem>>
        /\ UNCHANGED <<timer, wake, pc, turn>>
    BY <1>2 DEF vars, eventVars, rollupVars, nameVars, senderVars, runnerVars
  <2>2. RollupsDue' /\ NamesDue'
    BY <2>1 DEF WakeInv, RollupsDue, RollupDue, NamesDue, NameDue, Committed, Own, Uncounted
  <2>3. TurnKnows' /\ SleepsRight'
    BY <2>1 DEF WakeInv, TurnKnows, SleepsRight
  <2> QED
    BY <2>2, <2>3 DEF WakeInv
<1> QED
  BY <1>1, <1>2

\* When the runner sleeps and nothing is to wake it, every legacy event is in
\* all rollups and in its identity (NotifyUsageEventsCommitted, freezePendingTarget,
\* completeRollupRoundIfReadyLocked, the waiting in Run).
THEOREM SleepsOverNothing == Spec => []AsleepMeansDone
<1>1. ASSUME IInv, WakeInv PROVE AsleepMeansDone
  <2> SUFFICES ASSUME Asleep, NEW e \in 1..Len(owner), owner[e] = Legacy
               PROVE  /\ \A t \in Rollups : cursor[Legacy][t] >= e
                      /\ e \in hot => ~Uncounted(e)
    BY DEF AsleepMeansDone
  <2>1. /\ pc = "blocked" /\ ~wake /\ timer = "off" /\ sync = "none"
        /\ notice.stage = "none"
    BY DEF Asleep, Quiet
  <2>2. mem.pending \in Nat /\ Len(owner) \in Nat
    BY <1>1, AggregationAssumption, TypeByGroups, MemFields DEF IInv, RunnerOK, EventsOK
  <2>3. ~mem.active /\ mem.after = 0 /\ mem.pending = 0 /\ ~(mem.scan < mem.want)
    BY <1>1, <2>1, <2>2 DEF WakeInv, SleepsRight
  <2>4. \A t \in Rollups : e <= cursor[Legacy][t]
    BY <1>1, <2>1, <2>2, <2>3 DEF WakeInv, RollupsDue, RollupDue, Committed
  <2>5. e \in hot => ~Uncounted(e)
    BY <1>1, <2>1, <2>3 DEF WakeInv, NamesDue, NameDue, Committed, Own
  <2> QED
    BY <2>4, <2>5
<1> QED
  BY <1>1, InitialWake, NextWake, Inductive, PTL DEF Spec

-----------------------------------------------------------------------------
(* Samples of the latency rollup.                                          *)

\* A nonempty set of numbers has a smallest one.
LEMMA SmallestNumber ==
    ASSUME NEW T \in SUBSET Nat, T # {}
    PROVE  \E n \in T : \A m \in T : n <= m
<1>1. \E n \in T : \A m \in T : ~(<<m, n>> \in OpToRel(<, Nat))
  BY NatLessThanWellFounded, WFMin, Zenon
<1>2. PICK n \in T : \A m \in T : ~(<<m, n>> \in OpToRel(<, Nat))
  BY <1>1
<1>3. ASSUME NEW m \in T PROVE n <= m
  <2>1. ~(m < n)
    BY <1>2 DEF OpToRel
  <2> QED
    BY <2>1
<1> QED
  BY <1>3

\* Points with numbers for their hash and id, in which an id names one point:
\* what SampleSet and its encoding hold.
SamplePoints(S) ==
    /\ IsFiniteSet(S)
    /\ \A p \in S : p.priority \in Nat /\ p.id \in Nat
    /\ \A p, q \in S : p.id = q.id => p = q
Below(S, p) == {q \in S : PointLess(q, p)}
Place(S, p) == Cardinality(Below(S, p))

\* samplePointLess orders them.
LEMMA PointOrder ==
    ASSUME NEW S, SamplePoints(S), NEW p \in S, NEW q \in S
    PROVE  /\ ~PointLess(p, p)
           /\ p = q \/ PointLess(p, q) \/ PointLess(q, p)
           /\ \A r \in S : PointLess(p, q) /\ PointLess(q, r) => PointLess(p, r)
<1>1. \A x \in S : x.priority \in Nat /\ x.id \in Nat
  BY DEF SamplePoints
<1>2. p.id = q.id => p = q
  BY DEF SamplePoints
<1>3. ~PointLess(p, p)
  BY <1>1 DEF PointLess
<1>4. p = q \/ PointLess(p, q) \/ PointLess(q, p)
  BY <1>1, <1>2 DEF PointLess
<1>5. ASSUME NEW r \in S, PointLess(p, q), PointLess(q, r) PROVE PointLess(p, r)
  BY <1>1, <1>5 DEF PointLess
<1> QED
  BY <1>3, <1>4, <1>5

\* A point's place: how many come before it.
LEMMA PlaceInSubset ==
    ASSUME NEW S, IsFiniteSet(S), NEW T \in SUBSET S, NEW p
    PROVE  /\ IsFiniteSet(Below(T, p)) /\ Place(T, p) \in Nat
           /\ Place(T, p) <= Place(S, p)
<1>1. Below(S, p) \in SUBSET S /\ Below(T, p) \in SUBSET Below(S, p)
  BY DEF Below
<1>2. IsFiniteSet(Below(S, p))
  BY <1>1, FS_Subset
<1>3. /\ IsFiniteSet(Below(T, p))
      /\ Cardinality(Below(T, p)) <= Cardinality(Below(S, p))
  BY <1>1, <1>2, FS_Subset
<1> QED
  BY <1>3, FS_CardinalityType DEF Place

\* An earlier point has a smaller place.
LEMMA PlaceGrows ==
    ASSUME NEW S, SamplePoints(S), NEW p \in S, NEW q \in S, PointLess(q, p)
    PROVE  Place(S, q) < Place(S, p)
<1>1. IsFiniteSet(S)
  BY DEF SamplePoints
<1>2. Below(S, q) \in SUBSET Below(S, p)
  BY PointOrder DEF Below
<1>3. q \in Below(S, p) /\ q \notin Below(S, q)
  BY PointOrder DEF Below
<1>4. IsFiniteSet(Below(S, p))
  BY <1>1, PlaceInSubset
<1>5. /\ IsFiniteSet(Below(S, q))
      /\ Cardinality(Below(S, q)) <= Cardinality(Below(S, p))
      /\ Cardinality(Below(S, q)) # Cardinality(Below(S, p))
  BY <1>2, <1>3, <1>4, FS_Subset
<1> QED
  BY <1>4, <1>5, FS_CardinalityType DEF Place

\* The sample by places.
LEMMA FirstByPlace ==
    ASSUME NEW S, NEW p
    PROVE  p \in FirstPoints(S) <=> p \in S /\ Place(S, p) < MaxSamplePoints
BY DEF FirstPoints, Place, Below

\* Where points are left out, the first of those behind all others has as
\* many in front of it as a sample holds.
LEMMA FirstLeftOut ==
    ASSUME NEW S, SamplePoints(S), NEW p \in S, p \notin FirstPoints(S)
    PROVE  \E q \in S : /\ q \notin FirstPoints(S) /\ (q = p \/ PointLess(q, p))
                        /\ Below(S, q) \subseteq FirstPoints(S)
                        /\ Place(S, q) >= MaxSamplePoints
<1> DEFINE Out == S \ FirstPoints(S)
           Places == {Place(S, x) : x \in Out}
<1>1. \A x \in S : Place(S, x) \in Nat
  BY PlaceInSubset DEF SamplePoints
<1>2. Places \in SUBSET Nat /\ Places # {}
  BY <1>1
<1>3. PICK n \in Places : \A m \in Places : n <= m
  <2> HIDE DEF Places
  <2> QED
    BY <1>2, SmallestNumber
<1>4. PICK q \in Out : n = Place(S, q)
  BY <1>3
<1>5. \A x \in Out : Place(S, q) <= Place(S, x)
  BY <1>3, <1>4
<1>6. ASSUME NEW x \in Below(S, q) PROVE x \in FirstPoints(S)
  <2>1. x \in S /\ PointLess(x, q)
    BY DEF Below
  <2>2. Place(S, x) < Place(S, q)
    BY <2>1, PlaceGrows
  <2>3. x \notin Out
    BY <1>1, <1>5, <2>1, <2>2
  <2> QED
    BY <2>1, <2>3
<1>7. ~PointLess(p, q)
  BY <1>6 DEF Below
<1>8. q = p \/ PointLess(q, p)
  BY <1>7, PointOrder
<1>9. ~(Place(S, q) < MaxSamplePoints)
  BY FirstByPlace
<1>10. MaxSamplePoints \in Nat
  BY LatencyAssumption
<1> QED
  BY <1>1, <1>6, <1>8, <1>9, <1>10

\* A sample of any points that hold the sample is the sample.
LEMMA SampleWithin ==
    ASSUME NEW S, SamplePoints(S), NEW T \in SUBSET S, FirstPoints(S) \subseteq T
    PROVE  FirstPoints(T) = FirstPoints(S)
<1>1. IsFiniteSet(S) /\ MaxSamplePoints \in Nat
  BY LatencyAssumption DEF SamplePoints
<1>2. ASSUME NEW p \in FirstPoints(S) PROVE p \in FirstPoints(T)
  <2>1. p \in T /\ Place(S, p) < MaxSamplePoints
    BY FirstByPlace
  <2>2. Place(T, p) <= Place(S, p) /\ Place(T, p) \in Nat /\ Place(S, p) \in Nat
    BY <1>1, PlaceInSubset
  <2>3. Place(T, p) < MaxSamplePoints
    BY <1>1, <2>1, <2>2
  <2> QED
    BY <2>1, <2>3, FirstByPlace
<1>3. ASSUME NEW p \in FirstPoints(T), p \notin FirstPoints(S) PROVE FALSE
  <2>1. p \in T /\ Place(T, p) < MaxSamplePoints
    BY FirstByPlace
  <2>2. p \in S
    BY <2>1
  <2>3. PICK q \in S : /\ q \notin FirstPoints(S) /\ (q = p \/ PointLess(q, p))
                       /\ Below(S, q) \subseteq FirstPoints(S)
                       /\ Place(S, q) >= MaxSamplePoints
    BY <1>3, <2>2, FirstLeftOut
  <2>4. Below(S, q) \subseteq Below(T, p)
    <3> SUFFICES ASSUME NEW x \in Below(S, q) PROVE x \in Below(T, p)
      OBVIOUS
    <3>1. x \in S /\ x \in T /\ PointLess(x, q)
      BY <2>3 DEF Below
    <3>2. PointLess(x, p)
      BY <2>2, <2>3, <3>1, PointOrder
    <3> QED
      BY <3>1, <3>2 DEF Below
  <2>5. IsFiniteSet(Below(T, p)) /\ Place(T, p) \in Nat
    BY <1>1, PlaceInSubset
  <2>6. /\ IsFiniteSet(Below(S, q))
        /\ Cardinality(Below(S, q)) <= Cardinality(Below(T, p))
    BY <2>4, <2>5, FS_Subset
  <2>7. Place(S, q) <= Place(T, p) /\ Place(S, q) \in Nat
    BY <2>6, FS_CardinalityType DEF Place
  <2> QED
    BY <1>1, <2>1, <2>3, <2>5, <2>7
<1> QED
  BY <1>2, <1>3

\* Merging the samples of two sets of requests gives the sample of both
\* together, however the aggregation pages and the rows of a query split them
\* (SampleSet.Merge, QuerySampleMerger.MergeBinary).
THEOREM SampleOfAll ==
    ASSUME NEW A, NEW B, SamplePoints(A \cup B)
    PROVE  MergedPoints(FirstPoints(A), FirstPoints(B)) = FirstPoints(A \cup B)
<1> DEFINE S == A \cup B
           T == FirstPoints(A) \cup FirstPoints(B)
<1>1. T \in SUBSET S
  BY DEF FirstPoints
<1>2. IsFiniteSet(S) /\ MaxSamplePoints \in Nat
  BY LatencyAssumption DEF SamplePoints
<1>3. ASSUME NEW p \in FirstPoints(S), NEW X \in {A, B}, p \in X PROVE p \in FirstPoints(X)
  <2>1. X \in SUBSET S
    OBVIOUS
  <2>2. Place(X, p) <= Place(S, p) /\ Place(X, p) \in Nat /\ Place(S, p) \in Nat
    <3> HIDE DEF S
    <3> QED BY <1>2, <2>1, PlaceInSubset
  <2>3. Place(S, p) < MaxSamplePoints
    <3> HIDE DEF S
    <3> QED BY FirstByPlace
  <2>4. Place(X, p) < MaxSamplePoints
    BY <1>2, <2>2, <2>3
  <2> QED
    BY <1>3, <2>4, FirstByPlace
<1>4. FirstPoints(S) \subseteq T
  <2>1. \A p \in FirstPoints(S) : p \in A \/ p \in B
    BY DEF FirstPoints
  <2> QED
    BY <1>3, <2>1
<1>5. FirstPoints(T) = FirstPoints(S)
  <2> HIDE DEF S, T
  <2>1. SamplePoints(S)
    BY DEF S
  <2> QED
    BY <1>1, <1>4, <2>1, SampleWithin
<1> QED
  BY <1>5 DEF MergedPoints

\* A sample holds all points, or exactly as many as it may: the answer's
\* sampled flag is right (SampleSet.addPoint, trim).
THEOREM SampleIsFull ==
    ASSUME NEW S, SamplePoints(S)
    PROVE  /\ IsFiniteSet(FirstPoints(S))
           /\ FirstPoints(S) = S \/ Cardinality(FirstPoints(S)) = MaxSamplePoints
<1>1. IsFiniteSet(S) /\ MaxSamplePoints \in Nat \ {0}
  BY LatencyAssumption DEF SamplePoints
<1>2. FirstPoints(S) \in SUBSET S
  BY DEF FirstPoints
<1>3. IsFiniteSet(FirstPoints(S))
  BY <1>1, <1>2, FS_Subset
<1> SUFFICES ASSUME NEW p \in S, p \notin FirstPoints(S)
             PROVE  Cardinality(FirstPoints(S)) = MaxSamplePoints
  BY <1>2, <1>3
<1>4. \A x \in S : Place(S, x) \in Nat
  BY <1>1, PlaceInSubset
<1>5. PICK q \in S : /\ q \notin FirstPoints(S)
                     /\ Below(S, q) \subseteq FirstPoints(S)
                     /\ Place(S, q) >= MaxSamplePoints
  BY FirstLeftOut
<1>6. Cardinality(Below(S, q)) <= Cardinality(FirstPoints(S))
  BY <1>3, <1>5, FS_Subset
<1>7. Cardinality(FirstPoints(S)) >= MaxSamplePoints /\ Cardinality(FirstPoints(S)) \in Nat
  BY <1>1, <1>3, <1>4, <1>5, <1>6, FS_CardinalityType DEF Place
<1> DEFINE Left == {MaxSamplePoints - Place(S, x) : x \in FirstPoints(S)}
<1>8. \A x \in FirstPoints(S) : x \in S /\ Place(S, x) < MaxSamplePoints
  BY FirstByPlace
<1>9. Left \in SUBSET Nat
  BY <1>1, <1>4, <1>8
<1>10. FirstPoints(S) # {}
  BY <1>1, <1>7, FS_EmptySet
<1>11. PICK n \in Left : \A m \in Left : n <= m
  <2>1. Left # {}
    BY <1>10
  <2> HIDE DEF Left
  <2> QED
    BY <1>9, <2>1, SmallestNumber
<1>12. PICK x \in FirstPoints(S) : n = MaxSamplePoints - Place(S, x)
  BY <1>11
<1>13. \A y \in FirstPoints(S) : Place(S, y) <= Place(S, x)
  BY <1>1, <1>4, <1>8, <1>11, <1>12
<1>14. FirstPoints(S) \subseteq Below(S, x) \cup {x}
  <2> SUFFICES ASSUME NEW y \in FirstPoints(S), y # x PROVE PointLess(y, x)
    BY <1>2 DEF Below
  <2>1. ~PointLess(x, y)
    BY <1>4, <1>8, <1>13, PlaceGrows
  <2> QED
    BY <1>2, <2>1, PointOrder
<1>15. IsFiniteSet(Below(S, x))
  BY <1>1, PlaceInSubset
<1>16. /\ IsFiniteSet(Below(S, x) \cup {x})
       /\ Cardinality(Below(S, x) \cup {x}) <= Place(S, x) + 1
  <2>1. Cardinality(Below(S, x)) \in Nat
    BY <1>15, FS_CardinalityType
  <2>2. /\ IsFiniteSet(Below(S, x) \cup {x})
        /\ \/ Cardinality(Below(S, x) \cup {x}) = Cardinality(Below(S, x)) + 1
           \/ Cardinality(Below(S, x) \cup {x}) = Cardinality(Below(S, x))
    BY <1>15, FS_AddElement, Zenon
  <2> QED
    BY <2>1, <2>2 DEF Place
<1>17. /\ Cardinality(FirstPoints(S)) <= Cardinality(Below(S, x) \cup {x})
       /\ Cardinality(Below(S, x) \cup {x}) \in Nat
  BY <1>14, <1>16, FS_Subset, FS_CardinalityType
<1> QED
  BY <1>1, <1>4, <1>7, <1>8, <1>16, <1>17
=============================================================================
