-------------------------- MODULE StartupPipeline --------------------------
(***************************************************************************)
(* The start of the keeper: App.Initialize and RunContext, and behind them *)
(* the first upgrade of a database that has no stored costs.               *)
(*                                                                         *)
(* The identity of the database is fixed first, then the inbox is made     *)
(* able to receive and the one ingest runner starts.  A fresh database is  *)
(* created; a legacy one is backed up (M1), brought to the last published  *)
(* schema (M2), its cursor, bounds and prices are fixed (M3), its events   *)
(* are priced page by page (M4), its overview is rebuilt page by page (M5) *)
(* and all of it is verified (M6).  Only then does the shell hand over to  *)
(* the business router.  Every transaction is one action; the process may  *)
(* stop between any two, and any statement may fail.                       *)
(***************************************************************************)
EXTENDS Integers, FiniteSets, Sequences

CONSTANTS
    Ids,            \* ids of the events a legacy database may hold
    Messages,       \* usage messages CPA sends, each once
    PageSize,       \* pricingMigrationEventPageSize and its siblings
    MaxStops        \* bound: starts that crash or fail

ASSUME StartupAssumption ==
    /\ Ids \subseteq Nat \ {0} /\ IsFiniteSet(Ids)
    /\ PageSize \in Nat \ {0} /\ MaxStops \in Nat

\* An event whose details were cleaned up before the upgrade.
Ghost == 0

\* The published migrations, in order: one that converts token counts, the
\* one that renames the inbox's column, the paged replay of the overview, the
\* destructive one.  "structure" and "remaining" follow the boundary.
Published == <<"convert", "source", "replay", "reset">>
Boundary == "structure"
Versions == {Published[i] : i \in DOMAIN Published} \cup {Boundary, "remaining"}

None == [none |-> TRUE]
OldPrice == "old"
Null == "null"

VARIABLES
    identity,       \* pricing_migration_state.init_kind
    phase,          \* .phase
    schemaComplete, \* .schema_complete
    dataComplete,   \* .data_complete
    backup,         \* .baseline_json without its fixed part, with the backup
    moved,          \* the backup is no longer at the recorded path
    fixed,          \* the fixed part of the baseline
    cursors,        \* .cursors_json
    tables,         \* the database has tables
    applied,        \* schema_migrations
    hot, archive,   \* ids in usage_events and usage_events_archive
    facts,          \* how often an event's token counts were converted
    cost,           \* usage_events.cost_usd
    checkpoint,     \* the overview's checkpoint
    rollup,         \* how often an event is counted in the overview
    inbox,          \* messages stored and not yet processed
    price,          \* the live price
    point,          \* where Initialize is
    shell,          \* StartupShell's phase
    writer,         \* UsageIngestBridge's writer
    stops,          \* starts that crashed or failed so far
    old,            \* history: the database had tables at the first start
    kept,           \* history: messages stored so far
    refused         \* history: a check has refused the database

control == <<identity, phase, schemaComplete, dataComplete, backup, moved,
             fixed, cursors>>
stored == <<tables, applied, hot, archive, facts, cost, checkpoint, rollup>>
ingest == <<inbox, writer, kept>>
startupVars == <<control, stored, ingest, price, point, shell, stops, old, refused>>

MaxOf(S) == IF S = {} THEN 0 ELSE CHOOSE x \in S : \A y \in S : y <= x
MinOf(a, b) == IF a < b THEN a ELSE b
Events == hot \cup archive

\* The next page of ids in (after, bound].
Page(ids, after, bound) ==
    LET due == {i \in ids : i > after /\ i <= bound}
    IN  {i \in due : Cardinality({j \in due : j < i}) < PageSize}

\* Legacy databases as version 1 leaves them: a prefix of the published
\* migrations is applied; archived events are counted, and exist only where
\* the replay has long been applied; the overview may count what is gone.
LegacyDatabase(done, mark, cold, ghost) ==
    /\ old = TRUE /\ tables = TRUE
    /\ applied = {Published[i] : i \in 1..done}
    /\ archive = {i \in Ids : i <= cold} /\ hot = Ids \ archive
    /\ cold > 0 => "replay" \in applied /\ cold <= mark
    /\ checkpoint = mark
    /\ rollup = [i \in Ids \cup {Ghost} |->
                    IF i = Ghost THEN ghost ELSE IF i <= mark THEN 1 ELSE 0]

FreshDatabase ==
    /\ old = FALSE /\ tables = FALSE
    /\ applied = {} /\ archive = {} /\ hot = {} /\ checkpoint = 0
    /\ rollup = [i \in Ids \cup {Ghost} |-> 0]

StartupInit ==
    /\ \/ FreshDatabase
       \/ \E done \in 0..Len(Published), mark \in Ids \cup {0},
             cold \in {0, MaxOf(Ids) - 1}, ghost \in {0, 1} :
                LegacyDatabase(done, mark, cold, ghost)
    /\ identity = "none" /\ phase = "none"
    /\ schemaComplete = FALSE /\ dataComplete = FALSE
    /\ backup = None /\ moved = FALSE /\ fixed = None /\ cursors = None
    /\ facts = [i \in Ids |-> IF "convert" \in applied THEN 1 ELSE 0]
    /\ cost = [i \in Ids |-> Null]
    /\ inbox = {} /\ writer = "none" /\ kept = {}
    /\ price = OldPrice
    /\ point = "down" /\ shell = "none"
    /\ stops = 0 /\ refused = FALSE

Goto(next) == point' = next /\ UNCHANGED <<shell, stops, old, refused>>

\* Initialize returns an error; the shell stays up and says so.
Refuse ==
    /\ point' = "failed" /\ shell' = "failed" /\ refused' = TRUE
    /\ UNCHANGED <<control, stored, ingest, price, stops, old>>
-----------------------------------------------------------------------------
(* M0: the shell, the identity, the inbox.                                 *)

\* RunContext listens before it opens the database.
Listen ==
    /\ point = "down"
    /\ shell' = "opening"
    /\ point' = "identity"
    /\ UNCHANGED <<control, stored, ingest, price, stops, old, refused>>

BootstrapPricingInitialization ==
    /\ point = "identity"
    /\ IF identity = "none"
         THEN /\ identity' = IF tables THEN "legacy" ELSE "fresh"
              /\ phase' = "opening"
         ELSE UNCHANGED <<identity, phase>>
    /\ tables' = TRUE
    /\ Goto("inbox")
    /\ UNCHANGED <<schemaComplete, dataComplete, backup, moved, fixed, cursors,
                   applied, hot, archive, facts, cost, checkpoint, rollup,
                   ingest, price>>

\* EnsurePricingBootstrapInbox; the ingest runner starts with the bootstrap
\* writer; Publish(migrating); the branch on the identity.
StartIngest ==
    /\ point = "inbox"
    /\ writer' = "bootstrap"
    /\ shell' = "migrating"
    /\ point' = CASE identity = "fresh" -> "fresh"
                  [] identity = "legacy" /\ ~dataComplete -> "protect"
                  [] OTHER -> "check"
    /\ UNCHANGED <<control, stored, inbox, kept, price, stops, old, refused>>

\* The inbox has the column the normal writer needs: a table made by
\* StartIngest or by AutoMigrate has, a legacy one once it is renamed.
HasSource == ~old \/ "source" \in applied

\* InsertPricingBootstrapInboxRawMessages writes whichever column is there;
\* the normal writer knows the new one only.
InsertMessage(m) ==
    /\ m \notin kept
    /\ writer = "bootstrap" \/ (writer = "normal" /\ HasSource)
    /\ inbox' = inbox \cup {m}
    /\ kept' = kept \cup {m}
    /\ UNCHANGED <<control, stored, writer, price, point, shell, stops, old, refused>>
-----------------------------------------------------------------------------
(* A fresh database.                                                       *)

\* InitializeFreshPricingDatabase: schema, seed and versions, re-entrant.
CreateSchema ==
    /\ point = "fresh"
    /\ IF schemaComplete /\ dataComplete
         THEN Goto("check") /\ UNCHANGED applied
         ELSE Goto("freshDone") /\ applied' = Versions
    /\ UNCHANGED <<control, tables, hot, archive, facts, cost, checkpoint, rollup,
                   ingest, price>>

FreshComplete ==
    /\ point = "freshDone"
    /\ phase' = "data_complete" /\ schemaComplete' = TRUE /\ dataComplete' = TRUE
    /\ Goto("check")
    /\ UNCHANGED <<identity, backup, moved, fixed, cursors, stored, ingest, price>>
-----------------------------------------------------------------------------
(* M1 and M2: the backup and the published migrations.                     *)

\* ProtectPricingLegacyMigration: one backup, whose path, fingerprint and
\* evidence are committed together; a restart verifies the recorded one, and
\* follows it to the configured directory when its fingerprint matches.
Protect ==
    /\ point = "protect"
    /\ moved' = FALSE
    /\ IF backup = None
         THEN /\ backup' = [applied |-> applied, hot |-> hot, archive |-> archive,
                            facts |-> facts, checkpoint |-> checkpoint]
              /\ phase' = "protected"
         ELSE UNCHANGED <<backup, phase>>
    /\ Goto(IF fixed = None THEN "published" ELSE "fix")
    /\ UNCHANGED <<identity, schemaComplete, dataComplete, fixed, cursors, stored,
                   ingest, price>>

\* The version RunPublished is at; 5 when all are applied.
NextPublished ==
    MinOf(Len(Published) + 1,
          1 + Cardinality({i \in DOMAIN Published : Published[i] \in applied}))

\* runSchemaMigration in one transaction with its version; the destructive
\* one after its hook has seen the backup.
RunPublished ==
    /\ point = "published"
    /\ NextPublished <= Len(Published)
    /\ Published[NextPublished] # "replay"
    /\ LET version == Published[NextPublished]
       IN  /\ applied' = applied \cup {version}
           /\ facts' = IF version = "convert"
                         THEN [i \in DOMAIN facts |-> IF i \in hot THEN facts[i] + 1
                                                      ELSE facts[i]]
                         ELSE facts
    /\ UNCHANGED <<control, tables, hot, archive, cost, checkpoint, rollup, ingest,
                   price, point, shell, stops, old, refused>>

\* usageOverviewFiveDimensionsMigration manages its own transactions: the
\* overview and its checkpoint are emptied together, so a restart begins anew.
PrepareReplay ==
    /\ point = "published"
    /\ NextPublished <= Len(Published)
    /\ Published[NextPublished] = "replay"
    /\ checkpoint' = 0
    /\ rollup' = [i \in DOMAIN rollup |-> 0]
    /\ Goto("replay")
    /\ UNCHANGED <<control, tables, applied, hot, archive, facts, cost, ingest, price>>

ReplayBatch ==
    LET page == Page(hot, checkpoint, MaxOf(hot))
    IN  /\ point = "replay"
        /\ page # {}
        /\ checkpoint' = MaxOf(page)
        /\ rollup' = [i \in DOMAIN rollup |-> rollup[i] + IF i \in page THEN 1 ELSE 0]
        /\ UNCHANGED <<control, tables, applied, hot, archive, facts, cost, ingest,
                       price, point, shell, stops, old, refused>>

RecordReplay ==
    /\ point = "replay"
    /\ Page(hot, checkpoint, MaxOf(hot)) = {}
    /\ IF checkpoint < MaxOf(hot)
         THEN Refuse
         ELSE /\ applied' = applied \cup {"replay"}
              /\ Goto("published")
              /\ UNCHANGED <<control, tables, hot, archive, facts, cost, checkpoint,
                             rollup, ingest, price>>

\* verifyPricingM2EventTable: every event of the backup is there, converted
\* exactly as the pending migrations convert it, and no other is.
EventsConverted ==
    /\ hot = backup.hot /\ archive = backup.archive
    /\ \A i \in Events :
          facts[i] = backup.facts[i]
                       + IF "convert" \notin backup.applied /\ i \in hot THEN 1 ELSE 0

\* The contract of the overview's cursor.
CursorConverted ==
    IF "replay" \notin backup.applied
      THEN checkpoint = MaxOf(backup.hot)
      ELSE checkpoint >= backup.checkpoint

PublishedVerified == EventsConverted /\ CursorConverted

VerifyPublished ==
    /\ point = "published"
    /\ NextPublished > Len(Published)
    /\ IF PublishedVerified
         THEN Goto("fix") /\ UNCHANGED <<control, stored, ingest, price>>
         ELSE Refuse
-----------------------------------------------------------------------------
(* M3: cursor, bounds and prices are fixed once; then the structure.       *)

FixBaseline ==
    /\ point = "fix"
    /\ IF fixed # None
         THEN /\ cursors # None
              /\ Goto("structure")
              /\ UNCHANGED <<control, stored, ingest, price>>
         ELSE IF Boundary \in applied THEN Refuse
         ELSE /\ fixed' = [cursor |-> checkpoint, hot |-> MaxOf(hot),
                           archive |-> MaxOf(archive), price |-> price]
              /\ cursors' = [hot |-> 0, archive |-> 0, overview |-> None]
              /\ phase' = "baseline_fixed"
              /\ Goto("structure")
              /\ UNCHANGED <<identity, schemaComplete, dataComplete, backup, moved,
                             stored, ingest, price>>

\* RunPricingStorageStructure, only after every published version.
AddStructure ==
    /\ point = "structure"
    /\ IF NextPublished <= Len(Published)
         THEN Refuse
         ELSE /\ applied' = applied \cup {Boundary}
              /\ Goto("mark")
              /\ UNCHANGED <<control, tables, hot, archive, facts, cost, checkpoint,
                             rollup, ingest, price>>

\* markPricingMigrationSchemaComplete moves the phase forwards only.
MarkSchemaComplete ==
    /\ point = "mark"
    /\ schemaComplete' = TRUE
    /\ phase' = IF phase = "baseline_fixed" THEN "schema_complete" ELSE phase
    /\ Goto("events")
    /\ UNCHANGED <<identity, dataComplete, backup, moved, fixed, cursors, stored,
                   ingest, price>>
-----------------------------------------------------------------------------
(* M4: backfillLegacyPricingEvents.                                        *)

\* One page of a table: the costs and the cursor in one transaction.
PricePage(ids, table, bound) ==
    LET page == Page(ids, cursors[table], bound)
    IN  /\ cursors[table] < bound
        /\ IF page = {}
             THEN Refuse
             ELSE /\ cost' = [i \in DOMAIN cost |-> IF i \in page THEN fixed.price
                                                    ELSE cost[i]]
                  /\ cursors' = [cursors EXCEPT ![table] = MaxOf(page)]
                  /\ UNCHANGED <<identity, phase, schemaComplete, dataComplete, backup,
                                 moved, fixed, tables, applied, hot, archive, facts,
                                 checkpoint, rollup, ingest, price, point, shell,
                                 stops, old, refused>>

PriceEvents ==
    /\ point = "events"
    /\ \/ PricePage(hot, "hot", fixed.hot)
       \/ cursors.hot >= fixed.hot /\ PricePage(archive, "archive", fixed.archive)

EventsBackfilled ==
    /\ point = "events"
    /\ cursors.hot >= fixed.hot /\ cursors.archive >= fixed.archive
    /\ phase' = IF phase = "schema_complete" THEN "events_backfilled" ELSE phase
    /\ Goto("begin")
    /\ UNCHANGED <<identity, schemaComplete, dataComplete, backup, moved, fixed,
                   cursors, stored, ingest, price>>
-----------------------------------------------------------------------------
(* M5: CompleteLegacyPricingData.                                          *)

\* beginLegacyPricingOverview: phase, cursor and the emptying are one
\* transaction; a restart finds the phase and keeps what is rebuilt.
BeginOverview ==
    /\ point = "begin"
    /\ IF phase = "overview_rebuilding"
         THEN Goto("overview") /\ UNCHANGED <<control, stored, ingest, price>>
         ELSE IF phase # "events_backfilled" \/ cursors.overview # None THEN Refuse
         ELSE /\ phase' = "overview_rebuilding"
              /\ cursors' = [cursors EXCEPT !.overview = [hot |-> 0, archive |-> 0]]
              /\ rollup' = [i \in DOMAIN rollup |-> 0]
              /\ Goto("overview")
              /\ UNCHANGED <<identity, schemaComplete, dataComplete, backup, moved,
                             fixed, tables, applied, hot, archive, facts, cost,
                             checkpoint, ingest, price>>

\* pricingOverviewBound: the events the ordinary checkpoint had counted.
OverviewBound(table) == MinOf(fixed.cursor, fixed[table])

\* One page: hourly and daily rows and the cursor in one transaction; an
\* empty page moves the cursor to the bound.
RebuildPage(ids, table) ==
    LET after == cursors.overview[table]
        page == Page(ids, after, OverviewBound(table))
    IN  /\ after < OverviewBound(table)
        /\ rollup' = [i \in DOMAIN rollup |-> rollup[i] + IF i \in page THEN 1 ELSE 0]
        /\ cursors' = [cursors EXCEPT !.overview[table] =
                          IF page = {} THEN OverviewBound(table) ELSE MaxOf(page)]
        /\ UNCHANGED <<identity, phase, schemaComplete, dataComplete, backup, moved,
                       fixed, tables, applied, hot, archive, facts, cost, checkpoint,
                       ingest, price, point, shell, stops, old, refused>>

RebuildOverview ==
    /\ point = "overview"
    /\ \/ RebuildPage(hot, "hot")
       \/ /\ cursors.overview.hot >= OverviewBound("hot")
          /\ RebuildPage(archive, "archive")

\* verifyPricingLegacyEventCosts: no event within the bounds lacks its cost.
EventCostsVerified ==
    \A i \in Events : i <= fixed.hot \/ i <= fixed.archive => cost[i] # Null

\* verifyPricingOverviewCounts and verifyPricingLegacyCostGroups: group by
\* group, the overview holds the events up to the fixed cursor.
OverviewVerified ==
    \A i \in DOMAIN rollup :
        rollup[i] = IF i \in Events /\ i <= fixed.cursor THEN 1 ELSE 0

\* VerifyLegacyPricingData.
DataVerified ==
    /\ cursors.hot = fixed.hot /\ cursors.archive = fixed.archive
    /\ checkpoint >= fixed.cursor
    /\ MaxOf(hot) = fixed.hot /\ MaxOf(archive) = fixed.archive
    /\ EventCostsVerified
    /\ OverviewVerified
    /\ PublishedVerified

VerifyData ==
    /\ point = "overview"
    /\ cursors.overview.hot >= OverviewBound("hot")
    /\ cursors.overview.archive >= OverviewBound("archive")
    /\ IF DataVerified
         THEN Goto("complete") /\ UNCHANGED <<control, stored, ingest, price>>
         ELSE Refuse

\* Variant with a fault: the checkpoint is moved over what M5 did not rebuild.
CompleteAndAdvance ==
    /\ point = "complete"
    /\ phase' = "data_complete" /\ dataComplete' = TRUE
    /\ checkpoint' = MaxOf(Events)
    /\ Goto("check")
    /\ UNCHANGED <<identity, schemaComplete, backup, moved, fixed, cursors, tables,
                   applied, hot, archive, facts, cost, rollup, ingest, price>>

CompleteData ==
    /\ point = "complete"
    /\ phase' = "data_complete" /\ dataComplete' = TRUE
    /\ Goto("check")
    /\ UNCHANGED <<identity, schemaComplete, backup, moved, fixed, cursors, stored,
                   ingest, price>>
-----------------------------------------------------------------------------
(* Ready.                                                                  *)

\* VerifyPricingStartupDataComplete.
CheckComplete ==
    /\ point = "check"
    /\ IF schemaComplete /\ dataComplete /\ phase = "data_complete"
         THEN Goto("remaining") /\ UNCHANGED <<control, stored, ingest, price>>
         ELSE Refuse

\* RunDatabaseMigrationsWithBackup; each is idempotent or one transaction.
RunRemaining ==
    /\ point = "remaining"
    /\ applied' = applied \cup {"remaining"}
    /\ Goto("activate")
    /\ UNCHANGED <<control, tables, hot, archive, facts, cost, checkpoint, rollup,
                   ingest, price>>

\* buildReadyApp, ActivateNormalWriter, the background tasks, ActivateReady.
Activate ==
    /\ point = "activate"
    /\ writer' = "normal"
    /\ shell' = "ready"
    /\ point' = "ready"
    /\ UNCHANGED <<control, stored, inbox, kept, price, stops, old, refused>>

\* The business tasks, once each: the inbox row becomes an event priced at
\* the live price; the aggregation goes on from its checkpoint.
NewId(m) == MaxOf(DOMAIN cost) + 1

ProcessMessage(m) ==
    /\ point = "ready"
    /\ m \in inbox
    /\ inbox' = inbox \ {m}
    /\ hot' = hot \cup {NewId(m)}
    /\ cost' = [i \in DOMAIN cost \cup {NewId(m)} |-> IF i = NewId(m) THEN price
                                                      ELSE cost[i]]
    /\ facts' = [i \in DOMAIN facts \cup {NewId(m)} |-> IF i = NewId(m) THEN 1
                                                        ELSE facts[i]]
    /\ rollup' = [i \in DOMAIN rollup \cup {NewId(m)} |-> IF i = NewId(m) THEN 0
                                                          ELSE rollup[i]]
    /\ UNCHANGED <<control, tables, applied, archive, checkpoint, writer, kept, price,
                   point, shell, stops, old, refused>>

AggregateEvents ==
    LET page == Page(hot, checkpoint, MaxOf(hot))
    IN  /\ point = "ready"
        /\ page # {}
        /\ checkpoint' = MaxOf(page)
        /\ rollup' = [i \in DOMAIN rollup |-> rollup[i] + IF i \in page THEN 1 ELSE 0]
        /\ UNCHANGED <<control, tables, applied, hot, archive, facts, cost, ingest,
                       price, point, shell, stops, old, refused>>

ChangePrice ==
    /\ point = "ready" /\ price = OldPrice
    /\ price' = "new"
    /\ UNCHANGED <<control, stored, ingest, point, shell, stops, old, refused>>

\* A statement fails: Initialize returns, the shell says so and stays up.
StatementFails ==
    /\ point \notin {"down", "ready", "failed"}
    /\ stops < MaxStops
    /\ stops' = stops + 1
    /\ point' = "failed" /\ shell' = "failed"
    /\ UNCHANGED <<control, stored, ingest, price, old, refused>>

\* The process ends, or is ended after a failure; the bound is on the starts
\* that are interrupted.
Stop ==
    /\ point # "down"
    /\ IF point \in {"ready", "failed"}
         THEN UNCHANGED stops
         ELSE stops < MaxStops /\ stops' = stops + 1
    /\ point' = "down" /\ shell' = "none" /\ writer' = "none"
    /\ UNCHANGED <<control, stored, inbox, kept, price, old, refused>>

\* The backup directory is moved while the keeper is down.
MoveBackup ==
    /\ point = "down" /\ backup # None /\ ~moved /\ ~dataComplete
    /\ moved' = TRUE
    /\ UNCHANGED <<identity, phase, schemaComplete, dataComplete, backup, fixed,
                   cursors, stored, ingest, price, point, shell, stops, old, refused>>

StartupNext ==
    \/ Listen \/ BootstrapPricingInitialization \/ StartIngest
    \/ CreateSchema \/ FreshComplete
    \/ Protect \/ RunPublished \/ PrepareReplay \/ ReplayBatch \/ RecordReplay
    \/ VerifyPublished \/ FixBaseline \/ AddStructure \/ MarkSchemaComplete
    \/ PriceEvents \/ EventsBackfilled
    \/ BeginOverview \/ RebuildOverview \/ VerifyData \/ CompleteData
    \/ CheckComplete \/ RunRemaining \/ Activate
    \/ \E m \in Messages : InsertMessage(m) \/ ProcessMessage(m)
    \/ AggregateEvents \/ ChangePrice
    \/ StatementFails \/ Stop \/ MoveBackup

StartupSpec == StartupInit /\ [][StartupNext]_startupVars
-----------------------------------------------------------------------------
(* Properties.                                                             *)

\* Crashes and failed statements alone never bring the upgrade to a database
\* that one of its own checks refuses, nor a fresh database onto the legacy
\* path: every start can go on from where the last one stopped.
UpgradeNeverStuck == ~refused /\ (identity = "legacy" => old)

\* Once the data is complete, every event up to the checkpoint is counted in
\* the overview exactly once and nothing else is, every event of the legacy
\* database carries its cost at the price fixed then, and its tokens were
\* converted once, however often the upgrade was interrupted and whatever was
\* received, processed or repriced since; no message that was stored is lost.
UpgradeExact ==
    /\ shell = "ready" => dataComplete
    /\ dataComplete =>
          /\ \A i \in DOMAIN rollup :
                rollup[i] = IF i \in Events /\ i <= checkpoint THEN 1 ELSE 0
          /\ \A i \in Events \cap Ids : cost[i] = OldPrice
          /\ \A i \in hot : facts[i] = 1
    /\ Cardinality(kept) = Cardinality(inbox) + Cardinality(Events \ Ids)

\* The upgrade of a legacy database always can go on, and when it is through it
\* has done everything once.
UpgradeSound == UpgradeNeverStuck /\ UpgradeExact
=============================================================================
