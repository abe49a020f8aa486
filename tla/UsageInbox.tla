----------------------------- MODULE UsageInbox -----------------------------
(***************************************************************************)
(* The path of a usage message from CPA to usage_events.                   *)
(*                                                                         *)
(*   remote --pull/subscribe--> pendingInbox (memory of RedisIngestRunner) *)
(*          --Insert--> redis_usage_inboxes --ProcessRedisUsageInbox-->    *)
(*          usage_events                                                   *)
(*                                                                         *)
(* Four actors share the inbox table: the ingest runner (serialised by     *)
(* opMu), the keeper-push HTTP handler, the process runner (one batch at a *)
(* time) and the daily storage cleanup.  Each SQL statement or transaction *)
(* is one step; everything between two of them can be interleaved, and the *)
(* process may crash between any two.                                      *)
(*                                                                         *)
(* Messages are the numbers 1, 2, ... in the order CPA produced them; what *)
(* they contain is reduced to Kind.  Control messages never reach this     *)
(* table (see IngestModes).                                                *)
(***************************************************************************)
EXTENDS Integers, Sequences, FiniteSets

CONSTANTS
    Instances,      \* CPA instances that own inbox rows
    Legacy,         \* entities.LegacyCPAInstanceID, fed by the ingest runner
    Kind,           \* Kind[m]: what decoding message m needs
    MaxAttempts,    \* redisUsageInboxMaxProcessAttempts (5)
    ProcessLimit,   \* redisInboxProcessLimit (1000)
    BatchSize,      \* QUEUE_BATCH_SIZE of the remote pull
    MaxMessages,    \* bound: messages CPA produces
    MaxCrashes      \* bound: crashes of the keeper process

Messages == 1..MaxMessages

Kinds == {"resolved",    \* decodes, and its executor is known
          "unresolved",  \* decodes, and needs the usage_identities query
          "malformed"}   \* does not decode

ASSUME InboxAssumption ==
    /\ Legacy \in Instances
    /\ MaxAttempts \in Nat \ {0}
    /\ ProcessLimit \in Nat \ {0}
    /\ BatchSize \in Nat \ {0}
    /\ MaxMessages \in Nat
    /\ MaxCrashes \in Nat
    /\ Kind \in [1..MaxMessages -> Kinds]

VARIABLES
    nextMsg,    \* number of the next message CPA produces
    remote,     \* messages waiting in CPA, oldest first
    held,       \* pendingInbox: batches popped but not yet written
    lost,       \* history: messages popped from CPA that no table holds
    inbox,      \* redis_usage_inboxes, by id
    pc,         \* control point of the process runner
    todo,       \* rows of the current batch not decoded yet
    valid,      \* rows of the current batch that can be committed
    failing,    \* rows still to be marked process_failed
    after,      \* control point to go to when failing is empty
    full,       \* the current batch reached ProcessLimit (BatchFull)
    retry,      \* redisInboxFailureCounts.requiresRetryWait
    tried,      \* history: rows marked failed since the runner last slept
    notified,   \* rows announced to the aggregation runner after a commit
    crashes,    \* crashes so far
    gone        \* instances the administrator deleted

remoteVars == <<nextMsg, remote>>
workerVars == <<pc, todo, valid, failing, after, full, retry, tried>>
vars == <<nextMsg, remote, held, lost, inbox, pc, todo, valid, failing,
          after, full, retry, tried, notified, crashes, gone>>

Retryable == {"pending", "process_failed"}
Statuses == Retryable \cup {"processed", "decode_failed", "discarded",
                            "deleted"}   \* deleted: no longer in the table

\* events counts the usage_events rows ever inserted for this inbox row.
Rows == [msg : Messages, inst : Instances, status : Statuses,
         attempts : Nat, events : Nat]

Points == {"idle", "decode", "resolve", "mark", "commit", "notify", "sleep"}
Continuations == {"idle", "commit", "failed"}

\* InsertRedisUsageInboxMessagesForInstance: the rows of one batch.
NewRows(msgs, inst) ==
    [i \in 1..Len(msgs) |->
        [msg |-> msgs[i], inst |-> inst, status |-> "pending",
         attempts |-> 0, events |-> 0]]

Init ==
    /\ nextMsg = 1
    /\ remote = <<>>
    /\ held = <<>>
    /\ lost = {}
    /\ inbox = <<>>
    /\ pc = "idle"
    /\ todo = {}
    /\ valid = {}
    /\ failing = {}
    /\ after = "idle"
    /\ full = FALSE
    /\ retry = FALSE
    /\ tried = {}
    /\ notified = {}
    /\ crashes = 0
    /\ gone = {}

-----------------------------------------------------------------------------
(* CPA and the ingest runner.                                              *)

\* CPA records one request and queues its usage message.
Produce ==
    /\ nextMsg <= MaxMessages
    /\ nextMsg' = nextMsg + 1
    /\ remote' = Append(remote, nextMsg)
    /\ UNCHANGED <<held, lost, inbox, workerVars, notified, crashes, gone>>

Popped(n) == SubSeq(remote, 1, n)

Pop(n) == remote' = SubSeq(remote, n + 1, Len(remote)) /\ UNCHANGED nextMsg

\* serialPullAndWrite: nothing is pulled while an earlier batch is unwritten;
\* a pull takes what is there, up to BatchSize.
Pull ==
    /\ held = <<>>
    /\ remote # <<>>
    /\ LET n == IF Len(remote) < BatchSize THEN Len(remote) ELSE BatchSize
       IN  /\ Pop(n)
           /\ held' = Append(held, Popped(n))
    /\ UNCHANGED <<lost, inbox, workerVars, notified, crashes, gone>>

\* writeSubscribeBatch: what the subscription delivered in one window is kept
\* behind the batches that could not be written before it.
Subscribe ==
    /\ \E n \in 1..Len(remote) :
          /\ n <= BatchSize
          /\ Pop(n)
          /\ held' = Append(held, Popped(n))
    /\ UNCHANGED <<lost, inbox, workerVars, notified, crashes, gone>>

\* CPA popped the messages but the reply did not arrive: LPOP and the
\* subscription are at-most-once.
LoseReply ==
    /\ \E n \in 1..Len(remote) :
          /\ n <= BatchSize
          /\ Pop(n)
          /\ lost' = lost \cup {remote[i] : i \in 1..n}
    /\ UNCHANGED <<held, inbox, workerVars, notified, crashes, gone>>

\* Variant with a fault: the newest held batch is written first.
InsertNewest ==
    /\ held # <<>>
    /\ inbox' = inbox \o NewRows(held[Len(held)], Legacy)
    /\ held' = SubSeq(held, 1, Len(held) - 1)
    /\ UNCHANGED <<remoteVars, lost, workerVars, notified, crashes, gone>>

\* writeInboxLocked: the oldest held batch is written in one transaction.
\* A failed write changes nothing: the batch stays where it is.
InsertHeld ==
    /\ held # <<>>
    /\ inbox' = inbox \o NewRows(Head(held), Legacy)
    /\ held' = Tail(held)
    /\ UNCHANGED <<remoteVars, lost, workerVars, notified, crashes, gone>>

\* CommitUsageBatch for a fresh sequence: a pushed message becomes a pending
\* row of its own instance (see KeeperExport for replays and acknowledgement).
\* The integrity triggers refuse rows of an instance that is not there.
Push(inst) ==
    /\ inst \notin gone
    /\ nextMsg <= MaxMessages
    /\ nextMsg' = nextMsg + 1
    /\ inbox' = inbox \o NewRows(<<nextMsg>>, inst)
    /\ UNCHANGED <<remote, held, lost, workerVars, notified, crashes, gone>>

-----------------------------------------------------------------------------
(* RedisProcessRunner and SyncService.ProcessRedisUsageInbox.              *)

\* Variant with a fault: discarded rows are listed again.
ProcessableDiscarded(inst) ==
    {r \in DOMAIN inbox : /\ inbox[r].inst = inst
                          /\ inbox[r].status \in Retryable \cup {"discarded"}}

Processable(inst) ==
    {r \in DOMAIN inbox : inbox[r].inst = inst /\ inbox[r].status \in Retryable}

AllProcessable == UNION {Processable(inst) : inst \in Instances}

\* ListProcessableRedisUsageInboxForInstance: the ProcessLimit lowest ids.
Oldest(rows) ==
    {r \in rows : Cardinality({q \in rows : q < r}) < ProcessLimit}

\* The rows with the lowest id: at most one.
Lowest(rows) == {r \in rows : \A q \in rows : r <= q}

\* Legacy rows first; otherwise the instance of the lowest processable id.
BatchInstances ==
    IF Processable(Legacy) # {} THEN {Legacy}
    ELSE {inbox[r].inst : r \in Lowest(AllProcessable)}

ListBatch ==
    /\ pc = "idle"
    /\ \E inst \in BatchInstances :
          /\ pc' = "decode"
          /\ todo' = Oldest(Processable(inst))
          /\ full' = (Cardinality(Processable(inst)) >= ProcessLimit)
    /\ UNCHANGED <<remoteVars, held, lost, inbox, valid, failing, after, retry,
                   tried, notified, crashes, gone>>

\* The end of a batch: its memory is dropped and the runner goes to next.
EndBatch(next) ==
    /\ pc' = next
    /\ todo' = {}
    /\ valid' = {}
    /\ failing' = {}
    /\ after' = "idle"
    /\ full' = FALSE
    /\ retry' = FALSE

\* An empty batch is not full: the runner sleeps.
ListEmpty ==
    /\ pc = "idle"
    /\ AllProcessable = {}
    /\ EndBatch("sleep")
    /\ UNCHANGED <<remoteVars, held, lost, inbox, tried, notified, crashes, gone>>

\* Variant with a fault: RetryPending is ignored after a full batch.
FinishEager == EndBatch(IF full THEN "idle" ELSE "sleep")

\* shouldContinueRedisProcessImmediately for a batch that did not fail: only
\* a full batch without rows to retry is followed by another one at once.
Finish == EndBatch(IF full /\ ~retry THEN "idle" ELSE "sleep")

MsgKind(r) == Kind[inbox[r].msg]

\* Variant with a fault: the decode failure is only logged.
DecodeFailedLogged(row) == row

\* markRedisUsageInboxFailedForInstance; a row the cleanup deleted meanwhile
\* matches no id and the UPDATE is silently empty.
DecodeFailed(row) ==
    IF row.status = "deleted" THEN row
    ELSE [row EXCEPT !.status = "decode_failed",
                     !.attempts = row.attempts + 1]

DecodeValid ==
    /\ pc = "decode"
    /\ \E r \in Lowest(todo) :
          /\ MsgKind(r) # "malformed"
          /\ todo' = todo \ {r}
          /\ valid' = valid \cup {r}
    /\ UNCHANGED <<remoteVars, held, lost, inbox, pc, failing, after, full,
                   retry, tried, notified, crashes, gone>>

DecodeMalformed ==
    /\ pc = "decode"
    /\ \E r \in Lowest(todo) :
          /\ MsgKind(r) = "malformed"
          /\ todo' = todo \ {r}
          /\ inbox' = [inbox EXCEPT ![r] = DecodeFailed(@)]
    /\ UNCHANGED <<remoteVars, held, lost, pc, valid, failing, after, full,
                   retry, tried, notified, crashes, gone>>

\* The decode_failed UPDATE failed: the batch is given up where it stands.
DecodeMarkError ==
    /\ pc = "decode"
    /\ \E r \in Lowest(todo) : MsgKind(r) = "malformed"
    /\ EndBatch("sleep")
    /\ UNCHANGED <<remoteVars, held, lost, inbox, tried, notified, crashes, gone>>

DecodeDone ==
    /\ pc = "decode"
    /\ todo = {}
    /\ IF valid = {}
       THEN Finish
       ELSE /\ pc' = "resolve"
            /\ UNCHANGED <<todo, valid, failing, after, full, retry>>
    /\ UNCHANGED <<remoteVars, held, lost, inbox, tried, notified, crashes, gone>>

Unresolved == {r \in valid : MsgKind(r) = "unresolved"}

\* normalizeRedisUsageEventsDetailed answered for every row.
Resolve ==
    /\ pc = "resolve"
    /\ pc' = "commit"
    /\ UNCHANGED <<remoteVars, held, lost, inbox, todo, valid, failing, after,
                   full, retry, tried, notified, crashes, gone>>

\* The identity query failed: only the rows that depend on it are given up.
ResolveError ==
    /\ pc = "resolve"
    /\ Unresolved # {}
    /\ pc' = "mark"
    /\ failing' = Unresolved
    /\ valid' = valid \ Unresolved
    /\ after' = IF valid \ Unresolved = {} THEN "failed" ELSE "commit"
    /\ UNCHANGED <<remoteVars, held, lost, inbox, todo, full, retry, tried,
                   notified, crashes, gone>>

\* Variants with a fault: one attempt too many, and a counter counting down.
ProcessFailedLate(row) ==
    IF row.status = "deleted" THEN row
    ELSE [row EXCEPT !.status = IF row.attempts >= MaxAttempts
                                THEN "discarded" ELSE "process_failed",
                     !.attempts = row.attempts + 1]

ProcessFailedDown(row) ==
    IF row.status = "deleted" THEN row
    ELSE [row EXCEPT !.status = IF row.attempts <= -MaxAttempts
                                THEN "discarded" ELSE "process_failed",
                     !.attempts = row.attempts - 1]

\* MarkRedisUsageInboxProcessFailedForInstance.
ProcessFailed(row) ==
    IF row.status = "deleted" THEN row
    ELSE [row EXCEPT !.status = IF row.attempts + 1 >= MaxAttempts
                                THEN "discarded" ELSE "process_failed",
                     !.attempts = row.attempts + 1]

\* One row of markRedisInboxRowsProcessFailed: the UPDATE, then the read back
\* (readable) that decides whether the batch must wait.  A deleted row cannot
\* be read back.
MarkFailed ==
    /\ pc = "mark"
    /\ \E r \in Lowest(failing), readable \in BOOLEAN :
          LET row == ProcessFailed(inbox[r])
          IN  /\ failing' = failing \ {r}
              /\ inbox' = [inbox EXCEPT ![r] = row]
              /\ tried' = tried \cup {r}
              /\ retry' = (retry \/ ~readable \/ row.status # "discarded")
    /\ UNCHANGED <<remoteVars, held, lost, pc, todo, valid, after, full,
                   notified, crashes, gone>>

\* The UPDATE itself failed: the row keeps its state, the batch waits.
MarkFailedError ==
    /\ pc = "mark"
    /\ \E r \in Lowest(failing) : failing' = failing \ {r}
    /\ retry' = TRUE
    /\ UNCHANGED <<remoteVars, held, lost, inbox, pc, todo, valid, after, full,
                   tried, notified, crashes, gone>>

\* All marks are made: the batch goes on with its ready rows, or has failed
\* and waits for the next interval.
MarkDone ==
    /\ pc = "mark"
    /\ failing = {}
    /\ IF after = "commit"
       THEN /\ pc' = "commit"
            /\ UNCHANGED <<todo, valid, failing, after, full, retry>>
       ELSE EndBatch("sleep")
    /\ UNCHANGED <<remoteVars, held, lost, inbox, tried, notified, crashes, gone>>

\* Variant with a fault: the mark is outside the transaction and is lost.
CommittedUnmarked(row) == [row EXCEPT !.events = row.events + 1]

\* The row as the committing transaction leaves it: one more usage event, and
\* the processed mark if the row is still there.
Committed(row) ==
    [row EXCEPT !.events = row.events + 1,
                !.status = IF row.status = "deleted" THEN "deleted"
                           ELSE "processed"]

\* Variant with a fault: no trigger guards usage_events.
CommitUnguarded ==
    /\ pc = "commit"
    /\ pc' = "notify"
    /\ inbox' = [r \in DOMAIN inbox |->
                    IF r \in valid THEN Committed(inbox[r]) ELSE inbox[r]]
    /\ UNCHANGED <<remoteVars, held, lost, todo, valid, failing, after, full,
                   retry, tried, notified, crashes, gone>>

\* usage_events and the processed marks, in one transaction, which the
\* integrity triggers abort if the instance was deleted meanwhile.
Commit ==
    /\ pc = "commit"
    /\ \A r \in valid : inbox[r].inst \notin gone
    /\ pc' = "notify"
    /\ inbox' = [r \in DOMAIN inbox |->
                    IF r \in valid THEN Committed(inbox[r]) ELSE inbox[r]]
    /\ UNCHANGED <<remoteVars, held, lost, todo, valid, failing, after, full,
                   retry, tried, notified, crashes, gone>>

\* The fee is not finite, or the transaction failed and rolled back.
CommitError ==
    /\ pc = "commit"
    /\ pc' = "mark"
    /\ failing' = valid
    /\ valid' = {}
    /\ after' = "failed"
    /\ UNCHANGED <<remoteVars, held, lost, inbox, todo, full, retry, tried,
                   notified, crashes, gone>>

\* NotifyUsageEventsCommitted and the other listeners, then the end of the
\* batch.
Notify ==
    /\ pc = "notify"
    /\ notified' = notified \cup valid
    /\ Finish
    /\ UNCHANGED <<remoteVars, held, lost, inbox, tried, crashes, gone>>

Wake ==
    /\ pc = "sleep"
    /\ pc' = "idle"
    /\ tried' = {}
    /\ UNCHANGED <<remoteVars, held, lost, inbox, todo, valid, failing, after,
                   full, retry, notified, crashes, gone>>

-----------------------------------------------------------------------------
(* Storage cleanup and crashes.                                            *)

\* What CleanupRedisUsageInboxForInstance deletes if it is old enough.
Expirable(row) ==
    /\ row.inst = Legacy
    /\ row.status \in {"processed", "decode_failed", "process_failed",
                       "discarded"}

\* The daily cleanup; how old a row is, is left open.  It takes no lock that
\* excludes a running batch.
Cleanup ==
    /\ \E r \in DOMAIN inbox :
          /\ Expirable(inbox[r])
          /\ inbox' = [inbox EXCEPT ![r].status = "deleted"]
    /\ UNCHANGED <<remoteVars, held, lost, workerVars, notified, crashes, gone>>

\* CPAInstanceRepository.Delete: one transaction removes every row of the
\* instance, whatever its status and whoever is working on it.
DeleteInstance(inst) ==
    /\ inst \notin gone \cup {Legacy}
    /\ gone' = gone \cup {inst}
    /\ inbox' = [r \in DOMAIN inbox |->
                    IF inbox[r].inst = inst
                    THEN [inbox[r] EXCEPT !.status = "deleted"]
                    ELSE inbox[r]]
    /\ UNCHANGED <<remoteVars, held, lost, workerVars, notified, crashes>>

HeldMessages == UNION {{held[b][i] : i \in 1..Len(held[b])} : b \in 1..Len(held)}

\* The process stops, is killed or loses power: memory is gone, tables stay.
\* An orderly shutdown is the same, its writes are cancelled.
Crash ==
    /\ crashes < MaxCrashes
    /\ crashes' = crashes + 1
    /\ lost' = lost \cup HeldMessages
    /\ held' = <<>>
    /\ EndBatch("idle")
    /\ tried' = {}
    /\ UNCHANGED <<remoteVars, inbox, notified, gone>>

-----------------------------------------------------------------------------
Ingest == Produce \/ Pull \/ Subscribe \/ LoseReply \/ InsertHeld
          \/ \E inst \in Instances \ {Legacy} : Push(inst)

Process ==
    \/ ListBatch \/ ListEmpty \/ DecodeValid \/ DecodeMalformed
    \/ DecodeMarkError \/ DecodeDone \/ Resolve \/ ResolveError
    \/ MarkFailed \/ MarkFailedError \/ MarkDone
    \/ Commit \/ CommitError \/ Notify \/ Wake

Next ==
    \/ Ingest \/ Process \/ Cleanup \/ Crash
    \/ \E inst \in Instances : DeleteInstance(inst)

Spec == Init /\ [][Next]_vars

\* The loops keep running, and a write that is tried again and again is not
\* refused for ever (busy_timeout and backoff); nothing else is assumed.
Fairness ==
    /\ WF_vars(Process)
    /\ SF_vars(Pull)
    /\ SF_vars(InsertHeld)
    /\ SF_vars(DecodeMalformed)
    /\ SF_vars(MarkFailed)

FairSpec == Spec /\ Fairness
-----------------------------------------------------------------------------
(* Properties.                                                             *)

TypeOK ==
    /\ nextMsg \in Nat \ {0} /\ remote \in Seq(Messages)
    /\ held \in Seq(Seq(Messages))
    /\ lost \subseteq Messages
    /\ inbox \in Seq(Rows)
    /\ pc \in Points /\ after \in Continuations
    /\ todo \subseteq DOMAIN inbox
    /\ valid \subseteq DOMAIN inbox
    /\ failing \subseteq DOMAIN inbox
    /\ tried \subseteq DOMAIN inbox
    /\ notified \subseteq DOMAIN inbox
    /\ full \in BOOLEAN /\ retry \in BOOLEAN
    /\ crashes \in Nat /\ gone \subseteq Instances \ {Legacy}

\* A message is counted at most once, and a row says truly whether it was:
\* processed rows have their usage event, rows that may be tried again, could
\* not be decoded or were discarded have none.  This is what the single
\* transaction of processRedisInboxRows, the one-batch-at-a-time runner and
\* the separate failure marks are for; partial batches, crashes between the
\* statements and the concurrent cleanup must not break it.
ExactlyOnce ==
    \A r \in DOMAIN inbox :
        /\ inbox[r].events <= 1
        /\ inbox[r].status = "processed" => inbox[r].events = 1
        /\ inbox[r].status \in Retryable \cup {"decode_failed", "discarded"}
              => inbox[r].events = 0

\* The retry budget of redisUsageInboxMaxProcessAttempts: a row is discarded
\* exactly at the last attempt, never earlier, and never kept beyond it.
RetryBudget ==
    \A r \in DOMAIN inbox :
        /\ inbox[r].status = "discarded" => inbox[r].attempts = MaxAttempts
        /\ inbox[r].status \in Retryable => inbox[r].attempts < MaxAttempts

\* A row whose failure was recorded is not failed again before the runner has
\* slept: RetryPending keeps a full batch from burning the five attempts in
\* one drain (shouldContinueRedisProcessImmediately).
NoHotRetry ==
    [][\A r \in tried : inbox'[r].attempts = inbox[r].attempts]_vars

\* Rows that left the retryable states are settled: no later batch, failure
\* mark or stale in-memory list changes them, except that cleanup deletes.
SettledRowsStay ==
    [][\A r \in DOMAIN inbox :
          inbox[r].status \in {"processed", "decode_failed", "discarded"}
            => /\ inbox'[r].status \in {inbox[r].status, "deleted"}
               /\ inbox'[r].events = inbox[r].events]_vars

\* Deleting an instance is final: a batch that listed its rows before cannot
\* give it usage events afterwards, and no row of it appears or comes back.
DeletionIsFinal ==
    [][\A r \in DOMAIN inbox' :
          inbox'[r].inst \in gone
            => r \in DOMAIN inbox /\ inbox'[r] = inbox[r]]_vars

\* Listeners hear only of usage events that are committed.
NotifiedAreCommitted == \A r \in notified : inbox[r].events = 1

\* Every message CPA handed out is somewhere: still in CPA, held for a retry
\* of the inbox write, in the table, or lost with a reply or a crash; and in
\* one of these places only.
StoredMessages == {inbox[r].msg : r \in DOMAIN inbox}
QueuedMessages == {remote[i] : i \in DOMAIN remote}

NothingVanishes ==
    /\ 1..(nextMsg - 1) =
          QueuedMessages \cup HeldMessages \cup StoredMessages \cup lost
    /\ QueuedMessages \cap HeldMessages = {}
    /\ (QueuedMessages \cup HeldMessages) \cap StoredMessages = {}
    /\ lost \cap (QueuedMessages \cup HeldMessages \cup StoredMessages) = {}
    /\ \A r, q \in DOMAIN inbox : inbox[r].msg = inbox[q].msg => r = q

\* Legacy rows are written in the order CPA produced the messages, also when
\* a batch had to be written again after later ones arrived.
ArrivalOrder ==
    \A r, q \in DOMAIN inbox :
        inbox[r].inst = Legacy /\ inbox[q].inst = Legacy /\ r < q
          => inbox[r].msg < inbox[q].msg

\* Every row is eventually processed, given up or cleaned away.
RowsSettle ==
    \A r \in Messages :
        []<>(r \in DOMAIN inbox => inbox[r].status \notin Retryable)

\* A popped batch is eventually written (or lost in a crash), and what waits
\* in CPA is eventually taken.
QueuesDrain == []<>(held = <<>>) /\ []<>(remote = <<>>)

\* What the ingest runners and the writer do to messages between CPA and the
\* inbox table: none vanishes, none is doubled, and their order is kept.
MessagesKept == NothingVanishes /\ ArrivalOrder

\* What must eventually happen in the pipeline: batches and queues are emptied
\* and rows leave the retry states.
Settles == RowsSettle /\ QueuesDrain
-----------------------------------------------------------------------------
(* UsageInbox implements UsageLedger: the tables, the memory of the ingest *)
(* runner and the running batch together decide every message once.        *)

\* Rows whose fate the running batch still holds in its hands; the cleanup
\* may already have deleted them.
InFlight == todo \cup valid \cup failing

RowsOf(m) == {r \in DOMAIN inbox : inbox[r].msg = m}

\* A usage event was inserted for the message.
Counted(m) == \E r \in RowsOf(m) : inbox[r].events > 0

\* The message did not arrive, or its row is settled for good.
GivenUp(m) ==
    \/ m \in lost
    \/ \E r \in RowsOf(m) \ InFlight : inbox[r].status \notin Retryable

OutcomeOf(m) ==
    IF m >= nextMsg THEN "unknown"
    ELSE IF Counted(m) THEN "counted"
    ELSE IF GivenUp(m) THEN "given_up"
    ELSE "offered"

\* The rows of usage_events: the inbox row each was made from, and its number.
EventRows == UNION {{r} \X (1..inbox[r].events) : r \in DOMAIN inbox}

Ledger == INSTANCE UsageLedger WITH
    outcome <- [m \in Messages |-> OutcomeOf(m)],
    total   <- Cardinality(EventRows)

\* The pipeline counts every message CPA offers at most once, never counts a
\* message it gave up (discarded, undecodable, expired or lost), and
\* usage_events holds exactly one row per counted message.
ImplementsLedger == Ledger!Spec
=============================================================================
