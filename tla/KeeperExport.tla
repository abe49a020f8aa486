---------------------------- MODULE KeeperExport ----------------------------
(***************************************************************************)
(* Usage pushed by the exporter of a CPA instance: POST /export/usage.     *)
(*                                                                         *)
(* The exporter numbers its events 1, 2, ... per stream, keeps every event *)
(* it has no acknowledgement for and sends any of them again at any time.  *)
(* Requests are delayed, repeated and handled concurrently; replies get    *)
(* lost.  A request is authenticated in two reads and committed in one     *)
(* transaction, and the administrator acts in between.                     *)
(***************************************************************************)
EXTENDS KeeperInstances

CONSTANTS
    Streams,        \* stream ids of an instance
    Handlers,       \* concurrent HTTP handlers
    PushScope,      \* credentials issued with usage:push
    MaxSeq,         \* bound: events per stream
    ChangedReplays  \* whether an exporter may send another payload later

ASSUME ExportAssumption ==
    /\ MaxSeq \in Nat
    /\ PushScope \subseteq Credentials
    /\ ChangedReplays \in BOOLEAN

Keys == Instances \X Streams
Seqs == 1..MaxSeq

\* SHA-256 of the payload: the one the event was first sent with, or another.
Digests == {"first", "changed"}
NoDigest == "none"

VARIABLES
    produced,   \* produced[k]: events in the exporter's stream k
    acked,      \* acked[k]: highest acknowledgement the exporter has seen
    handler,    \* the request each handler works on, or its reply under way
    ledger,     \* cpa_usage_deliveries: digest by key and sequence
    rows,       \* inbox rows ever created, by key and sequence
    mark        \* cpa_usage_stream_watermarks.acknowledged_through

exporterVars == <<produced, acked>>
storeVars == <<ledger, rows, mark>>
vars == <<instance, credential, produced, acked, handler, ledger, rows, mark>>

Idle == [at |-> "idle"]

Requests == [at : {"credential", "instance", "commit"}, cred : Credentials,
             key : Keys, batch : SUBSET Seqs, changed : SUBSET Seqs]

Replies == [at : {"reply"}, key : Keys, through : 0..MaxSeq]

EmptyLedger == [s \in Seqs |-> NoDigest]
NoRows == [s \in Seqs |-> 0]

Init ==
    /\ InstancesInit
    /\ produced = [k \in Keys |-> 0]
    /\ acked = [k \in Keys |-> 0]
    /\ handler = [h \in Handlers |-> Idle]
    /\ ledger = [k \in Keys |-> EmptyLedger]
    /\ rows = [k \in Keys |-> NoRows]
    /\ mark = [k \in Keys |-> 0]

-----------------------------------------------------------------------------
(* The exporter.                                                           *)

Produce(k) ==
    /\ produced[k] < MaxSeq
    /\ produced' = [produced EXCEPT ![k] = produced[k] + 1]
    /\ UNCHANGED <<instanceVars, acked, handler, storeVars>>

\* A request reaches a free handler: fresh events, a retry, or a copy that
\* was delayed until after its acknowledgement.  Gaps are legal.
Arrive(h, c, st, batch, changed) ==
    LET k == <<credential[c].owner, st>>
    IN  /\ handler[h] = Idle
        /\ credential[c].state # "unused"
        /\ batch # {} /\ batch \subseteq 1..produced[k]
        /\ changed \subseteq batch
        /\ handler' = [handler EXCEPT
               ![h] = [at |-> "credential", cred |-> c, key |-> k,
                       batch |-> batch, changed |-> changed]]
        /\ UNCHANGED <<instanceVars, exporterVars, storeVars>>

\* What the exporter retries: everything it has no acknowledgement for.
Retry(h, c, st) ==
    LET k == <<credential[c].owner, st>>
    IN  Arrive(h, c, st, (acked[k] + 1)..produced[k], {})

\* The reply arrives; replies may overtake each other.
ReceiveAck(h) ==
    LET k == handler[h].key
        n == handler[h].through
    IN  /\ handler[h].at = "reply"
        /\ handler' = [handler EXCEPT ![h] = Idle]
        /\ acked' = [acked EXCEPT ![k] = IF n > acked[k] THEN n ELSE acked[k]]
        /\ UNCHANGED <<instanceVars, produced, storeVars>>

-----------------------------------------------------------------------------
(* The handler.                                                            *)

Step(h, point) == handler' = [handler EXCEPT ![h].at = point]
Done(h) == handler' = [handler EXCEPT ![h] = Idle]

\* The first read of Authenticate: the credential.
CheckCredential(h) ==
    /\ handler[h].at = "credential"
    /\ IF Valid(handler[h].cred) THEN Step(h, "instance") ELSE Done(h)
    /\ UNCHANGED <<instanceVars, exporterVars, storeVars>>

\* The second read, of the instance, then the scope.
CheckInstance(h) ==
    /\ handler[h].at = "instance"
    /\ IF instance[handler[h].key[1]] = "enabled" /\ handler[h].cred \in PushScope
       THEN Step(h, "commit")
       ELSE Done(h)
    /\ UNCHANGED <<instanceVars, exporterVars, storeVars>>

\* The request ends without effect: rate limited, undecodable, timed out,
\* cancelled, refused by the database, or the keeper stopped; or the reply
\* is lost after the commit.
Fail(h) ==
    /\ handler[h] # Idle
    /\ Done(h)
    /\ UNCHANGED <<instanceVars, exporterVars, storeVars>>

DigestOf(r, s) == IF s \in r.changed THEN "changed" ELSE "first"

\* Sequences that were stored with another payload.
Conflicting(r) ==
    {s \in r.batch : ledger[r.key][s] \notin {NoDigest, DigestOf(r, s)}}

\* Variant with a fault: a replay is recognised by the watermark.
FreshAboveMark(r) == {s \in r.batch : s > mark[r.key]}

\* Events of the batch that are not replays.
Fresh(r) == {s \in r.batch : ledger[r.key][s] = NoDigest}

Accept(r) ==
    /\ ledger' = [ledger EXCEPT ![r.key] =
           [s \in Seqs |-> IF s \in Fresh(r) THEN DigestOf(r, s)
                           ELSE ledger[r.key][s]]]
    /\ rows' = [rows EXCEPT ![r.key] =
           [s \in Seqs |-> IF s \in Fresh(r) THEN rows[r.key][s] + 1
                           ELSE rows[r.key][s]]]

\* Variants with a fault: the highest stored sequence, gaps or not; and an
\* advance by one sequence only.
ReachesHighest(stored, from, n) ==
    n \in stored \cup {from} /\ \A s \in stored : s <= n

ReachesOnce(stored, from, n) ==
    n = IF from + 1 \in stored THEN from + 1 ELSE from

\* n is the end of the contiguous run of stored sequences that begins after
\* from.
Reaches(stored, from, n) ==
    /\ n \in from..MaxSeq
    /\ (from + 1)..n \subseteq stored
    /\ n + 1 \notin stored

\* Variant with a fault: no trigger guards the tables.
CommitUnguarded(h) ==
    LET r == handler[h]
    IN  /\ r.at = "commit"
        /\ Conflicting(r) = {}
        /\ Accept(r)
        /\ Done(h)
        /\ UNCHANGED <<instanceVars, exporterVars, mark>>

\* CommitUsageBatch: the fresh events, the watermark and the reply.  The
\* integrity triggers refuse rows of an instance that is not there.
Commit(h) ==
    LET r == handler[h]
    IN  /\ r.at = "commit"
        /\ Exists(r.key[1])
        /\ Conflicting(r) = {}
        /\ Accept(r)
        /\ \E n \in 0..MaxSeq :
              /\ Reaches({s \in Seqs : ledger'[r.key][s] # NoDigest},
                         mark[r.key], n)
              /\ mark' = [mark EXCEPT ![r.key] = n]
              /\ handler' = [handler EXCEPT
                     ![h] = [at |-> "reply", key |-> r.key, through |-> n]]
        /\ UNCHANGED <<instanceVars, exporterVars>>

\* ErrConflictingUsageReplay rolls the whole batch back: 409, no effect.
Conflict(h) ==
    /\ handler[h].at = "commit"
    /\ Exists(handler[h].key[1])
    /\ Conflicting(handler[h]) # {}
    /\ Done(h)
    /\ UNCHANGED <<instanceVars, exporterVars, storeVars>>

\* CPAInstanceRepository.Delete.
Delete(i) ==
    /\ Deletable(i)
    /\ Removed(i)
    /\ ledger' = [k \in Keys |-> IF k[1] = i THEN EmptyLedger ELSE ledger[k]]
    /\ rows' = [k \in Keys |-> IF k[1] = i THEN NoRows ELSE rows[k]]
    /\ mark' = [k \in Keys |-> IF k[1] = i THEN 0 ELSE mark[k]]
    /\ UNCHANGED <<exporterVars, handler>>

AdministerOnly ==
    Administer /\ UNCHANGED <<exporterVars, handler, storeVars>>

Handle(h) ==
    \/ CheckCredential(h) \/ CheckInstance(h) \/ Commit(h) \/ Conflict(h)

Next ==
    \/ \E k \in Keys : Produce(k)
    \/ \E h \in Handlers, c \in Credentials, st \in Streams,
          batch, changed \in SUBSET Seqs :
          /\ changed # {} => ChangedReplays
          /\ Arrive(h, c, st, batch, changed)
    \/ \E h \in Handlers : Handle(h) \/ Fail(h) \/ ReceiveAck(h)
    \/ AdministerOnly
    \/ \E i \in Instances : Delete(i)

Spec == Init /\ [][Next]_vars

\* A request of credential c for everything its exporter has no
\* acknowledgement for, and the reply to one.
Whole(h, c) ==
    /\ handler[h].at \in {"credential", "instance", "commit"}
    /\ handler[h].cred = c
    /\ (acked[handler[h].key] + 1)..produced[handler[h].key] \subseteq handler[h].batch

News(h) == handler[h].at = "reply" /\ handler[h].through > acked[handler[h].key]

\* The exporter goes on retrying with every credential it has, handlers run,
\* and of the retries not all requests and not all replies fail.
Fairness ==
    \A h \in Handlers :
        /\ WF_vars(Handle(h) \/ ReceiveAck(h) \/ Fail(h))
        /\ SF_vars(News(h) /\ ReceiveAck(h))
        /\ \A c \in Credentials :
              /\ SF_vars(Whole(h, c) /\ CheckCredential(h))
              /\ SF_vars(Whole(h, c) /\ CheckInstance(h))
              /\ SF_vars(Whole(h, c) /\ Commit(h))
              /\ \A st \in Streams : SF_vars(Retry(h, c, st))

FairSpec == Spec /\ Fairness
-----------------------------------------------------------------------------
(* Properties.                                                             *)

TypeOK ==
    /\ InstancesTypeOK
    /\ produced \in [Keys -> 0..MaxSeq] /\ acked \in [Keys -> 0..MaxSeq]
    /\ handler \in [Handlers -> Requests \cup Replies \cup {Idle}]
    /\ ledger \in [Keys -> [Seqs -> Digests \cup {NoDigest}]]
    /\ rows \in [Keys -> [Seqs -> Nat]]
    /\ mark \in [Keys -> 0..MaxSeq]

\* However often and in whatever order a sequence is sent, also by two
\* handlers at once and after its inbox row was consumed, it is one inbox row.
StoredOnce ==
    \A k \in Keys, s \in Seqs :
        rows[k][s] = IF ledger[k][s] = NoDigest THEN 0 ELSE 1

\* The watermark is the end of the contiguous run: it covers only stored
\* events, and no stored event waits behind it.
WatermarkExact ==
    \A k \in Keys :
        /\ \A s \in 1..mark[k] : ledger[k][s] # NoDigest
        /\ mark[k] < MaxSeq => ledger[k][mark[k] + 1] = NoDigest

\* An exporter may drop what is acknowledged: neither an acknowledgement that
\* is under way, however late, nor one it has seen covers an event that the
\* keeper does not have.
AcksAreStored ==
    /\ \A h \in Handlers :
          handler[h].at = "reply" /\ Exists(handler[h].key[1])
            => \A s \in 1..handler[h].through : rows[handler[h].key][s] = 1
    /\ \A k \in Keys : Exists(k[1])
          => \A s \in 1..acked[k] : rows[k][s] = 1

\* The delivery ledger is immutable: the payload stored first stays, whatever
\* is sent later, until the whole instance is deleted.
FirstPayloadStays ==
    [][\A k \in Keys, s \in Seqs :
          ledger[k][s] # NoDigest /\ Exists(k[1])'
            => ledger'[k][s] = ledger[k][s]]_vars

\* A request that was authenticated before its instance was deleted leaves
\* nothing behind.
NothingAfterDelete ==
    \A k \in Keys : ~Exists(k[1])
        => ledger[k] = EmptyLedger /\ rows[k] = NoRows /\ mark[k] = 0

\* Credentials never outlive their instance.
NoOrphanCredentials ==
    \A c \in Credentials :
        credential[c].state \in {"active", "revoked"} => Exists(credential[c].owner)

\* A stream with a usable credential is drained: lost requests and replies,
\* gaps and restarts need no reset.
Usable(k) ==
    /\ instance[k[1]] = "enabled"
    /\ \E c \in Active(k[1]) : Valid(c) /\ c \in PushScope

StreamsDrain ==
    \A k \in Keys : []<>(acked[k] = produced[k] \/ ~Usable(k))
=============================================================================
