--------------------------- MODULE MetadataExport ---------------------------
(***************************************************************************)
(* Metadata pushed by the exporter of a CPA instance: PUT                  *)
(* /export/metadata/<category>.  A request replaces one category of one    *)
(* instance as a whole and carries a revision.  The exporter numbers its   *)
(* snapshots, sends any of them again, and forgets its numbers when it is  *)
(* reinstalled; the keeper orders what arrives by the revision alone.      *)
(***************************************************************************)
EXTENDS KeeperInstances

CONSTANTS
    Categories,     \* auth_files, api_keys, provider_identities
    Items,          \* identities of a category's items
    Pushers,        \* concurrent HTTP handlers
    MetadataScope,  \* credentials issued with metadata:push
    MaxRevision,    \* bound: revisions an exporter uses
    MaxChanges,     \* bound: changes of a category upstream
    MaxLives        \* bound: times an exporter starts to count from one

ASSUME MetadataAssumption ==
    /\ MaxRevision \in Nat /\ MaxChanges \in Nat /\ MaxLives \in Nat \ {0}
    /\ MetadataScope \subseteq Credentials

Scopes == Instances \X Categories

\* A request body: the complete items, of which change of the upstream list,
\* sent in which life of the exporter.  Its SHA-256 stands for all of it.
Bodies == [items : SUBSET Items, change : 0..MaxChanges, life : 1..MaxLives]

NoSnapshot == [revision |-> 0,
               body |-> [items |-> {}, change |-> 0, life |-> 1]]

VARIABLES
    upstream,   \* upstream[k]: the category as the CPA instance has it
    counter,    \* counter[k]: the exporter's revision and life
    pusher,     \* the request each handler works on, or its reply
    snapshot,   \* cpa_metadata_snapshots: revision and digest of the last body
    rowState    \* usage_identities or cpa_api_keys: the rows of a category

metadataExporterVars == <<upstream, counter>>
metadataVars == <<upstream, counter, pusher, snapshot, rowState>>

Waiting == [at |-> "idle"]

MetadataInit ==
    /\ upstream = [k \in Scopes |-> [items |-> {}, change |-> 0]]
    /\ counter = [k \in Scopes |-> [revision |-> 0, life |-> 1]]
    /\ pusher = [h \in Pushers |-> Waiting]
    /\ snapshot = [k \in Scopes |-> NoSnapshot]
    /\ rowState = [k \in Scopes |-> [x \in Items |-> "absent"]]

LiveRows(k) == {x \in Items : rowState[k][x] = "live"}
-----------------------------------------------------------------------------
(* The exporter.                                                           *)

HasExporter(i) ==
    \E c \in Credentials : credential[c].owner = i /\ credential[c].state # "unused"

ChangeUpstream(k, items) ==
    /\ HasExporter(k[1])
    /\ upstream[k].change < MaxChanges
    /\ items # upstream[k].items
    /\ upstream' = [upstream EXCEPT ![k] =
           [items |-> items, change |-> upstream[k].change + 1]]
    /\ UNCHANGED <<instanceVars, counter, pusher, snapshot, rowState>>

Reinstall(k) ==
    /\ HasExporter(k[1])
    /\ counter[k].life < MaxLives
    /\ counter' = [counter EXCEPT
           ![k] = [revision |-> 0, life |-> counter[k].life + 1]]
    /\ UNCHANGED <<instanceVars, upstream, pusher, snapshot, rowState>>

\* A new snapshot of what is upstream now.  A request that is not complete,
\* repeats an identity or does not decode is not well formed.
Push(h, c, cat, wellFormed) ==
    LET k == <<credential[c].owner, cat>>
        r == counter[k].revision + 1
    IN  /\ pusher[h] = Waiting
        /\ credential[c].state # "unused"
        /\ r <= MaxRevision
        /\ counter' = [counter EXCEPT ![k].revision = r]
        /\ pusher' = [pusher EXCEPT
               ![h] = [at |-> "credential", cred |-> c, key |-> k,
                       wellFormed |-> wellFormed, revision |-> r,
                       body |-> [items |-> upstream[k].items,
                                 change |-> upstream[k].change,
                                 life |-> counter[k].life]]]
        /\ UNCHANGED <<instanceVars, upstream, snapshot, rowState>>

\* The same request once more, beside the first or after it.
Repeat(h, g) ==
    /\ pusher[h] = Waiting
    /\ pusher[g].at \in {"credential", "reply"}
    /\ pusher' = [pusher EXCEPT ![h] =
           [at |-> "credential", cred |-> pusher[g].cred, key |-> pusher[g].key,
            wellFormed |-> pusher[g].wellFormed, revision |-> pusher[g].revision,
            body |-> pusher[g].body]]
    /\ UNCHANGED <<instanceVars, metadataExporterVars, snapshot, rowState>>

\* After a conflict the exporter goes on from X-Keeper-Export-Current-Revision.
ReceiveReply(h) ==
    LET k == pusher[h].key
    IN  /\ pusher[h].at = "reply"
        /\ pusher' = [pusher EXCEPT ![h] = Waiting]
        /\ counter' = [counter EXCEPT ![k].revision =
               IF pusher[h].hint > counter[k].revision
                 THEN pusher[h].hint ELSE counter[k].revision]
        /\ UNCHANGED <<instanceVars, upstream, snapshot, rowState>>
-----------------------------------------------------------------------------
(* The handler.                                                            *)

Leaves(h) == pusher' = [pusher EXCEPT ![h] = Waiting]
Goes(h, point) == pusher' = [pusher EXCEPT ![h].at = point]

Answered(h, hint) ==
    pusher' = [pusher EXCEPT
        ![h] = [at |-> "reply", cred |-> pusher[h].cred, key |-> pusher[h].key,
                wellFormed |-> TRUE, revision |-> pusher[h].revision,
                body |-> pusher[h].body, hint |-> hint]]

\* The first read of Authenticate.
PushCredential(h) ==
    /\ pusher[h].at = "credential"
    /\ IF Valid(pusher[h].cred) THEN Goes(h, "instance") ELSE Leaves(h)
    /\ UNCHANGED <<instanceVars, metadataExporterVars, snapshot, rowState>>

\* The second read, the scope, then DecodeMetadataSnapshot.
PushDecode(h) ==
    /\ pusher[h].at = "instance"
    /\ IF /\ instance[pusher[h].key[1]] = "enabled"
          /\ pusher[h].cred \in MetadataScope
          /\ pusher[h].wellFormed
       THEN Goes(h, "commit")
       ELSE Leaves(h)
    /\ UNCHANGED <<instanceVars, metadataExporterVars, snapshot, rowState>>

\* Rate limited, timed out, refused by the database, the keeper stopped, or
\* the reply lost.
PushFails(h) ==
    /\ pusher[h] # Waiting
    /\ Leaves(h)
    /\ UNCHANGED <<instanceVars, metadataExporterVars, snapshot, rowState>>

\* Variants with a fault: the ledger's revision is not looked at; and a
\* repeated revision is taken for a repeated request.
AppliesAlways(k, r) == TRUE
ConflictingNever(k, r) == FALSE

Applies(k, r) == snapshot[k].revision = 0 \/ r.revision > snapshot[k].revision

\* The revision is the current one, with another body.
ConflictingBody(k, r) ==
    r.revision = snapshot[k].revision /\ r.body # snapshot[k].body

\* Rows that are there are updated or restored, rows that are not are
\* created, and live rows that the snapshot does not name are marked deleted.
Replaced(old, items) ==
    [x \in Items |-> IF x \in items THEN "live"
                     ELSE IF old[x] = "live" THEN "deleted" ELSE old[x]]

\* CommitMetadataSnapshot applies the body.  The triggers refuse to create
\* rows of an instance that is gone, and the transaction with them.
ApplySnapshot(h) ==
    LET k == pusher[h].key
        r == pusher[h]
    IN  /\ r.at = "commit"
        /\ Applies(k, r)
        /\ Exists(k[1]) \/ \A x \in r.body.items : rowState[k][x] # "absent"
        /\ rowState' = [rowState EXCEPT ![k] = Replaced(rowState[k], r.body.items)]
        /\ snapshot' = [snapshot EXCEPT
               ![k] = [revision |-> r.revision, body |-> r.body]]
        /\ Answered(h, 0)
        /\ UNCHANGED <<instanceVars, metadataExporterVars>>

\* An exact replay of the current revision is a success without effect.
ReplaySnapshot(h) ==
    LET k == pusher[h].key
        r == pusher[h]
    IN  /\ r.at = "commit"
        /\ ~Applies(k, r)
        /\ r.revision = snapshot[k].revision
        /\ ~ConflictingBody(k, r)
        /\ Answered(h, 0)
        /\ UNCHANGED <<instanceVars, metadataExporterVars, snapshot, rowState>>

\* stale_revision and conflicting_revision: 409 with the current revision.
RefuseSnapshot(h) ==
    LET k == pusher[h].key
        r == pusher[h]
    IN  /\ r.at = "commit"
        /\ ~Applies(k, r)
        /\ r.revision < snapshot[k].revision \/ ConflictingBody(k, r)
        /\ Answered(h, snapshot[k].revision)
        /\ UNCHANGED <<instanceVars, metadataExporterVars, snapshot, rowState>>

\* CPAInstanceRepository.Delete removes the rows of the instance; the
\* revision ledger is not among the tables it empties.
DeleteMetadata(i) ==
    /\ Deletable(i)
    /\ Removed(i)
    /\ rowState' = [k \in Scopes |-> IF k[1] = i THEN [x \in Items |-> "absent"]
                                     ELSE rowState[k]]
    /\ UNCHANGED <<metadataExporterVars, pusher, snapshot>>

MetadataNext ==
    \/ \E k \in Scopes, items \in SUBSET Items : ChangeUpstream(k, items)
    \/ \E k \in Scopes : Reinstall(k)
    \/ \E h \in Pushers, c \in Credentials, cat \in Categories, w \in BOOLEAN :
          Push(h, c, cat, w)
    \/ \E h, g \in Pushers : Repeat(h, g)
    \/ \E h \in Pushers :
          \/ PushCredential(h) \/ PushDecode(h) \/ PushFails(h) \/ ReceiveReply(h)
          \/ ApplySnapshot(h) \/ ReplaySnapshot(h) \/ RefuseSnapshot(h)
    \/ Administer /\ UNCHANGED metadataVars
    \/ \E i \in Instances : DeleteMetadata(i)

MetadataSpec ==
    /\ InstancesInit /\ MetadataInit
    /\ [][MetadataNext]_<<instanceVars, metadataVars>>
-----------------------------------------------------------------------------
(* Properties.                                                             *)

PushRequests ==
    [at : {"credential", "instance", "commit"}, cred : Credentials,
     key : Scopes, wellFormed : BOOLEAN, revision : Nat \ {0}, body : Bodies]

PushReplies ==
    [at : {"reply"}, cred : Credentials, key : Scopes, wellFormed : {TRUE},
     revision : Nat \ {0}, body : Bodies, hint : Nat]

MetadataTypeOK ==
    /\ InstancesTypeOK
    /\ upstream \in [Scopes -> [items : SUBSET Items, change : 0..MaxChanges]]
    /\ counter \in [Scopes -> [revision : Nat, life : 1..MaxLives]]
    /\ pusher \in [Pushers -> {Waiting} \cup PushRequests \cup PushReplies]
    /\ snapshot \in [Scopes -> [revision : Nat, body : Bodies]]
    /\ rowState \in [Scopes -> [Items -> {"live", "deleted", "absent"}]]

\* Two snapshots that overtake each other, or a copy that comes late, never
\* bring an older list back: among the snapshots of one life of the exporter
\* the rows only ever move to a later one.
NoResurrection ==
    [][\A k \in Scopes :
          snapshot[k].revision > 0 /\ snapshot'[k].body.life = snapshot[k].body.life
            => snapshot'[k].body.change >= snapshot[k].body.change]_metadataVars

\* The rows of a category are those of the body whose digest the ledger has,
\* and a success, however late it is read, was given for that body or for one
\* that the ledger has passed.
RowsMatchLedger ==
    /\ \A k \in Scopes : Exists(k[1]) => LiveRows(k) = snapshot[k].body.items
    /\ \A h \in Pushers : pusher[h].at = "reply" /\ pusher[h].hint = 0
          => LET k == pusher[h].key
             IN  \/ snapshot[k].revision > pusher[h].revision
                 \/ snapshot[k] = [revision |-> pusher[h].revision,
                                   body |-> pusher[h].body]
=============================================================================
