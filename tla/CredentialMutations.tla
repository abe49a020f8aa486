------------------------ MODULE CredentialMutations ------------------------
(***************************************************************************)
(* Changes of credentials made through the keeper, beside the metadata     *)
(* synchronisation that copies CPA's state into usage_identities.          *)
(*                                                                         *)
(* A change goes to CPA first: to one auth file by name, or to a provider  *)
(* list that is read, edited and put back as a whole: with the ETag it was *)
(* read with, or unconditionally when an old CPA gave none.  Then the      *)
(* local row is written and a refresh is requested.  Locks by file name    *)
(* and by list serialise the changes; CredentialMetadataCoordinator's      *)
(* version makes a synchronisation drop what it fetched before a change.   *)
(* Others change CPA too, and answers of CPA get lost.                     *)
(***************************************************************************)
EXTENDS Integers, Sequences

CONSTANTS
    Requests,       \* requests to the keeper, each made once
    File,           \* an auth file
    Members,        \* keys of one group of a provider list
    MaxOutside,     \* bound: changes made at CPA by others
    Values,         \* values the requests ask for
    Throttle        \* providerMetadataRefreshInterval > 0

ASSUME MutationsAssumption ==
    /\ MaxOutside \in Nat /\ Throttle \in BOOLEAN /\ Values \subseteq BOOLEAN
    /\ File \notin Members

Rows == Members \cup {File}
Fields == {"disabled", "priority"}
Gone == [f \in {} |-> FALSE]
States == [Fields -> BOOLEAN] \cup {Gone}
Failed == [failed |-> TRUE]

VARIABLES
    openai,     \* the list belongs to an OpenAI compatible provider
    remote,     \* CPA's state of every row
    local,      \* usage_identities; Gone is a row marked deleted
    version,    \* CredentialMetadataCoordinator.version
    request,    \* where each request is
    sync,       \* where SyncMetadata is, and what it fetched
    fetched,    \* providerMetadataFetchedAt is within the interval
    wanted,     \* a refresh is requested
    drift,      \* history: CPA changed in a way that no request writes locally
    outside     \* history: rows and fields that others changed, in order

mutationVars == <<openai, remote, local, version, request, sync,
                  fetched, wanted, drift, outside>>
syncState == <<sync, fetched>>

NoSync == [at |-> "idle"]
Unused == [at |-> "unused"]
Done == [at |-> "done"]

MutationsInit ==
    /\ openai \in BOOLEAN
    /\ remote = [x \in Rows |-> [f \in Fields |-> FALSE]]
    /\ local = remote
    /\ version = 0
    /\ request = [o \in Requests |-> Unused]
    /\ sync = NoSync
    /\ fetched = FALSE
    /\ wanted = FALSE
    /\ drift = [x \in Rows |-> FALSE]
    /\ outside = <<>>

\* Nobody holds the lock of the row's file, or of its list.
Free(row) ==
    \A o \in Requests :
        request[o].at \in {"call", "fetch", "put", "complete", "refresh"}
          => \/ request[o].kind = "delete"
             \/ (request[o].row = File) # (row = File)

\* What a request changes: an OpenAI group has one priority for its keys.
Targets(r) ==
    IF openai /\ r.row # File THEN Members ELSE {r.row}

Changed(states, r) ==
    [x \in Rows |-> IF x \notin Targets(r) \/ states[x] = Gone THEN states[x]
                    ELSE [states[x] EXCEPT ![r.field] = r.value]]

List(states) == [x \in Members |-> states[x]]
-----------------------------------------------------------------------------
(* Requests.                                                               *)

Ends(o) == request' = [request EXCEPT ![o] = Done]
Moves(o, point) == request' = [request EXCEPT ![o].at = point]

\* The row is looked up before the lock is taken; a deletion takes none.
Submit(o, kind, row, field, value) ==
    /\ request[o] = Unused
    /\ request' = [request EXCEPT ![o] =
           [at |-> IF kind = "delete" THEN "call" ELSE "lock", kind |-> kind,
            row |-> row, field |-> field, value |-> value,
            document |-> Failed, tagged |-> FALSE, seen |-> 0]]
    /\ UNCHANGED <<openai, remote, local, version, syncState, wanted,
                   drift, outside>>

SetCredentialDisabled(o, value) ==
    local[File] # Gone /\ Submit(o, "single", File, "disabled", value)

SetCredentialPriority(o, value) ==
    local[File] # Gone /\ Submit(o, "single", File, "priority", value)

\* The status of an OpenAI compatible key cannot be changed.
SetAIProviderDisabled(o, row, value) ==
    ~openai /\ local[row] # Gone /\ Submit(o, "single", row, "disabled", value)

SetAIProviderPriority(o, row, value) ==
    local[row] # Gone /\ Submit(o, "single", row, "priority", value)

\* The entries of credentials management know file names only.
SetCredentialsDisabled(o, value) == Submit(o, "batch", File, "disabled", value)
DeleteCredentials(o) == Submit(o, "delete", File, "disabled", TRUE)

\* lockCredential or lockProviderConfig.
Acquire(o) ==
    LET r == request[o]
    IN  /\ r.at = "lock"
        /\ Free(r.row)
        /\ Moves(o, IF r.row = File THEN "call" ELSE "fetch")
        /\ UNCHANGED <<openai, remote, local, version, syncState, wanted, drift,
                       outside>>

\* CPA refuses, or cannot be reached.
Refused(o) ==
    /\ request[o].at \in {"call", "fetch", "put"}
    /\ Ends(o)
    /\ UNCHANGED <<openai, remote, local, version, syncState, wanted, drift,
                   outside>>

\* CPA did what it was asked to, but the answer is an error or is lost.
AnswerLost(o, states) ==
    /\ Ends(o)
    /\ drift' = [x \in Rows |-> drift[x] \/ states[x] # remote[x]]

\* UpdateCredentialStatus, UpdateCredentialPriority, DeleteCredentials.
CallFile(o, answered) ==
    LET r == request[o]
        states == IF r.kind = "delete" THEN [remote EXCEPT ![File] = Gone]
                  ELSE Changed(remote, r)
    IN  /\ r.at = "call"
        /\ remote[File] # Gone
        /\ remote' = states
        /\ IF answered
             THEN Moves(o, "complete") /\ UNCHANGED drift
             ELSE AnswerLost(o, states)
        /\ UNCHANGED <<openai, local, version, syncState, wanted, outside>>

\* FetchProviderKeyConfig, then the edit of the document.  An old CPA gives no
\* ETag; "seen" is history, what others had changed when the list was read.
FetchList(o, tagged) ==
    /\ request[o].at = "fetch"
    /\ request' = [request EXCEPT ![o] =
           [@ EXCEPT !.at = "put", !.document = List(remote),
                     !.tagged = tagged, !.seen = Len(outside)]]
    /\ UNCHANGED <<openai, remote, local, version, syncState, wanted,
                   drift, outside>>

\* Others have changed the field since the request read its list.
ChangedSince(r, row, field) ==
    \E i \in r.seen + 1 .. Len(outside) : outside[i] = <<row, field>>

\* Rows whose change by others the request takes back, having no ETag.
TakenBack(r) ==
    {x \in Members : ~r.tagged /\ \E f \in Fields : ChangedSince(r, x, f)}

\* The list as it was read, edited for the request, over what CPA has now.
Edited(r) ==
    Changed([x \in Rows |-> IF x \in Members THEN r.document[x] ELSE remote[x]], r)

\* CPA takes a list, and answers or not; the document is done with.
Put(o, answered) ==
    LET r == request[o]
    IN  /\ remote' = Edited(r)
        /\ IF answered
             THEN /\ request' = [request EXCEPT ![o] =
                         [@ EXCEPT !.at = "complete", !.document = Failed,
                                   !.tagged = FALSE, !.seen = 0]]
                  /\ drift' = [x \in Rows |-> drift[x] \/ x \in TakenBack(r)]
             ELSE AnswerLost(o, Edited(r))
        /\ UNCHANGED <<openai, local, version, syncState, wanted, outside>>

\* Variant with a fault: the ETag of the answer is never sent.
PutListAnyway(o, answered) == request[o].at = "put" /\ Put(o, answered)

\* UpdateProviderConfig: If-Match with the ETag the list came with, and an
\* unconditional put if it came with none; 412 is a refusal.
PutList(o, answered) ==
    /\ request[o].at = "put"
    /\ request[o].tagged => request[o].document = List(remote)
    /\ Put(o, answered)

\* UpdateUsageIdentityDisabled, UpdateUsageIdentityPriority and, for a group,
\* UpdateOpenAIProviderPriority; the batch entry and the deletion write none.
PersistLocal(r) == IF r.kind = "single" THEN Changed(local, r) ELSE local

\* completeMutation: the version, then the local write, which may fail.
CompleteMutation(o, stored) ==
    LET r == request[o]
        writes == stored /\ r.kind = "single"
    IN  /\ r.at = "complete"
        /\ version' = version + 1
        /\ local' = IF stored THEN PersistLocal(r) ELSE local
        /\ drift' = [x \in Rows |-> drift[x] \/ (x \in Targets(r) /\ ~writes)]
        /\ Moves(o, "refresh")
        /\ UNCHANGED <<openai, remote, syncState, wanted, outside>>

\* RequestLocalMetadataRefresh, then the lock is released.
AskRefresh(o) ==
    /\ request[o].at = "refresh"
    /\ wanted' = TRUE
    /\ Ends(o)
    /\ UNCHANGED <<openai, remote, local, version, syncState, drift, outside>>

\* Somebody changes CPA without the keeper.
ChangeOutside(row, field) ==
    /\ Len(outside) < MaxOutside
    /\ remote[row] # Gone
    /\ outside' = Append(outside, <<row, field>>)
    /\ remote' = [remote EXCEPT ![row][field] = ~remote[row][field]]
    /\ drift' = [drift EXCEPT ![row] = TRUE]
    /\ UNCHANGED <<openai, local, version, request, syncState, wanted>>
-----------------------------------------------------------------------------
(* SyncMetadata.                                                           *)

\* Variant with a fault: the version is read when the snapshots are stored.
PinnedLate(v) == version
Pinned(v) == v

\* The version is pinned before anything is fetched.  A tick or a connection
\* starts a synchronisation as a request does.
BeginSyncMetadata ==
    /\ sync = NoSync
    /\ wanted' = FALSE
    /\ sync' = [at |-> "credentials", version |-> version,
                file |-> Failed, list |-> Failed]
    /\ UNCHANGED <<openai, remote, local, version, request, fetched,
                   drift, outside>>

FetchCredentials(ok) ==
    /\ sync.at = "credentials"
    /\ sync' = [sync EXCEPT !.at = "providers",
                            !.file = IF ok THEN remote[File] ELSE Failed]
    /\ UNCHANGED <<openai, remote, local, version, request, fetched,
                   wanted, drift, outside>>

\* fetchProviderMetadataThrottled.
FetchProviders(ok) ==
    /\ sync.at = "providers"
    /\ sync' = [sync EXCEPT !.at = "storeFile",
                            !.list = IF ok /\ ~fetched THEN List(remote) ELSE Failed]
    /\ fetched' = (fetched \/ (ok /\ Throttle))
    /\ UNCHANGED <<openai, remote, local, version, request,
                   wanted, drift, outside>>

\* A request that has changed CPA and not yet written the local row.
UnderWay(x) ==
    \E o \in Requests : request[o].at = "complete" /\ x \in Targets(request[o])

\* What a stored snapshot leaves of the drift: nothing, unless CPA has
\* changed since it was fetched or a request is about to write its own.
Aligned(rows, states) ==
    [x \in Rows |-> drift[x] /\ (x \in rows => states[x] # remote[x] \/ UnderWay(x))]

\* persistSnapshot with syncCredentials: in the coordinator's lock.
StoreFile ==
    LET states == [local EXCEPT ![File] = sync.file]
        keeps == Pinned(sync.version) # version \/ sync.file = Failed
    IN  /\ sync.at = "storeFile"
        /\ sync' = [sync EXCEPT !.at = "storeList", !.file = Failed]
        /\ IF keeps
             THEN UNCHANGED <<local, drift>>
             ELSE local' = states /\ drift' = Aligned({File}, states)
        /\ UNCHANGED <<openai, remote, version, request, fetched,
                       wanted, outside>>

\* persistSnapshot with persistProviderMetadata; a throttled round and a
\* failed fetch store nothing.
StoreList ==
    LET states == [x \in Rows |-> IF x \in Members THEN sync.list[x] ELSE local[x]]
        keeps == Pinned(sync.version) # version \/ sync.list = Failed
    IN  /\ sync.at = "storeList"
        /\ sync' = NoSync
        /\ IF keeps
             THEN UNCHANGED <<local, drift>>
             ELSE local' = states /\ drift' = Aligned(Members, states)
        /\ UNCHANGED <<openai, remote, version, request, fetched,
                       wanted, outside>>

IntervalPasses ==
    /\ fetched
    /\ fetched' = FALSE
    /\ UNCHANGED <<openai, remote, local, version, request, sync,
                   wanted, drift, outside>>

MutationsNext ==
    \/ \E o \in Requests, value \in Values :
          \/ SetCredentialDisabled(o, value) \/ SetCredentialPriority(o, value)
          \/ SetCredentialsDisabled(o, value)
          \/ \E row \in Members :
                SetAIProviderDisabled(o, row, value) \/ SetAIProviderPriority(o, row, value)
    \/ \E o \in Requests :
          \/ DeleteCredentials(o) \/ Acquire(o) \/ Refused(o) \/ AskRefresh(o)
          \/ \E ok \in BOOLEAN :
                FetchList(o, ok) \/ CallFile(o, ok) \/ PutList(o, ok) \/ CompleteMutation(o, ok)
    \/ \E row \in Rows, field \in Fields : ChangeOutside(row, field)
    \/ BeginSyncMetadata
    \/ \E ok \in BOOLEAN : FetchCredentials(ok) \/ FetchProviders(ok)
    \/ StoreFile \/ StoreList
    \/ IntervalPasses

MutationsSpec == MutationsInit /\ [][MutationsNext]_mutationVars
-----------------------------------------------------------------------------
(* Properties.                                                             *)

\* A row that only this keeper has changed says what CPA says: neither a
\* synchronisation that read CPA before the change nor a second request that
\* edits the same list takes a completed change back, with an ETag or without
\* (persistSnapshot, lockCredential, lockProviderConfig).  A row that others
\* changed, or that an unconditional put took back to what it was before they
\* did, drifts until a synchronisation has stored it.
NoUndo ==
    \A x \in Rows : ~drift[x] /\ ~UnderWay(x) => local[x] = remote[x]

\* A put changes at CPA the field its request was made for and nothing else,
\* whatever another request of the keeper did meanwhile; without an ETag it
\* may also take back a field that others changed since the list was read, and
\* with one not even that (UpdateProviderConfig, lockProviderConfig).
OnlyItsField ==
    [][\A o \in Requests, x \in Members, f \in Fields :
          (request[o].at = "put" /\ request'[o] # request[o]
              /\ remote'[x][f] # remote[x][f])
            => \/ x \in Targets(request[o]) /\ f = request[o].field
               \/ ~request[o].tagged /\ ChangedSince(request[o], x, f)]_mutationVars
=============================================================================
