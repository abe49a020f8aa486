---------------------------- MODULE UsageEventLog ----------------------------
(***************************************************************************)
(* The request event log: walking the stored events page by page, and      *)
(* reading or downloading the upstream log of one request.                 *)
(*                                                                         *)
(* A walk follows the cursor (timestamp, id) of the last row of a page     *)
(* while events are stored and archived.  The upstream log of a request is *)
(* fetched once for all clients that ask for it at the same time, and the  *)
(* fetch is cancelled when the last of them has left.  A download needs a  *)
(* token that is good for one event, one use and a limited time.           *)
(***************************************************************************)
EXTENDS Integers, FiniteSets, Sequences, SequencesExt

CONSTANTS
    Stamps,        \* timestamps an event may carry, in the order of their text
    Kinds,         \* what a filter tells apart: result, model, auth_type, ...
    AnyKind,       \* no such filter
    PageRows,      \* filter.PageSize
    Clients,       \* HTTP requests for the log of one event
    EventIds,      \* events a download token may be issued for
    TokenTTL,      \* requestLogDownloadTokenTTL, in ticks
    MaxRows,       \* bound: events that are ever stored
    MaxFlights,    \* bound: upstream fetches
    MaxLinks,     \* bound: tokens that are ever issued
    MaxNow         \* bound: ticks of the token clock

ASSUME EventLogAssumption ==
    /\ Stamps \subseteq Nat /\ PageRows \in Nat \ {0} /\ AnyKind \notin Kinds
    /\ TokenTTL \in Nat \ {0} /\ MaxRows \in Nat /\ MaxFlights \in Nat
    /\ MaxLinks \in Nat /\ MaxNow \in Nat

VARIABLES
    rows,       \* the events that were ever stored, by id: timestamp and kind
    gone,       \* ids that were archived
    walk,       \* a client's walk through the list
    flights,    \* the fetches that were ever started
    inflight,   \* requestLogService.inflight for the request: 0 for none
    client,     \* what each client is doing
    now,        \* the clock of the token store
    tokens,     \* requestLogDownloadTokenStore.tokens
    issued,     \* tokens that were ever issued, in order
    downloads   \* downloads that were let through: token and event

listVars == <<rows, gone, walk>>
fetchVars == <<flights, inflight, client>>
tokenVars == <<now, tokens, issued, downloads>>

-----------------------------------------------------------------------------
(* The list.                                                               *)

\* applyUsageEventListQuery.
Listed(kind) == {e \in DOMAIN rows : e \notin gone /\ (kind = AnyKind \/ rows[e].kind = kind)}

\* ORDER BY timestamp DESC, id DESC.
Precedes(e, f) == rows[e].at > rows[f].at \/ (rows[e].at = rows[f].at /\ e > f)
NewestFirst(S) ==
    CHOOSE q \in SetToSeqs(S) : \A i, j \in DOMAIN q : i < j => Precedes(q[i], q[j])

\* The cursor condition of ListUsageEventsWithFilter.
After(e, cursor) ==
    cursor = <<>> \/ rows[e].at < cursor[1] \/ (rows[e].at = cursor[1] /\ e < cursor[2])

\* ListUsageEventsWithFilter in cursor mode: one row more than the page holds.
CursorPage(kind, cursor) ==
    LET found == NewestFirst({e \in Listed(kind) : After(e, cursor)})
    IN [events |-> SubSeq(found, 1, IF Len(found) < PageRows THEN Len(found) ELSE PageRows),
        hasMore |-> Len(found) > PageRows]

\* ListUsageEventsWithFilter in page mode.
OffsetPage(kind, page) ==
    LET found == NewestFirst(Listed(kind))
        first == (page - 1) * PageRows
    IN SubSeq(found, first + 1, IF first + PageRows < Len(found) THEN first + PageRows ELSE Len(found))
TotalPages(kind) == (Cardinality(Listed(kind)) + PageRows - 1) \div PageRows

NoWalk == [active |-> FALSE]

StoreRow(t, k) ==
    /\ Len(rows) < MaxRows
    /\ rows' = Append(rows, [at |-> t, kind |-> k])
    /\ UNCHANGED <<gone, walk, fetchVars, tokenVars>>

\* ArchiveExpiredUsageEvents takes rows out of usage_events.
ArchiveRow(e) ==
    /\ gone' = gone \cup {e}
    /\ UNCHANGED <<rows, walk, fetchVars, tokenVars>>

\* The first request of a walk: cursor_mode without a cursor.
BeginWalk(kind) ==
    /\ ~walk.active
    /\ LET page == CursorPage(kind, <<>>)
       IN walk' = [active |-> TRUE, kind |-> kind, got |-> page.events, more |-> page.hasMore,
                   from |-> Len(rows)]
    /\ UNCHANGED <<rows, gone, fetchVars, tokenVars>>

\* encodeUsageEventsCursor of the last row, and the page that follows it.
NextPage ==
    /\ walk.active /\ walk.more
    /\ LET e == Last(walk.got)
           page == CursorPage(walk.kind, <<rows[e].at, e>>)
       IN walk' = [walk EXCEPT !.got = @ \o page.events, !.more = page.hasMore]
    /\ UNCHANGED <<rows, gone, fetchVars, tokenVars>>

EndWalk ==
    /\ walk.active /\ ~walk.more
    /\ walk' = NoWalk
    /\ UNCHANGED <<rows, gone, fetchVars, tokenVars>>

-----------------------------------------------------------------------------
(* The shared fetch of a request log.                                      *)

Idle == [state |-> "idle", flight |-> 0, answer |-> ""]

\* Variant with a fault: a second client starts a fetch of its own.
SharedNever == FALSE

\* beginFetch finds a fetch to join.
Shared == inflight # 0

\* GetUsageEventRequestLog: beginFetch, and the leader's goroutine.
BeginFetch(c) ==
    /\ client[c].state = "idle"
    /\ IF Shared
       THEN /\ flights' = [flights EXCEPT ![inflight].waiters = @ + 1]
            /\ client' = [client EXCEPT ![c] = [@ EXCEPT !.state = "waiting", !.flight = inflight]]
            /\ UNCHANGED inflight
       ELSE /\ Len(flights) < MaxFlights
            /\ flights' = Append(flights, [waiters |-> 1, cancelled |-> FALSE, result |-> "none"])
            /\ inflight' = Len(flights) + 1
            /\ client' = [client EXCEPT ![c] = [@ EXCEPT !.state = "waiting",
                                                         !.flight = Len(flights) + 1]]
    /\ UNCHANGED <<listVars, tokenVars>>

\* fetchRequestLog and finishFetch: a cancelled fetch may still have its answer.
FinishFetch(f, result) ==
    /\ flights[f].result = "none"
    /\ result = "cancelled" => flights[f].cancelled
    /\ flights' = [flights EXCEPT ![f].result = result]
    /\ inflight' = IF inflight = f THEN 0 ELSE inflight
    /\ UNCHANGED <<client, listVars, tokenVars>>

\* waitForRequestLogFetch sees inflight.done.
Receive(c) ==
    /\ client[c].state = "waiting"
    /\ flights[client[c].flight].result # "none"
    /\ client' = [client EXCEPT ![c] = [@ EXCEPT !.state = "answered",
                                                 !.answer = flights[client[c].flight].result]]
    /\ UNCHANGED <<flights, inflight, listVars, tokenVars>>

\* Its request is cancelled: the select takes ctx.Done ...
Leave(c) ==
    /\ client[c].state = "waiting"
    /\ client' = [client EXCEPT ![c].state = "leaving"]
    /\ UNCHANGED <<flights, inflight, listVars, tokenVars>>

\* The waiter that leaves is the last one of the current fetch.
LastWaiter(f) == inflight = f /\ flights[f].waiters = 1

\* ... and releaseFetchWaiter runs, before or after the fetch has finished.
ReleaseWaiter(c) ==
    /\ client[c].state = "leaving"
    /\ LET f == client[c].flight
       IN IF inflight # f \/ flights[f].waiters <= 0
          THEN UNCHANGED <<flights, inflight>>
          ELSE /\ flights' = [flights EXCEPT ![f].waiters = @ - 1,
                                             ![f].cancelled = @ \/ LastWaiter(f)]
               /\ inflight' = IF LastWaiter(f) THEN 0 ELSE inflight
    /\ client' = [client EXCEPT ![c] = Idle]
    /\ UNCHANGED <<listVars, tokenVars>>

-----------------------------------------------------------------------------
(* Download tokens.                                                        *)

Expired(k) == now >= tokens[k].expiresAt

Without(S) == [k \in DOMAIN tokens \ S |-> tokens[k]]

\* issue, with pruneLocked.
IssueToken(e) ==
    /\ Len(issued) < MaxLinks
    /\ issued' = Append(issued, [event |-> e, at |-> now])
    /\ LET kept == Without({k \in DOMAIN tokens : Expired(k)})
           k == Len(issued) + 1
       IN tokens' = [j \in DOMAIN kept \cup {k} |->
                        IF j = k THEN [event |-> e, expiresAt |-> now + TokenTTL] ELSE kept[j]]
    /\ UNCHANGED <<now, downloads, listVars, fetchVars>>

\* consume: the token is spent whether or not it opens the download.
ConsumeToken(k, e) ==
    /\ k \in DOMAIN tokens
    /\ downloads' = IF Expired(k) \/ tokens[k].event # e THEN downloads
                    ELSE Append(downloads, [token |-> k, event |-> e, at |-> now])
    /\ tokens' = Without({k})
    /\ UNCHANGED <<now, issued, listVars, fetchVars>>

TickTokens ==
    /\ now < MaxNow
    /\ now' = now + 1
    /\ UNCHANGED <<tokens, issued, downloads, listVars, fetchVars>>

-----------------------------------------------------------------------------
EventLogInit ==
    /\ rows = <<>> /\ gone = {} /\ walk = NoWalk
    /\ flights = <<>> /\ inflight = 0 /\ client = [c \in Clients |-> Idle]
    /\ now = 0 /\ tokens = <<>> /\ issued = <<>> /\ downloads = <<>>

ListStep ==
    \/ \E t \in Stamps, k \in Kinds : StoreRow(t, k)
    \/ \E e \in DOMAIN rows \ gone : ArchiveRow(e)
    \/ \E k \in Kinds \cup {AnyKind} : BeginWalk(k)
    \/ NextPage
    \/ EndWalk

FetchStep ==
    \/ \E c \in Clients : BeginFetch(c) \/ Receive(c) \/ Leave(c) \/ ReleaseWaiter(c)
    \/ \E f \in DOMAIN flights, r \in {"ok", "error", "cancelled"} : FinishFetch(f, r)

TokenStep ==
    \/ \E e \in EventIds : IssueToken(e) \/ \E k \in DOMAIN tokens : ConsumeToken(k, e)
    \/ TickTokens

-----------------------------------------------------------------------------
(* Properties.                                                             *)

\* A walk never shows a row twice and goes strictly backwards, whatever is
\* stored and archived meanwhile; when it ends it has shown every row that was
\* there when it began and still is.  Without a cursor, the pages 1 to
\* total_pages make up the list.
WalkIsComplete ==
    /\ walk.active =>
         /\ \A i, j \in DOMAIN walk.got : i < j => Precedes(walk.got[i], walk.got[j])
         /\ ~walk.more => {e \in Listed(walk.kind) : e <= walk.from} \subseteq ToSet(walk.got)
    /\ \A k \in Kinds \cup {AnyKind} :
         FlattenSeq([p \in 1..TotalPages(k) |-> OffsetPage(k, p)]) = NewestFirst(Listed(k))

\* A client that stays gets an answer that no other client's leaving has cut
\* short, at most one wanted fetch of the log runs at a time, and a fetch
\* nobody waits for any more is cancelled or over.
FetchIsShared ==
    /\ \A c \in Clients : client[c].answer # "cancelled"
    /\ Cardinality({f \in DOMAIN flights : flights[f].result = "none" /\ ~flights[f].cancelled}) <= 1
    /\ \A f \in DOMAIN flights :
         flights[f].result = "none" /\ ~flights[f].cancelled
           => \E c \in Clients : client[c].state \in {"waiting", "leaving"} /\ client[c].flight = f

\* A token opens one download, of the event it was issued for, in its time.
TokensOpenOnce ==
    \A i \in DOMAIN downloads :
        LET d == downloads[i]
        IN /\ issued[d.token].event = d.event
           /\ d.at < issued[d.token].at + TokenTTL
           /\ \A j \in DOMAIN downloads : downloads[j].token = d.token => j = i

\* Request logs (service/request_log.go, api/request_log_download_token.go): a
\* shared fetch serves everyone who stays, and a download link opens once.
LogsServedOnce == FetchIsShared /\ TokensOpenOnce

\* The pages of the request list, and the logs behind its rows.
EventLogServes == WalkIsComplete /\ LogsServedOnce
=============================================================================
