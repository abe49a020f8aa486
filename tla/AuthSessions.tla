---------------------------- MODULE AuthSessions ----------------------------
(***************************************************************************)
(* The session manager (auth/session.go): sessions cached in memory in     *)
(* front of the auth_sessions table, the policy that OIDC sessions must    *)
(* meet, the writer goroutine that saves the last activity behind the      *)
(* requests' backs, and the HTTP middleware that resolves a token, checks  *)
(* the role and touches the session (api/auth.go).                         *)
(*                                                                         *)
(* Time is counted in activity write intervals.  A token is drawn at       *)
(* random and so never twice; its hash stands for it.  Issuer and client   *)
(* of an OIDC session are compared together and are one value, "app".      *)
(* Client metadata no decision looks at (user agent, login address) is     *)
(* left out.  A failing statement is a bounded fault.                      *)
(***************************************************************************)
EXTENDS Naturals, Sequences, FiniteSets

CONSTANTS Tokens,      \* session tokens that may be generated
          Keys,        \* native CPA API keys a viewer may log in with
          IPs,         \* client addresses
          Subjects,    \* OIDC subjects
          Apps,        \* issuer and client pairs
          Policies,    \* policies a start of the process may read from its configuration
          Requests,    \* requests in progress at once
          None,        \* no value
          TTL,         \* lifetime of a session
          MaxNow,      \* bound on time
          MaxFaults,   \* bound on failing statements
          MaxRestarts  \* bound on restarts

ASSUME AuthAssumption ==
    /\ {TTL, MaxNow, MaxFaults, MaxRestarts} \subseteq Nat
    /\ TTL > 0
    /\ \A p \in Policies : /\ DOMAIN p = {"enabled", "app", "subjects"}
                           /\ p.enabled \in BOOLEAN /\ p.app \in Apps
                           /\ p.subjects \subseteq Subjects
    /\ IPs # {}

Roles == {"admin", "viewer"}
Aliases == {"", "named"}

\* What the manager keeps: sessions, and updates of their activity.
Sessions ==
    [role : Roles, source : {"standard", "embed", "oidc"}, alias : Aliases,
     key : Keys \cup {None}, app : Apps \cup {None}, subject : Subjects \cup {None},
     ip : IPs, seen : Nat, exp : Nat]
Updates == [token : Tokens, ip : IPs, seen : Nat]

\* nil is neither.
ASSUME NoneAssumption == None \notin Sessions /\ None \notin Updates

VARIABLES
    now,      \* the clock
    cache,    \* m.sessions: token -> session or None
    store,    \* table auth_sessions: token -> session or None
    pending,  \* m.pendingActivity: token -> update or None
    writer,   \* the writer goroutine: where it is and the update it holds
    policy,   \* m.oidcPolicy
    keys,     \* the API keys that are not deleted
    req,      \* request -> its progress through the middleware
    issued,   \* tokens generated so far
    faults, restarts,
    gone,     \* history: tokens whose revocation, logout or expiry was acknowledged
    lost      \* history: tokens whose last activity write failed

vars == <<now, cache, store, pending, writer, policy, keys, req, issued,
          faults, restarts, gone, lost>>

\* A session: role, source, alias, the viewer's key, the OIDC app and subject,
\* last address, last activity and expiry.
NewSession(role, source, key, app, subject, ip) ==
    [role |-> role, source |-> source, alias |-> "", key |-> key, app |-> app,
     subject |-> subject, ip |-> ip, seen |-> 0, exp |-> 0]
Stopped == [pc |-> "idle", update |-> None]
Looking == [pc |-> "looking", update |-> None]
Idle == [pc |-> "idle", token |-> None, key |-> None, ip |-> None]

\* sessionAllowedLocked.
SessionAllowed(s, p) ==
    \/ s.source \in {"standard", "embed"}
    \/ /\ s.source = "oidc" /\ p.enabled /\ s.role = "admin"
       /\ s.app = p.app /\ s.subject # None
       /\ p.subjects = {} \/ s.subject \in p.subjects

\* What Get returns for a token: the cached session, else the stored one, as
\* long as it is neither expired nor refused by the policy.  A token that is
\* expired or refused stays so while the process runs, so the lookups under
\* the read lock, in getPersisted and the deletion that follows are one step.
Found(t) == IF cache[t] # None THEN cache[t] ELSE store[t]
Live(t) == Found(t) # None /\ Found(t).exp > now /\ SessionAllowed(Found(t), policy)

\* cleanupExpiredLocked and DeleteExpired.
Unexpired(f) == [t \in Tokens |-> IF f[t] # None /\ f[t].exp <= now THEN None ELSE f[t]]
Expired(f) == {t \in Tokens : f[t] # None /\ f[t].exp <= now}
Without(f, S) == [t \in Tokens |-> IF t \in S THEN None ELSE f[t]]

Init ==
    /\ now = 0 /\ policy \in Policies /\ keys = Keys
    /\ cache = [t \in Tokens |-> None] /\ store = [t \in Tokens |-> None]
    /\ pending = [t \in Tokens |-> None] /\ writer = Stopped
    /\ req = [r \in Requests |-> Idle]
    /\ issued = {} /\ faults = 0 /\ restarts = 0 /\ gone = {} /\ lost = {}

\* A statement fails.
Fault == faults < MaxFaults /\ faults' = faults + 1

\* create: expired sessions are cleaned first; the row is saved before the
\* cache learns of the session, so a failing save leaves nothing behind.
CreateSession(s) ==
    /\ Tokens \ issued # {}
    /\ LET t == CHOOSE x \in Tokens \ issued : TRUE
           full == [s EXCEPT !.seen = now, !.exp = now + TTL]
           clean == Unexpired(cache)
           kept == Unexpired(store)
           done == gone \cup Expired(cache) \cup Expired(store)
       IN /\ issued' = issued \cup {t}
          /\ \/ /\ ~SessionAllowed(s, policy)
                /\ cache' = clean /\ store' = kept /\ gone' = done
                /\ UNCHANGED faults
             \/ /\ SessionAllowed(s, policy)
                /\ cache' = [clean EXCEPT ![t] = full]
                /\ store' = [kept EXCEPT ![t] = full]
                /\ gone' = done /\ UNCHANGED faults
             \/ /\ SessionAllowed(s, policy) /\ Fault    \* Save fails
                /\ cache' = clean /\ store' = kept /\ gone' = done
             \/ /\ Fault                                 \* DeleteExpired fails
                /\ cache' = clean /\ UNCHANGED <<store, gone>>
    /\ UNCHANGED <<now, pending, writer, policy, keys, req, restarts, lost>>

\* DeleteByTokenHash, DeleteByRole, Delete: the cache first, then the table; a
\* failing statement panics between the two and the caller sees an error.
DeleteTokens(S, cleanFirst) ==
    LET c == IF cleanFirst THEN Unexpired(cache) ELSE cache
        d == IF cleanFirst THEN Unexpired(store) ELSE store
        expired == IF cleanFirst THEN Expired(cache) \cup Expired(store) ELSE {}
    IN \/ /\ cache' = Without(c, S) /\ store' = Without(d, S)
          /\ gone' = gone \cup (S \cap issued) \cup expired
          /\ UNCHANGED faults
       \/ /\ Fault /\ cache' = Without(c, S) /\ store' = d
          /\ gone' = gone \cup expired
       \/ /\ cleanFirst /\ Fault /\ cache' = c /\ store' = store /\ gone' = gone

\* revokeManagedSession.
RevokeManagedSession(t) ==
    /\ DeleteTokens({t}, TRUE)
    /\ UNCHANGED <<now, pending, writer, policy, keys, req, issued, restarts, lost>>

\* DeleteByRole.
DeleteByRole(role) ==
    /\ DeleteTokens({t \in Tokens : \/ cache[t] # None /\ cache[t].role = role
                                    \/ store[t] # None /\ store[t].role = role}, TRUE)
    /\ UNCHANGED <<now, pending, writer, policy, keys, req, issued, restarts, lost>>

\* CleanupExpired, and the clean-up that List begins with.
CleanupExpired ==
    /\ cache' = Unexpired(cache)
    /\ \/ store' = Unexpired(store) /\ UNCHANGED faults
          /\ gone' = gone \cup Expired(cache) \cup Expired(store)
       \/ Fault /\ store' = store /\ gone' = gone
    /\ UNCHANGED <<now, pending, writer, policy, keys, req, issued, restarts, lost>>

\* updateManagedSessionAlias: the row first; the cached copy only follows a row
\* that was there, and only administrators' sessions have an alias.
UpdateManagedSessionAlias(t, alias) ==
    LET c == Unexpired(cache)
        d == Unexpired(store)
        hit == d[t] # None /\ d[t].role = "admin"
    IN /\ \/ /\ gone' = gone \cup Expired(cache) \cup Expired(store)
             /\ store' = IF hit THEN [d EXCEPT ![t].alias = alias] ELSE d
             /\ cache' = IF hit /\ c[t] # None THEN [c EXCEPT ![t].alias = alias] ELSE c
             /\ UNCHANGED faults
          \/ Fault /\ cache' = c /\ store' \in {store, d} /\ gone' = gone
       /\ UNCHANGED <<now, pending, writer, policy, keys, req, issued, restarts, lost>>

\* List: the table's unexpired rows the policy allows, with the cached alias
\* and activity laid over them.
ListManagedSessions ==
    LET rows == {t \in Tokens : Unexpired(store)[t] # None /\ SessionAllowed(store[t], policy)}
    IN [t \in rows |-> IF cache[t] # None
                       THEN [store[t] EXCEPT !.alias = cache[t].alias, !.ip = cache[t].ip,
                                             !.seen = cache[t].seen]
                       ELSE store[t]]
-----------------------------------------------------------------------------
\* The tokens a request offers, in order (resolveSessionTokenCandidates): an
\* embedded page has a cookie of its own and may repeat it in a header.
Candidates(embed, cookie, header) ==
    IF ~embed THEN IF cookie = None THEN <<>> ELSE <<cookie>>
    ELSE (IF cookie = None THEN <<>> ELSE <<cookie>>) \o
         (IF header = None \/ header = cookie THEN <<>> ELSE <<header>>)

\* sessionMatchesResolvedSource.
MatchesSource(s, embed) ==
    IF embed THEN s.source = "embed" ELSE s.source \in {"standard", "oidc"}

\* resolveValidSession: the candidates are looked up in order until one is
\* live and of the right source; the dead ones before it are deleted, the live
\* ones are now cached.
Resolution(cands, embed) ==
    LET Outcome(good) ==
          LET last == IF good = {} THEN Len(cands) ELSE CHOOSE i \in good : \A j \in good : i <= j
              tried == {cands[i] : i \in 1..last}
          IN [token |-> IF good = {} THEN None ELSE cands[last],
              dead |-> {t \in tried : ~Live(t)},
              loaded |-> {t \in tried : Live(t)}]
    IN Outcome({i \in DOMAIN cands : Live(cands[i]) /\ MatchesSource(Found(cands[i]), embed)})

Caching(S) == [t \in Tokens |-> IF t \in S THEN Found(t) ELSE cache[t]]

\* What Get leaves behind for a set of live and a set of dead tokens: a failing
\* deletion panics after the cache was changed.
AfterGet(loaded, dead) ==
    /\ cache' = Without(Caching(loaded), dead)
    /\ store' = Without(store, dead)
    /\ gone' = gone \cup (dead \cap issued)
    /\ UNCHANGED faults
FailingGet(loaded, dead) ==
    /\ dead # {} /\ Fault
    /\ cache' = Without(Caching(loaded), dead)
    /\ UNCHANGED <<store, gone>>

\* A request looks its tokens up and goes on at `pc` when one of `roles` is found.
ResolveSession(r, embed, cookie, header, ip, roles, pc) ==
    /\ req[r].pc = "idle"
    /\ \E res \in {Resolution(Candidates(embed, cookie, header), embed)} :
          \/ /\ AfterGet(res.loaded, res.dead)
             /\ req' = IF res.token = None \/ Found(res.token).role \notin roles THEN req
                       ELSE [req EXCEPT ![r] = [pc |-> pc, token |-> res.token,
                                                key |-> Found(res.token).key, ip |-> ip]]
          \/ FailingGet(res.loaded, res.dead) /\ req' = req
    /\ UNCHANGED <<now, pending, writer, policy, keys, issued, restarts, lost>>

\* roleMiddleware: the session must have the role; then it is touched.
RoleMiddleware(r, embed, cookie, header, ip, role) ==
    ResolveSession(r, embed, cookie, header, ip, {role}, "resolved")

\* getSession: either role, and no touch.
GetSession(r, embed, cookie, header, ip) ==
    ResolveSession(r, embed, cookie, header, ip, Roles, "admitted")

\* Touch begins with another Get; a dead token ends the touch, not the request.
TouchGet(r) ==
    LET t == req[r].token
    IN /\ req[r].pc = "resolved"
       /\ \/ /\ AfterGet(IF Live(t) THEN {t} ELSE {}, IF Live(t) THEN {} ELSE {t})
             /\ req' = [req EXCEPT ![r].pc = IF Live(t) THEN "touching" ELSE "admitted"]
          \/ /\ FailingGet({}, IF Live(t) THEN {} ELSE {t})
             /\ req' = [req EXCEPT ![r] = Idle]
       /\ UNCHANGED <<now, pending, writer, policy, keys, issued, restarts, lost>>

\* Touch, under the lock: the session is read again; unless nothing changed
\* within the interval, it is updated in memory and left for the writer.
TouchUpdate(r) ==
    LET t == req[r].token
        ip == req[r].ip
        quiet == cache[t].ip = ip /\ cache[t].seen + 1 > now
    IN /\ req[r].pc = "touching"
       /\ req' = [req EXCEPT ![r].pc = "admitted"]
       /\ IF cache[t] = None \/ cache[t].exp <= now \/ quiet
          THEN UNCHANGED <<cache, pending, writer, lost>>
          ELSE /\ cache' = [cache EXCEPT ![t].ip = ip, ![t].seen = now]
               /\ pending' = [pending EXCEPT ![t] = [token |-> t, ip |-> ip, seen |-> now]]
               /\ writer' = IF writer = Stopped THEN Looking ELSE writer
               /\ lost' = lost \ {t}
       /\ UNCHANGED <<now, store, policy, keys, issued, faults, restarts, gone>>

\* activeViewerAPIKey: the key of a viewer was deleted since the login.
Orphan(r) == req[r].key # None /\ req[r].key \notin keys

\* activeAPIKeyViewerMiddleware: an orphaned viewer loses the session; otherwise
\* the handler runs.  Either way the request ends.
Serve(r) ==
    /\ req[r].pc = "admitted"
    /\ req' = [req EXCEPT ![r] = Idle]
    /\ IF Orphan(r) THEN DeleteTokens({req[r].token}, FALSE)
       ELSE UNCHANGED <<cache, store, gone, faults>>
    /\ UNCHANGED <<now, pending, writer, policy, keys, issued, restarts, lost>>

\* logout: the resolved token, else the first candidate, is deleted.
Logout(embed, cookie, header) ==
    /\ \E cands \in {Candidates(embed, cookie, header)} \ {<<>>} :
          \E res \in {Resolution(cands, embed)} :
            LET dead == res.dead \cup {IF res.token # None THEN res.token ELSE Head(cands)}
            IN AfterGet(res.loaded, dead) \/ FailingGet(res.loaded, dead)
    /\ UNCHANGED <<now, pending, writer, policy, keys, req, issued, restarts, lost>>
-----------------------------------------------------------------------------
\* writePendingActivity: take any pending update under the lock, or stop.
WriterTake ==
    /\ writer = Looking
    /\ \/ \E t \in Tokens : /\ pending[t] # None
                            /\ writer' = [pc |-> "holding", update |-> pending[t]]
                            /\ pending' = [pending EXCEPT ![t] = None]
       \/ /\ \A t \in Tokens : pending[t] = None
          /\ writer' = Stopped /\ pending' = pending
    /\ UNCHANGED <<now, cache, store, policy, keys, req, issued, faults, restarts, gone, lost>>

\* Variant with a fault: the activity is saved as an upsert.
UpsertActivity(u) ==
    store' = [store EXCEPT ![u.token] =
                IF @ = None THEN [NewSession("admin", "standard", None, None, None, u.ip)
                                    EXCEPT !.seen = u.seen, !.exp = u.seen + TTL]
                ELSE [@ EXCEPT !.ip = u.ip, !.seen = u.seen]]

\* GormSessionStore.UpdateActivity: an UPDATE by token, which writes nothing
\* when the row is gone.
UpdateActivity(u) ==
    store' = IF store[u.token] = None THEN store
             ELSE [store EXCEPT ![u.token].ip = u.ip, ![u.token].seen = u.seen]

\* The writer's statement, outside the lock; an error is only logged.
WriterWrite ==
    /\ writer.pc = "holding"
    /\ writer' = Looking
    /\ \/ UpdateActivity(writer.update) /\ lost' = lost \ {writer.update.token} /\ UNCHANGED faults
       \/ Fault /\ store' = store /\ lost' = lost \cup {writer.update.token}
    /\ UNCHANGED <<now, cache, pending, policy, keys, req, issued, restarts, gone>>

Tick == now < MaxNow /\ now' = now + 1
        /\ UNCHANGED <<cache, store, pending, writer, policy, keys, req, issued,
                       faults, restarts, gone, lost>>

\* SyncCPAAPIKeysForInstance: the native keys CPA lists are created or revived,
\* the others are marked deleted.
SyncKeys(listed) ==
    /\ keys' = listed
    /\ UNCHANGED <<now, cache, store, pending, writer, policy, req, issued,
                   faults, restarts, gone, lost>>

\* RevokeInvalidOIDCSessions: the OIDC rows the policy of this start refuses.
InvalidOIDC(p) == {t \in Tokens : /\ store[t] # None /\ store[t].source = "oidc"
                                  /\ ~SessionAllowed(store[t], p)}

\* The process stops at any point and starts again with the policy its
\* configuration has now; memory is lost, the table stays.
RestartSessions ==
    /\ restarts < MaxRestarts /\ restarts' = restarts + 1
    /\ \E p \in Policies : /\ policy' = p
                           /\ store' = Without(store, InvalidOIDC(p))
                           /\ gone' = gone \cup InvalidOIDC(p)
    /\ cache' = [t \in Tokens |-> None] /\ pending' = [t \in Tokens |-> None]
    /\ writer' = Stopped /\ req' = [r \in Requests |-> Idle]
    /\ lost' = lost
    /\ UNCHANGED <<now, keys, issued, faults>>
-----------------------------------------------------------------------------
\* The sessions that the logins ask for (api/auth.go, api/auth_oidc.go).
NewSessions ==
    {NewSession("admin", source, None, None, None, ip) :
         source \in {"standard", "embed"}, ip \in IPs} \cup
    {NewSession("viewer", source, key, None, None, ip) :
         source \in {"standard", "embed"}, key \in Keys, ip \in IPs} \cup
    {NewSession("admin", "oidc", None, policy.app, subject, ip) :
         subject \in Subjects, ip \in IPs}

\* What goes on beside logins and restarts.  Requests may offer any token, drawn
\* or not.
RequestStep ==
    \/ \E r \in Requests, e \in BOOLEAN, c, h \in Tokens \cup {None}, ip \in IPs :
          \/ GetSession(r, e, c, h, ip)
          \/ \E role \in Roles : RoleMiddleware(r, e, c, h, ip, role)
    \/ \E r \in Requests : TouchGet(r) \/ TouchUpdate(r) \/ Serve(r)
    \/ \E e \in BOOLEAN, c, h \in Tokens \cup {None} : Logout(e, c, h)
    \/ \E t \in Tokens :
          RevokeManagedSession(t) \/ \E alias \in Aliases : UpdateManagedSessionAlias(t, alias)
    \/ \E role \in Roles : DeleteByRole(role)
    \/ CleanupExpired \/ WriterTake \/ WriterWrite \/ Tick
    \/ \E listed \in SUBSET Keys : SyncKeys(listed)

SessionsNext ==
    \/ \E s \in NewSessions : CreateSession(s)
    \/ RequestStep
    \/ RestartSessions

SessionsSpec == Init /\ [][SessionsNext]_vars
-----------------------------------------------------------------------------
\* A session that was revoked, logged out or refused, with an answer that said
\* so, is in neither the cache nor the table again: not by the writer that held
\* an update of it, not by a request that was between its two lookups, not by a
\* restart (auth/session.go, UpdateActivity, Touch, getPersisted).
GoneStaysGone == \A t \in gone : cache[t] = None /\ store[t] = None

\* Every session the manager would accept is in the list an administrator sees,
\* and so can be revoked there, whichever statements failed and whatever was
\* cached before (create, getPersisted, List).
NoHiddenSession == \A t \in Tokens : Live(t) => t \in DOMAIN ListManagedSessions

\* The last activity of a cached session, or a later one, is in the table, or is
\* waiting for a writer that runs, or is in that writer's hands, unless its write
\* failed: an older update never lands on a newer one and none is left behind
\* when the writer stops (Touch, writePendingActivity).
ActivitySettles ==
    \A t \in Tokens :
        /\ pending[t] # None => writer # Stopped
        /\ cache[t] # None =>
              \/ pending[t] # None /\ pending[t].seen >= cache[t].seen
              \/ /\ pending[t] = None
                 /\ \/ store[t].seen >= cache[t].seen
                    \/ writer.update # None /\ writer.update.token = t
                         /\ writer.update.seen >= cache[t].seen
              \/ t \in lost

\* Cache, table, pending updates and the administrator's list are one store to
\* whoever uses them (SessionManager).
SessionsAgree == GoneStaysGone /\ NoHiddenSession /\ ActivitySettles
=============================================================================
