----------------------------- MODULE AuthProofs -----------------------------
(***************************************************************************)
(* That the cache, the table, the pending updates and the administrator's  *)
(* list are one store of sessions, for any number of tokens, requests,     *)
(* failing statements and restarts, whatever tokens are offered; that an   *)
(* OIDC login gives one session to the browser that began it; and that the *)
(* limiter bounds the attempts in every stretch of a window's length.      *)
(***************************************************************************)
EXTENDS AuthLogin, TLAPS

Requesting == [pc : {"resolved", "touching", "admitted"}, token : Tokens,
               key : Keys \cup {None}, ip : IPs]

SessionTypes ==
    /\ now \in Nat
    /\ cache \in [Tokens -> Sessions \cup {None}]
    /\ store \in [Tokens -> Sessions \cup {None}]
    /\ pending \in [Tokens -> Updates \cup {None}]
    /\ writer \in {Stopped, Looking} \cup [pc : {"holding"}, update : Updates]
    /\ issued \subseteq Tokens
    /\ gone \subseteq Tokens
    /\ lost \subseteq Tokens

RequestTypes ==
    /\ policy \in Policies
    /\ keys \subseteq Keys
    /\ req \in [Requests -> {Idle} \cup Requesting]
    /\ faults \in Nat
    /\ restarts \in Nat

TypeOK == SessionTypes /\ RequestTypes

\* The same login.
Alike(a, b) ==
    /\ a.role = b.role /\ a.source = b.source /\ a.app = b.app
    /\ a.subject = b.subject /\ a.exp = b.exp

\* A token with c in the cache, s in the table, p pending and u in the
\* writer's hands, at time n; l, i and g: it is in lost, issued and gone.
\* What is older in the chain c, p, u, s is nowhere newer.
Consistent(c, s, p, u, l, i, g, n) ==
    /\ c # None \/ s # None \/ p # None \/ u # None \/ g => i
    /\ g => c = None /\ s = None
    /\ c # None => s # None /\ Alike(c, s) /\ c.seen <= n
    /\ s # None => s.seen <= n
    /\ p # None =>
          /\ p.seen <= n
          /\ c # None => c.seen <= p.seen
          /\ u # None => u.seen <= p.seen
          /\ s # None => s.seen <= p.seen
    /\ u # None =>
          /\ u.seen <= n
          /\ c # None /\ p = None => c.seen <= u.seen
          /\ s # None => s.seen <= u.seen
    /\ c # None /\ p = None /\ u = None => c.seen <= s.seen \/ l

Held(t) ==
    IF writer.update # None /\ writer.update.token = t THEN writer.update ELSE None

ConsistentAt(t) ==
    Consistent(cache[t], store[t], pending[t], Held(t),
               t \in lost, t \in issued, t \in gone, now)

\* A pending update is of its token, and a writer will take it.
PendingRuns ==
    \A t \in Tokens : pending[t] # None => pending[t].token = t /\ writer # Stopped

SessionsInv == SessionTypes /\ PendingRuns /\ \A t \in Tokens : ConsistentAt(t)

IInv == SessionsInv /\ RequestTypes
-----------------------------------------------------------------------------
(* Steps that load, drop and rename sessions.                               *)

Kept == Sessions \cup {None}
Waiting == Updates \cup {None}

LEMMA AtToken ==
    ASSUME SessionsInv, NEW t \in Tokens
    PROVE  /\ cache[t] \in Kept /\ store[t] \in Kept
           /\ cache[t] # None => /\ store[t] # None /\ Alike(cache[t], store[t])
                                 /\ cache[t].exp = store[t].exp
           /\ cache[t] # None \/ store[t] # None \/ t \in gone => t \in issued
           /\ t \in gone => cache[t] = None /\ store[t] = None
           /\ store[t] # None => store[t] \in Sessions /\ store[t].seen \in Nat
           /\ cache[t] # None => cache[t] \in Sessions /\ cache[t].seen \in Nat
<1>1. ConsistentAt(t) /\ cache[t] \in Kept /\ store[t] \in Kept
  BY DEF SessionsInv, SessionTypes, Kept
<1>2. \A s \in Sessions : s.seen \in Nat
  BY DEF Sessions
<1> QED
  BY <1>1, <1>2 DEF ConsistentAt, Consistent, Alike, Kept

\* What becomes of a token in such a step.
Follows(t) ==
    /\ store'[t] # None => /\ store[t] # None
                           /\ Alike(store'[t], store[t]) /\ store'[t].seen = store[t].seen
    /\ cache'[t] # None =>
          /\ store'[t] # None
          /\ IF cache[t] # None
               THEN Alike(cache'[t], cache[t]) /\ cache'[t].seen = cache[t].seen
               ELSE Alike(cache'[t], store[t]) /\ cache'[t].seen = store[t].seen
    /\ t \in gone' => t \in gone \/ (t \in issued /\ cache'[t] = None /\ store'[t] = None)

LEMMA FollowsIssuing ==
    ASSUME SessionsInv, UNCHANGED <<now, pending, writer, lost>>,
           issued \subseteq issued', issued' \subseteq Tokens,
           cache' \in [Tokens -> Kept], store' \in [Tokens -> Kept], gone' \subseteq Tokens,
           \A t \in Tokens : Follows(t)
    PROVE  SessionsInv'
<1>1. ASSUME NEW t \in Tokens PROVE ConsistentAt(t)'
  <2>1. Follows(t) /\ ConsistentAt(t)
    BY DEF SessionsInv
  <2>2. t \in gone => t \in issued /\ cache[t] = None /\ store[t] = None
    BY AtToken
  <2>3. store[t] # None => store[t].seen \in Nat
    BY AtToken
  <2>4. Held(t)' = Held(t)
    BY DEF Held
  <2>5. t \in gone' =>
          t \in issued /\ (t \in gone \/ (cache'[t] = None /\ store'[t] = None))
    BY <2>1, <2>2 DEF Follows
  <2>6. Consistent(cache[t], store[t], pending[t], Held(t),
                   t \in lost, t \in issued, t \in gone, now)
    BY <2>1 DEF ConsistentAt
  <2>7. t \in issued => t \in issued'
    OBVIOUS
  <2>8. Consistent(cache'[t], store'[t], pending[t], Held(t),
                   t \in lost, t \in issued', t \in gone', now)
    BY <2>1, <2>3, <2>5, <2>6, <2>7 DEF Follows, Consistent, Alike
  <2> QED
    BY <2>4, <2>8 DEF ConsistentAt
<1>2. SessionTypes' /\ PendingRuns'
  BY DEF SessionsInv, SessionTypes, PendingRuns, Kept
<1> QED
  BY <1>1, <1>2 DEF SessionsInv

\* A step that only drops sessions, the copy with the row.
LEMMA DropsIssuing ==
    ASSUME SessionsInv, UNCHANGED <<now, pending, writer, lost>>,
           issued \subseteq issued', issued' \subseteq Tokens,
           cache' \in [Tokens -> Kept], store' \in [Tokens -> Kept], gone' \subseteq Tokens,
           \A t \in Tokens :
              /\ cache'[t] \in {cache[t], None}
              /\ store'[t] \in {store[t], None}
              /\ store'[t] = None => cache'[t] = None
              /\ t \in gone' =>
                    t \in gone \/ (t \in issued /\ cache'[t] = None /\ store'[t] = None)
    PROVE  SessionsInv'
<1>1. ASSUME NEW t \in Tokens PROVE Follows(t)
  BY AtToken DEF Follows, Alike
<1> QED
  BY <1>1, FollowsIssuing

\* The two without a new session.
LEMMA FollowsStep ==
    ASSUME SessionsInv, UNCHANGED <<now, pending, writer, issued, lost>>,
           cache' \in [Tokens -> Kept], store' \in [Tokens -> Kept], gone' \subseteq Tokens,
           \A t \in Tokens : Follows(t)
    PROVE  SessionsInv'
<1>1. issued \subseteq issued' /\ issued' \subseteq Tokens
  BY DEF SessionsInv, SessionTypes
<1> QED
  BY <1>1, FollowsIssuing

LEMMA DropsStep ==
    ASSUME SessionsInv, UNCHANGED <<now, pending, writer, issued, lost>>,
           cache' \in [Tokens -> Kept], store' \in [Tokens -> Kept], gone' \subseteq Tokens,
           \A t \in Tokens :
              /\ cache'[t] \in {cache[t], None}
              /\ store'[t] \in {store[t], None}
              /\ store'[t] = None => cache'[t] = None
              /\ t \in gone' =>
                    t \in gone \/ (t \in issued /\ cache'[t] = None /\ store'[t] = None)
    PROVE  SessionsInv'
<1>1. issued \subseteq issued' /\ issued' \subseteq Tokens
  BY DEF SessionsInv, SessionTypes
<1> QED
  BY <1>1, DropsIssuing

\* The expired are those of the table: a copy expires with its row.
LEMMA Expiry ==
    ASSUME SessionsInv, NEW t \in Tokens
    PROVE  /\ Unexpired(cache)[t] \in {cache[t], None}
           /\ Unexpired(store)[t] \in {store[t], None}
           /\ Unexpired(store)[t] = None => Unexpired(cache)[t] = None
           /\ t \in Expired(cache) \cup Expired(store) =>
                t \in issued /\ Unexpired(cache)[t] = None /\ Unexpired(store)[t] = None
BY AtToken DEF Unexpired, Expired

LEMMA UnexpiredType ==
    ASSUME NEW f \in [Tokens -> Kept]
    PROVE  Unexpired(f) \in [Tokens -> Kept]
BY DEF Unexpired, Kept

LEMMA WithoutType ==
    ASSUME NEW f \in [Tokens -> Kept], NEW S
    PROVE  /\ Without(f, S) \in [Tokens -> Kept]
           /\ \A t \in Tokens : Without(f, S)[t] = IF t \in S THEN None ELSE f[t]
BY DEF Without, Kept

LEMMA DeleteTokensStep ==
    ASSUME SessionsInv, UNCHANGED <<now, pending, writer, issued, lost>>,
           NEW S, NEW cleanFirst \in BOOLEAN, DeleteTokens(S, cleanFirst)
    PROVE  SessionsInv'
<1> DEFINE c == IF cleanFirst THEN Unexpired(cache) ELSE cache
           d == IF cleanFirst THEN Unexpired(store) ELSE store
           expired == IF cleanFirst THEN Expired(cache) \cup Expired(store) ELSE {}
<1>1. cache \in [Tokens -> Kept] /\ store \in [Tokens -> Kept]
  BY DEF SessionsInv, SessionTypes, Kept
<1>2. c \in [Tokens -> Kept] /\ d \in [Tokens -> Kept]
  BY <1>1, UnexpiredType
<1>3. gone \subseteq Tokens /\ issued \subseteq Tokens
  BY DEF SessionsInv, SessionTypes
<1>4. ASSUME NEW t \in Tokens
      PROVE  /\ c[t] \in {cache[t], None} /\ d[t] \in {store[t], None}
             /\ d[t] = None => c[t] = None
             /\ t \in expired => t \in issued /\ c[t] = None /\ d[t] = None
  BY AtToken, Expiry
<1>5. expired \subseteq Tokens
  BY DEF Expired
<1>6. \/ /\ cache' = Without(c, S) /\ store' = Without(d, S)
         /\ gone' = gone \cup (S \cap issued) \cup expired
      \/ /\ cache' = Without(c, S) /\ store' = d /\ gone' = gone \cup expired
      \/ cache' = c /\ store' = store /\ gone' = gone
  BY DEF DeleteTokens
<1> HIDE DEF c, d, expired
<1>7. CASE /\ cache' = Without(c, S) /\ store' = Without(d, S)
           /\ gone' = gone \cup (S \cap issued) \cup expired
  <2>1. cache' \in [Tokens -> Kept] /\ store' \in [Tokens -> Kept] /\ gone' \subseteq Tokens
    BY <1>2, <1>3, <1>5, <1>7, WithoutType
  <2>2. ASSUME NEW t \in Tokens
        PROVE  /\ cache'[t] = (IF t \in S THEN None ELSE c[t])
               /\ store'[t] = (IF t \in S THEN None ELSE d[t])
    BY <1>2, <1>7, WithoutType
  <2> QED
    BY <1>4, <1>7, <2>1, <2>2, DropsStep
<1>8. CASE cache' = Without(c, S) /\ store' = d /\ gone' = gone \cup expired
  <2>1. cache' \in [Tokens -> Kept] /\ store' \in [Tokens -> Kept] /\ gone' \subseteq Tokens
    BY <1>2, <1>3, <1>5, <1>8, WithoutType
  <2>2. ASSUME NEW t \in Tokens
        PROVE  cache'[t] = (IF t \in S THEN None ELSE c[t])
    BY <1>2, <1>8, WithoutType
  <2> QED
    BY <1>4, <1>8, <2>1, <2>2, DropsStep
<1>9. CASE cache' = c /\ store' = store /\ gone' = gone
  BY <1>1, <1>2, <1>3, <1>4, <1>9, AtToken, DropsStep
<1> QED
  BY <1>6, <1>7, <1>8, <1>9

LEMMA CleanupStep ==
    ASSUME SessionsInv, CleanupExpired
    PROVE  SessionsInv'
<1>1. cache \in [Tokens -> Kept] /\ store \in [Tokens -> Kept]
  BY DEF SessionsInv, SessionTypes, Kept
<1>2. Unexpired(cache) \in [Tokens -> Kept] /\ Unexpired(store) \in [Tokens -> Kept]
  BY <1>1, UnexpiredType
<1>3. gone' \subseteq Tokens
  BY DEF CleanupExpired, Expired, SessionsInv, SessionTypes
<1> QED
  BY <1>1, <1>2, <1>3, Expiry, AtToken, DropsStep DEF CleanupExpired

LEMMA RenamedSession ==
    ASSUME NEW s \in Sessions, NEW alias \in Aliases
    PROVE  LET r == [s EXCEPT !.alias = alias] IN
           r \in Sessions /\ r \in Kept /\ r # None /\ Alike(r, s) /\ r.seen = s.seen
BY NoneAssumption DEF Sessions, Alike, Kept

LEMMA AliasStep ==
    ASSUME SessionsInv, NEW t \in Tokens, NEW alias \in Aliases,
           UpdateManagedSessionAlias(t, alias)
    PROVE  SessionsInv'
<1> DEFINE c == Unexpired(cache)
           d == Unexpired(store)
           hit == d[t] # None /\ d[t].role = "admin"
<1>1. cache \in [Tokens -> Kept] /\ store \in [Tokens -> Kept]
  BY DEF SessionsInv, SessionTypes, Kept
<1>2. c \in [Tokens -> Kept] /\ d \in [Tokens -> Kept]
  BY <1>1, UnexpiredType
<1>3. UNCHANGED <<now, pending, writer, issued, lost>>
  BY DEF UpdateManagedSessionAlias
<1>4. gone' \subseteq Tokens
  BY DEF UpdateManagedSessionAlias, Expired, SessionsInv, SessionTypes
<1>5. CASE cache' = c /\ store' \in {store, d} /\ gone' = gone
  BY <1>1, <1>2, <1>3, <1>4, <1>5, Expiry, AtToken, DropsStep
<1>6. CASE /\ gone' = gone \cup Expired(cache) \cup Expired(store)
           /\ store' = IF hit THEN [d EXCEPT ![t].alias = alias] ELSE d
           /\ cache' = IF hit /\ c[t] # None THEN [c EXCEPT ![t].alias = alias] ELSE c
  <2>1. \A x \in Tokens :
           /\ c[x] \in {cache[x], None} /\ d[x] \in {store[x], None}
           /\ d[x] = None => c[x] = None
           /\ x \in gone' => x \in gone \/ (x \in issued /\ c[x] = None /\ d[x] = None)
    BY <1>6, Expiry
  <2>2. d[t] # None => d[t] = store[t] /\ d[t] \in Sessions
    BY <2>1, AtToken
  <2>3. c[t] # None => c[t] = cache[t] /\ c[t] \in Sessions
    BY <2>1, AtToken
  <2> HIDE DEF c, d
  <2>4. store' \in [Tokens -> Kept] /\ cache' \in [Tokens -> Kept]
    <3>1. hit => [d[t] EXCEPT !.alias = alias] \in Kept
      BY <2>2, RenamedSession
    <3>2. c[t] # None => [c[t] EXCEPT !.alias = alias] \in Kept
      BY <2>3, RenamedSession
    <3> QED
      BY <1>2, <1>6, <3>1, <3>2
  <2>5. /\ \A x \in Tokens \ {t} : store'[x] = d[x] /\ cache'[x] = c[x]
        /\ store'[t] = (IF hit THEN [d[t] EXCEPT !.alias = alias] ELSE d[t])
        /\ cache'[t] = (IF hit /\ c[t] # None THEN [c[t] EXCEPT !.alias = alias] ELSE c[t])
    BY <1>2, <1>6
  <2>6. ASSUME NEW x \in Tokens \ {t} PROVE Follows(x)
    BY <2>1, <2>5, AtToken DEF Follows, Alike
  <2>7. hit => store'[t] # None /\ Alike(store'[t], store[t]) /\ store'[t].seen = store[t].seen
    BY <2>2, <2>5, RenamedSession
  <2>8. ~hit => store'[t] = d[t] /\ cache'[t] = c[t]
    BY <2>5
  <2>9. hit /\ c[t] # None =>
          cache'[t] # None /\ Alike(cache'[t], cache[t]) /\ cache'[t].seen = cache[t].seen
    BY <2>3, <2>5, RenamedSession
  <2>10. c[t] = None => cache'[t] = None
    BY <2>5
  <2>11. Follows(t)
    <3>1. CASE hit
      BY <3>1, <2>1, <2>2, <2>3, <2>7, <2>9, <2>10, AtToken DEF Follows
    <3>2. CASE ~hit
      BY <3>2, <2>1, <2>2, <2>3, <2>8, AtToken DEF Follows, Alike
    <3> QED
      BY <3>1, <3>2
  <2> QED
    BY <1>3, <1>4, <2>4, <2>6, <2>11, FollowsStep
<1> QED
  BY <1>5, <1>6 DEF UpdateManagedSessionAlias

\* Get: what is found is cached, what is dead goes.
LEMMA GetStep ==
    ASSUME SessionsInv, UNCHANGED <<now, pending, writer, issued, lost>>,
           NEW loaded, NEW dead, AfterGet(loaded, dead) \/ FailingGet(loaded, dead)
    PROVE  SessionsInv'
<1>1. cache \in [Tokens -> Kept] /\ store \in [Tokens -> Kept]
  BY DEF SessionsInv, SessionTypes, Kept
<1>2. Caching(loaded) \in [Tokens -> Kept]
  BY <1>1 DEF Caching, Found
<1>3. \A t \in Tokens : Caching(loaded)[t] = IF t \in loaded THEN Found(t) ELSE cache[t]
  BY DEF Caching
<1> DEFINE f == Caching(loaded)
<1> HIDE DEF f
<1>4. f \in [Tokens -> Kept] /\ cache' = Without(f, dead)
      /\ \A t \in Tokens : f[t] = IF t \in loaded THEN Found(t) ELSE cache[t]
  BY <1>2, <1>3 DEF AfterGet, FailingGet, f
<1>5. /\ cache' \in [Tokens -> Kept]
      /\ \A t \in Tokens : cache'[t] = IF t \in dead THEN None ELSE f[t]
  BY <1>4, WithoutType
<1>6. /\ store' \in [Tokens -> Kept]
      /\ \A t \in Tokens : store'[t] \in {store[t], IF t \in dead THEN None ELSE store[t]}
      /\ \A t \in Tokens : t \in gone' =>
            t \in gone \/ (t \in issued /\ t \in dead /\ store'[t] = None)
  <2>1. CASE AfterGet(loaded, dead)
    <3>1. store' = Without(store, dead) /\ gone' = gone \cup (dead \cap issued)
      BY <2>1 DEF AfterGet
    <3>2. /\ store' \in [Tokens -> Kept]
          /\ \A t \in Tokens : store'[t] = IF t \in dead THEN None ELSE store[t]
      BY <1>1, <3>1, WithoutType
    <3> QED
      BY <3>1, <3>2
  <2>2. CASE FailingGet(loaded, dead)
    BY <1>1, <2>2 DEF FailingGet
  <2> QED
    BY <2>1, <2>2
<1>7. gone' \subseteq Tokens
  BY DEF AfterGet, FailingGet, SessionsInv, SessionTypes
<1>8. ASSUME NEW t \in Tokens PROVE Follows(t)
  <2>1. CASE t \in dead
    BY <2>1, <1>5, <1>6, AtToken DEF Follows, Alike
  <2>2. CASE t \notin dead
    BY <2>2, <1>4, <1>5, <1>6, AtToken DEF Follows, Alike, Found
  <2> QED
    BY <2>1, <2>2
<1> QED
  BY <1>5, <1>6, <1>7, <1>8, FollowsStep
-----------------------------------------------------------------------------
(* Steps that begin a session, touch it, write its activity.                *)

LEMMA NewSessionsType ==
    ASSUME RequestTypes, NEW s \in NewSessions
    PROVE  s \in Sessions
<1>1. ASSUME NEW role \in Roles, NEW source \in {"standard", "embed", "oidc"},
             NEW key \in Keys \cup {None}, NEW app \in Apps \cup {None},
             NEW subject \in Subjects \cup {None}, NEW ip \in IPs
      PROVE  NewSession(role, source, key, app, subject, ip) \in Sessions
  BY DEF NewSession, Sessions, Aliases
<1>2. policy.app \in Apps
  BY AuthAssumption DEF RequestTypes
<1>3. /\ "admin" \in Roles /\ "viewer" \in Roles
      /\ None \in Keys \cup {None} /\ None \in Apps \cup {None} /\ None \in Subjects \cup {None}
  BY DEF Roles
<1>4. CASE s \in {NewSession("admin", source, None, None, None, ip) :
                    source \in {"standard", "embed"}, ip \in IPs}
  <2>1. PICK source \in {"standard", "embed"}, ip \in IPs :
               s = NewSession("admin", source, None, None, None, ip)
    BY <1>4
  <2> QED
    BY <1>1, <1>3, <2>1
<1>5. CASE s \in {NewSession("viewer", source, key, None, None, ip) :
                    source \in {"standard", "embed"}, key \in Keys, ip \in IPs}
  <2>1. PICK source \in {"standard", "embed"}, key \in Keys, ip \in IPs :
               s = NewSession("viewer", source, key, None, None, ip)
    BY <1>5
  <2> QED
    BY <1>1, <1>3, <2>1
<1>6. CASE s \in {NewSession("admin", "oidc", None, policy.app, subject, ip) :
                    subject \in Subjects, ip \in IPs}
  <2>1. PICK subject \in Subjects, ip \in IPs :
               s = NewSession("admin", "oidc", None, policy.app, subject, ip)
    BY <1>6
  <2> QED
    BY <1>1, <1>2, <1>3, <2>1
<1> QED
  BY <1>4, <1>5, <1>6 DEF NewSessions

LEMMA CreateStep ==
    ASSUME SessionsInv, NEW s \in Sessions, CreateSession(s)
    PROVE  SessionsInv'
<1>1. PICK t \in Tokens \ issued : t = CHOOSE x \in Tokens \ issued : TRUE
  BY DEF CreateSession
<1> DEFINE full == [s EXCEPT !.seen = now, !.exp = now + TTL]
           clean == Unexpired(cache)
           kept == Unexpired(store)
           done == gone \cup Expired(cache) \cup Expired(store)
<1>2. full \in Sessions /\ full # None /\ full.seen = now /\ now \in Nat
  <2>1. now \in Nat /\ now + TTL \in Nat
    BY AuthAssumption DEF SessionsInv, SessionTypes
  <2>2. full \in Sessions /\ full.seen = now
    BY <2>1 DEF Sessions
  <2> QED
    BY <2>1, <2>2, NoneAssumption
<1>3. /\ issued' = issued \cup {t}
      /\ UNCHANGED <<now, pending, writer, lost>>
      /\ \/ cache' = clean /\ store' = kept /\ gone' = done
         \/ cache' = [clean EXCEPT ![t] = full] /\ store' = [kept EXCEPT ![t] = full] /\ gone' = done
         \/ cache' = clean /\ store' = store /\ gone' = gone
  BY <1>1 DEF CreateSession
<1> HIDE DEF full
<1>4. issued \subseteq issued' /\ issued' \subseteq Tokens
  BY <1>1, <1>3 DEF SessionsInv, SessionTypes
<1>5. CASE \/ cache' = clean /\ store' = kept /\ gone' = done
           \/ cache' = clean /\ store' = store /\ gone' = gone
  <2>1. cache \in [Tokens -> Kept] /\ store \in [Tokens -> Kept]
    BY DEF SessionsInv, SessionTypes, Kept
  <2>2. clean \in [Tokens -> Kept] /\ kept \in [Tokens -> Kept]
    BY <2>1, UnexpiredType
  <2>3. gone' \subseteq Tokens
    BY <1>5 DEF SessionsInv, SessionTypes, Expired
  <2> QED
    BY <1>3, <1>4, <1>5, <2>1, <2>2, <2>3, Expiry, AtToken, DropsIssuing
<1>6. CASE /\ cache' = [clean EXCEPT ![t] = full]
           /\ store' = [kept EXCEPT ![t] = full] /\ gone' = done
  <2>1. cache \in [Tokens -> Kept] /\ store \in [Tokens -> Kept]
    BY DEF SessionsInv, SessionTypes, Kept
  <2>2. clean \in [Tokens -> Kept] /\ kept \in [Tokens -> Kept] /\ full \in Kept
    BY <1>2, <2>1, UnexpiredType DEF Kept
  <2>3. done \subseteq Tokens
    BY DEF SessionsInv, SessionTypes, Expired
  <2>4. \A x \in Tokens :
           /\ clean[x] \in {cache[x], None} /\ kept[x] \in {store[x], None}
           /\ kept[x] = None => clean[x] = None
           /\ x \in done => x \in issued /\ clean[x] = None /\ kept[x] = None
    BY Expiry, AtToken
  <2> HIDE DEF clean, kept, done
  <2>5. cache' \in [Tokens -> Kept] /\ store' \in [Tokens -> Kept] /\ gone' \subseteq Tokens
    BY <1>6, <2>2, <2>3
  <2>6. /\ cache'[t] = full /\ store'[t] = full
        /\ \A x \in Tokens \ {t} : cache'[x] = clean[x] /\ store'[x] = kept[x]
    BY <1>1, <1>6, <2>2
  <2>7. t \notin gone'
    BY <1>1, <1>6, <2>4
  <2>8. ASSUME NEW x \in Tokens \ {t} PROVE ConsistentAt(x)'
    <3>1. Consistent(cache[x], store[x], pending[x], Held(x),
                     x \in lost, x \in issued, x \in gone, now)
      BY DEF SessionsInv, ConsistentAt
    <3>2. Follows(x)
      BY <1>6, <2>4, <2>6, AtToken DEF Follows, Alike
    <3>3. x \in gone => x \in issued
      BY AtToken
    <3>4. store[x] # None => store[x].seen \in Nat
      BY AtToken
    <3>5. x \in gone' => x \in issued /\ (x \in gone \/ (cache'[x] = None /\ store'[x] = None))
      BY <3>2, <3>3 DEF Follows
    <3>6. Consistent(cache'[x], store'[x], pending[x], Held(x),
                     x \in lost, x \in issued', x \in gone', now)
      BY <1>4, <3>1, <3>2, <3>4, <3>5 DEF Follows, Consistent, Alike
    <3>7. Held(x)' = Held(x)
      BY <1>3 DEF Held
    <3> QED
      BY <1>3, <3>6, <3>7 DEF ConsistentAt
  <2>9. ConsistentAt(t)'
    <3>1. Consistent(cache[t], store[t], pending[t], Held(t),
                     t \in lost, t \in issued, t \in gone, now)
      BY <1>1 DEF SessionsInv, ConsistentAt
    <3>2. t \notin issued /\ t \in issued'
      BY <1>1, <1>3
    <3>3. Consistent(full, full, pending[t], Held(t),
                     t \in lost, t \in issued', t \in gone', now)
      BY <1>2, <2>7, <3>1, <3>2 DEF Consistent, Alike
    <3>4. Held(t)' = Held(t)
      BY <1>3 DEF Held
    <3> QED
      BY <1>3, <2>6, <3>3, <3>4 DEF ConsistentAt
  <2>10. SessionTypes' /\ PendingRuns'
    BY <1>3, <1>4, <2>5 DEF SessionsInv, SessionTypes, PendingRuns, Kept
  <2> QED
    BY <2>8, <2>9, <2>10 DEF SessionsInv
<1> QED
  BY <1>3, <1>5, <1>6

\* What is known of a token, its update and the writer.
LEMMA AtWriter ==
    ASSUME SessionsInv, NEW t \in Tokens
    PROVE  /\ now \in Nat
           /\ Consistent(cache[t], store[t], pending[t], Held(t),
                         t \in lost, t \in issued, t \in gone, now)
           /\ pending[t] \in Waiting /\ Held(t) \in Waiting
           /\ pending[t] # None => /\ pending[t].token = t /\ pending[t].seen \in Nat
                                   /\ writer # Stopped
           /\ Held(t) # None => Held(t).seen \in Nat
<1>1. pending[t] \in Waiting /\ now \in Nat /\ ConsistentAt(t)
  BY DEF SessionsInv, SessionTypes, Waiting
<1>2. Held(t) \in Waiting
  BY DEF SessionsInv, SessionTypes, Held, Waiting, Stopped, Looking
<1>3. \A u \in Waiting : u # None => u.seen \in Nat
  BY DEF Waiting, Updates
<1> QED
  BY <1>1, <1>2, <1>3 DEF SessionsInv, PendingRuns, ConsistentAt

LEMMA TouchedSession ==
    ASSUME NEW s \in Sessions, NEW ip \in IPs, NEW n \in Nat
    PROVE  LET r == [s EXCEPT !.ip = ip, !.seen = n] IN
           r \in Sessions /\ r \in Kept /\ r # None /\ Alike(r, s) /\ r.seen = n
BY NoneAssumption DEF Sessions, Alike, Kept

LEMMA TouchStep ==
    ASSUME SessionsInv, RequestTypes, NEW r \in Requests, TouchUpdate(r)
    PROVE  SessionsInv'
<1> DEFINE t == req[r].token
           ip == req[r].ip
<1>1. req[r] \in Requesting /\ t \in Tokens /\ ip \in IPs
  BY DEF TouchUpdate, RequestTypes, Requesting, Idle
<1>2. CASE UNCHANGED <<cache, pending, writer, lost>>
  <2>1. UNCHANGED <<now, store, issued, gone>>
    BY DEF TouchUpdate
  <2>2. \A x \in Tokens : ConsistentAt(x)'
    BY <1>2, <2>1 DEF SessionsInv, ConsistentAt, Held
  <2> QED
    BY <1>2, <2>1, <2>2 DEF SessionsInv, SessionTypes, PendingRuns
<1>3. ASSUME ~UNCHANGED <<cache, pending, writer, lost>>
      PROVE  SessionsInv'
  <2> DEFINE p == [token |-> t, ip |-> ip, seen |-> now]
             c == [cache[t] EXCEPT !.ip = ip, !.seen = now]
  <2>1. /\ cache[t] # None
        /\ cache' = [cache EXCEPT ![t] = c]
        /\ pending' = [pending EXCEPT ![t] = p]
        /\ writer' = IF writer = Stopped THEN Looking ELSE writer
        /\ lost' = lost \ {t}
        /\ UNCHANGED <<now, store, issued, gone>>
    BY <1>3 DEF TouchUpdate
  <2>2. now \in Nat
    BY DEF SessionsInv, SessionTypes
  <2>3. cache[t] \in Sessions
    BY <1>1, <2>1, AtToken
  <2>4. c \in Sessions /\ c # None /\ Alike(c, cache[t]) /\ c.seen = now
    <3>1. \A s \in Sessions, a \in IPs, n \in Nat :
             LET e == [s EXCEPT !.ip = a, !.seen = n] IN
             e \in Sessions /\ e # None /\ Alike(e, s) /\ e.seen = n
      BY TouchedSession
    <3> HIDE DEF t, ip
    <3> QED
      BY <1>1, <2>2, <2>3, <3>1
  <2>5. p \in Updates /\ p # None /\ p.token = t /\ p.seen = now
    BY <1>1, <2>2, NoneAssumption DEF Updates
  <2> HIDE DEF p, c, t, ip
  <2>6. SessionTypes'
    BY <2>1, <2>4, <2>5 DEF SessionsInv, SessionTypes, Looking, Stopped
  <2>7. /\ cache'[t] = c /\ pending'[t] = p
        /\ \A x \in Tokens \ {t} : cache'[x] = cache[x] /\ pending'[x] = pending[x]
    BY <1>1, <2>1 DEF SessionsInv, SessionTypes
  <2>8. PendingRuns'
    BY <2>1, <2>5, <2>7 DEF SessionsInv, PendingRuns, Looking, Stopped
  <2>9. \A x \in Tokens : Held(x)' = Held(x)
    BY <2>1 DEF Held, Looking, Stopped
  <2>10. ASSUME NEW x \in Tokens PROVE ConsistentAt(x)'
    <3>1. Consistent(cache[x], store[x], pending[x], Held(x),
                     x \in lost, x \in issued, x \in gone, now)
      BY AtWriter
    <3>2. CASE x # t
      <4>1. (x \in lost') = (x \in lost)
        BY <2>1, <3>2
      <4> QED
        BY <2>1, <2>7, <2>9, <3>1, <3>2, <4>1 DEF ConsistentAt
    <3>3. CASE x = t
      <4>1. Held(x) # None => Held(x).seen \in Nat
        BY AtWriter
      <4>2. Consistent(c, store[x], p, Held(x), x \in lost', x \in issued, x \in gone, now)
        BY <2>1, <2>2, <2>4, <2>5, <3>1, <3>3, <4>1 DEF Consistent, Alike
      <4> QED
        BY <2>1, <2>7, <2>9, <3>3, <4>2 DEF ConsistentAt
    <3> QED
      BY <3>2, <3>3
  <2> QED
    BY <2>6, <2>8, <2>10 DEF SessionsInv
<1> QED
  BY <1>2, <1>3

LEMMA WriterTakeStep ==
    ASSUME SessionsInv, WriterTake
    PROVE  SessionsInv'
<1>1. writer = Looking /\ UNCHANGED <<now, cache, store, issued, gone, lost>>
  BY DEF WriterTake
<1>2. \A x \in Tokens : Held(x) = None
  BY <1>1 DEF Held, Looking
<1>3. ASSUME NEW t \in Tokens, pending[t] # None,
             writer' = [pc |-> "holding", update |-> pending[t]],
             pending' = [pending EXCEPT ![t] = None]
      PROVE  SessionsInv'
  <2>1. pending[t] \in Updates /\ pending[t].token = t
    BY <1>3 DEF SessionsInv, SessionTypes, PendingRuns
  <2>2. /\ pending'[t] = None
        /\ \A x \in Tokens \ {t} : pending'[x] = pending[x]
    BY <1>3 DEF SessionsInv, SessionTypes
  <2>3. SessionTypes'
    BY <1>1, <1>3, <2>1 DEF SessionsInv, SessionTypes
  <2>4. writer' # Stopped
    BY <1>3 DEF Stopped
  <2>5. PendingRuns'
    BY <2>2, <2>4 DEF SessionsInv, PendingRuns
  <2>6. writer'.update = pending[t]
    BY <1>3
  <2>7. ASSUME NEW x \in Tokens PROVE ConsistentAt(x)'
    <3>1. Consistent(cache[x], store[x], pending[x], None,
                     x \in lost, x \in issued, x \in gone, now)
      BY <1>2, AtWriter
    <3>2. CASE x # t
      <4>1. Held(x)' = None
        BY <2>1, <2>6, <3>2 DEF Held
      <4> QED
        BY <1>1, <2>2, <3>1, <3>2, <4>1 DEF ConsistentAt
    <3>3. CASE x = t
      <4>1. Held(x)' = pending[x]
        BY <1>3, <2>1, <2>6, <3>3 DEF Held
      <4>2. Consistent(cache[x], store[x], None, pending[x],
                       x \in lost, x \in issued, x \in gone, now)
        BY <1>3, <3>1, <3>3 DEF Consistent
      <4> QED
        BY <1>1, <2>2, <3>3, <4>1, <4>2 DEF ConsistentAt
    <3> QED
      BY <3>2, <3>3
  <2> QED
    BY <2>3, <2>5, <2>7 DEF SessionsInv
<1>4. ASSUME \A t \in Tokens : pending[t] = None, writer' = Stopped, pending' = pending
      PROVE  SessionsInv'
  <2>1. SessionTypes' /\ PendingRuns'
    BY <1>1, <1>4 DEF SessionsInv, SessionTypes, PendingRuns
  <2>2. \A x \in Tokens : Held(x)' = None
    BY <1>4 DEF Held, Stopped
  <2>3. ASSUME NEW x \in Tokens PROVE ConsistentAt(x)'
    BY <1>1, <1>2, <1>4, <2>2 DEF SessionsInv, ConsistentAt
  <2> QED
    BY <2>1, <2>3 DEF SessionsInv
<1> QED
  BY <1>3, <1>4 DEF WriterTake

LEMMA WriterWriteStep ==
    ASSUME SessionsInv, WriterWrite
    PROVE  SessionsInv'
<1> DEFINE u == writer.update
<1>1. /\ writer.pc = "holding" /\ writer' = Looking
      /\ UNCHANGED <<now, cache, pending, issued, gone>>
  BY DEF WriterWrite
<1>2. writer \in [pc : {"holding"}, update : Updates] /\ u \in Updates /\ u.token \in Tokens
  BY <1>1 DEF SessionsInv, SessionTypes, Stopped, Looking, Updates
<1>3. u # None /\ u.ip \in IPs /\ u.seen \in Nat
  BY <1>2, NoneAssumption DEF Updates
<1>4. \A x \in Tokens : Held(x)' = None /\ Held(x) = IF x = u.token THEN u ELSE None
  BY <1>1, <1>2, <1>3 DEF Held, Looking
<1>5. PendingRuns'
  BY <1>1 DEF SessionsInv, PendingRuns, Looking, Stopped
<1>6. ASSUME UpdateActivity(u), lost' = lost \ {u.token}
      PROVE  SessionsInv'
  <2> DEFINE t == u.token
             s == [store[t] EXCEPT !.ip = u.ip, !.seen = u.seen]
  <2>1. store' = IF store[t] = None THEN store ELSE [store EXCEPT ![t] = s]
    BY <1>6 DEF UpdateActivity
  <2>2. store[t] # None => s \in Sessions /\ s # None /\ Alike(s, store[t]) /\ s.seen = u.seen
    <3>1. store[t] # None => store[t] \in Sessions
      BY <1>2, AtToken
    <3>2. PICK x \in Kept : x = store[t]
      BY <1>2 DEF SessionsInv, SessionTypes, Kept
    <3>3. PICK a \in IPs, n \in Nat : a = u.ip /\ n = u.seen
      BY <1>3
    <3> DEFINE r == [x EXCEPT !.ip = a, !.seen = n]
    <3>4. x \in Sessions => r \in Sessions /\ r # None /\ Alike(r, x) /\ r.seen = n
      BY NoneAssumption DEF Sessions, Alike
    <3>5. s = r
      BY <3>2, <3>3
    <3> HIDE DEF s, r, t, u
    <3> QED
      BY <3>1, <3>2, <3>3, <3>4, <3>5
  <2> HIDE DEF s
  <2>3. /\ store[t] = None => store'[t] = None
        /\ store[t] # None => store'[t] = s
        /\ \A x \in Tokens \ {t} : store'[x] = store[x]
    BY <1>2, <2>1 DEF SessionsInv, SessionTypes
  <2>4. SessionTypes'
    BY <1>1, <1>6, <2>1, <2>2 DEF SessionsInv, SessionTypes
  <2>5. ASSUME NEW x \in Tokens PROVE ConsistentAt(x)'
    <3>1. Consistent(cache[x], store[x], pending[x], Held(x),
                     x \in lost, x \in issued, x \in gone, now)
      BY AtWriter
    <3>2. CASE x # t
      <4>1. (x \in lost') = (x \in lost) /\ Held(x) = None
        BY <1>4, <1>6, <3>2
      <4> QED
        BY <1>1, <1>4, <2>3, <3>1, <3>2, <4>1 DEF ConsistentAt
    <3>3. CASE x = t
      <4>1. Held(x) = u
        BY <1>4, <3>3
      <4>2. Consistent(cache[x], store'[x], pending[x], None,
                       x \in lost', x \in issued, x \in gone, now)
        BY <1>3, <2>2, <2>3, <3>1, <3>3, <4>1 DEF Consistent, Alike
      <4> QED
        BY <1>1, <1>4, <3>3, <4>2 DEF ConsistentAt
    <3> QED
      BY <3>2, <3>3
  <2> QED
    BY <1>5, <2>4, <2>5 DEF SessionsInv
<1>7. ASSUME store' = store, lost' = lost \cup {u.token}
      PROVE  SessionsInv'
  <2>1. SessionTypes'
    BY <1>1, <1>2, <1>7 DEF SessionsInv, SessionTypes
  <2>2. ASSUME NEW x \in Tokens PROVE ConsistentAt(x)'
    <3>1. Consistent(cache[x], store[x], pending[x], Held(x),
                     x \in lost, x \in issued, x \in gone, now)
      BY AtWriter
    <3>2. (x \in lost') <=> (x \in lost) \/ x = u.token
      BY <1>7
    <3>3. Consistent(cache[x], store[x], pending[x], None,
                     x \in lost', x \in issued, x \in gone, now)
      BY <1>4, <3>1, <3>2 DEF Consistent
    <3> QED
      BY <1>1, <1>4, <1>7, <3>3 DEF ConsistentAt
  <2> QED
    BY <1>5, <2>1, <2>2 DEF SessionsInv
<1> QED
  BY <1>6, <1>7 DEF WriterWrite

LEMMA TickStep ==
    ASSUME SessionsInv, Tick
    PROVE  SessionsInv'
<1>1. now' = now + 1 /\ UNCHANGED <<cache, store, pending, writer, issued, gone, lost>>
  BY DEF Tick
<1>2. SessionTypes' /\ PendingRuns'
  BY <1>1 DEF SessionsInv, SessionTypes, PendingRuns
<1>3. ASSUME NEW x \in Tokens PROVE ConsistentAt(x)'
  <2>1. Consistent(cache[x], store[x], pending[x], Held(x),
                   x \in lost, x \in issued, x \in gone, now)
    BY AtWriter
  <2>2. /\ now \in Nat
        /\ pending[x] # None => pending[x].seen \in Nat
        /\ Held(x) # None => Held(x).seen \in Nat
    BY AtWriter
  <2>3. /\ cache[x] # None => cache[x].seen \in Nat
        /\ store[x] # None => store[x].seen \in Nat
    BY AtToken
  <2>4. Held(x)' = Held(x)
    BY <1>1 DEF Held
  <2>5. Consistent(cache[x], store[x], pending[x], Held(x),
                   x \in lost, x \in issued, x \in gone, now + 1)
    BY <2>1, <2>2, <2>3 DEF Consistent
  <2> QED
    BY <1>1, <2>4, <2>5 DEF ConsistentAt
<1> QED
  BY <1>2, <1>3 DEF SessionsInv

LEMMA RestartStep ==
    ASSUME SessionsInv, RestartSessions
    PROVE  SessionsInv'
<1>1. PICK p \in Policies :
         /\ store' = Without(store, InvalidOIDC(p)) /\ gone' = gone \cup InvalidOIDC(p)
  BY DEF RestartSessions
<1>2. /\ cache' = [t \in Tokens |-> None] /\ pending' = [t \in Tokens |-> None]
      /\ writer' = Stopped /\ UNCHANGED <<now, issued, lost>>
  BY DEF RestartSessions
<1>3. store \in [Tokens -> Kept]
  BY DEF SessionsInv, SessionTypes, Kept
<1>4. /\ store' \in [Tokens -> Kept]
      /\ \A t \in Tokens : store'[t] = IF t \in InvalidOIDC(p) THEN None ELSE store[t]
  BY <1>1, <1>3, WithoutType
<1>5. gone' \subseteq Tokens /\ \A t \in InvalidOIDC(p) : store[t] # None
  BY <1>1 DEF InvalidOIDC, SessionsInv, SessionTypes
<1>6. SessionTypes' /\ PendingRuns'
  BY <1>2, <1>4, <1>5 DEF SessionsInv, SessionTypes, PendingRuns, Kept
<1>7. ASSUME NEW x \in Tokens PROVE ConsistentAt(x)'
  <2>1. Consistent(cache[x], store[x], pending[x], Held(x),
                   x \in lost, x \in issued, x \in gone, now)
    BY AtWriter
  <2>2. Held(x)' = None
    BY <1>2 DEF Held, Stopped
  <2>3. Consistent(None, store'[x], None, None, x \in lost, x \in issued, x \in gone', now)
    BY <1>1, <1>4, <1>5, <2>1 DEF Consistent
  <2> QED
    BY <1>2, <2>2, <2>3 DEF ConsistentAt
<1> QED
  BY <1>6, <1>7 DEF SessionsInv
-----------------------------------------------------------------------------
(* Requests.                                                                *)

\* A request offers at most two tokens; the one it goes on with was found.
LEMMA ResolutionType ==
    ASSUME NEW embed \in BOOLEAN, NEW cookie \in Tokens \cup {None},
           NEW header \in Tokens \cup {None},
           NEW res, res = Resolution(Candidates(embed, cookie, header), embed),
           res.token # None
    PROVE  res.token \in Tokens /\ Found(res.token) # None
<1> DEFINE cands == Candidates(embed, cookie, header)
           good == {i \in DOMAIN cands : Live(cands[i]) /\ MatchesSource(Found(cands[i]), embed)}
           last == IF good = {} THEN Len(cands)
                   ELSE CHOOSE i \in good : \A j \in good : i <= j
<1>1. res.token = IF good = {} THEN None ELSE cands[last]
  BY DEF Resolution
<1>2. /\ DOMAIN cands \subseteq {1, 2}
      /\ \A i \in DOMAIN cands : cands[i] \in Tokens
  BY DEF Candidates
<1>3. good # {}
  BY <1>1
<1>4. \E i \in good : \A j \in good : i <= j
  <2>1. CASE 1 \in good
    <3>1. \A j \in good : 1 <= j
      BY <1>2
    <3> QED
      BY <2>1, <3>1
  <2>2. CASE 1 \notin good
    <3>1. 2 \in good /\ \A j \in good : j = 2
      BY <1>2, <1>3, <2>2
    <3> QED
      BY <3>1
  <2> QED
    BY <2>1, <2>2
<1>5. last \in good
  BY <1>3, <1>4
<1> HIDE DEF cands, last
<1> QED
  BY <1>1, <1>2, <1>3, <1>5 DEF Live

LEMMA ResolveStep ==
    ASSUME SessionsInv, RequestTypes,
           NEW r \in Requests, NEW embed \in BOOLEAN, NEW cookie \in Tokens \cup {None},
           NEW header \in Tokens \cup {None}, NEW ip \in IPs, NEW roles,
           NEW pc \in {"resolved", "admitted"},
           ResolveSession(r, embed, cookie, header, ip, roles, pc)
    PROVE  SessionsInv' /\ RequestTypes'
<1>1. PICK res : /\ res = Resolution(Candidates(embed, cookie, header), embed)
                 /\ \/ /\ AfterGet(res.loaded, res.dead)
                       /\ req' = IF res.token = None \/ Found(res.token).role \notin roles
                                 THEN req
                                 ELSE [req EXCEPT ![r] = [pc |-> pc, token |-> res.token,
                                         key |-> Found(res.token).key, ip |-> ip]]
                    \/ FailingGet(res.loaded, res.dead) /\ req' = req
  BY DEF ResolveSession
<1>2. UNCHANGED <<now, pending, writer, policy, keys, issued, restarts, lost>>
  BY DEF ResolveSession
<1>3. SessionsInv'
  BY <1>1, <1>2, GetStep
<1>4. faults' \in Nat
  BY <1>1 DEF AfterGet, FailingGet, Fault, RequestTypes
<1>5. req' \in [Requests -> {Idle} \cup Requesting]
  <2>1. ASSUME res.token # None
        PROVE  [pc |-> pc, token |-> res.token, key |-> Found(res.token).key, ip |-> ip]
                 \in Requesting
    <3>1. res.token \in Tokens /\ Found(res.token) # None
      BY <1>1, <2>1, ResolutionType
    <3>2. Found(res.token) \in Sessions
      BY <3>1, AtToken DEF Found
    <3>3. Found(res.token).key \in Keys \cup {None}
      BY <3>2 DEF Sessions
    <3> QED
      BY <3>1, <3>3 DEF Requesting
  <2> QED
    BY <1>1, <2>1 DEF RequestTypes
<1> QED
  BY <1>2, <1>3, <1>4, <1>5 DEF RequestTypes

LEMMA TouchGetStep ==
    ASSUME SessionsInv, RequestTypes, NEW r \in Requests, TouchGet(r)
    PROVE  SessionsInv' /\ RequestTypes'
<1>1. PICK loaded, dead : AfterGet(loaded, dead) \/ FailingGet(loaded, dead)
  BY DEF TouchGet
<1>2. UNCHANGED <<now, pending, writer, policy, keys, issued, restarts, lost>>
  BY DEF TouchGet
<1>3. SessionsInv'
  BY <1>1, <1>2, GetStep
<1>4. faults' \in Nat
  BY DEF TouchGet, AfterGet, FailingGet, Fault, RequestTypes
<1>5. req[r] \in Requesting
  BY DEF TouchGet, RequestTypes, Idle
<1>6. PICK pc \in {"touching", "admitted"} :
         req' \in {[req EXCEPT ![r].pc = pc], [req EXCEPT ![r] = Idle]}
  BY DEF TouchGet
<1>7. [req[r] EXCEPT !.pc = pc] \in Requesting
  BY <1>5 DEF Requesting
<1>8. req' \in [Requests -> {Idle} \cup Requesting]
  BY <1>6, <1>7 DEF RequestTypes
<1> QED
  BY <1>2, <1>3, <1>4, <1>8 DEF RequestTypes

LEMMA TouchUpdateStep ==
    ASSUME SessionsInv, RequestTypes, NEW r \in Requests, TouchUpdate(r)
    PROVE  SessionsInv' /\ RequestTypes'
<1>1. SessionsInv'
  BY TouchStep
<1>2. req' = [req EXCEPT ![r].pc = "admitted"] /\ req[r] \in Requesting
      /\ UNCHANGED <<policy, keys, faults, restarts>>
  BY DEF TouchUpdate, RequestTypes, Idle
<1>3. [req[r] EXCEPT !.pc = "admitted"] \in Requesting
  BY <1>2 DEF Requesting
<1> QED
  BY <1>1, <1>2, <1>3 DEF RequestTypes

LEMMA ServeStep ==
    ASSUME SessionsInv, RequestTypes, NEW r \in Requests, Serve(r)
    PROVE  SessionsInv' /\ RequestTypes'
<1>1. /\ req' = [req EXCEPT ![r] = Idle]
      /\ UNCHANGED <<now, pending, writer, policy, keys, issued, restarts, lost>>
  BY DEF Serve
<1>2. CASE DeleteTokens({req[r].token}, FALSE)
  <2>1. SessionsInv'
    BY <1>1, <1>2, DeleteTokensStep
  <2>2. faults' \in Nat
    BY <1>2 DEF DeleteTokens, Fault, RequestTypes
  <2> QED
    BY <1>1, <2>1, <2>2 DEF RequestTypes
<1>3. CASE UNCHANGED <<cache, store, gone, faults>>
  <2>1. \A x \in Tokens : ConsistentAt(x)'
    BY <1>1, <1>3 DEF SessionsInv, ConsistentAt, Held
  <2> QED
    BY <1>1, <1>3, <2>1 DEF SessionsInv, SessionTypes, PendingRuns, RequestTypes
<1> QED
  BY <1>2, <1>3 DEF Serve

\* The calls that no request in progress has part in.
LEMMA ManagerStep ==
    ASSUME SessionsInv, RequestTypes,
           \/ \E s \in NewSessions : CreateSession(s)
           \/ \E e \in BOOLEAN, c, h \in Tokens \cup {None} : Logout(e, c, h)
           \/ \E t \in Tokens :
                \/ RevokeManagedSession(t)
                \/ \E alias \in Aliases : UpdateManagedSessionAlias(t, alias)
           \/ \E role \in Roles : DeleteByRole(role)
           \/ CleanupExpired \/ WriterTake \/ WriterWrite \/ Tick
           \/ \E listed \in SUBSET Keys : SyncKeys(listed)
           \/ RestartSessions
    PROVE  SessionsInv' /\ RequestTypes'
<1>1. ASSUME NEW s \in NewSessions, CreateSession(s) PROVE SessionsInv' /\ RequestTypes'
  <2>1. SessionsInv'
    BY <1>1, CreateStep, NewSessionsType
  <2>2. UNCHANGED <<policy, keys, req, restarts>>
    BY <1>1 DEF CreateSession
  <2>3. UNCHANGED faults \/ Fault
    BY <1>1 DEF CreateSession
  <2> QED
    BY <2>1, <2>2, <2>3 DEF Fault, RequestTypes
<1>2. ASSUME NEW e \in BOOLEAN, NEW c, NEW h, Logout(e, c, h)
      PROVE  SessionsInv' /\ RequestTypes'
  <2>1. PICK loaded, dead : AfterGet(loaded, dead) \/ FailingGet(loaded, dead)
    BY <1>2 DEF Logout
  <2>2. UNCHANGED <<now, pending, writer, policy, keys, req, issued, restarts, lost>>
    BY <1>2 DEF Logout
  <2>3. SessionsInv'
    BY <2>1, <2>2, GetStep
  <2> QED
    BY <2>1, <2>2, <2>3 DEF AfterGet, FailingGet, Fault, RequestTypes
<1>3. ASSUME NEW S, DeleteTokens(S, TRUE),
             UNCHANGED <<now, pending, writer, policy, keys, req, issued, restarts, lost>>
      PROVE  SessionsInv' /\ RequestTypes'
  <2>1. SessionsInv'
    BY <1>3, DeleteTokensStep
  <2>2. faults' \in Nat
    BY <1>3 DEF DeleteTokens, Fault, RequestTypes
  <2> QED
    BY <1>3, <2>1, <2>2 DEF RequestTypes
<1>4. ASSUME NEW t \in Tokens, NEW alias \in Aliases, UpdateManagedSessionAlias(t, alias)
      PROVE  SessionsInv' /\ RequestTypes'
  <2>1. SessionsInv'
    BY <1>4, AliasStep
  <2> QED
    BY <1>4, <2>1 DEF UpdateManagedSessionAlias, Fault, RequestTypes
<1>5. CASE CleanupExpired
  BY <1>5, CleanupStep DEF CleanupExpired, Fault, RequestTypes
<1>6. CASE WriterTake
  BY <1>6, WriterTakeStep DEF WriterTake, RequestTypes
<1>7. CASE WriterWrite
  BY <1>7, WriterWriteStep DEF WriterWrite, Fault, RequestTypes
<1>8. CASE Tick
  BY <1>8, TickStep DEF Tick, RequestTypes
<1>9. ASSUME NEW listed \in SUBSET Keys, SyncKeys(listed)
      PROVE  SessionsInv' /\ RequestTypes'
  <2>1. \A x \in Tokens : ConsistentAt(x)'
    BY <1>9 DEF SyncKeys, SessionsInv, ConsistentAt, Held
  <2> QED
    BY <1>9, <2>1 DEF SyncKeys, SessionsInv, SessionTypes, PendingRuns, RequestTypes
<1>10. CASE RestartSessions
  BY <1>10, RestartStep DEF RestartSessions, RequestTypes
<1>11. ASSUME NEW t, RevokeManagedSession(t) PROVE SessionsInv' /\ RequestTypes'
  BY <1>3, <1>11 DEF RevokeManagedSession
<1>12. ASSUME NEW role, DeleteByRole(role) PROVE SessionsInv' /\ RequestTypes'
  BY <1>3, <1>12 DEF DeleteByRole
<1> QED
  BY <1>1, <1>2, <1>4, <1>5, <1>6, <1>7, <1>8, <1>9, <1>10, <1>11, <1>12

LEMMA NextStep ==
    ASSUME SessionsInv, RequestTypes, [SessionsNext]_vars
    PROVE  SessionsInv' /\ RequestTypes'
<1>1. ASSUME NEW r \in Requests, NEW e \in BOOLEAN, NEW c \in Tokens \cup {None},
             NEW h \in Tokens \cup {None}, NEW ip \in IPs,
             \/ GetSession(r, e, c, h, ip)
             \/ \E role \in Roles : RoleMiddleware(r, e, c, h, ip, role)
      PROVE  SessionsInv' /\ RequestTypes'
  BY <1>1, ResolveStep DEF GetSession, RoleMiddleware
<1>2. ASSUME NEW r \in Requests, TouchGet(r) \/ TouchUpdate(r) \/ Serve(r)
      PROVE  SessionsInv' /\ RequestTypes'
  BY <1>2, TouchGetStep, TouchUpdateStep, ServeStep
<1>3. CASE UNCHANGED vars
  <2>1. \A x \in Tokens : ConsistentAt(x)'
    BY <1>3 DEF vars, SessionsInv, ConsistentAt, Held
  <2> QED
    BY <1>3, <2>1 DEF vars, SessionsInv, SessionTypes, PendingRuns, RequestTypes
<1> QED
  BY <1>1, <1>2, <1>3, ManagerStep DEF SessionsNext, RequestStep

LEMMA Starts == Init => SessionsInv /\ RequestTypes
<1> SUFFICES ASSUME Init PROVE SessionsInv /\ RequestTypes
  OBVIOUS
<1> USE DEF Init
<1>1. SessionTypes /\ PendingRuns
  BY DEF SessionTypes, PendingRuns
<1>2. RequestTypes
  BY DEF RequestTypes
<1>3. \A x \in Tokens : ConsistentAt(x)
  BY DEF ConsistentAt, Consistent, Held, Stopped
<1> QED
  BY <1>1, <1>2, <1>3 DEF SessionsInv

-----------------------------------------------------------------------------
(* What the invariant says.                                                 *)

LEMMA Agreeing == SessionsInv => SessionsAgree
<1> SUFFICES ASSUME SessionsInv PROVE SessionsAgree
  OBVIOUS
<1>1. GoneStaysGone
  BY AtToken DEF GoneStaysGone, SessionsInv, SessionTypes
<1>2. NoHiddenSession
  <2> SUFFICES ASSUME NEW t \in Tokens, Live(t)
               PROVE  Unexpired(store)[t] # None /\ SessionAllowed(store[t], policy)
    BY DEF NoHiddenSession, ListManagedSessions
  <2>1. Found(t) # None /\ Found(t).exp > now /\ SessionAllowed(Found(t), policy)
    BY DEF Live
  <2>2. /\ store[t] # None /\ store[t].exp = Found(t).exp
        /\ store[t].source = Found(t).source /\ store[t].role = Found(t).role
        /\ store[t].app = Found(t).app /\ store[t].subject = Found(t).subject
    BY <2>1, AtToken DEF Found, Alike
  <2>3. SessionAllowed(store[t], policy)
    BY <2>1, <2>2 DEF SessionAllowed
  <2>4. Found(t).exp \in Nat /\ now \in Nat
    BY <2>1, AtToken DEF Found, Sessions, SessionsInv, SessionTypes
  <2>5. ~(store[t].exp <= now)
    BY <2>1, <2>2, <2>4
  <2> QED
    BY <2>2, <2>3, <2>5 DEF Unexpired
<1>3. ActivitySettles
  <2> SUFFICES ASSUME NEW t \in Tokens, cache[t] # None
               PROVE  \/ pending[t] # None /\ pending[t].seen >= cache[t].seen
                      \/ /\ pending[t] = None
                         /\ \/ store[t].seen >= cache[t].seen
                            \/ writer.update # None /\ writer.update.token = t
                                 /\ writer.update.seen >= cache[t].seen
                      \/ t \in lost
    BY DEF ActivitySettles, SessionsInv, PendingRuns
  <2>1. Consistent(cache[t], store[t], pending[t], Held(t),
                   t \in lost, t \in issued, t \in gone, now)
    BY AtWriter
  <2>2. /\ cache[t].seen \in Nat /\ store[t].seen \in Nat
        /\ pending[t] # None => pending[t].seen \in Nat
        /\ Held(t) # None => Held(t).seen \in Nat
    BY AtToken, AtWriter
  <2>3. Held(t) # None =>
          writer.update # None /\ writer.update.token = t /\ writer.update.seen = Held(t).seen
    BY DEF Held
  <2> QED
    BY <2>1, <2>2, <2>3 DEF Consistent
<1> QED
  BY <1>1, <1>2, <1>3 DEF SessionsAgree

-----------------------------------------------------------------------------
(* The logins.                                                              *)

\* A step of a login is a step of the session manager or leaves it alone.
LEMMA LoginMaps == [LoginNext]_<<vars, loginVars>> => [SessionsNext]_vars
<1> SUFFICES ASSUME [LoginNext]_<<vars, loginVars>> PROVE [SessionsNext]_vars
  OBVIOUS
<1>1. ASSUME NEW ip \in IPs, NEW embed \in BOOLEAN, NEW role, NEW key, NEW right,
             Login(ip, embed, role, key, right),
             \/ role = "admin" /\ key = None
             \/ role = "viewer" /\ key \in Keys
      PROVE  [SessionsNext]_vars
  <2> DEFINE source == IF embed THEN "embed" ELSE "standard"
  <2>1. NewSession(role, source, key, None, None, ip) \in NewSessions
    BY <1>1 DEF NewSessions
  <2>2. UNCHANGED vars \/ CreateSession(NewSession(role, source, key, None, None, ip))
    BY <1>1 DEF Login
  <2> QED
    BY <2>1, <2>2 DEF SessionsNext
<1>2. ASSUME NEW b \in Browsers, NEW v, NEW subject \in Subjects, Exchange(b, v, subject)
      PROVE  [SessionsNext]_vars
  <2> DEFINE any == CHOOSE ip \in IPs : TRUE
             s == NewSession("admin", "oidc", None, policy.app, subject, any)
  <2>0. any \in IPs
    BY AuthAssumption
  <2> HIDE DEF any
  <2>1. s \in NewSessions
    BY <2>0 DEF NewSessions
  <2>2. UNCHANGED vars \/ CreateSession(s)
    BY <1>2 DEF Exchange, any
  <2> QED
    BY <2>1, <2>2 DEF SessionsNext
<1>3. CASE OIDCStep
  BY <1>2, <1>3 DEF OIDCStep, BeginLogin, GetProvider, CancelLogin, CreateTransaction,
                    RefreshProvider, Callback
<1>4. CASE Restart
  BY <1>4 DEF Restart, SessionsNext
<1>5. CASE RequestStep
  BY <1>5 DEF SessionsNext
<1>6. ASSUME NEW ip \in IPs, NEW embed \in BOOLEAN, NEW right, PasswordLogin(ip, embed, right)
      PROVE  [SessionsNext]_vars
  BY <1>1, <1>6 DEF PasswordLogin
<1>7. ASSUME NEW ip \in IPs, NEW embed \in BOOLEAN, NEW key \in Keys, APIKeyLogin(ip, embed, key)
      PROVE  [SessionsNext]_vars
  BY <1>1, <1>7 DEF APIKeyLogin
<1>8. CASE UNCHANGED <<vars, loginVars>>
  BY <1>8
<1> QED
  BY <1>3, <1>4, <1>5, <1>6, <1>7, <1>8 DEF LoginNext

OIDCSources == {OIDCSource(ip) : ip \in IPs}
Transactions == [browser : Browsers, source : OIDCSources, exp : Nat]
Logins == [pc : {"idle", "begin", "create", "finish", "exchange"}, wait : BOOLEAN,
           source : OIDCSources \cup {None}, state : States \cup {None}]

LoginTypes ==
    /\ txns \in [States -> Transactions \cup {None}]
    /\ jar \in [Browsers -> SUBSET States]
    /\ login \in [Browsers -> Logins]
    /\ opened \subseteq States
    /\ minted \in Seq(States \X Browsers)
    /\ owner \in [States -> Browsers \cup {None}]
    /\ taken \in [States -> Browsers \cup {None}]

Minted(s) == \E i \in DOMAIN minted : minted[i][1] = s

\* A login is in the store, or in the hands of the browser that began it, or
\* has given its session, or none of these.
OneAt(s) ==
    /\ s \notin opened => txns[s] = None /\ ~Minted(s)
    /\ txns[s] # None => txns[s].browser = owner[s] /\ ~Minted(s)
    /\ \A b \in Browsers : login[b].state = s =>
          s \in opened /\ txns[s] = None /\ owner[s] = b /\ ~Minted(s)

\* A login in progress knows where it comes from, its callback which one it is.
LoginKnows ==
    \A b \in Browsers :
        /\ login[b].pc # "idle" => login[b].source \in OIDCSources
        /\ login[b].pc \in {"finish", "exchange"} => login[b].state # None
        /\ login[b].wait => login[b].pc \in {"begin", "finish"}

LoginInv ==
    /\ LoginTypes /\ LoginKnows /\ OneSessionPerLogin
    /\ \A s \in States : OneAt(s)

\* Steps that begin no login, mint no session and hand no login on.
LEMMA Harmless ==
    ASSUME LoginInv, UNCHANGED <<opened, minted, owner>>, LoginTypes',
           \A s \in States : txns'[s] = txns[s] \/ txns'[s] = None,
           \A b \in Browsers : \/ login'[b].state = login[b].state
                               \/ login'[b].state = None,
           LoginKnows'
    PROVE  LoginInv'
<1>1. ASSUME NEW s \in States PROVE OneAt(s)'
  <2>1. OneAt(s)
    BY DEF LoginInv
  <2>2. Minted(s)' <=> Minted(s)
    BY DEF Minted
  <2>3. \A b \in Browsers : login'[b].state = s => login[b].state = s
    BY NoLoginAssumption
  <2> QED
    BY <2>1, <2>2, <2>3 DEF OneAt
<1>2. OneSessionPerLogin'
  BY DEF LoginInv, OneSessionPerLogin
<1> QED
  BY <1>1, <1>2 DEF LoginInv

LEMMA LoginStarts == LoginInit => LoginInv
<1> SUFFICES ASSUME LoginInit PROVE LoginInv
  OBVIOUS
<1> USE DEF LoginInit, NoLogin
<1>1. LoginTypes
  BY DEF LoginTypes, Logins
<1>2. LoginKnows /\ OneSessionPerLogin
  BY DEF LoginKnows, OneSessionPerLogin
<1>3. ASSUME NEW s \in States PROVE OneAt(s)
  BY NoLoginAssumption DEF OneAt, Minted
<1> QED
  BY <1>1, <1>2, <1>3 DEF LoginInv

\* A browser that asks for the provider, waits for it or gives up.
LEMMA BeginStep ==
    ASSUME LoginInv, UNCHANGED <<txns, jar, opened, minted, owner, taken>>,
           \A b \in Browsers :
             \/ login'[b] = login[b] \/ login'[b] = NoLogin
             \/ \E ip \in IPs :
                  login'[b] = [NoLogin EXCEPT !.pc = "begin", !.source = OIDCSource(ip)]
             \/ /\ login[b].pc \in {"begin", "finish"}
                /\ \/ ~login[b].wait /\ login'[b] = [login[b] EXCEPT !.pc = AfterProvider(@)]
                   \/ login'[b] = [login[b] EXCEPT !.wait = TRUE]
                   \/ login'[b] = [login[b] EXCEPT !.wait = FALSE, !.pc = AfterProvider(@)],
           login' = [b \in Browsers |-> login'[b]]
    PROVE  LoginInv'
<1>1. ASSUME NEW b \in Browsers
      PROVE  /\ login'[b] \in Logins
             /\ login'[b].state = login[b].state \/ login'[b].state = None
             /\ login'[b].pc # "idle" => login'[b].source \in OIDCSources
             /\ login'[b].pc \in {"finish", "exchange"} => login'[b].state # None
             /\ login'[b].wait => login'[b].pc \in {"begin", "finish"}
  <2>1. login[b] \in Logins
    BY DEF LoginInv, LoginTypes
  <2>2. /\ login[b].pc # "idle" => login[b].source \in OIDCSources
        /\ login[b].pc \in {"finish", "exchange"} => login[b].state # None
        /\ login[b].wait => login[b].pc \in {"begin", "finish"}
    BY DEF LoginInv, LoginKnows
  <2>3. \A ip \in IPs : OIDCSource(ip) \in OIDCSources
    BY DEF OIDCSources
  <2>4. NoLogin \in Logins /\ NoLogin.pc = "idle" /\ NoLogin.state = None /\ ~NoLogin.wait
    BY DEF NoLogin, Logins
  <2>5. CASE login'[b] = login[b] \/ login'[b] = NoLogin
    BY <2>1, <2>2, <2>4, <2>5
  <2>6. CASE \E ip \in IPs :
               login'[b] = [NoLogin EXCEPT !.pc = "begin", !.source = OIDCSource(ip)]
    BY <2>3, <2>6 DEF NoLogin, Logins
  <2>7. CASE login[b].pc \in {"begin", "finish"} /\ login'[b] = [login[b] EXCEPT !.wait = TRUE]
    BY <2>1, <2>2, <2>7 DEF Logins
  <2>8. CASE /\ login[b].pc \in {"begin", "finish"}
             /\ \/ ~login[b].wait /\ login'[b] = [login[b] EXCEPT !.pc = AfterProvider(@)]
                \/ login'[b] = [login[b] EXCEPT !.wait = FALSE, !.pc = AfterProvider(@)]
    BY <2>1, <2>2, <2>8 DEF Logins, AfterProvider
  <2> QED
    BY <2>5, <2>6, <2>7, <2>8
<1>2. login' \in [Browsers -> Logins]
  BY <1>1
<1>3. LoginTypes'
  BY <1>2 DEF LoginInv, LoginTypes
<1>4. LoginKnows'
  BY <1>1 DEF LoginKnows
<1> QED
  BY <1>1, <1>3, <1>4, Harmless

LEMMA CreateTransactionStep ==
    ASSUME LoginInv, SessionTypes, NEW b \in Browsers, CreateTransaction(b)
    PROVE  LoginInv'
<1> DEFINE kept == [s \in States |-> IF txns[s] # None /\ txns[s].exp <= now THEN None ELSE txns[s]]
<1>1. /\ login[b].pc = "create" /\ login' = [login EXCEPT ![b] = NoLogin]
      /\ UNCHANGED <<minted, taken>>
  BY DEF CreateTransaction
<1>2. kept \in [States -> Transactions \cup {None}]
  BY DEF LoginInv, LoginTypes
<1>3. /\ login' \in [Browsers -> Logins] /\ LoginKnows'
      /\ \A x \in Browsers : login'[x].state = login[x].state \/ login'[x].state = None
  BY <1>1 DEF LoginInv, LoginTypes, Logins, LoginKnows, NoLogin
<1>4. CASE txns' = kept /\ UNCHANGED <<jar, opened, owner>>
  <2>1. LoginTypes'
    BY <1>1, <1>2, <1>3, <1>4 DEF LoginInv, LoginTypes
  <2> QED
    BY <1>1, <1>3, <1>4, <2>1, Harmless
<1>5. ASSUME NEW n \in States \ opened,
             txns' = [kept EXCEPT ![n] = [browser |-> b, source |-> login[b].source,
                                          exp |-> now + TransactionTTL]],
             jar' = [jar EXCEPT ![b] = @ \cup {n}], opened' = opened \cup {n},
             owner' = [owner EXCEPT ![n] = b]
      PROVE  LoginInv'
  <2> HIDE DEF kept
  <2>1. now + TransactionTTL \in Nat /\ login[b].source \in OIDCSources
    BY <1>1, OIDCAssumption DEF SessionTypes, LoginInv, LoginKnows
  <2>2. LoginTypes'
    BY <1>1, <1>2, <1>3, <1>5, <2>1 DEF LoginInv, LoginTypes, Transactions
  <2>3. ASSUME NEW s \in States PROVE OneAt(s)'
    <3>1. OneAt(s) /\ (Minted(s)' <=> Minted(s))
      BY <1>1 DEF LoginInv, Minted
    <3>2. \A x \in Browsers : login'[x].state = s => login[x].state = s
      BY <1>3, NoLoginAssumption
    <3>3. CASE s = n
      <4>1. txns'[s].browser = b /\ owner'[s] = b /\ s \in opened'
        BY <1>2, <1>5, <3>3 DEF LoginInv, LoginTypes
      <4> QED
        BY <1>5, <3>1, <3>2, <3>3, <4>1 DEF OneAt
    <3>4. CASE s # n
      <4>1. /\ txns'[s] = txns[s] \/ txns'[s] = None
            /\ owner'[s] = owner[s] /\ (s \in opened' <=> s \in opened)
        BY <1>2, <1>5, <3>4 DEF LoginInv, LoginTypes, kept
      <4> QED
        BY <3>1, <3>2, <4>1 DEF OneAt
    <3> QED
      BY <3>3, <3>4
  <2>4. OneSessionPerLogin'
    <3>1. ASSUME NEW i \in DOMAIN minted PROVE minted[i][1] \in States /\ minted[i][1] # n
      <4>1. minted[i][1] \in States /\ Minted(minted[i][1])
        BY DEF LoginInv, LoginTypes, Minted
      <4>2. OneAt(minted[i][1])
        BY <4>1 DEF LoginInv
      <4> QED
        BY <1>5, <4>1, <4>2 DEF OneAt
    <3> QED
      BY <1>1, <1>5, <3>1 DEF LoginInv, LoginTypes, OneSessionPerLogin
  <2> QED
    BY <1>3, <2>2, <2>3, <2>4 DEF LoginInv
<1> QED
  <2> HIDE DEF kept
  <2>1. \/ txns' = kept /\ UNCHANGED <<jar, opened, owner>>
        \/ /\ States \ opened # {}
           /\ LET s == CHOOSE x \in States \ opened : TRUE
              IN /\ txns' = [kept EXCEPT ![s] = [browser |-> b, source |-> login[b].source,
                                                 exp |-> now + TransactionTTL]]
                 /\ jar' = [jar EXCEPT ![b] = @ \cup {s}]
                 /\ opened' = opened \cup {s}
                 /\ owner' = [owner EXCEPT ![s] = b]
    BY DEF CreateTransaction, kept
  <2> QED
    BY <1>4, <1>5, <2>1

\* The callback takes the login out of the store into its browser's hands.
LEMMA CallbackStep ==
    ASSUME LoginInv, NEW b \in Browsers, NEW n \in States, NEW answer, Callback(b, n, answer)
    PROVE  LoginInv'
<1>1. /\ txns' = txns \/ txns' = [txns EXCEPT ![n] = None]
      /\ jar' \in {jar, [jar EXCEPT ![b] = @ \ {n}]}
      /\ taken' = taken \/ taken' = [taken EXCEPT ![n] = b]
      /\ UNCHANGED <<opened, minted, owner>>
  BY DEF Callback, Consume
<1>2. CASE login' = login
  <2>1. LoginTypes'
    BY <1>1, <1>2 DEF LoginInv, LoginTypes
  <2>2. LoginKnows'
    BY <1>2 DEF LoginInv, LoginKnows
  <2>3. \A s \in States : txns'[s] = txns[s] \/ txns'[s] = None
    BY <1>1 DEF LoginInv, LoginTypes
  <2> QED
    BY <1>1, <1>2, <2>1, <2>2, <2>3, Harmless
<1>3. CASE /\ Bound(b, n) /\ login[b].pc = "idle"
           /\ login' = [login EXCEPT ![b] = [NoLogin EXCEPT !.pc = "finish", !.state = n,
                                                            !.source = txns[n].source]]
  <2>1. txns' = [txns EXCEPT ![n] = None]
    BY <1>3 DEF Callback, Consume, Bound
  <2>2. txns[n] # None /\ txns[n] \in Transactions /\ txns[n].browser = b
    BY <1>3 DEF Bound, LoginInv, LoginTypes
  <2>3. [NoLogin EXCEPT !.pc = "finish", !.state = n, !.source = txns[n].source] \in Logins
    BY <2>2 DEF Logins, NoLogin, Transactions
  <2>4. LoginTypes'
    BY <1>1, <1>3, <2>1, <2>3 DEF LoginInv, LoginTypes
  <2>5. LoginKnows'
    BY <1>3, <2>2, NoLoginAssumption DEF LoginInv, LoginTypes, LoginKnows, NoLogin, Transactions
  <2>6. ASSUME NEW s \in States PROVE OneAt(s)'
    <3>1. OneAt(s) /\ OneAt(n) /\ (Minted(s)' <=> Minted(s))
      BY <1>1 DEF LoginInv, Minted
    <3>2. txns'[n] = None /\ (s # n => txns'[s] = txns[s])
      BY <2>1 DEF LoginInv, LoginTypes
    <3>3. \A x \in Browsers : login'[x].state = s => login[x].state = s \/ (x = b /\ s = n)
      BY <1>3 DEF LoginInv, LoginTypes, NoLogin
    <3> QED
      BY <1>1, <2>2, <3>1, <3>2, <3>3 DEF OneAt
  <2>7. OneSessionPerLogin'
    BY <1>1 DEF LoginInv, OneSessionPerLogin
  <2> QED
    BY <2>4, <2>5, <2>6, <2>7 DEF LoginInv
<1> QED
  BY <1>2, <1>3 DEF Callback

\* The session comes from the login in the browser's hands.
LEMMA ExchangeStep ==
    ASSUME LoginInv, NEW b \in Browsers, NEW v, NEW subject, Exchange(b, v, subject)
    PROVE  LoginInv'
<1> DEFINE n == login[b].state
<1>1. /\ login[b].pc = "exchange" /\ login' = [login EXCEPT ![b] = NoLogin]
      /\ UNCHANGED <<txns, jar, opened, owner, taken>>
      /\ minted' = minted \/ minted' = Append(minted, <<n, b>>)
  BY DEF Exchange
<1>2. /\ login' \in [Browsers -> Logins] /\ LoginKnows'
      /\ \A x \in Browsers : login'[x].state = login[x].state \/ login'[x].state = None
      /\ login'[b].state = None
  BY <1>1 DEF LoginInv, LoginTypes, Logins, LoginKnows, NoLogin
<1>3. CASE minted' = minted
  <2>1. LoginTypes'
    BY <1>1, <1>2, <1>3 DEF LoginInv, LoginTypes
  <2> QED
    BY <1>1, <1>2, <1>3, <2>1, Harmless
<1>4. CASE minted' = Append(minted, <<n, b>>)
  <2>1. n \in States
    BY <1>1 DEF LoginInv, LoginTypes, LoginKnows, Logins
  <2>2. /\ minted \in Seq(States \X Browsers) /\ minted' \in Seq(States \X Browsers)
        /\ DOMAIN minted' = DOMAIN minted \cup {Len(minted) + 1}
        /\ Len(minted) + 1 \notin DOMAIN minted
        /\ \A i \in DOMAIN minted : minted'[i] = minted[i]
        /\ minted'[Len(minted) + 1] = <<n, b>>
    BY <1>4, <2>1 DEF LoginInv, LoginTypes
  <2>3. n \in opened /\ owner[n] = b /\ ~Minted(n) /\ txns[n] = None
    BY <2>1 DEF LoginInv, OneAt
  <2> HIDE DEF n
  <2>4. LoginTypes'
    BY <1>1, <1>2, <2>2 DEF LoginInv, LoginTypes
  <2>5. ASSUME NEW s \in States PROVE OneAt(s)'
    <3>1. OneAt(s) /\ (Minted(s)' => Minted(s) \/ s = n)
      BY <2>2 DEF LoginInv, Minted
    <3>2. \A x \in Browsers : login'[x].state = s => login[x].state = s /\ x # b
      BY <1>2, NoLoginAssumption
    <3> QED
      BY <1>1, <2>3, <3>1, <3>2 DEF OneAt
  <2>6. OneSessionPerLogin'
    BY <1>1, <2>2, <2>3 DEF LoginInv, OneSessionPerLogin, Minted
  <2> QED
    BY <1>2, <2>4, <2>5, <2>6 DEF LoginInv
<1> QED
  BY <1>1, <1>3, <1>4

LEMMA LoginStep ==
    ASSUME LoginInv, SessionTypes, [LoginNext]_<<vars, loginVars>>
    PROVE  LoginInv'
<1>1. CASE UNCHANGED <<txns, jar, login, opened, minted, owner, taken>>
  <2>1. LoginTypes' /\ LoginKnows'
    BY <1>1 DEF LoginInv, LoginTypes, LoginKnows
  <2> QED
    BY <1>1, <2>1, Harmless
<1>2. CASE \E b \in Browsers, ip \in IPs, valid \in BOOLEAN : BeginLogin(b, ip, valid)
  <2>1. PICK b \in Browsers, ip \in IPs :
               \/ login' = login
               \/ login' = [login EXCEPT ![b] =
                              [NoLogin EXCEPT !.pc = "begin", !.source = OIDCSource(ip)]]
    BY <1>2 DEF BeginLogin
  <2>2. UNCHANGED <<txns, jar, opened, minted, owner, taken>>
    BY <1>2 DEF BeginLogin
  <2> QED
    BY <2>1, <2>2, BeginStep DEF LoginInv, LoginTypes
<1>3. CASE \E b \in Browsers : GetProvider(b)
  <2>1. PICK b \in Browsers :
               /\ login[b].pc \in {"begin", "finish"}
               /\ \/ ~login[b].wait /\ login' = [login EXCEPT ![b].pc = AfterProvider(@)]
                  \/ login' = [login EXCEPT ![b] = NoLogin]
                  \/ login' = [login EXCEPT ![b].wait = TRUE]
               /\ UNCHANGED <<txns, jar, opened, minted, owner, taken>>
    BY <1>3 DEF GetProvider
  <2> QED
    BY <2>1, BeginStep DEF LoginInv, LoginTypes
<1>4. CASE \E d \in Documents, h \in Headers : RefreshProvider(d, h)
  <2>1. PICK ok \in BOOLEAN :
               login' = [b \in Browsers |->
                           IF ~login[b].wait THEN login[b]
                           ELSE IF ok THEN [login[b] EXCEPT !.wait = FALSE, !.pc = AfterProvider(@)]
                           ELSE NoLogin]
    BY <1>4 DEF RefreshProvider, AcceptsDocument
  <2>2. UNCHANGED <<txns, jar, opened, minted, owner, taken>>
    BY <1>4 DEF RefreshProvider
  <2>3. \A b \in Browsers : login[b].wait => login[b].pc \in {"begin", "finish"}
    BY DEF LoginInv, LoginKnows
  <2> QED
    BY <2>1, <2>2, <2>3, BeginStep
<1>5. CASE \E b \in Browsers : CancelLogin(b)
  <2>1. PICK b \in Browsers : login' = [login EXCEPT ![b] = NoLogin]
    BY <1>5 DEF CancelLogin
  <2>2. UNCHANGED <<txns, jar, opened, minted, owner, taken>>
    BY <1>5 DEF CancelLogin
  <2> QED
    BY <2>1, <2>2, BeginStep DEF LoginInv, LoginTypes
<1>6. CASE \E b \in Browsers : CreateTransaction(b)
  BY <1>6, CreateTransactionStep
<1>7. CASE \E b \in Browsers, s \in States, answer \in {"code", "denied", "garbled"} :
             Callback(b, s, answer)
  BY <1>7, CallbackStep
<1>8. CASE \E b \in Browsers, v \in {"outside", "rejected", "verified"}, subject \in Subjects :
             Exchange(b, v, subject)
  BY <1>8, ExchangeStep
<1>9. CASE Restart
  <2>1. /\ txns' = [s \in States |-> None] /\ login' = [b \in Browsers |-> NoLogin]
        /\ UNCHANGED <<jar, opened, minted, owner, taken>>
    BY <1>9 DEF Restart
  <2>2. LoginTypes' /\ LoginKnows'
    BY <2>1 DEF LoginInv, LoginTypes, LoginKnows, NoLogin, Logins
  <2> QED
    BY <2>1, <2>2, Harmless DEF NoLogin
<1>10. ASSUME NEW ip, NEW embed, NEW role, NEW key, NEW right, Login(ip, embed, role, key, right)
       PROVE  LoginInv'
  BY <1>1, <1>10 DEF Login, oidcVars
<1> QED
  BY <1>1, <1>2, <1>3, <1>4, <1>5, <1>6, <1>7, <1>8, <1>9, <1>10
  DEF LoginNext, OIDCStep, PasswordLogin, APIKeyLogin, loginVars

\* Only its browser, its expiry and a restart take a login out of the store.
LEMMA TakenByOwner ==
    ASSUME LoginInv, SessionTypes, RequestTypes, [LoginNext]_<<vars, loginVars>>, NEW s \in States,
           txns[s] # None, txns'[s] = None, txns[s].exp > now, restarts' = restarts
    PROVE  taken'[s] = txns[s].browser
<1>1. ASSUME NEW b \in Browsers, NEW n \in States, NEW answer, Callback(b, n, answer)
      PROVE  taken'[s] = txns[s].browser
  <2>1. s = n /\ txns[s].browser = b
    BY <1>1 DEF Callback, Consume, LoginInv, LoginTypes
  <2>2. taken' = [taken EXCEPT ![s] = b]
    BY <1>1, <2>1 DEF Callback
  <2> QED
    BY <2>1, <2>2 DEF LoginInv, LoginTypes
<1>2. ASSUME NEW b \in Browsers, CreateTransaction(b) PROVE FALSE
  <2> DEFINE kept == [x \in States |-> IF txns[x] # None /\ txns[x].exp <= now THEN None ELSE txns[x]]
  <2>1. kept[s] # None /\ kept \in [States -> Transactions \cup {None}] /\ s \in opened
    BY DEF LoginInv, LoginTypes, OneAt, Transactions, SessionTypes
  <2> HIDE DEF kept
  <2>2. \/ txns' = kept
        \/ /\ States \ opened # {}
           /\ LET n == CHOOSE x \in States \ opened : TRUE
              IN txns' = [kept EXCEPT ![n] = [browser |-> b, source |-> login[b].source,
                                              exp |-> now + TransactionTTL]]
    BY <1>2 DEF CreateTransaction, kept
  <2>3. ASSUME NEW n \in States \ opened, NEW w, txns' = [kept EXCEPT ![n] = w]
        PROVE  txns'[s] = kept[s]
    BY <2>1, <2>3
  <2> QED
    BY <2>1, <2>2, <2>3
<1>3. ~Restart
  BY DEF Restart, RestartSessions, RequestTypes
<1>4. txns' # txns
  OBVIOUS
<1>5. CASE \E b \in Browsers, v \in {"outside", "rejected", "verified"}, subject \in Subjects :
             Exchange(b, v, subject)
  BY <1>4, <1>5 DEF Exchange
<1> QED
  BY <1>1, <1>2, <1>3, <1>4, <1>5
  DEF LoginNext, OIDCStep, PasswordLogin, APIKeyLogin, Login, loginVars, oidcVars,
      BeginLogin, GetProvider, RefreshProvider, CancelLogin
-----------------------------------------------------------------------------
(* The attempts.  A source's history at time n: how many of its attempts    *)
(* were let through by each time.                                           *)

Times == 0..MaxNow
Counts(f, n) ==
    /\ f \in [Times -> Nat]
    /\ \A s, t \in Times : s <= t => f[s] <= f[t]
    /\ \A t \in Times : t >= n => f[t] = f[n]

Windows == [on : BOOLEAN, started : Nat, seen : Nat, attempts : Nat]

LimiterTypes ==
    /\ now \in Times
    /\ limiter = [global |-> limiter.global, sources |-> limiter.sources]
    /\ limiter.global \in Windows
    /\ DOMAIN limiter.sources \subseteq LoginSources
    /\ \A s \in DOMAIN limiter.sources :
          limiter.sources[s] \in Windows /\ limiter.sources[s].started <= now
    /\ tries = [s \in LoginSources \cup {Everyone} |-> tries[s]]
    /\ \A s \in LoginSources \cup {Everyone} : Counts(tries[s], now)

\* An attempt renews a window that is over, so none was let through since.
NotSince(f, w, n) == n - w.started >= Window => f[n] = Through(f, n - 1)

\* The window w of a source: no more attempts than the limit were let through in
\* it, the first of them when it opened, and fewer than the limit in the Window
\* ticks before.
SourceWindow(f, w, n) ==
    /\ f[n] - Through(f, w.started - 1) <= w.attempts
    /\ w.attempts <= PerSourceLimit
    /\ f[w.started] - Through(f, w.started - 1) >= 1
    /\ Through(f, w.started - 1) - Through(f, w.started - Window) <= PerSourceLimit - 1
    /\ NotSince(f, w, n)

\* A source without a window: fewer attempts than the limit are recent, and none
\* is of this moment.
SourceQuiet(f, n) ==
    /\ f[n] - Through(f, n - Window) <= PerSourceLimit - 1
    /\ f[n] = Through(f, n - 1)

SourceBound(S, p, f, n) ==
    IF p \in DOMAIN S THEN SourceWindow(f, S[p], n) ELSE SourceQuiet(f, n)

\* The window of all sources, which an attempt may open that is then refused.
GlobalWindow(f, g, n) ==
    /\ g.started <= n
    /\ f[n] - Through(f, g.started - 1) <= g.attempts
    /\ g.attempts <= GlobalLimit
    /\ Through(f, g.started - 1) - Through(f, g.started - Window) <= GlobalLimit
    /\ NotSince(f, g, n)
GlobalBound(f, g, n) == IF g.on THEN GlobalWindow(f, g, n) ELSE f[n] = 0

PasswordSources == {PasswordSource(ip) : ip \in IPs}

AttemptInv ==
    /\ LimiterTypes
    /\ \A p \in PasswordSources : SourceBound(limiter.sources, p, tries[p], now)
    /\ \A p \in OIDCSources : tries[p][now] = 0
    /\ GlobalBound(tries[Everyone], limiter.global, now)

LEMMA Kinds ==
    /\ LoginSources = PasswordSources \cup OIDCSources
    /\ PasswordSources \cap OIDCSources = {}
    /\ Everyone \notin LoginSources
BY DEF LoginSources, PasswordSources, OIDCSources, PasswordSource, OIDCSource, Everyone

LEMMA Limits ==
    /\ MaxNow \in Nat
    /\ Window \in Nat \ {0} /\ PerSourceLimit \in Nat \ {0} /\ GlobalLimit \in Nat \ {0}
BY AuthAssumption, LimiterAssumption

LEMMA AtNow ==
    ASSUME LimiterTypes, NEW s \in LoginSources \cup {Everyone}
    PROVE  /\ Counts(tries[s], now)
           /\ now \in Times /\ now \in Nat /\ now <= MaxNow
           /\ tries[s][now] \in Nat
<1>1. Counts(tries[s], now) /\ now \in Times
  BY DEF LimiterTypes
<1>2. now \in Nat /\ now <= MaxNow
  BY <1>1, Limits DEF Times
<1> QED
  BY <1>1, <1>2 DEF Counts

\* The history grows with time.
LEMMA ThroughGrows ==
    ASSUME NEW f, NEW n \in Times, Counts(f, n), NEW a \in Int, NEW b \in Times, a <= b
    PROVE  Through(f, a) \in Nat /\ Through(f, a) <= f[b] /\ f[b] \in Nat
BY Limits DEF Counts, Times, Through

LEMMA ThroughUp ==
    ASSUME NEW f, NEW n \in Times, Counts(f, n), NEW a \in Int, NEW b \in Int, a <= b, b <= MaxNow
    PROVE  Through(f, a) \in Nat /\ Through(f, b) \in Nat /\ Through(f, a) <= Through(f, b)
BY Limits DEF Counts, Times, Through

\* A window that runs, and the one before it, bound what is recent.
LEMMA SourceRecent ==
    ASSUME AttemptInv, NEW p \in PasswordSources
    PROVE  tries[p][now] - Through(tries[p], now - Window) <= 2 * PerSourceLimit - 1
<1> DEFINE f == tries[p]
           w == limiter.sources[p]
           st == w.started
<1>1. Counts(f, now) /\ now \in Times /\ f[now] \in Nat /\ now \in Nat /\ now <= MaxNow
  BY Kinds, AtNow DEF AttemptInv
<1>2. CASE p \notin DOMAIN limiter.sources
  <2>1. f[now] - Through(f, now - Window) <= PerSourceLimit - 1
    BY <1>2 DEF AttemptInv, SourceBound, SourceQuiet
  <2>2. Through(f, now - Window) \in Nat
    BY <1>1, Limits, ThroughGrows
  <2> HIDE DEF f
  <2> QED
    BY <1>1, <2>1, <2>2, Limits DEF f
<1>3. CASE p \in DOMAIN limiter.sources
  <2>1. st \in Nat /\ st <= now /\ w.attempts \in Nat
    BY <1>3 DEF AttemptInv, LimiterTypes, Windows
  <2>2. /\ f[now] - Through(f, st - 1) <= w.attempts
        /\ w.attempts <= PerSourceLimit
        /\ f[st] - Through(f, st - 1) >= 1
        /\ Through(f, st - 1) - Through(f, st - Window) <= PerSourceLimit - 1
    BY <1>3 DEF AttemptInv, SourceBound, SourceWindow
  <2> HIDE DEF f, w, st
  <2>3. /\ Through(f, st - 1) \in Nat /\ Through(f, st - Window) \in Nat
        /\ Through(f, now - Window) \in Nat
        /\ Through(f, st - Window) <= Through(f, now - Window)
    BY <1>1, <2>1, Limits, ThroughUp
  <2>4. st <= now - Window => f[st] <= Through(f, now - Window) /\ f[st] \in Nat
    <3>1. st \in Times
      BY <1>1, <2>1, Limits DEF Times
    <3> QED
      BY <1>1, <2>1, <3>1, Limits, ThroughUp DEF Through, Counts
  <2>5. st > now - Window => Through(f, st - Window) <= Through(f, now - Window)
    BY <2>3
  <2>6. PICK L : L = PerSourceLimit
    OBVIOUS
  <2>7. f[now] - Through(f, now - Window) <= 2 * L - 1
    BY <1>1, <2>1, <2>2, <2>3, <2>4, <2>6, Limits
  <2> QED
    BY <2>6, <2>7 DEF f
<1> QED
  BY <1>2, <1>3

LEMMA GlobalRecent ==
    ASSUME AttemptInv
    PROVE  tries[Everyone][now] - Through(tries[Everyone], now - Window) <= 2 * GlobalLimit
<1> DEFINE f == tries[Everyone]
           g == limiter.global
           st == g.started
<1>1. Counts(f, now) /\ now \in Times /\ f[now] \in Nat /\ now \in Nat /\ now <= MaxNow
      /\ g \in Windows
  BY AtNow DEF AttemptInv, LimiterTypes
<1>2. Through(f, now - Window) \in Nat
  BY <1>1, Limits, ThroughGrows
<1>3. CASE ~g.on
  <2>1. f[now] = 0
    BY <1>3 DEF AttemptInv, GlobalBound
  <2> HIDE DEF f
  <2> QED
    BY <1>2, <2>1, Limits DEF f
<1>4. CASE g.on
  <2>1. /\ st \in Nat /\ st <= now /\ g.attempts \in Nat
        /\ f[now] - Through(f, st - 1) <= g.attempts
        /\ g.attempts <= GlobalLimit
        /\ Through(f, st - 1) - Through(f, st - Window) <= GlobalLimit
    BY <1>1, <1>4 DEF AttemptInv, GlobalBound, GlobalWindow, Windows
  <2> HIDE DEF f, g, st
  <2>2. /\ Through(f, st - 1) \in Nat /\ Through(f, st - Window) \in Nat
        /\ Through(f, now - Window) \in Nat
        /\ Through(f, st - Window) <= Through(f, now - Window)
    BY <1>1, <2>1, Limits, ThroughUp
  <2>3. f[now] - Through(f, now - Window) <= 2 * GlobalLimit
    BY <1>1, <2>1, <2>2, Limits
  <2> QED
    BY <2>3 DEF f
<1> QED
  BY <1>3, <1>4

LEMMA Bounding == AttemptInv => AttemptBound
<1> SUFFICES ASSUME AttemptInv, NEW s \in DOMAIN tries
             PROVE  tries[s][now] - Through(tries[s], now - Window)
                      <= IF s = Everyone THEN 2 * GlobalLimit ELSE 2 * PerSourceLimit - 1
  BY DEF AttemptBound
<1>1. s \in PasswordSources \cup OIDCSources \/ s = Everyone
  BY Kinds DEF AttemptInv, LimiterTypes
<1>2. CASE s \in PasswordSources
  BY <1>2, SourceRecent, Kinds
<1>3. CASE s \in OIDCSources
  <2>1. tries[s][now] = 0 /\ Counts(tries[s], now) /\ now \in Times
    BY <1>3 DEF AttemptInv, LimiterTypes
  <2>2. Through(tries[s], now - Window) \in Nat
    BY <2>1, Limits, ThroughGrows DEF Times
  <2>3. 0 - Through(tries[s], now - Window) <= 2 * PerSourceLimit - 1
    BY <2>2, Limits
  <2> QED
    BY <1>3, <2>1, <2>3, Kinds
<1>4. CASE s = Everyone
  BY <1>4, GlobalRecent
<1> QED
  BY <1>1, <1>2, <1>3, <1>4

(* How a history and its window move.                                       *)

LEMMA MoreCounts ==
    ASSUME NEW f, now \in Times, Counts(f, now)
    PROVE  /\ Counts(OneMore(f), now)
           /\ OneMore(f)[now] = f[now] + 1
           /\ \A t \in Times : /\ OneMore(f)[t] = IF t >= now THEN f[t] + 1 ELSE f[t]
                               /\ f[t] \in Nat
           /\ \A a \in Int : a < now => Through(OneMore(f), a) = Through(f, a)
<1>1. now \in Nat /\ now <= MaxNow /\ MaxNow \in Nat
  BY Limits DEF Times
<1>2. /\ f \in [Times -> Nat]
      /\ \A s, t \in Times : s <= t => f[s] <= f[t]
      /\ \A t \in Times : t >= now => f[t] = f[now]
  BY DEF Counts
<1>3. PICK h : h = OneMore(f)
  OBVIOUS
<1>4. h = [t \in Times |-> IF t >= now THEN f[t] + 1 ELSE f[t]]
  BY <1>3 DEF OneMore, Times
<1>5. h \in [Times -> Nat]
  BY <1>2, <1>4
<1>6. \A t \in Times : h[t] = (IF t >= now THEN f[t] + 1 ELSE f[t]) /\ f[t] \in Nat /\ t \in Int
  BY <1>1, <1>2, <1>4 DEF Times
<1>7. \A s, t \in Times : s <= t => h[s] <= h[t]
  BY <1>1, <1>2, <1>6
<1>8. h[now] = f[now] + 1 /\ \A t \in Times : t >= now => h[t] = h[now]
  BY <1>1, <1>2, <1>6
<1>9. ASSUME NEW a \in Int, a < now PROVE Through(h, a) = Through(f, a)
  <2>1. a >= 0 => a \in Times
    BY <1>1, <1>9 DEF Times
  <2>2. a >= 0 => h[a] = f[a]
    BY <1>1, <1>6, <1>9, <2>1
  <2> QED
    BY <2>2, <1>9 DEF Through
<1>10. Counts(h, now)
  BY <1>5, <1>7, <1>8 DEF Counts
<1> QED
  BY <1>3, <1>6, <1>8, <1>9, <1>10

\* An attempt within a window that runs.
LEMMA WindowCounts ==
    ASSUME NEW f, now \in Times, Counts(f, now), NEW w \in Windows, w.started <= now,
           SourceWindow(f, w, now), NEW v \in Windows,
           v.started = w.started, v.attempts = w.attempts + 1,
           w.attempts < PerSourceLimit, now - w.started < Window
    PROVE  SourceWindow(OneMore(f), v, now)
<1>1. PICK st \in Nat : st = w.started
  BY DEF Windows
<1>2. PICK n \in Nat : n = w.attempts
  BY DEF Windows
<1>3. now \in Nat /\ now <= MaxNow /\ MaxNow \in Nat
  BY Limits DEF Times
<1>4. st \in Times /\ st <= now
  BY <1>1, <1>3 DEF Times
<1>5. /\ OneMore(f)[now] = f[now] + 1 /\ f[now] \in Nat
      /\ OneMore(f)[st] = (IF st >= now THEN f[st] + 1 ELSE f[st]) /\ f[st] \in Nat
      /\ Through(OneMore(f), st - 1) = Through(f, st - 1)
      /\ Through(OneMore(f), st - Window) = Through(f, st - Window)
  BY <1>3, <1>4, Limits, MoreCounts
<1>6. Through(f, st - 1) \in Nat
  BY <1>3, <1>4, ThroughUp
<1>7. /\ f[now] - Through(f, st - 1) <= n
      /\ f[st] - Through(f, st - 1) >= 1
      /\ Through(f, st - 1) - Through(f, st - Window) <= PerSourceLimit - 1
      /\ n < PerSourceLimit /\ now - st < Window
  BY <1>1, <1>2 DEF SourceWindow
<1>8. /\ OneMore(f)[now] - Through(OneMore(f), st - 1) <= n + 1
      /\ n + 1 <= PerSourceLimit
      /\ OneMore(f)[st] - Through(OneMore(f), st - 1) >= 1
      /\ Through(OneMore(f), st - 1) - Through(OneMore(f), st - Window) <= PerSourceLimit - 1
  BY <1>3, <1>4, <1>5, <1>6, <1>7, Limits
<1>9. v.started = st /\ v.attempts = n + 1 /\ ~(now - st >= Window)
  BY <1>1, <1>2, <1>3, <1>7, Limits
<1> QED
  BY <1>8, <1>9 DEF SourceWindow, NotSince

\* An attempt that opens a window.
LEMMA WindowOpens ==
    ASSUME NEW f, now \in Times, Counts(f, now), SourceQuiet(f, now),
           NEW v \in Windows, v.started = now, v.attempts = 1
    PROVE  SourceWindow(OneMore(f), v, now)
<1>1. now \in Nat /\ now <= MaxNow /\ MaxNow \in Nat
  BY Limits DEF Times
<1>2. /\ OneMore(f)[now] = f[now] + 1 /\ f[now] \in Nat
      /\ Through(OneMore(f), now - 1) = Through(f, now - 1)
      /\ Through(OneMore(f), now - Window) = Through(f, now - Window)
  BY <1>1, Limits, MoreCounts
<1>3. f[now] - Through(f, now - Window) <= PerSourceLimit - 1 /\ f[now] = Through(f, now - 1)
  BY DEF SourceQuiet
<1>4. /\ OneMore(f)[now] - Through(OneMore(f), now - 1) = 1
      /\ 1 <= PerSourceLimit /\ ~(now - now >= Window)
      /\ Through(OneMore(f), now - 1) - Through(OneMore(f), now - Window) <= PerSourceLimit - 1
  BY <1>1, <1>2, <1>3, Limits
<1> QED
  BY <1>4 DEF SourceWindow, NotSince

\* A window that is over.
LEMMA WindowEnds ==
    ASSUME NEW f, NEW n \in Times, Counts(f, n), NEW w \in Windows, w.started <= n,
           SourceWindow(f, w, n), n - w.started >= Window
    PROVE  SourceQuiet(f, n)
<1>1. PICK st \in Nat : st = w.started
  BY DEF Windows
<1>2. n \in Nat /\ n <= MaxNow /\ MaxNow \in Nat /\ st <= n /\ n - st >= Window
  BY <1>1, Limits DEF Times
<1>3. PICK a \in Nat : a = w.attempts
  BY DEF Windows
<1>4. /\ f[n] - Through(f, st - 1) <= a /\ a <= PerSourceLimit
      /\ f[st] - Through(f, st - 1) >= 1 /\ f[n] = Through(f, n - 1)
  BY <1>1, <1>2, <1>3 DEF SourceWindow, NotSince
<1>5. st \in Times /\ st <= n - Window
  BY <1>2, Limits DEF Times
<1>6. Through(f, st) = f[st] /\ Through(f, st) <= Through(f, n - Window)
      /\ Through(f, n - Window) \in Nat /\ Through(f, st) \in Nat
  BY <1>2, <1>5, Limits, ThroughUp DEF Through
<1>7. Through(f, st - 1) \in Nat /\ f[n] \in Nat
  BY <1>2, <1>5, Limits, ThroughUp DEF Counts
<1>8. f[n] - Through(f, n - Window) <= PerSourceLimit - 1
  BY <1>2, <1>4, <1>6, <1>7, Limits
<1> QED
  BY <1>4, <1>8 DEF SourceQuiet

LEMMA NeverQuiet ==
    ASSUME NEW n \in Times
    PROVE  Counts(Never, n) /\ Never[n] = 0 /\ SourceQuiet(Never, n)
<1>1. n \in Nat /\ n <= MaxNow /\ MaxNow \in Nat
  BY Limits DEF Times
<1>2. \A t \in Times : Never[t] = 0
  BY DEF Never, Times
<1>3. \A a \in Int : a <= MaxNow => Through(Never, a) = 0
  BY <1>1, <1>2 DEF Through, Times
<1>4. Counts(Never, n) /\ Never[n] = 0
  BY <1>1, <1>2 DEF Counts, Never, Times
<1> QED
  BY <1>1, <1>3, <1>4, Limits DEF SourceQuiet

\* The moment passes.
LEMMA CountsLater ==
    ASSUME NEW f, NEW n \in Times, Counts(f, n), n + 1 \in Times
    PROVE  Counts(f, n + 1) /\ f[n + 1] = f[n] /\ Through(f, n) = f[n] /\ f[n] \in Nat
BY Limits DEF Counts, Times, Through

LEMMA WindowLater ==
    ASSUME NEW f, NEW n \in Times, Counts(f, n), n + 1 \in Times,
           NEW w \in Windows, w.started <= n, SourceWindow(f, w, n)
    PROVE  SourceWindow(f, w, n + 1)
<1>1. f[n + 1] = f[n] /\ Through(f, n) = f[n] /\ (n + 1) - 1 = n
  BY CountsLater DEF Times
<1> QED
  BY <1>1 DEF SourceWindow, NotSince

LEMMA QuietLater ==
    ASSUME NEW f, NEW n \in Times, Counts(f, n), n + 1 \in Times, SourceQuiet(f, n)
    PROVE  SourceQuiet(f, n + 1)
<1>1. n \in Nat /\ n <= MaxNow /\ MaxNow \in Nat
  BY Limits DEF Times
<1>2. f[n + 1] = f[n] /\ Through(f, n) = f[n] /\ (n + 1) - 1 = n /\ f[n] \in Nat
  BY <1>1, CountsLater
<1>3. /\ Through(f, n - Window) <= Through(f, (n + 1) - Window)
      /\ Through(f, n - Window) \in Nat /\ Through(f, (n + 1) - Window) \in Nat
  BY <1>1, Limits, ThroughUp
<1>4. f[n] - Through(f, n - Window) <= PerSourceLimit - 1
  BY DEF SourceQuiet
<1>5. f[n + 1] - Through(f, (n + 1) - Window) <= PerSourceLimit - 1
  BY <1>2, <1>3, <1>4, Limits
<1>6. f[n + 1] = Through(f, (n + 1) - 1)
  BY <1>2
<1> QED
  BY <1>5, <1>6 DEF SourceQuiet

LEMMA GlobalLater ==
    ASSUME NEW f, NEW n \in Times, Counts(f, n), n + 1 \in Times,
           NEW g \in Windows, GlobalBound(f, g, n)
    PROVE  GlobalBound(f, g, n + 1)
<1>1. f[n + 1] = f[n] /\ Through(f, n) = f[n] /\ (n + 1) - 1 = n
  BY CountsLater DEF Times
<1>2. ASSUME g.started <= n PROVE g.started <= n + 1
  BY <1>2 DEF Windows, Times
<1> QED
  BY <1>1, <1>2 DEF GlobalBound, GlobalWindow, NotSince

\* An attempt finds a window of all sources that runs.
LEMMA GlobalResets ==
    ASSUME NEW f, now \in Times, Counts(f, now), NEW g \in Windows, GlobalBound(f, g, now)
    PROVE  LET h == ResetGlobal(g, now) IN
           h \in Windows /\ h.on /\ now - h.started < Window /\ GlobalWindow(f, h, now)
<1> DEFINE new == NewWindow(now)
<1>1. now \in Nat /\ now <= MaxNow /\ MaxNow \in Nat /\ f[now] \in Nat
  BY Limits DEF Times, Counts
<1>2. new \in Windows /\ new.on /\ new.started = now /\ new.attempts = 0
  BY <1>1 DEF NewWindow, Windows
<1>3. Through(f, now - Window) \in Nat /\ Through(f, now - 1) \in Nat
      /\ Through(f, now - 1) <= f[now]
  BY <1>1, Limits, ThroughUp, ThroughGrows
<1>4. CASE ~g.on
  <2>1. f[now] = 0
    BY <1>4 DEF GlobalBound
  <2>2. /\ now <= now /\ f[now] - Through(f, now - 1) <= 0 /\ 0 <= GlobalLimit
        /\ Through(f, now - 1) - Through(f, now - Window) <= GlobalLimit
        /\ ~(now - now >= Window) /\ now - now < Window
    BY <1>1, <1>3, <2>1, Limits
  <2>3. ResetGlobal(g, now) = new
    BY <1>4 DEF ResetGlobal
  <2> HIDE DEF new
  <2> QED
    BY <1>2, <2>2, <2>3 DEF GlobalWindow, NotSince
<1>5. CASE g.on /\ now - g.started >= Window
  <2>1. PICK st \in Nat : st = g.started
    BY DEF Windows
  <2>2. PICK a \in Nat : a = g.attempts
    BY DEF Windows
  <2>3. /\ f[now] - Through(f, st - 1) <= a /\ a <= GlobalLimit
        /\ f[now] = Through(f, now - 1) /\ now - st >= Window
    BY <1>5, <2>1, <2>2 DEF GlobalBound, GlobalWindow, NotSince
  <2>4. Through(f, st - 1) <= Through(f, now - Window) /\ Through(f, st - 1) \in Nat
    BY <1>1, <2>3, Limits, ThroughUp
  <2>5. /\ now <= now /\ f[now] - Through(f, now - 1) <= 0 /\ 0 <= GlobalLimit
        /\ Through(f, now - 1) - Through(f, now - Window) <= GlobalLimit
        /\ ~(now - now >= Window) /\ now - now < Window
    BY <1>1, <1>3, <2>3, <2>4, Limits
  <2>6. ResetGlobal(g, now) = new
    BY <1>5 DEF ResetGlobal
  <2> HIDE DEF new
  <2> QED
    BY <1>2, <2>5, <2>6 DEF GlobalWindow, NotSince
<1>6. CASE g.on /\ ~(now - g.started >= Window)
  <2>1. ResetGlobal(g, now) = g
    BY <1>6 DEF ResetGlobal
  <2>2. now - g.started < Window
    BY <1>1, <1>6, Limits DEF Windows
  <2> QED
    BY <1>6, <2>1, <2>2 DEF GlobalBound
<1> QED
  BY <1>4, <1>5, <1>6

\* An attempt within it.
LEMMA GlobalCounts ==
    ASSUME NEW f, now \in Times, Counts(f, now), NEW g \in Windows, GlobalWindow(f, g, now),
           now - g.started < Window, g.attempts < GlobalLimit, NEW v \in Windows,
           v.started = g.started, v.attempts = g.attempts + 1
    PROVE  GlobalWindow(OneMore(f), v, now)
<1>1. PICK st \in Nat : st = g.started
  BY DEF Windows
<1>2. PICK n \in Nat : n = g.attempts
  BY DEF Windows
<1>3. now \in Nat /\ now <= MaxNow /\ MaxNow \in Nat
  BY Limits DEF Times
<1>4. /\ st <= now /\ f[now] - Through(f, st - 1) <= n
      /\ Through(f, st - 1) - Through(f, st - Window) <= GlobalLimit
      /\ n < GlobalLimit /\ now - st < Window
  BY <1>1, <1>2 DEF GlobalWindow
<1>5. /\ OneMore(f)[now] = f[now] + 1 /\ f[now] \in Nat
      /\ Through(OneMore(f), st - 1) = Through(f, st - 1)
      /\ Through(OneMore(f), st - Window) = Through(f, st - Window)
      /\ Through(f, st - 1) \in Nat
  BY <1>3, <1>4, Limits, MoreCounts, ThroughUp
<1>6. /\ OneMore(f)[now] - Through(OneMore(f), st - 1) <= n + 1 /\ n + 1 <= GlobalLimit
      /\ Through(OneMore(f), st - 1) - Through(OneMore(f), st - Window) <= GlobalLimit
  BY <1>4, <1>5, Limits
<1>7. v.started = st /\ v.attempts = n + 1 /\ ~(now - st >= Window)
  BY <1>1, <1>2, <1>3, <1>4, Limits
<1> QED
  BY <1>4, <1>6, <1>7 DEF GlobalWindow, NotSince

(* What the operations of the limiter do to its table.                      *)

TableTypes(S) ==
    /\ DOMAIN S \subseteq LoginSources
    /\ \A s \in DOMAIN S : S[s] \in Windows /\ S[s].started <= now

\* The table without the windows that are over, where every operation begins.
Running == RemoveExpired(limiter.sources, now)

\* A source whose attempt is let through when it is in S, from the running table
\* to the table T: it is gone, goes on or begins.
SourceMoves(T, S, p) ==
    \/ p \notin DOMAIN T /\ p \notin S
    \/ /\ p \in DOMAIN T /\ p \in DOMAIN Running
       /\ T[p].started = Running[p].started
       /\ IF p \in S THEN /\ T[p].attempts = Running[p].attempts + 1
                          /\ Running[p].attempts < PerSourceLimit
                     ELSE T[p].attempts = Running[p].attempts
    \/ /\ p \in DOMAIN T /\ p \notin DOMAIN Running /\ p \in S
       /\ T[p].started = now /\ T[p].attempts = 1

LEMMA Dropped ==
    ASSUME NEW S, NEW X
    PROVE  /\ DOMAIN Drop(S, X) = DOMAIN S \ X
           /\ \A x \in DOMAIN S \ X : Drop(S, X)[x] = S[x]
BY DEF Drop, Restrict

LEMMA RunningTable ==
    ASSUME LimiterTypes
    PROVE  /\ TableTypes(Running)
           /\ DOMAIN Running = {p \in DOMAIN limiter.sources :
                                  ~(now - limiter.sources[p].started >= Window)}
           /\ \A p \in DOMAIN Running :
                /\ p \in DOMAIN limiter.sources /\ Running[p] = limiter.sources[p]
                /\ now - Running[p].started < Window
<1> DEFINE S == limiter.sources
           X == {p \in DOMAIN S : now - S[p].started >= Window}
<1>1. Running = Drop(S, X)
  BY DEF Running, RemoveExpired
<1>2. DOMAIN Running = DOMAIN S \ X /\ \A p \in DOMAIN S \ X : Running[p] = S[p]
  BY <1>1, Dropped
<1>3. ASSUME NEW p \in DOMAIN Running
      PROVE  /\ p \in DOMAIN S /\ Running[p] = S[p]
             /\ ~(now - S[p].started >= Window)
             /\ S[p] \in Windows /\ S[p].started <= now
  BY <1>2, <1>3 DEF LimiterTypes
<1>4. ASSUME NEW p \in DOMAIN Running PROVE now - S[p].started < Window
  <2>1. S[p].started \in Nat /\ now \in Nat
    BY <1>3, Limits DEF Windows, LimiterTypes, Times
  <2> QED
    BY <1>3, <2>1, Limits
<1>5. DOMAIN S \subseteq LoginSources
  BY DEF LimiterTypes
<1> QED
  BY <1>2, <1>3, <1>4, <1>5 DEF TableTypes

\* The running table keeps what holds of the sources.
LEMMA RunningBound ==
    ASSUME AttemptInv, NEW p \in PasswordSources
    PROVE  SourceBound(Running, p, tries[p], now)
<1>1. LimiterTypes /\ SourceBound(limiter.sources, p, tries[p], now)
  BY DEF AttemptInv
<1>2. CASE p \in DOMAIN Running
  BY <1>1, <1>2, RunningTable DEF SourceBound
<1>3. CASE p \notin DOMAIN Running /\ p \in DOMAIN limiter.sources
  <2>1. /\ now - limiter.sources[p].started >= Window
        /\ SourceWindow(tries[p], limiter.sources[p], now)
    BY <1>1, <1>3, RunningTable DEF SourceBound
  <2>2. /\ limiter.sources[p] \in Windows /\ limiter.sources[p].started <= now
        /\ Counts(tries[p], now) /\ now \in Times
    BY <1>1, <1>3, Kinds DEF LimiterTypes
  <2>3. SourceQuiet(tries[p], now)
    BY <2>1, <2>2, WindowEnds
  <2> QED
    BY <1>3, <2>3 DEF SourceBound
<1>4. CASE p \notin DOMAIN Running /\ p \notin DOMAIN limiter.sources
  BY <1>1, <1>4 DEF SourceBound
<1> QED
  BY <1>2, <1>3, <1>4

\* Making room takes others out, not one that is in the table.
LEMMA RoomMade ==
    ASSUME NEW S, NEW T \in MakeSourceCapacity(S)
    PROVE  DOMAIN T \subseteq DOMAIN S /\ \A p \in DOMAIN T : T[p] = S[p]
<1>1. T = S \/ \E x : T = Drop(S, {x})
  BY DEF MakeSourceCapacity
<1>2. CASE T = S
  BY <1>2
<1>3. CASE \E x : T = Drop(S, {x})
  <2>1. PICK x : T = Drop(S, {x})
    BY <1>3
  <2>2. /\ DOMAIN Drop(S, {x}) = DOMAIN S \ {x}
        /\ \A p \in DOMAIN S \ {x} : Drop(S, {x})[p] = S[p]
    BY Dropped
  <2> QED
    BY <2>1, <2>2
<1> QED
  BY <1>1, <1>2, <1>3

\* One more attempt in a table t of the running windows.
LEMMA CountedTable ==
    ASSUME LimiterTypes, NEW source \in LoginSources, NEW add \in {0, 1}, NEW t,
           t \in IF source \in DOMAIN Running THEN {Running} ELSE MakeSourceCapacity(Running)
    PROVE  LET T == Counted(t, source, now, add) IN
           /\ TableTypes(T)
           /\ \A p \in DOMAIN T \ {source} : p \in DOMAIN Running /\ T[p] = Running[p]
           /\ source \in DOMAIN T
           /\ source \in DOMAIN Running =>
                /\ T[source].started = Running[source].started
                /\ T[source].attempts = Running[source].attempts + add
           /\ source \notin DOMAIN Running =>
                T[source].started = now /\ T[source].attempts = add
<1> DEFINE w == IF source \in DOMAIN t THEN t[source] ELSE NewWindow(now)
           v == [w EXCEPT !.attempts = @ + add, !.seen = now]
           T == Counted(t, source, now, add)
<1>1. /\ DOMAIN t \subseteq DOMAIN Running /\ \A p \in DOMAIN t : t[p] = Running[p]
      /\ source \in DOMAIN Running <=> source \in DOMAIN t
  BY RoomMade
<1>2. now \in Nat /\ TableTypes(Running)
  BY RunningTable, AtNow
<1>3. NewWindow(now) \in Windows /\ NewWindow(now).started = now /\ NewWindow(now).attempts = 0
  BY <1>2 DEF NewWindow, Windows
<1>4. w \in Windows /\ w.started <= now
  <2>1. CASE source \in DOMAIN t
    BY <2>1, <1>1, <1>2 DEF TableTypes
  <2>2. CASE source \notin DOMAIN t
    <3>1. now <= now
      BY <1>2
    <3> QED
      BY <2>2, <3>1, <1>3
  <2> QED
    BY <2>1, <2>2
<1>5. T = Put(t, source, v)
  BY DEF Counted
<1>6. w = (IF source \in DOMAIN t THEN t[source] ELSE NewWindow(now))
  OBVIOUS
<1> HIDE DEF w
<1>7. v \in Windows /\ v.started = w.started /\ v.attempts = w.attempts + add
  <2>1. w.attempts + add \in Nat
    BY <1>4 DEF Windows
  <2> DEFINE n == w.attempts + add
  <2>2. n \in Nat /\ v = [w EXCEPT !.attempts = n, !.seen = now]
    BY <2>1
  <2> HIDE DEF n, v
  <2>3. v \in Windows /\ v.started = w.started /\ v.attempts = n
    BY <1>2, <1>4, <2>2 DEF Windows
  <2> QED
    BY <2>3 DEF n
<1> HIDE DEF v, T
<1>8. /\ DOMAIN T = DOMAIN t \cup {source} /\ T[source] = v
      /\ \A p \in DOMAIN t \ {source} : T[p] = t[p]
  BY <1>5 DEF Put
<1>9. \A p \in DOMAIN T \ {source} : p \in DOMAIN Running /\ T[p] = Running[p]
  BY <1>1, <1>8
<1>10. TableTypes(T)
  <2>1. DOMAIN T \subseteq LoginSources
    BY <1>2, <1>8, <1>9 DEF TableTypes
  <2>2. \A p \in DOMAIN T \ {source} : T[p] \in Windows /\ T[p].started <= now
    BY <1>2, <1>9 DEF TableTypes
  <2> QED
    BY <1>4, <1>7, <1>8, <2>1, <2>2 DEF TableTypes
<1>11. CASE source \in DOMAIN Running
  BY <1>1, <1>6, <1>7, <1>8, <1>9, <1>10, <1>11 DEF T
<1>12. CASE source \notin DOMAIN Running
  <2>1. v.attempts = add
    BY <1>1, <1>3, <1>6, <1>7, <1>12
  <2> QED
    BY <1>1, <1>3, <1>6, <1>7, <1>8, <1>9, <1>10, <1>12, <2>1 DEF T
<1> QED
  BY <1>11, <1>12

LEMMA CountedMoves ==
    ASSUME LimiterTypes, NEW source \in LoginSources, NEW add \in {0, 1}, NEW t,
           t \in IF source \in DOMAIN Running THEN {Running} ELSE MakeSourceCapacity(Running),
           NEW S, S = (IF add = 1 THEN {source} ELSE {}),
           source \in DOMAIN Running =>
              (add = 1 => Running[source].attempts < PerSourceLimit),
           source \notin DOMAIN Running => add = 1
    PROVE  /\ TableTypes(Counted(t, source, now, add))
           /\ \A p \in LoginSources : SourceMoves(Counted(t, source, now, add), S, p)
<1> DEFINE T == Counted(t, source, now, add)
<1>1. /\ TableTypes(T)
      /\ \A p \in DOMAIN T \ {source} : p \in DOMAIN Running /\ T[p] = Running[p]
      /\ source \in DOMAIN T
      /\ source \in DOMAIN Running =>
           /\ T[source].started = Running[source].started
           /\ T[source].attempts = Running[source].attempts + add
      /\ source \notin DOMAIN Running => T[source].started = now /\ T[source].attempts = add
  BY CountedTable
<1> HIDE DEF T
<1>2. ASSUME NEW p \in LoginSources, p # source PROVE SourceMoves(T, S, p)
  <2>1. p \notin S
    BY <1>2
  <2> QED
    BY <1>1, <1>2, <2>1 DEF SourceMoves
<1>3. SourceMoves(T, S, source)
  <2>1. CASE source \notin DOMAIN Running
    BY <2>1, <1>1 DEF SourceMoves
  <2>2. CASE source \in DOMAIN Running /\ add = 1
    BY <2>2, <1>1 DEF SourceMoves
  <2>3. CASE source \in DOMAIN Running /\ add = 0
    <3>1. Running[source].attempts \in Nat
      BY <2>3, RunningTable DEF TableTypes, Windows
    <3>2. T[source].attempts = Running[source].attempts /\ source \notin S
      BY <2>3, <1>1, <3>1
    <3> QED
      BY <2>3, <1>1, <3>2 DEF SourceMoves
  <2> QED
    BY <2>1, <2>2, <2>3
<1> QED
  BY <1>1, <1>2, <1>3 DEF T

LEMMA RunningMoves ==
    ASSUME LimiterTypes
    PROVE  TableTypes(Running) /\ \A p : SourceMoves(Running, {}, p)
BY RunningTable DEF SourceMoves

\* The window of all sources after an attempt.
Passed(g) == [g EXCEPT !.attempts = @ + 1, !.seen = now]

\* An attempt that is refused, and one that is let through.
LEMMA Allowed ==
    ASSUME LimiterTypes, NEW source \in LoginSources, NEW countSource \in BOOLEAN,
           NEW res \in Allow(limiter, source, countSource, now)
    PROVE  LET global == ResetGlobal(limiter.global, now)
               T == res.limiter.sources
           IN /\ res.ok \in BOOLEAN
              /\ res.limiter = [global |-> res.limiter.global, sources |-> T]
              /\ TableTypes(T)
              /\ ~res.ok => /\ res.limiter.global = global
                            /\ \A p \in LoginSources : SourceMoves(T, {}, p)
              /\ res.ok => /\ res.limiter.global = Passed(global)
                           /\ ~(global.attempts >= GlobalLimit)
                           /\ \A p \in LoginSources :
                                SourceMoves(T, IF countSource THEN {source} ELSE {}, p)
<1> DEFINE global == ResetGlobal(limiter.global, now)
           known == source \in DOMAIN Running
           tables == IF ~countSource THEN {Running}
                     ELSE {Counted(t, source, now, 1) :
                             t \in IF known THEN {Running} ELSE MakeSourceCapacity(Running)}
<1>1. \/ res = [ok |-> FALSE, limiter |-> [global |-> global, sources |-> Running]]
      \/ /\ known /\ Running[source].attempts >= PerSourceLimit
         /\ res = [ok |-> FALSE, limiter |->
                     [global |-> global, sources |-> Counted(Running, source, now, 0)]]
      \/ /\ ~(global.attempts >= GlobalLimit)
         /\ ~(known /\ Running[source].attempts >= PerSourceLimit)
         /\ \E t \in tables :
              res = [ok |-> TRUE, limiter |-> [global |-> Passed(global), sources |-> t]]
  BY Zenon DEF Allow, Running, Passed
<1>2. CASE res = [ok |-> FALSE, limiter |-> [global |-> global, sources |-> Running]]
  <2>1. res.ok = FALSE /\ res.limiter = [global |-> global, sources |-> Running]
        /\ res.limiter.global = global /\ res.limiter.sources = Running
    BY <1>2
  <2> QED
    BY <2>1, RunningMoves
<1>3. CASE /\ known /\ Running[source].attempts >= PerSourceLimit
           /\ res = [ok |-> FALSE, limiter |->
                       [global |-> global, sources |-> Counted(Running, source, now, 0)]]
  <2> DEFINE T == Counted(Running, source, now, 0)
  <2>1. TableTypes(T) /\ \A p \in LoginSources : SourceMoves(T, {}, p)
    BY <1>3, CountedMoves
  <2> HIDE DEF T
  <2>2. res.ok = FALSE /\ res.limiter = [global |-> global, sources |-> T]
        /\ res.limiter.global = global /\ res.limiter.sources = T
    BY <1>3 DEF T
  <2> QED
    BY <2>1, <2>2
<1>4. CASE /\ ~(global.attempts >= GlobalLimit)
           /\ ~(known /\ Running[source].attempts >= PerSourceLimit)
           /\ \E t \in tables :
                res = [ok |-> TRUE, limiter |-> [global |-> Passed(global), sources |-> t]]
  <2>1. PICK T \in tables :
               res = [ok |-> TRUE, limiter |-> [global |-> Passed(global), sources |-> T]]
    BY <1>4
  <2>2. res.ok = TRUE /\ res.limiter = [global |-> Passed(global), sources |-> T]
        /\ res.limiter.global = Passed(global) /\ res.limiter.sources = T
    BY <2>1
  <2>3. /\ TableTypes(T)
        /\ \A p \in LoginSources : SourceMoves(T, IF countSource THEN {source} ELSE {}, p)
    <3>1. CASE ~countSource
      BY <3>1, RunningMoves
    <3>2. CASE countSource
      <4>1. PICK t \in IF known THEN {Running} ELSE MakeSourceCapacity(Running) :
                   T = Counted(t, source, now, 1)
        BY <3>2
      <4>2. known => Running[source].attempts < PerSourceLimit
        <5>1. known => Running[source].attempts \in Nat
          BY RunningTable DEF TableTypes, Windows
        <5> QED
          BY <1>4, <5>1, Limits
      <4>3. TableTypes(T) /\ \A p \in LoginSources : SourceMoves(T, {source}, p)
        BY <4>1, <4>2, CountedMoves
      <4> QED
        BY <3>2, <4>3
    <3> QED
      BY <3>1, <3>2
  <2> HIDE DEF global, tables
  <2> QED
    BY <1>4, <2>2, <2>3 DEF global
<1> QED
  BY <1>1, <1>2, <1>3, <1>4

\* A failure is counted where the callback comes from, up to the limit.
LEMMA Recorded ==
    ASSUME LimiterTypes, NEW source \in LoginSources,
           NEW l \in RecordFailure(limiter, source, now)
    PROVE  /\ l = [global |-> limiter.global, sources |-> l.sources]
           /\ TableTypes(l.sources)
           /\ \A p \in LoginSources : SourceMoves(l.sources, {source}, p)
                                      \/ SourceMoves(l.sources, {}, p)
<1> DEFINE known == source \in DOMAIN Running
           add == IF known /\ Running[source].attempts >= PerSourceLimit THEN 0 ELSE 1
<1>1. PICK t \in IF known THEN {Running} ELSE MakeSourceCapacity(Running) :
             l = [limiter EXCEPT !.sources = Counted(t, source, now, add)]
  BY Zenon DEF RecordFailure, Running
<1>2. PICK a \in {0, 1} : a = add
  OBVIOUS
<1>3. known => (a = 1 => Running[source].attempts < PerSourceLimit)
  <2>1. known => Running[source].attempts \in Nat
    BY RunningTable DEF TableTypes, Windows
  <2> QED
    BY <1>2, <2>1, Limits
<1>4. ~known => a = 1
  BY <1>2
<1>5. PICK T : T = Counted(t, source, now, a)
  OBVIOUS
<1>6. /\ TableTypes(T)
      /\ \A p \in LoginSources : SourceMoves(T, IF a = 1 THEN {source} ELSE {}, p)
  BY <1>1, <1>3, <1>4, <1>5, CountedMoves
<1>7. l = [limiter EXCEPT !.sources = T]
  BY <1>1, <1>2, <1>5
<1>8. limiter = [global |-> limiter.global, sources |-> limiter.sources]
  BY DEF LimiterTypes
<1>9. l = [global |-> limiter.global, sources |-> T] /\ l.sources = T
  BY <1>7, <1>8
<1> QED
  BY <1>6, <1>9

(* What a step does to the histories.                                       *)

LEMMA TriedCounts ==
    ASSUME LimiterTypes, now' = now, NEW S, Tried(S)
    PROVE  /\ tries' = [s \in LoginSources \cup {Everyone} |-> tries'[s]]
           /\ \A s \in LoginSources \cup {Everyone} :
                /\ tries'[s] = IF s \in Forgotten THEN Never
                               ELSE IF s \in S THEN OneMore(tries[s]) ELSE tries[s]
                /\ Counts(tries'[s], now)
           /\ Forgotten = DOMAIN Running \ DOMAIN limiter'.sources
           /\ Everyone \notin Forgotten
<1>1. DOMAIN tries = LoginSources \cup {Everyone} /\ now \in Times
  BY DEF LimiterTypes
<1>2. Forgotten = DOMAIN Running \ DOMAIN limiter'.sources
  BY DEF Forgotten, Running
<1>3. tries' = [s \in LoginSources \cup {Everyone} |->
                  IF s \in Forgotten THEN Never
                  ELSE IF s \in S THEN OneMore(tries[s]) ELSE tries[s]]
  BY <1>1 DEF Tried
<1>4. ASSUME NEW s \in LoginSources \cup {Everyone}
      PROVE  /\ tries'[s] = IF s \in Forgotten THEN Never
                            ELSE IF s \in S THEN OneMore(tries[s]) ELSE tries[s]
             /\ Counts(tries'[s], now)
  <2>1. tries'[s] = IF s \in Forgotten THEN Never
                    ELSE IF s \in S THEN OneMore(tries[s]) ELSE tries[s]
    BY <1>3
  <2>2. Counts(tries[s], now)
    BY DEF LimiterTypes
  <2>3. Counts(Never, now) /\ Counts(OneMore(tries[s]), now)
    BY <1>1, <2>2, NeverQuiet, MoreCounts
  <2> QED
    BY <2>1, <2>2, <2>3
<1>5. Everyone \notin Forgotten
  BY <1>2, RunningTable, Kinds DEF TableTypes
<1> QED
  BY <1>2, <1>3, <1>4, <1>5

\* A source of passwords follows its entry in the table.
LEMMA SourceFollows ==
    ASSUME AttemptInv, NEW p \in PasswordSources, NEW S, NEW T, SourceMoves(T, S, p),
           TableTypes(T), NEW h,
           h = IF p \in DOMAIN Running \ DOMAIN T THEN Never
               ELSE IF p \in S THEN OneMore(tries[p]) ELSE tries[p]
    PROVE  SourceBound(T, p, h, now)
<1> DEFINE f == tries[p]
<1>0. LimiterTypes
  BY DEF AttemptInv
<1>1. /\ SourceBound(Running, p, f, now) /\ Counts(f, now) /\ now \in Times /\ now \in Nat
      /\ p \in LoginSources
  BY RunningBound, Kinds, AtNow DEF AttemptInv
<1>2. CASE p \notin DOMAIN T /\ p \notin S
  <2>1. CASE p \in DOMAIN Running
    BY <1>1, <1>2, <2>1, NeverQuiet DEF SourceBound
  <2>2. CASE p \notin DOMAIN Running
    BY <1>1, <1>2, <2>2 DEF SourceBound
  <2> QED
    BY <2>1, <2>2
<1>3. CASE /\ p \in DOMAIN T /\ p \in DOMAIN Running
           /\ T[p].started = Running[p].started
           /\ IF p \in S THEN /\ T[p].attempts = Running[p].attempts + 1
                              /\ Running[p].attempts < PerSourceLimit
                         ELSE T[p].attempts = Running[p].attempts
  <2>1. /\ SourceWindow(f, Running[p], now) /\ Running[p] \in Windows /\ T[p] \in Windows
        /\ Running[p].started <= now /\ now - Running[p].started < Window
    BY <1>0, <1>1, <1>3, RunningTable DEF SourceBound, TableTypes
  <2>2. CASE p \in S
    <3>1. SourceWindow(OneMore(f), T[p], now)
      BY <1>1, <1>3, <2>1, <2>2, WindowCounts
    <3> QED
      BY <1>3, <2>2, <3>1 DEF SourceBound
  <2>3. CASE p \notin S
    <3>1. SourceWindow(f, T[p], now)
      BY <1>3, <2>1, <2>3 DEF SourceWindow, NotSince
    <3> QED
      BY <1>3, <2>3, <3>1 DEF SourceBound
  <2> QED
    BY <2>2, <2>3
<1>4. CASE /\ p \in DOMAIN T /\ p \notin DOMAIN Running /\ p \in S
           /\ T[p].started = now /\ T[p].attempts = 1
  <2>1. SourceQuiet(f, now) /\ T[p] \in Windows
    BY <1>1, <1>4 DEF SourceBound, TableTypes
  <2>2. SourceWindow(OneMore(f), T[p], now)
    BY <1>1, <1>4, <2>1, WindowOpens
  <2> QED
    BY <1>4, <2>2 DEF SourceBound
<1> QED
  BY <1>2, <1>3, <1>4 DEF SourceMoves

\* A step of the limiter: every source of passwords moves, attempts of other
\* sources are not counted for them, and the window of all goes on, is renewed,
\* or lets one more through.
LEMMA LimiterStep ==
    ASSUME AttemptInv, now' = now, NEW S, Tried(S), NEW g, NEW T,
           limiter' = [global |-> g, sources |-> T], TableTypes(T),
           \A p \in PasswordSources : SourceMoves(T, S, p),
           \A p \in OIDCSources : p \notin S,
           \/ Everyone \notin S /\ g \in {limiter.global, ResetGlobal(limiter.global, now)}
           \/ /\ Everyone \in S /\ g = Passed(ResetGlobal(limiter.global, now))
              /\ ~(ResetGlobal(limiter.global, now).attempts >= GlobalLimit)
    PROVE  AttemptInv'
<1>0. LimiterTypes
  BY DEF AttemptInv
<1>1. /\ tries' = [s \in LoginSources \cup {Everyone} |-> tries'[s]]
      /\ \A s \in LoginSources \cup {Everyone} :
           /\ tries'[s] = IF s \in Forgotten THEN Never
                          ELSE IF s \in S THEN OneMore(tries[s]) ELSE tries[s]
           /\ Counts(tries'[s], now)
      /\ Forgotten = DOMAIN Running \ DOMAIN T
      /\ Everyone \notin Forgotten
  <2>1. limiter'.sources = T
    OBVIOUS
  <2> QED
    BY <1>0, <2>1, TriedCounts
<1>2. now \in Times /\ now \in Nat
  BY <1>0, AtNow
<1>3. g \in Windows /\ GlobalBound(tries'[Everyone], g, now)
  <2> DEFINE f == tries[Everyone]
             h == ResetGlobal(limiter.global, now)
  <2>1. Counts(f, now) /\ limiter.global \in Windows /\ GlobalBound(f, limiter.global, now)
    BY <1>0, AtNow DEF AttemptInv, LimiterTypes
  <2>2. h \in Windows /\ h.on /\ now - h.started < Window /\ GlobalWindow(f, h, now)
    BY <1>2, <2>1, GlobalResets
  <2>3. tries'[Everyone] = IF Everyone \in S THEN OneMore(f) ELSE f
    BY <1>1
  <2> HIDE DEF h
  <2>4. CASE Everyone \notin S /\ g \in {limiter.global, h}
    BY <2>1, <2>2, <2>3, <2>4 DEF GlobalBound
  <2>5. CASE Everyone \in S /\ g = Passed(h) /\ ~(h.attempts >= GlobalLimit)
    <3>1. PICK n \in Nat : n = h.attempts
      BY <2>2 DEF Windows
    <3>2. PICK m \in Nat : m = n + 1
      OBVIOUS
    <3>3. g \in Windows /\ g.started = h.started /\ g.attempts = n + 1 /\ g.on = h.on
      <4>1. Passed(h) = [h EXCEPT !.attempts = m, !.seen = now]
        BY <3>1, <3>2 DEF Passed
      <4> QED
        BY <1>2, <2>2, <2>5, <3>2, <4>1 DEF Windows
    <3>4. h.attempts < GlobalLimit /\ g.attempts = h.attempts + 1
      BY <2>5, <3>1, <3>3, Limits
    <3>5. GlobalWindow(OneMore(f), g, now)
      BY <1>2, <2>1, <2>2, <3>3, <3>4, GlobalCounts
    <3> QED
      BY <2>2, <2>3, <2>5, <3>3, <3>5 DEF GlobalBound
  <2> QED
    BY <2>4, <2>5 DEF h
<1>4. ASSUME NEW p \in PasswordSources PROVE SourceBound(T, p, tries'[p], now)
  <2>1. tries'[p] = IF p \in DOMAIN Running \ DOMAIN T THEN Never
                    ELSE IF p \in S THEN OneMore(tries[p]) ELSE tries[p]
    BY <1>1, Kinds
  <2>2. PICK h : h = tries'[p]
    OBVIOUS
  <2>3. SourceBound(T, p, h, now)
    BY <2>1, <2>2, SourceFollows
  <2> QED
    BY <2>2, <2>3
<1>5. ASSUME NEW p \in OIDCSources PROVE tries'[p][now] = 0
  <2>1. p \notin S /\ tries[p][now] = 0 /\ Never[now] = 0 /\ p \in LoginSources
    BY <1>2, NeverQuiet, Kinds DEF AttemptInv
  <2> QED
    BY <1>1, <2>1
<1>6. limiter'.global = g /\ limiter'.sources = T
  OBVIOUS
<1>7. LimiterTypes'
  BY <1>1, <1>2, <1>3, <1>6 DEF LimiterTypes, TableTypes
<1> QED
  BY <1>3, <1>4, <1>5, <1>6, <1>7 DEF AttemptInv

\* A step that leaves the limiter alone, or takes an OIDC source out.
LEMMA ForgetStep ==
    ASSUME AttemptInv, now' = now, Tried({}), NEW source \in OIDCSources,
           limiter' = limiter \/ limiter' = ResetSource(limiter, source)
    PROVE  AttemptInv'
<1>0. LimiterTypes
  BY DEF AttemptInv
<1>1. limiter = [global |-> limiter.global, sources |-> limiter.sources]
  BY <1>0 DEF LimiterTypes
<1>2. PICK T : T = limiter'.sources
  OBVIOUS
<1>3. /\ limiter' = [global |-> limiter.global, sources |-> T]
      /\ limiter'.global = limiter.global
      /\ T = limiter.sources \/ T = Drop(limiter.sources, {source})
  <2>1. CASE limiter' = limiter
    BY <1>1, <1>2, <2>1
  <2>2. CASE limiter' = ResetSource(limiter, source)
    <3>1. PICK D : D = Drop(limiter.sources, {source})
      OBVIOUS
    <3>2. limiter' = [limiter EXCEPT !.sources = D]
      BY <2>2, <3>1 DEF ResetSource
    <3> QED
      BY <1>1, <1>2, <3>1, <3>2
  <2> QED
    BY <2>1, <2>2
<1>4. /\ DOMAIN T \subseteq DOMAIN limiter.sources
      /\ \A p \in DOMAIN T : T[p] = limiter.sources[p]
      /\ \A p \in DOMAIN limiter.sources : p # source => p \in DOMAIN T
  <2> DEFINE D == Drop(limiter.sources, {source})
  <2>1. /\ DOMAIN D = DOMAIN limiter.sources \ {source}
        /\ \A p \in DOMAIN limiter.sources \ {source} : D[p] = limiter.sources[p]
    BY Dropped
  <2> HIDE DEF D
  <2> QED
    BY <1>3, <2>1 DEF D
<1>5. /\ tries' = [s \in LoginSources \cup {Everyone} |-> tries'[s]]
      /\ \A s \in LoginSources \cup {Everyone} :
           /\ tries'[s] = IF s \in Forgotten THEN Never ELSE tries[s]
           /\ Counts(tries'[s], now)
      /\ Forgotten = DOMAIN Running \ DOMAIN T
      /\ Everyone \notin Forgotten
  BY <1>0, <1>2, TriedCounts
<1>6. Forgotten \subseteq {source}
  BY <1>0, <1>4, <1>5, RunningTable
<1>7. LimiterTypes'
  <2>1. \A s \in DOMAIN T : T[s] \in Windows /\ T[s].started <= now
    BY <1>0, <1>4 DEF LimiterTypes
  <2>2. DOMAIN T \subseteq LoginSources /\ now \in Times /\ limiter.global \in Windows
    BY <1>0, <1>4 DEF LimiterTypes
  <2> QED
    BY <1>2, <1>3, <1>5, <2>1, <2>2 DEF LimiterTypes
<1>8. ASSUME NEW p \in PasswordSources
      PROVE  SourceBound(limiter'.sources, p, tries'[p], now)
  <2>1. p # source /\ p \in LoginSources
    BY Kinds
  <2>2. tries'[p] = tries[p]
    BY <1>5, <1>6, <2>1
  <2>3. SourceBound(limiter.sources, p, tries[p], now)
    BY DEF AttemptInv
  <2> QED
    BY <1>2, <1>4, <2>1, <2>2, <2>3 DEF SourceBound
<1>9. ASSUME NEW p \in OIDCSources PROVE tries'[p][now] = 0
  <2>1. now \in Times /\ tries[p][now] = 0 /\ p \in LoginSources
    BY <1>0, Kinds, AtNow DEF AttemptInv
  <2>2. Never[now] = 0
    BY <2>1, NeverQuiet
  <2> QED
    BY <1>5, <2>1, <2>2
<1>10. GlobalBound(tries'[Everyone], limiter'.global, now)
  BY <1>3, <1>5 DEF AttemptInv
<1> QED
  BY <1>7, <1>8, <1>9, <1>10 DEF AttemptInv

LEMMA ClockStep ==
    ASSUME AttemptInv, now < MaxNow, now' = now + 1, UNCHANGED <<limiter, tries>>
    PROVE  AttemptInv'
<1>0. LimiterTypes
  BY DEF AttemptInv
<1>1. PICK n \in Times : n = now
  BY <1>0 DEF LimiterTypes
<1>2. n \in Nat /\ n + 1 \in Times /\ n + 1 \in Nat
  BY <1>1, Limits DEF Times
<1>3. now' = n + 1
  BY <1>1
<1>4. ASSUME NEW s \in LoginSources \cup {Everyone}
      PROVE  Counts(tries[s], n) /\ Counts(tries[s], n + 1) /\ tries[s][n + 1] = tries[s][n]
  BY <1>0, <1>1, <1>2, CountsLater DEF LimiterTypes
<1>5. LimiterTypes'
  <2>1. /\ limiter = [global |-> limiter.global, sources |-> limiter.sources]
        /\ limiter.global \in Windows /\ DOMAIN limiter.sources \subseteq LoginSources
        /\ tries = [s \in LoginSources \cup {Everyone} |-> tries[s]]
    BY <1>0 DEF LimiterTypes
  <2>2. ASSUME NEW s \in DOMAIN limiter.sources
        PROVE  limiter.sources[s] \in Windows /\ limiter.sources[s].started <= n + 1
    <3>1. limiter.sources[s] \in Windows /\ limiter.sources[s].started <= n
      BY <1>0, <1>1 DEF LimiterTypes
    <3>2. limiter.sources[s].started \in Nat
      BY <3>1 DEF Windows
    <3> QED
      BY <1>2, <3>1, <3>2
  <2> QED
    BY <1>2, <1>3, <1>4, <2>1, <2>2 DEF LimiterTypes
<1>6. ASSUME NEW p \in PasswordSources
      PROVE  SourceBound(limiter.sources, p, tries[p], n + 1)
  <2>1. SourceBound(limiter.sources, p, tries[p], n) /\ Counts(tries[p], n)
    BY <1>1, <1>4, Kinds DEF AttemptInv
  <2>2. CASE p \in DOMAIN limiter.sources
    <3>1. limiter.sources[p] \in Windows /\ limiter.sources[p].started <= n
      BY <1>0, <1>1, <2>2 DEF LimiterTypes
    <3> QED
      BY <1>2, <2>1, <2>2, <3>1, WindowLater DEF SourceBound
  <2>3. CASE p \notin DOMAIN limiter.sources
    BY <1>2, <2>1, <2>3, QuietLater DEF SourceBound
  <2> QED
    BY <2>2, <2>3
<1>7. ASSUME NEW p \in OIDCSources PROVE tries[p][n + 1] = 0
  BY <1>1, <1>4, Kinds DEF AttemptInv
<1>8. GlobalBound(tries[Everyone], limiter.global, n + 1)
  <2>1. GlobalBound(tries[Everyone], limiter.global, n) /\ limiter.global \in Windows
    BY <1>0, <1>1 DEF AttemptInv, LimiterTypes
  <2> QED
    BY <1>2, <1>4, <2>1, GlobalLater
<1> QED
  BY <1>3, <1>5, <1>6, <1>7, <1>8 DEF AttemptInv

\* A process that starts has a limiter that was never used.
LEMMA FreshLimiter ==
    ASSUME now \in Times, limiter = NewLimiter, tries = NoTries
    PROVE  AttemptInv
<1>1. now \in Times /\ now \in Nat
  BY Limits DEF Times
<1>2. /\ limiter.sources = << >> /\ limiter.global = [on |-> FALSE, started |-> 0, seen |-> 0, attempts |-> 0]
      /\ limiter = [global |-> limiter.global, sources |-> limiter.sources]
  BY DEF NewLimiter
<1>3. DOMAIN limiter.sources = {} /\ limiter.global \in Windows /\ ~limiter.global.on
  BY <1>2 DEF Windows
<1>4. /\ \A s \in LoginSources \cup {Everyone} : tries[s] = Never
      /\ tries = [s \in LoginSources \cup {Everyone} |-> tries[s]]
  BY DEF NoTries
<1>5. Counts(Never, now) /\ Never[now] = 0 /\ SourceQuiet(Never, now)
  BY <1>1, NeverQuiet
<1>6. LimiterTypes
  BY <1>1, <1>2, <1>3, <1>4, <1>5 DEF LimiterTypes
<1> QED
  BY <1>3, <1>4, <1>5, <1>6, Kinds DEF AttemptInv, SourceBound, GlobalBound

(* The handlers.                                                            *)

LEMMA LoginAttempt ==
    ASSUME AttemptInv, NEW ip \in IPs, NEW embed, NEW role, NEW key, NEW right,
           Login(ip, embed, role, key, right)
    PROVE  AttemptInv'
<1> DEFINE source == PasswordSource(ip)
<1>0. LimiterTypes
  BY DEF AttemptInv
<1>1. source \in PasswordSources /\ source \in LoginSources /\ source # Everyone
  BY Kinds DEF PasswordSources
<1>2. now' = now
  BY DEF Login, CreateSession, vars
<1> HIDE DEF source
<1>3. PICK res \in Allow(limiter, source, TRUE, now) :
             \/ /\ ~res.ok \/ ~right
                /\ limiter' = res.limiter
                /\ Tried(IF res.ok THEN {source, Everyone} ELSE {})
             \/ /\ res.ok /\ right
                /\ limiter' = ResetSource(res.limiter, source)
                /\ Tried({Everyone})
  BY DEF Login, source
<1> DEFINE global == ResetGlobal(limiter.global, now)
<1>4. PICK T : T = res.limiter.sources
  OBVIOUS
<1>5. PICK g : g = res.limiter.global
  OBVIOUS
<1>6. /\ res.ok \in BOOLEAN /\ res.limiter = [global |-> g, sources |-> T] /\ TableTypes(T)
      /\ ~res.ok => g = global /\ \A p \in LoginSources : SourceMoves(T, {}, p)
      /\ res.ok => /\ g = Passed(global) /\ ~(global.attempts >= GlobalLimit)
                   /\ \A p \in LoginSources : SourceMoves(T, {source}, p)
  BY <1>0, <1>1, <1>3, <1>4, <1>5, Allowed
<1> HIDE DEF global
<1>7. CASE ~res.ok /\ limiter' = res.limiter /\ Tried({})
  <2>1. \A p \in PasswordSources : SourceMoves(T, {}, p)
    BY <1>6, <1>7, Kinds
  <2>2. Everyone \notin {} /\ g \in {limiter.global, ResetGlobal(limiter.global, now)}
    BY <1>6, <1>7 DEF global
  <2>3. limiter' = [global |-> g, sources |-> T] /\ Tried({}) /\ TableTypes(T)
    BY <1>6, <1>7
  <2>4. \A p \in OIDCSources : p \notin {}
    OBVIOUS
  <2> QED
    BY <1>2, <2>1, <2>2, <2>3, <2>4, LimiterStep
<1>8. CASE res.ok /\ limiter' = res.limiter /\ Tried({source, Everyone})
  <2>1. \A p \in PasswordSources : SourceMoves(T, {source, Everyone}, p)
    BY <1>6, <1>8, Kinds DEF SourceMoves
  <2>2. /\ Everyone \in {source, Everyone} /\ g = Passed(ResetGlobal(limiter.global, now))
        /\ ~(ResetGlobal(limiter.global, now).attempts >= GlobalLimit)
    BY <1>6, <1>8 DEF global
  <2>3. limiter' = [global |-> g, sources |-> T] /\ Tried({source, Everyone}) /\ TableTypes(T)
    BY <1>6, <1>8
  <2>4. \A p \in OIDCSources : p \notin {source, Everyone}
    BY <1>1, Kinds
  <2> QED
    BY <1>2, <2>1, <2>2, <2>3, <2>4, LimiterStep
<1>9. CASE res.ok /\ limiter' = ResetSource(res.limiter, source) /\ Tried({Everyone})
  <2>1. PICK D : D = Drop(T, {source})
    OBVIOUS
  <2>2. DOMAIN D = DOMAIN T \ {source} /\ \A p \in DOMAIN T \ {source} : D[p] = T[p]
    BY <2>1, Dropped
  <2>3. limiter' = [global |-> g, sources |-> D]
    <3>1. res.limiter.sources = T
      BY <1>4
    <3>2. limiter' = [res.limiter EXCEPT !.sources = D]
      BY <1>9, <2>1, <3>1 DEF ResetSource
    <3> QED
      BY <1>6, <3>2
  <2>4. TableTypes(D)
    BY <1>6, <2>2 DEF TableTypes
  <2>5. \A p \in PasswordSources : SourceMoves(D, {Everyone}, p)
    <3>1. ASSUME NEW p \in PasswordSources PROVE SourceMoves(D, {Everyone}, p)
      <4>1. SourceMoves(T, {source}, p) /\ p # Everyone
        BY <1>6, <1>9, Kinds
      <4> QED
        BY <2>2, <4>1 DEF SourceMoves
    <3> QED
      BY <3>1
  <2>6. /\ Everyone \in {Everyone} /\ g = Passed(ResetGlobal(limiter.global, now))
        /\ ~(ResetGlobal(limiter.global, now).attempts >= GlobalLimit)
    BY <1>6, <1>9 DEF global
  <2>7. \A p \in OIDCSources : p \notin {Everyone}
    BY Kinds
  <2> QED
    BY <1>2, <1>9, <2>3, <2>4, <2>5, <2>6, <2>7, LimiterStep
<1> QED
  BY <1>3, <1>6, <1>7, <1>8, <1>9

LEMMA BeginAttempt ==
    ASSUME AttemptInv, NEW b, NEW ip \in IPs, NEW valid, BeginLogin(b, ip, valid)
    PROVE  AttemptInv'
<1>0. LimiterTypes
  BY DEF AttemptInv
<1>1. OIDCSource(ip) \in LoginSources /\ now' = now
  BY DEF LoginSources, BeginLogin, vars
<1>2. PICK res \in Allow(limiter, OIDCSource(ip), FALSE, now) :
             limiter' = res.limiter /\ Tried(IF res.ok THEN {Everyone} ELSE {})
  BY DEF BeginLogin
<1> DEFINE global == ResetGlobal(limiter.global, now)
<1>3. PICK T : T = res.limiter.sources
  OBVIOUS
<1>4. PICK g : g = res.limiter.global
  OBVIOUS
<1>5. /\ res.ok \in BOOLEAN /\ res.limiter = [global |-> g, sources |-> T] /\ TableTypes(T)
      /\ ~res.ok => g = global /\ \A p \in LoginSources : SourceMoves(T, {}, p)
      /\ res.ok => /\ g = Passed(global) /\ ~(global.attempts >= GlobalLimit)
                   /\ \A p \in LoginSources : SourceMoves(T, {}, p)
  BY <1>0, <1>1, <1>2, <1>3, <1>4, Allowed
<1>6. \A p \in PasswordSources : SourceMoves(T, {}, p) /\ SourceMoves(T, {Everyone}, p)
  BY <1>5, Kinds DEF SourceMoves
<1>7. \A p \in OIDCSources : p \notin {} /\ p \notin {Everyone}
  BY Kinds
<1>8. CASE res.ok
  <2>1. /\ Everyone \in {Everyone} /\ g = Passed(ResetGlobal(limiter.global, now))
        /\ ~(ResetGlobal(limiter.global, now).attempts >= GlobalLimit)
    BY <1>5, <1>8
  <2>2. Tried({Everyone}) /\ limiter' = [global |-> g, sources |-> T] /\ TableTypes(T)
    BY <1>2, <1>5, <1>8
  <2> QED
    BY <1>1, <1>6, <1>7, <2>1, <2>2, LimiterStep
<1>9. CASE ~res.ok
  <2>1. Everyone \notin {} /\ g \in {limiter.global, ResetGlobal(limiter.global, now)}
    BY <1>5, <1>9
  <2>2. Tried({}) /\ limiter' = [global |-> g, sources |-> T] /\ TableTypes(T)
    BY <1>2, <1>5, <1>9
  <2> QED
    BY <1>1, <1>6, <1>7, <2>1, <2>2, LimiterStep
<1> QED
  BY <1>8, <1>9

\* A callback that fails counts where its login began.
LEMMA FailedAttempt ==
    ASSUME AttemptInv, now' = now, Tried({}), NEW source \in OIDCSources,
           limiter' \in RecordFailure(limiter, source, now)
    PROVE  AttemptInv'
<1>0. LimiterTypes /\ source \in LoginSources
  BY Kinds DEF AttemptInv
<1>1. PICK l \in RecordFailure(limiter, source, now) : l = limiter'
  OBVIOUS
<1>2. PICK T : T = l.sources
  OBVIOUS
<1>3. /\ l = [global |-> limiter.global, sources |-> T] /\ TableTypes(T)
      /\ \A p \in LoginSources : SourceMoves(T, {source}, p) \/ SourceMoves(T, {}, p)
  BY <1>0, <1>2, Recorded
<1>4. ASSUME NEW p \in PasswordSources PROVE SourceMoves(T, {}, p)
  <2>1. p # source /\ p \in LoginSources
    BY Kinds
  <2> QED
    BY <1>3, <2>1 DEF SourceMoves
<1>5. /\ Everyone \notin {} /\ limiter.global \in {limiter.global, ResetGlobal(limiter.global, now)}
      /\ \A p \in OIDCSources : p \notin {}
      /\ limiter' = [global |-> limiter.global, sources |-> T]
  BY <1>1, <1>3
<1> QED
  BY <1>3, <1>4, <1>5, LimiterStep

\* Time passes only in a step of its own.
LEMMA ClockMoves ==
    ASSUME RequestStep
    PROVE  now' = now \/ (now < MaxNow /\ now' = now + 1)
<1>1. ASSUME NEW r, NEW e, NEW c, NEW h, NEW ip,
             GetSession(r, e, c, h, ip) \/ \E role \in Roles : RoleMiddleware(r, e, c, h, ip, role)
      PROVE  now' = now
  <2>1. CASE GetSession(r, e, c, h, ip)
    BY <2>1 DEF GetSession, ResolveSession
  <2>2. ASSUME NEW role, RoleMiddleware(r, e, c, h, ip, role) PROVE now' = now
    BY <2>2 DEF RoleMiddleware, ResolveSession
  <2> QED
    BY <1>1, <2>1, <2>2
<1>2. ASSUME NEW r, TouchGet(r) \/ TouchUpdate(r) \/ Serve(r) PROVE now' = now
  BY <1>2 DEF TouchGet, TouchUpdate, Serve
<1>3. ASSUME NEW e, NEW c, NEW h, Logout(e, c, h) PROVE now' = now
  BY <1>3 DEF Logout
<1>4. ASSUME NEW t, RevokeManagedSession(t) \/ \E alias \in Aliases : UpdateManagedSessionAlias(t, alias)
      PROVE  now' = now
  BY <1>4 DEF RevokeManagedSession, UpdateManagedSessionAlias
<1>5. ASSUME NEW role, DeleteByRole(role) PROVE now' = now
  BY <1>5 DEF DeleteByRole
<1>6. ASSUME CleanupExpired \/ WriterTake \/ WriterWrite PROVE now' = now
  BY <1>6 DEF CleanupExpired, WriterTake, WriterWrite
<1>7. ASSUME NEW listed, SyncKeys(listed) PROVE now' = now
  BY <1>7 DEF SyncKeys
<1> QED
  BY <1>1, <1>2, <1>3, <1>4, <1>5, <1>6, <1>7 DEF RequestStep, Tick

LEMMA AttemptStep ==
    ASSUME AttemptInv, LoginInv, [LoginNext]_<<vars, loginVars>>
    PROVE  AttemptInv'
<1>1. CASE UNCHANGED <<now, limiter, tries>>
  BY <1>1 DEF AttemptInv, LimiterTypes
<1>2. CASE RequestStep /\ UNCHANGED loginVars
  <2>1. UNCHANGED <<limiter, tries>>
    BY <1>2 DEF loginVars
  <2> QED
    BY <1>1, <1>2, <2>1, ClockMoves, ClockStep
<1>3. ASSUME NEW ip \in IPs, NEW embed, NEW role, NEW key, NEW right,
             Login(ip, embed, role, key, right)
      PROVE  AttemptInv'
  BY <1>3, LoginAttempt
<1>4. ASSUME NEW b \in Browsers, NEW ip \in IPs, NEW valid, BeginLogin(b, ip, valid)
      PROVE  AttemptInv'
  BY <1>4, BeginAttempt
<1>5. ASSUME NEW b \in Browsers, GetProvider(b) \/ CancelLogin(b) \/ CreateTransaction(b)
      PROVE  AttemptInv'
  BY <1>1, <1>5 DEF GetProvider, CancelLogin, CreateTransaction, vars
<1>6. ASSUME NEW d, NEW h, RefreshProvider(d, h) PROVE AttemptInv'
  BY <1>1, <1>6 DEF RefreshProvider, vars
<1>7. ASSUME NEW b \in Browsers, NEW s \in States, NEW answer, Callback(b, s, answer)
      PROVE  AttemptInv'
  <2>1. now' = now /\ Tried({})
    BY <1>7 DEF Callback, vars
  <2>2. CASE limiter' = limiter
    BY <2>1, <2>2, ForgetStep, AuthAssumption DEF OIDCSources
  <2>3. CASE Bound(b, s) /\ limiter' \in RecordFailure(limiter, txns[s].source, now)
    <3>1. txns[s].source \in OIDCSources
      BY <2>3 DEF Bound, LoginInv, LoginTypes, Transactions
    <3> QED
      BY <2>1, <2>3, <3>1, FailedAttempt
  <2> QED
    BY <1>7, <2>2, <2>3 DEF Callback
<1>8. ASSUME NEW b \in Browsers, NEW v, NEW subject, Exchange(b, v, subject)
      PROVE  AttemptInv'
  <2>1. now' = now /\ Tried({}) /\ login[b].source \in OIDCSources
    BY <1>8 DEF Exchange, CreateSession, vars, LoginInv, LoginKnows
  <2>2. CASE limiter' = limiter
    BY <2>1, <2>2, ForgetStep
  <2>3. CASE limiter' = ResetSource(limiter, login[b].source)
    BY <2>1, <2>3, ForgetStep
  <2>4. CASE limiter' \in RecordFailure(limiter, login[b].source, now)
    BY <2>1, <2>4, FailedAttempt
  <2> QED
    BY <1>8, <2>2, <2>3, <2>4 DEF Exchange
<1>9. CASE Restart
  <2>1. now' = now /\ limiter' = NewLimiter /\ tries' = NoTries /\ now \in Times
    BY <1>9 DEF Restart, RestartSessions, AttemptInv, LimiterTypes
  <2>2. (now \in Times /\ limiter = NewLimiter /\ tries = NoTries)' => AttemptInv'
    BY FreshLimiter, PTL
  <2> QED
    BY <2>1, <2>2
<1>10. CASE UNCHANGED <<vars, loginVars>>
  BY <1>1, <1>10 DEF vars, loginVars
<1> QED
  BY <1>2, <1>3, <1>4, <1>5, <1>6, <1>7, <1>8, <1>9, <1>10
  DEF LoginNext, OIDCStep, PasswordLogin, APIKeyLogin
-----------------------------------------------------------------------------
\* The invariant: a copy in the cache has its row, and what the cache, the
\* pending updates, the writer and the table know of a session's activity is
\* ordered in this way.
THEOREM Inductive == SessionsSpec => []IInv
<1>1. Init => IInv
  BY Starts DEF IInv
<1>2. IInv /\ [SessionsNext]_vars => IInv'
  BY NextStep DEF IInv
<1> QED
  BY <1>1, <1>2, PTL DEF SessionsSpec

\* Every variable keeps its type.
THEOREM TypeCorrect == SessionsSpec => []TypeOK
<1>1. IInv => TypeOK
  BY DEF IInv, SessionsInv, TypeOK
<1> QED
  BY <1>1, Inductive, PTL

\* Cache, table, pending updates and the administrator's list are one store to
\* whoever uses them: what was revoked stays so, nothing that is accepted is
\* hidden, and no activity is left behind (SessionManager).
THEOREM OneStore == SessionsSpec => []SessionsAgree
<1>1. IInv => SessionsAgree
  BY Agreeing DEF IInv
<1> QED
  BY <1>1, Inductive, PTL

\* The login handlers use the session manager only as SessionsSpec describes it,
\* so that what is proved of the sessions holds with the logins (api/auth.go,
\* api/auth_oidc.go).
THEOREM LoginsUseSessions == LoginSpec => SessionsSpec
<1>1. LoginInit => Init
  BY DEF LoginInit
<1> QED
  BY <1>1, LoginMaps, PTL DEF LoginSpec, SessionsSpec

\* An OIDC login gives at most one session, to the browser that began it, and
\* nobody else's callback uses it up (TransactionStore, Complete).
THEOREM OwnLogin == LoginSpec => LoginIsOnes
<1>1. LoginInit => LoginInv
  BY LoginStarts
<1>2. IInv /\ LoginInv /\ [LoginNext]_<<vars, loginVars>> => LoginInv'
  BY LoginStep DEF IInv, SessionsInv
<1> DEFINE Own == /\ OneSessionPerLogin'
                  /\ \A s \in States :
                       (txns[s] # None /\ txns'[s] = None /\ txns[s].exp > now
                          /\ restarts' = restarts) => taken'[s] = txns[s].browser
<1>3. IInv /\ LoginInv /\ LoginInv' /\ [LoginNext]_<<vars, loginVars>> => Own
  BY TakenByOwner DEF IInv, SessionsInv, LoginInv
<1>4. LoginIsOnes <=> [][Own]_<<vars, loginVars>>
  BY DEF LoginIsOnes
<1> HIDE DEF Own
<1> QED
  BY <1>1, <1>2, <1>3, <1>4, Inductive, LoginsUseSessions, PTL DEF LoginSpec

\* The login handlers let through at most twice a limit within any window's
\* length, whatever clients, sources and clocks do: the windows of the limiter
\* count exactly what the attempts' history says since they opened (allow).
THEOREM AttemptsLimited == LoginSpec => []AttemptBound
<1>1. LoginInit => AttemptInv
  <2>1. LoginInit => now \in Times /\ limiter = NewLimiter /\ tries = NoTries
    BY Limits DEF LoginInit, Init, Times
  <2> QED
    BY <2>1, FreshLimiter
<1>2. LoginInit => LoginInv
  BY LoginStarts
<1>3. IInv /\ LoginInv /\ [LoginNext]_<<vars, loginVars>> => LoginInv'
  BY LoginStep DEF IInv, SessionsInv
<1>4. AttemptInv /\ LoginInv /\ [LoginNext]_<<vars, loginVars>> => AttemptInv'
  BY AttemptStep
<1>5. AttemptInv => AttemptBound
  BY Bounding
<1> QED
  BY <1>1, <1>2, <1>3, <1>4, <1>5, Inductive, LoginsUseSessions, PTL DEF LoginSpec
====
