------------------------------ MODULE AuthLogin ------------------------------
(***************************************************************************)
(* The login handlers (api/auth.go, api/auth_oidc.go) over the session     *)
(* manager, the attempt limiter and the OIDC client (oidc/): a browser     *)
(* begins a login, which waits for the provider's discovery document and   *)
(* opens a transaction bound to that browser by a cookie; the callback     *)
(* consumes the transaction, waits again, exchanges the code and creates   *)
(* the session.  Discovery is one flight shared by all who wait, with a    *)
(* pause after a failure.                                                  *)
(*                                                                         *)
(* Signatures, nonces and claims are one verdict of the exchange; a        *)
(* binding secret is the browser that holds it.                            *)
(***************************************************************************)
EXTENDS AuthSessions, Integers, Functions

CONSTANTS Window,          \* length of a window in ticks
          PerSourceLimit,  \* attempts of one source per window
          GlobalLimit,     \* attempts of all sources per window
          MaxSources       \* entries of the source table

ASSUME LimiterAssumption ==
    {Window, PerSourceLimit, GlobalLimit, MaxSources} \subseteq Nat \ {0}

CONSTANTS Browsers,        \* browsers that log in with OIDC
          States,          \* transactions that may be created
          TransactionTTL, Capacity, BrowserCapacity,  \* limits of the transaction store
          DiscoveryTTL, DiscoveryBackoff              \* limits of the discovery cache

ASSUME OIDCAssumption ==
    {TransactionTTL, Capacity, BrowserCapacity, DiscoveryTTL, DiscoveryBackoff} \subseteq Nat \ {0}

\* "" is no state.
ASSUME NoLoginAssumption == None \notin States

-----------------------------------------------------------------------------
(* The login attempt limiter (auth/login_limiter.go): one fixed window for *)
(* all sources together and one for each source, in a table of bounded     *)
(* size.  Everything runs under the limiter's mutex, so an operation is a  *)
(* function of the limiter's value; Allow yields a set of results because  *)
(* the walk over a Go map picks any of the sources seen equally long ago   *)
(* when the table is full.                                                 *)

\* A window of attempts; the zero time of a limiter that was never used is
\* the only one with started = FALSE.
NewWindow(at) == [on |-> TRUE, started |-> at, seen |-> at, attempts |-> 0]
NewLimiter == [global  |-> [on |-> FALSE, started |-> 0, seen |-> 0, attempts |-> 0],
               sources |-> << >>]

Drop(f, S) == Restrict(f, DOMAIN f \ S)
Put(f, x, v) == [y \in DOMAIN f \cup {x} |-> IF y = x THEN v ELSE f[y]]

\* resetGlobalWindowLocked and removeExpiredSourcesLocked.
ResetGlobal(g, at) ==
    IF ~g.on \/ at - g.started >= Window THEN NewWindow(at) ELSE g
RemoveExpired(sources, at) ==
    Drop(sources, {s \in DOMAIN sources : at - sources[s].started >= Window})

\* makeSourceCapacityLocked: the tables it may leave.
MakeSourceCapacity(sources) ==
    IF Cardinality(DOMAIN sources) < MaxSources THEN {sources}
    ELSE {Drop(sources, {s}) : s \in {x \in DOMAIN sources :
             \A y \in DOMAIN sources : sources[x].seen <= sources[y].seen}}

\* The entry of a source after one more attempt, in the table `sources`.
Counted(sources, source, at, add) ==
    LET w == IF source \in DOMAIN sources THEN sources[source] ELSE NewWindow(at)
    IN Put(sources, source, [w EXCEPT !.attempts = @ + add, !.seen = at])

\* allow: Allow counts the source at once, AllowPending (countSource = FALSE)
\* leaves that to RecordFailure.
Allow(l, source, countSource, at) ==
    LET global  == ResetGlobal(l.global, at)
        sources == RemoveExpired(l.sources, at)
        known   == source \in DOMAIN sources
        passed  == [global EXCEPT !.attempts = @ + 1, !.seen = at]
        tables  == IF ~countSource THEN {sources}
                   ELSE {Counted(t, source, at, 1) :
                           t \in IF known THEN {sources} ELSE MakeSourceCapacity(sources)}
    IN IF global.attempts >= GlobalLimit
       THEN {[ok |-> FALSE, limiter |-> [global |-> global, sources |-> sources]]}
       ELSE IF known /\ sources[source].attempts >= PerSourceLimit
       THEN {[ok |-> FALSE, limiter |->
               [global |-> global, sources |-> Counted(sources, source, at, 0)]]}
       ELSE {[ok |-> TRUE, limiter |-> [global |-> passed, sources |-> t]] : t \in tables}

\* RecordFailure: the source's count saturates at the limit.
RecordFailure(l, source, at) ==
    LET sources == RemoveExpired(l.sources, at)
        known   == source \in DOMAIN sources
        add     == IF known /\ sources[source].attempts >= PerSourceLimit THEN 0 ELSE 1
    IN {[l EXCEPT !.sources = Counted(t, source, at, add)] :
          t \in IF known THEN {sources} ELSE MakeSourceCapacity(sources)}

\* Reset: a login that succeeded forgets the source.
ResetSource(l, source) == [l EXCEPT !.sources = Drop(@, {source})]
-----------------------------------------------------------------------------
VARIABLES
    limiter,   \* h.loginAttempts
    provider,  \* the discovery cache: valid until, in flight, no retry before
    txns,      \* TransactionStore.items: state -> transaction or None
    jar,       \* browser -> states whose binding cookie it holds
    login,     \* browser -> its OIDC request in progress
    opened,    \* states drawn so far
    minted,    \* history: <<state, browser>> for every OIDC session created, in order
    owner,     \* history: state -> the browser that began it
    taken,     \* history: state -> the browser whose callback took it out before it expired
    tries      \* history: source -> time -> attempts let through by then, since it was last forgotten

oidcVars == <<provider, txns, jar, login, opened, minted, owner, taken>>
loginVars == <<limiter, provider, txns, jar, login, opened, minted, owner, taken, tries>>

NoLogin == [pc |-> "idle", wait |-> FALSE, source |-> None, state |-> None]
NoProvider == [until |-> 0, flight |-> FALSE, retryAt |-> 0]
PasswordSource(ip) == <<"password", ip>>
OIDCSource(ip) == <<"oidc", ip>>
Everyone == <<"all", None>>
LoginSources == {PasswordSource(ip) : ip \in IPs} \cup {OIDCSource(ip) : ip \in IPs}

Never == [t \in 0..MaxNow |-> 0]
NoTries == [s \in LoginSources \cup {Everyone} |-> Never]

LoginInit ==
    /\ Init /\ limiter = NewLimiter /\ provider = NoProvider
    /\ txns = [s \in States |-> None] /\ jar = [b \in Browsers |-> {}]
    /\ login = [b \in Browsers |-> NoLogin] /\ opened = {}
    /\ minted = <<>> /\ owner = [s \in States |-> None]
    /\ taken = [s \in States |-> None] /\ tries = NoTries

\* Sources the limiter forgets in this step although their window runs on.
Forgotten == DOMAIN RemoveExpired(limiter.sources, now) \ DOMAIN limiter'.sources

\* The history follows an attempt that was let through.
OneMore(f) == [t \in 0..MaxNow |-> IF t >= now THEN f[t] + 1 ELSE f[t]]
Tried(S) == tries' = [s \in DOMAIN tries |->
                        IF s \in Forgotten THEN Never
                        ELSE IF s \in S THEN OneMore(tries[s]) ELSE tries[s]]

\* Variant with a fault: the right secret of one source forgets all of them.
LoginForgetsAll(ip, embed, role, key, right) ==
    LET source == PasswordSource(ip)
        s == NewSession(role, IF embed THEN "embed" ELSE "standard", key, None, None, ip)
    IN /\ \E res \in Allow(limiter, source, TRUE, now) :
             IF ~res.ok \/ ~right
             THEN /\ limiter' = res.limiter
                  /\ Tried(IF res.ok THEN {source, Everyone} ELSE {})
                  /\ UNCHANGED vars
             ELSE /\ limiter' = NewLimiter
                  /\ Tried({Everyone})
                  /\ CreateSession(s)
       /\ UNCHANGED oidcVars

\* login and apiKeyLogin: an attempt the limiter refuses ends there; a bad body
\* or a wrong secret has used up an attempt; the right one forgets the source and
\* creates a session of the kind of page it came from.
Login(ip, embed, role, key, right) ==
    LET source == PasswordSource(ip)
        s == NewSession(role, IF embed THEN "embed" ELSE "standard", key, None, None, ip)
    IN /\ \E res \in Allow(limiter, source, TRUE, now) :
             IF ~res.ok \/ ~right
             THEN /\ limiter' = res.limiter
                  /\ Tried(IF res.ok THEN {source, Everyone} ELSE {})
                  /\ UNCHANGED vars
             ELSE /\ limiter' = ResetSource(res.limiter, source)
                  /\ Tried({Everyone})
                  /\ CreateSession(s)
       /\ UNCHANGED oidcVars

PasswordLogin(ip, embed, right) == Login(ip, embed, "admin", None, right)
APIKeyLogin(ip, embed, key) == Login(ip, embed, "viewer", key, key \in keys)
-----------------------------------------------------------------------------
\* oidcLogin: the attempt counts for everyone at once, for the source only when
\* it fails later; a bad return target ends it.
BeginLogin(b, ip, valid) ==
    /\ policy.enabled /\ login[b].pc = "idle"
    /\ \E res \in Allow(limiter, OIDCSource(ip), FALSE, now) :
         /\ limiter' = res.limiter
         /\ Tried(IF res.ok THEN {Everyone} ELSE {})
         /\ login' = IF res.ok /\ valid
                     THEN [login EXCEPT ![b] = [NoLogin EXCEPT !.pc = "begin", !.source = OIDCSource(ip)]]
                     ELSE login
    /\ UNCHANGED <<vars, provider, txns, jar, opened, minted, owner, taken>>

AfterProvider(pc) == IF pc = "begin" THEN "create" ELSE "exchange"

\* getProvider: a valid document is used at once; within the pause after a
\* failure the request fails; otherwise it joins the flight, starting it if it
\* is the first.
GetProvider(b) ==
    /\ login[b].pc \in {"begin", "finish"} /\ ~login[b].wait
    /\ IF provider.until > now
       THEN /\ login' = [login EXCEPT ![b].pc = AfterProvider(@)]
            /\ UNCHANGED provider
       ELSE IF ~provider.flight /\ provider.retryAt > now
       THEN /\ login' = [login EXCEPT ![b] = NoLogin]
            /\ UNCHANGED provider
       ELSE /\ login' = [login EXCEPT ![b].wait = TRUE]
            /\ provider' = [provider EXCEPT !.flight = TRUE]
    /\ UNCHANGED <<vars, limiter, txns, jar, opened, minted, owner, taken, tries>>

\* fetchProvider: what a discovery document must offer.  Capabilities that are
\* not declared have the standard's default, the response type has none.
AcceptsDocument(d) ==
    /\ d.status = "ok" /\ d.issuerMatches /\ d.endpointsValid
    /\ "code" \in d.responseTypes
    /\ d.challenge = {} \/ "S256" \in d.challenge
    /\ d.authMethods = {} \/ d.authMethods \cap {"basic", "post"} # {}
    /\ d.algorithms \cap {"RS256", "ES256"} # {}

\* cacheLifetime: the headers only shorten the default, the age is taken off.
CacheLifetime(h) ==
    LET maxAge == IF h.maxAge # None /\ h.maxAge < DiscoveryTTL THEN h.maxAge ELSE DiscoveryTTL
        life == IF h.expires # None /\ h.expires < maxAge THEN h.expires ELSE maxAge
    IN IF h.noStore \/ h.age >= life THEN 0 ELSE life - h.age

\* refreshProvider: the flight lands for everyone who waits.  A document that may
\* not be cached serves only them.
RefreshProvider(d, h) ==
    LET ok == AcceptsDocument(d)
    IN /\ provider.flight
       /\ provider' = IF ok THEN [until |-> now + CacheLifetime(h), flight |-> FALSE, retryAt |-> 0]
                      ELSE [provider EXCEPT !.flight = FALSE, !.retryAt = now + DiscoveryBackoff]
       /\ login' = [b \in Browsers |->
                      IF ~login[b].wait THEN login[b]
                      ELSE IF ok THEN [login[b] EXCEPT !.wait = FALSE, !.pc = AfterProvider(@)]
                      ELSE NoLogin]
       /\ UNCHANGED <<vars, limiter, txns, jar, opened, minted, owner, taken, tries>>

\* The request's context ends while it waits, for the provider or the exchange.
CancelLogin(b) ==
    /\ login[b].wait \/ login[b].pc = "exchange"
    /\ login' = [login EXCEPT ![b] = NoLogin]
    /\ UNCHANGED <<vars, limiter, provider, txns, jar, opened, minted, owner, taken, tries>>

\* TransactionStore.Create: expired transactions go; a full store, or a browser
\* that shows enough bindings of open ones, is refused; nobody's is evicted.
CreateTransaction(b) ==
    LET kept == [s \in States |-> IF txns[s] # None /\ txns[s].exp <= now THEN None ELSE txns[s]]
        open == {s \in States : kept[s] # None}
        active == {s \in open \cap jar[b] : txns[s].browser = b}
        full == Cardinality(open) >= Capacity \/ Cardinality(active) >= BrowserCapacity
    IN /\ login[b].pc = "create"
       /\ login' = [login EXCEPT ![b] = NoLogin]
       /\ IF full \/ States \ opened = {}
          THEN txns' = kept /\ UNCHANGED <<jar, opened, owner>>
          ELSE LET s == CHOOSE x \in States \ opened : TRUE
               IN /\ txns' = [kept EXCEPT ![s] = [browser |-> b, source |-> login[b].source,
                                                  exp |-> now + TransactionTTL]]
                  /\ jar' = [jar EXCEPT ![b] = @ \cup {s}]
                  /\ opened' = opened \cup {s}
                  /\ owner' = [owner EXCEPT ![s] = b]
       /\ UNCHANGED <<vars, limiter, provider, minted, taken, tries>>

\* Variant with a fault: the transaction stays until it expires.
ConsumeLater(b, s) == txns

\* TransactionStore.Consume: only the binding takes the transaction out.
Consume(b, s) ==
    IF txns[s] # None /\ txns[s].exp > now /\ (s \notin jar[b] \/ txns[s].browser # b)
    THEN txns ELSE [txns EXCEPT ![s] = None]
Bound(b, s) == txns[s] # None /\ txns[s].exp > now /\ s \in jar[b] /\ txns[s].browser = b

\* oidcCallback up to the network: the transaction is consumed and the answer
\* will clear the binding cookie, which may come after the browser has repeated
\* the request; an answer of the provider that is garbled counts as a
\* failure of the source that began, a refusal or an error does not.
Callback(b, s, answer) ==
    /\ policy.enabled /\ login[b].pc = "idle"
    /\ txns' = Consume(b, s)
    /\ jar' \in {jar, [jar EXCEPT ![b] = @ \ {s}]}
    /\ taken' = IF txns[s] # None /\ txns[s].exp > now /\ txns'[s] = None
                THEN [taken EXCEPT ![s] = b] ELSE taken
    /\ login' = IF Bound(b, s) /\ answer = "code"
                THEN [login EXCEPT ![b] = [NoLogin EXCEPT !.pc = "finish", !.state = s,
                                                          !.source = txns[s].source]]
                ELSE login
    /\ IF Bound(b, s) /\ answer = "garbled"
       THEN limiter' \in RecordFailure(limiter, txns[s].source, now)
       ELSE limiter' = limiter
    /\ Tried({})
    /\ UNCHANGED <<vars, provider, opened, minted, owner>>

\* Complete after the provider: the exchange and the verification fail for
\* reasons outside, are rejected, or name a subject; an allowed one gets its
\* session and the source that began is forgotten.
Exchange(b, verdict, subject) ==
    LET source == login[b].source
        s == NewSession("admin", "oidc", None, policy.app, subject, CHOOSE ip \in IPs : TRUE)
        admitted == /\ verdict = "verified"
                    /\ policy.subjects = {} \/ subject \in policy.subjects
    IN /\ login[b].pc = "exchange"
       /\ login' = [login EXCEPT ![b] = NoLogin]
       /\ IF admitted
          THEN /\ CreateSession(s)
               /\ IF cache' = Unexpired(cache)          \* not created
                  THEN UNCHANGED <<limiter, minted>>
                  ELSE /\ limiter' = ResetSource(limiter, source)
                       /\ minted' = Append(minted, <<login[b].state, b>>)
          ELSE /\ IF verdict = "outside" THEN limiter' = limiter
                  ELSE limiter' \in RecordFailure(limiter, source, now)
               /\ UNCHANGED <<vars, minted>>
       /\ Tried({})
       /\ UNCHANGED <<provider, txns, jar, opened, owner, taken>>

\* The process starts again: limiter, transactions and discovery are in memory.
Restart ==
    /\ RestartSessions
    /\ limiter' = NewLimiter /\ provider' = NoProvider
    /\ txns' = [s \in States |-> None] /\ login' = [b \in Browsers |-> NoLogin]
    /\ tries' = NoTries
    /\ UNCHANGED <<jar, opened, minted, owner, taken>>
-----------------------------------------------------------------------------
\* What the provider may answer.
Documents ==
    [status : {"ok", "failed"}, issuerMatches : BOOLEAN, endpointsValid : BOOLEAN,
     responseTypes : SUBSET {"code", "token"}, challenge : SUBSET {"S256", "plain"},
     authMethods : SUBSET {"basic", "post", "none"}, algorithms : SUBSET {"RS256", "ES256", "HS256"}]
Headers ==
    [noStore : BOOLEAN, maxAge : Nat \cup {None}, expires : Nat \cup {None}, age : Nat]

OIDCStep ==
    \/ \E b \in Browsers, ip \in IPs, valid \in BOOLEAN : BeginLogin(b, ip, valid)
    \/ \E b \in Browsers : GetProvider(b) \/ CancelLogin(b) \/ CreateTransaction(b)
    \/ \E d \in Documents, h \in Headers : RefreshProvider(d, h)
    \/ \E b \in Browsers, s \in States, answer \in {"code", "denied", "garbled"} :
          Callback(b, s, answer)
    \/ \E b \in Browsers, v \in {"outside", "rejected", "verified"}, sub \in Subjects :
          Exchange(b, v, sub)

LoginNext ==
    \/ RequestStep /\ UNCHANGED loginVars
    \/ \E ip \in IPs, embed, right \in BOOLEAN : PasswordLogin(ip, embed, right)
    \/ \E ip \in IPs, embed \in BOOLEAN, key \in Keys : APIKeyLogin(ip, embed, key)
    \/ OIDCStep
    \/ Restart

LoginSpec == LoginInit /\ [][LoginNext]_<<vars, loginVars>>
-----------------------------------------------------------------------------
\* One OIDC login gives at most one session, and gives it to the browser that
\* began it, however often and by whom the callback is repeated (Complete, which
\* consumes before it goes to the network).
OneSessionPerLogin ==
    /\ \A i, j \in DOMAIN minted : minted[i][1] = minted[j][1] => i = j
    /\ \A i \in DOMAIN minted : minted[i][2] = owner[minted[i][1]]

\* What an OIDC login has of its transaction: the session it was begun for, and
\* nobody else's hands on it meanwhile.  A login under way is only taken from
\* its browser by that browser's own callback, by its expiry or by a restart;
\* others who open the callback do not use it up (Consume).
LoginIsOnes ==
    [][/\ OneSessionPerLogin'
       /\ \A s \in States :
            (txns[s] # None /\ txns'[s] = None /\ txns[s].exp > now /\ restarts' = restarts)
               => taken'[s] = txns[s].browser]_<<vars, loginVars>>

\* The attempts counted by time t.
Through(f, t) == IF t < 0 THEN 0 ELSE f[t]

\* Fixed windows that follow each other let through at most twice the limit
\* within any stretch of Window ticks, of all sources together and of one that
\* was not forgotten meanwhile.  A source's window opens with an attempt that is
\* let through, so one of these is too old; the window of all may be opened by an
\* attempt that its source's limit then refuses (allow).
AttemptBound ==
    \A s \in DOMAIN tries :
        tries[s][now] - Through(tries[s], now - Window)
            <= IF s = Everyone THEN 2 * GlobalLimit ELSE 2 * PerSourceLimit - 1
=============================================================================
