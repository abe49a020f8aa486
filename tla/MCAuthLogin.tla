----------------------------- MODULE MCAuthLogin -----------------------------
(***************************************************************************)
(* The login and session machinery for TLC.  Requests, password logins and *)
(* OIDC logins meet only in the session manager and the limiter, so a      *)
(* behaviour lets one kind of client run beside the restarts.              *)
(***************************************************************************)
EXTENDS AuthLogin, TLC

VARIABLE clients   \* who is active in this behaviour

MCPolicies == {[enabled |-> TRUE, app |-> a, subjects |-> {}] : a \in Apps}
              \cup {[enabled |-> FALSE, app |-> a, subjects |-> {}] : a \in Apps}

\* OIDC logins run until the first transactions have expired.
BrowserTicks == TransactionTTL

\* A discovery document that is accepted, one that is not, and responses that may
\* and may not be cached.
GoodDocument == [status |-> "ok", issuerMatches |-> TRUE, endpointsValid |-> TRUE,
                 responseTypes |-> {"code"}, challenge |-> {}, authMethods |-> {"post"},
                 algorithms |-> {"RS256", "HS256"}]
MCDocuments == {GoodDocument, [GoodDocument EXCEPT !.algorithms = {"HS256"}]}
MCHeaders == {[noStore |-> FALSE, maxAge |-> None, expires |-> None, age |-> 0],
            [noStore |-> FALSE, maxAge |-> None, expires |-> None, age |-> DiscoveryTTL]}

\* Several addresses matter only to the attempts.
OneIP == CHOOSE ip \in IPs : TRUE

allVars == <<vars, loginVars, clients>>

\* Without browsers there is no OIDC session for the policy to refuse.
MCInit == /\ LoginInit
          /\ clients \in {"requests", "attempts", "browsers"}
          /\ \/ clients = "browsers"
             \/ policy = [enabled |-> FALSE, app |-> policy.app, subjects |-> {}]

\* Sessions begin at time 0, so that each can be touched and can expire within
\* the bound; a request offers tokens that were issued.
MCSessionStep ==
    \/ \E key \in Keys : now = 0 /\
          \/ CreateSession(NewSession("admin", "standard", None, None, None, OneIP))
          \/ CreateSession(NewSession("viewer", "embed", key, None, None, OneIP))
    \/ \E r \in Requests, e \in BOOLEAN, c, h \in issued \cup {None} :
          /\ h # None => e /\ c # h
          /\ \/ GetSession(r, e, c, h, OneIP)
             \/ \E role \in Roles : RoleMiddleware(r, e, c, h, OneIP, role)
    \/ \E r \in Requests : TouchGet(r) \/ TouchUpdate(r) \/ Serve(r)
    \/ \E e \in BOOLEAN, c \in issued : Logout(e, c, None)
    \/ \E t \in issued : RevokeManagedSession(t) \/ UpdateManagedSessionAlias(t, "named")
    \/ \E role \in Roles : DeleteByRole(role)
    \/ CleanupExpired
    \/ WriterTake \/ WriterWrite
    \/ \E listed \in SUBSET Keys : SyncKeys(listed)

BrowserStep ==
    \/ \E b \in Browsers, valid \in BOOLEAN : BeginLogin(b, OneIP, valid)
    \/ \E b \in Browsers : GetProvider(b) \/ CancelLogin(b) \/ CreateTransaction(b)
    \/ \E d \in MCDocuments, h \in MCHeaders : RefreshProvider(d, h)
    \/ \E b \in Browsers, s \in opened, answer \in {"code", "denied", "garbled"} : Callback(b, s, answer)
    \/ \E b \in Browsers, v \in {"outside", "rejected", "verified"}, sub \in Subjects : Exchange(b, v, sub)

\* Logins succeed at time 0; attempts with wrong passwords go on, until windows
\* that follow each other have let through all they can.
LoginStep ==
    \/ \E ip \in IPs, right \in BOOLEAN : (right => now = 0) /\ PasswordLogin(ip, FALSE, right)
    \/ \E ip \in IPs, key \in Keys : now = 0 /\ APIKeyLogin(ip, TRUE, key)

MCNext ==
    /\ UNCHANGED clients
    /\ \/ clients = "requests" /\ MCSessionStep /\ UNCHANGED loginVars
       \/ clients = "attempts" /\ LoginStep
       \/ clients = "browsers" /\ BrowserStep
       \/ /\ Tick /\ UNCHANGED loginVars
          /\ clients = "requests" => now < TTL
          /\ clients = "browsers" => now < BrowserTicks
       \/ Restart
    \* Statements fail before a restart; logins have one of the two.
    /\ faults' # faults => restarts = 0
    /\ clients # "requests" => faults' + restarts' <= 1

MCSpec == MCInit /\ [][MCNext]_allVars

\* A fresh token or state is any one not given out yet, and these are alike.
Symmetric == Permutations(Browsers) \cup Permutations(States) \cup Permutations(Tokens)
=============================================================================
