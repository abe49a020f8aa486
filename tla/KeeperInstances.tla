--------------------------- MODULE KeeperInstances ---------------------------
(***************************************************************************)
(* CPA instances and the credentials their exporters push with: what the   *)
(* administrator's requests do to cpa_instances and                        *)
(* cpa_instance_credentials.  Every request is one transaction.            *)
(***************************************************************************)
EXTENDS Integers, FiniteSets

CONSTANTS
    Instances,      \* instance ids; a deleted one is never used again
    Legacy,         \* entities.LegacyCPAInstanceID, seeded by the migration
    Credentials     \* credential ids

ASSUME InstancesAssumption == Legacy \in Instances

VARIABLES
    instance,       \* cpa_instances
    credential      \* cpa_instance_credentials

instanceVars == <<instance, credential>>

Exists(i) == instance[i] \in {"enabled", "disabled"}

CredentialRows ==
    [owner : Instances,
     state : {"unused", "active", "revoked", "removed"},
     expired : BOOLEAN]

NoCredential == [owner |-> Legacy, state |-> "unused", expired |-> FALSE]

\* An unrevoked credential; it may have expired.
Active(i) == {c \in Credentials : /\ credential[c].owner = i
                                  /\ credential[c].state = "active"}

InstancesInit ==
    /\ instance = [i \in Instances |-> IF i = Legacy THEN "enabled" ELSE "unused"]
    /\ credential = [c \in Credentials |-> NoCredential]

NewCredential(i) == [owner |-> i, state |-> "active", expired |-> FALSE]
Revoked(row) == [row EXCEPT !.state = "revoked"]
Expired(row) == [row EXCEPT !.expired = TRUE]

Issued(c, i) ==
    /\ credential[c].state = "unused"
    /\ credential' = [credential EXCEPT ![c] = NewCredential(i)]

\* CreateWithCredential.
Create(i, c) ==
    /\ instance[i] = "unused"
    /\ instance' = [instance EXCEPT ![i] = "enabled"]
    /\ Issued(c, i)

\* Update: the administrator enables or disables the instance.
SetEnabled(i, on) ==
    /\ Exists(i)
    /\ instance' = [instance EXCEPT ![i] = IF on THEN "enabled" ELSE "disabled"]
    /\ UNCHANGED credential

\* CreateCredential.
Issue(i, c) ==
    /\ Exists(i)
    /\ Issued(c, i)
    /\ UNCHANGED instance

\* RotateCredential: the old credential is revoked and its replacement is
\* created in one transaction.
Rotate(i, old, new) ==
    /\ Exists(i)
    /\ old \in Active(i)
    /\ credential[new].state = "unused"
    /\ credential' = [credential EXCEPT ![old] = Revoked(credential[old]),
                                         ![new] = NewCredential(i)]
    /\ UNCHANGED instance

\* RevokeCredential.
Revoke(i, c) ==
    /\ c \in Active(i)
    /\ credential' = [credential EXCEPT ![c] = Revoked(credential[c])]
    /\ UNCHANGED instance

\* The clock passes expires_at.
Expire(c) ==
    /\ credential[c].state = "active"
    /\ ~credential[c].expired
    /\ credential' = [credential EXCEPT ![c] = Expired(credential[c])]
    /\ UNCHANGED instance

\* Delete refuses the legacy instance and unrevoked credentials.
Deletable(i) == i # Legacy /\ Exists(i) /\ Active(i) = {}

\* The rows Delete removes here; what it removes elsewhere is added by the
\* modules that own those tables.
Removed(i) ==
    /\ instance' = [instance EXCEPT ![i] = "deleted"]
    /\ credential' = [c \in Credentials |->
           IF credential[c].owner = i /\ credential[c].state # "unused"
           THEN [credential[c] EXCEPT !.state = "removed"]
           ELSE credential[c]]

\* A request of the administrator other than Delete.
Administer ==
    \/ \E i \in Instances, c \in Credentials :
          Create(i, c) \/ Issue(i, c) \/ Revoke(i, c)
    \/ \E i \in Instances, on \in BOOLEAN : SetEnabled(i, on)
    \/ \E i \in Instances, old, new \in Credentials : Rotate(i, old, new)
    \/ \E c \in Credentials : Expire(c)

InstancesTypeOK ==
    /\ instance \in [Instances -> {"unused", "enabled", "disabled", "deleted"}]
    /\ credential \in [Credentials -> CredentialRows]

\* What Authenticate reads of a credential.
Valid(c) == credential[c].state = "active" /\ ~credential[c].expired
=============================================================================
