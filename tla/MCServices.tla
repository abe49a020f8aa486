----------------------------- MODULE MCServices -----------------------------
(***************************************************************************)
(* Three services of the keeper that do not meet, for TLC: a behaviour     *)
(* changes credentials beside the metadata synchronisation, or it starts   *)
(* and upgrades the database, or it makes the scheduled backups.  Requests *)
(* are interchangeable, and so are the keys of a group.                    *)
(***************************************************************************)
EXTENDS CredentialMutations, StartupPipeline, DatabaseBackup, TLC

VARIABLE scene      \* the service of this behaviour

NoBackups ==
    /\ clock < BackupHour /\ plan.compress
    /\ plan.interval = Smallest(Intervals) /\ plan.retention = Smallest(Retentions)

\* Somebody else changes CPA before any request has, and nothing fails after
\* it; a put without an ETag may take the change back.
OneDisturbance ==
    /\ outside' # outside => version = 0 /\ \A x \in Rows : ~drift[x]
    /\ outside # <<>> =>
         \A x \in Rows : drift'[x] =>
            \/ drift[x]
            \/ \E o \in Requests : request[o].at = "put" /\ request'[o].at = "complete"

MCInit ==
    /\ MutationsInit
    /\ StartupInit
    /\ BackupInit
    /\ \/ scene = "credentials" /\ ~old /\ NoBackups
       \/ scene = "startup" /\ openai /\ NoBackups
       \/ scene = "backup" /\ ~old /\ openai

MCNext ==
    /\ scene' = scene
    /\ \/ scene = "credentials" /\ MutationsNext /\ OneDisturbance
          /\ UNCHANGED <<startupVars, backupVars>>
       \/ scene = "startup" /\ StartupNext /\ UNCHANGED <<mutationVars, backupVars>>
       \/ scene = "backup" /\ BackupNext /\ UNCHANGED <<mutationVars, startupVars>>
       \/ scene = "backup" /\ clock = MaxClock /\ UNCHANGED <<backupVars, mutationVars, startupVars>>

MCSpec == MCInit /\ [][MCNext]_<<mutationVars, startupVars, backupVars, scene>>

Symmetric == Permutations(Requests) \cup Permutations(Members)
=============================================================================
