------------------------------ MODULE MCIngest ------------------------------
(***************************************************************************)
(* IngestModes and MetadataSync for TLC, in one run: the mode machine with *)
(* the signals it gives the metadata runner, or the metadata runner under  *)
(* any sequence of signals.                                                *)
(***************************************************************************)
EXTENDS IngestModes

VARIABLE scene      \* which of the two the behaviour shows

MCInit == Init /\ scene \in {"modes", "sync"}

MCNext ==
    /\ scene' = scene
    /\ \/ scene = "modes" /\ Next
       \/ scene = "sync" /\ SyncNext /\ UNCHANGED <<statusVars, controlVars, linkVars, held>>

InModes(A) == scene = "modes" /\ A

\* Fairness, where its scene is played.
MCFairSpec ==
    /\ MCInit /\ [][MCNext]_<<vars, scene>>
    /\ WF_vars(InModes(Runner)) /\ WF_vars(InModes(RecoveryDue))
    /\ SF_vars(InModes(Subscribed)) /\ SF_vars(InModes(HTTPAnswers))
    /\ SF_vars(InModes(QueueRunsDry))
    /\ \A c \in Calls : SF_vars(InModes(call = c /\ Stored))
=============================================================================
