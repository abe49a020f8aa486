------------------------- MODULE MCUsageAggregation -------------------------
(***************************************************************************)
(* UsageAggregation for TLC: the legacy instance alone, with its archive,  *)
(* an identity that comes at any time and restarts, or beside a pushed     *)
(* instance that is disabled and enabled, the identities of both known     *)
(* before their first event.                                               *)
(***************************************************************************)
EXTENDS UsageAggregation

CONSTANT p1

VARIABLE alone      \* only the legacy instance has usage in this behaviour

\* Of the identities the first is of the legacy instance, a second one of the
\* pushed one; events alternate between them.
LegacyHome == [x \in Names |-> Legacy]
MixedHome == [x \in Names |-> IF x = 1 THEN Legacy ELSE p1]
Alternating == [e \in Events |-> IF MaxIdentities > 1 /\ e % 2 = 0 THEN 2 ELSE 1]

MCInit ==
    /\ alone \in BOOLEAN
    /\ Init
    /\ enabled = [i \in Pushed |-> ~alone]

MCNext ==
    /\ Next
    /\ UNCHANGED alone
    /\ IF alone THEN /\ \A i \in Pushed : inbox'[i] = 0 /\ ~enabled'[i]
                     /\ known' <= 1
                ELSE /\ crashes' = 0
                     /\ known' = MaxIdentities \/ owner' = <<>>
                     /\ inbox'[Legacy] + Cardinality({e \in DOMAIN owner' : owner'[e] = Legacy}) <= 1

MCSpec == MCInit /\ [][MCNext]_<<vars, alone>>

\* Both instances, or the only one, under fairness.
MCFairInit == Init /\ alone = FALSE
MCFairSpec == /\ MCFairInit
              /\ [][Next /\ UNCHANGED alone]_<<vars, alone>>
              /\ Fairness
=============================================================================
