----------------------------- MODULE UsageLedger -----------------------------
(***************************************************************************)
(* What the usage pipeline promises, without tables, batches or retries: a *)
(* message CPA offers is decided once, it is counted or it is given up,    *)
(* and the number of usage events is the number of counted messages.       *)
(***************************************************************************)
EXTENDS Integers, FiniteSets

CONSTANT Messages

VARIABLES
    outcome,    \* the fate of every message
    total       \* rows of usage_events

vars == <<outcome, total>>

Outcomes == {"unknown", "offered", "counted", "given_up"}

Init == outcome = [m \in Messages |-> "unknown"] /\ total = 0

Decide(S, from, to) ==
    /\ \A m \in S : outcome[m] = from
    /\ outcome' = [m \in Messages |-> IF m \in S THEN to ELSE outcome[m]]

Offer(m) == Decide({m}, "unknown", "offered") /\ UNCHANGED total

Count(S) == Decide(S, "offered", "counted") /\ total' = total + Cardinality(S)

GiveUp(S) == Decide(S, "offered", "given_up") /\ UNCHANGED total

Next ==
    \/ \E m \in Messages : Offer(m)
    \/ \E S \in (SUBSET Messages) \ {{}} : Count(S) \/ GiveUp(S)

Spec == Init /\ [][Next]_vars
=============================================================================
