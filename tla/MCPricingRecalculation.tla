----------------------- MODULE MCPricingRecalculation -----------------------
(***************************************************************************)
(* PricingRecalculation for TLC: one day of two hours, the second with two *)
(* instants, so that a period may begin and end inside the day and inside  *)
(* an hour.  In a behaviour the maintenance archives an event, or none is  *)
(* old enough and there are more of them.                                  *)
(***************************************************************************)
EXTENDS PricingRecalculation

CONSTANT p1

VARIABLE archiving  \* the events of this behaviour are past the retention

Nobody == {}
OneKeeper == {p1}
Day == {1, 2, 3}
Noon == {2}

MCInit == Init /\ archiving \in BOOLEAN

MCNext ==
    /\ Next
    /\ UNCHANGED archiving
    /\ IF archiving THEN \A e \in 1..Len(time') : e = 1 /\ time'[e] = 2
                    ELSE /\ maint' = FALSE /\ refreshes' = 0
                         /\ reads' = 0 \/ (reads' = 1 /\ status' # "running")

MCFairSpec == MCInit /\ [][MCNext]_<<vars, archiving>> /\ Fairness
=============================================================================
