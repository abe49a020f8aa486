------------------------------ MODULE MCQuota ------------------------------
(***************************************************************************)
(* The quota service for TLC, one group of goroutines per behaviour: the   *)
(* callers, dispatchers and workers of the refresh rounds; a manual        *)
(* refresh beside the header worker; the history runner.  The groups share *)
(* no state beyond what each scene lets move.                              *)
(***************************************************************************)
EXTENDS QuotaHeaders, QuotaHistory

VARIABLE scene

vars == <<scene, refreshVars, headerVars, historyVars>>

Observed(role, window, src, reset, pct, t) ==
    [role |-> role, window |-> window, src |-> src, reset |-> reset, pct |-> pct,
     first |-> t, last |-> t]

(* One cycle seen at three times and two levels, its reset as a countdown,  *)
(* the next cycle, another window in the same role, and a response with     *)
(* both windows.  Resets of one cycle are within the tolerance of 1.        *)
MCResponses ==
    {<<Observed("primary", 1, "absolute", 10, 2, t)>> : t \in 1 .. 3}
    \cup {<<Observed("primary", 1, "absolute", 10, 1, 2)>>,
          <<Observed("primary", 1, "relative", 11, 1, 2)>>,
          <<Observed("primary", 1, "absolute", 14, 2, 2)>>,
          <<Observed("primary", 2, "absolute", 12, 1, 2)>>,
          <<Observed("primary", 1, "absolute", 10, 1, 2), Observed("secondary", 2, "absolute", 20, 1, 2)>>}

First == Credentials[1]

Init ==
    /\ scene \in {"rounds", "headers", "history"}
    /\ RefreshInit /\ HeadersInit /\ HistoryInit
    /\ kind = [a \in Auths |-> "codex"]

(* In the header scene one manual refresh of one credential, and at most    *)
(* one of: a recalculation, a new type of the credential, the shutdown.     *)
OneCredential ==
    /\ started' <= 1
    /\ "manual" \in Callers /\ scans'["manual"] # None => \A a \in Range(scans'["manual"].todo) : a = First
    /\ arriving' # None => arriving'.auth = First
    /\ \A a \in Auths \ {First} : kind'[a] = "codex"
    /\ Cardinality({x \in {"closing", "generation", "kind"} :
          CASE x = "closing" -> closing'
            [] x = "generation" -> generation' > 0
            [] x = "kind" -> kind'[First] # "codex"}) <= 1

ManualRefresh ==
    \/ StartRefresh \/ ScanOne("manual") \/ FinishRefresh \/ StopRefreshTasks
    \/ \E d \in dispatchers : Dispatch(d) \/ DispatcherEnds(d)
    \/ \E w \in workers : MarkRunning(w) \/ EndCall(w)

(* Beside the rounds there is a recalculation or the shutdown, not both.    *)
Rounds ==
    /\ scene = "rounds"
    /\ RefreshStep \/ RefreshRequests \/ InvalidateStoredCostCache
    /\ closing' => generation' = 0
    /\ UNCHANGED <<scene, headerVars, historyVars>>

Headers ==
    /\ scene = "headers"
    /\ (ManualRefresh /\ UNCHANGED headerVars) \/ HeaderStep \/ HeaderRequests
    /\ OneCredential
    /\ UNCHANGED <<scene, historyVars>>

History ==
    /\ scene = "history"
    /\ HistoryStep \/ HistoryRequests
    /\ UNCHANGED <<scene, refreshVars, headerVars>>

Next == Rounds \/ Headers \/ History

(* Scans, dispatchers and workers are goroutines that always go on; a       *)
(* provider call ends by its own timeout.                                   *)
Spec == Init /\ [][Next]_vars /\ WF_vars(Rounds /\ RefreshStep)

(* Every task that a round, an inspection or a request has queued ends.     *)
RoundsEnd == scene = "rounds" => TasksEnd

(* The comments of Refresh and of its dispatcher promise that no task stays *)
(* queued for ever; a request whose second lookup fails leaves one behind.  *)
QueuedRoundsEnd == scene = "rounds" => QueuedTasksEnd
=============================================================================
