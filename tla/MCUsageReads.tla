---------------------------- MODULE MCUsageReads ----------------------------
(***************************************************************************)
(* The read side for TLC: the overview, the request event log, a request   *)
(* log, its download tokens, or one of the pure algorithms.  A behaviour   *)
(* is about one of them; the others keep their initial state.              *)
(***************************************************************************)
EXTENDS UsageOverviewReads, UsageEventLog, MCAlgorithms

VARIABLE scene

\* A request for all instances is served alike whatever instance an event has;
\* a comparison has the instance of a filter.
OneSuffices ==
    (read'.phase = "reading" /\ read'.inst = AllInstances)
      => ~read'.comparison /\ \A e \in DOMAIN events' : events'[e].inst \in Filters

logVars == <<listVars, fetchVars, tokenVars>>

MCInit ==
    /\ scene \in {"overview", "list", "fetch", "tokens", "algorithm"}
    /\ OverviewInit /\ EventLogInit /\ InputInit

MCNext ==
    /\ UNCHANGED scene
    /\ \/ scene = "overview" /\ OverviewStep /\ OneSuffices /\ UNCHANGED <<logVars, in>>
       \/ scene = "list" /\ ListStep /\ UNCHANGED <<overviewVars, in>>
       \/ scene = "fetch" /\ FetchStep /\ UNCHANGED <<overviewVars, in>>
       \/ scene = "tokens" /\ TokenStep /\ UNCHANGED <<overviewVars, in>>
       \/ scene = "algorithm" /\ (Choose \/ Input) /\ UNCHANGED <<overviewVars, logVars>>

MCSpec == MCInit /\ [][MCNext]_<<scene, overviewVars, logVars, in>>
=============================================================================
