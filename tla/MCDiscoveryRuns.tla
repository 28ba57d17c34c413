---------------------------- MODULE MCDiscoveryRuns ----------------------------
(***************************************************************************)
(* DiscoveryRuns with its faults and, in the same run, without: failed     *)
(* says whether one has happened yet.                                      *)
(***************************************************************************)
EXTENDS DiscoveryRuns

VARIABLE failed

MCInit == Init /\ failed = FALSE

MCNext ==
    \/ Moves /\ UNCHANGED failed
    \/ Faults /\ failed' = TRUE

MCSpec ==
    /\ MCInit /\ [][MCNext]_<<vars, failed>>
    /\ \A r \in Ids : WF_vars(EngineEnds(r))
    /\ WF_vars(LoopCloses)

-----------------------------------------------------------------------------
\* Without a fault, a RUNNING row of a live process is one that a task goes on
\* updating, as routes_discovery.py, _delete_discovery_runs, takes it to be.
FaultlessHasTask == ~failed => RunningHasTask

\* Without a fault, no row is stuck in a process that lives on.
FaultlessRunsEnd == []~failed => RunsEnd

\* Without a fault, a shutdown that began ends (AutoDiscoveryScheduler.stop).
FaultlessStop == []~failed => StopCompletes
=============================================================================
