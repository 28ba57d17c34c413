------------------------------ MODULE DiscoveryRuns ------------------------------
(***************************************************************************)
(* The life of discovery_run rows in one server process: POST              *)
(* /discovery/start and the delete endpoints (api/routes_discovery.py),    *)
(* the automatic scheduler (discovery/scheduler.py), the end of an engine  *)
(* (DiscoveryEngine.run, discovery/engine.py), start-up and shutdown       *)
(* (main.py, db.init_db).                                                  *)
(*                                                                         *)
(* The start endpoint, the scheduler and the engines share one event loop, *)
(* so what they do between two awaits is one action.  The delete endpoints *)
(* are plain functions: they run in threads, and anything may happen       *)
(* between their SELECT and their commit.  The scan itself is the module   *)
(* DiscoveryWorkers; here it is one long "scanning".                       *)
(***************************************************************************)
EXTENDS Integers, FiniteSets

CONSTANTS
    MaxRuns,      \* bound: ids given to runs
    Deleters,     \* threads that serve delete requests
    AutoEnabled,  \* config.AUTO_DISCOVERY_ENABLED
    ReusesIds,    \* the database gives the id of a deleted last row again (SQLite)
    BadNetworks,  \* a start request may hold cidrs the engine cannot parse
    DbMayFail,    \* a commit in an exception handler may fail in turn
    None

ASSUME RunsAssumption ==
    /\ MaxRuns \in Nat /\ AutoEnabled \in BOOLEAN /\ ReusesIds \in BOOLEAN
    /\ BadNetworks \in BOOLEAN /\ DbMayFail \in BOOLEAN
    /\ None \notin Nat

Ids == 1 .. MaxRuns

RowStates == {"absent", "RUNNING", "COMPLETED", "FAILED", "CANCELLED"}

VARIABLES
    status,   \* status of the row with each id, "absent" when there is none
    lastId,   \* the largest id ever given
    task,     \* the engine task of each run: "none", "scanning", "recompute"
    server,   \* "down", "up", "stopping" (lifespan shutdown has begun)
    sched,    \* the scheduler's task: "off", "sleep", "await"
    autoRun,  \* the run the scheduler awaits
    doomed    \* for each delete request, the ids it read as deletable

vars == <<status, lastId, task, server, sched, autoRun, doomed>>

-----------------------------------------------------------------------------
Running == {r \in Ids : status[r] = "RUNNING"}

Present == {r \in Ids : status[r] # "absent"}

\* The id of the next row.
NextId ==
    IF ReusesIds
    THEN IF Present = {} THEN 1
         ELSE 1 + CHOOSE r \in Present : \A s \in Present : s <= r
    ELSE lastId + 1

Init ==
    /\ status = [r \in Ids |-> "absent"]
    /\ lastId = 0
    /\ task = [r \in Ids |-> "none"]
    /\ server = "down"
    /\ sched = "off"
    /\ autoRun = None
    /\ doomed = [d \in Deleters |-> {}]

\* An engine that returned from its workers does not await any more: until it
\* ends, nothing else runs on the event loop.
LoopIsFree == \A r \in Ids : task[r] # "recompute"

-----------------------------------------------------------------------------
(* Start-up and the end of the process.                                      *)

OrphansLeft == status  \* mutant: start-up does not look at them

\* init_db: no task survived, so what is RUNNING is orphaned.
OrphansFailed == [r \in Ids |-> IF r \in Running THEN "FAILED" ELSE status[r]]

Boot ==
    /\ server = "down"
    /\ status' = OrphansFailed
    /\ server' = "up"
    /\ sched' = IF AutoEnabled THEN "sleep" ELSE "off"
    /\ UNCHANGED <<lastId, task, autoRun, doomed>>

ProcessGone ==
    /\ server' = "down"
    /\ task' = [r \in Ids |-> "none"]
    /\ sched' = "off"
    /\ autoRun' = None
    /\ doomed' = [d \in Deleters |-> {}]
    /\ UNCHANGED <<status, lastId>>

\* kill -9, power loss.
Crash ==
    /\ server # "down"
    /\ ProcessGone

CancelledAsStopped(r) ==  \* mutant: a status the model does not list
    [status EXCEPT ![r] = IF @ = "RUNNING" THEN "STOPPED" ELSE @]

Cancelled(r) ==
    [status EXCEPT ![r] = IF @ = "RUNNING" THEN "CANCELLED" ELSE @]

StopIsSwallowed ==  \* mutant: the loop's handler catches the cancellation
    /\ server = "up" /\ LoopIsFree
    /\ server' = "stopping"
    /\ sched' = IF sched = "off" THEN "off" ELSE "sleep"
    /\ IF sched = "await"
       THEN /\ status' = Cancelled(autoRun)
            /\ task' = [task EXCEPT ![autoRun] = "none"]
       ELSE UNCHANGED <<status, task>>
    /\ autoRun' = None
    /\ UNCHANGED <<lastId, doomed>>

(* Shutdown cancels the scheduler's task.  Sleeping, it ends.  Awaiting a    *)
(* run, its handler writes CANCELLED over RUNNING; the engine is gone either *)
(* way.                                                                      *)
StopScheduler ==
    /\ server = "up" /\ LoopIsFree
    /\ server' = "stopping"
    /\ sched' = "off"
    /\ IF sched = "await"
       THEN /\ status' = Cancelled(autoRun)
            /\ task' = [task EXCEPT ![autoRun] = "none"]
       ELSE UNCHANGED <<status, task>>
    /\ autoRun' = None
    /\ UNCHANGED <<lastId, doomed>>

\* The handler's commit fails: its exception replaces the CancelledError, the
\* scheduler's loop logs it and sleeps on; stop() awaits a task that lives.
CancelIsLost ==
    /\ DbMayFail
    /\ server = "up" /\ LoopIsFree /\ sched = "await"
    /\ server' = "stopping"
    /\ sched' = "sleep"
    /\ task' = [task EXCEPT ![autoRun] = "none"]
    /\ autoRun' = None
    /\ UNCHANGED <<status, lastId, doomed>>

\* stop() has returned: the loop closes, over the manual runs still scanning.
LoopCloses ==
    /\ server = "stopping" /\ sched = "off" /\ LoopIsFree
    /\ ProcessGone

-----------------------------------------------------------------------------
(* New runs.                                                                 *)

InsertUnchecked(stage) ==  \* mutant: no check for a RUNNING row
    /\ LoopIsFree
    /\ NextId \in Ids
    /\ status' = [status EXCEPT ![NextId] = "RUNNING"]
    /\ lastId' = IF NextId > lastId THEN NextId ELSE lastId
    /\ task' = [task EXCEPT ![NextId] = stage]
    /\ UNCHANGED <<server, doomed>>

\* The row is committed as RUNNING; `stage` is what becomes of its engine.
Insert(stage) ==
    /\ Running = {}
    /\ LoopIsFree
    /\ NextId \in Ids
    /\ status' = [status EXCEPT ![NextId] = "RUNNING"]
    /\ lastId' = IF NextId > lastId THEN NextId ELSE lastId
    /\ task' = [task EXCEPT ![NextId] = stage]
    /\ UNCHANGED <<server, doomed>>

\* start_discovery.
Start ==
    /\ server = "up"
    /\ Insert("scanning")
    /\ UNCHANGED <<sched, autoRun>>

\* DiscoveryEngine(...) raises on a network it cannot parse, after the commit:
\* seed_targets were given, so _build_seed_targets never looked at the cidrs.
StartRaises ==
    /\ BadNetworks
    /\ server = "up"
    /\ Insert("none")
    /\ UNCHANGED <<sched, autoRun>>

\* run_auto_discovery_once, up to its await.
AutoStart ==
    /\ server # "down" /\ sched = "sleep"
    /\ Insert("scanning")
    /\ sched' = "await"
    /\ autoRun' = NextId

-----------------------------------------------------------------------------
(* The end of an engine: the scheduler, if it awaits the run, sleeps again.  *)

\* The event loop may bring the run of r to its end.
CanEnd(r) == task[r] = "recompute" \/ (task[r] = "scanning" /\ LoopIsFree)

LeavesUnnoticed(r) ==  \* mutant: the scheduler goes on waiting
    /\ task' = [task EXCEPT ![r] = "none"]
    /\ UNCHANGED <<lastId, server, sched, autoRun, doomed>>

Leaves(r) ==
    /\ task' = [task EXCEPT ![r] = "none"]
    /\ sched' = IF autoRun = r THEN "sleep" ELSE sched
    /\ autoRun' = IF autoRun = r THEN None ELSE autoRun
    /\ UNCHANGED <<lastId, server, doomed>>

\* The engine writes its row when the row is still there.
Written(r, s) == [status EXCEPT ![r] = IF @ = "absent" THEN "absent" ELSE s]

\* The final commit, while the topology is still to be recomputed.
Complete(r) ==
    /\ task[r] = "scanning" /\ LoopIsFree /\ r \in Present
    /\ status' = Written(r, "COMPLETED")
    /\ task' = [task EXCEPT ![r] = "recompute"]
    /\ UNCHANGED <<lastId, server, sched, autoRun, doomed>>

\* The credential profile, the final commit or the recompute raises.
Fail(r) ==
    /\ CanEnd(r)
    /\ status' = Written(r, "FAILED")
    /\ Leaves(r)

Recompute(r) ==
    /\ task[r] = "recompute"
    /\ Leaves(r)
    /\ UNCHANGED status

\* The handler's commit fails as well: the task ends and the row stays.
HandlerFails(r) ==
    /\ DbMayFail
    /\ CanEnd(r)
    /\ Leaves(r)
    /\ UNCHANGED status

EngineEnds(r) == Complete(r) \/ Fail(r) \/ Recompute(r) \/ HandlerFails(r)

-----------------------------------------------------------------------------
(* The delete endpoints: one run, a list of runs, all runs.                  *)

AnyPresent == Present  \* mutant: the status is not looked at

Deletable == Present \ Running

Select(d, ids) ==
    /\ server = "up" /\ doomed[d] = {}
    /\ ids # {}
    /\ ids \subseteq Deletable
    /\ doomed' = [doomed EXCEPT ![d] = ids]
    /\ UNCHANGED <<status, lastId, task, server, sched, autoRun>>

Delete(d) ==
    /\ doomed[d] # {}
    /\ status' = [r \in Ids |-> IF r \in doomed[d] THEN "absent" ELSE status[r]]
    /\ doomed' = [doomed EXCEPT ![d] = {}]
    /\ UNCHANGED <<lastId, task, server, sched, autoRun>>

-----------------------------------------------------------------------------
\* What only a network that cannot be parsed or a failing handler brings about.
Faults == StartRaises \/ CancelIsLost \/ \E r \in Ids : HandlerFails(r)

Moves ==
    \/ Boot \/ Crash \/ StopScheduler \/ LoopCloses
    \/ Start \/ AutoStart
    \/ \E r \in Ids : Complete(r) \/ Fail(r) \/ Recompute(r)
    \/ \E d \in Deleters : Delete(d) \/ \E ids \in SUBSET Ids : Select(d, ids)

Next == Moves \/ Faults

Spec == Init /\ [][Next]_vars

(* The event loop resumes an engine whose workers are done (the module       *)
(* DiscoveryWorkers shows that they get done), and goes on with a shutdown.  *)
(* Whether and when a server is started again is the operator's choice.      *)
FairSpec ==
    /\ Spec
    /\ \A r \in Ids : WF_vars(EngineEnds(r))
    /\ WF_vars(LoopCloses)

-----------------------------------------------------------------------------
(* Properties.                                                               *)

\* Every variable has its type.
TypeOK ==
    /\ status \in [Ids -> RowStates]
    /\ lastId \in 0 .. MaxRuns
    /\ task \in [Ids -> {"none", "scanning", "recompute"}]
    /\ server \in {"down", "up", "stopping"}
    /\ sched \in {"off", "sleep", "await"}
    /\ autoRun \in Ids \union {None}
    /\ doomed \in [Deleters -> SUBSET Ids]

\* start_discovery and the scheduler: never two runs are RUNNING.
SingleRunning == \A r, s \in Running : r = s

\* routes_discovery.py, _delete_discovery_runs: a RUNNING run is one whose
\* background task goes on updating the row.
RunningHasTask ==
    server # "down" => \A r \in Running : task[r] = "scanning"

\* The row an engine works on is there and RUNNING until the engine itself ends
\* it: what the workers' reads of the row rely on.
TaskHasRow == \A r \in Ids : task[r] = "scanning" => status[r] = "RUNNING"

\* routes_discovery.py, _delete_discovery_runs: a RUNNING run is skipped, never
\* deleted.
RunningRowKept ==
    [][\A r \in Ids : status[r] = "RUNNING" => status'[r] # "absent"]_vars

\* The scheduler awaits a run exactly as long as that run's engine lives.
SchedulerFollowsRun ==
    /\ (sched = "await") = (autoRun # None)
    /\ autoRun # None => task[autoRun] # "none"

\* No row is stuck: in a process that lives on, or is started again whenever it
\* ended, every RUNNING row is ended, so that new runs can start.
RunsEnd ==
    []<>(server = "up") =>
        \A r \in Ids : (status[r] = "RUNNING") ~> (status[r] # "RUNNING")

\* db.py, _mark_orphaned_discovery_runs_failed: whatever failed before, restarts
\* end every RUNNING row.
RestartEndsRuns ==
    []<>(server = "up") /\ []<>(server = "down") =>
        \A r \in Ids : (status[r] = "RUNNING") ~> (status[r] # "RUNNING")

\* AutoDiscoveryScheduler.stop: a shutdown that began ends.
StopCompletes == (server = "stopping") ~> (server = "down")

\* One engine at a time, and none twice for the same run.
Engines == {r \in Ids : task[r] # "none"}

Promise == INSTANCE SingleRun WITH
    Runs <- Ids,
    active <- IF Engines = {} THEN None ELSE CHOOSE r \in Engines : TRUE,
    past <- {r \in 1 .. lastId : task[r] = "none"}

\* The rows, the scheduler and the endpoints implement the abstract promise,
\* through restarts and shutdowns.
OneEngineAtATime == Promise!Spec
=============================================================================
