--------------------------- MODULE DiscoveryRunsProofs ---------------------------
(***************************************************************************)
(* Proofs about DiscoveryRuns, for any number of runs and delete threads.  *)
(* What relates rows to engines needs a database that never gives an id    *)
(* twice (~ReusesIds): the run runs_reused_id shows it fail otherwise.     *)
(***************************************************************************)
EXTENDS DiscoveryRuns, TLAPS

-----------------------------------------------------------------------------
(* What is true of every id the database may give.                           *)

LEMMA OneOrNone ==
    ASSUME NEW r \in Ids
    PROVE  r # None /\ r \in Nat /\ r > 0
BY RunsAssumption DEF Ids

\* Without reuse, the next id is beyond every id given so far.
LEMMA NextIdIsNew ==
    ASSUME ~ReusesIds
    PROVE  NextId = lastId + 1
BY DEF NextId

-----------------------------------------------------------------------------
(* Types.                                                                    *)

LEMMA TypesInit == Init => TypeOK
BY RunsAssumption DEF Init, TypeOK, RowStates, Ids

LEMMA TypesInsert ==
    ASSUME TypeOK, NEW stage \in {"none", "scanning"}, Insert(stage)
    PROVE  /\ status' \in [Ids -> RowStates]
           /\ lastId' \in 0 .. MaxRuns
           /\ task' \in [Ids -> {"none", "scanning", "recompute"}]
           /\ NextId \in Ids
<1>1. NextId \in Ids
  BY DEF Insert
<1>2. lastId' \in 0 .. MaxRuns
  BY <1>1, RunsAssumption DEF Insert, TypeOK, Ids
<1> QED
  BY <1>1, <1>2 DEF Insert, TypeOK, RowStates

LEMMA TypesLeaves ==
    ASSUME TypeOK, NEW r \in Ids, Leaves(r)
    PROVE  /\ lastId' \in 0 .. MaxRuns
           /\ task' \in [Ids -> {"none", "scanning", "recompute"}]
           /\ server' \in {"down", "up", "stopping"}
           /\ sched' \in {"off", "sleep", "await"}
           /\ autoRun' \in Ids \union {None}
           /\ doomed' \in [Deleters -> SUBSET Ids]
BY DEF Leaves, TypeOK

LEMMA TypesGone ==
    ASSUME TypeOK, ProcessGone
    PROVE  TypeOK'
BY DEF ProcessGone, TypeOK

LEMMA TypesStep == TypeOK /\ [Next]_vars => TypeOK'
<1> SUFFICES ASSUME TypeOK, [Next]_vars PROVE TypeOK'
  OBVIOUS
<1>1. CASE Boot
  BY <1>1 DEF Boot, OrphansFailed, TypeOK, RowStates
<1>2. CASE Crash \/ LoopCloses
  BY <1>2, TypesGone DEF Crash, LoopCloses
<1>3. CASE StopScheduler
  <2>1. status' \in [Ids -> RowStates] /\ task' \in [Ids -> {"none", "scanning", "recompute"}]
    BY <1>3 DEF StopScheduler, Cancelled, TypeOK, RowStates
  <2> QED
    BY <1>3, <2>1 DEF StopScheduler, TypeOK
<1>4. CASE CancelIsLost
  BY <1>4 DEF CancelIsLost, TypeOK
<1>5. CASE Start
  BY <1>5, TypesInsert DEF Start, Insert, TypeOK
<1>6. CASE StartRaises
  BY <1>6, TypesInsert DEF StartRaises, Insert, TypeOK
<1>7. CASE AutoStart
  BY <1>7, TypesInsert DEF AutoStart, Insert, TypeOK
<1>8. ASSUME NEW r \in Ids, EngineEnds(r) PROVE TypeOK'
  <2>1. CASE Complete(r)
    BY <2>1 DEF Complete, Written, TypeOK, RowStates
  <2>2. CASE Fail(r)
    <3>1. status' \in [Ids -> RowStates]
      BY <2>2 DEF Fail, Written, TypeOK, RowStates
    <3> QED
      BY <2>2, <3>1, TypesLeaves DEF Fail, TypeOK
  <2>3. CASE Recompute(r) \/ HandlerFails(r)
    BY <2>3, TypesLeaves DEF Recompute, HandlerFails, TypeOK
  <2> QED
    BY <1>8, <2>1, <2>2, <2>3 DEF EngineEnds
<1>9. ASSUME NEW d \in Deleters, Delete(d) PROVE TypeOK'
  BY <1>9 DEF Delete, TypeOK, RowStates
<1>10. ASSUME NEW d \in Deleters, NEW ids \in SUBSET Ids, Select(d, ids) PROVE TypeOK'
  BY <1>10 DEF Select, TypeOK
<1>11. CASE UNCHANGED vars
  BY <1>11 DEF vars, TypeOK
<1> QED
  BY <1>1, <1>2, <1>3, <1>4, <1>5, <1>6, <1>7, <1>8, <1>9, <1>10, <1>11 DEF Next, Moves, Faults, EngineEnds

\* The variables have their types in every reachable state.
THEOREM RunsTypeCorrect == Spec => []TypeOK
<1> QED
  BY TypesInit, TypesStep, PTL DEF Spec

-----------------------------------------------------------------------------
(* One RUNNING row: the check and the insert are not separated by an await.  *)

LEMMA SingleStep == TypeOK /\ SingleRunning /\ [Next]_vars => SingleRunning'
<1> SUFFICES ASSUME TypeOK, SingleRunning, [Next]_vars PROVE SingleRunning'
  OBVIOUS
<1>1. ASSUME Running' \subseteq Running PROVE SingleRunning'
  BY <1>1 DEF SingleRunning
<1>2. ASSUME NEW stage, Insert(stage) PROVE SingleRunning'
  <2>1. Running' \subseteq {NextId}
    BY <1>2 DEF Insert, Running, TypeOK
  <2> QED
    BY <2>1 DEF SingleRunning
<1>3. CASE Boot
  BY <1>1, <1>3 DEF Boot, OrphansFailed, Running
<1>4. CASE Crash \/ LoopCloses \/ CancelIsLost
  BY <1>1, <1>4 DEF Crash, LoopCloses, ProcessGone, CancelIsLost, Running
<1>5. CASE StopScheduler
  BY <1>1, <1>5 DEF StopScheduler, Cancelled, Running, TypeOK
<1>6. CASE Start \/ StartRaises \/ AutoStart
  BY <1>2, <1>6 DEF Start, StartRaises, AutoStart
<1>7. ASSUME NEW r \in Ids, EngineEnds(r) PROVE SingleRunning'
  BY <1>1, <1>7 DEF EngineEnds, Complete, Fail, Recompute, HandlerFails, Written, Running, TypeOK
<1>8. ASSUME NEW d \in Deleters, Delete(d) PROVE SingleRunning'
  BY <1>1, <1>8 DEF Delete, Running
<1>9. ASSUME NEW d \in Deleters, NEW ids \in SUBSET Ids, Select(d, ids) PROVE SingleRunning'
  BY <1>1, <1>9 DEF Select, Running
<1>10. CASE UNCHANGED vars
  BY <1>1, <1>10 DEF vars, Running
<1> QED
  BY <1>3, <1>4, <1>5, <1>6, <1>7, <1>8, <1>9, <1>10 DEF Next, Moves, Faults, EngineEnds

\* Never two rows are RUNNING, whatever fails and however ids are given.
THEOREM SingleRunningCorrect == Spec => []SingleRunning
<1>1. Init => SingleRunning
  BY DEF Init, SingleRunning, Running
<1> QED
  BY <1>1, TypesInit, TypesStep, SingleStep, PTL DEF Spec

-----------------------------------------------------------------------------
(* Rows and engines, where ids are not reused.  A delete request goes on     *)
(* with what it read; the invariant says why that does no harm: an id it     *)
(* holds has been given and its run has ended, and no id is given twice.     *)

Unborn == \A r \in Ids : r > lastId => task[r] = "none"

DoomedEnded ==
    \A d \in Deleters : \A r \in doomed[d] : r <= lastId /\ status[r] # "RUNNING"

OneEngine == \A r, s \in Engines : r = s

RunsInv ==
    /\ TypeOK
    /\ TaskHasRow
    /\ Unborn
    /\ DoomedEnded
    /\ (\A r \in Ids : status[r] # "absent" => r <= lastId)
    /\ OneEngine
    /\ SchedulerFollowsRun
    /\ (server = "down" => Engines = {})

LEMMA RunsInit == Init => RunsInv
<1> SUFFICES ASSUME Init PROVE RunsInv
  OBVIOUS
<1>1. TypeOK
  BY TypesInit
<1> QED
  BY <1>1 DEF RunsInv, Init, TaskHasRow, Unborn, DoomedEnded, OneEngine, Engines,
              SchedulerFollowsRun

\* Whoever inserts a row finds no engine at work, so the scheduler waits for none.
LEMMA InsertAlone ==
    ASSUME RunsInv, NEW stage, Insert(stage)
    PROVE  Engines = {} /\ autoRun = None
<1>1. Engines = {}
  BY DEF RunsInv, TypeOK, Insert, LoopIsFree, TaskHasRow, Running, Engines
<1>2. autoRun = None
  BY <1>1 DEF RunsInv, TypeOK, SchedulerFollowsRun, Engines
<1> QED
  BY <1>1, <1>2

LEMMA InsertStep ==
    ASSUME ~ReusesIds, RunsInv, TypeOK',
           NEW stage \in {"none", "scanning"}, Insert(stage)
    PROVE  /\ TaskHasRow' /\ Unborn' /\ DoomedEnded' /\ OneEngine'
           /\ (\A r \in Ids : status[r] # "absent" => r <= lastId)'
           /\ Engines' = IF stage = "none" THEN {} ELSE {NextId}
           /\ NextId \in Ids /\ task'[NextId] = stage
<1>1. NextId = lastId + 1 /\ NextId \in Ids /\ lastId \in Nat
  BY NextIdIsNew DEF Insert, RunsInv, TypeOK
<1>2. lastId' = lastId + 1
  BY <1>1 DEF Insert
<1>3. Engines = {}
  BY InsertAlone
<1>4. status' = [status EXCEPT ![NextId] = "RUNNING"] /\ task' = [task EXCEPT ![NextId] = stage]
  BY DEF Insert
<1>5. Engines' = IF stage = "none" THEN {} ELSE {NextId}
  BY <1>1, <1>3, <1>4 DEF Engines, RunsInv, TypeOK
<1>6. OneEngine'
  BY <1>5 DEF OneEngine
<1>7. TaskHasRow'
  BY <1>1, <1>4 DEF RunsInv, TypeOK, TaskHasRow
<1>8. Unborn'
  BY <1>1, <1>2, <1>4 DEF RunsInv, TypeOK, Unborn, Ids
<1>9. DoomedEnded'
  <2> SUFFICES ASSUME NEW d \in Deleters, NEW r \in doomed'[d]
               PROVE  r <= lastId' /\ status'[r] # "RUNNING"
    BY DEF DoomedEnded
  <2>1. r \in doomed[d] /\ r \in Ids
    BY DEF Insert, RunsInv, TypeOK
  <2>2. r <= lastId /\ status[r] # "RUNNING"
    BY <2>1 DEF RunsInv, DoomedEnded
  <2> QED
    BY <1>1, <1>2, <1>4, <2>1, <2>2 DEF RunsInv, TypeOK, Ids
<1>10. (\A r \in Ids : status[r] # "absent" => r <= lastId)'
  BY <1>1, <1>2, <1>4 DEF RunsInv, TypeOK, Ids
<1> QED
  BY <1>1, <1>4, <1>5, <1>6, <1>7, <1>8, <1>9, <1>10 DEF RunsInv, TypeOK

\* A step that ends engines, or none, and makes no row RUNNING.
LEMMA EndingStep ==
    ASSUME RunsInv, TypeOK', lastId' = lastId, Engines' \subseteq Engines,
           \A r \in Ids : task'[r] = "scanning" => task[r] = "scanning" /\ status'[r] = status[r],
           \A r \in Ids : status'[r] # status[r] => status'[r] # "RUNNING" /\ status[r] # "absent",
           \A d \in Deleters : doomed'[d] \subseteq doomed[d]
    PROVE  /\ TaskHasRow' /\ Unborn' /\ DoomedEnded' /\ OneEngine'
           /\ (\A r \in Ids : status[r] # "absent" => r <= lastId)'
<1>1. TaskHasRow'
  BY DEF RunsInv, TaskHasRow
<1>2. Unborn'
  BY DEF RunsInv, Unborn, Engines, TypeOK
<1>3. DoomedEnded'
  BY DEF RunsInv, DoomedEnded, TypeOK
<1>4. OneEngine'
  BY DEF RunsInv, OneEngine
<1>5. (\A r \in Ids : status[r] # "absent" => r <= lastId)'
  BY DEF RunsInv
<1> QED
  BY <1>1, <1>2, <1>3, <1>4, <1>5

LEMMA LeavesStep ==
    ASSUME RunsInv, TypeOK', NEW r \in Ids, Leaves(r), task[r] # "none",
           \/ UNCHANGED status
           \/ status' = Written(r, "FAILED")
    PROVE  RunsInv'
<1>1. Engines' = Engines \ {r}
  BY DEF Leaves, Engines, RunsInv, TypeOK
<1>2. /\ \A s \in Ids : task'[s] = "scanning" => task[s] = "scanning" /\ status'[s] = status[s]
      /\ \A s \in Ids : status'[s] # status[s] => status'[s] # "RUNNING" /\ status[s] # "absent"
  BY DEF Leaves, Written, RunsInv, TypeOK
<1>3. SchedulerFollowsRun'
  BY OneOrNone DEF Leaves, SchedulerFollowsRun, RunsInv, TypeOK
<1>4. (server = "down" => Engines = {})'
  BY <1>1 DEF Leaves, RunsInv
<1> QED
  BY <1>1, <1>2, <1>3, <1>4, EndingStep DEF Leaves, RunsInv

LEMMA GoneStep ==
    ASSUME RunsInv, TypeOK', ProcessGone
    PROVE  RunsInv'
<1>1. Engines' = {}
  BY DEF ProcessGone, Engines
<1>2. SchedulerFollowsRun'
  BY DEF ProcessGone, SchedulerFollowsRun
<1>3. \A d \in Deleters : doomed'[d] \subseteq doomed[d]
  BY DEF ProcessGone
<1> QED
  BY <1>1, <1>2, <1>3, EndingStep DEF ProcessGone, RunsInv

LEMMA RunsStep ==
    ASSUME ~ReusesIds
    PROVE  RunsInv /\ [Next]_vars => RunsInv'
<1> SUFFICES ASSUME RunsInv, [Next]_vars PROVE RunsInv'
  OBVIOUS
<1>0. TypeOK'
  BY TypesStep DEF RunsInv
<1>1. CASE Boot
  <2>1. Engines' = {} /\ Engines = {}
    BY <1>1 DEF Boot, RunsInv, Engines
  <2>2. \A r \in Ids : task'[r] = "none" /\ task[r] = "none"
    BY <2>1 DEF Engines
  <2>3. SchedulerFollowsRun'
    BY <1>1, <2>2 DEF Boot, SchedulerFollowsRun, RunsInv, TypeOK
  <2>4. \A r \in Ids : status'[r] # status[r] => status'[r] # "RUNNING" /\ status[r] # "absent"
    BY <1>1 DEF Boot, OrphansFailed, Running
  <2> QED
    BY <1>0, <1>1, <2>1, <2>2, <2>3, <2>4, EndingStep DEF Boot, RunsInv
<1>2. CASE Crash \/ LoopCloses
  BY <1>0, <1>2, GoneStep DEF Crash, LoopCloses
<1>3. CASE StopScheduler
  <2>1. Engines' \subseteq Engines
    BY <1>3 DEF StopScheduler, Engines, RunsInv, TypeOK
  <2>2. /\ \A s \in Ids : task'[s] = "scanning" => task[s] = "scanning" /\ status'[s] = status[s]
        /\ \A s \in Ids : status'[s] # status[s] => status'[s] # "RUNNING" /\ status[s] # "absent"
    BY <1>3 DEF StopScheduler, Cancelled, RunsInv, TypeOK, SchedulerFollowsRun
  <2>3. SchedulerFollowsRun' /\ server' # "down"
    BY <1>3 DEF StopScheduler, SchedulerFollowsRun
  <2> QED
    BY <1>0, <1>3, <2>1, <2>2, <2>3, EndingStep DEF StopScheduler, RunsInv
<1>4. CASE CancelIsLost
  <2>1. Engines' \subseteq Engines
    BY <1>4 DEF CancelIsLost, Engines, RunsInv, TypeOK
  <2>2. \A s \in Ids : task'[s] = "scanning" => task[s] = "scanning"
    BY <1>4 DEF CancelIsLost, RunsInv, TypeOK
  <2>3. SchedulerFollowsRun' /\ server' # "down"
    BY <1>4 DEF CancelIsLost, SchedulerFollowsRun
  <2> QED
    BY <1>0, <1>4, <2>1, <2>2, <2>3, EndingStep DEF CancelIsLost, RunsInv
<1>5. CASE Start
  <2>1. Insert("scanning")
    BY <1>5 DEF Start
  <2>2. SchedulerFollowsRun' /\ server' # "down"
    BY <1>5, <2>1, InsertAlone DEF Start, Insert, SchedulerFollowsRun, RunsInv
  <2> QED
    BY <1>0, <2>1, <2>2, InsertStep DEF RunsInv
<1>6. CASE StartRaises
  <2>1. Insert("none")
    BY <1>6 DEF StartRaises
  <2>2. SchedulerFollowsRun' /\ server' # "down"
    BY <1>6, <2>1, InsertAlone DEF StartRaises, Insert, SchedulerFollowsRun, RunsInv
  <2> QED
    BY <1>0, <2>1, <2>2, InsertStep DEF RunsInv
<1>7. CASE AutoStart
  <2>1. Insert("scanning")
    BY <1>7 DEF AutoStart
  <2>2. NextId \in Ids /\ task'[NextId] = "scanning"
    BY <1>0, <2>1, InsertStep
  <2>3. SchedulerFollowsRun' /\ server' # "down"
    BY <1>7, <2>1, <2>2, OneOrNone DEF AutoStart, Insert, SchedulerFollowsRun
  <2> QED
    BY <1>0, <2>1, <2>3, InsertStep DEF RunsInv
<1>8. ASSUME NEW r \in Ids, EngineEnds(r) PROVE RunsInv'
  <2>1. CASE Complete(r)
    <3>1. Engines' = Engines
      BY <2>1 DEF Complete, Engines, RunsInv, TypeOK
    <3>2. /\ \A s \in Ids : task'[s] = "scanning" => task[s] = "scanning" /\ status'[s] = status[s]
          /\ \A s \in Ids : status'[s] # status[s] => status'[s] # "RUNNING" /\ status[s] # "absent"
      BY <2>1 DEF Complete, Written, RunsInv, TypeOK
    <3>3. SchedulerFollowsRun'
      BY <2>1 DEF Complete, SchedulerFollowsRun, RunsInv, TypeOK
    <3> QED
      BY <1>0, <2>1, <3>1, <3>2, <3>3, EndingStep DEF Complete, RunsInv
  <2>2. CASE Fail(r)
    BY <1>0, <2>2, LeavesStep DEF Fail, CanEnd
  <2>3. CASE Recompute(r) \/ HandlerFails(r)
    BY <1>0, <2>3, LeavesStep DEF Recompute, HandlerFails, CanEnd
  <2> QED
    BY <1>8, <2>1, <2>2, <2>3 DEF EngineEnds
<1>9. ASSUME NEW d \in Deleters, Delete(d) PROVE RunsInv'
  <2>1. Engines' = Engines /\ SchedulerFollowsRun'
    BY <1>9 DEF Delete, Engines, SchedulerFollowsRun, RunsInv
  <2>2. \A s \in Ids : s \in doomed[d] => status[s] # "RUNNING"
    BY DEF RunsInv, DoomedEnded
  <2>3. /\ \A s \in Ids : task'[s] = "scanning" => task[s] = "scanning" /\ status'[s] = status[s]
        /\ \A s \in Ids : status'[s] # status[s] => status'[s] # "RUNNING" /\ status[s] # "absent"
    BY <1>9, <2>2 DEF Delete, RunsInv, TaskHasRow
  <2>4. \A e \in Deleters : doomed'[e] \subseteq doomed[e]
    BY <1>9 DEF Delete, RunsInv, TypeOK
  <2> QED
    BY <1>0, <1>9, <2>1, <2>3, <2>4, EndingStep DEF Delete, RunsInv
<1>10. ASSUME NEW d \in Deleters, NEW ids \in SUBSET Ids, Select(d, ids) PROVE RunsInv'
  <2>1. DoomedEnded'
    <3>1. \A r \in ids : r <= lastId /\ status[r] # "RUNNING"
      BY <1>10 DEF Select, Deletable, Present, Running, RunsInv
    <3> QED
      BY <1>10, <3>1 DEF Select, DoomedEnded, RunsInv, TypeOK
  <2> QED
    BY <1>0, <1>10, <2>1
    DEF Select, RunsInv, TaskHasRow, Unborn, OneEngine, Engines, SchedulerFollowsRun
<1>11. CASE UNCHANGED vars
  BY <1>0, <1>11
  DEF vars, RunsInv, TaskHasRow, Unborn, DoomedEnded, OneEngine, Engines, SchedulerFollowsRun
<1> QED
  BY <1>1, <1>2, <1>3, <1>4, <1>5, <1>6, <1>7, <1>8, <1>9, <1>10, <1>11 DEF Next, Moves, Faults, EngineEnds

LEMMA RunsInvariant ==
    ASSUME ~ReusesIds
    PROVE  Spec => []RunsInv
<1> QED
  BY RunsInit, RunsStep, PTL DEF Spec

\* The row of an engine at work is there and RUNNING.
THEOREM TaskHasRowCorrect ==
    ASSUME ~ReusesIds
    PROVE  Spec => []TaskHasRow
<1>1. RunsInv => TaskHasRow
  BY DEF RunsInv
<1> QED
  BY <1>1, RunsInvariant, PTL

\* The scheduler awaits a run exactly as long as its engine lives.
THEOREM SchedulerCorrect ==
    ASSUME ~ReusesIds
    PROVE  Spec => []SchedulerFollowsRun
<1>1. RunsInv => SchedulerFollowsRun
  BY DEF RunsInv
<1> QED
  BY <1>1, RunsInvariant, PTL

-----------------------------------------------------------------------------
(* A RUNNING row is never deleted.                                           *)

LEMMA KeptStep ==
    ASSUME RunsInv, [Next]_vars
    PROVE  \A r \in Ids : status[r] = "RUNNING" => status'[r] # "absent"
<1> SUFFICES ASSUME NEW r \in Ids, status[r] = "RUNNING" PROVE status'[r] # "absent"
  OBVIOUS
<1>1. TypeOK /\ DoomedEnded
  BY DEF RunsInv
<1>2. CASE Boot
  BY <1>1, <1>2 DEF Boot, OrphansFailed, Running
<1>3. CASE Crash \/ LoopCloses \/ CancelIsLost
  BY <1>3 DEF Crash, LoopCloses, ProcessGone, CancelIsLost
<1>4. CASE StopScheduler
  BY <1>1, <1>4 DEF StopScheduler, Cancelled, TypeOK
<1>5. CASE Start \/ StartRaises \/ AutoStart
  BY <1>1, <1>5 DEF Start, StartRaises, AutoStart, Insert, TypeOK
<1>6. ASSUME NEW s \in Ids, EngineEnds(s) PROVE status'[r] # "absent"
  BY <1>1, <1>6 DEF EngineEnds, Complete, Fail, Recompute, HandlerFails, Written, TypeOK
<1>7. ASSUME NEW d \in Deleters, Delete(d) PROVE status'[r] # "absent"
  BY <1>1, <1>7 DEF Delete, DoomedEnded
<1>8. ASSUME NEW d \in Deleters, NEW ids \in SUBSET Ids, Select(d, ids)
      PROVE  status'[r] # "absent"
  BY <1>8 DEF Select
<1>9. CASE UNCHANGED vars
  BY <1>9 DEF vars
<1> QED
  BY <1>2, <1>3, <1>4, <1>5, <1>6, <1>7, <1>8, <1>9 DEF Next, Moves, Faults, EngineEnds

\* No delete request takes away a row that is RUNNING when it commits.
THEOREM RunningRowKeptCorrect ==
    ASSUME ~ReusesIds
    PROVE  Spec => RunningRowKept
<1>1. RunsInv /\ [Next]_vars => [\A r \in Ids : status[r] = "RUNNING" => status'[r] # "absent"]_vars
  BY KeptStep
<1> QED
  BY <1>1, RunsInvariant, PTL DEF Spec, RunningRowKept

-----------------------------------------------------------------------------
(* Every RUNNING row of a live process has its engine, if engines can be     *)
(* constructed and the handlers' commits succeed.                            *)

LEMMA HasTaskStep ==
    ASSUME ~BadNetworks, ~DbMayFail
    PROVE  TypeOK /\ RunningHasTask /\ [Next]_vars => RunningHasTask'
<1> SUFFICES ASSUME TypeOK, RunningHasTask, [Next]_vars PROVE RunningHasTask'
  OBVIOUS
<1>1. CASE Boot
  BY <1>1 DEF Boot, OrphansFailed, RunningHasTask, Running
<1>2. CASE Crash \/ LoopCloses
  BY <1>2 DEF Crash, LoopCloses, ProcessGone, RunningHasTask
<1>3. CASE StopScheduler
  BY <1>3 DEF StopScheduler, Cancelled, RunningHasTask, Running, TypeOK
<1>4. CASE CancelIsLost \/ StartRaises
  BY <1>4 DEF CancelIsLost, StartRaises
<1>5. CASE Start \/ AutoStart
  <2>1. Insert("scanning")
    BY <1>5 DEF Start, AutoStart
  <2>2. Running' \subseteq {NextId} /\ task'[NextId] = "scanning"
    BY <2>1 DEF Insert, Running, TypeOK
  <2> QED
    BY <2>2 DEF RunningHasTask
<1>6. ASSUME NEW r \in Ids, EngineEnds(r) PROVE RunningHasTask'
  <2>1. server' = server /\ \A s \in Ids : s # r => task'[s] = task[s] /\ status'[s] = status[s]
    BY <1>6 DEF EngineEnds, Complete, Fail, Recompute, HandlerFails, Leaves, Written, TypeOK
  <2>2. server # "down" => status'[r] # "RUNNING"
    BY <1>6 DEF EngineEnds, Complete, Fail, Recompute, HandlerFails, Written, TypeOK,
                RunningHasTask, Running
  <2> QED
    BY <2>1, <2>2 DEF RunningHasTask, Running
<1>7. ASSUME NEW d \in Deleters, Delete(d) PROVE RunningHasTask'
  BY <1>7 DEF Delete, RunningHasTask, Running
<1>8. ASSUME NEW d \in Deleters, NEW ids \in SUBSET Ids, Select(d, ids)
      PROVE  RunningHasTask'
  BY <1>8 DEF Select, RunningHasTask, Running
<1>9. CASE UNCHANGED vars
  BY <1>9 DEF vars, RunningHasTask, Running
<1> QED
  BY <1>1, <1>2, <1>3, <1>4, <1>5, <1>6, <1>7, <1>8, <1>9 DEF Next, Moves, Faults, EngineEnds

\* A RUNNING row is one an engine of this process goes on updating.
THEOREM RunningHasTaskCorrect ==
    ASSUME ~BadNetworks, ~DbMayFail
    PROVE  Spec => []RunningHasTask
<1>1. Init => RunningHasTask
  BY DEF Init, RunningHasTask
<1> QED
  BY <1>1, TypesInit, TypesStep, HasTaskStep, PTL DEF Spec

-----------------------------------------------------------------------------
(* The refinement.                                                           *)

activeBar == IF Engines = {} THEN None ELSE CHOOSE r \in Engines : TRUE
pastBar == {r \in 1 .. lastId : task[r] = "none"}

LEMMA ActiveIs ==
    ASSUME NEW r, Engines = {r}
    PROVE  activeBar = r
BY DEF activeBar

LEMMA ActiveIsPrime ==
    ASSUME NEW r, Engines' = {r}
    PROVE  activeBar' = r
BY DEF activeBar

LEMMA GivenIsId ==
    ASSUME TypeOK
    PROVE  1 .. lastId \subseteq Ids
BY RunsAssumption DEF TypeOK, Ids

\* The engines stay as they are: a stutter of the abstract specification.
LEMMA Stutters ==
    ASSUME UNCHANGED <<task, lastId>>
    PROVE  activeBar' = activeBar /\ pastBar' = pastBar
BY DEF activeBar, pastBar, Engines

\* The engine of r ends, or is the one that is left.
LEMMA EndMaps ==
    ASSUME RunsInv, TypeOK', lastId' = lastId, NEW r \in Ids, task[r] # "none",
           task' = [task EXCEPT ![r] = "none"]
    PROVE  Promise!End
<1>1. Engines = {r}
  BY DEF RunsInv, OneEngine, Engines
<1>2. Engines' = {}
  BY <1>1 DEF Engines, RunsInv, TypeOK
<1>3. activeBar = r /\ activeBar' = None
  BY <1>1, <1>2, ActiveIs DEF activeBar
<1>4. r \in 1 .. lastId
  BY OneOrNone DEF RunsInv, Unborn, TypeOK, Ids
<1>5. pastBar' = pastBar \union {r}
  BY <1>4, GivenIsId DEF pastBar, RunsInv, TypeOK
<1> QED
  BY <1>3, <1>5, OneOrNone DEF Promise!End, activeBar, pastBar

LEMMA AllGoneMaps ==
    ASSUME RunsInv, TypeOK', ProcessGone
    PROVE  Promise!End \/ UNCHANGED <<activeBar, pastBar>>
<1>1. CASE Engines = {}
  <2>1. task' = task
    BY <1>1 DEF ProcessGone, Engines, RunsInv, TypeOK
  <2> QED
    BY <2>1, Stutters DEF ProcessGone
<1>2. CASE Engines # {}
  <2>1. PICK r \in Ids : r \in Engines
    BY <1>2 DEF Engines
  <2>2. \A s \in Ids : s # r => task[s] = "none"
    BY <2>1 DEF RunsInv, OneEngine, Engines
  <2>3. task' = [task EXCEPT ![r] = "none"]
    BY <2>2 DEF ProcessGone, RunsInv, TypeOK
  <2> QED
    BY <2>1, <2>3, EndMaps DEF ProcessGone, Engines
<1> QED
  BY <1>1, <1>2

LEMMA InsertMaps ==
    ASSUME ~ReusesIds, RunsInv, TypeOK', NEW stage \in {"none", "scanning"}, Insert(stage)
    PROVE  Promise!Next
<1>1. NextId = lastId + 1 /\ NextId \in Ids /\ lastId \in Nat /\ lastId' = lastId + 1
  BY NextIdIsNew DEF Insert, RunsInv, TypeOK
<1>2. Engines = {} /\ Engines' = IF stage = "none" THEN {} ELSE {NextId}
  BY InsertAlone, InsertStep
<1>3. activeBar = None /\ NextId \notin pastBar
  BY <1>1, <1>2 DEF activeBar, pastBar
<1>4. \A s \in 1 .. lastId : task'[s] = task[s]
  BY <1>1, GivenIsId DEF Insert, RunsInv, TypeOK
<1>5. task'[NextId] = stage
  BY InsertStep
<1>6. CASE stage = "scanning"
  <2>1. activeBar' = NextId
    BY <1>2, <1>6, ActiveIsPrime
  <2>2. pastBar' = pastBar
    BY <1>1, <1>4, <1>5, <1>6 DEF pastBar
  <2>3. Promise!Begin(NextId)
    BY <1>3, <2>1, <2>2 DEF Promise!Begin, activeBar, pastBar
  <2> QED
    BY <1>1, <2>3 DEF Promise!Next, Promise!Begin
<1>7. CASE stage = "none"
  <2>1. activeBar' = None
    BY <1>2, <1>7 DEF activeBar
  <2>2. pastBar' = pastBar \union {NextId}
    BY <1>1, <1>4, <1>5, <1>7 DEF pastBar
  <2>3. Promise!Waste(NextId)
    BY <1>3, <2>1, <2>2 DEF Promise!Waste, activeBar, pastBar
  <2> QED
    BY <1>1, <2>3 DEF Promise!Next, Promise!Waste
<1> QED
  BY <1>6, <1>7

LEMMA StepMaps ==
    ASSUME ~ReusesIds, RunsInv, RunsInv', [Next]_vars
    PROVE  Promise!Next \/ UNCHANGED <<activeBar, pastBar>>
<1>0. TypeOK /\ TypeOK'
  BY DEF RunsInv
<1>1. CASE UNCHANGED <<task, lastId>>
  BY <1>1, Stutters
<1>2. CASE Crash \/ LoopCloses
  BY <1>0, <1>2, AllGoneMaps DEF Crash, LoopCloses, Promise!Next
<1>3. CASE StopScheduler \/ CancelIsLost
  <2>1. CASE sched = "await"
    <3>1. autoRun \in Ids /\ task[autoRun] # "none"
      BY <1>0, <2>1 DEF RunsInv, SchedulerFollowsRun, TypeOK
    <3>2. lastId' = lastId /\ task' = [task EXCEPT ![autoRun] = "none"]
      BY <1>3, <2>1 DEF StopScheduler, CancelIsLost
    <3> QED
      BY <1>0, <3>1, <3>2, EndMaps DEF Promise!Next
  <2>2. CASE sched # "await"
    BY <1>1, <1>3, <2>2 DEF StopScheduler, CancelIsLost
  <2> QED
    BY <2>1, <2>2
<1>4. CASE Start \/ AutoStart \/ StartRaises
  BY <1>0, <1>4, InsertMaps DEF Start, AutoStart, StartRaises
<1>5. ASSUME NEW r \in Ids, EngineEnds(r)
      PROVE  Promise!Next \/ UNCHANGED <<activeBar, pastBar>>
  <2>1. CASE Complete(r)
    <3>1. \A s \in Ids : (task'[s] = "none") = (task[s] = "none")
      BY <1>0, <2>1 DEF Complete, TypeOK
    <3>2. Engines' = Engines /\ lastId' = lastId
      BY <2>1, <3>1 DEF Complete, Engines
    <3> QED
      BY <1>0, <3>1, <3>2, GivenIsId DEF activeBar, pastBar
  <2>2. CASE Fail(r) \/ Recompute(r) \/ HandlerFails(r)
    BY <1>0, <2>2, EndMaps
    DEF Fail, Recompute, HandlerFails, CanEnd, Leaves, Promise!Next
  <2> QED
    BY <1>5, <2>1, <2>2 DEF EngineEnds
<1>6. CASE Boot \/ (\E d \in Deleters : Delete(d) \/ \E ids \in SUBSET Ids : Select(d, ids))
  BY <1>1, <1>6 DEF Boot, Delete, Select
<1>7. CASE UNCHANGED vars
  BY <1>1, <1>7 DEF vars
<1> QED
  BY <1>2, <1>3, <1>4, <1>5, <1>6, <1>7 DEF Next, Moves, Faults, EngineEnds

\* The rows, the scheduler and the endpoints implement SingleRun.
THEOREM RunsImplementPromise ==
    ASSUME ~ReusesIds
    PROVE  Spec => OneEngineAtATime
<1>1. Init => Promise!Init
  BY RunsAssumption DEF Init, Promise!Init, Engines, Ids
<1>2. RunsInv /\ RunsInv' /\ [Next]_vars
        => [Promise!Next]_<<IF Engines = {} THEN None ELSE CHOOSE r \in Engines : TRUE,
                           {r \in 1 .. lastId : task[r] = "none"}>>
  BY StepMaps DEF activeBar, pastBar
<1> QED
  BY <1>1, <1>2, RunsInvariant, PTL DEF Spec, OneEngineAtATime, Promise!Spec
=============================================================================
