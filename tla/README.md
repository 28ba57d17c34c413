# Verification of the NMS core server

TLA+ models of the NMS core server (`src/backend`), the TLC runs that check them on
small instances, and TLAPS proofs of what should hold for every instance.

The server discovers a network (ICMP, SNMP, ARP), stores devices, ports and neighbour
tables in SQLite, derives topology and device roles from them, lets an operator switch
ports, and derives alarms. It is one Python process with one asyncio event loop. Plain
`def` endpoints run in a thread pool; `async def` endpoints, the automatic scheduler and
the discovery workers share the loop.

## Inventory

Paths are under `src/backend/app/`.

| Component | State | Operations | Interacts with | Hard parts | Correct when |
|---|---|---|---|---|---|
| Discovery worker pool, `discovery/engine.py` `run`, `_run_workers` | queue, `visited_ips`, `in_flight`, `stop`, one `discovery_run` row | take, claim, scan, release, expand, join, final commit | device scan, topology recompute, lifecycle | several sessions write one row; commits and queries fail; cancellation at `join` | exact counters, no host twice, nothing lost, the run ends |
| Run lifecycle, `api/routes_discovery.py`, `discovery/scheduler.py`, `main.py`, `db.py` | `discovery_run` rows, engine tasks, the scheduler's task | start, automatic start, delete, stop, start-up clean-up | pool, database | event loop against delete threads; crash; shutdown during a scan | one engine at a time, rows and engines agree, no row stuck |
| Device scan, `discovery/engine.py` `_process_host`, `_ingest_snmp` | device, interface, ARP, FDB, LLDP rows | ingest one host's answer | identity, classification, config history | awaits between commits; lost walks; narrow profiles | a narrower scan takes nothing back, nor a farther one of a depth other than 0; PoE rows and type come to agree |
| Identity, `identity.py` | `network_device` rows | match, merge, create, age | device scan | priority of keys; the same device over two addresses; depth 0 | one row per chassis, one machine per row |
| Topology, `topology/engine.py` | `network_link`, evidence | infer links, merge, age, prune, recompute | device tables, manual links, roles | order of evidence; parallel links; ageing; several sessions; excluded addresses | one row per cable, evidence and labels kept, recomputing twice changes nothing |
| Roles, `topology/engine.py`, `classification/` | `device_role`, `role_source` | score, classify, manual override | topology | scores depend on the roles stored before | roles come to rest, manual wins, no core without layer 3 |
| Device types, `classification/device_type.py`, `oui.py` | none | classify | device scan | caps, threshold and margin against each other | confirmed means clear, one lost item does not flip the kind |
| Device control, `control/` | port state, `device_control_log` | port, PoE, VLAN, description | config history, driver | awaits between read, SET, re-read and log; PoE numbers that are not ifIndexes | log and stored state tell what happened, protected ports hold |
| Config history and restore, `config_history.py`, `control/config_restore.py` | `config_change_log` | record, restore | control, identity, roles | restoring an overtaken change | every change of a stored value is recorded |
| Alarms, `alarms.py`, `api/routes_alarms.py` | `dismissed_alarm` | derive, suppress, dismiss | all stored state | reads of one request between the writes of others | a root cause is shown, counts add up, a new outage shows |
| Start-up and migrations, `db.py` | schema, `schema_version` | create, migrate, clean up | lifecycle | a crash or a second server between DDL and version row | what serves is whole, a lone start succeeds |
| Credential profiles, `credentials.py`, `security.py` | `credential_profile` | get or create, fall back | pool, control | check then insert; deletion under a run | own community, no dangling reference |
| Diagnostics, `diagnostics.py`, `l2_path.py` | none | ping, path trace, ping from a device, FDB comparison | topology | none | - |
| Collectors, `collectors/` | none | SNMP, ICMP, ARP, DNS | scan, control | walks that end early without an error; joins over bridge ports | an answer is what the device has, or less |
| Front end, scripts, other endpoints | none that the server depends on | display, start and stop | all | - | - |

`PROJECT.json` lists every component with its status, and every hazard at its line.

## Modules

| Module | Models | Proofs in |
|---|---|---|
| `DiscoveryWorkers` | one discovery run: the worker pool, from the credential profile to the final commit | `DiscoveryWorkersProofs` |
| `DiscoveryRuns` | the life of all runs in one server process, over restarts | `DiscoveryRunsProofs` |
| `SingleRun` | the abstract promise: one engine at a time, none twice for one run | `DiscoveryRunsProofs` |
| `LinkRows` | operators: what one observation does to the link rows of a pair of devices | `TopologyProofs` |
| `LinkTable` | the rows of one pair and their evidence, transaction after transaction | `TopologyProofs` |
| `LinkRace` | several database sessions storing the same cable | `TopologyProofs` |
| `Topology` | the passes of a recomputation over several devices, between scans | `TopologyProofs` |
| `Roles` | graph metrics, scores, the role pass, operators' roles | `TopologyProofs` |
| `Identity` | operators: how an observation meets the device rows | `IdentityProofs` |
| `DeviceType` | the classification of a device by scores | `DeviceScanProofs` |
| `DeviceScan` | the scan of a host, batch by batch, by several workers, and reclassification | `DeviceScanProofs` |
| `SnmpCollector` | how an answer is put together from walks; the mapping of PoE ports | `CollectorProofs` |
| `DeviceControl` | controls of ports and their PoE, restorations, the rescan of the ports | `OperationsProofs` |
| `Alarms` | the alarms page, dismissals, ageing, the logs it reads | `AlarmsProofs` |
| `Migration` | `init_db`: tables, columns, version row; crashes, a second server | `OperationsProofs` |
| `CredentialProfiles` | communities and profiles: runs, operators, deletions | `OperationsProofs` |
| `Null` | the constant for `None` and NULL | - |
| `MCTopology` | the instance of the topology's modules that is checked | `TopologyProofs` |
| `MCOperations` | the instance of what runs beside the discovery that is checked | `OperationsProofs` |
| `MCDiscoveryRuns` | the lifecycle with a record of whether a fault has happened | - |
| `MCDiscoveryWorkers`, `MCDeviceScan` | the other instances that are checked | - |

How they fit. `Topology` uses `LinkRows` for what one sighting does to the links and
`Identity` for what it does to the devices; `LinkTable` and `LinkRace` look at one pair of
devices more closely, with evidence and with transactions that overlap. `DeviceScan` uses
`Identity` for its first step and `DeviceType` for its last. `DiscoveryRuns` abstracts a
whole `DiscoveryWorkers` behaviour to the stage "scanning"; that this stage ends is what
`RunEnds` shows of the pool. The two meet at the end of an engine: `Complete`, `Fail`,
`Recompute` and `HandlerFails` of `DiscoveryRuns` are `Finish`,
`StartFails`/`FinishFails`/`RecomputeFails`, `Recompute` and `HandlerFails` of
`DiscoveryWorkers`. What a worker of the pool does inside one job is `DeviceScan`; what
"recompute" does is `Topology` followed by `Roles`.

### DiscoveryWorkers

`queue` and `unfinished` are the `asyncio.Queue` and its count of items without a
`task_done`; `visited`, `inFlight`, `stop` and `errorCount` are the closure's variables;
`job[w]` is the item a worker holds while it is suspended in `_process_host`; `view[w]` is
what the worker's SQLAlchemy session holds of the run row; `run` is the committed row.
`scans`, `answered` and `expanded` are history variables: no action reads them.

Nothing inside `async with state_lock` awaits, so a block and the synchronous code around
it is one action. `Take(w)` is everything from `queue.get()` to the call of
`_process_host`: passed over, the excluded address, host limit, claim, a claim whose commit
failed, a query that raised. `ProcessHost(w)` is everything after its return. `Main` is the
coroutine of `run()`. `Cancel` and `LoopCloses` are the scheduler's shutdown.

The row is written column by column: a commit writes the counter the session read (`Get`)
and leaves the other columns as they are in the database.

Abstracted: what a scan stores about the device; `alive_count` stands for the tallies by
type that the same commit increments; `errors` is the count of its entries; sets put into
the queue may come in any order (`Arrangements`), as Python's sets do.

### DiscoveryRuns

`status[r]` is the row with id `r`; `task[r]` its engine task; `sched` and `autoRun` the
scheduler's task and the run it awaits; `doomed[d]` the ids a delete thread has read as
deletable and not yet deleted. Two awaits delimit an action on the event loop: the check
for a RUNNING row, the insert and `create_task` are one action (`Insert`), as the code has
no await between them. After the final commit the engine recomputes the topology without
an await, so while a task is in "recompute" nothing else runs on the loop (`LoopIsFree`),
but delete threads do, and the process may crash. `Boot` is `init_db`'s clean-up and the
scheduler's start, `StopScheduler` is `AutoDiscoveryScheduler.stop` with the CANCELLED
handler, `LoopCloses` the end of the process after it, when manual runs are still scanning.

The four switches name what the environment may do: `ReusesIds` (SQLite without
AUTOINCREMENT; PostgreSQL never reuses), `BadNetworks` (a request with an unparsable
network), `DbMayFail` (the commit of an exception handler fails) and `AutoEnabled`.
Abstracted: profiles, seeds and concurrency of a request; requests that are refused change
nothing; the reset options touch no `discovery_run` row. Left out: a second server process,
which `Migration` has.

### LinkRows, LinkTable, LinkRace

The two devices are fixed, so a row is told apart by its ports. `Matches(o)` is the list of
candidates that `_compatible` leaves, `Oldest` its first element, the representative;
`Merged` is what `_get_or_create_link` makes of it: ports learnt from the observation and
then from the duplicates, confidence and source replaced together when larger, seen and UP.

In `LinkTable` an action is one call, with the flushes it causes. `links` are the rows as the
session has them, `saved` the evidence in the database, `pending` the evidence that is only
added to the session. The difference matters: a merge re-points evidence in the database
and deletes the duplicate, and evidence that the same flush inserts for the duplicate goes
with it. `Observe` is one neighbour row of a recomputation, in the order of the passes;
`Finish` the ageing and the commit; `CreateManual`, `DeleteLink` and `Clear` the operators'
requests, `Tick` the passing of time, in the two thresholds that the statuses distinguish.

In `LinkRace` a session reads the candidates (`Read`) and later flushes (`Flush`); SQLite
makes writers wait, so a flush and its commit are one step for the others. A flush fails
on `uq_link_endpoints` or on an UPDATE of a row that is gone.

### Topology, Roles

`phase` is the pass of `recompute_topology_and_roles` that is running, `todo` the rows it
has not come to. The whole recomputation runs in one transaction; it is cut into a step per
row to have the orders that the code leaves open. `shown` is a link's status in the database
and `status` the one in the session: later passes filter in SQL, before a flush has written
what ageing changed. `dirs` are the `is_uplink` and `is_downlink` marks. `Scan(h)` stores
what a host says in one step, as the recomputation never runs within one; `Exclude` is a
restart with another `TOPOLOGY_EXCLUDE_IPS`.

`Roles` has the graph as two variables, what the devices are (`kit`) and which links are not
DOWN (`live`), and changes them freely. `RolePass` is `classify_and_persist_roles`: first the
provisional cores with the roles as stored, then every device's role. Host names and
locations are abstracted to the number of them that name a floor, which is what the floor
score counts.

### Identity, DeviceType, DeviceScan

An observation carries what its caller gives: chassis, MAC, model (sysObjectID and vendor,
which counts when there is a MAC), address, depth. `Candidates` are the rows the strongest
shared identifier finds; if there are several, the database returns any of them.

`DeviceType` has the evidence as a record of what the scorers read, `Score` with the points
of each scorer, and `Classified` with the two signatures, the threshold, the margin and the
review floor. Its own next-state relation turns one item of evidence on or off.

In `DeviceScan` a worker's `job` goes from await to await of `_process_host`; the batch between two
awaits is one action that ends in a commit. A walk that goes unanswered yields nothing (`gone`), since
`_walk` does not raise. `facts` are the tables reduced to whether they have rows. `BreakOff` is a
cancellation or a failed commit, `Crash` the end of the process, `Reclassify` the endpoint. The device
type is computed by `DeviceType` from what the scan saw and what the probes told (`Evidence`, `Probes`),
and by the reclassification from what is stored.

### SnmpCollector

`box` is the device. `Table(b, t)` are the MIB tables such a device answers with, and
`Truth(b, method)` what the method should return; the joins of the code (`Interfaces`,
`Neighbours`, `Fdb`, `Pvids`, `Routes`, `Poe`) see only the rows the walks got. A walk may
end before any of its rows, and the device may change between two walks.

`IsBox` says what a device is taken to be: bridge port numbers of their own, PoE ports named after
them, two uplinks with the last numbers where the standard PoE MIB is missing. What may change in a call
leaves the ports and the MIBs (`Frame`), and an LLDP row is of one neighbour (`SameNeighbours`): its
index carries the time and a count (`snmp_collector.py:326`), so a neighbour that replaces another is
another row. Without that `NothingInvented` would be false: a row could join the chassis of one neighbour
to the port of the next. What the model does have is a neighbour that leaves between two walks. A bridge
has its own address at port 0 (`Itself`): of BRIDGE-MIB the code keeps the row, without a port.

### DeviceControl

`requests[r]` is a request with what its session has read; an action is everything between
two awaits: `Ask` up to the first, `Set` and `SetFails` the SET, `Reread` the re-read with
the commit. A SET takes effect or not, whatever its answer. A re-read that is not answered
gives what `_walk` then gives, not an error. `Assigned` is SQLAlchemy's rule that an
attribute set to the value it was loaded with is not written. The rescan is cut where
`_ingest_snmp` awaits. `Restore` is `restore_config_change`, by way of the same controls.

A PoE control sends the interface's ifIndex as `pethPsePortIndex` and looks for it in the re-read
(`poe_control.py:57-59`). `poeOf[p]` is the port whose PoE number is `p`'s ifIndex, or none, for any
numbering the device may have; `Addressed` is the port that a request so reaches, which for the other
kinds is its own. The log, the stored row and the protection are those of the interface asked for. The
rescan stores each port's PoE under its own interface, as it places PoE ports by name (`Chosen` of
`SnmpCollector`). A PoE row gets any id that is free, of which SQLite takes one; a control's UPDATE goes by
the id it loaded.

### Alarms

Nothing is stored but dismissals, so a request is two reads (`ReadDevices`, `ReadRest`), for
a dismissal followed by a commit, with everybody else's commits in between. Devices and links
age in steps of one threshold. Control logs, recorded changes and failed runs are one log of
`failures`; severities and texts are left out.

### Migration, CredentialProfiles

`Migration` has `columns` as the schema and `Steps` as the list of ALTERs, each with its own
existence check as in `_MIGRATIONS`. Every CREATE and ALTER is a step of its own, because the
SQLite driver as `db.py` configures it commits each of them; so a crash or another server can
come between the check and the ALTER, and before the version row.

`CredentialProfiles` has a run's look-up and its insert as two steps, since operators' requests
run in threads between them, and `cascades` for how the reference came about: with the table
(`ON DELETE SET NULL`, `models.py:182-184`) or with the migration to version 3, which leaves it
out. Ids of deleted profiles are given again.

## Runs

| Run | Shows | Result |
|---|---|---|
| `pool` | drained queue, exact counters, host limit, shown addresses, no lost neighbour, depth bounds, and that the run ends if one worker survives; commits and queries fail, workers die, the run may be cancelled | holds |
| `pool_sequential` | with one worker every host within `max_depth` hops is scanned | holds |
| `pool_bfs` | the same with two workers | violated, see findings |
| `pool_cancel` | current addresses only while RUNNING, with cancellation | violated, see findings |
| `runs` | lifecycle with crashes, restarts, shutdowns, deletes and faults; the promise of `SingleRun`; what holds as long as no fault has happened (`failed`) | holds |
| `runs_bad_network` | every RUNNING row has its task, with unparsable networks | violated, see findings |
| `runs_reused_id` | a RUNNING row is never deleted, when ids are reused | violated, see findings |
| `topology` | `LinkTable`, `LinkRace`, `Topology`, `Roles` | holds |
| `poe_success` | a PoE control that logs SUCCESS tells the state of its port, for any PoE numbers | violated, see findings |
| `poe_shield` | a protected port loses its PoE only to a forced control of that port, for any PoE numbers | violated, see findings |
| `operations` | `DeviceControl`, `DeviceType`, `DeviceScan`, `SnmpCollector`, `Alarms`, `Migration`, `CredentialProfiles` | holds |
| `identity_models` | two machines never share a row, for two switches of one model | violated, see findings |

`topology` and `operations` check several modules at once: a behaviour chooses one of them
at the start (`part`) and only that one moves. The properties are stated in parts, and each
part has a name of its own in its module:

| Property | Parts | Of |
|---|---|---|
| `RowShowsScans` | `ScanningIsShown`, `CurrentOnlyWhileRunning` (unless cancelled) | `DiscoveryWorkers` |
| `FaultlessHasTask`, `FaultlessRunsEnd`, `FaultlessStop` | `RunningHasTask`, `RunsEnd`, `StopCompletes`, without a fault | `DiscoveryRuns` |
| `LinksAreSound` | `NoTwoCompatible`, `EvidenceHasLink`, `DownIsUnseen`, `OnlyRealCables` | `LinkTable` |
| `ObservationsKept` | `LabelKept`, `RowsOnlyLearn`, `ObservedPortsLinked`, `EvidenceAccumulates` | `LinkTable` |
| `RaceIsHarmless` | `OneRowPerCable`, `NeverRolledBack` (of one cable); beside it the liveness `DuplicatesHeal` | `LinkRace` |
| `CommittedMapHolds` | `NoExcludedLeft`, `NeighbourIsUp` | `Topology` |
| `MapSettles` | `ReportedIsUp`, `DirectionsSettle`, `RepeatAddsNothing`, of networks like the one checked | `Topology` |
| `RolesAreSound` | `RolesSettle`, `ProvisionalIsFinal`, `ManualKept`, `CoreHasLayer3`, `RoleLogComplete` | `Roles` |
| `PortIsTold` | `SuccessIsTrue`, `AnswersAreLogged`, `RescanSettles` | `DeviceControl` |
| `ControlsAreAccounted` | `ShieldHolds`, `ChangesAreRecorded` | `DeviceControl` |
| `ConfirmedIsSound` | `Layer3IsNotConfirmedLayer2`, `ConfirmedIsClear` | `DeviceType` |
| `VerdictIsStable` | `PoeOnlyVaries`, `OneItemDoesNotFlip` | `DeviceType` |
| `RowsAreMachines` | `OneRowPerChassis`, `HostsApart` | `DeviceScan` |
| `StoredTypesSettle` | `PoeSettled`, `ReclassifySettles` | `DeviceScan` |
| `NothingTakenBack` | `DepthMoves`, `KeptByNarrowScan` | `DeviceScan` |
| `AnswersAreTrue` | `WholeIsExact`, `NothingInvented`, `UplinksNeverPoe`, `PoeApart`, `PvidOfItsPort` | `SnmpCollector` |
| `PageIsSound` | `RootShown`, `CountsAddUp`, `DismissAllClears`, `OutagesShow` | `Alarms` |
| `StartupIsSound` | `VersionIsKept`, `ServesWhole`, `AloneNeverFails`; beside it the liveness `SomeoneServes` | `Migration` |
| `ProfilesAreSound` | `NoDangling`, `OwnCommunity`, `FailsOnlyByOperator` | `CredentialProfiles` |

### Bounds

Discovery. The campus of `pool` has six addresses: two seeds that know each other and share a
neighbour (so an address is enqueued twice and by two workers), a host two hops away, the
server's own address, and one out of scope; `MaxHosts = 3` is below what can be reached, so
the limit is met with other workers busy, and not met when commits fail. Three workers are
more than the seeds, so one joins in on neighbours. `MaxDepth = 2` has hosts at, below and
beyond the limit. The diamond of `pool_bfs` has one host at distance 1 from one seed and 2
from the other, and one behind it exactly at `MaxDepth`: the smallest network where the
order of answers matters. `runs` has three ids: one that ended, one in progress and one
still to come, which is all that two of its actions relate; `runs_reused_id` needs two
delete threads, the one that frees the id and the one that is late. `MaxRuns` bounds the
ids (guard of `Insert`); the pool scans a finite set of hosts.

Topology. Two parallel cables are the fewest that can be merged wrongly. `OneSided` is what
the devices report when the remote port is resolved, `BothSides` when each names only its own
port; together they have every evidence type. `MaxId = 3` allows two rows and one more after
a deletion; in `LinkRace` it allows one row per session. `Topology` has a switch that is found
by its chassis, one found by MAC or address, an endpoint known by ARP and FDB before it is
scanned, and the server itself; a third host would only repeat a pair. `calm` stops at two
recomputations, which is when everything has settled. `Roles` has two networks of three
devices with two parallel links, one with a switch that would be core but for layer 3, one
with two cores; operators choose one role above and one below what the scores give.

Operations. Two requests and one rescan are what can overlap on one port (a third request meets the same
states); both are of one kind, as kinds share nothing but the audit log, or one restores a role; `force`
is only used on a protected port (`FewControls`). Two ports are the fewest of which one's PoE number can
be the other's ifIndex: the numbers are the ifIndexes, each other's, or one's is the other's and the
other's nobody's; only PoE controls go to the second port. Three ids let a rescan give a PoE row its own
id again, the other port's or a new one. A protected port, recorded changes, or PoE numbers that are not
the ifIndexes are checked without a rescan (`FewStarts`); the theorems have no such restriction. In
`poe_success` and `poe_shield` one request and any numbering of two ports are enough. `Tours` are pairs
of runs with profiles and depths in falling and rising order over a switch with two addresses, a switch
without a chassis, and a PC; one lost walk, one broken-off scan and one reclassification may fall
anywhere. The collector's devices have four ports, whose bridge numbers two in the opposite order, in
every MIB variant, and one has a neighbour that leaves; two of a call's walks may be cut (`MaxCuts =
2`), which includes the table a join goes through. `Alarms` has two devices and their link, time up to
the second threshold, a log limit of one so that it is exceeded, and two requests of which the second
dismisses everything; either devices go down, or links and logs move (`FewAlarms`). `Migration` starts
from no database and from versions 2 (before `credential_profile`), 9 and 12, with two servers and three
starts, so that a crash, a retry and a rival fit in one behaviour; the theorem covers every version and
number. `CredentialProfiles` has two runs, one operator's request, one deletion. The old
`snmp_community` column is empty in the run: what it adds is a community for a run, and a run may have
any.

No symmetry is used, as most runs check liveness or action properties. Deadlock is checked where the
system should not stop. In `pool` it may: when every worker has died with items left, `queue.join()`
never returns. In `operations`, `identity_models`, `poe_success` and `poe_shield` requests, runs and
starts are made a bounded number of times, and then there is nothing left to do.

### Fairness

The pool assumes weak fairness of each worker's two steps and of the coroutine of `run()`:
asyncio resumes every task whose future is done, and every await of `_process_host` ends, as
each probe has a timeout. Nothing obliges a shutdown to happen. The lifecycle assumes weak
fairness of the end of an engine (what `RunEnds` shows) and of the loop closing once `stop()`
returned. Starts, deletes, crashes and restarts are the environment's: `RunsEnd` therefore
assumes that a server is up again and again, and `RestartEndsRuns` that it is also restarted
again and again. `LinkRace` assumes that recomputations keep being started and that a thread
which has read the candidates gets to write, as it waits for the lock at most the busy
timeout. `Migration` assumes that a server that is starting goes on with `init_db`, which is
sequential code; crashes and starts are not obliged to happen.

## Findings

* `pool_bfs`: with more than one worker the scan is not breadth first. A host reached over
  a longer path first is claimed at that depth and, at `max_depth`, not expanded, so hosts
  within reach are not scanned (`engine.py:245`, `README.md:9`).
* `pool_cancel`: a shutdown that cancels an automatic run does not cancel its workers; one
  of them can write `current_ips` into the CANCELLED row (`engine.py:316`,
  `models.py:389`).
* `runs_bad_network`: a start with `seed_targets` and an unparsable `cidrs` entry leaves a
  RUNNING row without a task, which blocks every start until a restart
  (`routes_discovery.py:120`).
* `runs_reused_id`: a delete that read its run as ended can delete another, RUNNING run
  that was given the same id meanwhile (`routes_discovery.py:176-181`). The window is
  small: another delete and a start have to come between the check and the commit.
* `identity_models`: the composite identifier is named "sysObjectID+MAC+Vendor"
  (`identity.py:5`) but the look-up compares sysObjectID and vendor only (`identity.py:89`).
  Two switches of one model without a chassis id end in one row. The vendor is known for one
  enterprise number only, so this is about the switches of that vendor.
* `poe_success`: a PoE control takes the ifIndex for the PoE port's number (`poe_control.py:54-57`),
  which discovery says it is not (`discovery/engine.py:75`). Where a device numbers its PoE ports
  otherwise, the port whose number it is is switched and read back, and SUCCESS is logged, and a state
  stored, for the port that was asked for and is as it was.
* `poe_shield`: the protection that is looked at is that of the interface asked for
  (`poe_control.py:36`), so a protected port whose PoE number is an unprotected one's ifIndex loses its
  PoE without force, against `poe_control.py:4-5`.

### Limits of what holds

The properties state where they need it what they do not promise. These limits are
behaviours of the code that no document speaks against, met while modelling:

* With `DbMayFail`, `StopCompletes` holds without a fault only (`FaultlessStop`): an exception of the CANCELLED handler's
  commit replaces the cancellation, the scheduler's loop logs it and sleeps on, and `stop()`
  waits for it (`scheduler.py:158`).
* Links that only one side reports without its own port, and links of operators, which have no
  ports, merge parallel cables and can join the port of one to the port of another (`Anchored`). Such a
  merge can also take evidence with it that was not flushed; `ObservedPortsLinked` and
  `EvidenceAccumulates` are therefore about anchored reports only.
  Links backed by LLDP, FDB or ARP rows never age, as these rows are never deleted; ARP-only
  links age although their ARP row is still there.
* What a recomputation comes to depends on what the devices report. `CommittedMapHolds` is for any
  hosts. `MapSettles` needs devices with an address each and neighbours that name their port: where
  two MAC addresses share an address in the ARP tables, each recomputation gives the device the other
  MAC, and links and directions follow it; of parallel cables without ports one link stays, at one of
  the ports; a neighbour known by its address alone may be met first by the ARP pass, after its LLDP
  row had its turn.
* Two recomputations are needed until the direction marks agree with the links: the first
  filters by the statuses from before its own ageing pass (`DirectionsSettle`). Two role passes
  are needed until roles rest (`RolesSettle`).
* Where one port is unknown, overlapping sessions can store one cable twice; later observations
  merge the rows (`DuplicatesHeal`). Over two such cables a session can be rolled back: a row
  that knows one port only fits both, a merge deletes the younger row, its id is given to a new row
  of the other cable, and the session that had read the deleted row updates that one; the row it
  makes may then collide (`NeverRolledBack` is about one cable).
* A re-read that goes unanswered counts as a confirmation of a port or PoE control, and as a
  failure with an empty VLAN of a VLAN control (`SuccessIsTrue` speaks of answered re-reads). A
  PoE control whose row a rescan replaced ends in a 500 and leaves no log entry, although its SET
  was sent (`AnswersAreLogged`). Restoring a recorded "UNKNOWN" disables the port.
* `SuccessIsTrue` and `ShieldHolds` speak of the port a request addressed. That it is the one asked for
  is `SuccessIsOfItsPort` and `PoeShielded`, which hold where no PoE number is another port's ifIndex
  (`OwnNumberControls`) and not elsewhere (see the findings).
* A restore applies an old value whatever the field went through since. No document says what should win,
  so no property does; what a restore replaces stays on record (`ChangesAreRecorded`).
* A scan that is broken off between its PoE batch and its classification leaves both as they are, and
  `PoeSettled` exempts the device until it is scanned again or reclassified, which heals it.
* A cut walk of the bridge ports makes an LLDP neighbour's bridge port pass for an interface, and
  a cut walk of the interfaces places PoE ports elsewhere (`NothingInvented`).
* A stored depth only falls, but for 0, a seed's, which counts as not set: whatever meets the device next
  overwrites it, by another address or in another run (`DepthMoves`). A lost walk can
  turn a layer-3 switch into a confirmed layer-2 switch or router (`OneItemDoesNotFlip`); a
  narrow scan can, too, and a reclassification corrects it.
* Types "ACCESS_POINT" and "HUB" come out for no evidence that is collected.
* Nothing in the application calls `mark_stale_and_offline_devices`, `refresh_protected_flags` or
  `set_manual_protection`. `Alarms` has the ageing of devices as an action and `DeviceControl` either
  value of the flag, so what they show holds with and without such a caller; as shipped,
  devices stay ONLINE.
* A dismissal that overlaps another one of the same alarm fails as a whole with a 500, and stores
  nothing (`Conflicts`).
* Two servers that start together on an old database disturb each other: one of them may fail
  (`AloneNeverFails`, `SomeoneServes`).
* Deleting a profile under a run leaves the run's devices with an error, or, if a new profile is
  given the freed id, with another community (`OwnCommunity`).

## Proofs

TLC checks small instances; the theorems hold for every value of the constants.

`DiscoveryWorkersProofs` proves, for every network, pool size and limit, and with commits,
queries and cancellation failing or not: `TypeCorrect`, `UnfinishedCorrect`,
`JoinCorrect`, `CountsCorrect`, `LimitCorrect`, `ShownCorrect`, `ExpansionCorrect` and `NearCorrect`. None
of these invariants is inductive alone. The argument goes in layers, each proved with the
ones before it:

1. `Types`: types without `unfinished \in Nat`, which is not inductive: a decrement has
   to be known not to pass zero.
2. `Sessions`: between two actions a worker's session holds nothing of the row except after
   `StopAtLimit`. This is what `expire_on_commit=True` buys.
3. `Accounting`: `unfinished` is the queue's length plus the number of busy workers. It
   gives the type of `unfinished`, and that `join` returns when everything is drained.
4. `Claims`: a host in a job or a scan is visited, and in no other job; counters are the
   cardinalities of the history sets. It gives exact counters and the host limit.
5. `Shown` and `Fresh`: `in_flight` holds the jobs' hosts, and the row what was in flight
   at the last commit, which every claim renews.
6. `Covered`: each neighbour of an expanded host is visited or in the queue at a depth that
   will not be passed over, unless the limit stopped the scan. With 3, the queue is empty
   at the end, so it is visited.
7. `Near` and `Levels`, for `NearCorrect` and `BreadthFirstCorrect`: what waits or was scanned lies
   within as many hops as its depth says; and with one worker the queue holds the levels in order,
   at most two of them, with the scans behind it, so that whoever is met first is met at the least
   depth. What the recursive function `Within` computes is proved by a least counterexample
   (`WithinHops`).

`RowCorrect` is about runs that were not cancelled, as `pool_cancel` refutes it for those that were, and
`BreadthFirstCorrect` about one worker, as `pool_bfs` refutes it for two.

`DiscoveryRunsProofs` proves `TypeOK` and `SingleRunning` without conditions. Under
`~ReusesIds` the invariant `RunsInv` adds that an id a delete request holds has been given
and its run has ended (`DoomedEnded`), that ids beyond the last one have no engine, and
that there is one engine at most. It gives `TaskHasRow`, `SchedulerFollowsRun`,
`RunningRowKept`, and the refinement: `RunsImplementPromise` maps the engine at work to
`active` and the ids given and without an engine to `past`. `RunningHasTask` is proved
under `~BadNetworks` and `~DbMayFail`; the runs show that the first assumption is needed.

`TopologyProofs` is about four modules and their composition.

* `LinksSound`, `ObservationsAreKept`. `LinkInv` adds to `LinksAreSound` that ids are unique
  (`RowsDistinct`), that a labelled row is older than any other, since it absorbed those there were
  (`LabelledIsOldest`, without which a merge could delete it), that rows without an operator's
  evidence stand for a cable (`RowsReal`), and that what the open recomputation heard is on a link
  and in the evidence (`HeardKept`). Most of the proof is about `Merged`: the row it makes of a set of
  rows is compatible with what the set was compatible with (`MergedStands`, `ReplacedInOrder`). It
  rests on two assumptions about the network: a port of the device with the smaller id has one
  cable, and a neighbour row with both ports names a cable.
* `RaceSound`, for any number of sessions. `RaceInv` adds that a session has read rows of the cable it
  stores only (`RaceRows`) and that, where a port is unknown, the first row stays and is the oldest of
  whatever a session has read (`FirstStays`): what one deletes as a duplicate is never what another
  updates.
* `TopologyTypes`, `CommittedMap`, for any hosts and any order of their rows. `MapInv` adds to the types
  that, from the moment the server's own addresses are removed, none comes back (`NoneExcluded`), and
  that each LLDP row that has had its turn has a neighbour with a link that is heard (`Heard`): UP and of
  age zero, so that the ageing pass cannot take it down. It survives the later passes because links
  only grow (`Grows`) and devices keep their chassis and address (`Joined`), though the FDB and ARP
  passes add devices and links.
* `RolesSound`. The key is that two passes suffice: after one pass the roles of endpoints follow from
  the types alone (`EndsByType`), so the second computes with the numbers the third would use
  (`AtRest`, `RoleOfDepends`, `CoresStay`).
* `TopologyPartsTyped`: a behaviour of `MCTopology` is one of each part (`PartsRun`), so the
  theorems speak of what the run `topology` checks.

`IdentityProofs` has the lemmas about `Identity`, and about least and greatest numbers, that several
proofs need: a new row has an id of its own
(`NextIdIsNew`), an observation updates the row it ends in or makes one, and changes no other
(`ResolvedDoes`), why a row was found (`CandidateBy`), and that no second row of a chassis comes about
(`ChassisStep`).

`DeviceScanProofs` proves `ScanTypes`, `ScanTakesNothingBack`, `ScanSettles` and `ScanChassis` for any
machines, runs and workers. What an observation does to a depth is part of `ResolvedDoes` (`DepthGoes`).
`ScanBase` has the types and what a worker holds between awaits. `PoeInv` is `PoeSettled` with one
condition more, that the scan between PoE batch and classification collects PoE: without it the
invariant is not inductive, as a scan that does not would classify and leave the ports. `ScanRows` says
that no row stands for two machines; `MachineInv` adds that what a row knows, its address too, is of its
one machine. Its premise is `MachinesApart`: no two machines answer with one chassis id or MAC, and one
that answers with a MAC has a model of its own. TLC evaluates the premise on `operations`
(`CampusApart`); the twins of `identity_models` lack it, and share a row.

Its last part is about `DeviceType`, for all evidence: a behaviour of `TypesSpec` turns one item on or off,
and `TypesInv` says that scores and verdict are those of the evidence. `TypesSound` is about one verdict,
`VerdictStable` about two that differ by one item: at most one type has a clear score (`Clear`), and what
one item moves in the scores cannot carry one type past another by the margin, but for layer 3.

`CollectorProofs` proves `AnswersTrue`, for any family of devices, with any walks cut and any change
between them. `CollectInv` says that every table walked holds rows that one of the states of the call had,
all of them if the walk was whole (`Sourced`), and how far along its walks a method is (`Reading`, as the
FDB and PoE methods choose what to walk next by what they found). Then each method's answer is shown
right, by a lemma of its own (`InterfacesRight` to `PoeRight`): a value of a joined row is what a state
had there, or it is unknown (`ColumnIs`). The placing of PoE ports is a recursive function; that it is what its
definition says is proved by a least counterexample (`PlacementsExist`, `MappedIs`), and
that each port's own interface is left for it when the interfaces are all known (`ChosenIs`) is
an invariant over the ports placed so far.

`OperationsProofs` is about the parts of `MCOperations` that have no module of proofs of their own, and
about the whole.

* `ControlTold`, `ControlAccounted`. `ControlInv` adds what a session may hold between awaits: an open
  request has no log entry (`NoEntryYet`), one that is about to SET on a protected port is forced or
  harmless (`Allowed`), and a rescan in progress that nothing disturbed holds the device's values
  (`ScanIsTrue`). `ControlTyped`: `ControlFits` says that requests, log, recorded changes and rescans
  hold of each kind of control a value of that kind (`Held`); that a VLAN is never taken for a
  status is not local, since a restoration takes its value from a recorded change. Rows of PoE have ids of
  their own (`RowsApart`), so a control's UPDATE reaches one row at most.
* `OwnNumberControls`: with `NumbersAgree`, which no step changes, the port addressed is the port asked
  for, so that `SuccessIsTrue` and what a SET changes (`ShieldStep`) give `SuccessIsOfItsPort` and
  `PoeShielded`.
* `StartupSound`. `MigrationInv` adds to the version row that without one no existing table lacks a
  column (`VersionTold`), that a server that is migrating is only `Behind` in the steps it has not
  reached, and that one that started alone and stayed alone finds what it checked (`Undisturbed`).
  `StartupTyped`: a column belongs to a table that is there (`SchemaFits`).
* `ProfilesSound`. `CredentialsInv` adds that the profile a run holds exists and has its community unless
  an operator raced it (`RunHolds`), that one run at most is between look-up and insert (`OneLooks`),
  and what a device's binding says of its run (`DeviceHolds`). `ProfilesTyped`: names are unique
  (`OneName`), as in the table, and a run keeps its id (`KeepsId`).
* `OperationsTyped`, `OperationsSound`: a behaviour of `MCOperations` is one of each part, which moves or
  rests (`PartsRun`, `CollectorRuns`), so the theorems speak of what the run `operations`
  checks. It is the whole of that run but the liveness.

`AlarmsProofs` proves `AlarmsTypes` and `PageSound`, for any number of devices, links and requests.
`AlarmsBase` has the types, that an id is one alarm's, that lists are finite, and that nothing was seen in the
future. `AllCleared` is what a dismiss-all knows after each of its reads as long as nothing has moved.
`Occurrences` says that what was dismissed, or is held by a request, is of a time before the clock, and that since then
the row was seen again or has only got worse: a later outage of the row has a later time or a worse
state, so it shows. It rests on finitely many devices and links.

Assumptions: those named in the modules (finite sets, bounds that are numbers, switches that
are Booleans, `None` outside the values it stands beside, cables as above, depths that are numbers,
observations whose evidence type has a confidence, devices as `IsBox` has them and that change within
their `Frame`, machines that can be told apart). TLC evaluates each on a run.

Only model-checked:

* all liveness (`RunEnds`, `RunsEnd`, `RestartEndsRuns`, `StopCompletes`,
  `DuplicatesHeal`, `SomeoneServes`), as fairness and ENABLED are out of the prover's reach;
* `MapSettles`, which is about networks like the one checked (see the limits above).

## Not modelled

* Link and device diagnostics (`diagnostics.py`, `l2_path.py`, the ping of a link): one call of an
  external command or a CLI session, whose text is parsed, and one query over the FDB rows. They
  store nothing, and nothing waits for them.
* The choice among the CLI credentials of a device, which only these use, and the encryption of
  secrets, which is a library's.
* Of the collectors: ARP and address tables and system information (single walks without a join),
  the drivers' dispatch by vendor (the SSH driver's controls have no caller and are not
  implemented), ICMP, the probes and the resolution of host names. To the rest of the program each is a value
  or none, and that is how the models have it.
* Queries and exports: `GET` endpoints, `schemas.py`, and the front end, which displays them.
* The service scripts: install, start and stop by a pid file.
* PostgreSQL, whose DDL is transactional: `Migration` is about SQLite, the default. An older server
  on a newer database.
* In the modelled parts: texts, units, counters of traffic, vendor names beyond the rule that reads
  them. Each module's head says what it leaves out.
