---------------------------- MODULE DiscoveryWorkers ----------------------------
(***************************************************************************)
(* One discovery run: DiscoveryEngine.run and DiscoveryEngine._run_workers *)
(* (src/backend/app/discovery/engine.py).  A pool of worker coroutines     *)
(* takes (ip, depth) pairs from one asyncio.Queue, claims each host at     *)
(* most once, scans it, and enqueues the neighbours it found.  All workers *)
(* write the counters of the same discovery_run row, each through an       *)
(* SQLAlchemy session of its own.                                          *)
(*                                                                         *)
(* Nothing inside an `async with state_lock` block awaits, so each block,  *)
(* and the synchronous code around it, is one action.  The only place a    *)
(* worker is suspended with an item in hand is _process_host: between its  *)
(* Claim and one of its Host... actions every other worker may run.        *)
(* What _process_host stores about the device is not modelled here, only   *)
(* how it can end: it raises, the host is silent, or the host answers.     *)
(***************************************************************************)
EXTENDS Integers, Sequences, FiniteSets

CONSTANTS
    Hosts,          \* IP addresses
    Workers,        \* the self.concurrency worker tasks
    Seeds,          \* seed_targets, once dict.fromkeys has dropped repetitions
    Neighbors,      \* what _collect_neighbor_ips finds for a host
    Infra,          \* hosts that classify as infrastructure when SNMP answers
    Excluded,       \* config.TOPOLOGY_EXCLUDE_IPS
    InScope,        \* addresses _in_scope accepts (allowed_cidrs)
    MaxDepth,       \* self.max_depth
    MaxHosts,       \* self.max_hosts
    CommitMayFail,  \* a commit may fail (busy_timeout, disk)
    ReadMayFail,    \* a query may raise (connection lost)
    Cancellable,    \* the run belongs to the scheduler, which shutdown cancels
    None            \* no item in hand, no row in the session's identity map

ASSUME SetsAssumption ==
    /\ IsFiniteSet(Hosts) /\ IsFiniteSet(Workers)
    /\ Seeds \subseteq Hosts /\ Infra \subseteq Hosts
    /\ Excluded \subseteq Hosts /\ InScope \subseteq Hosts
    /\ Neighbors \in [Hosts -> SUBSET Hosts]

ASSUME BoundsAssumption == MaxDepth \in Nat /\ MaxHosts \in Nat \ {0}

ASSUME SwitchesAssumption ==
    /\ CommitMayFail \in BOOLEAN /\ ReadMayFail \in BOOLEAN
    /\ Cancellable \in BOOLEAN

Item == [ip : Hosts, depth : Nat]

Statuses == {"RUNNING", "COMPLETED", "FAILED", "CANCELLED"}

\* The discovery_run row.  alive stands for alive_count and the per-type tallies,
\* which the same commit increments; current for current_ips and current_ip.
Row == [status : Statuses, scanned : Nat, alive : Nat, errors : Nat,
        current : SUBSET Hosts]

ASSUME NoneAssumption == None \notin Item /\ None \notin Row

\* Where the coroutine of run() is: before its first statement, at queue.join(),
\* after the workers are gathered, between its two commits, over; or cancelled
\* at queue.join() with the event loop still turning, or the loop closed.
Phases == {"start", "join", "finish", "recompute", "ended", "cancelled", "closed"}

VARIABLES
    queue,       \* items waiting in the asyncio.Queue, head first
    unfinished,  \* the queue's count of items without a task_done
    visited,     \* visited_ips
    inFlight,    \* in_flight
    stop,        \* state["stop"]
    errorCount,  \* error_count_holder["count"]
    job,         \* the item each worker is scanning
    view,        \* the run row in each worker's session, if loaded and not expired
    dead,        \* workers that an exception ended
    phase,
    run,         \* the committed discovery_run row
    scans,       \* history: items whose claim was committed
    answered,    \* history: items whose answer was committed
    expanded     \* history: those of them that answered as infrastructure

vars == <<queue, unfinished, visited, inFlight, stop, errorCount, job, view,
          dead, phase, run, scans, answered, expanded>>

history == <<scans, answered, expanded>>

-----------------------------------------------------------------------------
(* The orders in which a loop over a Python set, or over the seeds, puts its *)
(* members into the queue.                                                   *)
Arrangements(S) ==
    {order \in [1 .. Cardinality(S) -> S] :
        \A s \in S : \E i \in 1 .. Cardinality(S) : order[i] = s}

ItemsAt(ips, depth) == {[ip |-> ip, depth |-> depth] : ip \in ips}

(* Session.get(DiscoveryRun, run_id): the identity map answers when it still *)
(* holds an unexpired row, the database otherwise.                           *)
Get(w) == IF view[w] = None THEN run ELSE view[w]

(* What the identity map holds of a row after commit() or rollback(): with   *)
(* expire_on_commit left at True, nothing.                                   *)
StillCached(row) == row  \* mutant: expire_on_commit=False

Expired(row) == None

(* _safe_commit: the row is written, or the commit fails, is rolled back and *)
(* counted, and the worker goes on.                                          *)
SafeCommit(w, ok, row) ==
    /\ ok \/ CommitMayFail
    /\ run' = IF ok THEN row ELSE run
    /\ view' = [view EXCEPT ![w] = Expired(row)]

Failures(ok) == IF ok THEN 0 ELSE 1

(* queue.task_done(), in a finally clause: when the worker goes on to its     *)
(* next item, and when an exception ends the worker.                         *)
TaskDoneTwice == unfinished' = unfinished - 2  \* mutant: also before continue

TaskDone == unfinished' = unfinished - 1

TaskNeverDone == unfinished' = unfinished  \* mutant: not in a finally clause

TaskDoneFinally == unfinished' = unfinished - 1

Init ==
    /\ queue = <<>> /\ unfinished = 0
    /\ visited = {} /\ inFlight = {}
    /\ stop = FALSE /\ errorCount = 0
    /\ job = [w \in Workers |-> None]
    /\ view = [w \in Workers |-> None]
    /\ dead = {}
    /\ phase = "start"
    /\ run = [status |-> "RUNNING", scanned |-> 0, alive |-> 0, errors |-> 0,
              current |-> {}]
    /\ scans = {} /\ answered = {} /\ expanded = {}

-----------------------------------------------------------------------------
(* A worker takes an item.                                                   *)

WorkersRun == phase \in {"join", "cancelled"}

Waiting(w) == WorkersRun /\ w \notin dead /\ job[w] = None /\ queue # <<>>

PassesAtMaxDepth(it) ==  \* mutant: depth >= max_depth
    stop \/ it.ip \in visited \/ it.depth >= MaxDepth

Passes(it) == stop \/ it.ip \in visited \/ it.depth > MaxDepth

\* The item is taken and dropped: nothing but the queue changes.
PassOver(w) ==
    /\ Waiting(w) /\ Passes(Head(queue))
    /\ queue' = Tail(queue) /\ TaskDone
    /\ UNCHANGED <<visited, inFlight, stop, errorCount, job, view, dead, phase,
                   run, history>>

\* An item nobody visited is taken, and its host marked visited at once.
Visits(w) ==
    /\ Waiting(w) /\ ~Passes(Head(queue))
    /\ queue' = Tail(queue)
    /\ visited' = visited \union {Head(queue).ip}

\* The NMS server's own address.
SkipExcluded(w) ==
    /\ Visits(w) /\ Head(queue).ip \in Excluded
    /\ TaskDone
    /\ UNCHANGED <<inFlight, stop, errorCount, job, view, dead, phase, run, history>>

PastLimit(w) == Get(w).scanned > MaxHosts  \* mutant: off by one

AtLimit(w) == Get(w).scanned >= MaxHosts

\* max_hosts reached: the flag stops every later item; the row was only read,
\* so it stays in this worker's session.
StopAtLimit(w) ==
    /\ Visits(w) /\ Head(queue).ip \notin Excluded
    /\ AtLimit(w)
    /\ stop' = TRUE
    /\ view' = [view EXCEPT ![w] = Get(w)]
    /\ TaskDone
    /\ UNCHANGED <<inFlight, errorCount, job, dead, phase, run, history>>

\* The claim is committed: counted, and shown among the current addresses.
Claim(w) ==
    /\ Visits(w) /\ Head(queue).ip \notin Excluded
    /\ ~AtLimit(w)
    /\ inFlight' = inFlight \union {Head(queue).ip}
    /\ SafeCommit(w, TRUE, [run EXCEPT !.scanned = Get(w).scanned + 1,
                                       !.current = inFlight'])
    /\ job' = [job EXCEPT ![w] = Head(queue)]
    /\ scans' = scans \union {Head(queue)}
    /\ UNCHANGED <<unfinished, stop, errorCount, dead, phase, answered, expanded>>

ClaimRetries(w) ==  \* mutant: a failed claim goes back to the queue
    /\ Waiting(w) /\ ~Passes(Head(queue)) /\ CommitMayFail
    /\ queue' = Append(Tail(queue), Head(queue))
    /\ UNCHANGED <<unfinished, visited, inFlight, stop, errorCount, job, view, dead,
                   phase, run, history>>

\* The claim's commit fails: the host is skipped, but stays visited.
ClaimCommitFails(w) ==
    /\ Visits(w) /\ Head(queue).ip \notin Excluded
    /\ ~AtLimit(w)
    /\ SafeCommit(w, FALSE, Get(w))
    /\ errorCount' = errorCount + 1
    /\ TaskDone
    /\ UNCHANGED <<inFlight, stop, job, dead, phase, history>>

\* Reading the row raises outside every except clause: task_done is called in
\* the finally clause and the worker is gone.
ClaimReadFails(w) ==
    /\ ReadMayFail
    /\ Visits(w) /\ Head(queue).ip \notin Excluded
    /\ dead' = dead \union {w}
    /\ TaskDoneFinally
    /\ UNCHANGED <<inFlight, stop, errorCount, job, view, phase, run, history>>

Take(w) ==
    \/ PassOver(w) \/ SkipExcluded(w) \/ StopAtLimit(w)
    \/ Claim(w) \/ ClaimCommitFails(w) \/ ClaimReadFails(w)

-----------------------------------------------------------------------------
(* _process_host returns to the worker, or raises.                           *)

Scanning(w) == WorkersRun /\ w \notin dead /\ job[w] # None

ReleaseClears(w, ok, row) ==  \* mutant: the row shows one address only
    /\ Scanning(w)
    /\ inFlight' = inFlight \ {job[w].ip}
    /\ SafeCommit(w, ok, [row EXCEPT !.current = {}])
    /\ job' = [job EXCEPT ![w] = None]
    /\ UNCHANGED <<visited, stop, dead, phase, scans>>

\* Discard from in_flight, copy in_flight into the row, commit.
Release(w, ok, row) ==
    /\ Scanning(w)
    /\ inFlight' = inFlight \ {job[w].ip}
    /\ SafeCommit(w, ok, [row EXCEPT !.current = inFlight'])
    /\ job' = [job EXCEPT ![w] = None]
    /\ UNCHANGED <<visited, stop, dead, phase, scans>>

HostRaises(w, ok) ==
    /\ Release(w, ok, run)
    /\ errorCount' = errorCount + 1 + Failures(ok)
    /\ TaskDone
    /\ UNCHANGED <<queue, answered, expanded>>

HostSilent(w, ok) ==
    /\ Release(w, ok, run)
    /\ errorCount' = errorCount + Failures(ok)
    /\ TaskDone
    /\ UNCHANGED <<queue, answered, expanded>>

ExpansionSameDepth(it, infra) ==  \* mutant: the depth is not increased
    IF infra /\ it.depth < MaxDepth /\ ~stop
    THEN ItemsAt((Neighbors[it.ip] \ visited) \cap InScope, it.depth)
    ELSE {}

\* The neighbours a scan of `it` puts into the queue.
Expansion(it, infra) ==
    IF infra /\ it.depth < MaxDepth /\ ~stop
    THEN ItemsAt((Neighbors[it.ip] \ visited) \cap InScope, it.depth + 1)
    ELSE {}

\* The host answered: `infra` when SNMP told that it is infrastructure, FALSE
\* for an endpoint and for a host that answers a ping only.
HostAnswers(w, infra) ==
    /\ Release(w, TRUE, [run EXCEPT !.alive = Get(w).alive + 1])
    /\ infra => job[w].ip \in Infra
    /\ \E order \in Arrangements(Expansion(job[w], infra)) :
        /\ queue' = queue \o order
        /\ unfinished' = unfinished + Len(order) - 1
    /\ answered' = answered \union {job[w]}
    /\ expanded' = IF infra THEN expanded \union {job[w]} ELSE expanded
    /\ UNCHANGED errorCount

\* The answer's commit fails: not counted alive, and no neighbour is enqueued.
AnswerCommitFails(w) ==
    /\ Release(w, FALSE, run)
    /\ errorCount' = errorCount + 1
    /\ TaskDone
    /\ UNCHANGED <<queue, answered, expanded>>

\* A query raises after _process_host: before the discard when the host
\* answered, after it when the host raised or was silent.
HostReadFails(w) ==
    /\ ReadMayFail /\ Scanning(w)
    /\ inFlight' \in {inFlight, inFlight \ {job[w].ip}}
    /\ errorCount' \in {errorCount, errorCount + 1}
    /\ inFlight' = inFlight => errorCount' = errorCount
    /\ dead' = dead \union {w}
    /\ job' = [job EXCEPT ![w] = None]
    /\ TaskDoneFinally
    /\ UNCHANGED <<queue, visited, stop, view, phase, run, history>>

ProcessHost(w) ==
    \/ \E ok \in BOOLEAN : HostRaises(w, ok) \/ HostSilent(w, ok)
    \/ \E infra \in BOOLEAN : HostAnswers(w, infra)
    \/ AnswerCommitFails(w)
    \/ HostReadFails(w)

-----------------------------------------------------------------------------
(* The coroutine of run().                                                   *)

poolVars == <<queue, unfinished, visited, inFlight, stop, errorCount, job, view,
              dead, history>>

\* The credential profile is ready: the workers start on the seeds.
StartWorkers ==
    /\ phase = "start"
    /\ \E order \in Arrangements(ItemsAt(Seeds, 0)) :
        /\ queue' = order
        /\ unfinished' = Len(order)
    /\ phase' = "join"
    /\ UNCHANGED <<visited, inFlight, stop, errorCount, job, view, dead, run, history>>

Failed(row) == [row EXCEPT !.status = "FAILED", !.current = {},
                           !.errors = @ + 1]

\* Creating the credential profile fails.
StartFails ==
    /\ phase = "start"
    /\ run' = Failed(run) /\ phase' = "ended"
    /\ UNCHANGED poolVars

JoinWhenEmpty ==  \* mutant: the queue is polled for being empty
    /\ phase = "join" /\ queue = <<>>
    /\ phase' = "finish"
    /\ UNCHANGED <<poolVars, run>>

\* queue.join() returns; the idle workers are cancelled and gathered.
JoinReturns ==
    /\ phase = "join" /\ unfinished = 0
    /\ phase' = "finish"
    /\ UNCHANGED <<poolVars, run>>

CompletedAsShown(row) ==  \* mutant: current_ips is not cleared
    [row EXCEPT !.status = "COMPLETED", !.errors = @ + errorCount]

Completed(row) == [row EXCEPT !.status = "COMPLETED", !.current = {},
                              !.errors = @ + errorCount]

Finish ==
    /\ phase = "finish"
    /\ run' = Completed(run) /\ phase' = "recompute"
    /\ UNCHANGED poolVars

\* The final query or commit fails, and the handler's succeeds: the workers' error count
\* went with the rollback.
FinishFails ==
    /\ phase = "finish" /\ (CommitMayFail \/ ReadMayFail)
    /\ run' = Failed(run) /\ phase' = "ended"
    /\ UNCHANGED poolVars

\* recompute_topology_and_roles, after the row was committed as COMPLETED.
Recompute ==
    /\ phase = "recompute"
    /\ phase' = "ended"
    /\ UNCHANGED <<poolVars, run>>

RecomputeFails ==
    /\ phase = "recompute"
    /\ run' = Failed(run) /\ phase' = "ended"
    /\ UNCHANGED poolVars

\* The handler's own commit or query fails: the task ends, the row stays.
HandlerFails ==
    /\ phase \in {"start", "finish", "recompute"} /\ ReadMayFail
    /\ phase' = "ended"
    /\ UNCHANGED <<poolVars, run>>

Main ==
    \/ StartWorkers \/ StartFails \/ JoinReturns \/ Finish \/ FinishFails
    \/ Recompute \/ RecomputeFails \/ HandlerFails

-----------------------------------------------------------------------------
(* Shutdown cancels the scheduler's task at queue.join().  CancelledError    *)
(* leaves _run_workers without cancelling the worker tasks; the handler in   *)
(* run_auto_discovery_once writes CANCELLED.  The workers run on until the   *)
(* event loop closes.                                                        *)

Cancel ==
    /\ Cancellable /\ phase = "join"
    /\ run' = [run EXCEPT !.status = "CANCELLED", !.current = {}]
    /\ phase' = "cancelled"
    /\ UNCHANGED poolVars

LoopCloses ==
    /\ phase = "cancelled"
    /\ phase' = "closed"
    /\ UNCHANGED <<poolVars, run>>

Over == phase \in {"ended", "closed"} /\ UNCHANGED vars

Next ==
    \/ \E w \in Workers : Take(w) \/ ProcessHost(w)
    \/ Main \/ Cancel \/ LoopCloses \/ Over

Spec == Init /\ [][Next]_vars

(* asyncio resumes every task whose future is done; every await of           *)
(* _process_host ends because each probe has a timeout.                      *)
Fairness ==
    /\ \A w \in Workers : WF_vars(Take(w)) /\ WF_vars(ProcessHost(w))
    /\ WF_vars(Main)

FairSpec == Spec /\ Fairness

-----------------------------------------------------------------------------
(* Properties.                                                               *)

\* Every variable has its type.
TypeOK ==
    /\ queue \in Seq(Item) /\ unfinished \in Nat
    /\ visited \subseteq Hosts /\ inFlight \subseteq Hosts
    /\ stop \in BOOLEAN /\ errorCount \in Nat
    /\ job \in [Workers -> Item \union {None}]
    /\ view \in [Workers -> Row \union {None}]
    /\ dead \subseteq Workers
    /\ phase \in Phases
    /\ run \in Row
    /\ scans \subseteq Item /\ answered \subseteq Item /\ expanded \subseteq Item

Busy == {w \in Workers : job[w] # None}

\* The queue's count is exact: what waits plus what is being scanned, whichever
\* way an item ended, a worker's death included (the finally clause).
UnfinishedIsExact == unfinished = Len(queue) + Cardinality(Busy)

\* When queue.join() has returned nothing waits and no worker holds a host, so
\* cancelling the workers interrupts no scan.
JoinMeansDrained ==
    phase \in {"finish", "recompute"} => queue = <<>> /\ Busy = {}

\* No host is scanned by two workers, or twice, and the committed counters are
\* the numbers of claims and of answers that were committed: no lost update
\* between the workers' sessions, and nothing counted that was rolled back.
CountsAreExact ==
    /\ \A a, b \in scans : a.ip = b.ip => a = b
    /\ run.scanned = Cardinality(scans)
    /\ run.alive = Cardinality(answered)
    /\ answered \subseteq scans

\* max_hosts is never passed, however many workers read the count, and the run
\* only stops early when exactly max_hosts hosts were scanned.
LimitIsExact ==
    /\ run.scanned <= MaxHosts
    /\ stop => run.scanned = MaxHosts

\* While the run is RUNNING every host being scanned is among the addresses the
\* row shows, even after commits failed (_sync_in_flight).
ScanningIsShown ==
    run.status = "RUNNING" =>
        \A w \in Workers : job[w] # None => job[w].ip \in run.current

\* models.py on current_ip: it has a value only while the run is RUNNING.
CurrentOnlyWhileRunning == run.status # "RUNNING" => run.current = {}

\* What the row shows of the hosts being scanned, in parts: all of them while the
\* run is RUNNING, and none afterwards, unless the run was cancelled.
RowShowsScans ==
    /\ ScanningIsShown
    /\ phase \in {"cancelled", "closed"} \/ CurrentOnlyWhileRunning

\* A run that completed without reaching max_hosts has visited every neighbour,
\* in scope, of every infrastructure host it scanned above the depth limit:
\* nothing enqueued is lost by the pool.
ExpansionIsClosed ==
    (phase \in {"finish", "recompute"} /\ ~stop) =>
        \A it \in expanded :
            it.depth < MaxDepth => Neighbors[it.ip] \cap InScope \subseteq visited

\* Hosts at most n hops from a seed, through infrastructure hosts.
Within[n \in Nat] ==
    IF n = 0 THEN Seeds
    ELSE Within[n - 1] \union
         UNION {Neighbors[h] \cap InScope : h \in (Within[n - 1] \cap Infra) \ Excluded}

\* No host is scanned that lies further from the seeds than the depth recorded
\* for it, none beyond max_depth, and never the excluded addresses.
ScansStayNear ==
    \A it \in scans :
        /\ it.depth <= MaxDepth
        /\ it.ip \in Within[it.depth] \ Excluded

\* README.md: the scan expands neighbours breadth first over the whole network.
\* When nothing failed, every host within max_depth hops was scanned.
ScanIsBreadthFirst ==
    (/\ phase = "recompute" /\ ~stop /\ errorCount = 0 /\ dead = {}
     /\ \A it \in scans : it.ip \in Infra => it \in expanded)
    => Within[MaxDepth] \ Excluded \subseteq {it.ip : it \in scans}

Ended == phase \in {"ended", "cancelled", "closed"}

\* Every run ends: queue.join() returns although workers feed the queue they
\* drain, whatever commits and hosts fail; and, when queries raise and end workers,
\* as long as one worker survives.
RunEnds == (\E w \in Workers : [](w \notin dead)) => <>Ended
=============================================================================
