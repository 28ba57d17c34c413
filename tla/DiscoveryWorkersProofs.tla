------------------------- MODULE DiscoveryWorkersProofs -------------------------
(***************************************************************************)
(* Proofs about the worker pool, for every set of hosts and workers, every *)
(* topology and every bound.  The inductive invariant is built up in       *)
(* layers; each layer may use the ones before it.                          *)
(***************************************************************************)
EXTENDS DiscoveryWorkers, FiniteSetTheorems, WellFoundedInduction, TLAPS

USE SetsAssumption, BoundsAssumption, SwitchesAssumption, NoneAssumption

\* Types alone: that `unfinished` is never negative follows only from its count.
Types ==
    /\ queue \in Seq(Item) /\ unfinished \in Int
    /\ visited \subseteq Hosts /\ inFlight \subseteq Hosts
    /\ stop \in BOOLEAN /\ errorCount \in Nat
    /\ job \in [Workers -> Item \union {None}]
    /\ view \in [Workers -> Row \union {None}]
    /\ dead \subseteq Workers
    /\ phase \in Phases
    /\ run \in Row
    /\ scans \subseteq Item /\ answered \subseteq Item /\ expanded \subseteq Item

(* The run row stays a row under each kind of update.                        *)
LEMMA RowFields ==
    ASSUME NEW row \in Row
    PROVE  /\ row.scanned \in Nat /\ row.alive \in Nat /\ row.errors \in Nat
           /\ row.current \in SUBSET Hosts /\ row.status \in Statuses
BY DEF Row

LEMMA RowShows ==
    ASSUME NEW row \in Row, NEW c \in SUBSET Hosts
    PROVE  [row EXCEPT !.current = c] \in Row
BY DEF Row

LEMMA RowClaims ==
    ASSUME NEW row \in Row, NEW n \in Nat, NEW c \in SUBSET Hosts
    PROVE  [row EXCEPT !.scanned = n, !.current = c] \in Row
BY DEF Row

LEMMA RowAnswers ==
    ASSUME NEW row \in Row, NEW n \in Nat
    PROVE  [row EXCEPT !.alive = n] \in Row
BY DEF Row

LEMMA RowEnds ==
    ASSUME NEW row \in Row, NEW s \in Statuses, NEW n \in Nat
    PROVE  /\ [row EXCEPT !.status = s, !.current = {}] \in Row
           /\ [row EXCEPT !.status = s, !.current = {}, !.errors = n] \in Row
BY DEF Row

(* What a loop over a finite set puts into the queue: as many entries as the *)
(* set has members, each a member, and every member among them.              *)
LEMMA ArrangementFacts ==
    ASSUME NEW S, IsFiniteSet(S), NEW order \in Arrangements(S)
    PROVE  /\ order \in Seq(S)
           /\ Len(order) = Cardinality(S)
           /\ \A s \in S : \E i \in 1 .. Len(order) : order[i] = s
<1>1. Cardinality(S) \in Nat
  BY FS_CardinalityType
<1>2. order \in [1 .. Cardinality(S) -> S]
  BY DEF Arrangements
<1>3. order \in Seq(S) /\ Len(order) = Cardinality(S)
  BY <1>1, <1>2
<1>4. QED
  BY <1>3 DEF Arrangements

(* The items of a set of addresses at one depth are items, finitely many.    *)
LEMMA ItemsAtFacts ==
    ASSUME NEW ips \in SUBSET Hosts, NEW depth \in Nat
    PROVE  IsFiniteSet(ItemsAt(ips, depth)) /\ ItemsAt(ips, depth) \subseteq Item
<1>1. IsFiniteSet(ips)
  BY FS_Subset
<1>2. IsFiniteSet(ItemsAt(ips, depth))
  <2> DEFINE f == [ip \in ips |-> [ip |-> ip, depth |-> depth]]
  <2>1. f \in Surjection(ips, ItemsAt(ips, depth))
    BY DEF Surjection, ItemsAt
  <2>2. QED
    BY <1>1, <2>1, FS_Surjection
<1>3. QED
  BY <1>2 DEF ItemsAt, Item

(* What a scan enqueues is a finite set of items, not deeper than max_depth, *)
(* of addresses that are in scope.                                           *)
LEMMA ExpansionFacts ==
    ASSUME NEW it \in Item, NEW infra \in BOOLEAN
    PROVE  /\ IsFiniteSet(Expansion(it, infra))
           /\ Expansion(it, infra) \subseteq Item
           /\ \A e \in Expansion(it, infra) : e.depth <= MaxDepth
<1>1. CASE infra /\ it.depth < MaxDepth /\ ~stop
  <2> DEFINE ips == (Neighbors[it.ip] \ visited) \cap InScope
  <2>1. ips \in SUBSET Hosts /\ it.depth + 1 \in Nat
    BY DEF Item
  <2>2. Expansion(it, infra) = ItemsAt(ips, it.depth + 1)
    BY <1>1 DEF Expansion
  <2>3. it.depth + 1 <= MaxDepth
    BY <1>1 DEF Item
  <2> HIDE DEF ips
  <2>4. \A e \in ItemsAt(ips, it.depth + 1) : e.depth = it.depth + 1
    BY DEF ItemsAt
  <2>5. QED
    BY <2>1, <2>2, <2>3, <2>4, ItemsAtFacts
<1>2. CASE ~(infra /\ it.depth < MaxDepth /\ ~stop)
  BY <1>2, FS_EmptySet DEF Expansion
<1>3. QED
  BY <1>1, <1>2

-----------------------------------------------------------------------------
(* Types.                                                                    *)

LEMMA TypesInit == Init => Types
<1> SUFFICES ASSUME Init PROVE Types
  OBVIOUS
<1>1. run \in Row
  BY DEF Init, Row, Statuses
<1>2. queue \in Seq(Item) /\ unfinished \in Int
  BY DEF Init
<1>3. QED
  BY <1>1, <1>2 DEF Init, Types, Phases

LEMMA TakeKeepsTypes ==
    ASSUME Types, NEW w \in Workers, Take(w)
    PROVE  Types'
<1> USE DEF Types, history
<1>a. ASSUME queue # <<>>
      PROVE  Head(queue) \in Item /\ Tail(queue) \in Seq(Item)
  BY <1>a
<1>1. queue # <<>> => /\ Head(queue) \in Item /\ Head(queue).ip \in Hosts
                      /\ Tail(queue) \in Seq(Item)
  BY <1>a DEF Item
<1>2. Get(w) \in Row
  BY DEF Get
<1>3. CASE PassOver(w)
  BY <1>1, <1>3 DEF PassOver, Waiting, TaskDone
<1>4. CASE SkipExcluded(w)
  BY <1>1, <1>4 DEF SkipExcluded, Visits, Waiting, TaskDone
<1>5. CASE StopAtLimit(w)
  BY <1>1, <1>2, <1>5 DEF StopAtLimit, Visits, Waiting, TaskDone
<1>6. CASE Claim(w)
  <2>1. inFlight' \subseteq Hosts
    BY <1>1, <1>6 DEF Claim, Visits, Waiting
  <2>2. Get(w).scanned + 1 \in Nat
    BY <1>2 DEF Row
  <2>3. run' \in Row /\ view' \in [Workers -> Row \union {None}]
    BY <1>6, <2>1, <2>2, RowClaims DEF Claim, SafeCommit, Expired
  <2>4. QED
    BY <1>1, <1>6, <2>1, <2>3 DEF Claim, Visits, Waiting
<1>7. CASE ClaimCommitFails(w)
  BY <1>1, <1>7 DEF ClaimCommitFails, Visits, Waiting, TaskDone, SafeCommit, Expired
<1>8. CASE ClaimReadFails(w)
  BY <1>1, <1>8 DEF ClaimReadFails, Visits, Waiting, TaskDoneFinally
<1>9. QED
  BY <1>3, <1>4, <1>5, <1>6, <1>7, <1>8 DEF Take

LEMMA ReleaseKeepsTypes ==
    ASSUME Types, NEW w \in Workers, NEW ok \in BOOLEAN, NEW row \in Row,
           Release(w, ok, row)
    PROVE  /\ job[w] \in Item
           /\ inFlight' \subseteq Hosts
           /\ run' \in Row
           /\ view' \in [Workers -> Row \union {None}]
           /\ job' \in [Workers -> Item \union {None}]
           /\ visited' \subseteq Hosts /\ stop' \in BOOLEAN /\ dead' \subseteq Workers
           /\ phase' \in Phases /\ scans' \subseteq Item
<1> USE DEF Types
<1>1. job[w] \in Item /\ inFlight' \subseteq Hosts
  BY DEF Release, Scanning
<1>2. [row EXCEPT !.current = inFlight'] \in Row
  BY <1>1, RowShows
<1>3. QED
  BY <1>1, <1>2 DEF Release, SafeCommit, Expired

LEMMA ProcessHostKeepsTypes ==
    ASSUME Types, NEW w \in Workers, ProcessHost(w)
    PROVE  Types'
<1> USE DEF Types
<1>1. Get(w) \in Row
  BY DEF Get
<1>2. ASSUME NEW ok \in BOOLEAN, HostRaises(w, ok)
      PROVE  Types'
  BY <1>2, ReleaseKeepsTypes DEF HostRaises, TaskDone, Failures
<1>3. ASSUME NEW ok \in BOOLEAN, HostSilent(w, ok)
      PROVE  Types'
  BY <1>3, ReleaseKeepsTypes DEF HostSilent, TaskDone, Failures
<1>4. ASSUME NEW infra \in BOOLEAN, HostAnswers(w, infra)
      PROVE  Types'
  <2>0. Get(w).alive + 1 \in Nat
    BY <1>1 DEF Row
  <2>1. [run EXCEPT !.alive = Get(w).alive + 1] \in Row
    BY <2>0, RowAnswers
  <2>2. PICK order \in Arrangements(Expansion(job[w], infra)) :
            /\ queue' = queue \o order
            /\ unfinished' = unfinished + Len(order) - 1
    BY <1>4 DEF HostAnswers
  <2>3. job[w] \in Item
    BY <1>4, <2>1, ReleaseKeepsTypes DEF HostAnswers
  <2>4. order \in Seq(Item)
    BY <2>3, ArrangementFacts, ExpansionFacts
  <2>5. queue' \in Seq(Item) /\ unfinished' \in Int
    BY <2>2, <2>4
  <2>6. QED
    BY <1>4, <2>1, <2>3, <2>5, ReleaseKeepsTypes DEF HostAnswers
<1>5. CASE AnswerCommitFails(w)
  <2>1. Release(w, FALSE, run)
    BY <1>5 DEF AnswerCommitFails
  <2>2. /\ job[w] \in Item /\ inFlight' \subseteq Hosts /\ run' \in Row
        /\ view' \in [Workers -> Row \union {None}]
        /\ job' \in [Workers -> Item \union {None}]
        /\ visited' \subseteq Hosts /\ stop' \in BOOLEAN /\ dead' \subseteq Workers
        /\ phase' \in Phases /\ scans' \subseteq Item
    BY <2>1, ReleaseKeepsTypes
  <2>3. QED
    BY <1>5, <2>2 DEF AnswerCommitFails, TaskDone
<1>6. CASE HostReadFails(w)
  BY <1>6 DEF HostReadFails, TaskDoneFinally, history
<1>7. QED
  BY <1>2, <1>3, <1>4, <1>5, <1>6 DEF ProcessHost

LEMMA MainKeepsTypes ==
    ASSUME Types, Main \/ Cancel \/ LoopCloses \/ Over
    PROVE  Types'
<1> USE DEF Types, poolVars, history, Phases
<1>1. CASE StartWorkers
  <2>1. PICK order \in Arrangements(ItemsAt(Seeds, 0)) :
            queue' = order /\ unfinished' = Len(order)
    BY <1>1 DEF StartWorkers
  <2>2. order \in Seq(Item) /\ Len(order) \in Int
    <3>1. IsFiniteSet(ItemsAt(Seeds, 0)) /\ ItemsAt(Seeds, 0) \subseteq Item
      BY ItemsAtFacts
    <3>2. order \in Seq(ItemsAt(Seeds, 0))
      BY <3>1, ArrangementFacts
    <3>3. QED
      BY <3>1, <3>2
  <2>3. QED
    BY <1>1, <2>1, <2>2 DEF StartWorkers
<1>2. Failed(run) \in Row /\ Completed(run) \in Row
  <2>1. run.errors + 1 \in Nat /\ run.errors + errorCount \in Nat
    BY DEF Row
  <2>2. "FAILED" \in Statuses /\ "COMPLETED" \in Statuses
    BY DEF Statuses
  <2>3. QED
    BY <2>1, <2>2, RowEnds DEF Failed, Completed
<1>3. [run EXCEPT !.status = "CANCELLED", !.current = {}] \in Row
  <2>1. "CANCELLED" \in Statuses
    BY DEF Statuses
  <2>2. QED
    BY <2>1, RowEnds
<1>4. QED
  BY <1>1, <1>2, <1>3 DEF Main, StartFails, JoinReturns, Finish, FinishFails,
     Recompute, RecomputeFails, HandlerFails, Cancel, LoopCloses, Over, vars

THEOREM TypesInv == Spec => []Types
<1>1. Types /\ UNCHANGED vars => Types'
  BY DEF Types, vars, history
<1>2. Types /\ [Next]_vars => Types'
  BY <1>1, TakeKeepsTypes, ProcessHostKeepsTypes, MainKeepsTypes DEF Next
<1>3. QED
  BY <1>2, TypesInit, PTL DEF Spec

-----------------------------------------------------------------------------
(* Sessions: a worker keeps a row it read, unexpired, only once the run has  *)
(* stopped, and never while it scans a host.  So every read that feeds an    *)
(* update comes from the database.                                           *)
Sessions == \A w \in Workers : view[w] # None => stop /\ job[w] = None

LEMMA SessionsStep ==
    ASSUME Types, Sessions, [Next]_vars
    PROVE  Sessions'
<1> USE DEF Sessions, Types
<1>1. ASSUME NEW w \in Workers, Take(w)
      PROVE  Sessions'
  <2>1. CASE PassOver(w)
    BY <2>1 DEF PassOver, history
  <2>2. CASE SkipExcluded(w)
    BY <2>2 DEF SkipExcluded, history
  <2>3. CASE StopAtLimit(w)
    BY <2>3 DEF StopAtLimit, Visits, Waiting
  <2>4. CASE Claim(w)
    BY <2>4 DEF Claim, SafeCommit, Expired
  <2>5. CASE ClaimCommitFails(w)
    BY <2>5 DEF ClaimCommitFails, SafeCommit, Expired
  <2>6. CASE ClaimReadFails(w)
    BY <2>6 DEF ClaimReadFails
  <2>7. QED
    BY <1>1, <2>1, <2>2, <2>3, <2>4, <2>5, <2>6 DEF Take
<1>2. ASSUME NEW w \in Workers, ProcessHost(w)
      PROVE  Sessions'
  <2>1. ASSUME NEW ok, NEW row, Release(w, ok, row)
        PROVE  Sessions'
    BY <2>1 DEF Release, SafeCommit, Expired
  <2>2. CASE HostReadFails(w)
    BY <2>2 DEF HostReadFails
  <2>3. QED
    BY <1>2, <2>1, <2>2 DEF ProcessHost, HostRaises, HostSilent, HostAnswers,
       AnswerCommitFails
<1>3. CASE Main \/ Cancel \/ LoopCloses \/ Over \/ UNCHANGED vars
  <2>1. UNCHANGED <<view, stop, job>>
    BY <1>3 DEF Main, StartWorkers, StartFails, JoinReturns, Finish, FinishFails,
       Recompute, RecomputeFails, HandlerFails, Cancel, LoopCloses, Over, vars, poolVars
  <2>2. QED
    BY <2>1
<1>4. QED
  BY <1>1, <1>2, <1>3 DEF Next

THEOREM SessionsInv == Spec => []Sessions
<1>1. Init => Sessions
  BY DEF Init, Sessions
<1>2. QED
  BY <1>1, TypesInv, SessionsStep, PTL DEF Spec

(* What a worker reads of the row before it updates it is the committed row. *)
LEMMA ReadsAreFresh ==
    ASSUME Sessions, NEW w \in Workers, ~stop \/ job[w] # None
    PROVE  Get(w) = run
BY DEF Sessions, Get

-----------------------------------------------------------------------------
(* The count of unfinished items.                                            *)

Joined == phase \notin {"join", "cancelled", "closed"} => unfinished = 0

LEMMA BusyIsFinite == IsFiniteSet(Busy) /\ Cardinality(Busy) \in Nat
<1>1. Busy \subseteq Workers
  BY DEF Busy
<1>2. QED
  BY <1>1, FS_Subset, FS_CardinalityType

LEMMA BusyGrows ==
    ASSUME Types, NEW w \in Workers, NEW it \in Item, job[w] = None,
           job' = [job EXCEPT ![w] = it]
    PROVE  Cardinality(Busy') = Cardinality(Busy) + 1
<1>1. w \notin Busy
  BY DEF Busy
<1>2. it # None
  OBVIOUS
<1>3. Busy' = Busy \union {w}
  BY <1>2 DEF Busy, Types
<1>4. QED
  BY <1>1, <1>3, BusyIsFinite, FS_AddElement

LEMMA BusyShrinks ==
    ASSUME Types, NEW w \in Workers, job[w] # None,
           job' = [job EXCEPT ![w] = None]
    PROVE  Cardinality(Busy') = Cardinality(Busy) - 1
<1>1. w \in Busy
  BY DEF Busy
<1>2. Busy' = Busy \ {w}
  BY DEF Busy, Types
<1>3. QED
  BY <1>1, <1>2, BusyIsFinite, FS_RemoveElement

(* Taking an item: it leaves the queue, and is either done or in hand.       *)
LEMMA TakeCounts ==
    ASSUME Types, UnfinishedIsExact, NEW w \in Workers, Take(w)
    PROVE  UnfinishedIsExact' /\ phase' = phase /\ phase \in {"join", "cancelled"}
<1> USE DEF UnfinishedIsExact
<1>1. /\ queue # <<>> /\ queue' = Tail(queue) /\ phase' = phase
      /\ phase \in {"join", "cancelled"} /\ job[w] = None
  BY DEF Take, PassOver, SkipExcluded, StopAtLimit, Claim, ClaimCommitFails,
     ClaimReadFails, Visits, Waiting, WorkersRun
<1>2. Len(queue') = Len(queue) - 1 /\ Len(queue) \in Nat /\ Head(queue) \in Item
  BY <1>1 DEF Types
<1>3. CASE Claim(w)
  <2>1. Cardinality(Busy') = Cardinality(Busy) + 1 /\ unfinished' = unfinished
    BY <1>1, <1>2, <1>3, BusyGrows DEF Claim
  <2>2. QED
    BY <1>1, <1>2, <2>1, BusyIsFinite
<1>4. CASE ~Claim(w)
  <2>1. job' = job /\ unfinished' = unfinished - 1
    BY <1>4 DEF Take, PassOver, SkipExcluded, StopAtLimit, ClaimCommitFails,
       ClaimReadFails, TaskDone, TaskDoneFinally
  <2>2. Busy' = Busy
    BY <2>1 DEF Busy
  <2>3. QED
    BY <1>1, <1>2, <2>1, <2>2, BusyIsFinite
<1>5. QED
  BY <1>1, <1>3, <1>4

(* Ending a scan: the item is done, and what it enqueued is counted.         *)
LEMMA ProcessHostCounts ==
    ASSUME Types, UnfinishedIsExact, NEW w \in Workers, ProcessHost(w)
    PROVE  UnfinishedIsExact' /\ phase' = phase /\ phase \in {"join", "cancelled"}
<1> USE DEF UnfinishedIsExact
<1>1. /\ job[w] # None /\ job' = [job EXCEPT ![w] = None] /\ phase' = phase
      /\ phase \in {"join", "cancelled"}
  BY DEF ProcessHost, HostRaises, HostSilent, HostAnswers, AnswerCommitFails,
     HostReadFails, Release, Scanning, WorkersRun
<1>2. Cardinality(Busy') = Cardinality(Busy) - 1
  BY <1>1, BusyShrinks
<1>3. ASSUME NEW infra \in BOOLEAN, HostAnswers(w, infra)
      PROVE  UnfinishedIsExact'
  <2>1. PICK order \in Arrangements(Expansion(job[w], infra)) :
            queue' = queue \o order /\ unfinished' = unfinished + Len(order) - 1
    BY <1>3 DEF HostAnswers
  <2>2. IsFiniteSet(Expansion(job[w], infra)) /\ Expansion(job[w], infra) \subseteq Item
    BY <1>1, ExpansionFacts DEF Types
  <2>3. order \in Seq(Item)
    BY <2>2, ArrangementFacts
  <2>4. Len(queue') = Len(queue) + Len(order) /\ Len(order) \in Nat /\ Len(queue) \in Nat
    BY <2>1, <2>3 DEF Types
  <2>5. QED
    BY <1>2, <2>1, <2>4, BusyIsFinite DEF Types
<1>4. CASE \A infra \in BOOLEAN : ~HostAnswers(w, infra)
  <2>1. queue' = queue /\ unfinished' = unfinished - 1
    BY <1>4 DEF ProcessHost, HostRaises, HostSilent, AnswerCommitFails,
       HostReadFails, TaskDone, TaskDoneFinally
  <2>2. Len(queue) \in Nat
    BY DEF Types
  <2>3. QED
    BY <1>1, <1>2, <2>1, <2>2, BusyIsFinite
<1>5. QED
  BY <1>1, <1>3, <1>4

LEMMA MainCounts ==
    ASSUME Types, UnfinishedIsExact, Joined,
           Main \/ Cancel \/ LoopCloses \/ Over \/ UNCHANGED vars
    PROVE  UnfinishedIsExact' /\ Joined'
<1>1. CASE StartWorkers
  <2>1. PICK order \in Arrangements(ItemsAt(Seeds, 0)) :
            queue' = order /\ unfinished' = Len(order)
    BY <1>1 DEF StartWorkers
  <2>2. Len(order) \in Nat
    <3>1. IsFiniteSet(ItemsAt(Seeds, 0))
      BY ItemsAtFacts
    <3>2. order \in Seq(ItemsAt(Seeds, 0))
      BY <3>1, ArrangementFacts
    <3>3. QED
      BY <3>2
  <2>3. Cardinality(Busy) = 0
    <3>1. unfinished = 0
      BY <1>1 DEF StartWorkers, Joined
    <3>2. QED
      BY <3>1, BusyIsFinite DEF UnfinishedIsExact, Types
  <2>4. Busy' = Busy
    BY <1>1 DEF StartWorkers, Busy
  <2>5. QED
    BY <1>1, <2>1, <2>2, <2>3, <2>4 DEF StartWorkers, UnfinishedIsExact, Joined
<1>2. CASE ~StartWorkers
  <2>1. UNCHANGED <<queue, unfinished, job>>
    BY <1>2 DEF Main, StartFails, JoinReturns, Finish, FinishFails, Recompute,
       RecomputeFails, HandlerFails, Cancel, LoopCloses, Over, vars, poolVars
  <2>2. Joined'
    BY <1>2 DEF Main, StartFails, JoinReturns, Finish, FinishFails, Recompute,
       RecomputeFails, HandlerFails, Cancel, LoopCloses, Over, vars, poolVars, Joined
  <2>3. QED
    BY <2>1, <2>2 DEF UnfinishedIsExact, Busy
<1>3. QED
  BY <1>1, <1>2

Accounting == UnfinishedIsExact /\ Joined

(* In every reachable state the asyncio queue's count of unfinished items is *)
(* what waits in it plus what the workers hold, also after workers died.     *)
THEOREM AccountingInv == Spec => []Accounting
<1>1. Init => Accounting
  <2> SUFFICES ASSUME Init PROVE Accounting
    OBVIOUS
  <2>1. Busy = {} /\ Len(queue) = 0
    BY DEF Init, Busy
  <2>2. QED
    BY <2>1, FS_EmptySet DEF Init, Accounting, UnfinishedIsExact, Joined
<1>2. Types /\ Accounting /\ [Next]_vars => Accounting'
  BY TakeCounts, ProcessHostCounts, MainCounts DEF Next, Accounting, Joined
<1>3. QED
  BY <1>1, <1>2, TypesInv, PTL DEF Spec

(* An exact count of zero means that nothing waits and nobody is busy.       *)
LEMMA DrainedWhenZero ==
    ASSUME Types, UnfinishedIsExact, unfinished = 0
    PROVE  queue = <<>> /\ Busy = {}
<1>1. Len(queue) \in Nat /\ Len(queue) + Cardinality(Busy) = 0
  BY DEF Types, UnfinishedIsExact
<1>2. Len(queue) = 0 /\ Cardinality(Busy) = 0
  BY <1>1, BusyIsFinite
<1>3. QED
  BY <1>2, BusyIsFinite, FS_EmptySet DEF Types

(* Type correctness of the worker pool: TypeOK holds of every reachable      *)
(* state.  The one part that is not local is that `unfinished`, which each   *)
(* task_done decreases, never becomes negative.                              *)
THEOREM TypeCorrect == Spec => []TypeOK
<1>1. Types /\ Accounting => TypeOK
  <2> SUFFICES ASSUME Types, Accounting PROVE TypeOK
    OBVIOUS
  <2>1. unfinished \in Nat
    BY BusyIsFinite DEF Accounting, UnfinishedIsExact, Types
  <2>2. QED
    BY <2>1 DEF Types, TypeOK
<1>2. QED
  BY <1>1, TypesInv, AccountingInv, PTL

(* The queue's count is exact: the form of the accounting that a run checks. *)
THEOREM UnfinishedCorrect == Spec => []UnfinishedIsExact
<1>1. Accounting => UnfinishedIsExact
  BY DEF Accounting
<1>2. QED
  BY <1>1, AccountingInv, PTL

(* When queue.join() has returned, no item waits and no worker holds a host: *)
(* the cancellation of the workers that follows interrupts no scan.          *)
THEOREM JoinCorrect == Spec => []JoinMeansDrained
<1>1. Types /\ Accounting => JoinMeansDrained
  BY DrainedWhenZero DEF Accounting, Joined, JoinMeansDrained
<1>2. QED
  BY <1>1, TypesInv, AccountingInv, PTL

-----------------------------------------------------------------------------
(* Claims: who scans what, and what the row counts.                          *)

\* At most one scan of a host, and only of a visited one.
ScanOnce ==
    /\ \A a, b \in scans : a.ip = b.ip => a = b
    /\ \A it \in scans : it.ip \in visited

\* A worker holds an item that was claimed and not answered, alone.
Holders ==
    /\ \A w \in Workers : job[w] # None => job[w] \in scans \ answered
    /\ \A v, w \in Workers : job[v] # None /\ job[v] = job[w] => v = w

\* The history is consistent, and the row counts it.
Tallies ==
    /\ expanded \subseteq answered /\ answered \subseteq scans
    /\ IsFiniteSet(scans)
    /\ run.scanned = Cardinality(scans)
    /\ run.alive = Cardinality(answered)

Claims == ScanOnce /\ Holders /\ Tallies

(* A claim: the host was not visited, so the item is new among the scans.    *)
LEMMA ClaimKeepsClaims ==
    ASSUME Types, Sessions, Claims, NEW w \in Workers, Claim(w)
    PROVE  Claims'
<1> DEFINE it == Head(queue)
<1>1. /\ it \in Item /\ it.ip \notin visited /\ ~stop /\ job[w] = None
      /\ visited' = visited \union {it.ip}
  BY DEF Claim, Visits, Waiting, Passes, Types
<1>2. /\ scans' = scans \union {it} /\ job' = [job EXCEPT ![w] = it]
      /\ UNCHANGED <<answered, expanded>>
  BY DEF Claim
<1>3. run' = [run EXCEPT !.scanned = run.scanned + 1, !.current = inFlight']
  BY <1>1, ReadsAreFresh DEF Claim, SafeCommit
<1> HIDE DEF it
<1>4. it \notin scans
  BY <1>1 DEF Claims, ScanOnce
<1>5. ScanOnce'
  BY <1>1, <1>2 DEF Claims, ScanOnce
<1>6. Holders'
  <2>1. it \notin answered
    BY <1>4 DEF Claims, Tallies
  <2>2. \A v \in Workers : job[v] # it
    BY <1>1, <1>4 DEF Claims, Holders
  <2>3. \A v \in Workers : job'[v] = IF v = w THEN it ELSE job[v]
    BY <1>2 DEF Types
  <2>4. QED
    BY <1>2, <2>1, <2>2, <2>3 DEF Claims, Holders
<1>7. Tallies'
  <2>1. IsFiniteSet(scans') /\ Cardinality(scans') = Cardinality(scans) + 1
    BY <1>2, <1>4, FS_AddElement DEF Claims, Tallies
  <2>2. run'.scanned = run.scanned + 1 /\ run'.alive = run.alive
    BY <1>3 DEF Types, Row
  <2>3. QED
    BY <1>2, <2>1, <2>2 DEF Claims, Tallies
<1>8. QED
  BY <1>5, <1>6, <1>7 DEF Claims

LEMMA TakeKeepsClaims ==
    ASSUME Types, Sessions, Claims, NEW w \in Workers, Take(w)
    PROVE  Claims'
<1>1. CASE Claim(w)
  BY <1>1, ClaimKeepsClaims
<1>2. CASE ~Claim(w)
  <2>1. UNCHANGED <<scans, answered, expanded, job, run>> /\ visited \subseteq visited'
    BY <1>2 DEF Take, PassOver, SkipExcluded, StopAtLimit, ClaimCommitFails,
       ClaimReadFails, Visits, SafeCommit, history
  <2>2. QED
    BY <2>1 DEF Claims, ScanOnce, Holders, Tallies
<1>3. QED
  BY <1>1, <1>2

LEMMA ReleaseKeepsHolders ==
    ASSUME Types, Holders, NEW w \in Workers, job[w] # None,
           job' = [job EXCEPT ![w] = None], scans' = scans,
           answered' = answered \/ answered' = answered \union {job[w]}
    PROVE  Holders'
<1>1. \A v \in Workers : job'[v] = IF v = w THEN None ELSE job[v]
  BY DEF Types
<1>2. QED
  BY <1>1 DEF Holders

LEMMA AnswerKeepsClaims ==
    ASSUME Types, Sessions, Claims, NEW w \in Workers, NEW infra \in BOOLEAN,
           HostAnswers(w, infra)
    PROVE  Claims'
<1>1. /\ job[w] # None /\ job' = [job EXCEPT ![w] = None]
      /\ UNCHANGED <<visited, scans>>
      /\ answered' = answered \union {job[w]}
      /\ expanded' \subseteq expanded \union {job[w]}
  BY DEF HostAnswers, Release, Scanning
<1>2. Holders'
  BY <1>1, ReleaseKeepsHolders DEF Claims
<1>3. job[w] \in scans /\ job[w] \notin answered
  BY <1>1 DEF Claims, Holders
<1>4. Get(w) = run
  BY <1>1, ReadsAreFresh
<1>5. run'.alive = run.alive + 1 /\ run'.scanned = run.scanned
  BY <1>4 DEF HostAnswers, Release, SafeCommit, Types, Row
<1>6. IsFiniteSet(answered)
  BY FS_Subset DEF Claims, Tallies
<1>7. Cardinality(answered') = Cardinality(answered) + 1
  BY <1>1, <1>3, <1>6, FS_AddElement
<1>8. Tallies'
  BY <1>1, <1>3, <1>5, <1>7 DEF Claims, Tallies
<1>9. QED
  BY <1>1, <1>2, <1>8 DEF Claims, ScanOnce

LEMMA ProcessHostKeepsClaims ==
    ASSUME Types, Sessions, Claims, NEW w \in Workers, ProcessHost(w)
    PROVE  Claims'
<1>1. ASSUME NEW infra \in BOOLEAN, HostAnswers(w, infra)
      PROVE  Claims'
  BY <1>1, AnswerKeepsClaims
<1>2. CASE \A infra \in BOOLEAN : ~HostAnswers(w, infra)
  <2>1. /\ job[w] # None /\ job' = [job EXCEPT ![w] = None]
        /\ UNCHANGED <<visited, scans, answered, expanded>>
    BY <1>2 DEF ProcessHost, HostRaises, HostSilent, AnswerCommitFails,
       HostReadFails, Release, Scanning, history
  <2>2. run'.scanned = run.scanned /\ run'.alive = run.alive
    <3>1. CASE HostReadFails(w)
      BY <3>1 DEF HostReadFails
    <3>2. ASSUME NEW ok \in BOOLEAN, Release(w, ok, run)
          PROVE  run'.scanned = run.scanned /\ run'.alive = run.alive
      BY <3>2 DEF Release, SafeCommit, Types, Row
    <3>3. QED
      BY <1>2, <3>1, <3>2 DEF ProcessHost, HostRaises, HostSilent, AnswerCommitFails
  <2>3. Holders'
    BY <2>1, ReleaseKeepsHolders DEF Claims
  <2>4. QED
    BY <2>1, <2>2, <2>3 DEF Claims, ScanOnce, Tallies
<1>3. QED
  BY <1>1, <1>2

LEMMA MainKeepsClaims ==
    ASSUME Types, Claims, Main \/ Cancel \/ LoopCloses \/ Over \/ UNCHANGED vars
    PROVE  Claims'
<1>1. UNCHANGED <<visited, job, scans, answered, expanded>>
  BY DEF Main, StartWorkers, StartFails, JoinReturns, Finish, FinishFails,
     Recompute, RecomputeFails, HandlerFails, Cancel, LoopCloses, Over, vars,
     poolVars, history
<1>2. run'.scanned = run.scanned /\ run'.alive = run.alive
  BY DEF Main, StartWorkers, StartFails, JoinReturns, Finish, FinishFails,
     Recompute, RecomputeFails, HandlerFails, Cancel, LoopCloses, Over, vars,
     Failed, Completed, Types, Row
<1>3. QED
  BY <1>1, <1>2 DEF Claims, ScanOnce, Holders, Tallies

THEOREM ClaimsInv == Spec => []Claims
<1>1. Init => Claims
  <2> SUFFICES ASSUME Init PROVE Claims
    OBVIOUS
  <2>1. IsFiniteSet({}) /\ Cardinality({}) = 0
    BY FS_EmptySet
  <2>2. QED
    BY <2>1 DEF Init, Claims, ScanOnce, Holders, Tallies
<1>2. Types /\ Sessions /\ Claims /\ [Next]_vars => Claims'
  BY TakeKeepsClaims, ProcessHostKeepsClaims, MainKeepsClaims DEF Next
<1>3. QED
  BY <1>1, <1>2, TypesInv, SessionsInv, PTL DEF Spec

(* No host is scanned twice, and scanned_count and alive_count of the row    *)
(* are exactly the claims and answers that were committed, although every    *)
(* worker updates the row through a session of its own.                      *)
THEOREM CountsCorrect == Spec => []CountsAreExact
<1>1. Claims => CountsAreExact
  BY DEF Claims, ScanOnce, Tallies, CountsAreExact
<1>2. QED
  BY <1>1, ClaimsInv, PTL

-----------------------------------------------------------------------------
(* The host limit.                                                           *)

LEMMA LimitStep ==
    ASSUME Types, Sessions, LimitIsExact, [Next]_vars
    PROVE  LimitIsExact'
<1> USE DEF LimitIsExact
<1>1. ASSUME NEW w \in Workers, StopAtLimit(w)
      PROVE  LimitIsExact'
  <2>1. Get(w) = run /\ run' = run /\ Get(w).scanned >= MaxHosts
    BY <1>1, ReadsAreFresh DEF StopAtLimit, AtLimit, Visits, Passes
  <2>2. run.scanned \in Nat
    BY RowFields DEF Types
  <2>3. QED
    BY <2>1, <2>2
<1>2. ASSUME NEW w \in Workers, Claim(w)
      PROVE  LimitIsExact'
  <2>1. Get(w) = run /\ ~stop /\ stop' = stop /\ ~(run.scanned >= MaxHosts)
    BY <1>2, ReadsAreFresh DEF Claim, AtLimit, Visits, Passes
  <2>2. run' = [run EXCEPT !.scanned = run.scanned + 1, !.current = inFlight']
    BY <1>2, <2>1 DEF Claim, SafeCommit
  <2>3. run'.scanned = run.scanned + 1 /\ run.scanned \in Nat
    BY <2>2 DEF Types, Row
  <2>4. QED
    BY <2>1, <2>3
<1>3. CASE \A w \in Workers : ~StopAtLimit(w) /\ ~Claim(w)
  <2>1. stop' = stop
    BY <1>3 DEF Next, Take, PassOver, SkipExcluded, ClaimCommitFails, ClaimReadFails,
       ProcessHost, HostRaises, HostSilent, HostAnswers, AnswerCommitFails,
       HostReadFails, Release, Main, StartWorkers, StartFails, JoinReturns, Finish,
       FinishFails, Recompute, RecomputeFails, HandlerFails, Cancel, LoopCloses,
       Over, vars, poolVars
  <2>2. run'.scanned = run.scanned
    <3>1. ASSUME NEW w \in Workers, Take(w)
          PROVE  run' = run
      BY <1>3, <3>1 DEF Take, PassOver, SkipExcluded, ClaimCommitFails,
         ClaimReadFails, SafeCommit
    <3>2. ASSUME NEW w \in Workers, NEW ok, NEW n, NEW row \in {run, [run EXCEPT !.alive = n]},
                 Release(w, ok, row)
          PROVE  run'.scanned = run.scanned
      BY <3>2 DEF Release, SafeCommit, Types, Row
    <3>3. ASSUME NEW w \in Workers, ProcessHost(w)
          PROVE  run'.scanned = run.scanned
      BY <3>2, <3>3 DEF ProcessHost, HostRaises, HostSilent, HostAnswers,
         AnswerCommitFails, HostReadFails
    <3>4. CASE Main \/ Cancel \/ LoopCloses \/ Over \/ UNCHANGED vars
      BY <3>4 DEF Main, StartWorkers, StartFails, JoinReturns, Finish, FinishFails,
         Recompute, RecomputeFails, HandlerFails, Cancel, LoopCloses, Over, vars,
         Failed, Completed, Types, Row
    <3>5. QED
      BY <3>1, <3>3, <3>4 DEF Next
  <2>3. QED
    BY <2>1, <2>2
<1>4. QED
  BY <1>1, <1>2, <1>3

(* max_hosts is never passed, and the run stops early only when exactly      *)
(* max_hosts hosts have been scanned.                                        *)
THEOREM LimitCorrect == Spec => []LimitIsExact
<1>1. Init => LimitIsExact
  BY DEF Init, LimitIsExact
<1>2. QED
  BY <1>1, LimitStep, TypesInv, SessionsInv, PTL DEF Spec

-----------------------------------------------------------------------------
(* The addresses on show.                                                    *)

\* While the run is joined, whatever is in flight is on show: a failed commit
\* can leave an address too many, never one too few.
Shown ==
    /\ phase \in {"start", "join"} => run.status = "RUNNING"
    /\ phase \in {"cancelled", "closed"} => run.status = "CANCELLED"
    /\ phase = "join" => inFlight \subseteq run.current
    /\ \A w \in Workers : job[w] # None => job[w].ip \in inFlight

LEMMA TakeKeepsShown ==
    ASSUME Types, Sessions, Shown, NEW w \in Workers, Take(w)
    PROVE  Shown'
<1>1. CASE Claim(w)
  <2> DEFINE it == Head(queue)
  <2>1. inFlight' = inFlight \union {it.ip} /\ phase' = phase /\ it \in Item
    BY <1>1 DEF Claim, Visits, Waiting, Types
  <2>2. inFlight' \subseteq Hosts
    BY <2>1 DEF Types, Item
  <2>3. run'.status = run.status /\ run'.current = inFlight'
    BY <1>1 DEF Claim, SafeCommit, Types, Row
  <2>4. \A v \in Workers : job'[v] = IF v = w THEN it ELSE job[v]
    BY <1>1 DEF Claim, Types
  <2>5. QED
    BY <2>1, <2>3, <2>4 DEF Shown
<1>2. CASE ~Claim(w)
  <2>1. UNCHANGED <<job, run, inFlight, phase>>
    BY <1>2 DEF Take, PassOver, SkipExcluded, StopAtLimit, ClaimCommitFails,
       ClaimReadFails, SafeCommit
  <2>2. QED
    BY <2>1 DEF Shown
<1>3. QED
  BY <1>1, <1>2

LEMMA ProcessHostKeepsShown ==
    ASSUME Types, Claims, Shown, NEW w \in Workers, ProcessHost(w)
    PROVE  Shown'
<1>1. /\ job[w] # None /\ phase' = phase
      /\ \A v \in Workers : job'[v] = IF v = w THEN None ELSE job[v]
      /\ inFlight' \in {inFlight, inFlight \ {job[w].ip}}
  BY DEF ProcessHost, HostRaises, HostSilent, HostAnswers, AnswerCommitFails,
     HostReadFails, Release, Scanning, Types
<1>2. \A v \in Workers : job[v] # None /\ v # w => job[v].ip # job[w].ip
  BY <1>1 DEF Claims, ScanOnce, Holders
<1>3. /\ run'.status = run.status
      /\ run'.current = run.current \/ run'.current = inFlight'
  <2>1. ASSUME NEW ok, NEW n, NEW row \in {run, [run EXCEPT !.alive = n]},
               Release(w, ok, row)
        PROVE  /\ run'.status = run.status
               /\ run'.current = run.current \/ run'.current = inFlight'
    BY <2>1 DEF Release, SafeCommit, Types, Row
  <2>2. QED
    BY <2>1 DEF ProcessHost, HostRaises, HostSilent, HostAnswers, AnswerCommitFails,
       HostReadFails
<1>4. QED
  BY <1>1, <1>2, <1>3 DEF Shown

LEMMA MainKeepsShown ==
    ASSUME Types, Shown, Main \/ Cancel \/ LoopCloses \/ Over \/ UNCHANGED vars,
           phase = "start" => inFlight = {}
    PROVE  Shown'
<1>1. UNCHANGED <<job, inFlight>>
  BY DEF Main, StartWorkers, StartFails, JoinReturns, Finish, FinishFails,
     Recompute, RecomputeFails, HandlerFails, Cancel, LoopCloses, Over, vars, poolVars
<1>2. CASE Cancel
  <2>1. run'.status = "CANCELLED" /\ phase' = "cancelled"
    BY <1>2 DEF Cancel, Types, Row
  <2>2. QED
    BY <1>1, <2>1 DEF Shown
<1>3. CASE ~Cancel
  BY <1>1, <1>3 DEF Main, StartWorkers, StartFails, JoinReturns, Finish, FinishFails,
     Recompute, RecomputeFails, HandlerFails, LoopCloses, Over, vars, Shown
<1>4. QED
  BY <1>2, <1>3

\* Before the workers start nothing is in flight.
Fresh == phase = "start" => inFlight = {}

LEMMA FreshStep == ASSUME Types, Fresh, [Next]_vars PROVE Fresh'
BY DEF Fresh, Next, Take, PassOver, SkipExcluded, StopAtLimit, Claim, ClaimCommitFails,
   ClaimReadFails, Visits, Waiting, WorkersRun, ProcessHost, HostRaises, HostSilent,
   HostAnswers, AnswerCommitFails, HostReadFails, Release, Scanning, Main, StartWorkers,
   StartFails, JoinReturns, Finish, FinishFails, Recompute, RecomputeFails,
   HandlerFails, Cancel, LoopCloses, Over, vars, poolVars

THEOREM ShownInv == Spec => [](Shown /\ Fresh)
<1>1. Init => Shown /\ Fresh
  BY DEF Init, Shown, Fresh
<1>2. Types /\ Sessions /\ Claims /\ Shown /\ Fresh /\ [Next]_vars => (Shown /\ Fresh)'
  BY TakeKeepsShown, ProcessHostKeepsShown, MainKeepsShown, FreshStep DEF Next, Fresh
<1>3. QED
  BY <1>1, <1>2, TypesInv, SessionsInv, ClaimsInv, PTL DEF Spec

(* While a run is RUNNING, every host a worker is scanning is among the      *)
(* addresses the row shows, whichever commits failed before.                 *)
THEOREM ShownCorrect == Spec => []ScanningIsShown
<1>1. Types /\ Accounting /\ Shown => ScanningIsShown
  <2> SUFFICES ASSUME Types, Accounting, Shown, run.status = "RUNNING",
                      NEW w \in Workers, job[w] # None
               PROVE  job[w].ip \in run.current
    BY DEF ScanningIsShown
  <2>1. unfinished # 0
    BY DrainedWhenZero DEF Accounting, Busy
  <2>2. phase \in {"join", "cancelled", "closed"}
    BY <2>1 DEF Accounting, Joined
  <2>3. phase = "join"
    BY <2>2 DEF Shown
  <2>4. QED
    BY <2>3 DEF Shown
<1>2. QED
  BY <1>1, TypesInv, AccountingInv, ShownInv, PTL

-----------------------------------------------------------------------------
(* Expansion.                                                                *)

\* Nothing waits deeper than max_depth, and as long as the run has not stopped,
\* every neighbour a scan was to enqueue was visited or waits.
Covered ==
    /\ \A i \in 1 .. Len(queue) : queue[i].depth <= MaxDepth
    /\ ~stop => \A it \in expanded : it.depth < MaxDepth =>
          \A n \in Neighbors[it.ip] \cap InScope :
              n \in visited \/ \E i \in 1 .. Len(queue) : queue[i].ip = n

LEMMA TailFacts ==
    ASSUME NEW q \in Seq(Item), q # <<>>
    PROVE  \A i \in 1 .. Len(q) :
              q[i] = Head(q) \/ \E j \in 1 .. Len(Tail(q)) : Tail(q)[j] = q[i]
<1> SUFFICES ASSUME NEW i \in 1 .. Len(q), i # 1
             PROVE  \E j \in 1 .. Len(Tail(q)) : Tail(q)[j] = q[i]
  OBVIOUS
<1>1. i - 1 \in 1 .. Len(Tail(q)) /\ Tail(q)[i - 1] = q[i]
  OBVIOUS
<1>2. QED
  BY <1>1

LEMMA TakeKeepsCovered ==
    ASSUME Types, Covered, NEW w \in Workers, Take(w)
    PROVE  Covered'
<1>1. /\ queue # <<>> /\ queue' = Tail(queue) /\ expanded' = expanded
      /\ visited \subseteq visited'
      /\ Passes(Head(queue)) \/ Head(queue).ip \in visited'
  BY DEF Take, PassOver, SkipExcluded, StopAtLimit, Claim, ClaimCommitFails,
     ClaimReadFails, Visits, Waiting, history
<1>a. ~stop' => ~stop
  <2>1. stop' = stop \/ stop' = TRUE
    BY DEF Take, PassOver, SkipExcluded, StopAtLimit, Claim, ClaimCommitFails,
       ClaimReadFails
  <2>2. QED
    BY <2>1
<1>2. \A i \in 1 .. Len(queue') : queue'[i] = queue[i + 1] /\ i + 1 \in 1 .. Len(queue)
  BY <1>1 DEF Types
<1>3. Head(queue).depth <= MaxDepth /\ Head(queue).depth \in Nat
  <2>1. 1 \in 1 .. Len(queue) /\ Head(queue) = queue[1] /\ Head(queue) \in Item
    BY <1>1 DEF Types
  <2>2. QED
    BY <2>1 DEF Covered, Item
<1>4. \A i \in 1 .. Len(queue') : queue'[i].depth <= MaxDepth
  BY <1>2 DEF Covered
<1>5. ASSUME ~stop', NEW it \in expanded', it.depth < MaxDepth,
             NEW n \in Neighbors[it.ip] \cap InScope, n \notin visited'
      PROVE  \E i \in 1 .. Len(queue') : queue'[i].ip = n
  <2>0. ~stop /\ it \in expanded /\ n \notin visited
    BY <1>1, <1>a, <1>5
  <2>1. PICK i \in 1 .. Len(queue) : queue[i].ip = n
    BY <1>5, <2>0 DEF Covered
  <2>2. Head(queue).ip \in visited'
    <3>1. Passes(Head(queue)) => Head(queue).ip \in visited
      BY <1>3, <2>0 DEF Passes
    <3>2. QED
      BY <1>1, <3>1
  <2>3. queue[i] # Head(queue)
    BY <1>5, <2>1, <2>2
  <2>4. QED
    BY <1>1, <2>1, <2>3, TailFacts DEF Types
<1>6. QED
  BY <1>4, <1>5 DEF Covered

LEMMA ConcatFacts ==
    ASSUME NEW p \in Seq(Item), NEW q \in Seq(Item)
    PROVE  /\ \A i \in 1 .. Len(p) : i \in 1 .. Len(p \o q) /\ (p \o q)[i] = p[i]
           /\ \A i \in 1 .. Len(q) :
                 /\ Len(p) + i \in 1 .. Len(p \o q)
                 /\ (p \o q)[Len(p) + i] = q[i]
<1>1. Len(p) \in Nat /\ Len(q) \in Nat /\ Len(p \o q) = Len(p) + Len(q)
  OBVIOUS
<1>2. ASSUME NEW i \in 1 .. Len(q)
      PROVE  (p \o q)[Len(p) + i] = q[i]
  OBVIOUS
<1>3. QED
  BY <1>1, <1>2

LEMMA AnswerKeepsCovered ==
    ASSUME Types, Covered, NEW w \in Workers, NEW infra \in BOOLEAN,
           HostAnswers(w, infra)
    PROVE  Covered'
<1> DEFINE E == Expansion(job[w], infra)
<1>1. /\ job[w] \in Item /\ UNCHANGED <<visited, stop>>
      /\ expanded' = IF infra THEN expanded \union {job[w]} ELSE expanded
  BY DEF HostAnswers, Release, Scanning, Types
<1>2. /\ IsFiniteSet(E) /\ E \subseteq Item
      /\ \A e \in E : e.depth <= MaxDepth
  BY <1>1, ExpansionFacts
<1>3. PICK order \in Arrangements(E) : queue' = queue \o order
  BY DEF HostAnswers
<1> HIDE DEF E
<1>4. /\ order \in Seq(E) /\ order \in Seq(Item)
      /\ \A e \in E : \E i \in 1 .. Len(order) : order[i] = e
  BY <1>2, <1>3, ArrangementFacts
<1>5. /\ \A i \in 1 .. Len(queue) : i \in 1 .. Len(queue') /\ queue'[i] = queue[i]
      /\ \A i \in 1 .. Len(order) :
            /\ Len(queue) + i \in 1 .. Len(queue')
            /\ queue'[Len(queue) + i] = order[i]
  BY <1>3, <1>4, ConcatFacts DEF Types
<1>6. \A i \in 1 .. Len(queue') : queue'[i].depth <= MaxDepth
  <2> SUFFICES ASSUME NEW i \in 1 .. Len(queue')
               PROVE  queue'[i].depth <= MaxDepth
    OBVIOUS
  <2>1. CASE i <= Len(queue)
    <3>1. i \in 1 .. Len(queue)
      BY <2>1 DEF Types
    <3>2. QED
      BY <1>5, <3>1 DEF Covered
  <2>2. CASE ~(i <= Len(queue))
    <3>1. i - Len(queue) \in 1 .. Len(order) /\ queue'[i] = order[i - Len(queue)]
      BY <1>3, <1>4, <2>2 DEF Types
    <3>2. order[i - Len(queue)] \in E
      BY <1>4, <3>1
    <3>3. QED
      BY <1>2, <3>1, <3>2
  <2>3. QED
    BY <2>1, <2>2
<1>7. ASSUME ~stop', NEW it \in expanded', it.depth < MaxDepth,
             NEW n \in Neighbors[it.ip] \cap InScope, n \notin visited'
      PROVE  \E i \in 1 .. Len(queue') : queue'[i].ip = n
  <2>1. CASE it \in expanded
    <3>1. PICK i \in 1 .. Len(queue) : queue[i].ip = n
      BY <1>1, <1>7, <2>1 DEF Covered
    <3>2. QED
      BY <1>5, <3>1
  <2>2. CASE it = job[w] /\ infra
    <3> DEFINE e == [ip |-> n, depth |-> it.depth + 1]
    <3>1. e \in E
      BY <1>1, <1>7, <2>2 DEF E, Expansion, ItemsAt
    <3>2. PICK i \in 1 .. Len(order) : order[i] = e
      BY <1>4, <3>1
    <3>3. queue'[Len(queue) + i].ip = n /\ Len(queue) + i \in 1 .. Len(queue')
      BY <1>5, <3>2
    <3>4. QED
      BY <3>3
  <2>3. QED
    BY <1>1, <1>7, <2>1, <2>2
<1>8. QED
  BY <1>6, <1>7 DEF Covered

LEMMA OthersKeepCovered ==
    ASSUME Types, Covered, UNCHANGED <<queue, visited, stop, expanded>>
    PROVE  Covered'
BY DEF Covered

THEOREM CoveredInv == Spec => []Covered
<1>1. Init => Covered
  BY DEF Init, Covered
<1>2. ASSUME Types, Covered, Accounting, expanded = {} \/ phase # "start", [Next]_vars
      PROVE  Covered'
  <2>1. ASSUME NEW w \in Workers, Take(w)
        PROVE  Covered'
    BY <1>2, <2>1, TakeKeepsCovered
  <2>2. ASSUME NEW w \in Workers, ProcessHost(w)
        PROVE  Covered'
    <3>1. ASSUME NEW infra \in BOOLEAN, HostAnswers(w, infra)
          PROVE  Covered'
      BY <1>2, <3>1, AnswerKeepsCovered
    <3>2. CASE \A infra \in BOOLEAN : ~HostAnswers(w, infra)
      BY <1>2, <2>2, <3>2, OthersKeepCovered DEF ProcessHost, HostRaises, HostSilent,
         AnswerCommitFails, HostReadFails, Release, history
    <3>3. QED
      BY <3>1, <3>2
  <2>3. CASE StartWorkers
    <3>1. PICK order \in Arrangements(ItemsAt(Seeds, 0)) : queue' = order
      BY <2>3 DEF StartWorkers
    <3>2. IsFiniteSet(ItemsAt(Seeds, 0)) /\ \A e \in ItemsAt(Seeds, 0) : e.depth = 0
      BY ItemsAtFacts DEF ItemsAt
    <3>3. order \in Seq(ItemsAt(Seeds, 0))
      BY <3>1, <3>2, ArrangementFacts
    <3>4. \A i \in 1 .. Len(queue') : queue'[i].depth <= MaxDepth
      BY <3>1, <3>2, <3>3
    <3>5. expanded' = {}
      BY <1>2, <2>3 DEF StartWorkers, history
    <3>6. QED
      BY <3>4, <3>5 DEF Covered
  <2>4. CASE (Main /\ ~StartWorkers) \/ Cancel \/ LoopCloses \/ Over \/ UNCHANGED vars
    <3>1. UNCHANGED <<queue, visited, stop, expanded>>
      BY <2>4 DEF Main, StartFails, JoinReturns, Finish, FinishFails, Recompute,
         RecomputeFails, HandlerFails, Cancel, LoopCloses, Over, vars, poolVars, history
    <3>2. QED
      BY <1>2, <3>1, OthersKeepCovered
  <2>5. QED
    BY <1>2, <2>1, <2>2, <2>3, <2>4 DEF Next
<1>3. Init => (expanded = {} \/ phase # "start")
  BY DEF Init
<1>4. Types /\ (expanded = {} \/ phase # "start") /\ [Next]_vars
      => (expanded = {} \/ phase # "start")'
  BY DEF Next, Take, PassOver, SkipExcluded, StopAtLimit, Claim, ClaimCommitFails,
     ClaimReadFails, Visits, Waiting, WorkersRun, ProcessHost, HostRaises, HostSilent,
     HostAnswers, AnswerCommitFails, HostReadFails, Release, Scanning, Main, StartWorkers,
     StartFails, JoinReturns, Finish, FinishFails, Recompute, RecomputeFails,
     HandlerFails, Cancel, LoopCloses, Over, vars, poolVars, history
<1>5. Types /\ Covered /\ Accounting /\ (expanded = {} \/ phase # "start") /\ [Next]_vars
      => Covered'
  BY <1>2
<1>6. QED
  BY <1>1, <1>3, <1>4, <1>5, TypesInv, AccountingInv, PTL DEF Spec

(* When the workers have drained the queue without reaching max_hosts, every *)
(* in-scope neighbour of every infrastructure host scanned above the depth   *)
(* limit was visited: the pool loses nothing that was enqueued.              *)
THEOREM ExpansionCorrect == Spec => []ExpansionIsClosed
<1>1. Types /\ Accounting /\ Covered => ExpansionIsClosed
  <2> SUFFICES ASSUME Types, Accounting, Covered, phase \in {"finish", "recompute"}, ~stop,
                      NEW it \in expanded, it.depth < MaxDepth,
                      NEW n \in Neighbors[it.ip] \cap InScope
               PROVE  n \in visited
    BY DEF ExpansionIsClosed
  <2>1. queue = <<>>
    BY DrainedWhenZero DEF Accounting, Joined
  <2>2. QED
    BY <2>1 DEF Covered
<1>2. QED
  BY <1>1, TypesInv, AccountingInv, CoveredInv, PTL

-----------------------------------------------------------------------------
(* What the row shows once it is no longer RUNNING.                          *)

LEMMA CurrentStep ==
    ASSUME Types, Shown, CurrentOnlyWhileRunning, phase \notin {"cancelled", "closed"},
           [Next]_vars
    PROVE  CurrentOnlyWhileRunning' \/ phase' \in {"cancelled", "closed"}
<1> USE DEF CurrentOnlyWhileRunning
<1>1. ASSUME NEW w \in Workers, Take(w) \/ ProcessHost(w)
      PROVE  CurrentOnlyWhileRunning'
  <2>1. phase = "join"
    BY <1>1 DEF Take, PassOver, SkipExcluded, StopAtLimit, Claim, ClaimCommitFails,
       ClaimReadFails, Visits, Waiting, WorkersRun, ProcessHost, HostRaises, HostSilent,
       HostAnswers, AnswerCommitFails, HostReadFails, Release, Scanning
  <2>2. run.status = "RUNNING"
    BY <2>1 DEF Shown
  <2>3. run' = run \/ \E r \in Row : \E c, n : \/ run' = [run EXCEPT !.scanned = n, !.current = c]
                                              \/ run' = [run EXCEPT !.current = c]
                                              \/ run' = [[run EXCEPT !.alive = n] EXCEPT !.current = c]
    BY <1>1 DEF Take, PassOver, SkipExcluded, StopAtLimit, Claim, ClaimCommitFails,
       ClaimReadFails, SafeCommit, ProcessHost, HostRaises, HostSilent,
       HostAnswers, AnswerCommitFails, HostReadFails, Release, Types
  <2>4. run'.status = "RUNNING"
    BY <2>2, <2>3 DEF Types, Row
  <2>5. QED
    BY <2>4
<1>2. CASE Main \/ Over \/ UNCHANGED vars
  BY <1>2 DEF Main, StartWorkers, StartFails, JoinReturns, Finish, FinishFails,
     Recompute, RecomputeFails, HandlerFails, Over, vars, Failed, Completed, Types, Row
<1>3. CASE Cancel \/ LoopCloses
  BY <1>3 DEF Cancel, LoopCloses
<1>4. QED
  BY <1>1, <1>2, <1>3 DEF Next

(* A run shows, while it is RUNNING, every host that is being scanned, and    *)
(* afterwards none, unless it was cancelled.  That a cancelled run may show  *)
(* hosts for good, because its workers outlive the handler, is what          *)
(* pool_cancel finds.                                                        *)
THEOREM RowCorrect == Spec => []RowShowsScans
<1> DEFINE Calm == phase \notin {"cancelled", "closed"}
<1>1. Init => (Calm => CurrentOnlyWhileRunning)
  BY DEF Init, CurrentOnlyWhileRunning
<1>2. ~Calm /\ [Next]_vars => ~Calm'
  BY DEF Next, Take, PassOver, SkipExcluded, StopAtLimit, Claim, ClaimCommitFails,
     ClaimReadFails, ProcessHost, HostRaises, HostSilent, HostAnswers,
     AnswerCommitFails, HostReadFails, Release, Main, StartWorkers, StartFails,
     JoinReturns, Finish, FinishFails, Recompute, RecomputeFails, HandlerFails,
     Cancel, LoopCloses, Over, vars
<1>3. Types /\ Shown /\ CurrentOnlyWhileRunning /\ Calm /\ [Next]_vars
      => (Calm' => CurrentOnlyWhileRunning')
  BY CurrentStep
<1>4. ScanningIsShown /\ (Calm => CurrentOnlyWhileRunning) => RowShowsScans
  BY DEF RowShowsScans
<1> HIDE DEF Calm
<1>5. QED
  BY <1>1, <1>2, <1>3, <1>4, TypesInv, ShownInv, ShownCorrect, PTL DEF Spec

-----------------------------------------------------------------------------
(* The hops from the seeds.                                                  *)

(* A non-empty set of numbers has a least one.                               *)
LEMMA LeastOne ==
    ASSUME NEW S \in SUBSET Nat, S # {}
    PROVE  \E m \in S : \A n \in S : m <= n
<1> DEFINE R == OpToRel(<, Nat)
<1>1. IsWellFoundedOn(R, Nat)
  BY NatLessThanWellFounded
<1>2. \A n, m \in Nat : n < m => <<n, m>> \in R
  BY DEF OpToRel
<1> HIDE DEF R
<1>3. PICK m \in S : \A n \in S : ~ (<<n, m>> \in R)
  BY <1>1, WFMin
<1>4. ASSUME NEW n \in S
      PROVE  m <= n
  <2>1. n \in Nat /\ m \in Nat /\ ~ (n < m)
    BY <1>2, <1>3
  <2>2. QED
    BY <2>1
<1>5. QED
  BY <1>4

\* One hop more, and the first n of them written down as a function.
Hop(S) == S \union UNION {Neighbors[h] \cap InScope : h \in (S \cap Infra) \ Excluded}

Hops(f, n) ==
    /\ f \in [0 .. n -> SUBSET Hosts]
    /\ f[0] = Seeds
    /\ \A i \in 0 .. n : i # n => f[i + 1] = Hop(f[i])

LEMMA HopType == ASSUME NEW S \in SUBSET Hosts PROVE Hop(S) \in SUBSET Hosts
BY DEF Hop

LEMMA HopsExist == \A n \in Nat : \E f : Hops(f, n)
<1> DEFINE Bad == {n \in Nat : ~ \E f : Hops(f, n)}
<1> SUFFICES ASSUME Bad # {} PROVE FALSE
  OBVIOUS
<1>1. PICK m \in Bad : \A n \in Bad : m <= n
  BY LeastOne
<1>2. CASE m = 0
  <2>1. Hops([i \in 0 .. 0 |-> Seeds], 0)
    BY DEF Hops
  <2>2. QED
    BY <1>1, <1>2, <2>1
<1>3. CASE m # 0
  <2>1. m - 1 \in Nat /\ m - 1 \notin Bad
    BY <1>1, <1>3
  <2>2. PICK f : Hops(f, m - 1)
    BY <2>1
  <2> DEFINE g == [i \in 0 .. m |-> IF i = m THEN Hop(f[m - 1]) ELSE f[i]]
  <2>3. f[m - 1] \in SUBSET Hosts /\ \A i \in 0 .. m - 1 : f[i] \in SUBSET Hosts
    BY <2>1, <2>2 DEF Hops
  <2>4. g \in [0 .. m -> SUBSET Hosts]
    BY <1>1, <2>3, HopType
  <2>5. g[0] = Seeds
    BY <1>1, <1>3, <2>2 DEF Hops
  <2>6. ASSUME NEW i \in 0 .. m, i # m
        PROVE  g[i + 1] = Hop(g[i])
    <3>1. CASE i = m - 1
      BY <1>1, <2>6, <3>1
    <3>2. CASE i # m - 1
      <4>1. i \in 0 .. m - 1 /\ i + 1 \in 0 .. m - 1 /\ i + 1 # m
        BY <1>1, <1>3, <2>6, <3>2
      <4>2. f[i + 1] = Hop(f[i])
        BY <2>2, <3>2, <4>1 DEF Hops
      <4>3. QED
        BY <1>1, <2>6, <4>1, <4>2
    <3>3. QED
      BY <3>1, <3>2
  <2>7. Hops(g, m)
    BY <2>4, <2>5, <2>6 DEF Hops
  <2>8. QED
    BY <1>1, <2>7
<1>4. QED
  BY <1>2, <1>3

LEMMA HopsAgree ==
    ASSUME NEW n \in Nat, NEW k \in Nat, NEW f, NEW g, Hops(f, n), Hops(g, k),
           NEW i \in Nat, i <= n, i <= k
    PROVE  f[i] = g[i]
<1> DEFINE Bad == {j \in Nat : j <= n /\ j <= k /\ f[j] # g[j]}
<1> SUFFICES ASSUME Bad # {} PROVE FALSE
  OBVIOUS
<1>1. PICK m \in Bad : \A j \in Bad : m <= j
  BY LeastOne
<1>2. m # 0
  BY <1>1 DEF Hops
<1>3. /\ m - 1 \in Nat /\ m - 1 \in 0 .. n /\ m - 1 \in 0 .. k
      /\ m - 1 # n /\ m - 1 # k /\ m - 1 + 1 = m
  BY <1>1, <1>2
<1>4. f[m - 1] = g[m - 1]
  BY <1>1, <1>3
<1>5. f[m - 1 + 1] = g[m - 1 + 1]
  BY <1>3, <1>4 DEF Hops
<1>6. QED
  BY <1>1, <1>3, <1>5

(* Within is what its definition says: the seeds, then one hop more each     *)
(* time.                                                                     *)
LEMMA WithinHops ==
    /\ Within[0] = Seeds
    /\ \A n \in Nat : Within[n] \in SUBSET Hosts /\ Within[n + 1] = Hop(Within[n])
<1> DEFINE W == [n \in Nat |-> (CHOOSE f : Hops(f, n))[n]]
<1>1. ASSUME NEW n \in Nat
      PROVE  /\ Hops(CHOOSE f : Hops(f, n), n)
             /\ W[n] = (CHOOSE f : Hops(f, n))[n]
             /\ W[n] \in SUBSET Hosts
  <2>1. PICK f : Hops(f, n)
    BY HopsExist
  <2>2. PICK g : g = CHOOSE h : Hops(h, n)
    OBVIOUS
  <2>3. Hops(g, n) /\ W[n] = g[n]
    BY <2>1, <2>2
  <2>4. g[n] \in SUBSET Hosts
    BY <2>3 DEF Hops
  <2> HIDE DEF W
  <2>5. QED
    BY <2>2, <2>3, <2>4
<1>2. W[0] = Seeds
  BY <1>1 DEF Hops
<1>3. ASSUME NEW n \in Nat
      PROVE  W[n + 1] = Hop(W[n])
  <2>1. PICK f : f = CHOOSE h : Hops(h, n)
    OBVIOUS
  <2>2. PICK g : g = CHOOSE h : Hops(h, n + 1)
    OBVIOUS
  <2>3. n + 1 \in Nat /\ Hops(f, n) /\ Hops(g, n + 1) /\ W[n] = f[n] /\ W[n + 1] = g[n + 1]
    BY <1>1, <2>1, <2>2
  <2> HIDE DEF W
  <2>4. f[n] = g[n]
    BY <2>3, HopsAgree
  <2>5. n \in 0 .. n + 1 /\ n # n + 1
    OBVIOUS
  <2>6. g[n + 1] = Hop(g[n])
    BY <2>3, <2>5 DEF Hops
  <2>7. QED
    BY <2>3, <2>4, <2>6
<1>4. W = [n \in Nat |->
              IF n = 0 THEN Seeds
              ELSE W[n - 1] \union
                   UNION {Neighbors[h] \cap InScope : h \in (W[n - 1] \cap Infra) \ Excluded}]
  <2>1. ASSUME NEW n \in Nat, n # 0
        PROVE  W[n] = W[n - 1] \union
                   UNION {Neighbors[h] \cap InScope : h \in (W[n - 1] \cap Infra) \ Excluded}
    <3>1. n - 1 \in Nat /\ n - 1 + 1 = n
      BY <2>1
    <3> HIDE DEF W
    <3>2. W[n - 1 + 1] = Hop(W[n - 1])
      BY <1>3, <3>1
    <3>3. QED
      BY <3>1, <3>2 DEF Hop
  <2>2. W = [n \in Nat |-> W[n]]
    OBVIOUS
  <2> HIDE DEF W
  <2>3. QED
    BY <1>2, <2>1, <2>2
<1> HIDE DEF W
<1>5. Within = [n \in Nat |->
              IF n = 0 THEN Seeds
              ELSE Within[n - 1] \union
                   UNION {Neighbors[h] \cap InScope : h \in (Within[n - 1] \cap Infra) \ Excluded}]
  BY <1>4 DEF Within
<1>6. Within[0] = Seeds
  BY <1>5
<1>7. ASSUME NEW n \in Nat
      PROVE  Within[n + 1] = Hop(Within[n])
  <2>1. n + 1 \in Nat /\ n + 1 # 0 /\ n + 1 - 1 = n
    OBVIOUS
  <2>2. Within[n + 1] = Within[n] \union
                   UNION {Neighbors[h] \cap InScope : h \in (Within[n] \cap Infra) \ Excluded}
    BY <1>5, <2>1
  <2>3. QED
    BY <2>2 DEF Hop
<1>8. ASSUME NEW n \in Nat
      PROVE  Within[n] \in SUBSET Hosts
  <2> DEFINE Bad == {k \in Nat : Within[k] \notin SUBSET Hosts}
  <2> SUFFICES ASSUME Bad # {} PROVE FALSE
    OBVIOUS
  <2>1. PICK m \in Bad : \A k \in Bad : m <= k
    BY LeastOne
  <2>2. m # 0
    BY <1>6, <2>1
  <2>3. m - 1 \in Nat /\ m - 1 \notin Bad /\ m - 1 + 1 = m
    BY <2>1, <2>2
  <2>4. Within[m] = Hop(Within[m - 1])
    BY <1>7, <2>3
  <2>5. QED
    BY <2>1, <2>3, <2>4, HopType
<1>9. QED
  BY <1>6, <1>7, <1>8

-----------------------------------------------------------------------------
(* Where scans lie.                                                          *)

\* What waits and what was scanned lies within as many hops as its depth says.
Near ==
    /\ \A i \in 1 .. Len(queue) : queue[i].ip \in Within[queue[i].depth]
    /\ \A it \in scans : /\ it.depth <= MaxDepth
                         /\ it.ip \in Within[it.depth] \ Excluded

LEMMA TakeKeepsNear ==
    ASSUME Types, Covered, Near, NEW w \in Workers, Take(w)
    PROVE  Near'
<1>1. /\ queue # <<>> /\ queue' = Tail(queue)
      /\ scans' = scans \/ (scans' = scans \union {Head(queue)} /\ Head(queue).ip \notin Excluded)
  BY DEF Take, PassOver, SkipExcluded, StopAtLimit, Claim, ClaimCommitFails,
     ClaimReadFails, Visits, Waiting, history
<1>2. \A i \in 1 .. Len(queue') : queue'[i] = queue[i + 1] /\ i + 1 \in 1 .. Len(queue)
  BY <1>1 DEF Types
<1>3. Head(queue) = queue[1] /\ 1 \in 1 .. Len(queue)
  BY <1>1 DEF Types
<1>4. QED
  BY <1>1, <1>2, <1>3 DEF Near, Covered

LEMMA AnswerKeepsNear ==
    ASSUME Types, Claims, Near, NEW w \in Workers, NEW infra \in BOOLEAN,
           HostAnswers(w, infra)
    PROVE  Near'
<1> DEFINE E == Expansion(job[w], infra)
<1>1. job[w] \in Item /\ job[w] \in scans /\ scans' = scans /\ (infra => job[w].ip \in Infra)
  BY DEF HostAnswers, Release, Scanning, Types, Claims, Holders
<1>2. IsFiniteSet(E) /\ E \subseteq Item
  BY <1>1, ExpansionFacts
<1>3. \A e \in E : e.ip \in Within[e.depth]
  <2> SUFFICES ASSUME NEW e \in E
               PROVE  e.ip \in Within[e.depth]
    OBVIOUS
  <2>1. /\ infra /\ e.depth = job[w].depth + 1
        /\ e.ip \in Neighbors[job[w].ip] \cap InScope
    BY DEF Expansion, ItemsAt
  <2>2. job[w].ip \in (Within[job[w].depth] \cap Infra) \ Excluded /\ job[w].depth \in Nat
    BY <1>1, <2>1 DEF Near, Item
  <2>3. e.ip \in Hop(Within[job[w].depth])
    BY <2>1, <2>2 DEF Hop
  <2>4. QED
    BY <2>1, <2>2, <2>3, WithinHops
<1>4. PICK order \in Arrangements(E) : queue' = queue \o order
  BY DEF HostAnswers
<1> HIDE DEF E
<1>5. order \in Seq(E) /\ order \in Seq(Item)
  BY <1>2, <1>4, ArrangementFacts
<1>6. ASSUME NEW i \in 1 .. Len(queue')
      PROVE  queue'[i].ip \in Within[queue'[i].depth]
  <2>1. CASE i <= Len(queue)
    <3>1. i \in 1 .. Len(queue) /\ queue'[i] = queue[i]
      BY <1>4, <1>5, <2>1 DEF Types
    <3>2. QED
      BY <3>1 DEF Near
  <2>2. CASE ~(i <= Len(queue))
    <3>1. i - Len(queue) \in 1 .. Len(order) /\ queue'[i] = order[i - Len(queue)]
      BY <1>4, <1>5, <2>2 DEF Types
    <3>2. order[i - Len(queue)] \in E
      BY <1>5, <3>1
    <3>3. QED
      BY <1>3, <3>1, <3>2
  <2>3. QED
    BY <2>1, <2>2
<1>7. QED
  BY <1>1, <1>6 DEF Near

LEMMA StartKeepsNear ==
    ASSUME Types, Near, StartWorkers
    PROVE  Near'
<1>1. PICK order \in Arrangements(ItemsAt(Seeds, 0)) : queue' = order
  BY DEF StartWorkers
<1>2. /\ IsFiniteSet(ItemsAt(Seeds, 0))
      /\ \A e \in ItemsAt(Seeds, 0) : e.depth = 0 /\ e.ip \in Seeds
  BY ItemsAtFacts DEF ItemsAt
<1>3. order \in Seq(ItemsAt(Seeds, 0))
  BY <1>1, <1>2, ArrangementFacts
<1>4. \A i \in 1 .. Len(queue') : queue'[i].ip \in Within[queue'[i].depth]
  BY <1>1, <1>2, <1>3, WithinHops
<1>5. QED
  BY <1>4 DEF StartWorkers, history, Near

LEMMA NearStep ==
    ASSUME Types, Covered, Claims, Near, [Next]_vars
    PROVE  Near'
<1>1. ASSUME NEW w \in Workers, ProcessHost(w), \A infra \in BOOLEAN : ~HostAnswers(w, infra)
      PROVE  UNCHANGED <<queue, scans>>
  BY <1>1 DEF ProcessHost, HostRaises, HostSilent, AnswerCommitFails, HostReadFails,
     Release, history
<1>2. CASE (Main /\ ~StartWorkers) \/ Cancel \/ LoopCloses \/ Over \/ UNCHANGED vars
  <2>1. UNCHANGED <<queue, scans>>
    BY <1>2 DEF Main, StartFails, JoinReturns, Finish, FinishFails, Recompute,
       RecomputeFails, HandlerFails, Cancel, LoopCloses, Over, vars, poolVars, history
  <2>2. QED
    BY <2>1 DEF Near
<1>3. QED
  BY <1>1, <1>2, TakeKeepsNear, AnswerKeepsNear, StartKeepsNear DEF Next, Near

THEOREM NearInv == Spec => []Near
<1>1. Init => Near
  BY DEF Init, Near
<1>2. QED
  BY <1>1, NearStep, TypesInv, CoveredInv, ClaimsInv, PTL DEF Spec

(* No host is scanned that lies further from the seeds, hop by hop through   *)
(* infrastructure hosts, than the depth recorded for it; none beyond         *)
(* max_depth; and never the server's own addresses.                          *)
THEOREM NearCorrect == Spec => []ScansStayNear
<1>1. Near => ScansStayNear
  BY DEF Near, ScansStayNear
<1>2. QED
  BY <1>1, NearInv, PTL

-----------------------------------------------------------------------------
(* Breadth first.  With one worker, and until a failure or the host limit    *)
(* intervenes, the queue holds the levels in order and the scans are behind  *)
(* it, so that whoever is met first is met at the least depth.               *)

Clean == ~stop /\ errorCount = 0 /\ dead = {}

Waits(h, k, q) == \E i \in 1 .. Len(q) : q[i].ip = h /\ q[i].depth <= k

\* An address to be scanned at depth k or less: it is excluded, or was scanned
\* there, or waits.
Met(h, k) ==
    \/ h \in Excluded
    \/ \E s \in scans : s.ip = h /\ s.depth <= k
    \/ Waits(h, k, queue)

InLevels ==
    /\ \A i, j \in 1 .. Len(queue) : i <= j => queue[i].depth <= queue[j].depth
    /\ \A i, j \in 1 .. Len(queue) : queue[j].depth <= queue[i].depth + 1
    /\ \A w \in Workers, i \in 1 .. Len(queue) : job[w] # None =>
          job[w].depth <= queue[i].depth /\ queue[i].depth <= job[w].depth + 1

ScansPrecede ==
    \A s \in scans :
        /\ \A i \in 1 .. Len(queue) : s.depth <= queue[i].depth
        /\ \A w \in Workers : job[w] # None => s.depth <= job[w].depth

AllMet ==
    /\ phase # "start" => \A h \in Seeds : Met(h, 0)
    /\ \A it \in expanded : it.depth < MaxDepth =>
          \A n \in Neighbors[it.ip] \cap InScope : Met(n, it.depth + 1)

VisitedScanned == \A h \in visited : h \in Excluded \/ \E s \in scans : s.ip = h

Levels == InLevels /\ ScansPrecede /\ AllMet /\ VisitedScanned

BreadthFirst == phase # "ended" /\ Clean => Levels

(* What has failed or stopped stays so.                                      *)
LEMMA CleanBefore ==
    ASSUME Types, [Next]_vars, Clean', phase' # "ended"
    PROVE  Clean /\ phase # "ended"
<1>1. \/ UNCHANGED <<stop, dead, errorCount>>
      \/ stop' = TRUE
      \/ \E w \in Workers : dead' = dead \union {w}
      \/ errorCount' \in {errorCount, errorCount + 1, errorCount + 2} /\ UNCHANGED <<stop, dead>>
  <2>1. ASSUME NEW w \in Workers, Take(w)
        PROVE  \/ UNCHANGED <<stop, dead, errorCount>>
               \/ stop' = TRUE
               \/ dead' = dead \union {w}
               \/ errorCount' = errorCount + 1 /\ UNCHANGED <<stop, dead>>
    BY <2>1 DEF Take, PassOver, SkipExcluded, StopAtLimit, Claim, ClaimCommitFails, ClaimReadFails
  <2>2. ASSUME NEW w \in Workers, ProcessHost(w)
        PROVE  \/ dead' = dead \union {w}
               \/ errorCount' \in {errorCount, errorCount + 1, errorCount + 2} /\ UNCHANGED <<stop, dead>>
    <3>1. Failures(TRUE) = 0 /\ Failures(FALSE) = 1 /\ errorCount \in Nat
      BY DEF Failures, Types
    <3>2. ASSUME NEW ok \in BOOLEAN, HostRaises(w, ok) \/ HostSilent(w, ok)
          PROVE  /\ errorCount' \in {errorCount, errorCount + 1, errorCount + 2}
                 /\ UNCHANGED <<stop, dead>>
      <4>1. Failures(ok) \in {0, 1}
        BY DEF Failures
      <4>2. QED
        BY <3>1, <3>2, <4>1 DEF HostRaises, HostSilent, Release
    <3>3. QED
      BY <2>2, <3>2 DEF ProcessHost, HostAnswers, AnswerCommitFails, HostReadFails, Release
  <2>3. CASE Main \/ Cancel \/ LoopCloses \/ Over \/ UNCHANGED vars
    BY <2>3 DEF Main, StartWorkers, StartFails, JoinReturns, Finish, FinishFails, Recompute,
       RecomputeFails, HandlerFails, Cancel, LoopCloses, Over, vars, poolVars
  <2>4. QED
    BY <2>1, <2>2, <2>3 DEF Next
<1>2. phase # "ended"
  BY DEF Next, Take, PassOver, SkipExcluded, StopAtLimit, Claim, ClaimCommitFails,
     ClaimReadFails, Visits, Waiting, WorkersRun, ProcessHost, HostRaises, HostSilent,
     HostAnswers, AnswerCommitFails, HostReadFails, Release, Scanning, Main,
     StartWorkers, StartFails, JoinReturns, Finish, FinishFails, Recompute, RecomputeFails,
     HandlerFails, Cancel, LoopCloses, Over, vars
<1>3. QED
  BY <1>1, <1>2 DEF Clean, Types

(* The head of the queue leaves it: who was met stays met.                   *)
LEMMA TakeKeepsLevels ==
    ASSUME Types, Covered, Levels, Clean, Clean', NEW w \in Workers, Workers = {w}, Take(w)
    PROVE  Levels'
<1> DEFINE it == Head(queue)
<1>1. /\ queue # <<>> /\ queue' = Tail(queue) /\ job[w] = None
      /\ expanded' = expanded /\ phase' = phase
      /\ phase # "start"
  BY DEF Take, PassOver, SkipExcluded, StopAtLimit, Claim, ClaimCommitFails,
     ClaimReadFails, Visits, Waiting, WorkersRun, history
<1>2. /\ it \in Item /\ it.depth \in Nat /\ it.depth <= MaxDepth
      /\ 1 \in 1 .. Len(queue) /\ it = queue[1]
  <2>1. 1 \in 1 .. Len(queue) /\ it = queue[1] /\ it \in Item
    BY <1>1 DEF Types
  <2>2. QED
    BY <2>1 DEF Covered, Item
<1>3. \A i \in 1 .. Len(queue') : queue'[i] = queue[i + 1] /\ i + 1 \in 1 .. Len(queue) /\ queue[i + 1] \in Item
  BY <1>1 DEF Types
<1>4. \/ it.ip \in visited /\ UNCHANGED <<visited, scans, job>>
      \/ it.ip \in Excluded /\ visited' = visited \union {it.ip} /\ UNCHANGED <<scans, job>>
      \/ /\ visited' = visited \union {it.ip} /\ scans' = scans \union {it}
         /\ job' = [job EXCEPT ![w] = it]
  <2>1. ~StopAtLimit(w) /\ ~ClaimCommitFails(w) /\ ~ClaimReadFails(w)
    BY DEF StopAtLimit, ClaimCommitFails, ClaimReadFails, Clean, Types
  <2>2. CASE PassOver(w)
    BY <1>2, <2>2 DEF PassOver, Passes, Clean, history
  <2>3. CASE SkipExcluded(w)
    BY <2>3 DEF SkipExcluded, Visits, history
  <2>4. CASE Claim(w)
    BY <2>4 DEF Claim, Visits
  <2>5. QED
    BY <2>1, <2>2, <2>3, <2>4 DEF Take
<1> HIDE DEF it
<1>5. scans \subseteq scans' /\ scans' \subseteq scans \union {it}
  BY <1>4
<1>6. \A s \in scans : s.depth \in Nat /\ s.depth <= it.depth
  BY <1>2 DEF Levels, ScansPrecede, Types, Item
<1>7. InLevels'
  <2>1. ASSUME NEW i \in 1 .. Len(queue'), NEW j \in 1 .. Len(queue')
        PROVE  /\ i <= j => queue'[i].depth <= queue'[j].depth
               /\ queue'[j].depth <= queue'[i].depth + 1
    <3>1. i \in Int /\ j \in Int /\ (i <= j => i + 1 <= j + 1)
      OBVIOUS
    <3>2. QED
      BY <1>3, <3>1 DEF Levels, InLevels
  <2>2. \A i \in 1 .. Len(queue') : it.depth <= queue'[i].depth /\ queue'[i].depth <= it.depth + 1
    BY <1>2, <1>3 DEF Levels, InLevels
  <2>3. job'[w] \in {None, it}
    BY <1>1, <1>4 DEF Types
  <2>4. QED
    BY <2>1, <2>2, <2>3 DEF InLevels
<1>8. ScansPrecede'
  <2>1. \A i \in 1 .. Len(queue') : it.depth <= queue'[i].depth /\ queue'[i].depth \in Nat
    BY <1>2, <1>3 DEF Levels, InLevels, Item
  <2>2. \A s \in scans' : s.depth \in Nat /\ s.depth <= it.depth
    BY <1>2, <1>5, <1>6
  <2>3. job'[w] \in {None, it}
    BY <1>1, <1>4 DEF Types
  <2>4. QED
    BY <1>2, <2>1, <2>2, <2>3 DEF ScansPrecede
<1>9. VisitedScanned'
  BY <1>4, <1>5 DEF Levels, VisitedScanned
<1>10. ASSUME NEW h, NEW k \in Nat, Met(h, k)
       PROVE  Met(h, k)'
  <2>1. CASE h \in Excluded \/ \E s \in scans : s.ip = h /\ s.depth <= k
    BY <1>5, <2>1 DEF Met
  <2>2. CASE Waits(h, k, queue)
    <3>1. PICK i \in 1 .. Len(queue) : queue[i].ip = h /\ queue[i].depth <= k
      BY <2>2 DEF Waits
    <3>2. CASE i = 1
      <4>1. it.ip = h /\ it.depth <= k
        BY <1>2, <3>1, <3>2
      <4>2. CASE it.ip \in visited
        <5>1. h \in Excluded \/ \E s \in scans : s.ip = h
          BY <4>1, <4>2 DEF Levels, VisitedScanned
        <5>2. \A s \in scans : s.depth <= k
          BY <1>2, <1>6, <4>1
        <5>3. QED
          BY <1>5, <5>1, <5>2 DEF Met
      <4>3. CASE it.ip \in Excluded \/ it \in scans'
        BY <4>1, <4>3 DEF Met
      <4>4. QED
        BY <1>4, <4>2, <4>3
    <3>3. CASE i # 1
      <4>1. i - 1 \in 1 .. Len(queue')
        BY <1>1, <3>1, <3>3 DEF Types
      <4>2. queue'[i - 1] = queue[i]
        BY <1>3, <4>1
      <4>3. Waits(h, k, queue')
        BY <3>1, <4>1, <4>2 DEF Waits
      <4>4. QED
        BY <4>3 DEF Met
    <3>4. QED
      BY <3>2, <3>3
  <2>3. QED
    BY <1>10, <2>1, <2>2 DEF Met
<1>11. AllMet'
  <2>1. \A x \in expanded : x.depth + 1 \in Nat
    BY DEF Types, Item
  <2>2. QED
    BY <1>1, <1>10, <2>1 DEF Levels, AllMet
<1>12. QED
  BY <1>7, <1>8, <1>9, <1>11 DEF Levels

(* A scan that ends without an answer changes nothing of this.               *)
LEMMA QuietKeepsLevels ==
    ASSUME Types, Levels, NEW w \in Workers, Workers = {w}, job'[w] \in {None, job[w]},
           UNCHANGED <<queue, scans, visited, expanded>>, phase = "start" => phase' = "start"
    PROVE  Levels'
<1>1. \A h, k : Met(h, k)' <=> Met(h, k)
  BY DEF Met
<1>2. AllMet'
  BY <1>1 DEF Levels, AllMet
<1>3. QED
  BY <1>2 DEF Levels, InLevels, ScansPrecede, VisitedScanned

(* An answer appends the next level.                                         *)
LEMMA AnswerKeepsLevels ==
    ASSUME Types, Claims, Levels, Clean, NEW w \in Workers, Workers = {w}, NEW infra \in BOOLEAN,
           HostAnswers(w, infra)
    PROVE  Levels'
<1> DEFINE E == Expansion(job[w], infra)
<1>1. /\ job[w] \in Item /\ job[w].depth \in Nat /\ job[w] \in scans
      /\ UNCHANGED <<visited, scans, phase>> /\ job'[w] = None
      /\ expanded' = IF infra THEN expanded \union {job[w]} ELSE expanded
      /\ phase # "start"
  BY DEF HostAnswers, Release, Scanning, WorkersRun, Types, Claims, Holders, Item
<1>b. \A e \in E : e.depth = job[w].depth + 1
  BY DEF Expansion, ItemsAt
<1>2. /\ IsFiniteSet(E) /\ E \subseteq Item
      /\ \A e \in E : e.depth = job[w].depth + 1
  BY <1>1, <1>b, ExpansionFacts
<1>3. PICK order \in Arrangements(E) : queue' = queue \o order
  BY DEF HostAnswers
<1>a. infra /\ job[w].depth < MaxDepth
      => \A n \in (Neighbors[job[w].ip] \ visited) \cap InScope :
            [ip |-> n, depth |-> job[w].depth + 1] \in E
  BY DEF Expansion, ItemsAt, Clean
<1> HIDE DEF E
<1>4. /\ order \in Seq(E) /\ order \in Seq(Item)
      /\ \A e \in E : \E i \in 1 .. Len(order) : order[i] = e
  BY <1>2, <1>3, ArrangementFacts
<1>5. /\ Len(queue) \in Nat /\ Len(order) \in Nat /\ Len(queue') = Len(queue) + Len(order)
      /\ \A i \in 1 .. Len(queue) : queue'[i] = queue[i] /\ queue[i].depth \in Nat
      /\ \A i \in 1 .. Len(order) : /\ Len(queue) + i \in 1 .. Len(queue')
                                    /\ queue'[Len(queue) + i] = order[i]
  <2>1. /\ Len(queue) \in Nat /\ Len(order) \in Nat /\ Len(queue') = Len(queue) + Len(order)
    BY <1>3, <1>4 DEF Types
  <2>2. \A i \in 1 .. Len(queue) : queue[i] \in Item
    BY DEF Types
  <2>3. /\ \A i \in 1 .. Len(queue) : queue'[i] = queue[i]
        /\ \A i \in 1 .. Len(order) : /\ Len(queue) + i \in 1 .. Len(queue')
                                      /\ queue'[Len(queue) + i] = order[i]
    BY <1>3, <1>4, ConcatFacts DEF Types
  <2>4. QED
    BY <2>1, <2>2, <2>3 DEF Item
<1>6. ASSUME NEW i \in 1 .. Len(queue')
      PROVE  \/ i \in 1 .. Len(queue) /\ queue'[i] = queue[i]
             \/ i > Len(queue) /\ queue'[i].depth = job[w].depth + 1
  <2>1. CASE i <= Len(queue)
    BY <1>5, <2>1
  <2>2. CASE ~(i <= Len(queue))
    <3>1. i - Len(queue) \in 1 .. Len(order) /\ Len(queue) + (i - Len(queue)) = i
      BY <1>5, <2>2
    <3>2. queue'[i] = order[i - Len(queue)]
      BY <1>5, <3>1
    <3>a. order[i - Len(queue)] \in E
      BY <1>4, <3>1
    <3>3. QED
      BY <1>2, <1>5, <2>2, <3>2, <3>a
  <2>3. QED
    BY <2>1, <2>2
<1>7. \A i \in 1 .. Len(queue) :
         job[w].depth <= queue[i].depth /\ queue[i].depth <= job[w].depth + 1
  BY <1>1 DEF Levels, InLevels
<1>c. \A i \in 1 .. Len(queue') :
         /\ queue'[i].depth \in Nat
         /\ job[w].depth <= queue'[i].depth /\ queue'[i].depth <= job[w].depth + 1
  <2> SUFFICES ASSUME NEW i \in 1 .. Len(queue')
               PROVE  /\ queue'[i].depth \in Nat
                      /\ job[w].depth <= queue'[i].depth /\ queue'[i].depth <= job[w].depth + 1
    OBVIOUS
  <2>1. CASE i \in 1 .. Len(queue) /\ queue'[i] = queue[i]
    BY <1>5, <1>7, <2>1
  <2>2. CASE queue'[i].depth = job[w].depth + 1
    BY <1>1, <2>2
  <2>3. QED
    BY <1>6, <2>1, <2>2
<1>8. InLevels'
  <2>1. ASSUME NEW i \in 1 .. Len(queue'), NEW j \in 1 .. Len(queue'), i <= j
        PROVE  queue'[i].depth <= queue'[j].depth
    <3>1. CASE i \in 1 .. Len(queue) /\ j \in 1 .. Len(queue)
      <4>1. queue'[i] = queue[i] /\ queue'[j] = queue[j]
        BY <1>5, <3>1
      <4>2. QED
        BY <2>1, <3>1, <4>1 DEF Levels, InLevels
    <3>2. CASE queue'[j].depth = job[w].depth + 1
      BY <1>c, <3>2
    <3>3. CASE i > Len(queue)
      <4>1. j \notin 1 .. Len(queue)
        BY <1>5, <2>1, <3>3
      <4>2. QED
        BY <1>6, <3>2, <4>1
    <3>4. QED
      BY <1>6, <3>1, <3>2, <3>3
  <2>2. ASSUME NEW i \in 1 .. Len(queue'), NEW j \in 1 .. Len(queue')
        PROVE  queue'[j].depth <= queue'[i].depth + 1
    BY <1>1, <1>c
  <2>3. QED
    BY <1>1, <2>1, <2>2 DEF InLevels
<1>9. ScansPrecede'
  <2>1. \A s \in scans : s.depth \in Nat /\ s.depth <= job[w].depth
    BY <1>1 DEF Levels, ScansPrecede, Types, Item
  <2>2. ASSUME NEW s \in scans, NEW i \in 1 .. Len(queue')
        PROVE  s.depth <= queue'[i].depth
    BY <1>1, <1>5, <1>6, <1>7, <2>1
  <2>3. QED
    BY <1>1, <2>2 DEF ScansPrecede
<1>10. ASSUME NEW h, NEW k \in Nat, Met(h, k)
       PROVE  Met(h, k)'
  <2>1. CASE Waits(h, k, queue)
    <3>1. PICK i \in 1 .. Len(queue) : queue[i].ip = h /\ queue[i].depth <= k
      BY <2>1 DEF Waits
    <3>2. i \in 1 .. Len(queue') /\ queue'[i] = queue[i]
      BY <1>5, <3>1
    <3>3. QED
      BY <3>1, <3>2 DEF Met, Waits
  <2>2. QED
    BY <1>1, <1>10, <2>1 DEF Met
<1>11. ASSUME infra, job[w].depth < MaxDepth, NEW n \in Neighbors[job[w].ip] \cap InScope,
              NEW k \in Nat, k = job[w].depth + 1
       PROVE  Met(n, k)'
  <2>1. CASE n \in visited
    <3>1. n \in Excluded \/ \E s \in scans : s.ip = n
      BY <2>1 DEF Levels, VisitedScanned
    <3>2. \A s \in scans : s.depth <= k
      BY <1>1, <1>11 DEF Levels, ScansPrecede, Types, Item
    <3>3. QED
      BY <1>1, <3>1, <3>2 DEF Met
  <2>2. CASE n \notin visited
    <3>1. [ip |-> n, depth |-> job[w].depth + 1] \in E
      BY <1>a, <1>11, <2>2
    <3>2. PICK i \in 1 .. Len(order) : order[i] = [ip |-> n, depth |-> job[w].depth + 1]
      BY <1>4, <3>1
    <3>3. /\ Len(queue) + i \in 1 .. Len(queue') /\ queue'[Len(queue) + i].ip = n
          /\ queue'[Len(queue) + i].depth <= k
      BY <1>1, <1>5, <1>11, <3>2
    <3>4. QED
      BY <1>1, <3>3 DEF Met, Waits
  <2>3. QED
    BY <2>1, <2>2
<1>12. AllMet'
  <2>1. \A h \in Seeds : Met(h, 0)'
    BY <1>1, <1>10 DEF Levels, AllMet
  <2>2. ASSUME NEW x \in expanded', x.depth < MaxDepth, NEW n \in Neighbors[x.ip] \cap InScope
        PROVE  Met(n, x.depth + 1)'
    <3>1. CASE x \in expanded
      <4>1. x.depth + 1 \in Nat
        BY <3>1 DEF Types, Item
      <4>2. Met(n, x.depth + 1)
        BY <2>2, <3>1 DEF Levels, AllMet
      <4>3. QED
        BY <1>10, <4>1, <4>2
    <3>2. CASE x = job[w] /\ infra
      <4>1. x.depth + 1 \in Nat
        BY <1>1, <3>2
      <4>2. QED
        BY <1>11, <2>2, <3>2, <4>1
    <3>3. QED
      BY <1>1, <2>2, <3>1, <3>2
  <2>3. QED
    BY <1>1, <2>1, <2>2 DEF AllMet
<1>13. QED
  BY <1>1, <1>8, <1>9, <1>12 DEF Levels, VisitedScanned

\* Before the workers start there is nothing.
Pristine ==
    phase = "start" => /\ scans = {} /\ visited = {} /\ expanded = {}
                       /\ \A w \in Workers : job[w] = None

LEMMA StartKeepsLevels ==
    ASSUME Types, Pristine, StartWorkers
    PROVE  Levels'
<1>1. PICK order \in Arrangements(ItemsAt(Seeds, 0)) : queue' = order
  BY DEF StartWorkers
<1>2. /\ IsFiniteSet(ItemsAt(Seeds, 0))
      /\ \A e \in ItemsAt(Seeds, 0) : e.depth = 0
      /\ \A h \in Seeds : [ip |-> h, depth |-> 0] \in ItemsAt(Seeds, 0)
  BY ItemsAtFacts DEF ItemsAt
<1>3. /\ order \in Seq(ItemsAt(Seeds, 0))
      /\ \A e \in ItemsAt(Seeds, 0) : \E i \in 1 .. Len(order) : order[i] = e
  BY <1>1, <1>2, ArrangementFacts
<1>4. \A i \in 1 .. Len(queue') : queue'[i].depth = 0
  BY <1>1, <1>2, <1>3
<1>5. /\ scans' = {} /\ visited' = {} /\ expanded' = {}
      /\ \A w \in Workers : job'[w] = None
  BY DEF StartWorkers, Pristine, history
<1>6. ASSUME NEW h \in Seeds
      PROVE  Met(h, 0)'
  <2>1. PICK i \in 1 .. Len(order) : order[i] = [ip |-> h, depth |-> 0]
    BY <1>2, <1>3
  <2>2. QED
    BY <1>1, <2>1 DEF Met, Waits
<1>7. QED
  BY <1>4, <1>5, <1>6 DEF Levels, InLevels, ScansPrecede, AllMet, VisitedScanned

LEMMA PristineStep ==
    ASSUME Types, Pristine, [Next]_vars
    PROVE  Pristine'
BY DEF Pristine, Next, Take, PassOver, SkipExcluded, StopAtLimit, Claim, ClaimCommitFails,
   ClaimReadFails, Visits, Waiting, WorkersRun, ProcessHost, HostRaises, HostSilent,
   HostAnswers, AnswerCommitFails, HostReadFails, Release, Scanning, Main, StartWorkers,
   StartFails, JoinReturns, Finish, FinishFails, Recompute, RecomputeFails,
   HandlerFails, Cancel, LoopCloses, Over, vars, poolVars, history

LEMMA BreadthFirstStep ==
    ASSUME Types, Covered, Claims, Pristine, BreadthFirst, NEW w, Workers = {w}, [Next]_vars
    PROVE  BreadthFirst'
<1> SUFFICES ASSUME phase' # "ended", Clean'
             PROVE  Levels'
  BY DEF BreadthFirst
<1>1. Clean /\ phase # "ended" /\ Levels
  BY CleanBefore DEF BreadthFirst
<1>2. CASE Take(w)
  BY <1>1, <1>2, TakeKeepsLevels
<1>3. CASE ProcessHost(w)
  <2>1. ASSUME NEW infra \in BOOLEAN, HostAnswers(w, infra)
        PROVE  Levels'
    BY <1>1, <2>1, AnswerKeepsLevels
  <2>2. CASE \A infra \in BOOLEAN : ~HostAnswers(w, infra)
    <3>1. job'[w] = None /\ UNCHANGED <<queue, scans, visited, expanded, phase>>
      BY <1>3, <2>2 DEF ProcessHost, HostRaises, HostSilent, AnswerCommitFails, HostReadFails,
         Release, history, Types
    <3>2. QED
      BY <1>1, <3>1, QuietKeepsLevels
  <2>3. QED
    BY <2>1, <2>2
<1>4. CASE StartWorkers
  BY <1>4, StartKeepsLevels
<1>5. CASE (Main /\ ~StartWorkers) \/ Cancel \/ LoopCloses \/ Over \/ UNCHANGED vars
  <2>1. /\ UNCHANGED <<queue, scans, visited, expanded, job>>
        /\ phase = "start" => phase' = "start"
    BY <1>5 DEF Main, StartFails, JoinReturns, Finish, FinishFails, Recompute,
       RecomputeFails, HandlerFails, Cancel, LoopCloses, Over, vars, poolVars, history
  <2>2. QED
    BY <1>1, <2>1, QuietKeepsLevels
<1>6. QED
  BY <1>2, <1>3, <1>4, <1>5 DEF Next

(* Level by level: who lies within n hops was scanned at depth n or less.    *)
LEMMA LevelsScanned ==
    ASSUME Types, Levels, queue = <<>>, phase # "start",
           \A it \in scans : it.ip \in Infra => it \in expanded,
           NEW n \in Nat, n <= MaxDepth, NEW h \in Within[n] \ Excluded
    PROVE  \E s \in scans : s.ip = h /\ s.depth <= n
<1> DEFINE Done(k) == \A g \in Within[k] \ Excluded : \E s \in scans : s.ip = g /\ s.depth <= k
           Bad == {k \in Nat : k <= MaxDepth /\ ~Done(k)}
<1> SUFFICES ASSUME Bad # {} PROVE FALSE
  OBVIOUS
<1>1. PICK m \in Bad : \A k \in Bad : m <= k
  BY LeastOne
<1>2. \A g, k : Met(g, k) => g \in Excluded \/ \E s \in scans : s.ip = g /\ s.depth <= k
  BY DEF Met, Waits
<1>3. CASE m = 0
  <2>1. Done(0)
    BY <1>2, WithinHops DEF Levels, AllMet
  <2>2. QED
    BY <1>1, <1>3, <2>1
<1>4. CASE m # 0
  <2>1. m - 1 \in Nat /\ m - 1 + 1 = m /\ m - 1 < MaxDepth /\ Done(m - 1)
    BY <1>1, <1>4
  <2>2. Within[m] = Hop(Within[m - 1])
    BY <2>1, WithinHops
  <2>3. ASSUME NEW g \in Within[m] \ Excluded
        PROVE  \E s \in scans : s.ip = g /\ s.depth <= m
    <3>1. CASE g \in Within[m - 1]
      <4>1. PICK s \in scans : s.ip = g /\ s.depth <= m - 1
        BY <2>1, <2>3, <3>1
      <4>2. s.depth \in Nat
        BY DEF Types, Item
      <4>3. QED
        BY <2>1, <4>1, <4>2
    <3>2. CASE g \notin Within[m - 1]
      <4>1. PICK f \in (Within[m - 1] \cap Infra) \ Excluded : g \in Neighbors[f] \cap InScope
        BY <2>2, <2>3, <3>2 DEF Hop
      <4>2. PICK s \in scans : s.ip = f /\ s.depth <= m - 1
        BY <2>1, <4>1
      <4>3. s \in expanded /\ s.depth \in Nat /\ s.depth < MaxDepth
        BY <2>1, <4>1, <4>2 DEF Types, Item
      <4>4. Met(g, s.depth + 1)
        BY <4>1, <4>2, <4>3 DEF Levels, AllMet
      <4>5. PICK t \in scans : t.ip = g /\ t.depth <= s.depth + 1
        BY <1>2, <2>3, <4>4
      <4>6. t.depth \in Nat /\ t.depth <= m
        BY <2>1, <4>2, <4>3, <4>5 DEF Types, Item
      <4>7. QED
        BY <4>5, <4>6
    <3>3. QED
      BY <3>1, <3>2
  <2>4. QED
    BY <1>1, <2>3
<1>5. QED
  BY <1>3, <1>4

(* With one worker the scan is what README.md says, breadth first over the   *)
(* whole network: when nothing failed and the host limit was not reached,    *)
(* every host within max_depth hops was scanned.  With more workers it is    *)
(* not: pool_bfs has the counterexample.                                     *)
THEOREM BreadthFirstCorrect ==
    ASSUME NEW w, Workers = {w}
    PROVE  Spec => []ScanIsBreadthFirst
<1>1. Init => Pristine /\ BreadthFirst
  BY DEF Init, Pristine, BreadthFirst, Levels, InLevels, ScansPrecede, AllMet, VisitedScanned
<1>2. Types /\ Pristine /\ [Next]_vars => Pristine'
  BY PristineStep
<1>3. Types /\ Covered /\ Claims /\ Pristine /\ BreadthFirst /\ [Next]_vars => BreadthFirst'
  BY BreadthFirstStep
<1>4. Types /\ Accounting /\ BreadthFirst => ScanIsBreadthFirst
  <2> SUFFICES ASSUME Types, Accounting, BreadthFirst, phase = "recompute", ~stop, errorCount = 0, dead = {},
                      \A it \in scans : it.ip \in Infra => it \in expanded,
                      NEW h \in Within[MaxDepth] \ Excluded
               PROVE  \E s \in scans : s.ip = h
    BY DEF ScanIsBreadthFirst
  <2>1. Levels
    BY DEF BreadthFirst, Clean
  <2>2. queue = <<>>
    BY DrainedWhenZero DEF Accounting, Joined
  <2>3. QED
    BY <2>1, <2>2, LevelsScanned
<1>5. QED
  BY <1>1, <1>2, <1>3, <1>4, TypesInv, CoveredInv, ClaimsInv, AccountingInv, PTL DEF Spec
=============================================================================
