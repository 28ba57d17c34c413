--------------------------- MODULE DeviceScanProofs ---------------------------
(* Proofs about DeviceScan, for every set of machines, of plans and of workers, *)
(* and about DeviceType.                                                        *)
EXTENDS DeviceScan, IdentityProofs, FiniteSetTheorems, TLAPS

-----------------------------------------------------------------------------
(* The inductive invariant, in parts.                                            *)
StoredMethods == {None, "STRONG_SIGNATURE", "CONFIRMED", "REVIEW_REQUIRED"}
Run == [profile : {"LIGHT", "STANDARD", "DETAILED"}, addrs : SUBSET DOMAIN Machines, depth : Nat]

(* What is stored of a device, and what a worker holds, by their fields. *)
IsFact(f) == DOMAIN f = DOMAIN NewFacts /\ f.method \in StoredMethods /\ f.fdb \in BOOLEAN
IsSeen(s) == DOMAIN s = DOMAIN NoEvidence
IsJob(j) == DOMAIN j = DOMAIN Resting /\ IsSeen(j.seen)

Plan == plan \in Seq(Run)
Spare == spare \in [losses : 0..MaxLosses, breaks : 0..MaxBreaks, reclassify : 0..MaxReclassify]

Devices == AreDevices(devices)

Facts ==
    /\ DOMAIN facts = {d.id : d \in devices}
    /\ \A i \in DOMAIN facts : IsFact(facts[i])

(* A worker that scans has its address from the run under way, and, once it has  *)
(* identified the device, a stored row.                                         *)
Job(w) ==
    /\ IsJob(jobs[w])
    /\ jobs[w].at # "rest" => plan # <<>> /\ jobs[w].addr \in DOMAIN Machines
    /\ jobs[w].at \notin {"rest", "identify"} => jobs[w].row \in DOMAIN facts
Jobs == DOMAIN jobs = Crew /\ \A w \in Crew : Job(w)

ScanBase == Plan /\ Spare /\ Devices /\ Facts /\ Jobs

-----------------------------------------------------------------------------
(* What the other steps store.                                                   *)

(* PoE ports of a device that is not known to feed PoE, not after a torn scan. *)
Unsettled(f) == f.poePorts /\ ~f.poe /\ ~f.torn

(* From f to g a row stays the row of its machines, and a narrow run leaves it    *)
(* what it does not collect.                                                     *)
MovesTo(f, g) ==
    /\ IsFact(g) /\ g.machines = f.machines
    /\ plan[1].profile \in {"LIGHT", "STANDARD"} => g.routes = f.routes /\ g.vlans = f.vlans
    /\ plan[1].profile = "LIGHT" => g.fdb = f.fdb

LEMMA CollectedIs ==
    /\ plan[1].profile \in {"LIGHT", "STANDARD"} => "routes" \notin Collected /\ "vlans" \notin Collected
    /\ plan[1].profile = "LIGHT" => "fdb" \notin Asked
BY DEF Collected, Asked, Narrow, Wide

LEMMA ClassifiedMethod ==
    ASSUME NEW e, NEW s
    PROVE  Classified(e, s).method \in StoredMethods
<1>1. CASE e.onvif
  BY <1>1 DEF Classified, StoredMethods
<1>2. CASE ~e.onvif /\ (e.bridge \/ e.fdb) /\ e.name \in Names \ {"other"}
  BY <1>2 DEF Classified, StoredMethods
<1>3. CASE ~e.onvif /\ ~((e.bridge \/ e.fdb) /\ e.name \in Names \ {"other"})
  <2>1. Classified(e, s).method \in {"CONFIRMED", "REVIEW_REQUIRED"}
    BY <1>3 DEF Classified
  <2>2. QED
    BY <2>1 DEF StoredMethods
<1>4. QED
  BY <1>1, <1>2, <1>3

LEMMA SawIs ==
    ASSUME NEW seen, NEW real, NEW tables, NEW gone, IsSeen(seen)
    PROVE  /\ IsSeen(Saw(seen, real, tables, gone))
           /\ tables = {"fdb"} /\ "fdb" \notin Asked => Saw(seen, real, tables, gone).fdb = FALSE
BY DEF Saw, IsSeen, NoEvidence

(* What a batch stores. *)
LEMMA BatchGoes ==
    ASSUME NEW f, IsFact(f), NEW x
    PROVE  /\ MovesTo(f, [f EXCEPT !.ports = @ \/ x]) /\ (Unsettled([f EXCEPT !.ports = @ \/ x]) <=> Unsettled(f))
           /\ MovesTo(f, [f EXCEPT !.lldp = @ \/ x]) /\ (Unsettled([f EXCEPT !.lldp = @ \/ x]) <=> Unsettled(f))
           /\ (plan[1].profile = "LIGHT" => ~x) =>
                /\ MovesTo(f, [f EXCEPT !.fdb = @ \/ x])
                /\ Unsettled([f EXCEPT !.fdb = @ \/ x]) <=> Unsettled(f)
BY DEF MovesTo, IsFact, NewFacts, Unsettled

LEMMA RoutesGo ==
    ASSUME NEW f, IsFact(f), NEW seen, NEW loopback
    PROVE  MovesTo(f, RoutesStored(f, seen, loopback)) /\ (Unsettled(RoutesStored(f, seen, loopback)) <=> Unsettled(f))
BY CollectedIs DEF MovesTo, IsFact, NewFacts, Unsettled, RoutesStored

LEMMA PoeGoes ==
    ASSUME NEW f, IsFact(f), NEW seen
    PROVE  /\ MovesTo(f, PoeStored(f, seen))
           /\ "poe" \notin Collected => PoeStored(f, seen) = f
BY DEF MovesTo, IsFact, NewFacts, PoeStored

LEMMA WithPoeGoes ==
    ASSUME NEW f, IsFact(f), NEW type
    PROVE  MovesTo(f, WithPoe(f, type)) /\ ~Unsettled(WithPoe(f, type))
BY DEF MovesTo, IsFact, NewFacts, Unsettled, WithPoe

LEMMA TypedGoes ==
    ASSUME NEW f, IsFact(f), NEW e, NEW c, c.method \in StoredMethods
    PROVE  /\ MovesTo(f, Typed(f, e, c))
           /\ "poe" \in Collected => ~Unsettled(Typed(f, e, c))
           /\ "poe" \notin Collected /\ Unsettled(Typed(f, e, c)) => Unsettled(f)
<1> DEFINE known == [f EXCEPT !.type = c.type, !.method = c.method, !.layer2 = e.bridge,
                              !.layer3 = e.forwards \/ e.svis \/ c.type \in L3Types \cup {"ROUTER"},
                              !.vlans = IF "vlans" \in Collected THEN e.vlans ELSE @,
                              !.torn = @ /\ "poe" \notin Collected]
<1>1. MovesTo(f, known) /\ ("poe" \notin Collected => (Unsettled(known) <=> Unsettled(f)))
  BY CollectedIs DEF MovesTo, IsFact, NewFacts, Unsettled
<1>2. Typed(f, e, c) = IF "poe" \in Collected THEN WithPoe(known, c.type) ELSE known
  BY DEF Typed
<1> HIDE DEF known
<1>3. IsFact(known)
  BY <1>1 DEF MovesTo
<1>4. MovesTo(known, WithPoe(known, c.type)) /\ ~Unsettled(WithPoe(known, c.type))
  BY <1>3, WithPoeGoes
<1>5. MovesTo(f, WithPoe(known, c.type))
  BY <1>1, <1>4 DEF MovesTo
<1>6. QED
  BY <1>1, <1>2, <1>4, <1>5

LEMMA TornGoes ==
    ASSUME NEW w \in Crew, IsFact(Fact(w))
    PROVE  MovesTo(Fact(w), Torn(w)) /\ ~Unsettled(Torn(w))
<1> DEFINE f == Fact(w)
           stored == PoeStored(f, SeenWithout(w, {"poe"}, {}))
<1>1. MovesTo(f, stored) /\ IsFact(stored)
  BY PoeGoes DEF MovesTo
<1>2. ASSUME NEW g, MovesTo(f, g) PROVE MovesTo(f, [g EXCEPT !.torn = TRUE]) /\ ~Unsettled([g EXCEPT !.torn = TRUE])
  BY <1>2 DEF MovesTo, IsFact, NewFacts, Unsettled
<1>3. MovesTo(f, f)
  BY DEF MovesTo
<1>4. Torn(w) \in {[f EXCEPT !.torn = TRUE], [stored EXCEPT !.torn = TRUE]}
  BY DEF Torn
<1> HIDE DEF f, stored
<1>5. QED
  BY <1>1, <1>2, <1>3, <1>4 DEF f

LEMMA ReclassifiedGoes ==
    ASSUME NEW f, IsFact(f)
    PROVE  MovesTo(f, Reclassified(f)) /\ ~Unsettled(Reclassified(f))
<1> DEFINE c == Classified(StoredEvidence(f), Score(StoredEvidence(f)))
           g == [f EXCEPT !.type = c.type, !.method = c.method, !.torn = FALSE]
<1>1. c.method \in StoredMethods
  BY ClassifiedMethod
<1>2. Reclassified(f) = WithPoe(g, c.type)
  BY DEF Reclassified
<1> HIDE DEF c
<1>3. MovesTo(f, g) /\ IsFact(g)
  BY <1>1 DEF MovesTo, IsFact, NewFacts
<1> HIDE DEF g
<1>4. MovesTo(g, WithPoe(g, c.type)) /\ ~Unsettled(WithPoe(g, c.type))
  BY <1>3, WithPoeGoes
<1>5. QED
  BY <1>2, <1>3, <1>4 DEF MovesTo

-----------------------------------------------------------------------------
(* The steps of a scan after its device was identified.                          *)

Works(w) ==
    \/ StorePorts(w) \/ StoreNeighbours(w) \/ StoreFdb(w) \/ StoreRoutes(w)
    \/ StorePoe(w) \/ Classify(w) \/ Probe(w)

(* What each of them does: the row of the device goes on to g, the worker to j.   *)
(* Only a scan that goes on to its classification leaves PoE unsettled.           *)
Moves(w, g, j) ==
    /\ facts' = [facts EXCEPT ![jobs[w].row] = g] /\ jobs' = [jobs EXCEPT ![w] = j]
    /\ MovesTo(Fact(w), g) /\ IsJob(j)
    /\ j.at # "rest" => j.addr = jobs[w].addr /\ j.row = jobs[w].row
    /\ Unsettled(g) => \/ "poe" \in Collected /\ j.at = "type" /\ j.row = jobs[w].row
                       \/ Unsettled(Fact(w)) /\ ("poe" \in Collected => jobs[w].at # "type")

LEMMA LoseTypes ==
    ASSUME Spare, NEW gone, IsFiniteSet(gone), Cardinality(gone) <= spare.losses, Lose(gone)
    PROVE  Spare'
<1>1. Cardinality(gone) \in Nat
  BY FS_CardinalityType
<1>2. QED
  BY <1>1, ScanAssumption DEF Spare, Lose

LEMMA LosableLoses ==
    ASSUME Spare, NEW tables, IsFiniteSet(tables), NEW gone \in Losable(tables), Lose(gone)
    PROVE  Spare'
<1>1. IsFiniteSet(gone)
  BY FS_Subset DEF Losable
<1>2. QED
  BY <1>1, LoseTypes DEF Losable

LEMMA TablesFinite ==
    \A a, b, c : IsFiniteSet({a}) /\ IsFiniteSet({a, b}) /\ IsFiniteSet({a, b, c})
<1> SUFFICES ASSUME NEW a, NEW b, NEW c
             PROVE  IsFiniteSet({a}) /\ IsFiniteSet({a, b}) /\ IsFiniteSet({a, b, c})
  OBVIOUS
<1>1. IsFiniteSet({a})
  BY FS_Singleton
<1>2. IsFiniteSet({a} \cup {b})
  BY <1>1, FS_AddElement
<1>3. IsFiniteSet(({a} \cup {b}) \cup {c})
  BY <1>2, FS_AddElement
<1>4. {a, b} = {a} \cup {b} /\ {a, b, c} = ({a} \cup {b}) \cup {c}
  OBVIOUS
<1>5. QED
  BY <1>1, <1>2, <1>3, <1>4

LEMMA SeenStays ==
    ASSUME NEW w \in Crew, Job(w), NEW tables, NEW gone
    PROVE  /\ IsSeen(SeenWithout(w, tables, gone))
           /\ tables = {"fdb"} /\ "fdb" \notin Asked => SeenWithout(w, tables, gone).fdb = FALSE
BY SawIs DEF SeenWithout, Job, IsJob

LEMMA RestingJob == IsJob(Resting) /\ Resting.at = "rest"
BY DEF IsJob, Resting, IsSeen

LEMMA WorkMoves ==
    ASSUME ScanBase, NEW w \in Crew, Works(w)
    PROVE  /\ jobs[w].at \notin {"rest", "identify"}
           /\ Spare' /\ UNCHANGED <<plan, devices>>
           /\ \E g, j : Moves(w, g, j)
<1>1. Spare /\ Job(w) /\ IsJob(jobs[w]) /\ IsSeen(jobs[w].seen)
  BY DEF ScanBase, Jobs, Job, IsJob
<1>2. ASSUME jobs[w].at \notin {"rest", "identify"} PROVE IsFact(Fact(w))
  BY <1>1, <1>2 DEF ScanBase, Facts, Job, Fact
<1>3. CASE StorePorts(w)
  <2>1. PICK gone \in Losable({"vlans"}) :
           LET seen == SeenWithout(w, {"vlans"}, gone) IN
           Lose(gone) /\ Store(w, [Fact(w) EXCEPT !.ports = @ \/ seen.ports], "neighbours", seen)
    BY <1>3 DEF StorePorts
  <2> DEFINE seen == SeenWithout(w, {"vlans"}, gone)
             g == [Fact(w) EXCEPT !.ports = @ \/ seen.ports]
             j == [jobs[w] EXCEPT !.at = "neighbours", !.seen = seen]
  <2>2. jobs[w].at = "ports"
    BY <1>3 DEF StorePorts
  <2>3. Spare'
    BY <1>1, <2>1, LosableLoses, TablesFinite
  <2>4. IsSeen(seen)
    BY <1>1, SeenStays
  <2>5. MovesTo(Fact(w), g) /\ (Unsettled(g) <=> Unsettled(Fact(w)))
    BY <1>2, <2>2, BatchGoes
  <2>6. facts' = [facts EXCEPT ![jobs[w].row] = g] /\ jobs' = [jobs EXCEPT ![w] = j] /\ UNCHANGED <<plan, devices>>
    BY <2>1 DEF Store
  <2> HIDE DEF g, seen
  <2>7. IsJob(j) /\ j.row = jobs[w].row /\ j.addr = jobs[w].addr
    BY <1>1, <2>4 DEF IsJob, Resting
  <2> HIDE DEF j
  <2>8. QED
    BY <2>2, <2>3, <2>5, <2>6, <2>7 DEF Moves
<1>4. CASE StoreNeighbours(w)
  <2> DEFINE tables == {"forwards", "bridge", "lldp"}
  <2>1. PICK gone \in Losable(tables) :
           LET seen == SeenWithout(w, tables, gone) IN
           Lose(gone) /\ Store(w, [Fact(w) EXCEPT !.lldp = @ \/ seen.lldp], "fdb", seen)
    BY <1>4 DEF StoreNeighbours
  <2> DEFINE seen == SeenWithout(w, tables, gone)
             g == [Fact(w) EXCEPT !.lldp = @ \/ seen.lldp]
             j == [jobs[w] EXCEPT !.at = "fdb", !.seen = seen]
  <2>2. jobs[w].at = "neighbours"
    BY <1>4 DEF StoreNeighbours
  <2>3. Spare'
    BY <1>1, <2>1, LosableLoses, TablesFinite
  <2>4. IsSeen(seen)
    BY <1>1, SeenStays
  <2>5. MovesTo(Fact(w), g) /\ (Unsettled(g) <=> Unsettled(Fact(w)))
    BY <1>2, <2>2, BatchGoes
  <2>6. facts' = [facts EXCEPT ![jobs[w].row] = g] /\ jobs' = [jobs EXCEPT ![w] = j] /\ UNCHANGED <<plan, devices>>
    BY <2>1 DEF Store
  <2> HIDE DEF g, seen
  <2>7. IsJob(j) /\ j.row = jobs[w].row /\ j.addr = jobs[w].addr
    BY <1>1, <2>4 DEF IsJob, Resting
  <2> HIDE DEF j
  <2>8. QED
    BY <2>2, <2>3, <2>5, <2>6, <2>7 DEF Moves
<1>5. CASE StoreFdb(w)
  <2>1. PICK gone \in Losable({"fdb"}) :
           LET seen == SeenWithout(w, {"fdb"}, gone) IN
           Lose(gone) /\ Store(w, [Fact(w) EXCEPT !.fdb = @ \/ seen.fdb], "routes", seen)
    BY <1>5 DEF StoreFdb
  <2> DEFINE seen == SeenWithout(w, {"fdb"}, gone)
             g == [Fact(w) EXCEPT !.fdb = @ \/ seen.fdb]
             j == [jobs[w] EXCEPT !.at = "routes", !.seen = seen]
  <2>2. jobs[w].at = "fdb"
    BY <1>5 DEF StoreFdb
  <2>3. Spare'
    BY <1>1, <2>1, LosableLoses, TablesFinite
  <2>4. IsSeen(seen) /\ (plan[1].profile = "LIGHT" => ~seen.fdb)
    BY <1>1, SeenStays, CollectedIs
  <2>5. MovesTo(Fact(w), g) /\ (Unsettled(g) <=> Unsettled(Fact(w)))
    BY <1>2, <2>2, <2>4, BatchGoes
  <2>6. facts' = [facts EXCEPT ![jobs[w].row] = g] /\ jobs' = [jobs EXCEPT ![w] = j] /\ UNCHANGED <<plan, devices>>
    BY <2>1 DEF Store
  <2> HIDE DEF g, seen
  <2>7. IsJob(j) /\ j.row = jobs[w].row /\ j.addr = jobs[w].addr
    BY <1>1, <2>4 DEF IsJob, Resting
  <2> HIDE DEF j
  <2>8. QED
    BY <2>2, <2>3, <2>5, <2>6, <2>7 DEF Moves
<1>6. CASE StoreRoutes(w)
  <2> DEFINE loopback == Machines[jobs[w].addr].loopback
  <2>1. PICK gone \in Losable({"routes", "svis"}) :
           LET seen == SeenWithout(w, {"routes", "svis"}, gone) IN
           Lose(gone) /\ Store(w, RoutesStored(Fact(w), seen, loopback), "poe", seen)
    BY <1>6 DEF StoreRoutes
  <2> DEFINE seen == SeenWithout(w, {"routes", "svis"}, gone)
             g == RoutesStored(Fact(w), seen, loopback)
             j == [jobs[w] EXCEPT !.at = "poe", !.seen = seen]
  <2>2. jobs[w].at = "routes"
    BY <1>6 DEF StoreRoutes
  <2>3. Spare'
    BY <1>1, <2>1, LosableLoses, TablesFinite
  <2>4. IsSeen(seen)
    BY <1>1, SeenStays
  <2>5. MovesTo(Fact(w), g) /\ (Unsettled(g) <=> Unsettled(Fact(w)))
    BY <1>2, <2>2, RoutesGo
  <2>6. facts' = [facts EXCEPT ![jobs[w].row] = g] /\ jobs' = [jobs EXCEPT ![w] = j] /\ UNCHANGED <<plan, devices>>
    BY <2>1 DEF Store
  <2> HIDE DEF g, seen
  <2>7. IsJob(j) /\ j.row = jobs[w].row /\ j.addr = jobs[w].addr
    BY <1>1, <2>4 DEF IsJob, Resting
  <2> HIDE DEF j
  <2>8. QED
    BY <2>2, <2>3, <2>5, <2>6, <2>7 DEF Moves
<1>7. CASE StorePoe(w)
  <2>1. PICK gone \in Losable({"poe"}) :
           LET seen == SeenWithout(w, {"poe"}, gone)
               stored == PoeStored(Fact(w), seen)
           IN  /\ Lose(gone)
               /\ IF seen.bridge
                  THEN \E e \in {Evidence(stored, seen, Probes(w))} : Finish(w, Typed(stored, e, Classified(e, Score(e))))
                  ELSE /\ facts' = [facts EXCEPT ![jobs[w].row] = stored]
                       /\ jobs' = [jobs EXCEPT ![w] = [@ EXCEPT !.at = "type", !.seen = seen]]
                       /\ UNCHANGED <<plan, devices>>
    BY <1>7 DEF StorePoe
  <2> DEFINE seen == SeenWithout(w, {"poe"}, gone)
             stored == PoeStored(Fact(w), seen)
             e == Evidence(stored, seen, Probes(w))
             c == Classified(e, Score(e))
             typed == Typed(stored, e, c)
             j == [jobs[w] EXCEPT !.at = "type", !.seen = seen]
  <2>2. jobs[w].at = "poe"
    BY <1>7 DEF StorePoe
  <2>3. Spare'
    BY <1>1, <2>1, LosableLoses, TablesFinite
  <2>4. IsSeen(seen)
    BY <1>1, SeenStays
  <2>5. MovesTo(Fact(w), stored) /\ IsFact(stored) /\ ("poe" \notin Collected => stored = Fact(w))
    BY <1>2, <2>2, PoeGoes DEF MovesTo
  <2>6. c.method \in StoredMethods
    BY ClassifiedMethod
  <2>7. CASE seen.bridge
    <3>1. Finish(w, typed)
      BY <2>1, <2>7
    <3> HIDE DEF c, e, stored, seen
    <3>2. MovesTo(stored, typed) /\ ("poe" \in Collected => ~Unsettled(typed))
          /\ ("poe" \notin Collected /\ Unsettled(typed) => Unsettled(stored))
      BY <2>5, <2>6, TypedGoes
    <3>3. MovesTo(Fact(w), typed)
      BY <2>5, <3>2 DEF MovesTo
    <3>4. facts' = [facts EXCEPT ![jobs[w].row] = typed] /\ jobs' = [jobs EXCEPT ![w] = Resting]
          /\ UNCHANGED <<plan, devices>>
      BY <3>1 DEF Finish
    <3> HIDE DEF typed
    <3>5. Moves(w, typed, Resting)
      BY <2>2, <2>5, <3>2, <3>3, <3>4, RestingJob DEF Moves
    <3>6. QED
      BY <2>2, <2>3, <3>4, <3>5
  <2>8. CASE ~seen.bridge
    <3>1. facts' = [facts EXCEPT ![jobs[w].row] = stored] /\ jobs' = [jobs EXCEPT ![w] = j]
          /\ UNCHANGED <<plan, devices>>
      BY <2>1, <2>8
    <3> HIDE DEF c, e, typed, stored, seen
    <3>2. IsJob(j) /\ j.at = "type" /\ j.row = jobs[w].row /\ j.addr = jobs[w].addr
      BY <1>1, <2>4 DEF IsJob, Resting
    <3> HIDE DEF j
    <3>3. Moves(w, stored, j)
      BY <2>2, <2>5, <3>1, <3>2 DEF Moves
    <3>4. QED
      BY <2>2, <2>3, <3>1, <3>3
  <2>9. QED
    BY <2>7, <2>8
<1>8. CASE Classify(w)
  <2> DEFINE e == Evidence(Fact(w), jobs[w].seen, Probes(w))
             c == Classified(e, Score(e))
             typed == Typed(Fact(w), e, c)
  <2>1. jobs[w].at = "type" /\ Finish(w, typed) /\ UNCHANGED spare
    BY <1>8 DEF Classify
  <2>2. c.method \in StoredMethods
    BY ClassifiedMethod
  <2>3. facts' = [facts EXCEPT ![jobs[w].row] = typed] /\ jobs' = [jobs EXCEPT ![w] = Resting]
        /\ UNCHANGED <<plan, devices>>
    BY <2>1 DEF Finish
  <2> HIDE DEF c, e
  <2>4. /\ MovesTo(Fact(w), typed) /\ ("poe" \in Collected => ~Unsettled(typed))
        /\ "poe" \notin Collected /\ Unsettled(typed) => Unsettled(Fact(w))
    BY <1>2, <2>1, <2>2, TypedGoes
  <2> HIDE DEF typed
  <2>5. Moves(w, typed, Resting)
    BY <2>1, <2>3, <2>4, RestingJob DEF Moves
  <2>6. Spare'
    BY <1>1, <2>1 DEF Spare
  <2>7. QED
    BY <2>1, <2>3, <2>5, <2>6
<1>9. CASE Probe(w)
  <2> DEFINE e == [Probes(w) EXCEPT !.name = Fact(w).name]
             c == Classified(e, Score(e))
             g == [Fact(w) EXCEPT !.type = c.type, !.method = c.method]
  <2>1. jobs[w].at = "probe" /\ Finish(w, g) /\ UNCHANGED spare
    BY <1>9 DEF Probe
  <2>2. c.method \in StoredMethods
    BY ClassifiedMethod
  <2>3. facts' = [facts EXCEPT ![jobs[w].row] = g] /\ jobs' = [jobs EXCEPT ![w] = Resting]
        /\ UNCHANGED <<plan, devices>>
    BY <2>1 DEF Finish
  <2> HIDE DEF c
  <2>4. MovesTo(Fact(w), g) /\ (Unsettled(g) <=> Unsettled(Fact(w)))
    BY <1>2, <2>1, <2>2 DEF MovesTo, IsFact, NewFacts, Unsettled
  <2> HIDE DEF g
  <2>5. Moves(w, g, Resting)
    BY <2>1, <2>3, <2>4, RestingJob DEF Moves
  <2>6. Spare'
    BY <1>1, <2>1 DEF Spare
  <2>7. QED
    BY <2>1, <2>3, <2>5, <2>6
<1>10. QED
  BY <1>3, <1>4, <1>5, <1>6, <1>7, <1>8, <1>9 DEF Works

-----------------------------------------------------------------------------
(* The first step of a scan.                                                     *)

(* What a worker can know of the machine at an address when it identifies it. *)
Observes(o, a) ==
    /\ o.chassis \in {None, Machines[a].chassis}
    /\ o.mac \in {None, Machines[a].mac} /\ o.model \in {None, Machines[a].model}
    /\ o.ip = a /\ o.depth \in Nat /\ o.depth = plan[1].depth

(* The observation ends in a row; its facts are new, or those that were there,   *)
(* with one more machine that was taken for it.                                  *)
Identifies(w, o, found, new, j) ==
    /\ devices' = found[1] /\ UNCHANGED plan
    /\ facts' = [i \in DOMAIN facts \cup {found[2].id} |-> IF i = found[2].id THEN new ELSE facts[i]]
    /\ jobs' = [jobs EXCEPT ![w] = j] /\ IsJob(j) /\ j.at \notin {"rest", "identify", "type"}
    /\ j.addr = jobs[w].addr /\ j.row = found[2].id
    /\ IsFact(new)
    /\ IF found[2].id \in DOMAIN facts
       THEN LET old == facts[found[2].id]
            IN  /\ new.machines = old.machines \cup {Machines[jobs[w].addr].number}
                /\ new.routes = old.routes /\ new.vlans = old.vlans /\ new.fdb = old.fdb
                /\ Unsettled(new) <=> Unsettled(old)
       ELSE new.machines = {Machines[jobs[w].addr].number} /\ ~Unsettled(new)

LEMMA FirstRun ==
    ASSUME Plan, plan # <<>>
    PROVE  plan[1] \in Run /\ plan[1].depth \in Nat /\ Tail(plan) \in Seq(Run) /\ 1 \in DOMAIN plan
<1>1. plan[1] \in Run /\ Tail(plan) \in Seq(Run) /\ 1 \in DOMAIN plan
  BY DEF Plan
<1>2. QED
  BY <1>1 DEF Run

LEMMA NewFactsAre == IsFact(NewFacts) /\ NewFacts.machines = {} /\ ~Unsettled(NewFacts)
BY DEF IsFact, NewFacts, StoredMethods, Unsettled

LEMMA NoEvidenceSeen == IsSeen(NoEvidence)
BY DEF IsSeen

LEMMA IdentifiedDoes ==
    ASSUME ScanBase, NEW w \in Crew, UNCHANGED plan, NEW o, NEW at, at \in {"ports", "probe"},
           NEW seen, IsSeen(seen), NEW name, Identified(w, o, at, seen, name)
    PROVE  \E found, new, j : found \in Resolved(devices, o) /\ Identifies(w, o, found, new, j)
<1> DEFINE n == Machines[jobs[w].addr].number
           old(i) == IF i \in DOMAIN facts THEN facts[i] ELSE NewFacts
           new(i) == [old(i) EXCEPT !.machines = @ \cup {n}, !.name = IF name = "other" THEN @ ELSE name]
           j(i) == [jobs[w] EXCEPT !.at = at, !.row = i, !.seen = seen]
<1>1. PICK found \in Resolved(devices, o) :
         /\ devices' = found[1]
         /\ facts' = [i \in DOMAIN facts \cup {found[2].id} |-> IF i = found[2].id THEN new(found[2].id) ELSE facts[i]]
         /\ jobs' = [jobs EXCEPT ![w] = j(found[2].id)]
  BY DEF Identified
<1> DEFINE id == found[2].id
<1> HIDE DEF id, n
<1>2. IsFact(old(id))
  BY NewFactsAre DEF ScanBase, Facts
<1> HIDE DEF old
<1>3. /\ IsFact(new(id)) /\ new(id).machines = old(id).machines \cup {n}
      /\ new(id).routes = old(id).routes /\ new(id).vlans = old(id).vlans /\ new(id).fdb = old(id).fdb
      /\ Unsettled(new(id)) <=> Unsettled(old(id))
  BY <1>2 DEF IsFact, NewFacts, Unsettled
<1>4. IsJob(j(id)) /\ j(id).at = at /\ j(id).addr = jobs[w].addr /\ j(id).row = id
  BY DEF ScanBase, Jobs, Job, IsJob, Resting
<1>5. IF id \in DOMAIN facts THEN old(id) = facts[id] ELSE old(id) = NewFacts
  BY DEF old
<1> HIDE DEF new, j
<1>6. Identifies(w, o, found, new(id), j(id))
  BY <1>1, <1>3, <1>4, <1>5, NewFactsAre DEF Identifies, id, n
<1>7. QED
  BY <1>1, <1>6

LEMMA IdentifyDoes ==
    ASSUME ScanBase, NEW w \in Crew, Identify(w) \/ IdentifySilent(w)
    PROVE  /\ jobs[w].at = "identify" /\ jobs[w].addr \in DOMAIN Machines /\ plan # <<>> /\ Spare'
           /\ \E o : /\ Observes(o, jobs[w].addr)
                     /\ \E found, new, j : found \in Resolved(devices, o) /\ Identifies(w, o, found, new, j)
<1> DEFINE m == Machines[jobs[w].addr]
<1>1. jobs[w].at = "identify"
  BY DEF Identify, IdentifySilent
<1>2. jobs[w].addr \in DOMAIN Machines /\ plan # <<>>
  BY <1>1 DEF ScanBase, Jobs, Job
<1>3. plan[1].depth \in Nat
  BY <1>2, FirstRun DEF ScanBase
<1>4. Spare
  BY DEF ScanBase
<1>5. CASE Identify(w)
  <2> DEFINE seen(gone) == Saw(NoEvidence, m.has, {"ports"}, gone)
             o(gone) == [chassis |-> IF "lldp" \in Asked \ gone THEN m.chassis ELSE None,
                         mac |-> IF seen(gone).ports THEN m.mac ELSE None,
                         model |-> m.model, ip |-> jobs[w].addr, depth |-> plan[1].depth]
  <2>1. PICK gone \in Losable({"ports", "lldp"}) : Identified(w, o(gone), "ports", seen(gone), m.has.name) /\ Lose(gone)
    BY <1>5 DEF Identify
  <2>2. UNCHANGED plan
    BY <1>5 DEF Identify
  <2>3. Observes(o(gone), jobs[w].addr)
    BY <1>3 DEF Observes
  <2>4. IsSeen(seen(gone))
    BY NoEvidenceSeen, SawIs
  <2>5. Spare'
    BY <1>4, <2>1, LosableLoses, TablesFinite
  <2> HIDE DEF seen, o
  <2>6. \E found, new, j : found \in Resolved(devices, o(gone)) /\ Identifies(w, o(gone), found, new, j)
    BY <2>1, <2>2, <2>4, IdentifiedDoes
  <2>7. QED
    BY <1>1, <1>2, <2>3, <2>5, <2>6
<1>6. CASE IdentifySilent(w)
  <2> DEFINE o == [chassis |-> None, mac |-> None, model |-> None, ip |-> jobs[w].addr, depth |-> plan[1].depth]
  <2>1. UNCHANGED plan /\ Identified(w, o, "probe", NoEvidence, "other")
    BY <1>6 DEF IdentifySilent
  <2>2. Observes(o, jobs[w].addr)
    BY <1>3 DEF Observes
  <2>3. Spare'
    <3>1. CASE Lose({})
      <4>1. Cardinality({}) = 0 /\ IsFiniteSet({})
        BY FS_EmptySet
      <4>2. spare.losses \in Nat
        BY <1>4, ScanAssumption DEF Spare
      <4>3. QED
        BY <1>4, <3>1, <4>1, <4>2, LoseTypes
    <3>2. CASE spare.losses > 0 /\ Lose({"snmp"})
      <4>1. Cardinality({"snmp"}) = 1 /\ IsFiniteSet({"snmp"})
        BY FS_Singleton
      <4>2. spare.losses \in Nat
        BY <1>4, ScanAssumption DEF Spare
      <4>3. QED
        BY <1>4, <3>2, <4>1, <4>2, LoseTypes
    <3>3. QED
      BY <1>6, <3>1, <3>2 DEF IdentifySilent
  <2> HIDE DEF o
  <2>4. \E found, new, j : found \in Resolved(devices, o) /\ Identifies(w, o, found, new, j)
    BY <2>1, NoEvidenceSeen, IdentifiedDoes
  <2>5. QED
    BY <1>1, <1>2, <2>2, <2>3, <2>4
<1>7. QED
  BY <1>5, <1>6

-----------------------------------------------------------------------------
(* The invariant.                                                                *)

(* The other steps that change what is stored: all of it, row by row.            *)
LEMMA CrashDoes ==
    ASSUME ScanBase, NEW w \in Crew, Crash(w)
    PROVE  /\ plan # <<>> /\ plan' = Tail(plan) /\ devices' = devices
           /\ jobs' = [v \in Crew |-> Resting] /\ Spare'
           /\ DOMAIN facts' = DOMAIN facts
           /\ \A i \in DOMAIN facts : MovesTo(facts[i], facts'[i])
           /\ \A i \in DOMAIN facts : Unsettled(facts'[i]) =>
                Unsettled(facts[i]) /\ ~\E v \in Crew : jobs[v].at = "type" /\ jobs[v].row = i
<1> DEFINE between(i) == \E v \in Crew : jobs[v].at = "type" /\ jobs[v].row = i
           left(i) == IF i = jobs[w].row THEN Torn(w) ELSE facts[i]
<1>1. /\ jobs[w].at = "poe" /\ spare.breaks > 0 /\ spare' = [spare EXCEPT !.breaks = @ - 1]
      /\ jobs' = [v \in Crew |-> Resting] /\ plan' = Tail(plan) /\ devices' = devices
      /\ facts' = [i \in DOMAIN facts |-> IF between(i) THEN [left(i) EXCEPT !.torn = TRUE] ELSE left(i)]
  BY DEF Crash
<1>2. plan # <<>> /\ jobs[w].row \in DOMAIN facts /\ Fact(w) = facts[jobs[w].row]
  BY <1>1 DEF ScanBase, Jobs, Job, Fact
<1>3. Spare'
  <2>1. spare.breaks \in 0..MaxBreaks /\ spare.breaks - 1 \in 0..MaxBreaks
    BY <1>1, ScanAssumption DEF ScanBase, Spare
  <2>2. QED
    BY <1>1, <2>1 DEF ScanBase, Spare
<1>4. MovesTo(Fact(w), Torn(w)) /\ ~Unsettled(Torn(w))
  BY <1>2, TornGoes DEF ScanBase, Facts
<1>5. ASSUME NEW i \in DOMAIN facts
      PROVE  /\ MovesTo(facts[i], left(i)) /\ (Unsettled(left(i)) => Unsettled(facts[i]))
             /\ MovesTo(facts[i], [left(i) EXCEPT !.torn = TRUE]) /\ ~Unsettled([left(i) EXCEPT !.torn = TRUE])
  <2>1. MovesTo(facts[i], left(i)) /\ (Unsettled(left(i)) => Unsettled(facts[i]))
    <3>1. CASE i = jobs[w].row
      BY <1>2, <1>4, <3>1
    <3>2. CASE i # jobs[w].row
      BY <3>2 DEF MovesTo, ScanBase, Facts
    <3>3. QED
      BY <3>1, <3>2
  <2> HIDE DEF left
  <2>2. MovesTo(facts[i], [left(i) EXCEPT !.torn = TRUE]) /\ ~Unsettled([left(i) EXCEPT !.torn = TRUE])
    BY <2>1 DEF MovesTo, IsFact, NewFacts, Unsettled
  <2>3. QED
    BY <2>1, <2>2
<1> HIDE DEF left
<1>6. ASSUME NEW i \in DOMAIN facts
      PROVE  /\ MovesTo(facts[i], facts'[i])
             /\ Unsettled(facts'[i]) => Unsettled(facts[i]) /\ ~between(i)
  <2>1. facts'[i] = IF between(i) THEN [left(i) EXCEPT !.torn = TRUE] ELSE left(i)
    BY <1>1
  <2> HIDE DEF between
  <2>2. CASE between(i)
    BY <1>5, <2>1, <2>2
  <2>3. CASE ~between(i)
    BY <1>5, <2>1, <2>3
  <2>4. QED
    BY <2>2, <2>3
<1>7. QED
  BY <1>1, <1>2, <1>3, <1>6

LEMMA ReclassifyDoes ==
    ASSUME ScanBase, Reclassify
    PROVE  /\ UNCHANGED <<plan, devices, jobs>> /\ Spare' /\ DOMAIN facts' = DOMAIN facts
           /\ \A i \in DOMAIN facts : MovesTo(facts[i], facts'[i]) /\ ~Unsettled(facts'[i])
<1>1. /\ spare.reclassify > 0 /\ spare' = [spare EXCEPT !.reclassify = @ - 1]
      /\ facts' = [i \in DOMAIN facts |-> Reclassified(facts[i])] /\ UNCHANGED <<plan, devices, jobs>>
  BY DEF Reclassify
<1>2. Spare'
  <2>1. spare.reclassify \in 0..MaxReclassify /\ spare.reclassify - 1 \in 0..MaxReclassify
    BY <1>1, ScanAssumption DEF ScanBase, Spare
  <2>2. QED
    BY <1>1, <2>1 DEF ScanBase, Spare
<1>3. \A i \in DOMAIN facts : facts'[i] = Reclassified(facts[i]) /\ IsFact(facts[i])
  BY <1>1 DEF ScanBase, Facts
<1>4. QED
  BY <1>1, <1>2, <1>3, ReclassifiedGoes

LEMMA BreakOffDoes ==
    ASSUME ScanBase, NEW w \in Crew, BreakOff(w)
    PROVE  /\ UNCHANGED <<plan, devices>> /\ Spare' /\ DOMAIN facts' = DOMAIN facts
           /\ jobs' = [jobs EXCEPT ![w] = Resting]
           /\ \A i \in DOMAIN facts : MovesTo(facts[i], facts'[i])
           /\ \A i \in DOMAIN facts : Unsettled(facts'[i]) =>
                Unsettled(facts[i]) /\ ~(jobs[w].at = "type" /\ jobs[w].row = i)
<1>1. /\ jobs[w].at # "rest" /\ spare.breaks > 0 /\ spare' = [spare EXCEPT !.breaks = @ - 1]
      /\ jobs' = [jobs EXCEPT ![w] = Resting] /\ UNCHANGED <<plan, devices>>
  BY DEF BreakOff
<1>2. Spare'
  <2>1. spare.breaks \in 0..MaxBreaks /\ spare.breaks - 1 \in 0..MaxBreaks
    BY <1>1, ScanAssumption DEF ScanBase, Spare
  <2>2. QED
    BY <1>1, <2>1 DEF ScanBase, Spare
<1>3. \A i \in DOMAIN facts : MovesTo(facts[i], facts[i])
  BY DEF MovesTo, ScanBase, Facts
<1>4. CASE jobs[w].at # "type" /\ facts' = facts
  BY <1>1, <1>2, <1>3, <1>4
<1>5. CASE jobs[w].at \in {"poe", "type"} /\ facts' = [facts EXCEPT ![jobs[w].row] = Torn(w)]
  <2>1. jobs[w].row \in DOMAIN facts /\ Fact(w) = facts[jobs[w].row]
    BY <1>5 DEF ScanBase, Jobs, Job, Fact
  <2>2. MovesTo(Fact(w), Torn(w)) /\ ~Unsettled(Torn(w))
    BY <2>1, TornGoes DEF ScanBase, Facts
  <2>3. DOMAIN facts' = DOMAIN facts
    BY <1>5
  <2>4. ASSUME NEW i \in DOMAIN facts
        PROVE  facts'[i] = IF i = jobs[w].row THEN Torn(w) ELSE facts[i]
    BY <1>5, <2>1
  <2>5. QED
    BY <1>1, <1>2, <1>3, <2>1, <2>2, <2>3, <2>4
<1>6. QED
  BY <1>4, <1>5 DEF BreakOff

LEMMA ScanBaseInit == ScanInit => ScanBase
<1> SUFFICES ASSUME ScanInit PROVE ScanBase
  OBVIOUS
<1>1. Plan
  BY ScanAssumption DEF ScanInit, Plan, Run
<1>2. Spare
  BY ScanAssumption DEF ScanInit, Spare
<1>3. Devices /\ Facts
  BY DEF ScanInit, Devices, AreDevices, Bounded, Facts
<1>4. ASSUME NEW w \in Crew PROVE Job(w)
  <2>1. jobs[w] = Resting
    BY DEF ScanInit
  <2>2. QED
    BY <2>1, RestingJob DEF Job
<1>5. Jobs
  BY <1>4 DEF ScanInit, Jobs
<1>6. QED
  BY <1>1, <1>2, <1>3, <1>5 DEF ScanBase

(* What keeps the invariant: facts that stay facts of the same devices.          *)
LEMMA FactsStay ==
    ASSUME Facts, {d.id : d \in devices'} = {d.id : d \in devices}, DOMAIN facts' = DOMAIN facts,
           \A i \in DOMAIN facts : MovesTo(facts[i], facts'[i])
    PROVE  Facts'
<1>1. \A i \in DOMAIN facts : IsFact(facts'[i])
  BY DEF MovesTo
<1>2. QED
  BY <1>1 DEF Facts, IsFact

(* ... and a worker that goes on or rests. *)
LEMMA JobsStay ==
    ASSUME Jobs, NEW w \in Crew, NEW j, jobs' = [jobs EXCEPT ![w] = j], IsJob(j),
           plan # <<>> => plan' # <<>>, DOMAIN facts \subseteq DOMAIN facts',
           j.at # "rest" => plan' # <<>> /\ j.addr \in DOMAIN Machines,
           j.at \notin {"rest", "identify"} => j.row \in DOMAIN facts'
    PROVE  Jobs'
<1>1. ASSUME NEW v \in Crew PROVE Job(v)'
  <2>1. CASE v = w
    BY <2>1 DEF Jobs, Job, IsJob, IsSeen
  <2>2. CASE v # w
    <3>1. jobs'[v] = jobs[v] /\ Job(v)
      BY <2>2 DEF Jobs
    <3>2. QED
      BY <3>1 DEF Job, IsJob, IsSeen
  <2>3. QED
    BY <2>1, <2>2
<1>2. QED
  BY <1>1 DEF Jobs

LEMMA AllRest ==
    ASSUME jobs' = [v \in Crew |-> Resting]
    PROVE  Jobs'
<1>1. ASSUME NEW v \in Crew PROVE Job(v)'
  <2>1. jobs'[v] = Resting
    OBVIOUS
  <2>2. QED
    BY <2>1, RestingJob DEF Job, IsJob, IsSeen
<1>2. QED
  BY <1>1 DEF Jobs

LEMMA IdentifyKeepsBase ==
    ASSUME ScanBase, NEW w \in Crew, Identify(w) \/ IdentifySilent(w)
    PROVE  ScanBase'
<1>1. Plan /\ Devices /\ Facts /\ Jobs
  BY DEF ScanBase
<1>2. jobs[w].at = "identify" /\ jobs[w].addr \in DOMAIN Machines /\ plan # <<>> /\ Spare'
  BY IdentifyDoes
<1>3. PICK o : /\ Observes(o, jobs[w].addr)
               /\ \E found, new, j : found \in Resolved(devices, o) /\ Identifies(w, o, found, new, j)
  BY IdentifyDoes
<1>4. PICK found, new, j : found \in Resolved(devices, o) /\ Identifies(w, o, found, new, j)
  BY <1>3
<1>5. Devices' /\ {d.id : d \in devices'} = {d.id : d \in devices} \cup {found[2].id}
  BY <1>1, <1>3, <1>4, ResolvedDoes DEF Identifies, Observes, Devices
<1>6. Facts'
  <2>1. DOMAIN facts' = DOMAIN facts \cup {found[2].id}
    BY <1>4 DEF Identifies
  <2>2. ASSUME NEW i \in DOMAIN facts' PROVE IsFact(facts'[i])
    BY <1>1, <1>4, <2>1 DEF Identifies, Facts
  <2>3. QED
    BY <1>1, <1>5, <2>1, <2>2 DEF Facts, IsFact
<1>7. Jobs'
  <2>1. jobs' = [jobs EXCEPT ![w] = j] /\ IsJob(j) /\ plan' = plan /\ j.row \in DOMAIN facts'
        /\ DOMAIN facts \subseteq DOMAIN facts' /\ j.addr = jobs[w].addr
    BY <1>4 DEF Identifies
  <2>2. QED
    BY <1>1, <1>2, <2>1, JobsStay
<1>8. Plan'
  BY <1>1, <1>4 DEF Identifies, Plan
<1>9. QED
  BY <1>2, <1>5, <1>6, <1>7, <1>8 DEF ScanBase

LEMMA WorkKeepsBase ==
    ASSUME ScanBase, NEW w \in Crew, Works(w)
    PROVE  /\ ScanBase'
           /\ DOMAIN facts' = DOMAIN facts
           /\ \A i \in DOMAIN facts : MovesTo(facts[i], facts'[i])
<1>1. Plan /\ Devices /\ Facts /\ Jobs
  BY DEF ScanBase
<1>2. jobs[w].at \notin {"rest", "identify"} /\ Spare' /\ UNCHANGED <<plan, devices>>
  BY WorkMoves
<1>3. PICK g, j : Moves(w, g, j)
  BY WorkMoves
<1>4. Job(w) /\ jobs[w].row \in DOMAIN facts /\ Fact(w) = facts[jobs[w].row]
  BY <1>1, <1>2 DEF Jobs, Job, Fact
<1>5. /\ facts' = [facts EXCEPT ![jobs[w].row] = g] /\ jobs' = [jobs EXCEPT ![w] = j]
      /\ MovesTo(Fact(w), g) /\ IsJob(j) /\ (j.at # "rest" => j.addr = jobs[w].addr /\ j.row = jobs[w].row)
  BY <1>3 DEF Moves
<1>6. DOMAIN facts' = DOMAIN facts
  BY <1>5
<1>7. ASSUME NEW i \in DOMAIN facts PROVE MovesTo(facts[i], facts'[i])
  <2>1. facts'[i] = IF i = jobs[w].row THEN g ELSE facts[i]
    BY <1>5
  <2>2. MovesTo(facts[i], facts[i])
    BY <1>1 DEF MovesTo, Facts
  <2>3. QED
    BY <1>4, <1>5, <2>1, <2>2
<1>8. Facts'
  BY <1>1, <1>2, <1>6, <1>7, FactsStay
<1>9. Jobs'
  <2>1. plan # <<>> /\ jobs[w].addr \in DOMAIN Machines
    BY <1>2, <1>4 DEF Job
  <2>2. QED
    BY <1>1, <1>2, <1>4, <1>5, <1>6, <2>1, JobsStay
<1>10. Plan' /\ Devices'
  BY <1>1, <1>2 DEF Plan, Devices
<1>11. QED
  BY <1>2, <1>6, <1>7, <1>8, <1>9, <1>10 DEF ScanBase

LEMMA ScanBaseStep == ScanBase /\ [ScanNext]_scanVars => ScanBase'
<1> SUFFICES ASSUME ScanBase, [ScanNext]_scanVars PROVE ScanBase'
  OBVIOUS
<1>1. Plan /\ Spare /\ Devices /\ Facts /\ Jobs
  BY DEF ScanBase
<1>2. ASSUME NEW w \in Crew, Take(w) PROVE ScanBase'
  <2>1. PICK a \in plan[1].addrs :
          /\ jobs' = [jobs EXCEPT ![w] = [Resting EXCEPT !.at = "identify", !.addr = a]]
          /\ plan' = [plan EXCEPT ![1].addrs = @ \ {a}]
    BY <1>2 DEF Take
  <2>2. plan # <<>> /\ UNCHANGED <<devices, facts, spare>>
    BY <1>2 DEF Take
  <2>3. plan[1] \in Run /\ 1 \in DOMAIN plan
    BY <1>1, <2>2, FirstRun
  <2>4. a \in DOMAIN Machines
    BY <2>3 DEF Run
  <2>5. [plan[1] EXCEPT !.addrs = @ \ {a}] \in Run
    BY <2>3 DEF Run
  <2>6. plan' \in Seq(Run) /\ plan' # <<>>
    BY <1>1, <2>1, <2>3, <2>5 DEF Plan
  <2> DEFINE j == [Resting EXCEPT !.at = "identify", !.addr = a]
  <2>7. IsJob(j) /\ j.at = "identify" /\ j.addr = a
    BY DEF IsJob, IsSeen, Resting
  <2>8. jobs' = [jobs EXCEPT ![w] = j]
    BY <2>1
  <2> HIDE DEF j
  <2>9. Jobs'
    BY <1>1, <2>2, <2>4, <2>6, <2>7, <2>8, JobsStay
  <2>10. Plan' /\ Spare' /\ Devices' /\ Facts'
    BY <1>1, <2>2, <2>6 DEF Plan, Spare, Devices, Facts
  <2>11. QED
    BY <2>9, <2>10 DEF ScanBase
<1>3. ASSUME NEW w \in Crew, Works(w) PROVE ScanBase'
  BY <1>3, WorkKeepsBase
<1>4. ASSUME NEW w \in Crew, BreakOff(w) PROVE ScanBase'
  <2>1. /\ UNCHANGED <<plan, devices>> /\ Spare' /\ DOMAIN facts' = DOMAIN facts
        /\ jobs' = [jobs EXCEPT ![w] = Resting]
        /\ \A i \in DOMAIN facts : MovesTo(facts[i], facts'[i])
    BY <1>4, BreakOffDoes
  <2>2. Facts'
    BY <1>1, <2>1, FactsStay
  <2>3. Jobs'
    BY <1>1, <2>1, RestingJob, JobsStay
  <2>4. Plan' /\ Devices'
    BY <1>1, <2>1 DEF Plan, Devices
  <2>5. QED
    BY <2>1, <2>2, <2>3, <2>4 DEF ScanBase
<1>5. ASSUME NEW w \in Crew, Crash(w) PROVE ScanBase'
  <2>1. /\ plan # <<>> /\ plan' = Tail(plan) /\ devices' = devices
        /\ jobs' = [v \in Crew |-> Resting] /\ Spare' /\ DOMAIN facts' = DOMAIN facts
        /\ \A i \in DOMAIN facts : MovesTo(facts[i], facts'[i])
    BY <1>5, CrashDoes
  <2>2. Facts'
    BY <1>1, <2>1, FactsStay
  <2>3. Jobs'
    BY <2>1, AllRest
  <2>4. Plan' /\ Devices'
    BY <1>1, <2>1, FirstRun DEF Plan, Devices
  <2>5. QED
    BY <2>1, <2>2, <2>3, <2>4 DEF ScanBase
<1>6. CASE NextRun
  <2>1. plan # <<>> /\ plan' = Tail(plan) /\ UNCHANGED <<devices, facts, jobs, spare>>
        /\ \A w \in Crew : jobs[w].at = "rest"
    BY <1>6 DEF NextRun
  <2>2. Plan' /\ Spare' /\ Devices' /\ Facts'
    BY <1>1, <2>1, FirstRun DEF Plan, Spare, Devices, Facts
  <2>3. Jobs'
    BY <1>1, <2>1 DEF Jobs, Job
  <2>4. QED
    BY <2>2, <2>3 DEF ScanBase
<1>7. CASE Reclassify
  <2>1. /\ UNCHANGED <<plan, devices, jobs>> /\ Spare' /\ DOMAIN facts' = DOMAIN facts
        /\ \A i \in DOMAIN facts : MovesTo(facts[i], facts'[i])
    BY <1>7, ReclassifyDoes
  <2>2. Facts'
    BY <1>1, <2>1, FactsStay
  <2>3. Plan' /\ Devices' /\ Jobs'
    BY <1>1, <2>1 DEF Plan, Devices, Jobs, Job
  <2>4. QED
    BY <2>1, <2>2, <2>3 DEF ScanBase
<1>8. CASE UNCHANGED scanVars
  BY <1>1, <1>8 DEF scanVars, ScanBase, Plan, Spare, Devices, Facts, Jobs, Job
<1>9. ASSUME NEW w \in Crew, Identify(w) \/ IdentifySilent(w) PROVE ScanBase'
  BY <1>9, IdentifyKeepsBase
<1>10. QED
  BY <1>2, <1>3, <1>4, <1>5, <1>6, <1>7, <1>8, <1>9 DEF ScanNext, Works

LEMMA ScanBaseAlways == ScanSpec => []ScanBase
<1>1. QED
  BY ScanBaseInit, ScanBaseStep, PTL DEF ScanSpec

(* Types, for every set of machines and of plans: a device has its facts, an id   *)
(* is one device's, and a worker that scans holds a stored device.               *)
THEOREM ScanTypes == ScanSpec => []ScanTypeOK
<1>1. ScanBase => ScanTypeOK
  <2> SUFFICES ASSUME ScanBase PROVE ScanTypeOK
    OBVIOUS
  <2>1. DOMAIN facts = {d.id : d \in devices} /\ \A d, e \in devices : d.id = e.id => d = e
    BY DEF ScanBase, Facts, Devices, AreDevices
  <2>2. \A w \in Crew : jobs[w].at \notin {"rest", "identify"} => jobs[w].row \in DOMAIN facts
    BY DEF ScanBase, Jobs, Job
  <2>3. \A i \in DOMAIN facts : facts[i].method \in {None, "STRONG_SIGNATURE", "CONFIRMED", "REVIEW_REQUIRED"}
    BY DEF ScanBase, Facts, IsFact, StoredMethods
  <2>4. spare.losses \in 0..MaxLosses /\ spare.breaks \in 0..MaxBreaks /\ spare.reclassify \in 0..MaxReclassify
    BY DEF ScanBase, Spare
  <2>5. QED
    BY <2>1, <2>2, <2>3, <2>4 DEF ScanTypeOK
<1>2. QED
  BY <1>1, ScanBaseAlways, PTL

-----------------------------------------------------------------------------
(* Nothing is taken back.                                                        *)

(* A step that is no identification leaves the devices, and takes its facts on.   *)
LEMMA OtherStep ==
    ASSUME ScanBase, [ScanNext]_scanVars, \A w \in Crew : ~Identify(w) /\ ~IdentifySilent(w)
    PROVE  /\ devices' = devices /\ DOMAIN facts' = DOMAIN facts
           /\ \A i \in DOMAIN facts : MovesTo(facts[i], facts'[i])
<1>1. \A i \in DOMAIN facts : MovesTo(facts[i], facts[i])
  BY DEF MovesTo, ScanBase, Facts
<1>2. ASSUME NEW w \in Crew, Works(w)
      PROVE  /\ devices' = devices /\ DOMAIN facts' = DOMAIN facts
             /\ \A i \in DOMAIN facts : MovesTo(facts[i], facts'[i])
  BY <1>2, WorkKeepsBase, WorkMoves
<1>3. ASSUME NEW w \in Crew, BreakOff(w) \/ Crash(w)
      PROVE  /\ devices' = devices /\ DOMAIN facts' = DOMAIN facts
             /\ \A i \in DOMAIN facts : MovesTo(facts[i], facts'[i])
  BY <1>3, BreakOffDoes, CrashDoes
<1>4. ASSUME Reclassify
      PROVE  /\ devices' = devices /\ DOMAIN facts' = DOMAIN facts
             /\ \A i \in DOMAIN facts : MovesTo(facts[i], facts'[i])
  BY <1>4, ReclassifyDoes
<1>5. ASSUME (\E w \in Crew : Take(w)) \/ NextRun \/ UNCHANGED scanVars
      PROVE  devices' = devices /\ facts' = facts
  BY <1>5 DEF Take, NextRun, scanVars
<1>6. QED
  BY <1>1, <1>2, <1>3, <1>4, <1>5 DEF ScanNext, Works

(* A stored depth changes to that of the run under way, and only to a smaller one   *)
(* unless it is zero, which any scan replaces; and a run with a narrower profile  *)
(* leaves what it does not collect: in every order of the steps of every number   *)
(* of workers.                                                                   *)
THEOREM ScanTakesNothingBack == ScanSpec => NothingTakenBack
<1>1. ScanBase /\ [ScanNext]_scanVars =>
        [\A d \in devices, e \in devices' :
           d.id = e.id /\ e.depth # d.depth =>
              /\ plan # <<>> /\ e.depth = plan[1].depth
              /\ d.depth = 0 \/ e.depth < d.depth]_scanVars
  <2> SUFFICES ASSUME ScanBase, [ScanNext]_scanVars,
                      NEW d \in devices, NEW e \in devices', d.id = e.id, e.depth # d.depth
               PROVE  plan # <<>> /\ e.depth = plan[1].depth /\ (d.depth = 0 \/ e.depth < d.depth)
    OBVIOUS
  <2>1. CASE devices' = devices
    BY <2>1 DEF ScanBase, Devices, AreDevices
  <2>2. ASSUME NEW w \in Crew, Identify(w) \/ IdentifySilent(w)
        PROVE  plan # <<>> /\ e.depth = plan[1].depth /\ (d.depth = 0 \/ e.depth < d.depth)
    <3>1. PICK o : /\ Observes(o, jobs[w].addr)
                   /\ \E found, new, j : found \in Resolved(devices, o) /\ Identifies(w, o, found, new, j)
      BY <2>2, IdentifyDoes
    <3>2. PICK found, new, j : found \in Resolved(devices, o) /\ Identifies(w, o, found, new, j)
      BY <3>1
    <3>3. AreDevices(devices) /\ o.depth \in Nat /\ o.depth = plan[1].depth /\ devices' = found[1]
      BY <3>1, <3>2 DEF ScanBase, Devices, Observes, Identifies
    <3>4. DepthGoes(d, e, o)
      BY <3>2, <3>3, ResolvedDoes
    <3>5. plan # <<>>
      BY <2>2, IdentifyDoes
    <3>6. QED
      BY <3>3, <3>4, <3>5 DEF DepthGoes
  <2>3. QED
    BY <2>1, <2>2, OtherStep
<1>2. ScanBase /\ [ScanNext]_scanVars =>
        [plan # <<>> /\ plan[1].profile \in {"LIGHT", "STANDARD"} =>
           \A i \in DOMAIN facts : /\ facts'[i].routes = facts[i].routes /\ facts'[i].vlans = facts[i].vlans
                                   /\ plan[1].profile = "LIGHT" => facts'[i].fdb = facts[i].fdb]_scanVars
  <2> SUFFICES ASSUME ScanBase, [ScanNext]_scanVars, plan[1].profile \in {"LIGHT", "STANDARD"},
                      NEW i \in DOMAIN facts
               PROVE  /\ facts'[i].routes = facts[i].routes /\ facts'[i].vlans = facts[i].vlans
                      /\ plan[1].profile = "LIGHT" => facts'[i].fdb = facts[i].fdb
    OBVIOUS
  <2>1. CASE MovesTo(facts[i], facts'[i])
    BY <2>1 DEF MovesTo
  <2>2. ASSUME NEW w \in Crew, Identify(w) \/ IdentifySilent(w)
        PROVE  /\ facts'[i].routes = facts[i].routes /\ facts'[i].vlans = facts[i].vlans
               /\ facts'[i].fdb = facts[i].fdb
    <3>1. PICK o, found, new, j : Identifies(w, o, found, new, j)
      BY <2>2, IdentifyDoes
    <3>2. facts'[i] = IF i = found[2].id THEN new ELSE facts[i]
      BY <3>1 DEF Identifies
    <3>3. i = found[2].id => new.routes = facts[i].routes /\ new.vlans = facts[i].vlans /\ new.fdb = facts[i].fdb
      BY <3>1 DEF Identifies
    <3>4. QED
      BY <3>2, <3>3
  <2>3. QED
    BY <2>1, <2>2, OtherStep
<1>3. QED
  BY <1>1, <1>2, ScanBaseAlways, PTL DEF ScanSpec, NothingTakenBack, DepthMoves, KeptByNarrowScan

-----------------------------------------------------------------------------
(* PoE and types come to agree.                                                  *)

(* The invariant: PoE ports that nothing stands for are those of a scan of the     *)
(* run under way that collects PoE and is about to classify the device. Without    *)
(* "that collects PoE" it is not inductive: such a scan would classify and leave   *)
(* the ports as they are.                                                        *)
Between(i) == "poe" \in Collected /\ \E w \in Crew : jobs[w].at = "type" /\ jobs[w].row = i
PoeInv == \A i \in DOMAIN facts : Unsettled(facts[i]) => Between(i)

LEMMA PoeInvStep == ScanBase /\ PoeInv /\ [ScanNext]_scanVars => PoeInv'
<1> SUFFICES ASSUME ScanBase, PoeInv, [ScanNext]_scanVars, NEW i \in DOMAIN facts', Unsettled(facts'[i])
             PROVE  Between(i)'
  BY DEF PoeInv, Unsettled
<1>1. ASSUME NEW w \in Crew, NEW j, jobs' = [jobs EXCEPT ![w] = j],
             plan # <<>> => plan'[1].profile = plan[1].profile, plan # <<>>,
             i \in DOMAIN facts, Unsettled(facts[i]), ~(jobs[w].at = "type" /\ jobs[w].row = i)
      PROVE  Between(i)'
  <2>1. "poe" \in Collected /\ \E v \in Crew : jobs[v].at = "type" /\ jobs[v].row = i
    BY <1>1 DEF PoeInv, Between
  <2>2. PICK v \in Crew : jobs[v].at = "type" /\ jobs[v].row = i
    BY <2>1
  <2>3. jobs'[v] = jobs[v]
    BY <1>1, <2>2 DEF ScanBase, Jobs
  <2>4. Collected' = Collected
    BY <1>1 DEF Collected
  <2>5. QED
    BY <2>1, <2>2, <2>3, <2>4 DEF Between
<1>2. ASSUME NEW w \in Crew, Take(w) PROVE Between(i)'
  <2>1. PICK a \in plan[1].addrs :
          /\ jobs' = [jobs EXCEPT ![w] = [Resting EXCEPT !.at = "identify", !.addr = a]]
          /\ plan' = [plan EXCEPT ![1].addrs = @ \ {a}]
    BY <1>2 DEF Take
  <2>2. plan # <<>> /\ facts' = facts /\ jobs[w].at = "rest"
    BY <1>2 DEF Take
  <2>3. plan[1] \in Run /\ 1 \in DOMAIN plan
    BY <2>2, FirstRun DEF ScanBase
  <2>4. plan'[1].profile = plan[1].profile
    BY <2>1, <2>3 DEF Run
  <2>5. QED
    BY <1>1, <2>1, <2>2, <2>4
<1>3. ASSUME NEW w \in Crew, Identify(w) \/ IdentifySilent(w) PROVE Between(i)'
  <2>1. jobs[w].at = "identify" /\ plan # <<>>
    BY <1>3, IdentifyDoes
  <2>2. PICK o, found, new, j : Identifies(w, o, found, new, j)
    BY <1>3, IdentifyDoes
  <2>3. facts'[i] = (IF i = found[2].id THEN new ELSE facts[i]) /\ i \in DOMAIN facts \cup {found[2].id}
    BY <2>2 DEF Identifies
  <2>4. i \in DOMAIN facts /\ Unsettled(facts[i])
    BY <2>2, <2>3 DEF Identifies
  <2>5. jobs' = [jobs EXCEPT ![w] = j] /\ plan' = plan
    BY <2>2 DEF Identifies
  <2>6. QED
    BY <1>1, <2>1, <2>4, <2>5
<1>4. ASSUME NEW w \in Crew, Works(w) PROVE Between(i)'
  <2>1. jobs[w].at \notin {"rest", "identify"} /\ UNCHANGED <<plan, devices>>
    BY <1>4, WorkMoves
  <2>2. PICK g, j : Moves(w, g, j)
    BY <1>4, WorkMoves
  <2>3. plan # <<>> /\ jobs[w].row \in DOMAIN facts /\ Fact(w) = facts[jobs[w].row]
    BY <2>1 DEF ScanBase, Jobs, Job, Fact
  <2>4. /\ facts' = [facts EXCEPT ![jobs[w].row] = g] /\ jobs' = [jobs EXCEPT ![w] = j]
        /\ Unsettled(g) => \/ "poe" \in Collected /\ j.at = "type" /\ j.row = jobs[w].row
                           \/ Unsettled(Fact(w)) /\ ("poe" \in Collected => jobs[w].at # "type")
    BY <2>2 DEF Moves
  <2>5. i \in DOMAIN facts /\ facts'[i] = IF i = jobs[w].row THEN g ELSE facts[i]
    BY <2>4
  <2>6. Collected' = Collected
    BY <2>1 DEF Collected
  <2>7. CASE i = jobs[w].row /\ "poe" \in Collected /\ j.at = "type" /\ j.row = jobs[w].row
    <3>1. jobs'[w] = j
      BY <2>4 DEF ScanBase, Jobs
    <3>2. QED
      BY <2>6, <2>7, <3>1 DEF Between
  <2>8. CASE i = jobs[w].row /\ Unsettled(Fact(w)) /\ ("poe" \in Collected => jobs[w].at # "type")
    <3>1. Unsettled(facts[i])
      BY <2>3, <2>8
    <3>2. "poe" \in Collected
      BY <2>5, <3>1 DEF PoeInv, Between
    <3>3. QED
      BY <1>1, <2>1, <2>3, <2>4, <2>5, <2>8, <3>1, <3>2
  <2>9. CASE i # jobs[w].row
    BY <1>1, <2>1, <2>3, <2>4, <2>5, <2>9
  <2>10. QED
    BY <2>4, <2>5, <2>7, <2>8, <2>9
<1>5. ASSUME NEW w \in Crew, BreakOff(w) PROVE Between(i)'
  <2>1. UNCHANGED plan /\ jobs' = [jobs EXCEPT ![w] = Resting] /\ i \in DOMAIN facts
        /\ Unsettled(facts[i]) /\ ~(jobs[w].at = "type" /\ jobs[w].row = i)
    BY <1>5, BreakOffDoes
  <2>2. plan # <<>>
    BY <1>5 DEF BreakOff, ScanBase, Jobs, Job
  <2>3. QED
    BY <1>1, <2>1, <2>2
<1>6. ASSUME NEW w \in Crew, Crash(w) PROVE Between(i)'
  BY <1>6, CrashDoes DEF PoeInv, Between
<1>7. CASE NextRun
  BY <1>7 DEF NextRun, PoeInv, Between
<1>8. CASE Reclassify
  BY <1>8, ReclassifyDoes
<1>9. CASE UNCHANGED scanVars
  <2>1. Between(i)
    BY <1>9 DEF scanVars, PoeInv
  <2>2. QED
    BY <1>9, <2>1 DEF scanVars, Between, Collected
<1>10. QED
  BY <1>2, <1>3, <1>4, <1>5, <1>6, <1>7, <1>8, <1>9 DEF ScanNext, Works

(* No score looks at PoE. *)
LEMMA ScoreWithoutPoe ==
    ASSUME NEW e, IsSeen(e), NEW p
    PROVE  Score([e EXCEPT !.poe = p]) = Score(e)
<1> DEFINE f == [e EXCEPT !.poe = p]
<1>1. \A t \in DOMAIN NoEvidence \ {"poe"} : f[t] = e[t]
  BY DEF IsSeen
<1>2. /\ f.bridge = e.bridge /\ f.fdb = e.fdb /\ f.lldp = e.lldp /\ f.ports = e.ports /\ f.forwards = e.forwards
      /\ f.routes = e.routes /\ f.svis = e.svis /\ f.vlans = e.vlans /\ f.wan = e.wan /\ f.onvif = e.onvif
      /\ f.rtsp = e.rtsp /\ f.oui = e.oui /\ f.title = e.title /\ f.descr = e.descr /\ f.smb = e.smb
      /\ f.ssh = e.ssh /\ f.ttl = e.ttl
  BY <1>1 DEF NoEvidence
<1> HIDE DEF f
<1>3. L2Score(f) = L2Score(e)
  BY <1>2 DEF L2Score
<1>4. L3Score(f) = L3Score(e) /\ RouterScore(f) = RouterScore(e)
  BY <1>2 DEF L3Score, RouterScore
<1>5. Score(f) = Score(e)
  BY <1>2, <1>3, <1>4 DEF Score
<1>6. QED
  BY <1>5 DEF f

(* The type that PoE makes of a type is the same the second time. *)
LEMMA PoeVariantTwice ==
    ASSUME NEW type, NEW poe
    PROVE  PoeVariant(type, PoeVariant(type, poe) \in PoeTypes) = PoeVariant(type, poe)
BY DEF PoeVariant, PoeTypes

(* ... and so is the verdict when PoE is what the verdict says of it. *)
LEMMA VerdictTwice ==
    ASSUME NEW e, IsSeen(e), NEW s
    PROVE  Classified([e EXCEPT !.poe = Classified(e, s).type \in PoeTypes], s) = Classified(e, s)
<1> DEFINE c == Classified(e, s)
           f == [e EXCEPT !.poe = c.type \in PoeTypes]
           best == Scored[Best(s)]
           clear == s[best] >= Threshold /\ s[best] - SecondScore(s) >= Margin
<1>1. f.onvif = e.onvif /\ f.bridge = e.bridge /\ f.fdb = e.fdb /\ f.name = e.name /\ f.poe = (c.type \in PoeTypes)
  BY DEF IsSeen, NoEvidence
<1>2. CASE e.onvif
  BY <1>1, <1>2 DEF Classified
<1>3. CASE ~e.onvif /\ (e.bridge \/ e.fdb) /\ e.name \in Names \ {"other"}
  BY <1>1, <1>3 DEF Classified
<1>4. CASE ~e.onvif /\ ~((e.bridge \/ e.fdb) /\ e.name \in Names \ {"other"})
  <2> DEFINE of(poe) == IF clear THEN [type |-> PoeVariant(best, poe), method |-> "CONFIRMED"]
                        ELSE [type |-> IF s[best] >= ReviewFloor THEN best ELSE "UNKNOWN",
                              method |-> "REVIEW_REQUIRED"]
  <2>1. c = of(e.poe)
    BY <1>4 DEF Classified
  <2> HIDE DEF f, c
  <2>2. Classified(f, s) = of(f.poe)
    BY <1>1, <1>4 DEF Classified
  <2> HIDE DEF clear, best
  <2>3. clear => c.type = PoeVariant(best, e.poe) /\ f.poe = (PoeVariant(best, e.poe) \in PoeTypes)
    BY <1>1, <2>1
  <2>4. Classified(f, s) = c
    <3>1. CASE clear
      <4>1. PoeVariant(best, f.poe) = PoeVariant(best, e.poe)
        BY <2>3, <3>1, PoeVariantTwice
      <4>2. QED
        BY <2>1, <2>2, <3>1, <4>1
    <3>2. CASE ~clear
      BY <2>1, <2>2, <3>2
    <3>3. QED
      BY <3>1, <3>2
  <2>5. QED
    BY <2>4 DEF f, c
<1>5. QED
  BY <1>2, <1>3, <1>4

(* What a reclassification takes from the stored row, item by item. *)
Walked == {"bridge", "fdb", "lldp", "ports", "forwards", "routes", "svis", "vlans", "wan", "poe", "name"}
LEMMA StoredIs ==
    ASSUME NEW f
    PROVE  LET s == StoredEvidence(f)
           IN  /\ DOMAIN s = DOMAIN NoEvidence /\ s = [t \in DOMAIN NoEvidence |-> s[t]]
               /\ s.bridge = f.layer2 /\ s.fdb = f.fdb /\ s.lldp = f.lldp /\ s.ports = f.ports
               /\ s.forwards = f.layer3 /\ s.routes = f.routes /\ s.svis = f.svis /\ s.vlans = f.vlans
               /\ s.wan = f.wan /\ s.poe = f.poe /\ s.name = f.name
               /\ \A t \in DOMAIN NoEvidence \ Walked : s[t] = NoEvidence[t]
<1> DEFINE N == NoEvidence
           s == [N EXCEPT !.bridge = f.layer2, !.fdb = f.fdb, !.lldp = f.lldp, !.ports = f.ports,
                          !.forwards = f.layer3, !.routes = f.routes, !.svis = f.svis, !.vlans = f.vlans,
                          !.wan = f.wan, !.poe = f.poe, !.name = f.name]
<1>1. Walked \subseteq DOMAIN N
  BY DEF NoEvidence, Walked
<1> HIDE DEF N
<1>2. DOMAIN s = DOMAIN N /\ s = [t \in DOMAIN N |-> s[t]]
  OBVIOUS
<1>3. /\ s.bridge = f.layer2 /\ s.fdb = f.fdb /\ s.lldp = f.lldp /\ s.ports = f.ports
      /\ s.forwards = f.layer3 /\ s.routes = f.routes /\ s.svis = f.svis /\ s.vlans = f.vlans
      /\ s.wan = f.wan /\ s.poe = f.poe /\ s.name = f.name
  BY <1>1 DEF Walked
<1>4. \A t \in DOMAIN N \ Walked : s[t] = N[t]
  BY DEF Walked
<1>5. QED
  BY <1>2, <1>3, <1>4 DEF StoredEvidence, N

LEMMA ReclassifiedTwice ==
    ASSUME NEW f, IsFact(f)
    PROVE  LET g == Reclassified(f) IN Reclassified(g) = g /\ (g.poePorts => g.poe)
<1> DEFINE e == StoredEvidence(f)
           c == Classified(e, Score(e))
           poe == c.type \in PoeTypes
           g == [f EXCEPT !.type = c.type, !.method = c.method, !.torn = FALSE, !.poe = poe, !.poePorts = @ /\ poe]
           h == [e EXCEPT !.poe = poe]
<1>1. Reclassified(f) = g
  <2> HIDE DEF c
  <2>1. QED
    BY DEF Reclassified, WithPoe, c, e, IsFact, NewFacts
<1>2. IsSeen(e)
  BY DEF StoredEvidence, IsSeen
<1>3. Classified(h, Score(h)) = c
  <2>1. Score(h) = Score(e)
    BY <1>2, ScoreWithoutPoe
  <2>2. Classified(h, Score(e)) = c
    BY <1>2, VerdictTwice
  <2>3. QED
    BY <2>1, <2>2
<1> HIDE DEF c, e
<1>4. StoredEvidence(g) = h
  <2>1. /\ g.layer2 = f.layer2 /\ g.fdb = f.fdb /\ g.lldp = f.lldp /\ g.ports = f.ports
        /\ g.layer3 = f.layer3 /\ g.routes = f.routes /\ g.svis = f.svis /\ g.vlans = f.vlans
        /\ g.wan = f.wan /\ g.poe = poe /\ g.name = f.name
    BY DEF IsFact, NewFacts
  <2> HIDE DEF g, poe
  <2> DEFINE k == [StoredEvidence(f) EXCEPT !.poe = poe]
             s == StoredEvidence(g)
  <2>2. /\ DOMAIN s = DOMAIN NoEvidence /\ s = [t \in DOMAIN NoEvidence |-> s[t]]
        /\ DOMAIN k = DOMAIN NoEvidence /\ k = [t \in DOMAIN NoEvidence |-> k[t]]
    BY StoredIs
  <2>3. "poe" \in DOMAIN NoEvidence
    BY DEF NoEvidence
  <2>4. k.poe = poe /\ \A t \in DOMAIN NoEvidence \ {"poe"} : k[t] = StoredEvidence(f)[t]
    BY <2>3, StoredIs
  <2> HIDE DEF k
  <2>5. \A t \in DOMAIN NoEvidence \ Walked : s[t] = k[t]
    BY <2>4, StoredIs DEF Walked
  <2>6. \A t \in DOMAIN NoEvidence \cap Walked : s[t] = k[t]
    BY <2>1, <2>4, StoredIs DEF Walked
  <2>7. s = k
    BY <2>2, <2>5, <2>6
  <2>8. QED
    BY <2>7 DEF e, k
<1>5. IsFact(g) /\ g.type = c.type /\ g.method = c.method /\ g.torn = FALSE /\ g.poe = poe /\ (g.poePorts => poe)
      /\ g.poePorts = (g.poePorts /\ poe)
  <2>1. c.method \in StoredMethods
    BY ClassifiedMethod DEF c
  <2>2. QED
    BY <2>1 DEF IsFact, NewFacts
<1> HIDE DEF h
<1>6. Reclassified(g) = WithPoe([g EXCEPT !.type = c.type, !.method = c.method, !.torn = FALSE], c.type)
  BY <1>3, <1>4 DEF Reclassified
<1>7. Reclassified(g) = [g EXCEPT !.type = c.type, !.method = c.method, !.torn = FALSE, !.poe = poe,
                                  !.poePorts = @ /\ poe]
  BY <1>5, <1>6 DEF WithPoe, IsFact, NewFacts
<1>8. Reclassified(g) = g
  BY <1>5, <1>7 DEF IsFact, NewFacts
<1>9. QED
  BY <1>1, <1>5, <1>8

(* PoE ports are offered for control only on a device that feeds PoE, but for the *)
(* moment between the PoE batch of a scan and its classification, and after a scan *)
(* was broken off there, which a reclassification heals; and it settles at once.  *)
THEOREM ScanSettles == ScanSpec => []StoredTypesSettle
<1>1. ScanInit => PoeInv
  BY DEF ScanInit, PoeInv
<1>2. ScanBase /\ PoeInv => PoeSettled
  BY DEF PoeInv, Unsettled, Between, PoeSettled
<1>3. ScanBase => ReclassifySettles
  BY ReclassifiedTwice DEF ScanBase, Facts, ReclassifySettles
<1>4. ScanBase /\ PoeInv => StoredTypesSettle
  BY <1>2, <1>3 DEF StoredTypesSettle
<1>5. QED
  BY <1>1, <1>4, PoeInvStep, ScanBaseAlways, PTL DEF ScanSpec

-----------------------------------------------------------------------------
(* Rows are machines.                                                            *)

(* The invariant: one machine was taken for a row, and what the row knows, its     *)
(* address too, is of that machine.                                              *)
IsOf(d, n) ==
    /\ d.chassis # None => \E b \in DOMAIN Machines : Machines[b].number = n /\ Machines[b].chassis = d.chassis
    /\ d.mac # None => \E b \in DOMAIN Machines : Machines[b].number = n /\ Machines[b].mac = d.mac
    /\ d.model # None => \E b \in DOMAIN Machines : Machines[b].number = n /\ Machines[b].model = d.model
    /\ d.ip \in DOMAIN Machines /\ Machines[d.ip].number = n
MachineInv == \A d \in devices : \E n : facts[d.id].machines = {n} /\ IsOf(d, n)

LEMMA CandidateIsOf ==
    ASSUME MachinesApart, NEW a \in DOMAIN Machines, NEW o, Observes(o, a),
           NEW d \in Candidates(devices, o), NEW n, IsOf(d, n)
    PROVE  Machines[a].number = n
<1> SUFFICES ASSUME Machines[a].number # n PROVE FALSE
  OBVIOUS
<1>1. \A b \in DOMAIN Machines : Machines[b].number = n =>
        /\ Machines[a].chassis = None \/ Machines[a].chassis # Machines[b].chassis
        /\ Machines[a].mac = None \/ Machines[a].mac # Machines[b].mac
        /\ Machines[a].mac = None \/ Machines[a].model = None \/ Machines[a].model # Machines[b].model
  BY DEF MachinesApart
<1>2. \/ o.chassis # None /\ d.chassis = o.chassis
      \/ o.mac # None /\ d.mac = o.mac
      \/ o.mac # None /\ o.model # None /\ d.model = o.model
      \/ d.ip = o.ip
  BY CandidateBy
<1>3. QED
  BY <1>1, <1>2 DEF Observes, IsOf

LEMMA UpdatedIsOf ==
    ASSUME NEW a \in DOMAIN Machines, NEW o, Observes(o, a), NEW d, IsDevice(d),
           IsOf(d, Machines[a].number)
    PROVE  IsOf(Updated(d, o), Machines[a].number)
<1>1. /\ Updated(d, o).chassis = Given(o.chassis, d.chassis)
      /\ Updated(d, o).mac = Given(o.mac, d.mac) /\ Updated(d, o).model = Given(o.model, d.model)
      /\ Updated(d, o).ip \in {d.ip, o.ip}
  BY UpdatedRow DEF Observes
<1>2. QED
  BY <1>1 DEF Observes, IsOf, Given

LEMMA CreatedIsOf ==
    ASSUME NEW a \in DOMAIN Machines, NEW o, Observes(o, a), NEW i
    PROVE  IsOf(Created(i, o), Machines[a].number)
BY DEF Observes, IsOf, Created

LEMMA MachineStep ==
    ASSUME MachinesApart, ScanBase, MachineInv, NEW w \in Crew, jobs[w].addr \in DOMAIN Machines,
           NEW o, Observes(o, jobs[w].addr), NEW found \in Resolved(devices, o), NEW new, NEW j,
           Identifies(w, o, found, new, j)
    PROVE  MachineInv'
<1> DEFINE a == jobs[w].addr
           m == Machines[a].number
<1>0. a \in DOMAIN Machines /\ Observes(o, a)
  OBVIOUS
<1> HIDE DEF a
<1>1. Devices /\ Facts /\ \A c \in devices : IsDevice(c) /\ c.id \in DOMAIN facts
  BY DEF ScanBase, Devices, AreDevices, Facts
<1>2. /\ devices' = found[1]
      /\ facts' = [i \in DOMAIN facts \cup {found[2].id} |-> IF i = found[2].id THEN new ELSE facts[i]]
      /\ found[2].id \in DOMAIN facts => new.machines = facts[found[2].id].machines \cup {m}
      /\ found[2].id \notin DOMAIN facts => new.machines = {m}
  BY DEF Identifies, a
<1>3. facts'[found[2].id] = new /\ \A c \in devices : c.id # found[2].id => facts'[c.id] = facts[c.id]
  BY <1>1, <1>2
<1>4. CASE Candidates(devices, o) = {} /\ found[2] = Created(NextId(devices), o) /\ found[1] = devices \cup {found[2]}
  <2>1. NextId(devices) \in Nat /\ \A d \in devices : d.id < NextId(devices) /\ d.id \in Nat
    BY <1>1, NextIdIsNew DEF Devices, AreDevices, IsDevice
  <2>2. found[2].id = NextId(devices)
    BY <1>4 DEF Created
  <2>3. \A d \in devices : d.id # found[2].id
    BY <2>1, <2>2
  <2>4. found[2].id \notin DOMAIN facts
    BY <1>1, <2>3 DEF Facts
  <2>5. new.machines = {m} /\ IsOf(found[2], m)
    BY <1>0, <1>2, <1>4, <2>4, CreatedIsOf
  <2>6. ASSUME NEW d \in devices' PROVE \E n : facts'[d.id].machines = {n} /\ IsOf(d, n)
    BY <1>2, <1>3, <1>4, <2>3, <2>5, <2>6 DEF MachineInv
  <2>7. QED
    BY <2>6 DEF MachineInv, IsOf
<1>5. ASSUME NEW d \in Candidates(devices, o), found[2] = Updated(d, o),
             found[1] = (devices \ {d}) \cup {found[2]}
      PROVE  MachineInv'
  <2>1. d \in devices /\ IsDevice(d) /\ d.id \in DOMAIN facts
    BY <1>1, CandidatesAre
  <2>2. found[2].id = d.id
    BY <1>5, <2>1, UpdatedRow DEF Observes
  <2>3. PICK n : facts[d.id].machines = {n} /\ IsOf(d, n)
    BY <2>1 DEF MachineInv
  <2>4. n = m
    BY <1>0, <2>3, CandidateIsOf
  <2>5. new.machines = {m} /\ IsOf(found[2], m)
    <3>1. IsOf(Updated(d, o), m)
      BY <1>0, <2>1, <2>3, <2>4, UpdatedIsOf
    <3>2. QED
      BY <1>2, <1>5, <2>1, <2>2, <2>3, <2>4, <3>1
  <2>6. \A c \in devices : c.id = d.id => c = d
    BY <1>1, <2>1 DEF Devices, AreDevices
  <2>7. ASSUME NEW c \in devices' PROVE \E k : facts'[c.id].machines = {k} /\ IsOf(c, k)
    <3>1. CASE c = found[2]
      BY <1>3, <2>5, <3>1
    <3>2. CASE c # found[2]
      <4>1. c \in devices /\ c.id # found[2].id
        BY <1>2, <1>5, <2>2, <2>6, <2>7, <3>2
      <4>2. QED
        BY <1>3, <4>1 DEF MachineInv
    <3>3. QED
      BY <3>1, <3>2
  <2>8. QED
    BY <2>7 DEF MachineInv, IsOf
<1>6. QED
  BY <1>4, <1>5, ResolvedIs

(* No two rows come to have one chassis, whatever the machines answer and in      *)
(* whatever order the workers identify them.                                     *)
THEOREM ScanChassis == ScanSpec => []OneRowPerChassis
<1>1. ScanInit => OneRowPerChassis
  BY DEF ScanInit, OneRowPerChassis
<1>2. ScanBase /\ OneRowPerChassis /\ [ScanNext]_scanVars => OneRowPerChassis'
  <2> SUFFICES ASSUME ScanBase, OneRowPerChassis, [ScanNext]_scanVars PROVE OneRowPerChassis'
    OBVIOUS
  <2>1. ASSUME NEW w \in Crew, Identify(w) \/ IdentifySilent(w) PROVE OneRowPerChassis'
    <3>1. PICK o : /\ Observes(o, jobs[w].addr)
                   /\ \E found, new, j : found \in Resolved(devices, o) /\ Identifies(w, o, found, new, j)
      BY <2>1, IdentifyDoes
    <3>2. PICK found, new, j : found \in Resolved(devices, o) /\ Identifies(w, o, found, new, j)
      BY <3>1
    <3>3. QED
      <4>1. AreDevices(devices) /\ OneChassisEach(devices) /\ o.depth \in Nat /\ devices' = found[1]
        BY <3>1, <3>2 DEF ScanBase, Devices, Observes, Identifies, OneRowPerChassis, OneChassisEach
      <4>2. OneChassisEach(devices')
        BY <3>2, <4>1, ChassisStep
      <4>3. QED
        BY <4>2 DEF OneChassisEach, OneRowPerChassis
  <2>2. CASE \A w \in Crew : ~Identify(w) /\ ~IdentifySilent(w)
    BY <2>2, OtherStep DEF OneRowPerChassis
  <2>3. QED
    BY <2>1, <2>2
<1>3. QED
  BY <1>1, <1>2, ScanBaseAlways, PTL DEF ScanSpec

(* ... and no row comes to stand for two machines, if the machines can be told    *)
(* apart by what they answer with.                                               *)
THEOREM ScanRows ==
    ASSUME MachinesApart
    PROVE  ScanSpec => []RowsAreMachines
<1>1. ScanInit => MachineInv
  BY DEF ScanInit, MachineInv
<1>2. ScanBase /\ MachineInv /\ [ScanNext]_scanVars => MachineInv'
  <2> SUFFICES ASSUME ScanBase, MachineInv, [ScanNext]_scanVars PROVE MachineInv'
    OBVIOUS
  <2>1. ASSUME NEW w \in Crew, Identify(w) \/ IdentifySilent(w) PROVE MachineInv'
    <3>1. jobs[w].addr \in DOMAIN Machines
      BY <2>1, IdentifyDoes
    <3>2. PICK o : /\ Observes(o, jobs[w].addr)
                   /\ \E found, new, j : found \in Resolved(devices, o) /\ Identifies(w, o, found, new, j)
      BY <2>1, IdentifyDoes
    <3>3. PICK found, new, j : found \in Resolved(devices, o) /\ Identifies(w, o, found, new, j)
      BY <3>2
    <3>4. QED
      BY <3>1, <3>2, <3>3, MachineStep
  <2>2. CASE \A w \in Crew : ~Identify(w) /\ ~IdentifySilent(w)
    <3>1. devices' = devices /\ \A i \in DOMAIN facts : facts'[i].machines = facts[i].machines
      BY <2>2, OtherStep DEF MovesTo
    <3>2. \A d \in devices : d.id \in DOMAIN facts
      BY DEF ScanBase, Facts
    <3>3. QED
      BY <3>1, <3>2 DEF MachineInv, IsOf
  <2>3. QED
    BY <2>1, <2>2
<1>3. ScanBase /\ MachineInv => HostsApart
  <2> SUFFICES ASSUME ScanBase, MachineInv, NEW i \in DOMAIN facts PROVE Cardinality(facts[i].machines) = 1
    BY DEF HostsApart
  <2>1. PICK d \in devices : d.id = i
    BY DEF ScanBase, Facts
  <2>2. PICK n : facts[i].machines = {n}
    BY <2>1 DEF MachineInv
  <2>3. QED
    BY <2>2, FS_Singleton
<1>4. ScanSpec => []HostsApart
  BY <1>1, <1>2, <1>3, ScanBaseAlways, PTL DEF ScanSpec
<1>5. QED
  BY <1>4, ScanChassis, PTL DEF RowsAreMachines

-----------------------------------------------------------------------------
(* DeviceType: how the type of one device moves while it is classified again    *)
(* and again.                                                                   *)

(* The types that are scored, and scores of them. *)
ScoredTypes == {Scored[i] : i \in DOMAIN Scored}
AreScores(s) == \A t \in ScoredTypes : s[t] \in Int

(* A type alone at the threshold and the margin above every other. *)
Clear(s, t) == s[t] >= Threshold /\ \A u \in ScoredTypes \ {t} : s[t] >= s[u] + Margin

LEMMA ScoredNine ==
    /\ DOMAIN Scored = 1..9
    /\ \A i, j \in 1..9 : Scored[i] = Scored[j] => i = j
    /\ \A i \in 1..9 : Scored[i] \in ScoredTypes
<1>1. DOMAIN Scored = 1..9
  BY DEF Scored
<1>2. ASSUME NEW i \in 1..9, NEW j \in 1..9, Scored[i] = Scored[j] PROVE i = j
  <2>1. /\ i = 1 \/ i = 2 \/ i = 3 \/ i = 4 \/ i = 5 \/ i = 6 \/ i = 7 \/ i = 8 \/ i = 9
        /\ j = 1 \/ j = 2 \/ j = 3 \/ j = 4 \/ j = 5 \/ j = 6 \/ j = 7 \/ j = 8 \/ j = 9
    OBVIOUS
  <2> QED
    BY <1>2, <2>1 DEF Scored
<1> QED
  BY <1>1, <1>2 DEF ScoredTypes

(* Among any of the scorers one comes first. *)
LEMMA OneIsFirst ==
    ASSUME NEW s, AreScores(s), NEW T \in SUBSET (1..9), T # {}
    PROVE  \E i \in T : \A j \in T : Precedence(s, i, j)
<1> DEFINE First(n) == T \cap 1..n # {} => \E i \in T \cap 1..n : \A j \in T \cap 1..n : Precedence(s, i, j)
<1>1. \A i \in 1..9 : s[Scored[i]] \in Int
  BY ScoredNine DEF AreScores
<1>2. First(0)
  OBVIOUS
<1>3. ASSUME NEW n \in 0..8, First(n) PROVE First(n + 1)
  <2>1. CASE n + 1 \notin T
    <3>1. T \cap 1..(n + 1) = T \cap 1..n
      BY <2>1
    <3> QED
      BY <1>3, <3>1
  <2>2. CASE n + 1 \in T /\ T \cap 1..n = {}
    <3>1. T \cap 1..(n + 1) = {n + 1}
      BY <2>2
    <3>2. Precedence(s, n + 1, n + 1)
      BY <1>1 DEF Precedence
    <3> QED
      BY <3>1, <3>2
  <2>3. CASE n + 1 \in T /\ T \cap 1..n # {}
    <3>1. PICK i \in T \cap 1..n : \A j \in T \cap 1..n : Precedence(s, i, j)
      BY <1>3, <2>3
    <3>2. T \cap 1..(n + 1) = (T \cap 1..n) \cup {n + 1}
      BY <2>3
    <3>3. CASE s[Scored[i]] >= s[Scored[n + 1]]
      <4>1. Precedence(s, i, n + 1)
        BY <1>1, <3>3 DEF Precedence
      <4> QED
        BY <3>1, <3>2, <4>1
    <3>4. CASE s[Scored[i]] < s[Scored[n + 1]]
      <4>1. \A j \in T \cap 1..(n + 1) : Precedence(s, n + 1, j)
        BY <1>1, <3>1, <3>2, <3>4 DEF Precedence
      <4> QED
        BY <2>3, <4>1
    <3> QED
      BY <1>1, <3>3, <3>4
  <2> QED
    BY <2>1, <2>2, <2>3
<1> HIDE DEF First
<1>4. First(9)
  <2>1. First(1) BY <1>2, <1>3
  <2>2. First(2) BY <2>1, <1>3
  <2>3. First(3) BY <2>2, <1>3
  <2>4. First(4) BY <2>3, <1>3
  <2>5. First(5) BY <2>4, <1>3
  <2>6. First(6) BY <2>5, <1>3
  <2>7. First(7) BY <2>6, <1>3
  <2>8. First(8) BY <2>7, <1>3
  <2> QED BY <2>8, <1>3
<1>5. T \cap 1..9 = T
  OBVIOUS
<1> QED
  BY <1>4, <1>5 DEF First

(* The best scorer, and the score of the next. *)
LEMMA BestIsBest ==
    ASSUME NEW s, AreScores(s)
    PROVE  /\ Best(s) \in 1..9 /\ \A j \in 1..9 : s[Scored[Best(s)]] >= s[Scored[j]]
           /\ \E k \in 1..9 \ {Best(s)} : SecondScore(s) = s[Scored[k]]
           /\ \A j \in 1..9 \ {Best(s)} : SecondScore(s) >= s[Scored[j]]
<1>1. \A i \in 1..9 : s[Scored[i]] \in Int
  BY ScoredNine DEF AreScores
<1>2. \E i \in 1..9 : \A j \in 1..9 : Precedence(s, i, j)
  <2>1. 1..9 \in SUBSET (1..9) /\ 1..9 # {}
    OBVIOUS
  <2> QED
    BY <2>1, OneIsFirst
<1>3. Best(s) \in 1..9 /\ \A j \in 1..9 : Precedence(s, Best(s), j)
  BY <1>2, ScoredNine DEF Best
<1> DEFINE rest == 1..9 \ {Best(s)}
           next == CHOOSE i \in rest : \A j \in rest : Precedence(s, i, j)
<1>4. rest # {} /\ rest \in SUBSET (1..9)
  <2>1. 1 \in rest \/ 2 \in rest
    BY <1>3
  <2> QED
    BY <2>1
<1>5. next \in rest /\ \A j \in rest : Precedence(s, next, j)
  BY <1>4, OneIsFirst
<1>6. SecondScore(s) = s[Scored[next]]
  BY ScoredNine DEF SecondScore
<1> HIDE DEF next
<1>7. \A j \in 1..9 : s[Scored[Best(s)]] >= s[Scored[j]]
  BY <1>1, <1>3 DEF Precedence
<1>8. \A j \in rest : SecondScore(s) >= s[Scored[j]]
  BY <1>1, <1>5, <1>6 DEF Precedence
<1> QED
  BY <1>3, <1>5, <1>6, <1>7, <1>8

(* Whatever the scores: where no signature decides, a type is confirmed exactly  *)
(* when it is clear; else the type is the best one if it is good enough.         *)
LEMMA ClearIsConfirmed ==
    ASSUME NEW s, AreScores(s), NEW e, Classified(e, s).method # "STRONG_SIGNATURE"
    PROVE  LET v == Classified(e, s)
               best == Scored[Best(s)]
           IN  /\ \A t \in ScoredTypes : Clear(s, t) <=> v.method = "CONFIRMED" /\ best = t
               /\ v.method = "CONFIRMED" => v.type = PoeVariant(best, e.poe) /\ s[best] >= Threshold
               /\ v.method # "CONFIRMED" =>
                     /\ v.method = "REVIEW_REQUIRED"
                     /\ v.type = IF s[best] >= ReviewFloor THEN best ELSE "UNKNOWN"
<1> DEFINE v == Classified(e, s)
           best == Scored[Best(s)]
           sure == s[best] >= Threshold /\ s[best] - SecondScore(s) >= Margin
<1>1. v = IF sure THEN [type |-> PoeVariant(best, e.poe), method |-> "CONFIRMED"]
          ELSE [type |-> IF s[best] >= ReviewFloor THEN best ELSE "UNKNOWN", method |-> "REVIEW_REQUIRED"]
  <2> HIDE DEF best
  <2>1. ~e.onvif
    BY DEF Classified
  <2>2. ~((e.bridge \/ e.fdb) /\ e.name \in Names \ {"other"})
    BY <2>1 DEF Classified
  <2> QED
    BY <2>1, <2>2 DEF Classified, best
<1>2. /\ v.method = "CONFIRMED" <=> sure
      /\ sure => v.type = PoeVariant(best, e.poe)
      /\ ~sure => v.method = "REVIEW_REQUIRED" /\ v.type = IF s[best] >= ReviewFloor THEN best ELSE "UNKNOWN"
  BY <1>1
<1> HIDE DEF v
<1>3. /\ best \in ScoredTypes /\ \A t \in ScoredTypes : s[t] \in Int /\ s[best] >= s[t]
      /\ \E u \in ScoredTypes \ {best} : SecondScore(s) = s[u]
      /\ \A u \in ScoredTypes \ {best} : SecondScore(s) >= s[u]
  BY BestIsBest, ScoredNine DEF ScoredTypes, AreScores
<1> HIDE DEF best
<1>4. ASSUME NEW t \in ScoredTypes PROVE Clear(s, t) <=> sure /\ best = t
  BY <1>3 DEF Clear, Threshold, Margin
<1> QED
  BY <1>2, <1>4 DEF v, best

-----------------------------------------------------------------------------
(* What scans find: a default route is a route; a device gives the items of a    *)
(* switch or those of an end device.                                             *)
IsEvidence(e) ==
    /\ DOMAIN e = DOMAIN NoEvidence
    /\ \A f \in SwitchItems \cup EndItems : e[f] \in BOOLEAN
    /\ e.wan => e.routes
    /\ IF e.name = "end" THEN \A f \in SwitchItems : ~e[f]
       ELSE (\A f \in EndItems : ~e[f]) /\ e.oui = "other" /\ e.descr = "none" /\ e.ssh = "none"

TypesInv == IsEvidence(evidence) /\ scores = Score(evidence) /\ verdict = Classified(evidence, scores)

LEMMA ScoresAre ==
    ASSUME NEW e, IsEvidence(e)
    PROVE  AreScores(Score(e)) /\ DOMAIN Score(e) = ScoredTypes
<1>1. ScoredTypes = {"L2_SWITCH", "L3_SWITCH", "ROUTER", "IP_CAMERA", "WINDOWS_PC", "LINUX_PC", "MAC_PC",
                     "ACCESS_POINT", "HUB"}
  <2>1. 1..9 = {1, 2, 3, 4, 5, 6, 7, 8, 9}
    OBVIOUS
  <2> QED
    BY <2>1, ScoredNine DEF ScoredTypes, Scored
<1>2. DOMAIN Score(e) = ScoredTypes
  BY <1>1 DEF Score
<1>3. ASSUME NEW t \in ScoredTypes PROVE Score(e)[t] \in Int
  BY <1>1 DEF Score, L2Score, L3Score, RouterScore, Points, Threshold
<1> QED
  BY <1>2, <1>3 DEF AreScores

LEMMA TypesStart == TypesInit => TypesInv
<1> SUFFICES ASSUME TypesInit PROVE IsEvidence(evidence)
  BY DEF TypesInit, TypesInv
<1>1. \A f \in SwitchItems \cup EndItems : NoEvidence[f] = FALSE /\ f \in DOMAIN NoEvidence
                                            /\ f \notin {"name", "oui", "ssh", "ttl", "descr"}
  BY DEF NoEvidence, SwitchItems, EndItems
<1>2. ASSUME NEW n \in Names, NEW t, evidence = [NoEvidence EXCEPT !.name = n, !.ttl = t]
      PROVE  IsEvidence(evidence)
  <2>1. /\ DOMAIN evidence = DOMAIN NoEvidence
        /\ \A f \in SwitchItems \cup EndItems : evidence[f] = FALSE
    BY <1>1, <1>2
  <2>2. evidence.name # "end" /\ evidence.oui = "other" /\ evidence.descr = "none" /\ evidence.ssh = "none"
    BY <1>2 DEF NoEvidence, Names
  <2> QED
    BY <2>1, <2>2 DEF IsEvidence, SwitchItems
<1>3. ASSUME NEW o, NEW h, NEW t, NEW d,
             evidence = [NoEvidence EXCEPT !.name = "end", !.oui = o, !.ssh = h, !.ttl = t, !.descr = d]
      PROVE  IsEvidence(evidence)
  <2>1. /\ DOMAIN evidence = DOMAIN NoEvidence
        /\ \A f \in SwitchItems \cup EndItems : evidence[f] = FALSE
    BY <1>1, <1>3
  <2>2. evidence.name = "end"
    BY <1>3 DEF NoEvidence
  <2> QED
    BY <2>1, <2>2 DEF IsEvidence, SwitchItems
<1>4. \/ \E n \in Names, t \in {"none", "UNIX"} : evidence = [NoEvidence EXCEPT !.name = n, !.ttl = t]
      \/ \E o \in {"other", "CAMERA", "APPLE", "AP"}, h \in {"none", "other", "linux", "mac"},
            t \in {"none", "WINDOWS", "UNIX"}, d \in {"none", "other", "windows", "linux", "mac"} :
            evidence = [NoEvidence EXCEPT !.name = "end", !.oui = o, !.ssh = h, !.ttl = t, !.descr = d]
  BY DEF TypesInit
<1>5. CASE \E n \in Names, t \in {"none", "UNIX"} : evidence = [NoEvidence EXCEPT !.name = n, !.ttl = t]
  BY <1>2, <1>5, Zenon
<1>6. CASE \E o \in {"other", "CAMERA", "APPLE", "AP"}, h \in {"none", "other", "linux", "mac"},
              t \in {"none", "WINDOWS", "UNIX"}, d \in {"none", "other", "windows", "linux", "mac"} :
              evidence = [NoEvidence EXCEPT !.name = "end", !.oui = o, !.ssh = h, !.ttl = t, !.descr = d]
  <2>1. PICK o \in {"other", "CAMERA", "APPLE", "AP"}, h \in {"none", "other", "linux", "mac"},
             t \in {"none", "WINDOWS", "UNIX"}, d \in {"none", "other", "windows", "linux", "mac"} :
           evidence = [NoEvidence EXCEPT !.name = "end", !.oui = o, !.ssh = h, !.ttl = t, !.descr = d]
    BY <1>6
  <2> QED
    BY <1>3, <2>1
<1> QED
  BY <1>4, <1>5, <1>6, Zenon

LEMMA TypesStep == TypesInv /\ [TypesNext]_typeVars => TypesInv'
<1> SUFFICES ASSUME TypesInv, [TypesNext]_typeVars PROVE TypesInv'
  OBVIOUS
<1>1. CASE TypesNext
  <2>1. PICK item \in Items(evidence) :
           /\ evidence' = [evidence EXCEPT ![item] = ~@]
           /\ evidence.wan' => evidence.routes'
    BY <1>1 DEF TypesNext
  <2>2. item \in SwitchItems \cup EndItems /\ (evidence.name = "end" <=> item \in EndItems)
    BY <2>1 DEF Items, SwitchItems, EndItems
  <2>3. SwitchItems \cup EndItems \subseteq DOMAIN NoEvidence
    BY DEF SwitchItems, EndItems, NoEvidence
  <2>4. IsEvidence(evidence')
    <3>1. IsEvidence(evidence) /\ DOMAIN evidence' = DOMAIN NoEvidence
      BY <2>1 DEF TypesInv, IsEvidence
    <3>2. item \notin {"name", "oui", "descr", "ssh"} /\ evidence'[item] = ~evidence[item]
          /\ \A f \in DOMAIN NoEvidence \ {item} : evidence'[f] = evidence[f]
      BY <2>1, <2>2, <2>3, <3>1 DEF IsEvidence, SwitchItems, EndItems
    <3>3. \A f \in SwitchItems \cup EndItems : evidence'[f] \in BOOLEAN
      BY <2>2, <2>3, <3>1, <3>2 DEF IsEvidence
    <3>4. /\ evidence'.name = evidence.name /\ evidence'.oui = evidence.oui
          /\ evidence'.descr = evidence.descr /\ evidence'.ssh = evidence.ssh
      BY <3>2 DEF NoEvidence
    <3>5. \A f \in IF evidence.name = "end" THEN SwitchItems ELSE EndItems : evidence'[f] = evidence[f]
      BY <2>2, <2>3, <3>2 DEF SwitchItems, EndItems
    <3> QED
      BY <2>1, <3>1, <3>3, <3>4, <3>5 DEF IsEvidence
  <2> QED
    BY <1>1, <2>4 DEF TypesInv, TypesNext
<1>2. CASE UNCHANGED typeVars
  BY <1>2 DEF typeVars, TypesInv
<1> QED
  BY <1>1, <1>2

-----------------------------------------------------------------------------
(* The types, as a state of the invariant has them. *)
LEMMA TypesAre ==
    /\ ScoredTypes = {"L2_SWITCH", "L3_SWITCH", "ROUTER", "IP_CAMERA", "WINDOWS_PC", "LINUX_PC", "MAC_PC",
                      "ACCESS_POINT", "HUB"}
    /\ \A t \in ScoredTypes : \A poe : Base(PoeVariant(t, poe)) = t
    /\ \A t \in ScoredTypes : \A poe : PoeVariant(t, poe) \in {t} \cup PoeTypes
<1>1. 1..9 = {1, 2, 3, 4, 5, 6, 7, 8, 9}
  OBVIOUS
<1>2. ScoredTypes = {"L2_SWITCH", "L3_SWITCH", "ROUTER", "IP_CAMERA", "WINDOWS_PC", "LINUX_PC", "MAC_PC",
                     "ACCESS_POINT", "HUB"}
  BY <1>1, ScoredNine DEF ScoredTypes, Scored
<1>3. ASSUME NEW t \in ScoredTypes, NEW poe
      PROVE  Base(PoeVariant(t, poe)) = t /\ PoeVariant(t, poe) \in {t} \cup PoeTypes
  BY <1>2 DEF Base, PoeVariant, L2Types, L3Types, PoeTypes
<1> QED
  BY <1>2, <1>3

LEMMA TypesTyped == TypesInv => TypesTypeOK
<1> SUFFICES ASSUME TypesInv PROVE TypesTypeOK
  OBVIOUS
<1> DEFINE s == Score(evidence)
           best == Scored[Best(s)]
<1>1. AreScores(s) /\ DOMAIN s = ScoredTypes /\ scores = s /\ verdict = Classified(evidence, s)
  BY ScoresAre DEF TypesInv
<1>2. best \in ScoredTypes /\ \A t \in ScoredTypes : s[t] \in Int
  BY <1>1, BestIsBest, ScoredNine DEF AreScores
<1>3. s["HUB"] = 0 /\ s["ACCESS_POINT"] <= 20
  BY DEF Score, Points
<1> HIDE DEF s, best
<1>4. s[best] >= ReviewFloor => best \notin {"ACCESS_POINT", "HUB"}
  BY <1>2, <1>3, TypesAre DEF ReviewFloor
<1>5. CASE verdict.method = "STRONG_SIGNATURE"
  <2>1. CASE evidence.onvif
    <3>1. verdict.type = "IP_CAMERA"
      BY <1>1, <2>1 DEF Classified
    <3> QED
      BY <1>1, <1>5, <3>1, TypesAre DEF TypesTypeOK
  <2>2. CASE ~evidence.onvif
    <3>1. verdict.type \in {"L2_SWITCH", "L3_SWITCH"} \cup PoeTypes
      BY <1>1, <1>5, <2>2 DEF Classified, PoeVariant, PoeTypes
    <3> QED
      BY <1>1, <1>5, <3>1, TypesAre DEF TypesTypeOK
  <2> QED
    BY <2>1, <2>2
<1>6. CASE verdict.method = "CONFIRMED"
  <2>1. verdict.type = PoeVariant(best, evidence.poe) /\ s[best] >= Threshold
    BY <1>1, <1>6, ClearIsConfirmed DEF best
  <2>2. verdict.type \in {best} \cup PoeTypes /\ best \notin {"ACCESS_POINT", "HUB"}
    BY <1>2, <1>3, <2>1, TypesAre DEF Threshold
  <2> QED
    BY <1>1, <1>2, <1>6, <2>2 DEF TypesTypeOK
<1>7. CASE verdict.method \notin {"STRONG_SIGNATURE", "CONFIRMED"}
  <2>1. verdict.type = IF s[best] >= ReviewFloor THEN best ELSE "UNKNOWN"
    BY <1>1, <1>7, ClearIsConfirmed DEF best
  <2>2. best \notin PoeTypes
    BY <1>2, TypesAre DEF PoeTypes
  <2> QED
    BY <1>1, <1>2, <1>4, <2>1, <2>2 DEF TypesTypeOK, PoeTypes
<1> QED
  BY <1>5, <1>6, <1>7

(* Of a device's evidence, what is clear is confirmed, and nothing else.        *)
LEMMA ConfirmedClear ==
    ASSUME NEW e, IsEvidence(e)
    PROVE  LET v == Classified(e, Score(e))
           IN  /\ v.method = "CONFIRMED" => Base(v.type) \in ScoredTypes /\ ~e.onvif
               /\ v.method # "STRONG_SIGNATURE" =>
                     \A t \in ScoredTypes : Clear(Score(e), t) <=> v.method = "CONFIRMED" /\ Base(v.type) = t
<1> DEFINE s == Score(e)
           v == Classified(e, s)
           best == Scored[Best(s)]
<1>1. AreScores(s)
  BY ScoresAre
<1>2. best \in ScoredTypes
  BY <1>1, BestIsBest, ScoredNine
<1> HIDE DEF s
<1>3. v.method # "STRONG_SIGNATURE" =>
         /\ \A t \in ScoredTypes : Clear(s, t) <=> v.method = "CONFIRMED" /\ best = t
         /\ v.method = "CONFIRMED" => v.type = PoeVariant(best, e.poe)
  BY <1>1, ClearIsConfirmed
<1>4. e.onvif => v.method = "STRONG_SIGNATURE"
  BY DEF Classified
<1> HIDE DEF best, v
<1>5. v.method = "CONFIRMED" => Base(v.type) = best
  BY <1>2, <1>3, TypesAre
<1> QED
  BY <1>2, <1>3, <1>4, <1>5 DEF v, s

LEMMA ConfirmedSound == TypesInv => ConfirmedIsSound
<1> SUFFICES ASSUME TypesInv PROVE Layer3IsNotConfirmedLayer2 /\ ConfirmedIsClear
  BY DEF ConfirmedIsSound
<1>1. scores = Score(evidence) /\ AreScores(scores) /\ DOMAIN scores = ScoredTypes
  BY ScoresAre DEF TypesInv
<1>2. /\ verdict.method = "CONFIRMED" => Base(verdict.type) \in ScoredTypes
      /\ verdict.method # "STRONG_SIGNATURE" =>
            \A t \in ScoredTypes : Clear(scores, t) <=> verdict.method = "CONFIRMED" /\ Base(verdict.type) = t
  BY <1>1, ConfirmedClear DEF TypesInv
<1>5. ConfirmedIsClear
  BY <1>1, <1>2 DEF ConfirmedIsClear, Clear
<1>3. Layer3IsNotConfirmedLayer2
  <2> SUFFICES ASSUME evidence.routes \/ evidence.svis, verdict.method = "CONFIRMED", verdict.type \in L2Types
               PROVE  FALSE
    BY DEF Layer3IsNotConfirmedLayer2
  <2>1. Base(verdict.type) = "L2_SWITCH"
    BY DEF Base
  <2>2. scores["L2_SWITCH"] >= Threshold
    BY <1>2, <2>1 DEF Clear
  <2>3. L2Score(evidence) < Threshold
    BY DEF L2Score, Points, Threshold
  <2>4. scores["L2_SWITCH"] = L2Score(evidence)
    BY <1>1 DEF Score
  <2>5. L2Score(evidence) \in Int
    BY DEF L2Score, Points, Threshold
  <2> QED
    BY <2>2, <2>3, <2>4, <2>5 DEF Threshold
<1> QED
  BY <1>3, <1>5

(* With an item more or less of a switch, neither an end device nor, directly,    *)
(* a router of a layer-2 switch is clear.                                        *)
LEMMA FamilyClear ==
    ASSUME NEW e, IsEvidence(e), NEW t \in ScoredTypes, Clear(Score(e), t)
    PROVE  /\ e.name = "end" => t \in {"IP_CAMERA", "WINDOWS_PC", "LINUX_PC", "MAC_PC"}
           /\ e.name # "end" => t \in {"L2_SWITCH", "L3_SWITCH", "ROUTER"}
<1>1. Score(e)[t] >= Threshold /\ \A u \in ScoredTypes : Score(e)[u] \in Int
  BY ScoresAre DEF Clear, AreScores
<1>2. CASE e.name = "end"
  <2>1. ~e.bridge /\ ~e.fdb /\ ~e.lldp /\ ~e.ports /\ ~e.forwards /\ ~e.routes /\ ~e.svis /\ ~e.vlans /\ ~e.wan
    BY <1>2 DEF IsEvidence, SwitchItems
  <2>2. L2Score(e) = 10 /\ L3Score(e) = 0 /\ RouterScore(e) = 10
    BY <2>1 DEF L2Score, L3Score, RouterScore, Points, Threshold
  <2>3. /\ Score(e)["L2_SWITCH"] = 10 /\ Score(e)["L3_SWITCH"] = 0 /\ Score(e)["ROUTER"] = 10
        /\ Score(e)["ACCESS_POINT"] <= 20 /\ Score(e)["HUB"] = 0
    BY <2>2 DEF Score, Points
  <2> QED
    BY <1>1, <1>2, <2>3, TypesAre DEF Threshold
<1>3. CASE e.name # "end"
  <2>1. ~e.onvif /\ ~e.rtsp /\ ~e.title /\ ~e.smb /\ e.oui = "other" /\ e.descr = "none" /\ e.ssh = "none"
    BY <1>3 DEF IsEvidence, EndItems
  <2>2. /\ Score(e)["IP_CAMERA"] = 0 /\ Score(e)["WINDOWS_PC"] <= 15 /\ Score(e)["LINUX_PC"] <= 15
        /\ Score(e)["MAC_PC"] <= 10 /\ Score(e)["ACCESS_POINT"] = 0 /\ Score(e)["HUB"] = 0
    BY <2>1 DEF Score, Points
  <2> QED
    BY <1>1, <1>3, <2>2, TypesAre DEF Threshold
<1> QED
  BY <1>2, <1>3

(* A layer-2 switch that is clear and a router that is differ in two items.       *)
LEMMA NoFlip ==
    ASSUME NEW e, IsEvidence(e), NEW g, IsEvidence(g), NEW item \in SwitchItems,
           \A f \in SwitchItems \ {item} : g[f] = e[f],
           Clear(Score(e), "L2_SWITCH"), Clear(Score(g), "ROUTER")
    PROVE  FALSE
<1>1. /\ L2Score(e) >= Threshold /\ RouterScore(g) >= Threshold /\ RouterScore(g) >= L2Score(g) + Margin
  <2>1. /\ Score(e)["L2_SWITCH"] >= Threshold /\ Score(g)["ROUTER"] >= Threshold
        /\ Score(g)["ROUTER"] >= Score(g)["L2_SWITCH"] + Margin
    BY TypesAre DEF Clear
  <2> QED
    BY <2>1 DEF Score
<1>2. /\ \A f \in {"bridge", "fdb", "lldp", "ports", "forwards", "routes", "svis", "wan"} : f # item => g[f] = e[f]
      /\ \A f \in {"bridge", "fdb", "lldp", "ports", "forwards", "routes", "svis", "wan"} : g[f] \in BOOLEAN /\ e[f] \in BOOLEAN
      /\ (e.wan => e.routes) /\ (g.wan => g.routes)
  BY DEF IsEvidence, SwitchItems
<1>3. /\ item # "bridge" => (g.bridge <=> e.bridge)
      /\ item # "fdb" => (g.fdb <=> e.fdb)
      /\ item # "lldp" => (g.lldp <=> e.lldp)
      /\ item # "ports" => (g.ports <=> e.ports)
      /\ item # "forwards" => (g.forwards <=> e.forwards)
      /\ item # "routes" => (g.routes <=> e.routes)
      /\ item # "svis" => (g.svis <=> e.svis)
      /\ item # "wan" => (g.wan <=> e.wan)
  BY <1>2
<1> QED
  BY <1>1, <1>2, <1>3 DEF L2Score, RouterScore, Points, Threshold, Margin

(* The same scores, with or without PoE. *)
LEMMA PoeVaries ==
    ASSUME NEW s, AreScores(s), NEW e, NEW g,
           g.onvif = e.onvif, g.bridge = e.bridge, g.fdb = e.fdb, g.name = e.name
    PROVE  Base(Classified(g, s).type) = Base(Classified(e, s).type) /\ Classified(g, s).method = Classified(e, s).method
<1> DEFINE best == Scored[Best(s)]
<1>1. best \in ScoredTypes
  BY BestIsBest, ScoredNine
<1>2. Base(PoeVariant(best, e.poe)) = Base(PoeVariant(best, g.poe))
  BY <1>1, TypesAre
<1> HIDE DEF best
<1> QED
  BY <1>2 DEF Classified, best

LEMMA VerdictStep ==
    ASSUME IsEvidence(evidence), IsEvidence(evidence'), NEW item \in SwitchItems \cup EndItems,
           evidence' = [evidence EXCEPT ![item] = ~@],
           item \in EndItems <=> evidence.name = "end"
    PROVE  LET v == Classified(evidence, Score(evidence))
               w == Classified(evidence', Score(evidence'))
           IN  /\ evidence.poe' # evidence.poe => Base(w.type) = Base(v.type) /\ w.method = v.method
               /\ v.method = "CONFIRMED" /\ w.method = "CONFIRMED" =>
                     Base(w.type) = Base(v.type) \/ "L3_SWITCH" \in {Base(v.type), Base(w.type)}
<1> DEFINE e == evidence
           g == evidence'
           v == Classified(e, Score(e))
           w == Classified(g, Score(g))
<1>1. \A f \in DOMAIN NoEvidence \ {item} : g[f] = e[f]
  BY DEF IsEvidence
<1>2. item \notin {"name", "oui", "descr", "ssh", "ttl"} /\ (item \in EndItems => item \notin SwitchItems)
  BY DEF SwitchItems, EndItems
<1>3. e.poe # g.poe => Base(w.type) = Base(v.type) /\ w.method = v.method
  <2> SUFFICES ASSUME item = "poe" PROVE Base(w.type) = Base(v.type) /\ w.method = v.method
    BY <1>1 DEF NoEvidence
  <2>1. Score(g) = Score(e)
    <3>1. /\ g.bridge = e.bridge /\ g.fdb = e.fdb /\ g.lldp = e.lldp /\ g.ports = e.ports /\ g.forwards = e.forwards
          /\ g.routes = e.routes /\ g.svis = e.svis /\ g.vlans = e.vlans /\ g.wan = e.wan
          /\ g.onvif = e.onvif /\ g.rtsp = e.rtsp /\ g.oui = e.oui /\ g.title = e.title /\ g.descr = e.descr
          /\ g.smb = e.smb /\ g.ssh = e.ssh /\ g.ttl = e.ttl
      BY <1>1 DEF NoEvidence
    <3>2. L2Score(g) = L2Score(e) /\ L3Score(g) = L3Score(e) /\ RouterScore(g) = RouterScore(e)
      BY <3>1 DEF L2Score, L3Score, RouterScore, Points
    <3> QED
      BY <3>1, <3>2 DEF Score
  <2>2. g.onvif = e.onvif /\ g.bridge = e.bridge /\ g.fdb = e.fdb /\ g.name = e.name
    BY <1>1 DEF NoEvidence
  <2>3. AreScores(Score(e))
    BY ScoresAre
  <2> HIDE DEF e, g
  <2>4. Base(Classified(g, Score(e)).type) = Base(Classified(e, Score(e)).type)
        /\ Classified(g, Score(e)).method = Classified(e, Score(e)).method
    BY <2>2, <2>3, PoeVaries
  <2> QED
    BY <2>1, <2>4
<1>4. ASSUME v.method = "CONFIRMED", w.method = "CONFIRMED",
             Base(v.type) # "L3_SWITCH", Base(w.type) # "L3_SWITCH"
      PROVE  Base(w.type) = Base(v.type)
  <2> DEFINE t == Base(v.type)
             u == Base(w.type)
  <2>1. t \in ScoredTypes /\ u \in ScoredTypes /\ Clear(Score(e), t) /\ Clear(Score(g), u) /\ ~e.onvif /\ ~g.onvif
    BY <1>4, ConfirmedClear
  <2> HIDE DEF t, u, v, w
  <2>2. g.name = e.name
    BY <1>1, <1>2 DEF NoEvidence
  <2>3. CASE e.name = "end"
    <3>1. t \in {"IP_CAMERA", "WINDOWS_PC", "LINUX_PC", "MAC_PC"} /\ u \in {"IP_CAMERA", "WINDOWS_PC", "LINUX_PC", "MAC_PC"}
      BY <2>1, <2>2, <2>3, FamilyClear
    <3>2. Score(e)["IP_CAMERA"] < Threshold /\ Score(e)["WINDOWS_PC"] < Threshold
      BY <2>1 DEF Score, Points, Threshold
    <3>3. Score(g)["IP_CAMERA"] < Threshold /\ Score(g)["WINDOWS_PC"] < Threshold
      BY <2>1 DEF Score, Points, Threshold
    <3>4. g.ssh = e.ssh /\ g.descr = e.descr /\ g.ttl = e.ttl /\ g.oui = e.oui
      BY <1>1, <1>2 DEF NoEvidence
    <3>5. Score(g)["LINUX_PC"] = Score(e)["LINUX_PC"] /\ Score(g)["MAC_PC"] = Score(e)["MAC_PC"]
      BY <3>4 DEF Score
    <3>6. \A x \in ScoredTypes : Score(e)[x] \in Int /\ Score(g)[x] \in Int
      BY ScoresAre DEF AreScores
    <3>7. t \in {"LINUX_PC", "MAC_PC"} /\ u \in {"LINUX_PC", "MAC_PC"}
      <4>1. Score(e)[t] >= Threshold /\ Score(g)[u] >= Threshold
        BY <2>1 DEF Clear
      <4> QED
        BY <3>1, <3>2, <3>3, <3>6, <4>1, TypesAre DEF Threshold
    <3>8. t = u
      <4> SUFFICES ASSUME t # u PROVE FALSE
        OBVIOUS
      <4>1. Score(e)[t] >= Score(e)[u] + Margin /\ Score(g)[u] >= Score(g)[t] + Margin
        BY <2>1 DEF Clear
      <4>2. Score(g)[t] = Score(e)[t] /\ Score(g)[u] = Score(e)[u]
        BY <3>5, <3>7
      <4> QED
        BY <2>1, <3>6, <4>1, <4>2 DEF Margin
    <3> QED
      BY <3>8 DEF t, u
  <2>4. CASE e.name # "end"
    <3>1. t \in {"L2_SWITCH", "ROUTER"} /\ u \in {"L2_SWITCH", "ROUTER"}
      BY <1>4, <2>1, <2>2, <2>4, FamilyClear DEF t, u
    <3>2. item \in SwitchItems /\ \A f \in SwitchItems \ {item} : g[f] = e[f] /\ e[f] = g[f]
      BY <1>1, <2>4 DEF SwitchItems, NoEvidence
    <3>3. ~(t = "L2_SWITCH" /\ u = "ROUTER")
      BY <2>1, <3>2, NoFlip
    <3>4. ~(t = "ROUTER" /\ u = "L2_SWITCH")
      BY <2>1, <3>2, NoFlip
    <3> QED
      BY <3>1, <3>3, <3>4 DEF t, u
  <2> QED
    BY <2>3, <2>4
<1> QED
  BY <1>3, <1>4

-----------------------------------------------------------------------------
(* Whatever evidence scans find: a device with routes or SVIs of its own is never  *)
(* confirmed as a layer-2 switch, and the type that is confirmed is the one whose  *)
(* score clears the threshold and the margin (classification/device_type.py).      *)
THEOREM TypesSound == TypesSpec => [](TypesTypeOK /\ ConfirmedIsSound)
<1>1. TypesInv => TypesTypeOK /\ ConfirmedIsSound
  BY TypesTyped, ConfirmedSound
<1> QED
  BY <1>1, TypesStart, TypesStep, PTL DEF TypesSpec

(* PoE changes the variant of a type only, and between two confirmed verdicts that *)
(* differ by one item the kind stays, except to or from a layer-3 switch.          *)
THEOREM VerdictStable == TypesSpec => VerdictIsStable
<1> DEFINE Same == evidence.poe' # evidence.poe =>
                     Base(verdict'.type) = Base(verdict.type) /\ verdict'.method = verdict.method
           Held == verdict.method = "CONFIRMED" /\ verdict'.method = "CONFIRMED" =>
                     Base(verdict'.type) = Base(verdict.type) \/ "L3_SWITCH" \in {Base(verdict.type), Base(verdict'.type)}
<1>1. TypesInv /\ TypesInv' /\ [TypesNext]_typeVars => [Same]_typeVars /\ [Held]_typeVars
  <2> SUFFICES ASSUME TypesInv, TypesInv', TypesNext PROVE Same /\ Held
    BY DEF typeVars
  <2>1. PICK item \in Items(evidence) : evidence' = [evidence EXCEPT ![item] = ~@]
    BY DEF TypesNext
  <2>2. item \in SwitchItems \cup EndItems /\ (item \in EndItems <=> evidence.name = "end")
    BY <2>1 DEF Items, SwitchItems, EndItems
  <2>3. /\ IsEvidence(evidence) /\ verdict = Classified(evidence, Score(evidence))
        /\ IsEvidence(evidence') /\ verdict' = Classified(evidence', Score(evidence'))
    BY DEF TypesInv
  <2> QED
    BY <2>1, <2>2, <2>3, VerdictStep
<1>2. TypesSpec => [][Same]_typeVars /\ [][Held]_typeVars
  BY <1>1, TypesStart, TypesStep, PTL DEF TypesSpec
<1> QED
  BY <1>2, PTL DEF VerdictIsStable, PoeOnlyVaries, OneItemDoesNotFlip
=============================================================================
