------------------------------ MODULE DeviceScan ------------------------------
(* The scan of one host (_process_host, discovery/engine.py): the device is      *)
(* identified and its row committed, then batch after batch of what SNMP answers *)
(* is stored, each committed before the next await, and at the end the device is *)
(* classified. Other workers scan other addresses, perhaps of the same device,   *)
(* an operator has the stored devices reclassified (classification/reclassify.py),*)
(* and a scan may be broken off. A walk that goes unanswered yields nothing; a   *)
(* host that does not answer SNMP at all is taken for an end device.             *)
EXTENDS Identity, DeviceType, FiniteSets

CONSTANTS
    Machines,       \* what answers at each address
    Plans,          \* sequences of runs: the profile of each, the addresses it scans and their depth
    Crew,           \* the workers of the pool
    MaxLosses, MaxBreaks, MaxReclassify   \* bounds on lost walks, scans broken off, reclassifications

ASSUME ScanAssumption ==
    /\ Plans \subseteq Seq([profile : {"LIGHT", "STANDARD", "DETAILED"}, addrs : SUBSET DOMAIN Machines,
                           depth : Nat])
    /\ MaxLosses \in Nat /\ MaxBreaks \in Nat /\ MaxReclassify \in Nat

VARIABLES
    plan,       \* the runs to come; the first is the one under way
    devices,    \* network_device, what identifies a device
    facts,      \* by device: the rest of its row, and the tables of what it was seen to have
    jobs,       \* what each worker is doing
    spare       \* what the bounds leave

scanVars == <<plan, devices, facts, jobs, spare>>

Resting == [at |-> "rest", addr |-> None, row |-> 0, seen |-> NoEvidence]

(* A new device. machines and torn are history: the machines that were taken for *)
(* it, and that a scan was broken off between storing its PoE ports and typing.  *)
NewFacts ==
    [ports |-> FALSE, lldp |-> FALSE, fdb |-> FALSE, routes |-> FALSE, svis |-> FALSE, wan |-> FALSE,
     vlans |-> FALSE, poePorts |-> FALSE, poe |-> FALSE, layer2 |-> FALSE, layer3 |-> FALSE,
     name |-> "other", type |-> "UNKNOWN", method |-> None, machines |-> {}, torn |-> FALSE]

ScanInit ==
    /\ plan \in Plans
    /\ devices = {} /\ facts = <<>>
    /\ jobs = [w \in Crew |-> Resting]
    /\ spare = [losses |-> MaxLosses, breaks |-> MaxBreaks, reclassify |-> MaxReclassify]

(* The profiles: which tables a run collects. Whether a device bridges and       *)
(* forwards is asked by each of them.                                            *)
Narrow == {"ports", "lldp", "fdb", "poe"}
Wide == Narrow \cup {"routes", "svis", "vlans"}
Collected == CASE plan[1].profile = "LIGHT" -> {} [] plan[1].profile = "STANDARD" -> Narrow [] OTHER -> Wide
Asked == Collected \cup {"bridge", "forwards"}

(* One batch: what a device is seen to have, of the tables that are collected,   *)
(* when the walks of gone go unanswered. SVIs show in the address table and,     *)
(* where there are routes, in these.                                             *)
Saw(seen, real, tables, gone) ==
    LET answered(t) == real[t] /\ t \in Asked \ gone
    IN  [t \in DOMAIN seen |->
            CASE t \in tables \ {"svis"} -> answered(t)
              [] t = "svis" /\ t \in tables -> answered(t) \/ (real.svis /\ answered("routes"))
              [] t = "wan" /\ "routes" \in tables -> real.wan /\ answered("routes")
              [] OTHER -> seen[t]]

Losable(tables) == {gone \in SUBSET (tables \cap Asked) : Cardinality(gone) <= spare.losses}
Lose(gone) == spare' = [spare EXCEPT !.losses = @ - Cardinality(gone)]

-----------------------------------------------------------------------------
(* A worker takes an address of the run. *)
Take(w) ==
    /\ jobs[w].at = "rest" /\ plan # <<>>
    /\ \E a \in plan[1].addrs :
         /\ jobs' = [jobs EXCEPT ![w] = [Resting EXCEPT !.at = "identify", !.addr = a]]
         /\ plan' = [plan EXCEPT ![1].addrs = @ \ {a}]
    /\ UNCHANGED <<devices, facts, spare>>

NextRun ==
    /\ plan # <<>> /\ plan[1].addrs = {} /\ \A w \in Crew : jobs[w].at = "rest"
    /\ plan' = Tail(plan)
    /\ UNCHANGED <<devices, facts, jobs, spare>>

(* resolve_or_create_device and the commit, in one go: the worker goes on with   *)
(* the device the observation ended in.                                          *)
Identified(w, o, at, seen, name) ==
    \E found \in Resolved(devices, o) :
        LET id == found[2].id
            old == IF id \in DOMAIN facts THEN facts[id] ELSE NewFacts
            new == [old EXCEPT !.machines = @ \cup {Machines[jobs[w].addr].number},
                               !.name = IF name = "other" THEN @ ELSE name]
        IN  /\ devices' = found[1]
            /\ facts' = [i \in DOMAIN facts \cup {id} |-> IF i = id THEN new ELSE facts[i]]
            /\ jobs' = [jobs EXCEPT ![w] = [@ EXCEPT !.at = at, !.row = id, !.seen = seen]]

(* The host answers SNMP: its interfaces give the MAC address, LLDP its chassis. *)
Identify(w) ==
    LET m == Machines[jobs[w].addr] IN
    /\ jobs[w].at = "identify" /\ m.snmp
    /\ \E gone \in Losable({"ports", "lldp"}) :
         LET seen == Saw(NoEvidence, m.has, {"ports"}, gone)
             o == [chassis |-> IF "lldp" \in Asked \ gone THEN m.chassis ELSE None,
                   mac |-> IF seen.ports THEN m.mac ELSE None,
                   model |-> m.model, ip |-> jobs[w].addr, depth |-> plan[1].depth]
         IN  Identified(w, o, "ports", seen, m.has.name) /\ Lose(gone)
    /\ UNCHANGED plan

(* It does not, or its answer is lost: only its address is known. *)
IdentifySilent(w) ==
    LET m == Machines[jobs[w].addr] IN
    /\ jobs[w].at = "identify"
    /\ \/ ~m.snmp /\ Lose({})
       \/ m.snmp /\ spare.losses > 0 /\ Lose({"snmp"})
    /\ Identified(w, [chassis |-> None, mac |-> None, model |-> None, ip |-> jobs[w].addr, depth |-> plan[1].depth],
                  "probe", NoEvidence, "other")
    /\ UNCHANGED plan

(* The batches: the interfaces, the neighbours, the FDB, the routes. Neighbours  *)
(* and FDB entries are added, routes replace the stored ones.                    *)
SeenWithout(w, tables, gone) == Saw(jobs[w].seen, Machines[jobs[w].addr].has, tables, gone)
Store(w, new, next, seen) ==
    /\ facts' = [facts EXCEPT ![jobs[w].row] = new]
    /\ jobs' = [jobs EXCEPT ![w] = [@ EXCEPT !.at = next, !.seen = seen]]
    /\ UNCHANGED <<plan, devices>>

Fact(w) == facts[jobs[w].row]
StorePorts(w) ==
    /\ jobs[w].at = "ports"
    /\ \E gone \in Losable({"vlans"}) :
         LET seen == SeenWithout(w, {"vlans"}, gone) IN
         Lose(gone) /\ Store(w, [Fact(w) EXCEPT !.ports = @ \/ seen.ports], "neighbours", seen)
StoreNeighbours(w) ==
    /\ jobs[w].at = "neighbours"
    /\ \E gone \in Losable({"forwards", "bridge", "lldp"}) :
         LET seen == SeenWithout(w, {"forwards", "bridge", "lldp"}, gone) IN
         Lose(gone) /\ Store(w, [Fact(w) EXCEPT !.lldp = @ \/ seen.lldp], "fdb", seen)
StoreFdb(w) ==
    /\ jobs[w].at = "fdb"
    /\ \E gone \in Losable({"fdb"}) :
         LET seen == SeenWithout(w, {"fdb"}, gone) IN
         Lose(gone) /\ Store(w, [Fact(w) EXCEPT !.fdb = @ \/ seen.fdb], "routes", seen)

(* The SVIs that the stored routes show, by the interfaces they lead through, which *)
(* are known if the interface walk was answered: the route of the loopback, which *)
(* the scan leaves out, counts there too.                                        *)
StoredSvis(seen, loopback) == seen.routes /\ seen.ports /\ (seen.svis \/ loopback)
\* mutant: the routes are replaced whether they were collected or not
RoutesStoredAlways(f, seen, loopback) ==
    [f EXCEPT !.routes = seen.routes, !.wan = seen.wan, !.svis = StoredSvis(seen, loopback)]
RoutesStored(f, seen, loopback) ==
    IF "routes" \notin Collected THEN f
    ELSE [f EXCEPT !.routes = seen.routes, !.wan = seen.wan, !.svis = StoredSvis(seen, loopback)]
StoreRoutes(w) ==
    /\ jobs[w].at = "routes"
    /\ \E gone \in Losable({"routes", "svis"}) :
         LET seen == SeenWithout(w, {"routes", "svis"}, gone) IN
         Lose(gone) /\ Store(w, RoutesStored(Fact(w), seen, Machines[jobs[w].addr].loopback), "poe", seen)

(* PoE ports replace the stored ones; only those of a known interface are kept. *)
PoeStored(f, seen) == IF "poe" \notin Collected THEN f ELSE [f EXCEPT !.poePorts = seen.poe /\ seen.ports]

(* What the scan saw, with what the host tells without SNMP's tables: its TTL, its  *)
(* description, the vendor of its MAC address and, if it does not bridge, its     *)
(* services. PoE is what was seen, if it was collected, or what is stored.        *)
Evidence(f, seen, p) ==
    [seen EXCEPT !.name = f.name, !.poe = IF "poe" \in Collected THEN @ ELSE f.poe,
                 !.ttl = p.ttl, !.descr = p.descr, !.oui = IF seen.ports THEN p.oui ELSE @,
                 !.onvif = ~seen.bridge /\ p.onvif, !.rtsp = ~seen.bridge /\ p.rtsp,
                 !.title = ~seen.bridge /\ p.title, !.smb = ~seen.bridge /\ p.smb,
                 !.ssh = IF seen.bridge THEN @ ELSE p.ssh]
Probes(w) == Machines[jobs[w].addr].probes

(* The type as it is stored; the PoE ports go when it says that there are none.   *)
\* mutant: PoE ports that the type rules out stay
WithPoeKept(f, type) == [f EXCEPT !.poe = type \in PoeTypes]
WithPoe(f, type) == [f EXCEPT !.poe = type \in PoeTypes, !.poePorts = @ /\ type \in PoeTypes]
Typed(f, e, c) ==
    LET known == [f EXCEPT !.type = c.type, !.method = c.method, !.layer2 = e.bridge,
                           !.layer3 = e.forwards \/ e.svis \/ c.type \in L3Types \cup {"ROUTER"},
                           !.vlans = IF "vlans" \in Collected THEN e.vlans ELSE @,
                           !.torn = @ /\ "poe" \notin Collected]
    IN  IF "poe" \in Collected THEN WithPoe(known, c.type) ELSE known

Finish(w, f) ==
    /\ facts' = [facts EXCEPT ![jobs[w].row] = f]
    /\ jobs' = [jobs EXCEPT ![w] = Resting]
    /\ UNCHANGED <<plan, devices>>

(* The PoE batch. A device that bridges is not probed: no await separates the     *)
(* batch from the classification. Another is probed first.                       *)
StorePoe(w) ==
    /\ jobs[w].at = "poe"
    /\ \E gone \in Losable({"poe"}) :
         LET seen == SeenWithout(w, {"poe"}, gone)
             stored == PoeStored(Fact(w), seen)
         IN  /\ Lose(gone)
             /\ IF seen.bridge
                THEN \E e \in {Evidence(stored, seen, Probes(w))} : Finish(w, Typed(stored, e, Classified(e, Score(e))))
                ELSE /\ facts' = [facts EXCEPT ![jobs[w].row] = stored]
                     /\ jobs' = [jobs EXCEPT ![w] = [@ EXCEPT !.at = "type", !.seen = seen]]
                     /\ UNCHANGED <<plan, devices>>
Classify(w) ==
    /\ jobs[w].at = "type"
    /\ \E e \in {Evidence(Fact(w), jobs[w].seen, Probes(w))} : Finish(w, Typed(Fact(w), e, Classified(e, Score(e))))
    /\ UNCHANGED spare

(* A host without SNMP is classified by its probes and its stored name. *)
Probe(w) ==
    LET e == [Probes(w) EXCEPT !.name = Fact(w).name]
        c == Classified(e, Score(e))
    IN  /\ jobs[w].at = "probe"
        /\ Finish(w, [Fact(w) EXCEPT !.type = c.type, !.method = c.method])
        /\ UNCHANGED spare

(* A scan is cancelled at an await, or a commit fails, the last one too, which    *)
(* follows the classification; what it has committed stays. A crash, when a      *)
(* worker has stored its PoE batch, ends all of them.                            *)
Torn(w) ==
    IF jobs[w].at = "type" THEN [Fact(w) EXCEPT !.torn = TRUE]
    ELSE [PoeStored(Fact(w), SeenWithout(w, {"poe"}, {})) EXCEPT !.torn = TRUE]
BreakOff(w) ==
    /\ spare.breaks > 0 /\ jobs[w].at # "rest"
    /\ spare' = [spare EXCEPT !.breaks = @ - 1]
    /\ jobs' = [jobs EXCEPT ![w] = Resting]
    /\ \/ jobs[w].at # "type" /\ facts' = facts
       \/ jobs[w].at \in {"poe", "type"} /\ facts' = [facts EXCEPT ![jobs[w].row] = Torn(w)]
    /\ UNCHANGED <<plan, devices>>
Crash(w) ==
    /\ spare.breaks > 0 /\ jobs[w].at = "poe"
    /\ spare' = [spare EXCEPT !.breaks = @ - 1]
    /\ jobs' = [v \in Crew |-> Resting]
    /\ LET between(i) == \E v \in Crew : jobs[v].at = "type" /\ jobs[v].row = i
           left(i) == IF i = jobs[w].row THEN Torn(w) ELSE facts[i]
       IN  facts' = [i \in DOMAIN facts |-> IF between(i) THEN [left(i) EXCEPT !.torn = TRUE] ELSE left(i)]
    /\ plan' = Tail(plan)
    /\ UNCHANGED devices

(* reclassify_device_from_stored_evidence: from the tables as they are stored;   *)
(* what the probes said is not.                                                  *)
StoredEvidence(f) ==
    [NoEvidence EXCEPT !.bridge = f.layer2, !.fdb = f.fdb, !.lldp = f.lldp, !.ports = f.ports,
                       !.forwards = f.layer3, !.routes = f.routes, !.svis = f.svis, !.vlans = f.vlans,
                       !.wan = f.wan, !.poe = f.poe, !.name = f.name]
\* mutant: whether a device routes is taken from its type
ReclassifiedLayer3(f) ==
    LET e == StoredEvidence(f)
        c == Classified(e, Score(e))
    IN  WithPoe([f EXCEPT !.type = c.type, !.method = c.method, !.torn = FALSE, !.layer3 = c.type \in L3Types], c.type)
Reclassified(f) ==
    LET e == StoredEvidence(f)
        c == Classified(e, Score(e))
    IN  WithPoe([f EXCEPT !.type = c.type, !.method = c.method, !.torn = FALSE], c.type)
Reclassify ==
    /\ spare.reclassify > 0 /\ devices # {}
    /\ spare' = [spare EXCEPT !.reclassify = @ - 1]
    /\ facts' = [i \in DOMAIN facts |-> Reclassified(facts[i])]
    /\ UNCHANGED <<plan, devices, jobs>>

ScanNext ==
    \/ \E w \in Crew : \/ Take(w) \/ Identify(w) \/ IdentifySilent(w) \/ StorePorts(w) \/ StoreNeighbours(w)
                       \/ StoreFdb(w) \/ StoreRoutes(w) \/ StorePoe(w) \/ Classify(w) \/ Probe(w)
                       \/ BreakOff(w) \/ Crash(w)
    \/ NextRun \/ Reclassify

ScanSpec == ScanInit /\ [][ScanNext]_scanVars

-----------------------------------------------------------------------------
(* Type: a device has its facts, and a worker holds a stored device. *)
ScanTypeOK ==
    /\ DOMAIN facts = {d.id : d \in devices}
    /\ \A d, e \in devices : d.id = e.id => d = e
    /\ \A w \in Crew : jobs[w].at \notin {"rest", "identify"} => jobs[w].row \in DOMAIN facts
    /\ \A i \in DOMAIN facts : facts[i].method \in {None, "STRONG_SIGNATURE", "CONFIRMED", "REVIEW_REQUIRED"}
    /\ spare.losses \in 0..MaxLosses /\ spare.breaks \in 0..MaxBreaks /\ spare.reclassify \in 0..MaxReclassify

(* Two workers that scan two addresses of one device at the same time, or a scan *)
(* that missed the chassis before one that did not, never end in two rows with   *)
(* the same chassis.                                                             *)
OneRowPerChassis == \A d, e \in devices : d.chassis # None /\ d.chassis = e.chassis => d.id = e.id

(* A row stands for one machine: no scan is stored over another machine's row.   *)
(* (identity.py:4-5 counts a model only together with the MAC address.)          *)
HostsApart == \A i \in DOMAIN facts : Cardinality(facts[i].machines) = 1

(* When that holds: no two machines answer with one chassis or with one MAC       *)
(* address, and one that answers with its MAC has a model of its own.            *)
MachinesApart ==
    \A a, b \in DOMAIN Machines :
        LET m == Machines[a]  n == Machines[b] IN
        m.number # n.number =>
            /\ m.chassis = None \/ m.chassis # n.chassis
            /\ m.mac = None \/ m.mac # n.mac
            /\ m.mac = None \/ m.model = None \/ m.model # n.model

(* PoE ports are offered for control only on a device that is known to feed PoE, *)
(* except while a scan is between its PoE batch and its classification, or after *)
(* one was broken off there.                                                     *)
PoeSettled ==
    \A i \in DOMAIN facts :
        facts[i].poePorts => \/ facts[i].poe \/ facts[i].torn
                             \/ \E w \in Crew : jobs[w].at = "type" /\ jobs[w].row = i

(* Reclassifying twice is reclassifying once, and heals what a broken scan left. *)
ReclassifySettles ==
    \A i \in DOMAIN facts :
        LET f == Reclassified(facts[i]) IN Reclassified(f) = f /\ (f.poePorts => f.poe)

(* What a scan does to a device's depth: it becomes that of the run under way, and *)
(* only when that is smaller, or when zero is stored, which counts as not set.    *)
DepthMoves ==
    [][\A d \in devices, e \in devices' :
         d.id = e.id /\ e.depth # d.depth =>
            /\ plan # <<>> /\ e.depth = plan[1].depth
            /\ d.depth = 0 \/ e.depth < d.depth]_scanVars

(* A run that does not collect routes and VLANs leaves those of the runs before. *)
KeptByNarrowScan ==
    [][plan # <<>> /\ plan[1].profile \in {"LIGHT", "STANDARD"} =>
         \A i \in DOMAIN facts : /\ facts'[i].routes = facts[i].routes /\ facts'[i].vlans = facts[i].vlans
                                 /\ plan[1].profile = "LIGHT" => facts'[i].fdb = facts[i].fdb]_scanVars

(* Rows and machines correspond, in parts: no machine of two rows by its        *)
(* chassis, no row of two machines.                                             *)
RowsAreMachines == OneRowPerChassis /\ HostsApart

(* What is stored of PoE and of types comes to agree, in parts. *)
StoredTypesSettle == PoeSettled /\ ReclassifySettles

(* A scan with a narrower profile takes nothing back of what is stored, and one   *)
(* from farther away nothing of a depth other than zero, in parts.               *)
NothingTakenBack == DepthMoves /\ KeptByNarrowScan
=============================================================================
