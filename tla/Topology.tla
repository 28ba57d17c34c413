------------------------------ MODULE Topology ------------------------------
(* recompute_topology_and_roles up to the roles: the passes that turn the      *)
(* neighbour rows of the devices into links, age the links and mark the        *)
(* direction of each port, between scans that add devices and rows. LinkRows   *)
(* says what one observation does to the links of a pair, Identity what it     *)
(* does to the devices.                                                        *)
EXTENDS LinkRows, Identity, FiniteSets

CONSTANTS Hosts,      \* what a scan of each host stores: its observation, ports and rows
          Servers     \* addresses that may be configured as excluded

ASSUME TopologyAssumption == \A h \in Hosts : h.self.depth \in Nat

VARIABLES devices, neighbors, topoLinks, dirs, excluded,
          phase,      \* the pass of the recomputation that is running
          todo,       \* the rows it has not looked at yet
          calm        \* recomputations since the last scan, change or ageing

topoVars == <<devices, neighbors, topoLinks, dirs, excluded, phase, todo, calm>>

(* Type: what is stored of a device goes with the device. *)
TopologyTypeOK ==
  /\ \A d \in devices : d.id \in Nat \ {0} /\ d.depth \in Nat
  /\ \A r \in neighbors : \E d \in devices : d.id = r.local
  /\ \A l \in topoLinks : \A i \in {l.a, l.b} : l.a < l.b /\ \E d \in devices : d.id = i
  /\ phase \in {"idle", "neighbours", "fdb", "arp", "prune", "liveness", "directions"}
  /\ calm \in 0..2

TopologyInit == /\ devices = {} /\ neighbors = {} /\ topoLinks = {} /\ dirs = {}
                /\ excluded = {} /\ phase = "idle" /\ todo = {} /\ calm = 0

Excludes(d) == d.ip \in excluded

-----------------------------------------------------------------------------
(* Every flush writes the statuses that ageing left in the session; the later  *)
(* passes filter by the written ones (shown).                                  *)
Flushed(L) == {[l EXCEPT !.shown = l.status] : l \in L}

(* The two ends of an observed link, the device with the smaller id first. *)
Sighting(local, lport, remote, rport, evidence) ==
  IF local < remote
  THEN [a |-> local, b |-> remote, src |-> lport, dst |-> rport, source |-> evidence]
  ELSE [a |-> remote, b |-> local, src |-> rport, dst |-> lport, source |-> evidence]

NewLink(i, o) == [id |-> i, a |-> o.a, b |-> o.b, src |-> o.src, dst |-> o.dst,
                  source |-> o.source, conf |-> Confidence[o.source],
                  age |-> 0, status |-> "UP", shown |-> "UP"]

\* mutant: a link that is there already is left as it is
LinkedOnce(L, o) ==
  IF \E l \in L : l.a = o.a /\ l.b = o.b /\ Compatible(l, o) THEN L
  ELSE Flushed(L \cup {NewLink(NextId(L), o)})

(* _get_or_create_link among the links of all pairs. *)
Linked(L, o) ==
  LET M == {l \in L : l.a = o.a /\ l.b = o.b /\ Compatible(l, o)}
      joined == (L \ M) \cup {Merged(M, o)}
  IN  IF M = {} THEN Flushed(L \cup {NewLink(NextId(L), o)})
      ELSE IF Cardinality(M) = 1 THEN joined ELSE Flushed(joined)

\* mutant: the links of a deleted device stay
CascadeRows(D) ==
  /\ devices' = D
  /\ neighbors' = {r \in neighbors : \E d \in D : d.id = r.local}
  /\ dirs' = {m \in dirs : \E d \in D : d.id = m[1]}
  /\ topoLinks' = topoLinks

(* Rows are deleted with their device, links with either of theirs. *)
Cascade(D) ==
  /\ devices' = D
  /\ dirs' = {m \in dirs : \E d \in D : d.id = m[1]}
  /\ neighbors' = {r \in neighbors : \E d \in D : d.id = r.local}
  /\ topoLinks' = {l \in topoLinks : \A i \in {l.a, l.b} : \E d \in D : d.id = i}

(* A recomputation starts: devices that are the server itself go first. *)
Begin ==
  /\ phase = "idle" /\ devices # {}
  /\ Cascade({d \in devices : ~ Excludes(d)})
  /\ phase' = "neighbours"
  /\ todo' = {r \in neighbors' : r.kind \in {"LLDP", "STP"}}
  /\ UNCHANGED <<excluded, calm>>

(* infer_lldp_links: the neighbour by its chassis id, else by its address. *)
Remote(r) ==
  LET byChassis == {d \in devices : r.key # None /\ d.chassis = r.key}
  IN  IF byChassis # {} THEN byChassis
      ELSE {d \in devices : r.ip # None /\ d.ip = r.ip}

RemotePort(d, r) == IF r.rport \in d.ports THEN r.rport ELSE NoPort

(* The rows of a device come before those of a younger one, its LLDP rows      *)
(* before the STP ports.                                                       *)
Precedes(r, s) == r.local < s.local \/ (r.local = s.local /\ r.kind = "LLDP" /\ s.kind = "STP")
Turn(r) == r \in todo /\ ~ \E s \in todo : Precedes(s, r)

Lldp(r) ==
  /\ phase = "neighbours" /\ Turn(r) /\ r.kind = "LLDP"
  /\ \/ /\ Remote(r) = {} \/ \E d \in Remote(r) : d.id = r.local
        /\ topoLinks' = topoLinks
     \/ \E d \in Remote(r) :
          /\ d.id # r.local
          /\ topoLinks' = Linked(topoLinks, Sighting(r.local, r.port, d.id, RemotePort(d, r), "LLDP"))
  /\ todo' = todo \ {r}
  /\ UNCHANGED <<devices, neighbors, dirs, excluded, phase, calm>>

(* infer_stp_designated_bridge_links: the bridge by MAC or chassis, no port. *)
Stp(r) ==
  LET bridges == {d \in devices : d.mac = r.key \/ d.chassis = r.key}
      own == \E d \in devices : d.id = r.local /\ d.mac = r.key
  IN  /\ phase = "neighbours" /\ Turn(r) /\ r.kind = "STP"
      /\ \/ /\ own \/ bridges = {} \/ \E d \in bridges : d.id = r.local
            /\ topoLinks' = topoLinks
         \/ \E d \in bridges :
              /\ ~ own /\ d.id # r.local
              /\ topoLinks' = Linked(topoLinks, Sighting(r.local, r.port, d.id, NoPort, "STP"))
      /\ todo' = todo \ {r}
      /\ UNCHANGED <<devices, neighbors, dirs, excluded, phase, calm>>

(* A pass ends when it has looked at all of its rows. *)
NextPass(from, to, kinds) ==
  /\ phase = from /\ todo = {}
  /\ phase' = to
  /\ todo' = {r \in neighbors : r.kind \in kinds}
  /\ UNCHANGED <<devices, neighbors, topoLinks, dirs, excluded, calm>>

ArpOf(mac) == {r \in neighbors : r.kind = "ARP" /\ r.key = mac}

(* A device known by MAC and address only; its depth defaults to 0. *)
Bare(mac, ip) == [chassis |-> None, mac |-> mac, model |-> None, ip |-> ip, depth |-> 0]

(* The row r has led to device d, leaving the devices D and the links L. *)
Attach(D, L, r, d, evidence) ==
  /\ devices' = D
  /\ topoLinks' = IF d.id = r.local \/ Excludes(d) THEN L
                  ELSE Linked(L, Sighting(r.local, r.port, d.id, NoPort, evidence))

\* mutant: an excluded address makes a device like any other
FdbAny(r) ==
  LET known == {d \in devices : d.mac = r.key}
      arps == ArpOf(r.key)
  IN  /\ phase = "fdb" /\ r \in todo
      /\ \/ \E d \in known : Attach(devices, topoLinks, r, d, IF arps = {} THEN "FDB" ELSE "FDB_ARP")
         \/ \E s \in arps : \E found \in Resolved(devices, Bare(r.key, s.ip)) :
              known = {} /\ Attach(found[1], Flushed(topoLinks), r, found[2], "FDB_ARP")
         \/ known = {} /\ arps = {} /\ UNCHANGED <<devices, topoLinks>>
      /\ todo' = todo \ {r}
      /\ UNCHANGED <<neighbors, dirs, excluded, phase, calm>>

(* correlate_fdb_arp_endpoints: the device with the MAC address, or the one    *)
(* the first ARP row of that MAC leads to; none if there is no such row or it  *)
(* has an excluded address.                                                    *)
Fdb(r) ==
  LET known == {d \in devices : d.mac = r.key}
      arps == ArpOf(r.key)
  IN  /\ phase = "fdb" /\ r \in todo
      /\ \/ \E d \in known : Attach(devices, topoLinks, r, d, IF arps = {} THEN "FDB" ELSE "FDB_ARP")
         \/ \E s \in arps : \E found \in Resolved(devices, Bare(r.key, s.ip)) :
              /\ known = {} /\ s.ip \notin excluded
              /\ Attach(found[1], Flushed(topoLinks), r, found[2], "FDB_ARP")
         \/ /\ known = {} /\ (arps = {} \/ \E s \in arps : s.ip \in excluded)
            /\ UNCHANGED <<devices, topoLinks>>
      /\ todo' = todo \ {r}
      /\ UNCHANGED <<neighbors, dirs, excluded, phase, calm>>

AlreadyLinked(i, j) == \E l \in topoLinks : {l.a, l.b} = {i, j}

(* infer_arp_only_links: only pairs without any link. *)
ArpOnly(r) ==
  LET known == {d \in devices : d.mac = r.key}
  IN  /\ phase = "arp" /\ r \in todo
      /\ \/ r.ip \in excluded /\ UNCHANGED <<devices, topoLinks>>
         \/ \E d \in known :
              /\ r.ip \notin excluded
              /\ IF AlreadyLinked(r.local, d.id) THEN UNCHANGED <<devices, topoLinks>>
                 ELSE Attach(devices, topoLinks, r, d, "ARP")
         \/ \E found \in Resolved(devices, Bare(r.key, r.ip)) :
              /\ r.ip \notin excluded /\ known = {}
              /\ IF AlreadyLinked(r.local, found[2].id)
                 THEN devices' = found[1] /\ topoLinks' = Flushed(topoLinks)
                 ELSE Attach(found[1], Flushed(topoLinks), r, found[2], "ARP")
      /\ todo' = todo \ {r}
      /\ UNCHANGED <<neighbors, dirs, excluded, phase, calm>>

(* prune_self_referential_links, then update_link_liveness. *)
PruneLinks ==
  LET kept == {l \in topoLinks : ~ \E d \in devices : d.id \in {l.a, l.b} /\ Excludes(d)}
  IN  /\ phase = "prune"
      /\ topoLinks' = IF kept = topoLinks THEN kept ELSE Flushed(kept)
      /\ phase' = "liveness"
      /\ UNCHANGED <<devices, neighbors, dirs, excluded, todo, calm>>

AgeLinks ==
  /\ phase = "liveness"
  /\ topoLinks' = {[l EXCEPT !.status = StatusOf(l.age)] : l \in topoLinks}
  /\ phase' = "directions"
  /\ UNCHANGED <<devices, neighbors, dirs, excluded, todo, calm>>

DepthOf(i) == (CHOOSE d \in devices : d.id = i).depth

(* The direction marks that the links L call for: towards the smaller depth is *)
(* up, towards the larger down, none between equals.                           *)
Directions(L) ==
  LET marks(l) == {<<l.a, l.src, IF DepthOf(l.a) < DepthOf(l.b) THEN "down" ELSE "up">>,
                   <<l.b, l.dst, IF DepthOf(l.a) < DepthOf(l.b) THEN "up" ELSE "down">>}
  IN  {m \in UNION {marks(l) : l \in {k \in L : DepthOf(k.a) # DepthOf(k.b)}} : m[2] # NoPort}

\* mutant: the marks of the last time are not cleared
PublishAdds ==
  /\ phase = "directions"
  /\ dirs' = dirs \cup Directions({l \in topoLinks : l.shown # "DOWN"})
  /\ topoLinks' = Flushed(topoLinks)
  /\ phase' = "idle"
  /\ calm' = IF calm < 2 THEN calm + 1 ELSE 2
  /\ UNCHANGED <<devices, neighbors, excluded, todo>>

(* compute_interface_link_directions from the statuses that are written, and   *)
(* the commit.                                                                 *)
Publish ==
  /\ phase = "directions"
  /\ dirs' = Directions({l \in topoLinks : l.shown # "DOWN"})
  /\ topoLinks' = Flushed(topoLinks)
  /\ phase' = "idle"
  /\ calm' = IF calm < 2 THEN calm + 1 ELSE 2
  /\ UNCHANGED <<devices, neighbors, excluded, todo>>

-----------------------------------------------------------------------------
(* Between recomputations. *)

(* What a host says of a neighbour, as a row of the device with that id. *)
RowOf(r, i) == [f \in DOMAIN r \cup {"local"} |-> IF f = "local" THEN i ELSE r[f]]

(* A scan skips excluded addresses, stores what the host says of itself and    *)
(* its neighbour rows, and never deletes rows.                                 *)
Scan(h) ==
  /\ phase = "idle" /\ h.self.ip \notin excluded
  /\ \E found \in Resolved(devices, h.self) :
       LET d == [found[2] EXCEPT !.ports = @ \cup h.ports]
       IN  /\ devices' = (found[1] \ {found[2]}) \cup {d}
           /\ neighbors' = neighbors \cup {RowOf(r, d.id) : r \in h.rows}
  /\ calm' = 0
  /\ UNCHANGED <<topoLinks, dirs, excluded, phase, todo>>

(* The server restarts with another excluded address. *)
Exclude(ip) == /\ phase = "idle" /\ ip \notin excluded
               /\ excluded' = excluded \cup {ip} /\ calm' = 0
               /\ UNCHANGED <<devices, neighbors, topoLinks, dirs, phase, todo>>

(* A discovery that starts over: clear_all_devices or clear_all_links. *)
ClearDevices == /\ phase = "idle" /\ devices # {}
                /\ Cascade({}) /\ calm' = 0
                /\ UNCHANGED <<excluded, phase, todo>>

ClearLinks == /\ phase = "idle" /\ topoLinks # {}
              /\ topoLinks' = {} /\ calm' = 0
              /\ UNCHANGED <<devices, neighbors, dirs, excluded, phase, todo>>

(* Time reaches the next threshold for the links. *)
LinksAge == /\ phase = "idle" /\ topoLinks # {}
            /\ topoLinks' = {[l EXCEPT !.age = IF @ < 2 THEN @ + 1 ELSE 2] : l \in topoLinks}
            /\ calm' = 0
            /\ UNCHANGED <<devices, neighbors, dirs, excluded, phase, todo>>

TopologyNext ==
  \/ \E h \in Hosts : Scan(h)
  \/ \E ip \in Servers : Exclude(ip)
  \/ LinksAge \/ ClearDevices \/ ClearLinks
  \/ Begin
  \/ \E r \in todo : Lldp(r) \/ Stp(r) \/ Fdb(r) \/ ArpOnly(r)
  \/ NextPass("neighbours", "fdb", {"FDB"})
  \/ NextPass("fdb", "arp", {"ARP"})
  \/ NextPass("arp", "prune", {})
  \/ PruneLinks \/ AgeLinks \/ Publish

TopologySpec == TopologyInit /\ [][TopologyNext]_topoVars

-----------------------------------------------------------------------------
(* Once a recomputation has committed, the server's own addresses are on no    *)
(* device and on no link, whichever pass met them and whenever they were       *)
(* configured as excluded.                                                     *)
NoExcludedLeft == phase = "idle" /\ calm > 0 => \A d \in devices : ~ Excludes(d)

(* Whatever the hosts answer: a device whose neighbour LLDP still reports and    *)
(* names by a chassis id that is known is on an UP link with it, however old the *)
(* link had become. A neighbour that is known by its address alone may have been *)
(* met by the ARP pass after its turn; of several with that address one counts.  *)
UpLink(i, j) == \E l \in topoLinks : {l.a, l.b} = {i, j} /\ l.status = "UP"
Settled(r) == (\E d \in devices : r.key # None /\ d.chassis = r.key)
              \/ ~ \E s \in neighbors : s.kind = "ARP" /\ s.ip = r.ip
NeighbourIsUp ==
  phase = "idle" /\ calm > 0 =>
    \A r \in neighbors : r.kind = "LLDP" /\ Settled(r) /\ Remote(r) # {} =>
      \E d \in Remote(r) : d.id = r.local \/ UpLink(r.local, d.id)

(* Where each address is one device's and LLDP names the port of each of several *)
(* cables: every neighbour that LLDP reports is on an UP link at its port.       *)
ReportedIsUp ==
  phase = "idle" /\ calm > 0 =>
    \A r \in neighbors : r.kind = "LLDP" =>
      \A d \in Remote(r) : d.id # r.local =>
        \E l \in topoLinks : /\ {l.a, l.b} = {r.local, d.id} /\ l.status = "UP"
                             /\ r.port \in {l.src, l.dst} \cup {NoPort}

(* The direction marks agree with the links once two recomputations have run   *)
(* over unchanged rows and ages. One is not enough: see the README.            *)
DirectionsSettle ==
  phase = "idle" /\ calm = 2 => dirs = Directions({l \in topoLinks : l.status # "DOWN"})

(* A recomputation over unchanged rows adds no device and changes no link's    *)
(* ends: running it again is harmless.                                         *)
Ends(L) == {<<l.id, l.a, l.src, l.b, l.dst>> : l \in L}
RepeatAddsNothing ==
  [][calm > 0 /\ phase # "idle" =>
       /\ Ends(topoLinks') = Ends(topoLinks)
       /\ {d.id : d \in devices'} = {d.id : d \in devices}]_topoVars

(* What the map holds whenever a recomputation has committed, in parts. *)
CommittedMapHolds == NoExcludedLeft /\ NeighbourIsUp

(* What one recomputation after another comes to over unchanged rows, in parts. *)
MapSettles == [](ReportedIsUp /\ DirectionsSettle) /\ RepeatAddsNothing
=============================================================================
