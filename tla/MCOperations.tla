---------------------------- MODULE MCOperations ----------------------------
(* What runs beside the discovery of hosts, on small instances, in one run: a  *)
(* behaviour picks one of the components (part) and only that one moves.       *)
EXTENDS DeviceControl, DeviceScan, SnmpCollector, Alarms, Migration, CredentialProfiles

VARIABLE part

-----------------------------------------------------------------------------
(* DeviceControl: two ports, of which port2 is not protected. Requests are of one *)
(* kind at a time and, but for PoE, for port1, which is what can interfere; force *)
(* is used on a protected port only, a walk misses port1 only, and the ids of PoE *)
(* rows change only where a PoE control may meet them. A start with               *)
(* recorded changes, with a rescan, or with PoE numbers that are not the          *)
(* ifIndexes has no more of the others.                                           *)
CONSTANTS port1, port2
Number(p1, p2) == [p \in Ports |-> IF p = port1 THEN p1 ELSE p2]
Own == Number(port1, port2)
FirstIds == \A p \in Ports : poe[p] # None => poe[p].id = IF p = port1 THEN 0 ELSE 1
KindsAgree(r, s) == None \in {requests[r].kind, requests[s].kind} \/ requests[r].kind = requests[s].kind
FewControls == /\ \A r, s \in Requests : KindsAgree(r, s)
               /\ \A r \in Requests : requests[r].port # None =>
                    /\ requests[r].force => shielded[requests[r].port]
                    /\ requests[r].kind # "POE" => requests[r].port = port1 /\ poeOf = Own /\ FirstIds
               /\ scan.step = "read" => scan.seen[port2]["VLAN"] # None
               /\ scan.step = "poe" => scan.seen[port2] # None
\* The PoE numbers are the ifIndexes; are each other's; or port1's is port2's ifIndex and port2's nobody's.
FewStarts == /\ ~shielded[port2] /\ poeOf \in {Own, Number(port2, port1), Number(None, port1)}
             /\ poe[port2] # None /\ FirstIds
             /\ poe[port1] = None => changes = {}
             /\ shielded[port1] <=> scan.left = 0
             /\ scan.left = 0 \/ (changes = {} /\ poeOf = Own)
             /\ poeOf # Own => changes = {}
             /\ \A c \in changes : c.port \in {port1, None}
QuietControl == /\ scan.left = 1 /\ changes = {} /\ poeOf = Own
                /\ \A p \in Ports : poe[p] = None /\ ~shielded[p]

-----------------------------------------------------------------------------
(* DeviceScan: a layer-3 switch with two addresses, an access switch and a PC,  *)
(* scanned by two workers with one profile after another.                      *)
Has(items, name) ==
  [t \in DOMAIN NoEvidence |-> IF t \in items THEN TRUE ELSE IF t = "name" THEN name ELSE NoEvidence[t]]
Routing == Has({"bridge", "fdb", "lldp", "ports", "forwards", "routes", "svis", "vlans", "wan", "poe"}, "other")
Edge == Has({"bridge", "fdb", "ports", "routes", "poe"}, "L2")
Box == [NoEvidence EXCEPT !.ttl = "UNIX", !.descr = "other", !.ssh = "other"]
Desk == [NoEvidence EXCEPT !.smb = TRUE, !.ttl = "WINDOWS"]
Machine(n, has, snmp, chassis, mac, model) ==
  [number |-> n, has |-> has, snmp |-> snmp, chassis |-> chassis, mac |-> mac, model |-> model,
   loopback |-> n = 2, probes |-> IF snmp THEN Box ELSE Desk]
Campus == [A |-> Machine(1, Routing, TRUE, "c1", "m1", None), B |-> Machine(1, Routing, TRUE, "c1", "m1", None),
           E |-> Machine(2, Edge, TRUE, None, "m2", None), P |-> Machine(3, NoEvidence, FALSE, None, None, None)]
\* They can be told apart, so that a row never stands for two of them.
ASSUME CampusApart == MachinesApart
Tour(p, a, n) == [profile |-> p, addrs |-> a, depth |-> n]
Tours == {<<Tour("DETAILED", {"A", "B"}, 1), Tour("LIGHT", {"A"}, 2)>>,
          <<Tour("LIGHT", {"A", "B"}, 0), Tour("STANDARD", {"B"}, 1)>>,
          <<Tour("DETAILED", {"A"}, 1), Tour("STANDARD", {"B"}, 0)>>,
          <<Tour("STANDARD", {"E", "P"}, 1), Tour("DETAILED", {"E"}, 0)>>}

-----------------------------------------------------------------------------
(* SnmpCollector: a switch of four ports, two of them uplinks, whose bridge      *)
(* counts the first two the other way round, and how it may change in a call.   *)
Port(bridge, number, admin, stp, pvid, macs, chassis, power) ==
  [bridge |-> bridge, number |-> number, admin |-> admin, stp |-> stp, pvid |-> pvid, macs |-> macs,
   chassis |-> chassis, remport |-> chassis, poe |-> power]
Route(dest, rif, mask, kind) == [dest |-> dest, rif |-> rif, mask |-> mask, kind |-> kind]
Switch(macs1, macs2, near1, admin1, poe1, route, poeMib, fdbMib) ==
  [ports |-> << Port(2, 2, admin1, "FORWARDING", 10, macs1, near1, poe1),
                Port(1, 1, "UP", "BLOCKING", 20, macs2, Missing, "SEARCHING"),
                Port(3, 3, "UP", Missing, 20, {}, "cY", Missing),
                Port(4, 4, "DOWN", Missing, 10, {}, Missing, Missing) >>,
   routes |-> <<Route(1, 1, 0, route), Route(2, 2, 24, "DIRECT")>>,
   poeMib |-> poeMib, fdbMib |-> fdbMib, uplinks |-> {3, 4}]
Standard == {Switch({1}, {2}, "cX", "UP", "DELIVERING", "STATIC", "standard", "bridge"),
             Switch({}, {1, 2}, Missing, "DOWN", "DISABLED", "DIRECT", "standard", "bridge")}
Vendor == {Switch({1}, {2}, "cX", "UP", "DELIVERING", "STATIC", "power", "q"),
           Switch({1, 2}, {}, "cX", "DOWN", "DISABLED", "STATIC", "power", "q")}
Listed == {Switch({1}, {2}, "cX", "UP", "DISABLED", "STATIC", "present", "q")}
Racks == {Standard, Vendor, Listed}

(* No call is under way. *)
CollectorRests ==
  /\ box = [ports |-> <<>>] /\ call = [method |-> "set_pvid", port |-> 1] /\ todo = <<>>
  /\ rows = [t \in {} |-> {}] /\ cut = {} /\ moved = FALSE /\ answer = {}

-----------------------------------------------------------------------------
(* Alarms: two devices and the link between them. Devices fail, or links and    *)
(* what the logs record; the first request is followed by a dismiss-all.       *)
TwoDepths == [d1 |-> 0, d2 |-> 1]
OneLink == <<{"d1", "d2"}>>
CONSTANTS v1, v2
FewAlarms == /\ viewers[v2].step # "new" => viewers[v1].step # "new" /\ viewers[v2].kind = "all"
             /\ \/ hosts = NothingRead
                \/ failures = {} /\ \A l \in DOMAIN lines : lines[l] = Met(0)

-----------------------------------------------------------------------------
vars == <<part, controlVars, scanVars, typeVars, collectVars, alarmVars, migrationVars, credentialVars>>

Parts == {"control", "types", "scan", "collect", "alarms", "startup", "profiles"}
Init == /\ part \in Parts
        /\ ControlInit /\ IF part = "control" THEN FewStarts ELSE QuietControl
        /\ TypesInit /\ (part # "types" => evidence = NoEvidence)
        /\ ScanInit /\ (part # "scan" => plan = CHOOSE p \in Plans : TRUE)
        /\ IF part = "collect" THEN CollectInit ELSE CollectorRests
        /\ AlarmsInit
        /\ MigrationInit /\ (part # "startup" => version = 0)
        /\ CredentialsInit /\ (part # "profiles" => cascades) /\ (\A m \in Switches : bindings[m].legacy = None)

Stay(p, v) == part # p => UNCHANGED v
Next == /\ part' = part
        /\ \/ part = "control" /\ ControlNext /\ FewControls'
           \/ part = "types" /\ TypesNext
           \/ part = "scan" /\ ScanNext
           \/ part = "collect" /\ CollectNext
           \/ part = "alarms" /\ AlarmsNext /\ FewAlarms'
           \/ part = "startup" /\ MigrationNext
           \/ part = "profiles" /\ CredentialsNext
        /\ Stay("control", controlVars) /\ Stay("types", typeVars) /\ Stay("scan", scanVars)
        /\ Stay("collect", collectVars) /\ Stay("alarms", alarmVars) /\ Stay("startup", migrationVars)
        /\ Stay("profiles", credentialVars)

Spec == /\ Init /\ [][Next]_vars
        /\ \A s \in Servers :
             WF_vars(/\ part = "startup" /\ Proceeds(s)
                     /\ UNCHANGED <<part, controlVars, scanVars, typeVars, collectVars, alarmVars, credentialVars>>)

-----------------------------------------------------------------------------
(* The types of all parts. *)
TypeOK == /\ ControlTypeOK /\ TypesTypeOK /\ ScanTypeOK /\ AlarmsTypeOK
          /\ MigrationTypeOK /\ CredentialsTypeOK
=============================================================================
