-------------------------------- MODULE Roles --------------------------------
(* The role of every device: the scores of classification/device_role.py, the *)
(* graph metrics and the pass of topology/engine.py that stores the roles, and *)
(* the operator's own choice of a role, over a graph whose links and devices   *)
(* change.                                                                     *)
EXTENDS Integers, FiniteSets, FiniteSetsExt

CONSTANTS Kits,       \* what the devices of a network may be: functions to records
          Wires,      \* the links between them, <<smaller, larger, number>>
          ManualRoles, \* bound: the roles that operators choose
          CoreScore, FloorScore   \* CORE_SCORE_THRESHOLD, FLOOR_SCORE_THRESHOLD

DeviceRoles == {"CORE_SWITCH", "DISTRIBUTION_SWITCH", "FLOOR_SWITCH", "ACCESS_SWITCH",
                "EDGE_DEVICE", "SERVER", "ENDPOINT", "UNKNOWN"}

ASSUME RolesAssumption ==
  /\ IsFiniteSet(Wires) /\ CoreScore \in Nat /\ ManualRoles \subseteq DeviceRoles
  /\ \A k \in Kits : \A d \in DOMAIN k :
       k[d].vlans \in Nat /\ k[d].routes \in Nat /\ k[d].trunks \in Nat /\ k[d].depth \in Nat

VARIABLES kit,     \* type, layer3, vlans, routes, trunks, depth, named of each device
          live,    \* the links that are not DOWN
          role, manual,
          logged,  \* the role of the latest device_role entry of the change log
          passes   \* role passes since anything else changed

roleVars == <<kit, live, role, manual, logged, passes>>

SwitchTypes == {"L2_SWITCH", "L2_POE_SWITCH", "L3_SWITCH", "L3_POE_SWITCH"}
InfrastructureTypes == SwitchTypes \cup {"ROUTER"}
Nodes == DOMAIN kit

RolesTypeOK == /\ kit \in Kits /\ live \subseteq Wires
               /\ role \in [Nodes -> DeviceRoles] /\ logged \in [Nodes -> DeviceRoles]
               /\ manual \subseteq Nodes /\ passes \in 0..2

RolesInit == /\ kit \in Kits /\ live = Wires
             /\ role = [d \in Nodes |-> "UNKNOWN"] /\ logged = role
             /\ manual = {} /\ passes = 0

-----------------------------------------------------------------------------
(* compute_graph_metrics. A link counts once for each of its ends, so that     *)
(* parallel links count as often as they are.                                  *)
Other(w, d) == IF w[1] = d THEN w[2] ELSE w[1]
LinksOf(d) == {w \in live : d \in {w[1], w[2]}}
Degree(d) == Cardinality(LinksOf(d))
Neighbours(d, S) == Cardinality({w \in LinksOf(d) : Other(w, d) \in S})

\* mutant: a core switch is not counted as a switch neighbour
IsLesserSwitch(d) == kit[d].type \in SwitchTypes /\ role[d] # "CORE_SWITCH"

IsSwitch(d) == kit[d].type \in SwitchTypes
Switches == {e \in Nodes : IsSwitch(e)}
SwitchNeighbours(d) == Neighbours(d, Switches)
Parents(d) == Neighbours(d, {e \in Switches : kit[e].depth < kit[d].depth})
Downstream(d) == Neighbours(d, {e \in Switches : kit[e].depth > kit[d].depth})
EndpointDensity(d) == Neighbours(d, {e \in Nodes : role[e] \in {"ENDPOINT", "SERVER"}})
MaxDegree == Max({1} \cup {Degree(d) : d \in Nodes})

AtMost(limit, n) == IF n < limit THEN n ELSE limit
AtLeast(limit, n) == IF n > limit THEN n ELSE limit

(* round() of n / m: to the nearest integer, a half to the even one. *)
Round(n, m) == LET q == n \div m
                   r == 2 * (n % m)
               IN  IF r < m \/ (r = m /\ q % 2 = 0) THEN q ELSE q + 1

\* mutant: no gate for devices without layer 3
CoreTotalUngated(d) ==
  LET k == kit[d]
  IN  (IF k.layer3 THEN 20 ELSE 0) + AtMost(20, 3 * SwitchNeighbours(d))
      + AtMost(15, Round(3 * Degree(d), 2)) + AtMost(10, k.vlans \div 4)
      + AtMost(10, 2 * k.routes) + AtMost(10, 2 * k.trunks)
      + AtMost(10, Round(10 * Degree(d), MaxDegree)) + AtMost(5, AtLeast(0, 6 - k.depth))

(* _core_score: without layer 3 it stays below the threshold. *)
CoreTotal(d) ==
  LET k == kit[d]
      total == (IF k.layer3 THEN 20 ELSE 0) + AtMost(20, 3 * SwitchNeighbours(d))
               + AtMost(15, Round(3 * Degree(d), 2)) + AtMost(10, k.vlans \div 4)
               + AtMost(10, 2 * k.routes) + AtMost(10, 2 * k.trunks)
               + AtMost(10, Round(10 * Degree(d), MaxDegree)) + AtMost(5, AtLeast(0, 6 - k.depth))
  IN  IF k.layer3 THEN total ELSE AtMost(CoreScore - 1, total)

(* _distribution_score, with the devices that count as core. *)
DistributionTotal(d, cores) ==
  LET k == kit[d]
  IN  (IF \E w \in LinksOf(d) : Other(w, d) \in cores THEN 25 ELSE 0)
      + AtMost(25, 5 * Downstream(d)) + (IF k.routes > 0 /\ ~ k.layer3 THEN 15 ELSE 0)
      + AtMost(20, 4 * k.trunks) + (IF k.depth \in {1, 2} THEN 15 ELSE 0)

(* _floor_score; a host name and a location that name a floor count 15 each. *)
FloorTotal(d) ==
  LET k == kit[d]
  IN  (IF Parents(d) = 0 THEN 0 ELSE IF Parents(d) <= 2 THEN 20 ELSE 10)
      + AtMost(25, Round(25 * EndpointDensity(d), 28))
      + AtLeast(-10, 10 - 5 * AtLeast(0, Downstream(d) - 1))
      + (IF k.layer3 THEN 0 ELSE 15) + 15 * k.named

\* mutant: the type of an endpoint is taken for its role
RoleOfType(d, cores) ==
  IF kit[d].type \in InfrastructureTypes THEN "ACCESS_SWITCH" ELSE kit[d].type

(* classify_device_role. *)
RoleOf(d, cores) ==
  CASE kit[d].type \in {"ACCESS_POINT", "HUB"} -> "EDGE_DEVICE"
    [] kit[d].type \in {"LINUX_PC", "WINDOWS_PC", "MAC_PC", "IP_CAMERA"} -> "ENDPOINT"
    [] kit[d].type \in InfrastructureTypes ->
         (CASE CoreTotal(d) >= CoreScore -> "CORE_SWITCH"
            [] CoreTotal(d) < CoreScore /\ DistributionTotal(d, cores) >= FloorScore ->
                 "DISTRIBUTION_SWITCH"
            [] CoreTotal(d) < CoreScore /\ DistributionTotal(d, cores) < FloorScore
               /\ FloorTotal(d) >= FloorScore -> "FLOOR_SWITCH"
            [] OTHER -> IF kit[d].layer3 THEN "DISTRIBUTION_SWITCH" ELSE "ACCESS_SWITCH")
    [] OTHER -> "UNKNOWN"

\* mutant: a manual role does not keep a device out of the provisional cores
CoresAny == {d \in Nodes : /\ kit[d].type \in InfrastructureTypes
                           /\ CoreTotal(d) >= CoreScore}

(* The provisional pass: who will be core, manual choices included. *)
Cores == {d \in manual : role[d] = "CORE_SWITCH"}
         \cup {d \in Nodes \ manual : /\ kit[d].type \in InfrastructureTypes
                                      /\ CoreTotal(d) >= CoreScore}

\* mutant: the pass stores every role
RolePassAll ==
  /\ role' = [d \in Nodes |-> RoleOf(d, Cores)]
  /\ logged' = role'
  /\ passes' = AtMost(2, passes + 1)
  /\ UNCHANGED <<kit, live, manual>>

(* classify_and_persist_roles: every device but the manual ones; a change is   *)
(* recorded.                                                                   *)
RolePass ==
  /\ role' = [d \in Nodes |-> IF d \in manual THEN role[d] ELSE RoleOf(d, Cores)]
  /\ logged' = [d \in Nodes |-> IF role'[d] # role[d] THEN role'[d] ELSE logged[d]]
  /\ passes' = AtMost(2, passes + 1)
  /\ UNCHANGED <<kit, live, manual>>

\* mutant: the operator's change is not recorded
SetRoleQuietly(d, r) ==
  /\ role' = [role EXCEPT ![d] = r] /\ logged' = logged
  /\ manual' = manual \cup {d} /\ passes' = 0
  /\ UNCHANGED <<kit, live>>

(* PATCH /devices/{id}/role. *)
SetRole(d, r) ==
  /\ role' = [role EXCEPT ![d] = r]
  /\ logged' = IF r # role[d] THEN [logged EXCEPT ![d] = r] ELSE logged
  /\ manual' = manual \cup {d} /\ passes' = 0
  /\ UNCHANGED <<kit, live>>

(* A link goes DOWN or comes back; a scan finds another device or another      *)
(* configuration.                                                              *)
Rewire(w) == /\ live' = IF w \in live THEN live \ {w} ELSE live \cup {w}
             /\ passes' = 0 /\ UNCHANGED <<kit, role, manual, logged>>
Rekit(k) == /\ DOMAIN k = Nodes /\ kit' = k
            /\ passes' = 0 /\ UNCHANGED <<live, role, manual, logged>>

RolesNext == \/ RolePass
             \/ \E d \in Nodes, r \in ManualRoles : SetRole(d, r)
             \/ \E w \in Wires : Rewire(w)
             \/ \E k \in Kits : Rekit(k)

RolesSpec == RolesInit /\ [][RolesNext]_roleVars

-----------------------------------------------------------------------------
(* The roles come to rest: two passes over an unchanged network reach roles    *)
(* that a further pass keeps. One pass is not enough, the endpoints around a   *)
(* switch are counted by the roles stored before it.                           *)
RolesSettle == [][passes = 2 /\ role' # role => passes' = 0]_roleVars

(* A role an operator set is never changed by a pass, whatever the network     *)
(* becomes.                                                                    *)
ManualKept ==
  [][\A d \in manual : role'[d] # role[d] => \E r \in ManualRoles : SetRole(d, r)]_roleVars

(* The devices that counted as core while a pass scored their neighbours are   *)
(* the devices that the pass leaves with the core role.                        *)
ProvisionalIsFinal ==
  [][passes' > 0 => Cores = {d \in Nodes : role'[d] = "CORE_SWITCH"}]_roleVars

(* No layer-2 device is core by its score, however well connected it is.       *)
CoreHasLayer3 ==
  passes > 0 => \A d \in Nodes \ manual : role[d] = "CORE_SWITCH" => kit[d].layer3

(* The change log tells the present role of every device: no writer of the     *)
(* field forgets it.                                                           *)
RoleLogComplete == logged = role

(* What the passes make of the roles over any changes of the network and any   *)
(* choices of the operator, in parts.                                          *)
RolesAreSound ==
  RolesSettle /\ ProvisionalIsFinal /\ ManualKept /\ []CoreHasLayer3 /\ []RoleLogComplete
=============================================================================
