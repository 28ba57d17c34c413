----------------------------- MODULE MCTopology -----------------------------
(* The topology's components on small instances, in one run: a behaviour     *)
(* picks one of them (part) and only that one moves.                         *)
EXTENDS LinkTable, LinkRace, Topology, Roles

VARIABLE part

ConfidenceTable == [LLDP |-> 100, CDP |-> 95, FDB_ARP |-> 80, STP |-> 70, FDB |-> 65,
                    ARP |-> 40, MANUAL |-> 100]

-----------------------------------------------------------------------------
(* LinkTable: two parallel cables between two devices. *)
Parallel == {<<"a1", "b1">>, <<"a2", "b2">>}

Report(s, d, e, p) == [src |-> s, dst |-> d, source |-> e, pass |-> p]

\* the remote port is resolved, or it is the first device that reports
OneSided == {Report("a1", "b1", "LLDP", 1), Report("a2", "b2", "CDP", 3),
             Report("a1", NoPort, "STP", 2), Report("a2", NoPort, "FDB", 5)}

\* no remote port is resolved: each device names its own port only
BothSides == {Report("a1", NoPort, "LLDP", 1), Report("a2", NoPort, "CDP", 1),
              Report(NoPort, "b1", "LLDP", 3), Report(NoPort, "b2", "STP", 4),
              Report("a1", NoPort, "ARP", 6)}

AllNetworks == {OneSided, BothSides}

AllRaces == {{Report("a1", "b1", "LLDP", 1), Report("a2", "b2", "CDP", 1)},
             {Report("a1", NoPort, "STP", 2)}}

(* Topology: a core and an access switch, an endpoint and the server itself. *)
Self(chassis, mac, ip, depth) ==
  [chassis |-> chassis, mac |-> mac, model |-> None, ip |-> ip, depth |-> depth]
Saw(kind, port, key, ip, rport) ==
  [kind |-> kind, port |-> port, key |-> key, ip |-> ip, rport |-> rport]

AllHosts ==
  {[self |-> Self("cA", "mA", "A", 1), ports |-> {"a1", "a2"},
    rows |-> {Saw("LLDP", "a1", "cB", None, "b1"), Saw("FDB", "a2", "mE", None, NoPort),
              Saw("ARP", "a2", "mE", "E", NoPort), Saw("ARP", NoPort, "mS", "S", NoPort)}],
   [self |-> Self(None, "mB", "B", 2), ports |-> {"b1", "b2"},
    rows |-> {Saw("STP", "b1", "cA", None, NoPort), Saw("FDB", "b1", "mS", None, NoPort),
              Saw("LLDP", "b1", None, "A", "a1")}],
   [self |-> Self(None, None, "E", 2), ports |-> {}, rows |-> {}],
   [self |-> Self(None, None, "S", 1), ports |-> {}, rows |-> {}]}

(* Roles: a core, a switch that reaches the core score without layer 3, a PC;  *)
(* two layer-3 switches and an access switch. Two of the links are parallel.   *)
Kit(type, layer3, vlans, routes, trunks, depth, named) ==
  [type |-> type, layer3 |-> layer3, vlans |-> vlans, routes |-> routes,
   trunks |-> trunks, depth |-> depth, named |-> named]
Office == <<Kit("L3_SWITCH", TRUE, 40, 5, 3, 1, 0), Kit("L2_SWITCH", FALSE, 40, 5, 5, 2, 1),
            Kit("LINUX_PC", FALSE, 0, 0, 0, 3, 0)>>
Ring == <<Kit("L3_SWITCH", TRUE, 40, 0, 0, 1, 0), Kit("L3_POE_SWITCH", TRUE, 40, 0, 0, 1, 1),
          Kit("L2_SWITCH", FALSE, 0, 0, 1, 2, 1)>>
AllKits == {Office, Ring}
AllWires == {<<1, 2, 1>>, <<1, 2, 2>>, <<2, 3, 1>>, <<1, 3, 1>>}

-----------------------------------------------------------------------------
vars == <<part, linkVars, raceVars, topoVars, roleVars>>

Init == /\ part \in {"table", "race", "passes", "roles"}
        /\ LinkInit /\ (part # "table" => reports = OneSided)
        /\ RaceInit /\ (part # "race" => AllKnown)
        /\ TopologyInit
        /\ RolesInit /\ (part # "roles" => kit = Office)

Next == /\ part' = part
        /\ \/ part = "table" /\ LinkNext /\ UNCHANGED <<raceVars, topoVars, roleVars>>
           \/ part = "race" /\ RaceNext /\ UNCHANGED <<linkVars, topoVars, roleVars>>
           \/ part = "passes" /\ TopologyNext /\ UNCHANGED <<linkVars, raceVars, roleVars>>
           \/ part = "roles" /\ RolesNext /\ UNCHANGED <<linkVars, raceVars, topoVars>>

OthersStay == UNCHANGED <<part, linkVars, topoVars, roleVars>>

Spec == /\ Init /\ [][Next]_vars
        /\ \A t \in Sessions :
             /\ WF_vars(part = "race" /\ Flush(t) /\ OthersStay)
             /\ WF_vars(part = "race" /\ (\E o \in contested : Read(t, o)) /\ OthersStay)

-----------------------------------------------------------------------------
(* The types of all parts. *)
TypeOK == LinkTypeOK /\ RaceTypeOK /\ TopologyTypeOK /\ RolesTypeOK
=============================================================================
