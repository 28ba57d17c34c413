---------------------------- MODULE MCDeviceScan ----------------------------
(* Two access switches of one model, which answer with the same sysObjectID and *)
(* vendor and each with its own MAC address, scanned by two workers.           *)
EXTENDS DeviceScan

Edge == [NoEvidence EXCEPT !.bridge = TRUE, !.fdb = TRUE, !.ports = TRUE, !.poe = TRUE]
Twin(n, mac) == [number |-> n, has |-> Edge, snmp |-> TRUE, chassis |-> None, mac |-> mac,
                 model |-> "nhm", loopback |-> FALSE, probes |-> NoEvidence]
Twins == [E |-> Twin(1, "m1"), F |-> Twin(2, "m2")]
OneRun == {<<[profile |-> "STANDARD", addrs |-> {"E", "F"}, depth |-> 1]>>}

Spec == ScanInit /\ TypesInit /\ evidence = NoEvidence /\ [][ScanNext /\ UNCHANGED typeVars]_<<scanVars, typeVars>>
=============================================================================
