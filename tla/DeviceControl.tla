------------------------------ MODULE DeviceControl ------------------------------
(* The operators' controls of a switch's ports and their races: enabling and    *)
(* disabling a port and its PoE, its VLAN and its description (app/control),    *)
(* the restoration of a recorded change (config_restore.py), and the part of a  *)
(* rescan that stores the ports and records what changed (discovery/engine.py). *)
(* A request reads the stored value, awaits the SNMP SET, awaits a re-read, and *)
(* commits the row and its log entry; every await lets the others move.         *)
(* A SET is answered, refused, or its answer is lost after it took effect; a    *)
(* walk whose answers are lost ends early, without an error.                    *)
(* A PoE control names the port to the device by its ifIndex, where the device  *)
(* takes PoE numbers, which are its own: poeOf says whom that reaches.          *)
EXTENDS Null, Naturals, FiniteSets

CONSTANTS
    Ports,      \* the ports of the switch that are stored
    PoeIds,     \* the ids rows of poe_port get; one more than Ports leaves room for an INSERT
    Requests,   \* the requests operators make; each is made at most once
    MaxScans    \* bound on the rescans

Kinds == {"PORT", "POE", "VLAN", "DESCRIPTION"}
Values == [PORT |-> {"UP", "DOWN"}, POE |-> {"ENABLED", "DISABLED"},
           VLAN |-> {"10", "20"}, DESCRIPTION |-> {"uplink", "camera"}]
Stored == {"PORT", "VLAN"}
Words == (UNION {Values[k] : k \in Kinds}) \cup {"UNKNOWN"}

(* The rows of poe_port. *)
PoeRows == [id : PoeIds, enabled : BOOLEAN, status : Words]
RowsApart(f) == \A p, q \in Ports : f[p] # None /\ f[q] # None /\ f[p].id = f[q].id => p = q

ASSUME ControlAssumption ==
    MaxScans \in Nat /\ None \notin Ports \cup PoeRows \cup Kinds \cup Words \cup {"200", "403", "500"}

VARIABLES
    real,       \* what the device has, by port and kind of control
    stored,     \* device_interface.admin_status and .vlan, by port
    poe,        \* each port's row of poe_port, or None
    shielded,   \* device_interface.is_protected, by port
    poeOf,      \* the port whose PoE number is this port's ifIndex, or None
    devRole,    \* network_device: its role and where it comes from
    requests,   \* the requests, with what their sessions hold
    audit,      \* device_control_log
    changes,    \* config_change_log
    scan        \* the rescan of the device

controlVars == <<real, stored, poe, shielded, poeOf, devRole, requests, audit, changes, scan>>

(* A request before it is made, and no rescan. In the log, answer and found are *)
(* history: what the re-read got and what each port had then; so is calm, which  *)
(* says that nothing but the rescan has touched the ports since it began.       *)
Unmade == [step |-> "new", port |-> None, kind |-> None, want |-> None, force |-> FALSE, before |-> None,
           row |-> None, reply |-> None]
Idle == [step |-> "idle", seen |-> None, left |-> 0, calm |-> FALSE]

Usual == [PORT |-> "UP", POE |-> "ENABLED", VLAN |-> "10", DESCRIPTION |-> "uplink"]

\* mutants: a change is recorded when nothing changed; only from a known value
RecordedAlways(port, field, old, new) == {[port |-> port, field |-> field, old |-> old, new |-> new]}
RecordedKnown(port, field, old, new) ==
    IF old \in {new, None} THEN {} ELSE {[port |-> port, field |-> field, old |-> old, new |-> new]}

(* record_config_change; the change of a role is of no port. *)
Recorded(port, field, old, new) ==
    IF old = new THEN {} ELSE {[port |-> port, field |-> field, old |-> old, new |-> new]}

ControlInit ==
    /\ real = [p \in Ports |-> [k \in Kinds |-> Usual[k]]]
    /\ stored = [p \in Ports |-> [k \in Stored |-> Usual[k]]]
    /\ poe \in [Ports -> {None} \cup [id : PoeIds, enabled : {TRUE}, status : {"ENABLED"}]] /\ RowsApart(poe)
    /\ shielded \in [Ports -> BOOLEAN]
    /\ poeOf \in [Ports -> Ports \cup {None}]
    /\ \A p, q \in Ports : poeOf[p] = poeOf[q] => p = q \/ poeOf[p] = None
    /\ devRole = [value |-> "CORE_SWITCH", source |-> "AUTO"]
    /\ requests = [r \in Requests |-> Unmade]
    /\ audit = {}
    /\ \/ changes \in {{}, Recorded(None, "ROLE", "FLOOR_SWITCH", "CORE_SWITCH")}
       \/ \E p \in Ports : changes \in {Recorded(p, "PORT", "UNKNOWN", "UP"), Recorded(p, "VLAN", "20", "10")}
    /\ \E n \in 0..MaxScans : scan = [Idle EXCEPT !.left = n]

-----------------------------------------------------------------------------
(* What a request reads as the previous value; ENABLED stands for the PoE states *)
(* of a port that is on, and the description is read from the device.           *)
StoredBefore(p, kind) ==
    IF kind = "POE" THEN IF poe[p] = None THEN "UNKNOWN" ELSE poe[p].status
    ELSE IF kind = "DESCRIPTION" THEN None ELSE stored[p][kind]

\* mutant: a description is not protected, nor is a VLAN
NeedsForceDown(kind, want) == want \in {"DOWN", "DISABLED"}

(* What a protected port refuses without force: going down, for the port and its *)
(* PoE; any change of VLAN or description. The port is the one asked for.       *)
NeedsForce(kind, want) == kind \in {"VLAN", "DESCRIPTION"} \/ want \in {"DOWN", "DISABLED"}
Refused(q) == shielded[q.port] /\ NeedsForce(q.kind, q.want) /\ ~q.force

(* The port a request, or the request of a log entry, reaches on the device: PoE *)
(* is set and read back at pethPsePortIndex, with the ifIndex for the number.   *)
Addressed(x) == IF x.kind = "POE" THEN poeOf[x.port] ELSE x.port

(* The log entry of a request. *)
Entry(r, q, after, result, answer) ==
    [by |-> r, port |-> q.port, kind |-> q.kind, requested |-> q.want, after |-> after,
     result |-> result, answer |-> answer, found |-> [p \in Ports |-> real[p][q.kind]]]

(* The request ends with its entry committed; or, when the commit fails, without. *)
Ended(kind, status) == [Unmade EXCEPT !.step = "done", !.kind = kind, !.reply = status]
\* mutant: a refused request leaves no entry
LoggedUnlessDenied(r, entry, status) ==
    /\ audit' = audit \cup (IF entry.result = "DENIED" THEN {} ELSE {entry})
    /\ requests' = [requests EXCEPT ![r] = Ended(entry.kind, status)]
Logged(r, entry, status) ==
    /\ audit' = audit \cup {entry}
    /\ requests' = [requests EXCEPT ![r] = Ended(entry.kind, status)]
Lost(r) ==
    /\ requests' = [requests EXCEPT ![r] = Ended("POE", "500")]
    /\ UNCHANGED <<audit, stored, poe>>

(* set_port_status, set_poe_status, set_port_vlan and set_interface_description,  *)
(* up to their first await.                                                     *)
Started(p, kind, want, force) ==
    [step |-> IF kind = "DESCRIPTION" THEN "alias" ELSE "set", port |-> p, kind |-> kind, want |-> want,
     force |-> force, before |-> StoredBefore(p, kind), row |-> IF kind = "POE" THEN poe[p] ELSE None,
     reply |-> None]
Denied(r, q, status) == Logged(r, Entry(r, q, q.before, "DENIED", "none"), status)
Ask(r, p, kind, want, force, denial) ==
    LET q == Started(p, kind, want, force) IN
    /\ requests[r].step = "new"
    /\ IF kind # "DESCRIPTION" /\ Refused(q)
       THEN Denied(r, q, denial)
       ELSE requests' = [requests EXCEPT ![r] = q] /\ UNCHANGED audit
    /\ UNCHANGED <<real, stored, poe, shielded, poeOf, devRole, changes, scan>>

(* The control endpoints: 403 for a refusal. *)
Control(r) ==
    \E p \in Ports, kind \in Kinds, force \in BOOLEAN :
        \E want \in Values[kind] : Ask(r, p, kind, want, force, "403")

(* set_interface_description reads the description before it checks the port; *)
(* an unanswered read leaves no value.                                          *)
ReadAlias(r) ==
    /\ requests[r].step = "alias"
    /\ \E value \in {real[requests[r].port]["DESCRIPTION"], None} :
         LET q == [requests[r] EXCEPT !.before = value, !.step = "set"] IN
         IF Refused(q) THEN Denied(r, q, "403")
         ELSE requests' = [requests EXCEPT ![r] = q] /\ UNCHANGED audit
    /\ UNCHANGED <<real, stored, poe, shielded, poeOf, devRole, changes, scan>>

(* A SET changes the port it addresses, if there is one, or nothing. *)
SetSent(q) ==
    /\ real' \in {real, [p \in Ports |-> IF p = Addressed(q) THEN [real[p] EXCEPT ![q.kind] = q.want] ELSE real[p]]}
    /\ scan' = [scan EXCEPT !.calm = FALSE]

(* The SET is acknowledged, with effect or without. *)
Set(r) ==
    /\ requests[r].step = "set"
    /\ SetSent(requests[r])
    /\ requests' = [requests EXCEPT ![r].step = "read"]
    /\ UNCHANGED <<stored, poe, shielded, poeOf, devRole, audit, changes>>

(* The SET is refused, or its answer is lost, perhaps after it took effect: the *)
(* request fails and logs the value it read at first as the one after it.       *)
SetFails(r) ==
    /\ requests[r].step = "set"
    /\ SetSent(requests[r])
    /\ Logged(r, Entry(r, requests[r], requests[r].before, "FAILED", "error"), "200")
    /\ UNCHANGED <<stored, poe, shielded, poeOf, devRole, changes>>

\* mutant: what was asked for is taken for what was read
AfterAsked(q, answer) == q.want

(* What the re-read yields: all of the device's values, of which the request     *)
(* takes those of the port it addressed; nothing, when the walk ends early or    *)
(* has no such port; or the port without its admin status.                      *)
After(q, answer) ==
    CASE answer = "whole" -> real[Addressed(q)][q.kind]
      [] answer = "partial" -> "UNKNOWN"
      [] OTHER -> IF q.kind \in {"PORT", "POE"} THEN q.want ELSE None
Answers(q) == {"empty"} \cup (IF Addressed(q) # None THEN {"whole"} ELSE {})
                       \cup (IF q.kind = "PORT" THEN {"partial"} ELSE {})

(* An attribute that is assigned the value its session loaded is not written: *)
(* what another session stored in between stays.                                *)
Assigned(current, loaded, value) == IF value = loaded THEN current ELSE value

(* The PoE row as the request leaves it: enabled as asked, the state as read. A  *)
(* new row's state is what was read at first, unless the re-read had one.        *)
PoeAfter(q, answer) ==
    [enabled |-> q.want = "ENABLED",
     status |-> IF answer = "whole" THEN real[Addressed(q)]["POE"]
                ELSE IF q.row = None THEN q.before ELSE q.row.status]
IdsInUse == {poe[p].id : p \in {x \in Ports : poe[x] # None}}
PoeFails(q, answer) ==
    \/ q.row = None /\ poe[q.port] # None                     \* uq_poe_port
    \/ /\ q.row # None                                        \* an UPDATE of a row that is gone
       /\ PoeAfter(q, answer) # [enabled |-> q.row.enabled, status |-> q.row.status]
       /\ q.row.id \notin IdsInUse

(* A row is inserted under an id that is free; an UPDATE goes by the id that was *)
(* loaded, which a rescan may have given to another port's row.                 *)
InsertPoe(q, answer) ==
    \E id \in PoeIds \ IdsInUse :
        poe' = [poe EXCEPT ![q.port] = [id |-> id, enabled |-> PoeAfter(q, answer).enabled,
                                        status |-> PoeAfter(q, answer).status]]
RowUpdated(row, q, answer) ==
    [id |-> row.id, enabled |-> Assigned(row.enabled, q.row.enabled, PoeAfter(q, answer).enabled),
                    status |-> Assigned(row.status, q.row.status, PoeAfter(q, answer).status)]
UpdatePoe(q, answer) ==
    poe' = [p \in Ports |-> IF poe[p] # None /\ poe[p].id = q.row.id THEN RowUpdated(poe[p], q, answer) ELSE poe[p]]

(* The re-read and, without another await, the assignments and the commit. *)
StorePort(q, after) ==
    stored' = IF q.kind \notin Stored THEN stored
              ELSE [stored EXCEPT ![q.port][q.kind] = Assigned(@, q.before, after)]
StorePoeRow(q, answer) ==
    IF q.kind # "POE" THEN UNCHANGED poe
    ELSE IF q.row = None THEN InsertPoe(q, answer) ELSE UpdatePoe(q, answer)
Reread(r) ==
    /\ requests[r].step = "read"
    /\ \E answer \in Answers(requests[r]) :
         LET q == requests[r]
             after == After(q, answer)
             result == IF after = q.want THEN "SUCCESS" ELSE "FAILED"
         IN  IF q.kind = "POE" /\ PoeFails(q, answer) THEN Lost(r)
             ELSE /\ Logged(r, Entry(r, q, after, result, answer), "200")
                  /\ StorePort(q, after) /\ StorePoeRow(q, answer)
    /\ scan' = [scan EXCEPT !.calm = FALSE]
    /\ UNCHANGED <<real, shielded, poeOf, devRole, changes>>

-----------------------------------------------------------------------------
(* restore_config_change: the port and the VLAN by their controls, the role in  *)
(* the database; anything but UP disables the port, and no VLAN is refused.      *)
RestoreControl(r, c, force) ==
    /\ c.field \in {"PORT", "VLAN"} /\ c.old # None
    /\ Ask(r, c.port, c.field, IF c.field = "PORT" /\ c.old # "UP" THEN "DOWN" ELSE c.old, force, "200")
RestoreRole(r, c) ==
    /\ requests[r].step = "new" /\ c.field = "ROLE"
    /\ devRole' = [value |-> c.old, source |-> "MANUAL"]
    /\ changes' = changes \cup Recorded(None, "ROLE", devRole.value, c.old)
    /\ requests' = [requests EXCEPT ![r] = Ended(None, "200")]
    /\ UNCHANGED <<real, stored, poe, shielded, poeOf, audit, scan>>
Restore(r) ==
    \E c \in changes, force \in BOOLEAN : RestoreControl(r, c, force) \/ RestoreRole(r, c)

(* bulk_delete_config_changes and delete_all_config_changes *)
DeleteChanges ==
    /\ changes # {}
    /\ \E gone \in {{c} : c \in changes} \cup {changes} : changes' = changes \ gone
    /\ UNCHANGED <<real, stored, poe, shielded, poeOf, devRole, requests, audit, scan>>

-----------------------------------------------------------------------------
(* The rescan reads the interfaces; the walk of the VLANs may miss some. *)
ScanReads ==
    /\ scan.step = "idle" /\ scan.left > 0
    /\ \E missed \in SUBSET Ports :
         scan' = [step |-> "read", left |-> scan.left - 1,
                  seen |-> [p \in Ports |-> [k \in Stored |-> IF k = "VLAN" /\ p \in missed THEN None ELSE real[p][k]]],
                  calm |-> missed = {} /\ \A r \in Requests : requests[r].step \in {"new", "done"}]
    /\ UNCHANGED <<real, stored, poe, shielded, poeOf, devRole, requests, audit, changes>>

\* mutant: a stored VLAN is kept
IngestedOnce(p) == [k \in Stored |-> IF k = "VLAN" /\ stored[p][k] # None THEN stored[p][k] ELSE scan.seen[p][k]]

(* It stores them over the rows it finds then, and records what differs. *)
Ingested(p) == [k \in Stored |-> IF scan.seen[p][k] = None THEN stored[p][k] ELSE scan.seen[p][k]]
ScanStores ==
    /\ scan.step = "read"
    /\ stored' = [p \in Ports |-> Ingested(p)]
    /\ changes' = changes \cup UNION {Recorded(p, k, stored[p][k], Ingested(p)[k]) : p \in Ports, k \in Stored}
    /\ scan' = [scan EXCEPT !.step = "stored"]
    /\ UNCHANGED <<real, poe, shielded, poeOf, devRole, requests, audit>>

(* The walk of PoE may miss ports too. It finds the others' by their names (see  *)
(* SnmpCollector's Chosen), where the controls go by the ifIndex.              *)
ScanReadsPoe ==
    /\ scan.step = "stored"
    /\ \E missed \in SUBSET Ports :
         scan' = [scan EXCEPT !.step = "poe", !.calm = @ /\ missed = {},
                              !.seen = [p \in Ports |-> IF p \in missed THEN None ELSE real[p]["POE"]]]
    /\ UNCHANGED <<real, stored, poe, shielded, poeOf, devRole, requests, audit, changes>>

(* The PoE rows are deleted and written anew: each gets another id, or, as the   *)
(* table's last ones, ids they or other ports' had.                             *)
Apart(ids) == \A p, q \in Ports : ids[p] = ids[q] => p = q
ScanStoresPoe ==
    /\ scan.step = "poe"
    /\ \E ids \in [Ports -> PoeIds] :
         /\ Apart(ids)
         /\ poe' = [p \in Ports |->
                       IF scan.seen[p] = None THEN None
                       ELSE [id |-> ids[p], enabled |-> scan.seen[p] = "ENABLED", status |-> scan.seen[p]]]
    /\ scan' = [scan EXCEPT !.step = "idle", !.seen = None]
    /\ UNCHANGED <<real, stored, shielded, poeOf, devRole, requests, audit, changes>>

ControlMoves(r) == ReadAlias(r) \/ Set(r) \/ SetFails(r) \/ Reread(r)
ControlNext ==
    \/ \E r \in Requests : Control(r) \/ Restore(r) \/ ControlMoves(r)
    \/ DeleteChanges \/ ScanReads \/ ScanStores \/ ScanReadsPoe \/ ScanStoresPoe

ControlSpec == ControlInit /\ [][ControlNext]_controlVars

-----------------------------------------------------------------------------
Known(kind) == Values[kind] \cup {"UNKNOWN", None}

(* Type: the stored port has values the device or a failed walk can give, and a  *)
(* log entry speaks of its request.                                             *)
ControlTypeOK ==
    /\ \A p \in Ports, k \in Kinds : real[p][k] \in Values[k]
    /\ \A p \in Ports, k \in Stored : stored[p][k] \in Known(k)
    /\ \A p \in Ports : poe[p] = None \/ (poe[p] \in PoeRows /\ poe[p].status \in Known("POE"))
    /\ RowsApart(poe)
    /\ shielded \in [Ports -> BOOLEAN] /\ poeOf \in [Ports -> Ports \cup {None}]
    /\ devRole.value \in {"CORE_SWITCH", "FLOOR_SWITCH"} /\ devRole.source \in {"AUTO", "MANUAL"}
    /\ \A r \in Requests : /\ requests[r].step \in {"new", "alias", "set", "read", "done"}
                           /\ requests[r].reply \in {None, "200", "403", "500"}
                           /\ requests[r].reply # None <=> requests[r].step = "done"
    /\ \A e \in audit : e.port \in Ports /\ e.requested \in Values[e.kind] /\ e.after \in Known(e.kind)
    /\ \A c \in changes : c.field \in {"PORT", "VLAN", "ROLE"} /\ c.old # c.new
    /\ scan.step \in {"idle", "read", "stored", "poe"} /\ scan.left \in 0..MaxScans

(* An entry that says SUCCESS after a re-read that answered is true of the port  *)
(* the request addressed: the device had the requested value there then,        *)
(* whatever other requests had set in between. (port_control.py:3: verified by  *)
(* a re-read. A re-read without an answer is taken for a confirmation of port   *)
(* and PoE. The port addressed is the entry's own but for a PoE control on a    *)
(* device that numbers its PoE ports otherwise: SuccessIsOfItsPort.)            *)
SuccessIsTrue ==
    \A e \in audit : e.answer = "whole" => (e.result = "SUCCESS" <=> e.found[Addressed(e)] = e.requested)

(* An operator who got an answer finds the request in the log; only a PoE control *)
(* whose row a rescan or another control replaced ends without, although its SET *)
(* was sent.                                                                    *)
AnswersAreLogged ==
    \A r \in Requests : requests[r].step = "done" /\ requests[r].kind # None =>
        ((\E e \in audit : e.by = r) <=> requests[r].reply # "500")
        /\ (requests[r].reply = "500" => requests[r].kind = "POE")

(* A rescan whose walks all answered, and during which no control moved, leaves  *)
(* the stored ports as the device has them, whatever races came before it.       *)
RescanSettles ==
    scan.step = "idle" /\ scan.calm => \A p \in Ports :
        /\ \A k \in Stored : stored[p][k] = real[p][k]
        /\ poe[p] # None /\ poe[p].enabled = (real[p]["POE"] = "ENABLED")

(* Request r sends its SET in this step. *)
Sends(r) == requests[r].step = "set" /\ requests'[r].step # "set"

(* A port goes down, or changes its VLAN or description, only for a request that *)
(* addressed it and whose own port is not protected or is forced, by whichever  *)
(* way the request came, a restore too. Where no PoE number is another port's   *)
(* ifIndex, the request's own port is the one that changes, and so the shield is *)
(* its; elsewhere see PoeShielded.                                              *)
ShieldHolds ==
    [][\A p \in Ports : real'[p] # real[p] =>
         \E r \in Requests :
            /\ Sends(r) /\ Addressed(requests[r]) = p
            /\ shielded[requests[r].port] => requests[r].force \/ requests[r].want \in {"UP", "ENABLED"}]_controlVars

(* Every change of a stored value is accounted for in the step that makes it: by *)
(* the entry of the control that read it back, or by a recorded change from the *)
(* old value to the new.                                                        *)
ChangesAreRecorded ==
    [][/\ \A p \in Ports, k \in Stored :
            \/ stored'[p][k] = stored[p][k]
            \/ [port |-> p, field |-> k, old |-> stored[p][k], new |-> stored'[p][k]] \in changes'
            \/ \E e \in audit' \ audit : e.port = p /\ e.kind = k /\ e.after = stored'[p][k]
       /\ devRole'.value # devRole.value =>
            [port |-> None, field |-> "ROLE", old |-> devRole.value, new |-> devRole'.value] \in changes']_controlVars

(* What the application tells of a port agrees with the port, in parts: its log *)
(* of controls, and what it stores after a rescan.                              *)
PortIsTold == SuccessIsTrue /\ AnswersAreLogged /\ RescanSettles

(* Nothing changes without leave on the device, or without a record in the       *)
(* database, in parts.                                                          *)
ControlsAreAccounted == ShieldHolds /\ ChangesAreRecorded

-----------------------------------------------------------------------------
(* What poe_control.py says of its controls, and devices on which it is so.     *)

(* No PoE number is the ifIndex of another port. *)
NumbersAgree == \A p \in Ports : poeOf[p] \in {p, None}

(* A PoE control that says SUCCESS after a re-read that answered tells the state *)
(* of the port it is logged for (poe_control.py:54: the PoE index is the ifIndex *)
(* as collected, so the control takes it for the same).                         *)
SuccessIsOfItsPort ==
    \A e \in audit : e.kind = "POE" /\ e.answer = "whole" =>
        (e.result = "SUCCESS" <=> e.found[e.port] = e.requested)

(* A protected port loses its PoE only to a control of that port with force      *)
(* (poe_control.py:4: a PoE disable goes through the same check of protected    *)
(* ports as a port disable).                                                    *)
PoeShielded ==
    [][\A p \in Ports : shielded[p] /\ real[p]["POE"] = "ENABLED" /\ real'[p]["POE"] = "DISABLED" =>
         \E r \in Requests : Sends(r) /\ requests[r].port = p /\ requests[r].force]_controlVars
=============================================================================
