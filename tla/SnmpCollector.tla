----------------------------- MODULE SnmpCollector -----------------------------
(* How the SNMP collector puts one answer together from several walks            *)
(* (collectors/snmp_collector.py), and how the engine finds the interface of a   *)
(* PoE port (_map_poe_entries_to_interfaces, discovery/engine.py). A walk asks   *)
(* row by row and ends, without an error, when a question goes unanswered; the   *)
(* device may change between two walks. The tables are derived from a            *)
(* description of the device, so that an answer can be compared with it. The     *)
(* columns that are joined like another one are left out.                        *)
EXTENDS Integers, Sequences, FiniteSets

CONSTANTS
    Missing,    \* no value; a field left at None
    Boxes,      \* the devices: for each, the set of the states it may be in
    MaxCuts     \* bound on the walks that end early, in one call

VARIABLES
    box,        \* the device, as it is now
    call,       \* the collector's method, and the interface it is about
    todo,       \* the tables still to walk
    rows,       \* by table: the rows a walk got
    cut,        \* the tables whose walk ended early
    moved,      \* the device changed during the call
    answer      \* what the method returns

collectVars == <<box, call, todo, rows, cut, moved, answer>>

Field(b, f) == {[i |-> b.ports[p].bridge, v |-> b.ports[p][f]] : p \in {p \in DOMAIN b.ports : b.ports[p][f] # Missing}}
Learnt(b) == UNION {{[i |-> m, v |-> b.ports[p].bridge, fid |-> 10 * b.ports[p].pvid] : m \in b.ports[p].macs} : p \in DOMAIN b.ports}
Itself == [i |-> 9, v |-> 0, fid |-> 10]
Feeding(b) == {p \in DOMAIN b.ports : b.ports[p].poe # Missing}

(* The tables of a device: rows by their index. A bridge numbers its ports on    *)
(* its own; the FDB is in BRIDGE-MIB or, by VLAN, in Q-BRIDGE-MIB, in both with an *)
(* address of the bridge itself, at port 0; PoE is in the standard MIB or in the  *)
(* vendor's, with or without the table of the ports that have it.                *)
Table(b, t) ==
    CASE t = "descr" -> {[i |-> p, v |-> b.ports[p].number] : p \in DOMAIN b.ports}
      [] t = "admin" -> {[i |-> p, v |-> b.ports[p].admin] : p \in DOMAIN b.ports}
      [] t = "base" -> {[i |-> b.ports[p].bridge, v |-> p] : p \in DOMAIN b.ports}
      [] t \in {"stp", "chassis", "remport", "pvid"} -> Field(b, t)
      [] t = "fdb" -> IF b.fdbMib = "bridge" THEN Learnt(b) \cup {Itself} ELSE {}
      [] t = "qfdb" -> IF b.fdbMib = "q" THEN Learnt(b) \cup {Itself} ELSE {}
      [] t = "fids" -> {[i |-> b.ports[p].pvid, v |-> 10 * b.ports[p].pvid] : p \in DOMAIN b.ports}
      [] t \in {"dest", "rif", "mask", "kind"} -> {[i |-> d, v |-> b.routes[d][t]] : d \in DOMAIN b.routes}
      [] t \in {"enable", "detect"} /\ b.poeMib # "standard" -> {}
      [] t = "present" /\ b.poeMib # "present" -> {}
      [] t \in {"nadmin", "power"} /\ b.poeMib = "standard" -> {}
      [] t = "power" /\ b.poeMib # "standard" ->
            {[i |-> b.ports[p].bridge, v |-> IF p \in Feeding(b) /\ b.ports[p].poe = "DELIVERING" THEN 70 ELSE 0] : p \in DOMAIN b.ports}
      [] OTHER -> {[i |-> b.ports[p].bridge, v |-> b.ports[p].poe] : p \in Feeding(b)}

(* A device numbers its ports, and its bridge does; the name of a port that may   *)
(* feed PoE ends in the number that the bridge gives it; without the standard MIB *)
(* every port feeds but the last two, which are the uplinks.                     *)
IsBox(b) ==
    LET P == DOMAIN b.ports
        bridge(p) == b.ports[p].bridge
    IN  /\ "ports" \in DOMAIN b /\ P \subseteq Nat
        /\ P = {} \/ \E p \in P : \A q \in P : bridge(q) <= bridge(p)
        /\ \A p \in P :
              /\ bridge(p) \in Nat \ {0} /\ \A q \in P \ {p} : bridge(q) # bridge(p)
              /\ b.ports[p].number \in Nat \cup {Missing}
              /\ b.ports[p].admin # Missing /\ b.ports[p].pvid \in Nat
              /\ b.ports[p].remport # Missing => b.ports[p].chassis # Missing
              /\ b.ports[p].poe \in {Missing, "DELIVERING", "SEARCHING", "DISABLED"}
              /\ b.ports[p].poe # Missing =>
                    /\ bridge(p) \notin b.uplinks
                    /\ \A q \in P : b.ports[q].number = bridge(p) <=> q = p
        /\ b.poeMib # "standard" =>
              /\ \E u, v \in {bridge(p) : p \in P} : u # v /\ b.uplinks = {u, v}
              /\ \A p \in P : bridge(p) \notin b.uplinks => p \in Feeding(b) /\ \A u \in b.uplinks : bridge(p) < u
        /\ b.fdbMib \in {"bridge", "q"}
        /\ \A d \in DOMAIN b.routes : b.routes[d].dest = d /\ Missing \notin {b.routes[d].mask, b.routes[d].kind}

(* What stays when a device changes: its ports, and the MIBs it has. The row of   *)
(* an LLDP neighbour is of that neighbour as long as it is there: its index has   *)
(* the time and a count in it.                                                   *)
Frame(b) == <<[p \in DOMAIN b.ports |-> <<b.ports[p].bridge, b.ports[p].number>>], b.poeMib, b.fdbMib, b.uplinks>>
SameNeighbours(b, c) ==
    \A p \in DOMAIN b.ports :
        Missing \in {b.ports[p].chassis, c.ports[p].chassis} \/ b.ports[p].chassis = c.ports[p].chassis

ASSUME BoxesAssumption ==
    /\ MaxCuts \in Nat /\ Missing \notin Nat /\ Missing # {[set |-> TRUE]}
    /\ \A F \in Boxes : \A b, c \in F : IsBox(b) /\ Frame(b) = Frame(c) /\ SameNeighbours(b, c)
    /\ \A F, G \in Boxes : F \cap G # {} => F = G

Family == CHOOSE F \in Boxes : box \in F

-----------------------------------------------------------------------------
(* The walks of each method, and those that follow from what a walk found. *)
Methods == {"interfaces", "lldp", "fdb", "pvids", "routes", "poe", "set_pvid"}
Walks(method) ==
    CASE method = "interfaces" -> <<"descr", "admin", "base", "stp">>
      [] method = "lldp" -> <<"chassis", "remport", "base">>
      [] method = "fdb" -> <<"base", "fdb">>
      [] method = "pvids" -> <<"pvid", "base">>
      [] method = "routes" -> <<"dest", "rif", "mask", "kind">>
      [] method = "poe" -> <<"descr", "enable">>
      [] OTHER -> <<"base">>
Then(t, found) ==
    CASE t = "chassis" /\ found = {} -> <<>>
      [] t = "fdb" /\ found = {} -> <<"qfdb", "fids">>
      [] t = "enable" -> IF found = {} THEN <<"present", "nadmin", "power">> ELSE <<"detect">>
      [] OTHER -> Tail(todo)

CollectInit ==
    /\ \E F \in Boxes : box \in F
    /\ \E m \in Methods, p \in DOMAIN box.ports :
          /\ call = [method |-> m, port |-> p] /\ todo = Walks(m)
          /\ m # "set_pvid" => \A q \in DOMAIN box.ports : p <= q
    /\ rows = <<>> /\ cut = {} /\ moved = FALSE /\ answer = Missing

(* _walk *)
Walk ==
    /\ todo # <<>> /\ answer = Missing
    /\ LET t == Head(todo)
           all == Table(box, t)
       IN  \E found \in {all} \cup {{r \in all : r.i < last.i} : last \in all} :
             /\ found # all => Cardinality(cut) < MaxCuts
             /\ rows' = [u \in DOMAIN rows \cup {t} |-> IF u = t THEN found ELSE rows[u]]
             /\ cut' = IF found = all THEN cut ELSE cut \cup {t}
             /\ todo' = Then(t, found)
    /\ UNCHANGED <<box, call, moved, answer>>

Changes ==
    /\ ~moved /\ todo # <<>> /\ answer = Missing
    /\ moved' = TRUE /\ box' \in Family \ {box}
    /\ UNCHANGED <<call, todo, rows, cut, answer>>

(* The value of a row in another table; a table that was not walked has none. *)
Value(t, i) ==
    LET same == IF t \in DOMAIN rows THEN {r \in rows[t] : r.i = i} ELSE {}
    IN  IF same = {} THEN Missing ELSE (CHOOSE r \in same : TRUE).v
Default(v, d) == IF v = Missing THEN d ELSE v

Interfaces ==
    LET stp(p) == {r \in rows["stp"] : Value("base", r.i) = p}
    IN  {[key |-> r.i, admin |-> Default(Value("admin", r.i), "UNKNOWN"),
          stp |-> IF stp(r.i) = {} THEN Missing ELSE (CHOOSE x \in stp(r.i) : TRUE).v] : r \in rows["descr"]}

\* mutant: the number of the bridge port is taken for the interface's
NeighboursRaw ==
    {[key |-> r.v, port |-> r.i, remport |-> Value("remport", r.i)] : r \in rows["chassis"]}
(* A bridge port without a known interface is taken for an interface. *)
Neighbours ==
    {[key |-> r.v, port |-> Default(Value("base", r.i), r.i), remport |-> Value("remport", r.i)] : r \in rows["chassis"]}

\* mutant: the bridge's own address is an entry, of either MIB
EntriesAll == IF rows["fdb"] # {} THEN rows["fdb"] ELSE rows["qfdb"]
(* Only of Q-BRIDGE-MIB is the bridge's own address left out. *)
Entries == IF rows["fdb"] # {} THEN rows["fdb"] ELSE {r \in rows["qfdb"] : r.v # 0}
VlanOf(r) ==
    LET vlans == IF "fids" \in DOMAIN rows THEN {f.i : f \in {f \in rows["fids"] : f.v = r.fid}} ELSE {}
    IN  IF vlans = {} THEN Missing ELSE CHOOSE v \in vlans : \A u \in vlans : u <= v
Fdb == {[key |-> r.i, port |-> Value("base", r.v), vlan |-> VlanOf(r)] : r \in Entries}

Pvids == {[key |-> Value("base", r.i), vlan |-> r.v] : r \in {r \in rows["pvid"] : Value("base", r.i) # Missing}}

Routes == {[key |-> r.v, rif |-> Value("rif", r.i), mask |-> Default(Value("mask", r.i), 32),
            kind |-> Default(Value("kind", r.i), "DIRECT")] : r \in rows["dest"]}

\* mutant: all that report power
PoePortsAll ==
    {r.i : r \in rows[IF rows["enable"] # {} THEN "enable" ELSE IF rows["present"] # {} THEN "present" ELSE "power"]}
(* The PoE ports and what is said of them. Without the vendor's table of ports   *)
(* they are those that report power, but for the last two, which are uplinks.    *)
PoePorts ==
    LET indexes(t) == {r.i : r \in rows[t]}
        last(S) == CHOOSE i \in S : \A j \in S : j <= i
        dropped(S) == IF S = {} THEN {} ELSE S \ {last(S)}
    IN  IF rows["enable"] # {} THEN indexes("enable")
        ELSE IF rows["present"] # {} THEN indexes("present")
        ELSE dropped(dropped(indexes("power")))
PoeState(i) ==
    LET on == Default(Value(IF rows["enable"] # {} THEN "enable" ELSE "nadmin", i), "SEARCHING") # "DISABLED"
        fed == Default(Value("power", i), 0) > 0
    IN  [enabled |-> on,
         status |-> CASE rows["enable"] # {} -> Default(Value("detect", i), "DISABLED")
                      [] rows["enable"] = {} /\ ~on -> "DISABLED"
                      [] OTHER -> IF fed THEN "DELIVERING" ELSE "SEARCHING"]

\* mutant: an interface may be taken twice
ChosenTwice(taken, k) ==
    LET all == {r \in rows["descr"] : r.v # Missing}
        named == {r \in all : r.v = k} \cup (IF \E r \in all : r.v = k THEN {} ELSE all)
    IN  IF named = {} THEN Missing ELSE (CHOOSE r \in named : \A q \in named : r.v <= q.v).i
(* _map_poe_entries_to_interfaces: one port after the other takes, of the         *)
(* physical interfaces that are left, the one with its number in the name, else  *)
(* the one with its index, else the first.                                       *)
Chosen(taken, k) ==
    LET free == {r \in rows["descr"] : r.v # Missing /\ r.i \notin taken}
        best == CASE \E r \in free : r.v = k -> {r \in free : r.v = k}
                  [] ~(\E r \in free : r.v = k) /\ \E r \in free : r.i = k -> {r \in free : r.i = k}
                  [] OTHER -> free
    IN  IF best = {} THEN Missing ELSE (CHOOSE r \in best : \A q \in best : r.v <= q.v).i
Placed(taken, k) ==
    IF k \notin PoePorts THEN taken
    ELSE taken \cup {[key |-> k, port |-> Chosen({a.port : a \in taken}, k),
                      enabled |-> PoeState(k).enabled, status |-> PoeState(k).status]}
Mapped[k \in Nat] == IF k = 0 THEN {} ELSE Placed(Mapped[k - 1], k)
Poe == IF PoePorts = {} THEN {} ELSE Mapped[CHOOSE k \in PoePorts : \A i \in PoePorts : i <= k]

Return ==
    /\ todo = <<>> /\ answer = Missing /\ call.method # "set_pvid"
    /\ answer' = CASE call.method = "interfaces" -> Interfaces
                   [] call.method = "lldp" -> IF rows["chassis"] = {} THEN {} ELSE Neighbours
                   [] call.method = "fdb" -> Fdb
                   [] call.method = "pvids" -> Pvids
                   [] call.method = "routes" -> Routes
                   [] OTHER -> Poe
    /\ UNCHANGED <<box, call, todo, rows, cut, moved>>

\* mutant: the interface's number is taken for the bridge port's
TargetRaw == {r.i : r \in {r \in rows["base"] : r.i = call.port}}
(* set_port_pvid: the bridge port of the interface, and the SET. *)
Target == {r.i : r \in {r \in rows["base"] : r.v = call.port}}
SetPvid ==
    /\ todo = <<>> /\ answer = Missing /\ call.method = "set_pvid"
    /\ IF Target = {} THEN answer' = {[set |-> FALSE]} /\ box' = box
       ELSE /\ answer' = {[set |-> TRUE]}
            /\ box' = [box EXCEPT !.ports =
                          [p \in DOMAIN @ |-> IF @[p].bridge \in Target THEN [@[p] EXCEPT !.pvid = 77] ELSE @[p]]]
    /\ UNCHANGED <<call, todo, rows, cut, moved>>

CollectNext == Walk \/ Changes \/ Return \/ SetPvid
CollectSpec == CollectInit /\ [][CollectNext]_collectVars

-----------------------------------------------------------------------------
(* What a method would return if it saw the device itself. *)
Truth(b, method) ==
    LET P == DOMAIN b.ports IN
    CASE method = "interfaces" -> {[key |-> p, admin |-> b.ports[p].admin, stp |-> b.ports[p].stp] : p \in P}
      [] method = "lldp" -> {[key |-> b.ports[p].chassis, port |-> p, remport |-> b.ports[p].remport] :
                               p \in {p \in P : b.ports[p].chassis # Missing}}
      [] method = "fdb" ->
           (UNION {{[key |-> m, port |-> p, vlan |-> IF b.fdbMib = "q" THEN b.ports[p].pvid ELSE Missing] :
                      m \in b.ports[p].macs} : p \in P})
           \cup (IF b.fdbMib = "q" THEN {} ELSE {[key |-> Itself.i, port |-> Missing, vlan |-> Missing]})
      [] method = "pvids" -> {[key |-> p, vlan |-> b.ports[p].pvid] : p \in P}
      [] method = "routes" -> {[key |-> d, rif |-> b.routes[d].rif, mask |-> b.routes[d].mask,
                                kind |-> b.routes[d].kind] : d \in DOMAIN b.routes}
      [] OTHER -> {[key |-> b.ports[p].bridge, port |-> p, enabled |-> b.ports[p].poe # "DISABLED",
                    status |-> b.ports[p].poe] : p \in Feeding(b)}

(* What stands in for a value that was not got. *)
Unknown == [admin |-> "UNKNOWN", stp |-> Missing, port |-> Missing, remport |-> Missing, vlan |-> Missing,
            rif |-> Missing, mask |-> 32, kind |-> "DIRECT", enabled |-> TRUE,
            status |-> IF box.poeMib = "standard" THEN "DISABLED" ELSE "SEARCHING"]

Returned == answer # Missing /\ call.method # "set_pvid"

(* A method whose walks all ran to the end, on a device that did not change,     *)
(* returns what the device has: the joins over bridge ports, VLANs, LLDP indexes *)
(* and port numbers are right.                                                   *)
WholeIsExact == Returned /\ cut = {} /\ ~moved => answer = Truth(box, call.method)

(* Walks that end early and changes in between lose rows and values, but put no  *)
(* value where it does not belong: each value of an answer is one the device had *)
(* there, or stands for unknown. (Not so the interface of an LLDP neighbour or a *)
(* PoE port when the walk that places it ends early: another one is named.)      *)
Placing == IF call.method = "lldp" THEN "base" ELSE "descr"
NothingInvented ==
    Returned =>
        LET true == UNION {Truth(b, call.method) : b \in IF moved THEN Family ELSE {box}} IN
        \A a \in answer : \A f \in DOMAIN a \ {"key"} :
            \E t \in true : /\ t.key = a.key
                            /\ \/ a[f] = t[f] \/ (call.method # "pvids" /\ a[f] = Unknown[f])
                               \/ f = "port" /\ call.method \in {"lldp", "poe"} /\ Placing \in cut

(* The uplinks of a switch are never taken for PoE ports, wherever a walk ends. *)
UplinksNeverPoe == Returned /\ call.method = "poe" => {a.key : a \in answer} \cap box.uplinks = {}

(* No interface gets two PoE ports, not even when interfaces are missing. *)
PoeApart ==
    Returned /\ call.method = "poe" =>
        \A a, b \in answer : a.port # Missing /\ a.port = b.port => a.key = b.key

(* A VLAN is set on the interface it was meant for and on no other, or not at    *)
(* all, whatever the bridge calls its ports.                                     *)
PvidOfItsPort ==
    [][answer' = {[set |-> TRUE]} =>
         \A p \in DOMAIN box.ports :
            box'.ports[p] = IF p = call.port THEN [box.ports[p] EXCEPT !.pvid = 77] ELSE box.ports[p]]_collectVars

(* What the answer of a method says of the device, and what a SET does, in parts. *)
AnswersAreTrue ==
    []WholeIsExact /\ []NothingInvented /\ []UplinksNeverPoe /\ []PoeApart /\ PvidOfItsPort
=============================================================================
