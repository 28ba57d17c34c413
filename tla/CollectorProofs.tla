--------------------------- MODULE CollectorProofs ---------------------------
(* Proofs about SnmpCollector, for every family of devices, wherever walks end   *)
(* and whatever changes in a call.                                               *)
EXTENDS SnmpCollector, IdentityProofs, TLAPS

-----------------------------------------------------------------------------
(* The states of the device that a call may have seen.                           *)
Witnessed == IF moved THEN Family ELSE {box}

(* Each table that was walked holds rows that one of these states had, and, if   *)
(* the walk ran to its end, all of them.                                         *)
Sourced == \A t \in DOMAIN rows :
              \E b \in Witnessed : rows[t] \subseteq Table(b, t) /\ (t \notin cut => rows[t] = Table(b, t))

(* The tables. *)
WalkNames == {"descr", "admin", "base", "stp", "chassis", "remport", "pvid", "fdb", "qfdb", "fids",
          "dest", "rif", "mask", "kind", "enable", "detect", "present", "nadmin", "power"}

(* What is left to walk is the end of L, and the tables before it were walked.   *)
Through(L) ==
    /\ todo \in Seq(WalkNames) /\ Len(todo) <= Len(L)
    /\ \A i \in 1..Len(L) : IF i <= Len(L) - Len(todo) THEN L[i] \in DOMAIN rows
                            ELSE todo[i - (Len(L) - Len(todo))] = L[i]

(* How far a method is, after each of its walks. *)
Reading(m) ==
    \/ m \in {"interfaces", "lldp", "pvids", "routes", "set_pvid"} /\ Through(Walks(m))
    \/ m = "lldp" /\ todo = <<>> /\ "chassis" \in DOMAIN rows /\ rows["chassis"] = {}
    \/ /\ m = "fdb" /\ Through(<<"base", "fdb">>) /\ "fids" \notin DOMAIN rows
       /\ "fdb" \in DOMAIN rows => rows["fdb"] # {}
    \/ m = "fdb" /\ Through(<<"qfdb", "fids">>) /\ {"base", "fdb"} \subseteq DOMAIN rows /\ rows["fdb"] = {}
    \/ m = "poe" /\ Through(<<"descr", "enable">>) /\ todo # <<>>
    \/ /\ m = "poe" /\ {"descr", "enable"} \subseteq DOMAIN rows
       /\ Through(IF rows["enable"] = {} THEN <<"present", "nadmin", "power">> ELSE <<"detect">>)

CollectInv == answer = Missing =>
    /\ \E F \in Boxes : box \in F
    /\ call.method \in Methods
    /\ Reading(call.method) /\ Sourced

-----------------------------------------------------------------------------
(* A device is of one family. *)
LEMMA FamilyOf ==
    ASSUME NEW F \in Boxes, NEW b \in F
    PROVE  (CHOOSE G \in Boxes : b \in G) = F
<1> DEFINE H == CHOOSE G \in Boxes : b \in G
<1>1. H \in Boxes /\ b \in H
  OBVIOUS
<1>2. H \cap F # {}
  BY <1>1
<1> QED
  BY <1>1, <1>2, BoxesAssumption

(* The states a call may have seen are devices with the ports of this one.       *)
LEMMA WitnessesAre ==
    ASSUME \E F \in Boxes : box \in F
    PROVE  /\ box \in Witnessed /\ IsBox(box)
           /\ \A b \in Witnessed :
                 /\ IsBox(b) /\ DOMAIN b.ports = DOMAIN box.ports
                 /\ b.poeMib = box.poeMib /\ b.fdbMib = box.fdbMib /\ b.uplinks = box.uplinks
                 /\ \A p \in DOMAIN box.ports :
                       b.ports[p].bridge = box.ports[p].bridge /\ b.ports[p].number = box.ports[p].number
<1>1. PICK F \in Boxes : box \in F
  OBVIOUS
<1>2. Family = F
  BY <1>1, FamilyOf DEF Family
<1>3. \A b \in Witnessed : b \in F
  BY <1>1, <1>2 DEF Witnessed
<1>4. box \in Witnessed
  BY <1>1, <1>2 DEF Witnessed
<1>5. ASSUME NEW b \in Witnessed
      PROVE  /\ IsBox(b) /\ DOMAIN b.ports = DOMAIN box.ports
             /\ b.poeMib = box.poeMib /\ b.fdbMib = box.fdbMib /\ b.uplinks = box.uplinks
             /\ \A p \in DOMAIN box.ports :
                   b.ports[p].bridge = box.ports[p].bridge /\ b.ports[p].number = box.ports[p].number
  <2>1. IsBox(b) /\ Frame(b) = Frame(box)
    BY <1>1, <1>3, <1>5, BoxesAssumption
  <2> DEFINE f(c) == [p \in DOMAIN c.ports |-> <<c.ports[p].bridge, c.ports[p].number>>]
  <2>2. f(b) = f(box) /\ b.poeMib = box.poeMib /\ b.fdbMib = box.fdbMib /\ b.uplinks = box.uplinks
    BY <2>1 DEF Frame
  <2>3. DOMAIN f(b) = DOMAIN b.ports /\ DOMAIN f(box) = DOMAIN box.ports
    OBVIOUS
  <2>4. ASSUME NEW p \in DOMAIN box.ports
        PROVE  b.ports[p].bridge = box.ports[p].bridge /\ b.ports[p].number = box.ports[p].number
    <3>1. p \in DOMAIN b.ports
      BY <2>2, <2>3
    <3>2. f(b)[p] = <<b.ports[p].bridge, b.ports[p].number>>
      BY <3>1
    <3>3. f(box)[p] = <<box.ports[p].bridge, box.ports[p].number>>
      OBVIOUS
    <3> HIDE DEF f
    <3> QED
      BY <2>2, <3>2, <3>3
  <2> QED
    BY <2>1, <2>2, <2>3, <2>4
<1> QED
  BY <1>1, <1>4, <1>5, BoxesAssumption

LEMMA NeighboursStay ==
    ASSUME \E F \in Boxes : box \in F, NEW b \in Witnessed, NEW c \in Witnessed, NEW p \in DOMAIN box.ports,
           b.ports[p].chassis # Missing, c.ports[p].chassis # Missing
    PROVE  b.ports[p].chassis = c.ports[p].chassis
<1>1. PICK F \in Boxes : box \in F
  OBVIOUS
<1>2. Family = F
  BY <1>1, FamilyOf DEF Family
<1>3. b \in F /\ c \in F /\ p \in DOMAIN b.ports
  BY <1>1, <1>2, WitnessesAre DEF Witnessed
<1> QED
  BY <1>1, <1>3, BoxesAssumption DEF SameNeighbours

(* The tables, one by one. *)
LEMMA TablesOfDevice ==
    ASSUME NEW b
    PROVE  /\ Table(b, "descr") = {[i |-> p, v |-> b.ports[p].number] : p \in DOMAIN b.ports}
           /\ Table(b, "admin") = {[i |-> p, v |-> b.ports[p].admin] : p \in DOMAIN b.ports}
           /\ Table(b, "base") = {[i |-> b.ports[p].bridge, v |-> p] : p \in DOMAIN b.ports}
           /\ \A t \in {"stp", "chassis", "remport", "pvid"} : Table(b, t) = Field(b, t)
           /\ Table(b, "fdb") = IF b.fdbMib = "bridge" THEN Learnt(b) \cup {Itself} ELSE {}
           /\ Table(b, "qfdb") = IF b.fdbMib = "q" THEN Learnt(b) \cup {Itself} ELSE {}
           /\ Table(b, "fids") = {[i |-> b.ports[p].pvid, v |-> 10 * b.ports[p].pvid] : p \in DOMAIN b.ports}
           /\ \A t \in {"dest", "rif", "mask", "kind"} :
                 Table(b, t) = {[i |-> d, v |-> b.routes[d][t]] : d \in DOMAIN b.routes}
<1>1. /\ Table(b, "descr") = {[i |-> p, v |-> b.ports[p].number] : p \in DOMAIN b.ports}
      /\ Table(b, "admin") = {[i |-> p, v |-> b.ports[p].admin] : p \in DOMAIN b.ports}
      /\ Table(b, "base") = {[i |-> b.ports[p].bridge, v |-> p] : p \in DOMAIN b.ports}
  BY DEF Table
<1>2. /\ Table(b, "stp") = Field(b, "stp") /\ Table(b, "chassis") = Field(b, "chassis")
      /\ Table(b, "remport") = Field(b, "remport") /\ Table(b, "pvid") = Field(b, "pvid")
  BY DEF Table
<1>3. /\ Table(b, "fdb") = IF b.fdbMib = "bridge" THEN Learnt(b) \cup {Itself} ELSE {}
      /\ Table(b, "qfdb") = IF b.fdbMib = "q" THEN Learnt(b) \cup {Itself} ELSE {}
  BY DEF Table
<1>4. Table(b, "fids") = {[i |-> b.ports[p].pvid, v |-> 10 * b.ports[p].pvid] : p \in DOMAIN b.ports}
  BY DEF Table
<1>5. /\ Table(b, "dest") = {[i |-> d, v |-> b.routes[d]["dest"]] : d \in DOMAIN b.routes}
      /\ Table(b, "rif") = {[i |-> d, v |-> b.routes[d]["rif"]] : d \in DOMAIN b.routes}
      /\ Table(b, "mask") = {[i |-> d, v |-> b.routes[d]["mask"]] : d \in DOMAIN b.routes}
      /\ Table(b, "kind") = {[i |-> d, v |-> b.routes[d]["kind"]] : d \in DOMAIN b.routes}
  BY DEF Table
<1> QED
  BY <1>1, <1>2, <1>3, <1>4, <1>5

(* The tables of PoE, in the standard MIB or not. *)
LEMMA PoeTables ==
    ASSUME NEW b
    PROVE  LET fed == {[i |-> b.ports[p].bridge, v |-> b.ports[p].poe] : p \in Feeding(b)}
           IN  IF b.poeMib = "standard"
               THEN /\ Table(b, "enable") = fed /\ Table(b, "detect") = fed
                    /\ Table(b, "present") = {} /\ Table(b, "nadmin") = {} /\ Table(b, "power") = {}
               ELSE /\ Table(b, "enable") = {} /\ Table(b, "detect") = {} /\ Table(b, "nadmin") = fed
                    /\ Table(b, "present") = IF b.poeMib = "present" THEN fed ELSE {}
                    /\ Table(b, "power") =
                         {[i |-> b.ports[p].bridge,
                           v |-> IF p \in Feeding(b) /\ b.ports[p].poe = "DELIVERING" THEN 70 ELSE 0] : p \in DOMAIN b.ports}
<1>1. CASE b.poeMib = "standard"
  BY <1>1 DEF Table
<1>2. CASE b.poeMib # "standard"
  BY <1>2 DEF Table
<1> QED
  BY <1>1, <1>2

-----------------------------------------------------------------------------
(* The end of the walks stays one when the first of them is done.                *)
LEMMA ThroughTail ==
    ASSUME NEW L \in Seq(WalkNames), Through(L), todo # <<>>, todo' = Tail(todo),
           DOMAIN rows' = DOMAIN rows \cup {Head(todo)}
    PROVE  Through(L)'
<1>1. todo' \in Seq(WalkNames) /\ Len(todo') = Len(todo) - 1 /\ Len(todo) \in Nat /\ Len(L) \in Nat /\ Len(todo) > 0
  BY DEF Through
<1>2. \A i \in 1..Len(todo') : todo'[i] = todo[i + 1]
  BY <1>1 DEF Through
<1>3. ASSUME NEW i \in 1..Len(L)
      PROVE  IF i <= Len(L) - Len(todo') THEN L[i] \in DOMAIN rows' ELSE todo'[i - (Len(L) - Len(todo'))] = L[i]
  <2>1. CASE i <= Len(L) - Len(todo)
    BY <1>1, <2>1 DEF Through
  <2>2. CASE i = Len(L) - Len(todo) + 1
    <3>1. L[i] = todo[1] /\ Head(todo) = todo[1]
      BY <1>1, <2>2 DEF Through
    <3> QED
      BY <1>1, <2>2, <3>1
  <2>3. CASE i > Len(L) - Len(todo) + 1
    <3>1. i - (Len(L) - Len(todo')) \in 1..Len(todo')
      BY <1>1, <2>3 DEF Through
    <3>2. todo'[i - (Len(L) - Len(todo'))] = todo[i - (Len(L) - Len(todo)) ]
      BY <1>1, <1>2, <3>1
    <3> QED
      BY <1>1, <2>3, <3>2 DEF Through
  <2>4. i <= Len(L) - Len(todo) \/ i = Len(L) - Len(todo) + 1 \/ i > Len(L) - Len(todo) + 1
    BY <1>1
  <2> QED
    BY <2>1, <2>2, <2>3, <2>4, Zenon
<1>4. todo' \in Seq(WalkNames) /\ Len(todo') <= Len(L)
  BY <1>1 DEF Through
<1> HIDE DEF WalkNames
<1> QED
  BY <1>3, <1>4 DEF Through

(* When nothing is left all of the list was walked; else the next one is of it,  *)
(* and those before it were walked.                                              *)
LEMMA ThroughEnd ==
    ASSUME NEW L \in Seq(WalkNames), Through(L)
    PROVE  /\ todo = <<>> => \A i \in 1..Len(L) : L[i] \in DOMAIN rows
           /\ todo # <<>> => \E i \in 1..Len(L) : /\ Head(todo) = L[i] /\ Len(todo) = Len(L) - i + 1
                                                 /\ \A j \in 1..(i - 1) : L[j] \in DOMAIN rows
<1>1. CASE todo = <<>>
  BY <1>1 DEF Through
<1>2. CASE todo # <<>>
  <2> DEFINE i == Len(L) - Len(todo) + 1
  <2>1. i \in 1..Len(L) /\ Len(todo) = Len(L) - i + 1
    BY <1>2 DEF Through
  <2>2. Head(todo) = todo[1] /\ todo[1] = L[i]
    BY <1>2, <2>1 DEF Through
  <2>3. \A j \in 1..(i - 1) : L[j] \in DOMAIN rows
    BY <2>1 DEF Through
  <2> HIDE DEF i
  <2> QED
    BY <1>2, <2>1, <2>2, <2>3
<1> QED
  BY <1>1, <1>2

LEMMA ThroughStart ==
    ASSUME NEW L \in Seq(WalkNames), todo' = L
    PROVE  Through(L)'
BY DEF Through

(* Lists of tables. *)
LEMMA ListOf1 ==
    ASSUME NEW a \in WalkNames
    PROVE  <<a>> \in Seq(WalkNames) /\ Len(<<a>>) = 1 /\ <<a>>[1] = a
OBVIOUS

LEMMA ListOf2 ==
    ASSUME NEW a \in WalkNames, NEW b \in WalkNames
    PROVE  <<a, b>> \in Seq(WalkNames) /\ Len(<<a, b>>) = 2 /\ <<a, b>>[1] = a /\ <<a, b>>[2] = b
<1> DEFINE L == <<a, b>>
<1>1. L \in Seq(WalkNames)
  OBVIOUS
<1>2. Len(L) = 2 /\ L[1] = a /\ L[2] = b
  OBVIOUS
<1> QED
  BY <1>1, <1>2

LEMMA ListOf3 ==
    ASSUME NEW a \in WalkNames, NEW b \in WalkNames, NEW c \in WalkNames
    PROVE  LET L == <<a, b, c>> IN L \in Seq(WalkNames) /\ Len(L) = 3 /\ L[1] = a /\ L[2] = b /\ L[3] = c
<1> DEFINE L == <<a, b, c>>
<1>1. L \in Seq(WalkNames)
  OBVIOUS
<1>2. Len(L) = 3 /\ L[1] = a /\ L[2] = b /\ L[3] = c
  OBVIOUS
<1> QED
  BY <1>1, <1>2

LEMMA ListOf4 ==
    ASSUME NEW a \in WalkNames, NEW b \in WalkNames, NEW c \in WalkNames, NEW d \in WalkNames
    PROVE  LET L == <<a, b, c, d>> IN L \in Seq(WalkNames) /\ Len(L) = 4 /\ L[1] = a /\ L[2] = b /\ L[3] = c /\ L[4] = d
<1> DEFINE L == <<a, b, c, d>>
<1>1. L \in Seq(WalkNames)
  OBVIOUS
<1>2. Len(L) = 4 /\ L[1] = a /\ L[2] = b /\ L[3] = c /\ L[4] = d
  OBVIOUS
<1> QED
  BY <1>1, <1>2

LEMMA OneTable ==
    ASSUME NEW a \in WalkNames, Through(<<a>>)
    PROVE  /\ todo = <<>> => a \in DOMAIN rows
           /\ todo # <<>> => Head(todo) = a /\ Len(todo) = 1
<1> DEFINE L == <<a>>
<1>1. L \in Seq(WalkNames) /\ Len(L) = 1 /\ L[1] = a
  BY ListOf1
<1>2. Through(L)
  OBVIOUS
<1> HIDE DEF L
<1> QED
  BY <1>1, <1>2, ThroughEnd

LEMMA TwoTables ==
    ASSUME NEW a \in WalkNames, NEW b \in WalkNames, Through(<<a, b>>)
    PROVE  /\ todo = <<>> => {a, b} \subseteq DOMAIN rows
           /\ todo # <<>> => \/ Head(todo) = a /\ Len(todo) = 2
                             \/ Head(todo) = b /\ Len(todo) = 1 /\ a \in DOMAIN rows
<1> DEFINE L == <<a, b>>
<1>1. L \in Seq(WalkNames) /\ Len(L) = 2 /\ L[1] = a /\ L[2] = b
  BY ListOf2
<1>2. Through(L)
  OBVIOUS
<1> HIDE DEF L
<1>3. CASE todo = <<>>
  <2>1. \A i \in 1..Len(L) : L[i] \in DOMAIN rows
    BY <1>1, <1>2, <1>3, ThroughEnd
  <2> QED
    BY <1>1, <1>3, <2>1
<1>4. CASE todo # <<>>
  <2>1. PICK i \in 1..Len(L) : /\ Head(todo) = L[i] /\ Len(todo) = Len(L) - i + 1
                               /\ \A j \in 1..(i - 1) : L[j] \in DOMAIN rows
    BY <1>1, <1>2, <1>4, ThroughEnd
  <2>2. i = 1 \/ i = 2
    BY <1>1
  <2>3. i = 2 => L[1] \in DOMAIN rows
    BY <2>1
  <2> QED
    BY <1>1, <1>4, <2>1, <2>2, <2>3
<1> QED
  BY <1>3, <1>4

LEMMA ThreeTables ==
    ASSUME NEW a \in WalkNames, NEW b \in WalkNames, NEW c \in WalkNames, Through(<<a, b, c>>)
    PROVE  /\ todo = <<>> => {a, b, c} \subseteq DOMAIN rows
           /\ todo # <<>> => Head(todo) \in {a, b, c}
<1> DEFINE L == <<a, b, c>>
<1>1. L \in Seq(WalkNames) /\ Len(L) = 3 /\ L[1] = a /\ L[2] = b /\ L[3] = c
  BY ListOf3
<1>2. Through(L)
  OBVIOUS
<1> HIDE DEF L
<1>3. CASE todo = <<>>
  <2>1. \A i \in 1..Len(L) : L[i] \in DOMAIN rows
    BY <1>1, <1>2, <1>3, ThroughEnd
  <2>2. 1 \in 1..Len(L) /\ 2 \in 1..Len(L) /\ 3 \in 1..Len(L)
    BY <1>1
  <2> QED
    BY <1>1, <1>3, <2>1, <2>2
<1>4. CASE todo # <<>>
  <2>1. PICK i \in 1..Len(L) : Head(todo) = L[i]
    BY <1>1, <1>2, <1>4, ThroughEnd
  <2>2. i = 1 \/ i = 2 \/ i = 3
    BY <1>1
  <2> QED
    BY <1>1, <1>4, <2>1, <2>2
<1> QED
  BY <1>3, <1>4

LEMMA FourTables ==
    ASSUME NEW a \in WalkNames, NEW b \in WalkNames, NEW c \in WalkNames, NEW d \in WalkNames, Through(<<a, b, c, d>>)
    PROVE  /\ todo = <<>> => {a, b, c, d} \subseteq DOMAIN rows
           /\ todo # <<>> => Head(todo) \in {a, b, c, d}
<1> DEFINE L == <<a, b, c, d>>
<1>1. L \in Seq(WalkNames) /\ Len(L) = 4 /\ L[1] = a /\ L[2] = b /\ L[3] = c /\ L[4] = d
  BY ListOf4
<1>2. Through(L)
  OBVIOUS
<1> HIDE DEF L
<1>3. CASE todo = <<>>
  <2>1. \A i \in 1..Len(L) : L[i] \in DOMAIN rows
    BY <1>1, <1>2, <1>3, ThroughEnd
  <2>2. 1 \in 1..Len(L) /\ 2 \in 1..Len(L) /\ 3 \in 1..Len(L) /\ 4 \in 1..Len(L)
    BY <1>1
  <2> QED
    BY <1>1, <1>3, <2>1, <2>2
<1>4. CASE todo # <<>>
  <2>1. PICK i \in 1..Len(L) : Head(todo) = L[i]
    BY <1>1, <1>2, <1>4, ThroughEnd
  <2>2. i = 1 \/ i = 2 \/ i = 3 \/ i = 4
    BY <1>1
  <2> QED
    BY <1>1, <1>4, <2>1, <2>2
<1> QED
  BY <1>3, <1>4

(* The walks of the methods that have a list of them. *)
LEMMA ListsOfTables ==
    /\ <<"descr", "admin", "base", "stp">> \in Seq(WalkNames)
    /\ <<"chassis", "remport", "base">> \in Seq(WalkNames)
    /\ <<"pvid", "base">> \in Seq(WalkNames)
    /\ <<"dest", "rif", "mask", "kind">> \in Seq(WalkNames)
    /\ <<"base">> \in Seq(WalkNames)
    /\ <<"base", "fdb">> \in Seq(WalkNames)
    /\ <<"qfdb", "fids">> \in Seq(WalkNames)
    /\ <<"descr", "enable">> \in Seq(WalkNames)
    /\ <<"present", "nadmin", "power">> \in Seq(WalkNames)
    /\ <<"detect">> \in Seq(WalkNames)
<1>1. \A t \in {"descr", "admin", "base", "stp", "chassis", "remport", "pvid", "fdb", "qfdb", "fids", "dest",
                "rif", "mask", "kind", "enable", "detect", "present", "nadmin", "power"} : t \in WalkNames
  BY DEF WalkNames
<1>2. <<"descr", "admin", "base", "stp">> \in Seq(WalkNames)
  BY <1>1, ListOf4
<1>3. <<"chassis", "remport", "base">> \in Seq(WalkNames)
  BY <1>1, ListOf3
<1>4. <<"pvid", "base">> \in Seq(WalkNames) /\ <<"base", "fdb">> \in Seq(WalkNames)
  BY <1>1, ListOf2
<1>5. <<"dest", "rif", "mask", "kind">> \in Seq(WalkNames)
  BY <1>1, ListOf4
<1>6. <<"base">> \in Seq(WalkNames) /\ <<"detect">> \in Seq(WalkNames)
  BY <1>1, ListOf1
<1>7. <<"qfdb", "fids">> \in Seq(WalkNames) /\ <<"descr", "enable">> \in Seq(WalkNames)
  BY <1>1, ListOf2
<1>8. <<"present", "nadmin", "power">> \in Seq(WalkNames)
  BY <1>1, ListOf3
<1> QED
  BY <1>2, <1>3, <1>4, <1>5, <1>6, <1>7, <1>8

WalksNeeded(m) ==
    CASE m = "interfaces" -> {"descr", "admin", "base", "stp"}
      [] m = "lldp" -> {"chassis", "remport", "base"}
      [] m = "pvids" -> {"pvid", "base"}
      [] m = "routes" -> {"dest", "rif", "mask", "kind"}
      [] OTHER -> {"base"}

LEMMA WalksListed ==
    ASSUME NEW m \in {"interfaces", "lldp", "pvids", "routes", "set_pvid"}, Through(Walks(m))
    PROVE  /\ Walks(m) \in Seq(WalkNames)
           /\ todo = <<>> => WalksNeeded(m) \subseteq DOMAIN rows
           /\ todo # <<>> => Head(todo) \in WalksNeeded(m)
<1>1. CASE m = "interfaces"
  <2>1. Walks(m) = <<"descr", "admin", "base", "stp">> /\ WalksNeeded(m) = {"descr", "admin", "base", "stp"}
    BY <1>1 DEF Walks, WalksNeeded
  <2>2. "descr" \in WalkNames /\ "admin" \in WalkNames /\ "base" \in WalkNames /\ "stp" \in WalkNames
    BY DEF WalkNames
  <2> QED
    BY <2>1, <2>2, FourTables, ListsOfTables
<1>2. CASE m = "lldp"
  <2>1. Walks(m) = <<"chassis", "remport", "base">> /\ WalksNeeded(m) = {"chassis", "remport", "base"}
    BY <1>2 DEF Walks, WalksNeeded
  <2>2. "chassis" \in WalkNames /\ "remport" \in WalkNames /\ "base" \in WalkNames
    BY DEF WalkNames
  <2> QED
    BY <2>1, <2>2, ThreeTables, ListsOfTables
<1>3. CASE m = "pvids"
  <2>1. Walks(m) = <<"pvid", "base">> /\ WalksNeeded(m) = {"pvid", "base"}
    BY <1>3 DEF Walks, WalksNeeded
  <2>2. "pvid" \in WalkNames /\ "base" \in WalkNames
    BY DEF WalkNames
  <2> QED
    BY <2>1, <2>2, TwoTables, ListsOfTables
<1>4. CASE m = "routes"
  <2>1. Walks(m) = <<"dest", "rif", "mask", "kind">> /\ WalksNeeded(m) = {"dest", "rif", "mask", "kind"}
    BY <1>4 DEF Walks, WalksNeeded
  <2>2. "dest" \in WalkNames /\ "rif" \in WalkNames /\ "mask" \in WalkNames /\ "kind" \in WalkNames
    BY DEF WalkNames
  <2> QED
    BY <2>1, <2>2, FourTables, ListsOfTables
<1>5. CASE m = "set_pvid"
  <2>1. Walks(m) = <<"base">> /\ WalksNeeded(m) = {"base"}
    BY <1>5 DEF Walks, WalksNeeded
  <2>2. "base" \in WalkNames
    BY DEF WalkNames
  <2> QED
    BY <2>1, <2>2, OneTable, ListsOfTables
<1> QED
  BY <1>1, <1>2, <1>3, <1>4, <1>5

-----------------------------------------------------------------------------
(* A walk leaves the rows of the other tables, and takes one table more.         *)
LEMMA WalkIs ==
    ASSUME Walk
    PROVE  LET t == Head(todo) IN
           /\ DOMAIN rows' = DOMAIN rows \cup {t} /\ todo' = Then(t, rows'[t])
           /\ \A u \in DOMAIN rows : u # t => rows'[u] = rows[u]
           /\ rows'[t] \subseteq Table(box, t) /\ cut \subseteq cut'
           /\ t \notin cut' => rows'[t] = Table(box, t)
<1> DEFINE t == Head(todo)
           all == Table(box, t)
<1>1. PICK found \in {all} \cup {{r \in all : r.i < last.i} : last \in all} :
         /\ rows' = [u \in DOMAIN rows \cup {t} |-> IF u = t THEN found ELSE rows[u]]
         /\ cut' = IF found = all THEN cut ELSE cut \cup {t}
         /\ todo' = Then(t, found)
  BY Zenon DEF Walk
<1>2. found \subseteq all
  <2>1. CASE found = all
    BY <2>1
  <2>2. CASE found # all
    <3>1. PICK last \in all : found = {r \in all : r.i < last.i}
      BY <1>1, <2>2
    <3> HIDE DEF all
    <3> QED
      BY <3>1
  <2> QED
    BY <2>1, <2>2
<1> HIDE DEF all, t
<1>3. rows'[t] = found /\ DOMAIN rows' = DOMAIN rows \cup {t} /\ \A u \in DOMAIN rows : u # t => rows'[u] = rows[u]
  BY <1>1
<1>4. cut \subseteq cut' /\ (t \notin cut' => found = all)
  BY <1>1
<1> QED
  BY <1>1, <1>2, <1>3, <1>4 DEF t, all

LEMMA SourcedWalk ==
    ASSUME CollectInv, Walk
    PROVE  Sourced'
<1> DEFINE t == Head(todo)
<1>1. Sourced /\ \E F \in Boxes : box \in F
  BY DEF CollectInv, Walk
<1>2. box \in Witnessed
  BY <1>1, WitnessesAre
<1>3. Witnessed' = Witnessed
  BY DEF Walk, Witnessed, Family
<1>4. ASSUME NEW u \in DOMAIN rows'
      PROVE  \E b \in Witnessed : rows'[u] \subseteq Table(b, u) /\ (u \notin cut' => rows'[u] = Table(b, u))
  <2>1. CASE u = t
    BY <1>2, <2>1, WalkIs
  <2>2. CASE u # t
    <3>1. u \in DOMAIN rows /\ rows'[u] = rows[u] /\ (u \notin cut' => u \notin cut)
      BY <1>4, <2>2, WalkIs
    <3>2. PICK b \in Witnessed : rows[u] \subseteq Table(b, u) /\ (u \notin cut => rows[u] = Table(b, u))
      BY <1>1, <3>1 DEF Sourced
    <3> QED
      BY <3>1, <3>2
  <2> QED
    BY <2>1, <2>2
<1>5. \A u, b : Table(b, u)' = Table(b, u)
  OBVIOUS
<1> QED
  BY <1>3, <1>4 DEF Sourced

(* The walks of a method go on as they should. *)
LEMMA ReadingWalk ==
    ASSUME CollectInv, Walk
    PROVE  Reading(call.method)'
<1> DEFINE m == call.method
           t == Head(todo)
<1>1. todo # <<>> /\ answer = Missing /\ call' = call /\ Reading(m) /\ m \in Methods
  BY DEF CollectInv, Walk
<1>2. /\ DOMAIN rows' = DOMAIN rows \cup {t} /\ todo' = Then(t, rows'[t])
      /\ \A u \in DOMAIN rows : u # t => rows'[u] = rows[u]
  BY WalkIs
<1>3. ASSUME NEW L \in Seq(WalkNames), Through(L),
             ~(t = "chassis" /\ rows'[t] = {}), t # "fdb" \/ rows'[t] # {}, t # "enable"
      PROVE  Through(L)'
  <2>1. todo' = Tail(todo)
    BY <1>2, <1>3 DEF Then
  <2> QED
    BY <1>1, <1>2, <1>3, <2>1, ThroughTail
<1>4. \A n : Reading(n)' <=> Reading(n)'
  OBVIOUS
<1>5. CASE m \in {"interfaces", "lldp", "pvids", "routes", "set_pvid"} /\ Through(Walks(m))
  <2>1. Walks(m) \in Seq(WalkNames) /\ t \in WalksNeeded(m)
    BY <1>1, <1>5, WalksListed
  <2>2. t \notin {"fdb", "enable"} /\ (t = "chassis" => m = "lldp")
    BY <2>1 DEF WalksNeeded
  <2>3. CASE t = "chassis" /\ rows'[t] = {}
    <3>1. todo' = <<>>
      BY <1>2, <2>3 DEF Then
    <3> QED
      BY <1>1, <1>2, <2>2, <2>3, <3>1 DEF Reading
  <2>4. CASE ~(t = "chassis" /\ rows'[t] = {})
    <3>1. Through(Walks(m))'
      BY <1>1, <1>3, <1>5, <2>1, <2>2, <2>4
    <3> QED
      BY <1>1, <1>5, <3>1 DEF Reading
  <2> QED
    BY <2>3, <2>4
<1>6. CASE m = "lldp" /\ todo = <<>>
  BY <1>1, <1>6
<1>7. CASE /\ m = "fdb" /\ Through(<<"base", "fdb">>) /\ "fids" \notin DOMAIN rows
           /\ "fdb" \in DOMAIN rows => rows["fdb"] # {}
  <2>1. t \in {"base", "fdb"} /\ (t = "fdb" => "base" \in DOMAIN rows)
    BY <1>1, <1>7, TwoTables DEF WalkNames
  <2>2. CASE t = "fdb" /\ rows'[t] = {}
    <3>1. todo' = <<"qfdb", "fids">>
      BY <1>2, <2>2 DEF Then
    <3>2. Through(<<"qfdb", "fids">>)'
      BY <3>1, ThroughStart, ListsOfTables
    <3> QED
      BY <1>1, <1>2, <1>7, <2>1, <2>2, <3>2 DEF Reading
  <2>3. CASE t # "fdb" \/ rows'[t] # {}
    <3>1. Through(<<"base", "fdb">>)'
      BY <1>3, <1>7, <2>1, <2>3, ListsOfTables
    <3>2. "fids" \notin DOMAIN rows' /\ ("fdb" \in DOMAIN rows' => rows'["fdb"] # {})
      BY <1>2, <1>7, <2>1, <2>3
    <3> QED
      BY <1>1, <1>7, <3>1, <3>2 DEF Reading
  <2> QED
    BY <2>2, <2>3
<1>8. CASE m = "fdb" /\ Through(<<"qfdb", "fids">>) /\ {"base", "fdb"} \subseteq DOMAIN rows /\ rows["fdb"] = {}
  <2>1. t \in {"qfdb", "fids"}
    BY <1>1, <1>8, TwoTables DEF WalkNames
  <2>2. Through(<<"qfdb", "fids">>)'
    BY <1>3, <1>8, <2>1, ListsOfTables
  <2>3. {"base", "fdb"} \subseteq DOMAIN rows' /\ rows'["fdb"] = {}
    BY <1>2, <1>8, <2>1
  <2> QED
    BY <1>1, <1>8, <2>2, <2>3 DEF Reading
<1>9. CASE m = "poe" /\ Through(<<"descr", "enable">>)
  <2>1. t \in {"descr", "enable"} /\ (t = "enable" => "descr" \in DOMAIN rows) /\ (t = "descr" => Len(todo) = 2)
    BY <1>1, <1>9, TwoTables DEF WalkNames
  <2>2. CASE t = "descr"
    <3>1. Through(<<"descr", "enable">>)'
      BY <1>3, <1>9, <2>2, ListsOfTables
    <3>2. todo' # <<>>
      <4>1. todo' = Tail(todo) /\ todo \in Seq(WalkNames) /\ Len(todo) = 2
        BY <1>2, <1>9, <2>1, <2>2 DEF Then, Through
      <4>2. Len(todo') = 1
        BY <4>1
      <4>3. Len(<<>>) = 0
        OBVIOUS
      <4> QED
        BY <4>2, <4>3
    <3> QED
      BY <1>1, <1>9, <3>1, <3>2 DEF Reading
  <2>3. CASE t = "enable"
    <3>1. {"descr", "enable"} \subseteq DOMAIN rows'
      BY <1>2, <2>1, <2>3
    <3>2. CASE rows'["enable"] = {}
      <4>1. todo' = <<"present", "nadmin", "power">>
        BY <1>2, <2>3, <3>2 DEF Then
      <4>2. Through(<<"present", "nadmin", "power">>)'
        BY <4>1, ThroughStart, ListsOfTables
      <4> QED
        BY <1>1, <1>9, <3>1, <3>2, <4>2 DEF Reading
    <3>3. CASE rows'["enable"] # {}
      <4>1. todo' = <<"detect">>
        BY <1>2, <2>3, <3>3 DEF Then
      <4>2. Through(<<"detect">>)'
        BY <4>1, ThroughStart, ListsOfTables
      <4> QED
        BY <1>1, <1>9, <3>1, <3>3, <4>2 DEF Reading
    <3> QED
      BY <3>2, <3>3
  <2> QED
    BY <2>1, <2>2, <2>3
<1>10. CASE /\ m = "poe" /\ {"descr", "enable"} \subseteq DOMAIN rows
            /\ Through(IF rows["enable"] = {} THEN <<"present", "nadmin", "power">> ELSE <<"detect">>)
  <2>1. CASE rows["enable"] = {}
    <3>1. t \in {"present", "nadmin", "power"}
      <4>1. Through(<<"present", "nadmin", "power">>)
        BY <1>10, <2>1
      <4>2. "present" \in WalkNames /\ "nadmin" \in WalkNames /\ "power" \in WalkNames
        BY DEF WalkNames
      <4> QED
        BY <1>1, <4>1, <4>2, ThreeTables
    <3>2. Through(<<"present", "nadmin", "power">>)'
      BY <1>3, <1>10, <2>1, <3>1, ListsOfTables
    <3>3. {"descr", "enable"} \subseteq DOMAIN rows' /\ rows'["enable"] = {}
      BY <1>2, <1>10, <2>1, <3>1
    <3> QED
      BY <1>1, <1>10, <3>2, <3>3 DEF Reading
  <2>2. CASE rows["enable"] # {}
    <3>1. t = "detect"
      BY <1>1, <1>10, <2>2, OneTable DEF WalkNames
    <3>2. Through(<<"detect">>)'
      BY <1>3, <1>10, <2>2, <3>1, ListsOfTables
    <3>3. {"descr", "enable"} \subseteq DOMAIN rows' /\ rows'["enable"] # {}
      BY <1>2, <1>10, <2>2, <3>1
    <3> QED
      BY <1>1, <1>10, <3>2, <3>3 DEF Reading
  <2> QED
    BY <2>1, <2>2
<1> QED
  BY <1>1, <1>5, <1>6, <1>7, <1>8, <1>9, <1>10 DEF Reading

LEMMA ReadingStays ==
    ASSUME Reading(call.method), UNCHANGED <<call, todo, rows>>
    PROVE  Reading(call.method)'
<1>1. \A L : Through(L)' <=> Through(L)
  BY DEF Through
<1>2. rows' = rows /\ todo' = todo /\ call' = call
  OBVIOUS
<1> QED
  BY <1>1, <1>2 DEF Reading

(* The states a call may have seen stay the same ones or become more.            *)
LEMMA ChangesKeeps ==
    ASSUME CollectInv, Changes
    PROVE  CollectInv'
<1>1. answer = Missing /\ call' = call /\ todo' = todo /\ rows' = rows /\ cut' = cut /\ ~moved /\ moved' /\ box' \in Family
  BY DEF Changes
<1>2. PICK F \in Boxes : box \in F
  BY <1>1 DEF CollectInv
<1>3. Family = F
  BY <1>2, FamilyOf DEF Family
<1>4. box' \in F
  BY <1>1, <1>3
<1>5. Family' = F
  BY <1>4, FamilyOf DEF Family
<1>6. \A b \in Witnessed : b \in Witnessed'
  BY <1>1, <1>2, <1>5 DEF Witnessed
<1>7. \A u, b : Table(b, u)' = Table(b, u)
  OBVIOUS
<1>8. Sourced'
  <2>1. Sourced
    BY <1>1 DEF CollectInv
  <2>2. ASSUME NEW u \in DOMAIN rows
        PROVE  \E b \in Witnessed' : rows[u] \subseteq Table(b, u) /\ (u \notin cut => rows[u] = Table(b, u))
    <3>1. PICK b \in Witnessed : rows[u] \subseteq Table(b, u) /\ (u \notin cut => rows[u] = Table(b, u))
      BY <2>1 DEF Sourced
    <3> QED
      BY <1>6, <3>1
  <2> QED
    BY <1>1, <2>2 DEF Sourced
<1>9. Reading(call.method)'
  <2>1. Reading(call.method)
    BY <1>1 DEF CollectInv
  <2> QED
    BY <1>1, <2>1, ReadingStays
<1> QED
  BY <1>1, <1>4, <1>8, <1>9 DEF CollectInv

LEMMA CollectStart ==
    ASSUME CollectInit
    PROVE  CollectInv /\ answer = Missing /\ moved = FALSE
<1>1. PICK m \in Methods, p \in DOMAIN box.ports : call = [method |-> m, port |-> p] /\ todo = Walks(m)
  BY DEF CollectInit
<1>2. rows = <<>> /\ DOMAIN rows = {}
  BY DEF CollectInit
<1>3. Sourced
  BY <1>2 DEF Sourced
<1>4. ASSUME NEW L \in Seq(WalkNames), todo = L
      PROVE  Through(L)
  BY <1>4 DEF Through
<1>5. Reading(m)
  <2>1. CASE m \in {"interfaces", "lldp", "pvids", "routes", "set_pvid"}
    <3>1. Walks(m) \in Seq(WalkNames)
      BY <2>1, ListsOfTables DEF Walks
    <3> QED
      BY <1>1, <1>4, <2>1, <3>1 DEF Reading
  <2>2. CASE m = "fdb"
    <3>1. todo = <<"base", "fdb">>
      BY <1>1, <2>2 DEF Walks
    <3> QED
      BY <1>2, <1>4, <2>2, <3>1, ListsOfTables DEF Reading
  <2>3. CASE m = "poe"
    <3>1. todo = <<"descr", "enable">>
      BY <1>1, <2>3 DEF Walks
    <3>2. todo # <<>>
      BY <3>1
    <3> QED
      BY <1>4, <2>3, <3>1, <3>2, ListsOfTables DEF Reading
  <2> QED
    BY <2>1, <2>2, <2>3 DEF Methods
<1> QED
  BY <1>1, <1>3, <1>5 DEF CollectInit, CollectInv

LEMMA CollectStep ==
    ASSUME CollectInv, [CollectNext]_collectVars
    PROVE  CollectInv'
<1>1. CASE Walk
  <2>1. Reading(call.method)' /\ Sourced'
    BY <1>1, ReadingWalk, SourcedWalk
  <2>2. box' = box /\ call' = call /\ answer = Missing
    BY <1>1 DEF Walk
  <2> QED
    BY <2>1, <2>2 DEF CollectInv
<1>2. CASE Changes
  BY <1>2, ChangesKeeps
<1>3. ASSUME answer = Missing, answer' = Missing, UNCHANGED <<box, call, todo, rows, cut, moved>>
      PROVE  CollectInv'
  <2>1. Sourced'
    BY <1>3 DEF CollectInv, Sourced, Witnessed, Family
  <2>2. Reading(call.method)'
    BY <1>3, ReadingStays DEF CollectInv
  <2> QED
    BY <1>3, <2>1, <2>2 DEF CollectInv
<1>4. CASE Return
  <2>1. answer = Missing /\ UNCHANGED <<box, call, todo, rows, cut, moved>>
    BY <1>4 DEF Return
  <2> QED
    BY <1>3, <2>1 DEF CollectInv
<1>5. CASE SetPvid
  <2>1. answer = Missing /\ UNCHANGED <<call, todo, rows, cut, moved>>
    BY <1>5 DEF SetPvid
  <2>2. answer' = Missing => box' = box
    BY <1>5, BoxesAssumption DEF SetPvid
  <2> QED
    BY <1>3, <2>1, <2>2 DEF CollectInv
<1>6. CASE UNCHANGED collectVars
  <2>1. answer' = answer /\ UNCHANGED <<box, call, todo, rows, cut, moved>>
    BY <1>6 DEF collectVars
  <2>2. CASE answer = Missing
    BY <1>3, <2>1, <2>2
  <2>3. CASE answer # Missing
    BY <2>1, <2>3 DEF CollectInv
  <2> QED
    BY <2>2, <2>3
<1> QED
  BY <1>1, <1>2, <1>4, <1>5, <1>6 DEF CollectNext

-----------------------------------------------------------------------------
(* The tables that a method has walked when nothing is left to walk.             *)
Done(m) ==
    /\ m \in {"interfaces", "pvids", "routes", "set_pvid"} => WalksNeeded(m) \subseteq DOMAIN rows
    /\ m = "lldp" => "chassis" \in DOMAIN rows /\ (rows["chassis"] = {} \/ {"remport", "base"} \subseteq DOMAIN rows)
    /\ m = "fdb" => /\ {"base", "fdb"} \subseteq DOMAIN rows
                    /\ \/ rows["fdb"] # {} /\ "fids" \notin DOMAIN rows
                       \/ rows["fdb"] = {} /\ {"qfdb", "fids"} \subseteq DOMAIN rows
    /\ m = "poe" => /\ {"descr", "enable"} \subseteq DOMAIN rows
                    /\ (IF rows["enable"] = {} THEN {"present", "nadmin", "power"} ELSE {"detect"}) \subseteq DOMAIN rows

LEMMA AllWalked ==
    ASSUME CollectInv, answer = Missing, todo = <<>>
    PROVE  Done(call.method)
<1> DEFINE m == call.method
<1>1. Reading(m)
  BY DEF CollectInv
<1>2. CASE m \in {"interfaces", "lldp", "pvids", "routes", "set_pvid"} /\ Through(Walks(m))
  BY <1>2, WalksListed DEF Done, WalksNeeded
<1>3. CASE m = "lldp" /\ "chassis" \in DOMAIN rows /\ rows["chassis"] = {}
  BY <1>3 DEF Done
<1>4. CASE /\ m = "fdb" /\ Through(<<"base", "fdb">>) /\ "fids" \notin DOMAIN rows
           /\ "fdb" \in DOMAIN rows => rows["fdb"] # {}
  <2>1. {"base", "fdb"} \subseteq DOMAIN rows
    BY <1>4, TwoTables DEF WalkNames
  <2> QED
    BY <1>4, <2>1 DEF Done
<1>5. CASE m = "fdb" /\ Through(<<"qfdb", "fids">>) /\ {"base", "fdb"} \subseteq DOMAIN rows /\ rows["fdb"] = {}
  <2>1. {"qfdb", "fids"} \subseteq DOMAIN rows
    BY <1>5, TwoTables DEF WalkNames
  <2> QED
    BY <1>5, <2>1 DEF Done
<1>6. CASE /\ m = "poe" /\ {"descr", "enable"} \subseteq DOMAIN rows
           /\ Through(IF rows["enable"] = {} THEN <<"present", "nadmin", "power">> ELSE <<"detect">>)
  <2>1. CASE rows["enable"] = {}
    <3>1. {"present", "nadmin", "power"} \subseteq DOMAIN rows
      <4>1. Through(<<"present", "nadmin", "power">>)
        BY <1>6, <2>1
      <4>2. "present" \in WalkNames /\ "nadmin" \in WalkNames /\ "power" \in WalkNames
        BY DEF WalkNames
      <4> QED
        BY <4>1, <4>2, ThreeTables
    <3> QED
      BY <1>6, <2>1, <3>1 DEF Done
  <2>2. CASE rows["enable"] # {}
    <3>1. "detect" \in DOMAIN rows
      BY <1>6, <2>2, OneTable DEF WalkNames
    <3> QED
      BY <1>6, <2>2, <3>1 DEF Done
  <2> QED
    BY <2>1, <2>2
<1> QED
  BY <1>1, <1>2, <1>3, <1>4, <1>5, <1>6 DEF Reading

-----------------------------------------------------------------------------
(* What a row's value in another table is.                                       *)
WitnessKnown == Sourced /\ \E F \in Boxes : box \in F
AllSeen == cut = {} /\ ~moved
Columns == WalkNames \ {"fdb", "qfdb", "fids"}

(* These tables have one row with an index. *)
LEMMA OneRowEach ==
    ASSUME NEW b, IsBox(b), NEW t \in Columns, NEW r \in Table(b, t), NEW s \in Table(b, t), r.i = s.i
    PROVE  r = s
<1> DEFINE P == DOMAIN b.ports
<1>1. \A p, q \in P : b.ports[p].bridge = b.ports[q].bridge => p = q
  BY DEF IsBox
<1>2. CASE t \in {"descr", "admin"}
  <2>1. \E f \in {"number", "admin"} : Table(b, t) = {[i |-> p, v |-> b.ports[p][f]] : p \in P}
    BY <1>2, TablesOfDevice
  <2> QED
    BY <2>1
<1>3. CASE t = "base"
  <2>1. Table(b, t) = {[i |-> b.ports[p].bridge, v |-> p] : p \in P}
    BY <1>3, TablesOfDevice
  <2> QED
    BY <1>1, <2>1
<1>4. CASE t \in {"stp", "chassis", "remport", "pvid"}
  <2>1. Table(b, t) = {[i |-> b.ports[p].bridge, v |-> b.ports[p][t]] : p \in {p \in P : b.ports[p][t] # Missing}}
    BY <1>4, TablesOfDevice DEF Field
  <2> QED
    BY <1>1, <2>1
<1>5. CASE t \in {"dest", "rif", "mask", "kind"}
  <2>1. Table(b, t) = {[i |-> d, v |-> b.routes[d][t]] : d \in DOMAIN b.routes}
    BY <1>5, TablesOfDevice
  <2> QED
    BY <2>1
<1>6. CASE t \in {"enable", "detect", "present", "nadmin", "power"}
  <2> DEFINE fed == {[i |-> b.ports[p].bridge, v |-> b.ports[p].poe] : p \in Feeding(b)}
             watts == {[i |-> b.ports[p].bridge,
                        v |-> IF p \in Feeding(b) /\ b.ports[p].poe = "DELIVERING" THEN 70 ELSE 0] : p \in P}
  <2>1. Table(b, t) \in {{}, fed} \/ Table(b, t) = watts
    BY <1>6, PoeTables
  <2>2. \A p \in Feeding(b) : p \in P
    BY DEF Feeding
  <2>3. CASE Table(b, t) \in {{}, fed}
    BY <1>1, <2>2, <2>3
  <2>4. CASE Table(b, t) = watts
    BY <1>1, <2>4
  <2> QED
    BY <2>1, <2>3, <2>4
<1> QED
  BY <1>2, <1>3, <1>4, <1>5, <1>6 DEF Columns, WalkNames

LEMMA ValueIs ==
    ASSUME NEW t \in DOMAIN rows, \A r, s \in rows[t] : r.i = s.i => r = s, NEW i
    PROVE  /\ \A r \in rows[t] : r.i = i => Value(t, i) = r.v
           /\ (\A r \in rows[t] : r.i # i) => Value(t, i) = Missing
<1> DEFINE same == {r \in rows[t] : r.i = i}
<1>1. Value(t, i) = IF same = {} THEN Missing ELSE (CHOOSE r \in same : TRUE).v
  BY DEF Value
<1>2. ASSUME NEW r \in rows[t], r.i = i
      PROVE  Value(t, i) = r.v
  <2>1. r \in same
    BY <1>2
  <2>2. (CHOOSE s \in same : TRUE) \in same
    BY <2>1
  <2>3. (CHOOSE s \in same : TRUE) = r
    BY <1>2, <2>2
  <2> QED
    BY <1>1, <2>1, <2>3
<1>3. (\A r \in rows[t] : r.i # i) => same = {}
  OBVIOUS
<1> QED
  BY <1>1, <1>2, <1>3

LEMMA NoValue ==
    ASSUME NEW t, t \notin DOMAIN rows, NEW i
    PROVE  Value(t, i) = Missing
BY DEF Value

(* A column's values are those that the device had in one state, but for the     *)
(* ones that were not walked.                                                    *)
LEMMA ColumnIs ==
    ASSUME WitnessKnown, NEW t \in DOMAIN rows, t \in Columns
    PROVE  \E b \in Witnessed :
              /\ AllSeen => b = box
              /\ rows[t] \subseteq Table(b, t) /\ (t \notin cut => rows[t] = Table(b, t))
              /\ \A r \in Table(b, t) : \/ Value(t, r.i) = r.v /\ r \in rows[t]
                                        \/ Value(t, r.i) = Missing /\ t \in cut
              /\ \A i : (\A r \in Table(b, t) : r.i # i) => Value(t, i) = Missing
<1>1. PICK b \in Witnessed : rows[t] \subseteq Table(b, t) /\ (t \notin cut => rows[t] = Table(b, t))
  BY DEF WitnessKnown, Sourced
<1>2. IsBox(b)
  BY WitnessesAre DEF WitnessKnown
<1>3. AllSeen => b = box
  BY DEF AllSeen, Witnessed
<1>4. \A r, s \in rows[t] : r.i = s.i => r = s
  BY <1>1, <1>2, OneRowEach
<1>5. ASSUME NEW r \in Table(b, t)
      PROVE  \/ Value(t, r.i) = r.v /\ r \in rows[t]
             \/ Value(t, r.i) = Missing /\ t \in cut
  <2>1. CASE r \in rows[t]
    BY <1>4, <2>1, ValueIs
  <2>2. CASE r \notin rows[t]
    <3>1. \A s \in rows[t] : s.i # r.i
      BY <1>1, <1>2, <2>2, OneRowEach
    <3> QED
      BY <1>1, <1>4, <2>2, <3>1, ValueIs
  <2> QED
    BY <2>1, <2>2
<1>6. \A i : (\A r \in Table(b, t) : r.i # i) => Value(t, i) = Missing
  BY <1>1, <1>4, ValueIs
<1> QED
  BY <1>1, <1>3, <1>5, <1>6

(* The interface of a bridge port. *)
LEMMA BaseIs ==
    ASSUME WitnessKnown, "base" \in DOMAIN rows, NEW p \in DOMAIN box.ports
    PROVE  \/ Value("base", box.ports[p].bridge) = p
           \/ Value("base", box.ports[p].bridge) = Missing /\ "base" \in cut
<1>1. "base" \in Columns
  BY DEF Columns, WalkNames
<1>2. PICK b \in Witnessed :
         \A r \in Table(b, "base") : \/ Value("base", r.i) = r.v /\ r \in rows["base"]
                                     \/ Value("base", r.i) = Missing /\ "base" \in cut
  BY <1>1, ColumnIs
<1>3. DOMAIN b.ports = DOMAIN box.ports /\ b.ports[p].bridge = box.ports[p].bridge
  BY <1>2, WitnessesAre DEF WitnessKnown
<1>4. [i |-> b.ports[p].bridge, v |-> p] \in Table(b, "base")
  BY <1>3, TablesOfDevice
<1> QED
  BY <1>2, <1>3, <1>4

(* No interface has the bridge port 0. *)
LEMMA NoPortZero ==
    ASSUME WitnessKnown, "base" \in DOMAIN rows
    PROVE  Value("base", 0) = Missing
<1>1. "base" \in Columns
  BY DEF Columns, WalkNames
<1>2. PICK b \in Witnessed : (\A r \in Table(b, "base") : r.i # 0) => Value("base", 0) = Missing
  BY <1>1, ColumnIs
<1>3. \A p \in DOMAIN b.ports : b.ports[p].bridge # 0
  BY <1>2, WitnessesAre DEF WitnessKnown, IsBox
<1>4. \A r \in Table(b, "base") : r.i # 0
  BY <1>3, TablesOfDevice
<1> QED
  BY <1>2, <1>4

(* The value of a port in a column that only some ports are in. *)
LEMMA FieldIs ==
    ASSUME WitnessKnown, NEW t \in {"stp", "chassis", "remport", "pvid"}, t \in DOMAIN rows
    PROVE  \E b \in Witnessed :
              /\ AllSeen => b = box
              /\ rows[t] \subseteq Field(b, t) /\ (t \notin cut => rows[t] = Field(b, t))
              /\ \A p \in DOMAIN box.ports : \/ Value(t, box.ports[p].bridge) = b.ports[p][t]
                                             \/ Value(t, box.ports[p].bridge) = Missing /\ t \in cut
<1>1. t \in Columns
  BY DEF Columns, WalkNames
<1>2. PICK b \in Witnessed :
         /\ AllSeen => b = box
         /\ rows[t] \subseteq Table(b, t) /\ (t \notin cut => rows[t] = Table(b, t))
         /\ \A r \in Table(b, t) : \/ Value(t, r.i) = r.v /\ r \in rows[t]
                                   \/ Value(t, r.i) = Missing /\ t \in cut
         /\ \A i : (\A r \in Table(b, t) : r.i # i) => Value(t, i) = Missing
  BY <1>1, ColumnIs
<1>3. /\ DOMAIN b.ports = DOMAIN box.ports /\ IsBox(b)
      /\ \A p \in DOMAIN box.ports : b.ports[p].bridge = box.ports[p].bridge
  BY <1>2, WitnessesAre DEF WitnessKnown
<1>4. Table(b, t) = Field(b, t)
  BY TablesOfDevice
<1>5. ASSUME NEW p \in DOMAIN box.ports
      PROVE  \/ Value(t, box.ports[p].bridge) = b.ports[p][t]
             \/ Value(t, box.ports[p].bridge) = Missing /\ t \in cut
  <2>1. CASE b.ports[p][t] # Missing
    <3>1. [i |-> b.ports[p].bridge, v |-> b.ports[p][t]] \in Table(b, t)
      BY <1>3, <1>4, <2>1 DEF Field
    <3> QED
      BY <1>2, <1>3, <3>1
  <2>2. CASE b.ports[p][t] = Missing
    <3>1. \A q \in DOMAIN b.ports : b.ports[q].bridge = b.ports[p].bridge => q = p
      BY <1>3 DEF IsBox
    <3>2. \A r \in Table(b, t) : r.i # b.ports[p].bridge
      BY <1>4, <2>2, <3>1 DEF Field
    <3> QED
      BY <1>2, <1>3, <2>2, <3>2
  <2> QED
    BY <2>1, <2>2
<1> QED
  BY <1>2, <1>4, <1>5

-----------------------------------------------------------------------------
(* An answer is right: all of it when the walks were whole; else each of its     *)
(* values is one that a state had there, or stands for unknown.                  *)
Fits(m, a, f) ==
    \E b \in Witnessed : \E t \in Truth(b, m) :
        /\ t.key = a.key
        /\ \/ a[f] = t[f] \/ (m # "pvids" /\ a[f] = Unknown[f])
           \/ f = "port" /\ m \in {"lldp", "poe"} /\ (IF m = "lldp" THEN "base" ELSE "descr") \in cut
Right(m, A) ==
    /\ AllSeen => A = Truth(box, m)
    /\ \A a \in A : "key" \in DOMAIN a /\ \A f \in DOMAIN a \ {"key"} : Fits(m, a, f)

LEMMA Unknowns ==
    /\ Unknown["admin"] = "UNKNOWN" /\ Unknown["stp"] = Missing /\ Unknown["port"] = Missing
    /\ Unknown["remport"] = Missing /\ Unknown["vlan"] = Missing /\ Unknown["rif"] = Missing
    /\ Unknown["mask"] = 32 /\ Unknown["kind"] = "DIRECT" /\ Unknown["enabled"] = TRUE
    /\ Unknown["status"] = IF box.poeMib = "standard" THEN "DISABLED" ELSE "SEARCHING"
BY DEF Unknown

LEMMA InterfacesRight ==
    ASSUME WitnessKnown, WalksNeeded("interfaces") \subseteq DOMAIN rows
    PROVE  Right("interfaces", Interfaces)
<1> DEFINE P == DOMAIN box.ports
           stp(p) == {r \in rows["stp"] : Value("base", r.i) = p}
           seen(p) == IF stp(p) = {} THEN Missing ELSE (CHOOSE x \in stp(p) : TRUE).v
           up(p) == Default(Value("admin", p), "UNKNOWN")
           row(p) == [key |-> p, admin |-> up(p), stp |-> seen(p)]
           real(b, p) == [key |-> p, admin |-> b.ports[p].admin, stp |-> b.ports[p].stp]
<1>1. {"descr", "admin", "base", "stp"} \subseteq DOMAIN rows /\ "descr" \in Columns /\ "admin" \in Columns
  BY DEF WalksNeeded, Columns, WalkNames
<1>2. P \subseteq Nat /\ \A p, q \in P : box.ports[p].bridge = box.ports[q].bridge => p = q
  BY WitnessesAre DEF WitnessKnown, IsBox
<1>3. \A b \in Witnessed : Truth(b, "interfaces") = {real(b, p) : p \in P}
  <2>1. ASSUME NEW b \in Witnessed
        PROVE  Truth(b, "interfaces") = {real(b, p) : p \in P}
    <3>1. DOMAIN b.ports = P
      BY WitnessesAre DEF WitnessKnown
    <3> QED
      BY <3>1 DEF Truth
  <2> QED
    BY <2>1
<1>4. Interfaces = {row(r.i) : r \in rows["descr"]}
  BY DEF Interfaces
<1>5. /\ \A r \in rows["descr"] : r.i \in P
      /\ AllSeen => \A p \in P : \E r \in rows["descr"] : r.i = p
  <2>1. PICK b \in Witnessed : /\ AllSeen => b = box
                               /\ rows["descr"] \subseteq Table(b, "descr")
                               /\ "descr" \notin cut => rows["descr"] = Table(b, "descr")
    BY <1>1, ColumnIs
  <2>2. DOMAIN b.ports = P
    BY WitnessesAre DEF WitnessKnown
  <2>3. Table(b, "descr") = {[i |-> p, v |-> b.ports[p].number] : p \in P}
    BY <2>2, TablesOfDevice
  <2>4. AllSeen => rows["descr"] = Table(b, "descr")
    BY <2>1 DEF AllSeen
  <2>5. ASSUME NEW p \in P
        PROVE  \E r \in Table(b, "descr") : r.i = p
    <3>1. [i |-> p, v |-> b.ports[p].number] \in Table(b, "descr")
      BY <2>3
    <3>2. [i |-> p, v |-> b.ports[p].number].i = p
      OBVIOUS
    <3> QED
      BY <3>1, <3>2
  <2>6. \A r \in Table(b, "descr") : r.i \in P
    BY <2>3
  <2> QED
    BY <2>1, <2>4, <2>5, <2>6
<1>6. \E b \in Witnessed : /\ AllSeen => b = box
                           /\ \A p \in P : \/ up(p) = b.ports[p].admin
                                           \/ up(p) = "UNKNOWN" /\ ~AllSeen
  <2>1. PICK b \in Witnessed : /\ AllSeen => b = box
                               /\ \A r \in Table(b, "admin") : \/ Value("admin", r.i) = r.v
                                                               \/ Value("admin", r.i) = Missing /\ "admin" \in cut
    BY <1>1, ColumnIs
  <2>2. DOMAIN b.ports = P /\ IsBox(b)
    BY WitnessesAre DEF WitnessKnown
  <2>3. \A p \in P : [i |-> p, v |-> b.ports[p].admin] \in Table(b, "admin")
    BY <2>2, TablesOfDevice
  <2>4. \A p \in P : b.ports[p].admin # Missing
    BY <2>2 DEF IsBox
  <2>5. ASSUME NEW p \in P
        PROVE  up(p) = b.ports[p].admin \/ (up(p) = "UNKNOWN" /\ ~AllSeen)
    <3>1. Value("admin", p) = b.ports[p].admin \/ (Value("admin", p) = Missing /\ "admin" \in cut)
      BY <2>1, <2>3
    <3> QED
      BY <2>4, <3>1 DEF Default, AllSeen
  <2> QED
    BY <2>1, <2>5
<1>7. \E b \in Witnessed : /\ AllSeen => b = box
                           /\ \A p \in P : \/ seen(p) = b.ports[p].stp
                                           \/ seen(p) = Missing /\ ~AllSeen
  <2>1. PICK b \in Witnessed : /\ AllSeen => b = box
                               /\ rows["stp"] \subseteq Field(b, "stp")
                               /\ "stp" \notin cut => rows["stp"] = Field(b, "stp")
    BY <1>1, FieldIs
  <2>2. DOMAIN b.ports = P /\ \A p \in P : b.ports[p].bridge = box.ports[p].bridge
    BY WitnessesAre DEF WitnessKnown
  <2>3. ASSUME NEW p \in P, NEW r \in stp(p)
        PROVE  r.v = b.ports[p].stp
    <3>1. PICK q \in P : r = [i |-> b.ports[q].bridge, v |-> b.ports[q]["stp"]]
      BY <2>1, <2>2, <2>3 DEF Field
    <3>2. Value("base", box.ports[q].bridge) = p
      BY <2>2, <2>3, <3>1
    <3>3. p = q
      BY <1>1, <1>2, <3>2, BaseIs, BoxesAssumption
    <3> QED
      BY <3>1, <3>3
  <2>4. ASSUME NEW p \in P
        PROVE  seen(p) = b.ports[p].stp \/ (seen(p) = Missing /\ ~AllSeen)
    <3>1. CASE stp(p) # {}
      <4>1. (CHOOSE x \in stp(p) : TRUE) \in stp(p)
        BY <3>1
      <4> HIDE DEF stp
      <4>2. (CHOOSE x \in stp(p) : TRUE).v = b.ports[p].stp
        BY <2>3, <4>1
      <4> QED
        BY <3>1, <4>2
    <3>2. CASE stp(p) = {}
      <4>1. ASSUME AllSeen, b.ports[p].stp # Missing
            PROVE  FALSE
        <5>1. [i |-> b.ports[p].bridge, v |-> b.ports[p]["stp"]] \in Field(b, "stp")
          BY <2>2, <4>1 DEF Field
        <5>2. rows["stp"] = Field(b, "stp")
          BY <2>1, <4>1 DEF AllSeen
        <5>3. Value("base", b.ports[p].bridge) = p
          BY <1>1, <2>2, <4>1, BaseIs DEF AllSeen
        <5> QED
          BY <3>2, <5>1, <5>2, <5>3
      <4> QED
        BY <3>2, <4>1
    <3> QED
      BY <3>1, <3>2
  <2> HIDE DEF seen
  <2> QED
    BY <2>1, <2>4
<1> HIDE DEF up, seen
<1>8. AllSeen => Interfaces = Truth(box, "interfaces")
  <2> SUFFICES ASSUME AllSeen PROVE Interfaces = Truth(box, "interfaces")
    OBVIOUS
  <2>1. \A p \in P : row(p) = real(box, p)
    BY <1>6, <1>7
  <2>2. Interfaces = {row(p) : p \in P}
    <3> HIDE DEF row
    <3> QED
      BY <1>4, <1>5
  <2>3. {row(p) : p \in P} = {real(box, p) : p \in P}
    <3> HIDE DEF row, real
    <3> QED
      BY <2>1
  <2>4. box \in Witnessed
    BY WitnessesAre DEF WitnessKnown
  <2> QED
    BY <1>3, <2>2, <2>3, <2>4
<1>9. ASSUME NEW a \in Interfaces
      PROVE  "key" \in DOMAIN a /\ \A f \in DOMAIN a \ {"key"} : Fits("interfaces", a, f)
  <2>1. PICK p \in P : a = row(p)
    BY <1>4, <1>5
  <2>2. DOMAIN a = {"key", "admin", "stp"} /\ a.key = p /\ a["admin"] = up(p) /\ a["stp"] = seen(p)
    BY <2>1
  <2>3. \A b \in Witnessed : /\ real(b, p) \in Truth(b, "interfaces") /\ real(b, p).key = p
                             /\ real(b, p)["admin"] = b.ports[p].admin /\ real(b, p)["stp"] = b.ports[p].stp
    <3>1. \A b : real(b, p).key = p /\ real(b, p)["admin"] = b.ports[p].admin /\ real(b, p)["stp"] = b.ports[p].stp
      OBVIOUS
    <3> HIDE DEF real
    <3> QED
      BY <1>3, <3>1
  <2>4. box \in Witnessed
    BY WitnessesAre DEF WitnessKnown
  <2> HIDE DEF real
  <2>5. Fits("interfaces", a, "admin")
    BY <1>6, <2>2, <2>3, Unknowns DEF Fits
  <2>6. Fits("interfaces", a, "stp")
    BY <1>7, <2>2, <2>3, Unknowns DEF Fits
  <2> QED
    BY <2>2, <2>5, <2>6
<1> QED
  BY <1>8, <1>9 DEF Right

LEMMA NeighboursRight ==
    ASSUME WitnessKnown, "chassis" \in DOMAIN rows, rows["chassis"] # {} => {"remport", "base"} \subseteq DOMAIN rows
    PROVE  Right("lldp", Neighbours)
<1> DEFINE P == DOMAIN box.ports
           at(p) == box.ports[p].bridge
           row(p, v) == [key |-> v, port |-> Default(Value("base", at(p)), at(p)), remport |-> Value("remport", at(p))]
           real(b, p) == [key |-> b.ports[p].chassis, port |-> p, remport |-> b.ports[p].remport]
           near(b) == {p \in P : b.ports[p].chassis # Missing}
<1>1. P \subseteq Nat
  BY WitnessesAre DEF WitnessKnown, IsBox
<1>2. \A b \in Witnessed : Truth(b, "lldp") = {real(b, p) : p \in near(b)}
  <2>1. ASSUME NEW b \in Witnessed
        PROVE  Truth(b, "lldp") = {real(b, p) : p \in near(b)}
    <3>1. DOMAIN b.ports = P
      BY WitnessesAre DEF WitnessKnown
    <3> QED
      BY <3>1 DEF Truth
  <2> QED
    BY <2>1
<1>3. PICK c \in Witnessed : /\ AllSeen => c = box
                             /\ rows["chassis"] \subseteq Field(c, "chassis")
                             /\ "chassis" \notin cut => rows["chassis"] = Field(c, "chassis")
  BY FieldIs
<1>4. Field(c, "chassis") = {[i |-> at(p), v |-> c.ports[p].chassis] : p \in near(c)}
  <2>1. DOMAIN c.ports = P /\ \A p \in P : c.ports[p].bridge = at(p)
    BY WitnessesAre DEF WitnessKnown
  <2> QED
    BY <2>1 DEF Field
<1>5. Neighbours \subseteq {row(p, c.ports[p].chassis) : p \in near(c)}
  <2>1. ASSUME NEW a \in Neighbours
        PROVE  \E p \in near(c) : a = row(p, c.ports[p].chassis)
    <3>1. PICK r \in rows["chassis"] :
            a = [key |-> r.v, port |-> Default(Value("base", r.i), r.i), remport |-> Value("remport", r.i)]
      BY DEF Neighbours
    <3>2. PICK p \in near(c) : r = [i |-> at(p), v |-> c.ports[p].chassis]
      BY <1>3, <1>4, <3>1
    <3>3. r.i = at(p) /\ r.v = c.ports[p].chassis
      BY <3>2
    <3> QED
      BY <3>1, <3>3
  <2> HIDE DEF row
  <2> QED
    BY <2>1
<1>6. AllSeen => Neighbours = {row(p, c.ports[p].chassis) : p \in near(c)}
  <2> SUFFICES ASSUME AllSeen, NEW p \in near(c)
               PROVE  row(p, c.ports[p].chassis) \in Neighbours
    BY <1>5
  <2>1. PICK r \in rows["chassis"] : r = [i |-> at(p), v |-> c.ports[p].chassis]
    BY <1>3, <1>4 DEF AllSeen
  <2>2. r.i = at(p) /\ r.v = c.ports[p].chassis
    BY <2>1
  <2>3. [key |-> r.v, port |-> Default(Value("base", r.i), r.i), remport |-> Value("remport", r.i)] \in Neighbours
    BY DEF Neighbours
  <2> QED
    BY <2>2, <2>3
<1>7. ASSUME rows["chassis"] # {}, NEW p \in P
      PROVE  \/ Default(Value("base", at(p)), at(p)) = p
             \/ "base" \in cut
  <2>1. Value("base", at(p)) = p \/ "base" \in cut
    BY <1>7, BaseIs
  <2>2. p # Missing
    BY <1>1, BoxesAssumption
  <2> QED
    BY <2>1, <2>2 DEF Default
<1>8. ASSUME rows["chassis"] # {}
      PROVE  \E d \in Witnessed : /\ AllSeen => d = box
                                  /\ \A p \in P : \/ Value("remport", at(p)) = d.ports[p].remport
                                                  \/ Value("remport", at(p)) = Missing /\ ~AllSeen
  <2>1. PICK d \in Witnessed : /\ AllSeen => d = box
                               /\ \A p \in P : \/ Value("remport", at(p)) = d.ports[p]["remport"]
                                               \/ Value("remport", at(p)) = Missing /\ "remport" \in cut
    BY <1>8, FieldIs
  <2> QED
    BY <2>1 DEF AllSeen
<1>9. AllSeen => Neighbours = Truth(box, "lldp")
  <2> SUFFICES ASSUME AllSeen PROVE Neighbours = Truth(box, "lldp")
    OBVIOUS
  <2>1. c = box /\ Truth(box, "lldp") = {real(box, p) : p \in near(box)}
    BY <1>2, <1>3
  <2>2. CASE rows["chassis"] = {}
    <3>1. ASSUME NEW p \in near(c)
          PROVE  FALSE
      <4>1. [i |-> at(p), v |-> c.ports[p].chassis] \in Field(c, "chassis")
        BY <1>4
      <4>2. rows["chassis"] = Field(c, "chassis")
        BY <1>3 DEF AllSeen
      <4> QED
        BY <2>2, <4>1, <4>2
    <3> HIDE DEF row, real, near
    <3>2. Neighbours = {}
      BY <1>5, <3>1
    <3>3. Truth(box, "lldp") = {}
      BY <2>1, <3>1
    <3> QED
      BY <3>2, <3>3
  <2>3. CASE rows["chassis"] # {}
    <3>1. ASSUME NEW p \in near(c)
          PROVE  row(p, c.ports[p].chassis) = real(c, p)
      BY <1>7, <1>8, <2>1, <2>3 DEF AllSeen
    <3> HIDE DEF row, real, near
    <3>2. \A a \in Neighbours : \E p \in near(c) : a = real(c, p)
      BY <1>5, <3>1
    <3>3. \A p \in near(c) : real(c, p) \in Neighbours
      BY <1>6, <3>1
    <3>4. Neighbours = {real(c, p) : p \in near(c)}
      BY <3>2, <3>3
    <3> QED
      BY <2>1, <3>4
  <2> QED
    BY <2>2, <2>3
<1>10. ASSUME NEW a \in Neighbours
       PROVE  "key" \in DOMAIN a /\ \A f \in DOMAIN a \ {"key"} : Fits("lldp", a, f)
  <2>1. PICK p \in near(c) : a = row(p, c.ports[p].chassis)
    BY <1>5
  <2>2. rows["chassis"] # {}
    BY DEF Neighbours
  <2>3. /\ DOMAIN a = {"key", "port", "remport"} /\ a.key = c.ports[p].chassis
        /\ a["port"] = Default(Value("base", at(p)), at(p)) /\ a["remport"] = Value("remport", at(p))
    BY <2>1
  <2>4. \A b : real(b, p).key = b.ports[p].chassis /\ real(b, p)["port"] = p /\ real(b, p)["remport"] = b.ports[p].remport
    OBVIOUS
  <2>5. p \in P /\ c.ports[p].chassis # Missing /\ real(c, p) \in Truth(c, "lldp")
    BY <1>2
  <2>6. Fits("lldp", a, "port")
    <3> HIDE DEF real
    <3> QED
      BY <1>3, <1>7, <2>2, <2>3, <2>4, <2>5 DEF Fits
  <2>7. Fits("lldp", a, "remport")
    <3>1. PICK d \in Witnessed : \/ Value("remport", at(p)) = d.ports[p].remport
                                 \/ Value("remport", at(p)) = Missing
      BY <1>8, <2>2, <2>5
    <3>2. CASE Value("remport", at(p)) = Missing
      <4> HIDE DEF real
      <4> QED
        BY <1>3, <2>3, <2>4, <2>5, <3>2, Unknowns DEF Fits
    <3>3. CASE Value("remport", at(p)) = d.ports[p].remport /\ d.ports[p].remport # Missing
      <4>1. d.ports[p].chassis = c.ports[p].chassis
        BY <1>3, <2>5, <3>1, <3>3, WitnessesAre, NeighboursStay DEF WitnessKnown, IsBox
      <4>2. real(d, p) \in Truth(d, "lldp")
        BY <1>2, <2>5, <4>1
      <4> HIDE DEF real
      <4> QED
        BY <2>3, <2>4, <3>1, <3>3, <4>1, <4>2 DEF Fits
    <3> QED
      BY <3>1, <3>2, <3>3
  <2> QED
    BY <2>3, <2>6, <2>7
<1> QED
  BY <1>9, <1>10 DEF Right

LEMMA PvidsRight ==
    ASSUME WitnessKnown, WalksNeeded("pvids") \subseteq DOMAIN rows
    PROVE  Right("pvids", Pvids)
<1> DEFINE P == DOMAIN box.ports
           at(p) == box.ports[p].bridge
           real(b, p) == [key |-> p, vlan |-> b.ports[p].pvid]
<1>1. "pvid" \in DOMAIN rows /\ "base" \in DOMAIN rows
  BY DEF WalksNeeded
<1>2. P \subseteq Nat
  BY WitnessesAre DEF WitnessKnown, IsBox
<1>3. PICK b \in Witnessed : /\ AllSeen => b = box
                             /\ rows["pvid"] \subseteq Field(b, "pvid")
                             /\ "pvid" \notin cut => rows["pvid"] = Field(b, "pvid")
  BY <1>1, FieldIs
<1>4. DOMAIN b.ports = P /\ (\A p \in P : b.ports[p].bridge = at(p)) /\ (\A p \in P : b.ports[p].pvid # Missing)
  BY WitnessesAre, BoxesAssumption DEF WitnessKnown, IsBox
<1>5. Truth(b, "pvids") = {real(b, p) : p \in P}
  BY <1>4 DEF Truth
<1>6. Field(b, "pvid") = {[i |-> at(p), v |-> b.ports[p].pvid] : p \in P}
  BY <1>4 DEF Field
<1>7. ASSUME NEW a \in Pvids
      PROVE  \E p \in P : a = real(b, p)
  <2>1. PICK r \in rows["pvid"] : Value("base", r.i) # Missing /\ a = [key |-> Value("base", r.i), vlan |-> r.v]
    BY DEF Pvids
  <2>2. PICK p \in P : r = [i |-> at(p), v |-> b.ports[p].pvid]
    BY <1>3, <1>6, <2>1
  <2>3. Value("base", r.i) = p /\ r.v = b.ports[p].pvid
    BY <1>1, <2>1, <2>2, BaseIs
  <2> QED
    BY <2>1, <2>3
<1>8. ASSUME AllSeen, NEW p \in P
      PROVE  real(b, p) \in Pvids
  <2>1. PICK r \in rows["pvid"] : r = [i |-> at(p), v |-> b.ports[p].pvid]
    BY <1>3, <1>6, <1>8 DEF AllSeen
  <2>2. Value("base", r.i) = p /\ r.v = b.ports[p].pvid /\ p # Missing
    BY <1>1, <1>2, <1>8, <2>1, BaseIs, BoxesAssumption DEF AllSeen
  <2>3. [key |-> Value("base", r.i), vlan |-> r.v] \in Pvids
    BY <2>2 DEF Pvids
  <2> QED
    BY <2>2, <2>3
<1>9. AllSeen => Pvids = Truth(box, "pvids")
  <2> HIDE DEF real
  <2> QED
    BY <1>3, <1>5, <1>7, <1>8
<1>10. ASSUME NEW a \in Pvids
       PROVE  "key" \in DOMAIN a /\ \A f \in DOMAIN a \ {"key"} : Fits("pvids", a, f)
  <2>1. PICK p \in P : a = real(b, p)
    BY <1>7, <1>10
  <2>2. a \in Truth(b, "pvids") /\ "key" \in DOMAIN a
    BY <1>5, <2>1
  <2> QED
    BY <2>2 DEF Fits
<1> QED
  BY <1>9, <1>10 DEF Right

LEMMA RoutesRight ==
    ASSUME WitnessKnown, WalksNeeded("routes") \subseteq DOMAIN rows
    PROVE  Right("routes", Routes)
<1> DEFINE real(b, d) == [key |-> d, rif |-> b.routes[d].rif, mask |-> b.routes[d].mask, kind |-> b.routes[d].kind]
           row(d) == [key |-> d, rif |-> Value("rif", d), mask |-> Default(Value("mask", d), 32),
                      kind |-> Default(Value("kind", d), "DIRECT")]
<1>1. {"dest", "rif", "mask", "kind"} \subseteq DOMAIN rows /\ {"dest", "rif", "mask", "kind"} \subseteq Columns
  BY DEF WalksNeeded, Columns, WalkNames
<1>2. \A b : Truth(b, "routes") = {real(b, d) : d \in DOMAIN b.routes}
  BY DEF Truth
<1>3. \A b \in Witnessed : \A d \in DOMAIN b.routes :
         b.routes[d].dest = d /\ b.routes[d].mask # Missing /\ b.routes[d].kind # Missing
  <2>1. \A b \in Witnessed : IsBox(b)
    BY WitnessesAre DEF WitnessKnown
  <2> QED
    BY <2>1 DEF IsBox
<1>4. PICK b \in Witnessed : /\ AllSeen => b = box
                             /\ rows["dest"] \subseteq Table(b, "dest")
                             /\ "dest" \notin cut => rows["dest"] = Table(b, "dest")
  BY <1>1, ColumnIs
<1>5. Table(b, "dest") = {[i |-> d, v |-> d] : d \in DOMAIN b.routes}
  <2>1. Table(b, "dest") = {[i |-> d, v |-> b.routes[d]["dest"]] : d \in DOMAIN b.routes}
    BY TablesOfDevice
  <2> QED
    BY <1>3, <2>1
<1>6. ASSUME NEW a \in Routes
      PROVE  \E d \in DOMAIN b.routes : a = row(d)
  <2>1. PICK r \in rows["dest"] : a = [key |-> r.v, rif |-> Value("rif", r.i), mask |-> Default(Value("mask", r.i), 32),
                                       kind |-> Default(Value("kind", r.i), "DIRECT")]
    BY DEF Routes
  <2>2. PICK d \in DOMAIN b.routes : r = [i |-> d, v |-> d]
    BY <1>4, <1>5, <2>1
  <2>3. r.i = d /\ r.v = d
    BY <2>2
  <2> QED
    BY <2>1, <2>3
<1>7. ASSUME AllSeen, NEW d \in DOMAIN b.routes
      PROVE  row(d) \in Routes
  <2>1. PICK r \in rows["dest"] : r = [i |-> d, v |-> d]
    BY <1>4, <1>5, <1>7 DEF AllSeen
  <2>2. r.i = d /\ r.v = d
    BY <2>1
  <2>3. [key |-> r.v, rif |-> Value("rif", r.i), mask |-> Default(Value("mask", r.i), 32),
         kind |-> Default(Value("kind", r.i), "DIRECT")] \in Routes
    BY DEF Routes
  <2> QED
    BY <2>2, <2>3
<1>8. ASSUME NEW t \in {"rif", "mask", "kind"}
      PROVE  \E c \in Witnessed :
                /\ AllSeen => c = box
                /\ \A d : \/ d \in DOMAIN c.routes /\ Value(t, d) = c.routes[d][t]
                          \/ Value(t, d) = Missing /\ (AllSeen => d \notin DOMAIN c.routes)
  <2>1. t \in DOMAIN rows /\ t \in Columns
    BY <1>1, <1>8
  <2>2. PICK c \in Witnessed : /\ AllSeen => c = box
                               /\ \A r \in Table(c, t) : \/ Value(t, r.i) = r.v /\ r \in rows[t]
                                                         \/ Value(t, r.i) = Missing /\ t \in cut
                               /\ \A i : (\A r \in Table(c, t) : r.i # i) => Value(t, i) = Missing
    BY <2>1, ColumnIs
  <2>3. Table(c, t) = {[i |-> d, v |-> c.routes[d][t]] : d \in DOMAIN c.routes}
    BY <1>8, TablesOfDevice
  <2>4. ASSUME NEW d
        PROVE  \/ d \in DOMAIN c.routes /\ Value(t, d) = c.routes[d][t]
               \/ Value(t, d) = Missing /\ (AllSeen => d \notin DOMAIN c.routes)
    <3>1. CASE d \in DOMAIN c.routes
      <4>1. [i |-> d, v |-> c.routes[d][t]] \in Table(c, t)
        BY <2>3, <3>1
      <4>2. Value(t, d) = c.routes[d][t] \/ (Value(t, d) = Missing /\ t \in cut)
        BY <2>2, <4>1
      <4> QED
        BY <3>1, <4>2 DEF AllSeen
    <3>2. CASE d \notin DOMAIN c.routes
      <4>1. \A r \in Table(c, t) : r.i # d
        BY <2>3, <3>2
      <4> QED
        BY <2>2, <3>2, <4>1
    <3> QED
      BY <3>1, <3>2
  <2> QED
    BY <2>2, <2>4
<1>9. AllSeen => Routes = Truth(box, "routes")
  <2>1. ASSUME AllSeen, NEW d \in DOMAIN b.routes
        PROVE  row(d) = real(b, d)
    <3>1. b = box
      BY <1>4, <2>1
    <3>2. Value("rif", d) = b.routes[d]["rif"]
      BY <1>8, <2>1, <3>1
    <3>3. Value("mask", d) = b.routes[d]["mask"]
      BY <1>8, <2>1, <3>1
    <3>4. Value("kind", d) = b.routes[d]["kind"]
      BY <1>8, <2>1, <3>1
    <3>5. b.routes[d].mask # Missing /\ b.routes[d].kind # Missing
      BY <1>3
    <3> QED
      BY <3>2, <3>3, <3>4, <3>5 DEF Default
  <2>2. ASSUME AllSeen
        PROVE  Routes = {real(b, d) : d \in DOMAIN b.routes}
    <3> HIDE DEF row, real
    <3>1. \A a \in Routes : \E d \in DOMAIN b.routes : a = real(b, d)
      BY <1>6, <2>1, <2>2
    <3>2. \A d \in DOMAIN b.routes : real(b, d) \in Routes
      BY <1>7, <2>1, <2>2
    <3> QED
      BY <3>1, <3>2
  <2> HIDE DEF real
  <2> QED
    BY <1>2, <1>4, <2>2
<1>10. ASSUME NEW a \in Routes
       PROVE  "key" \in DOMAIN a /\ \A f \in DOMAIN a \ {"key"} : Fits("routes", a, f)
  <2>1. PICK d \in DOMAIN b.routes : a = row(d)
    BY <1>6, <1>10
  <2>2. /\ DOMAIN a = {"key", "rif", "mask", "kind"} /\ a.key = d /\ a["rif"] = Value("rif", d)
        /\ a["mask"] = Default(Value("mask", d), 32) /\ a["kind"] = Default(Value("kind", d), "DIRECT")
    BY <2>1
  <2>3. \A c : /\ real(c, d).key = d /\ real(c, d)["rif"] = c.routes[d]["rif"]
               /\ real(c, d)["mask"] = c.routes[d]["mask"] /\ real(c, d)["kind"] = c.routes[d]["kind"]
    OBVIOUS
  <2>4. \A c : d \in DOMAIN c.routes => real(c, d) \in Truth(c, "routes")
    BY <1>2
  <2> HIDE DEF real
  <2>5. Fits("routes", a, "rif")
    <3>1. PICK c \in Witnessed : (d \in DOMAIN c.routes /\ Value("rif", d) = c.routes[d]["rif"]) \/ Value("rif", d) = Missing
      BY <1>8
    <3>2. CASE Value("rif", d) = Missing
      <4>1. a["rif"] = Unknown["rif"]
        BY <2>2, <3>2, Unknowns
      <4> QED
        BY <1>4, <2>1, <2>2, <2>3, <2>4, <4>1 DEF Fits
    <3>3. CASE d \in DOMAIN c.routes /\ Value("rif", d) = c.routes[d]["rif"]
      BY <2>2, <2>3, <2>4, <3>3 DEF Fits
    <3> QED
      BY <3>1, <3>2, <3>3
  <2>6. Fits("routes", a, "mask")
    <3>1. PICK c \in Witnessed :
            (d \in DOMAIN c.routes /\ Value("mask", d) = c.routes[d]["mask"]) \/ Value("mask", d) = Missing
      BY <1>8
    <3>2. a["mask"] = Value("mask", d) \/ a["mask"] = 32
      BY <2>2 DEF Default
    <3>3. Value("mask", d) = Missing => a["mask"] = 32
      BY <2>2 DEF Default
    <3>4. CASE a["mask"] = 32
      <4>1. a["mask"] = Unknown["mask"]
        BY <3>4, Unknowns
      <4> QED
        BY <1>4, <2>1, <2>2, <2>3, <2>4, <4>1 DEF Fits
    <3>5. CASE d \in DOMAIN c.routes /\ a["mask"] = c.routes[d]["mask"]
      BY <2>2, <2>3, <2>4, <3>5 DEF Fits
    <3> QED
      BY <3>1, <3>2, <3>3, <3>4, <3>5
  <2>7. Fits("routes", a, "kind")
    <3>1. PICK c \in Witnessed :
            (d \in DOMAIN c.routes /\ Value("kind", d) = c.routes[d]["kind"]) \/ Value("kind", d) = Missing
      BY <1>8
    <3>2. a["kind"] = Value("kind", d) \/ a["kind"] = "DIRECT"
      BY <2>2 DEF Default
    <3>3. Value("kind", d) = Missing => a["kind"] = "DIRECT"
      BY <2>2 DEF Default
    <3>4. CASE a["kind"] = "DIRECT"
      <4>1. a["kind"] = Unknown["kind"]
        BY <3>4, Unknowns
      <4> QED
        BY <1>4, <2>1, <2>2, <2>3, <2>4, <4>1 DEF Fits
    <3>5. CASE d \in DOMAIN c.routes /\ a["kind"] = c.routes[d]["kind"]
      BY <2>2, <2>3, <2>4, <3>5 DEF Fits
    <3> QED
      BY <3>1, <3>2, <3>3, <3>4, <3>5
  <2> QED
    BY <2>2, <2>5, <2>6, <2>7
<1> QED
  BY <1>9, <1>10 DEF Right

LEMMA LearntIs ==
    ASSUME NEW b, NEW r
    PROVE  r \in Learnt(b) <=>
             \E p \in DOMAIN b.ports : \E m \in b.ports[p].macs :
                r = [i |-> m, v |-> b.ports[p].bridge, fid |-> 10 * b.ports[p].pvid]
BY DEF Learnt

(* The entries of a FDB, and the VLANs of their ids. *)
FdbEntry(b, p, m) == [i |-> m, v |-> b.ports[p].bridge, fid |-> 10 * b.ports[p].pvid]
VlanAt(b, p) == IF b.fdbMib = "q" THEN b.ports[p].pvid ELSE Missing
OfPort(b, r, p, m) ==
    /\ p \in DOMAIN box.ports /\ m \in b.ports[p].macs /\ r = FdbEntry(b, p, m)
    /\ VlanOf(r) \in {VlanAt(b, p), Missing} /\ (AllSeen => VlanOf(r) = VlanAt(b, p))
OfItself(b, r) == b.fdbMib = "bridge" /\ r = Itself /\ VlanOf(r) = Missing
EntriesOf(b) ==
    /\ \A r \in Entries : OfItself(b, r) \/ \E p, m : OfPort(b, r, p, m)
    /\ AllSeen => /\ b = box
                  /\ \A p \in DOMAIN box.ports : \A m \in b.ports[p].macs : FdbEntry(b, p, m) \in Entries
                  /\ b.fdbMib # "q" => OfItself(b, Itself) /\ Itself \in Entries

LEMMA BridgeEntries ==
    ASSUME WitnessKnown, "fdb" \in DOMAIN rows, rows["fdb"] # {}, "fids" \notin DOMAIN rows
    PROVE  \E b \in Witnessed : EntriesOf(b)
<1>1. PICK b \in Witnessed : rows["fdb"] \subseteq Table(b, "fdb") /\ ("fdb" \notin cut => rows["fdb"] = Table(b, "fdb"))
  BY DEF WitnessKnown, Sourced
<1>2. DOMAIN b.ports = DOMAIN box.ports /\ (AllSeen => b = box)
  BY WitnessesAre DEF WitnessKnown, AllSeen, Witnessed
<1>3. b.fdbMib = "bridge" /\ Table(b, "fdb") = Learnt(b) \cup {Itself}
  BY <1>1, TablesOfDevice
<1>4. Entries = rows["fdb"]
  BY DEF Entries
<1>5. \A r : VlanOf(r) = Missing
  BY DEF VlanOf
<1>6. ASSUME NEW r \in Entries
      PROVE  OfItself(b, r) \/ \E p, m : OfPort(b, r, p, m)
  <2>1. r \in Learnt(b) \cup {Itself}
    BY <1>1, <1>3, <1>4
  <2>2. CASE r = Itself
    BY <1>3, <1>5, <2>2 DEF OfItself
  <2>3. CASE r \in Learnt(b)
    <3>1. PICK p \in DOMAIN box.ports : \E m \in b.ports[p].macs : r = FdbEntry(b, p, m)
      BY <1>2, <2>3, LearntIs DEF FdbEntry
    <3>2. VlanAt(b, p) = Missing
      BY <1>3 DEF VlanAt
    <3> QED
      BY <1>5, <3>1, <3>2 DEF OfPort
  <2> QED
    BY <2>1, <2>2, <2>3
<1>7. ASSUME AllSeen
      PROVE  Learnt(b) \cup {Itself} = Entries /\ OfItself(b, Itself)
  BY <1>1, <1>3, <1>4, <1>5, <1>7 DEF AllSeen, OfItself
<1>8. ASSUME NEW p \in DOMAIN box.ports, NEW m \in b.ports[p].macs
      PROVE  FdbEntry(b, p, m) \in Learnt(b)
  BY <1>2, LearntIs DEF FdbEntry
<1> QED
  BY <1>2, <1>6, <1>7, <1>8 DEF EntriesOf

LEMMA VlanEntries ==
    ASSUME WitnessKnown, {"fdb", "qfdb", "fids"} \subseteq DOMAIN rows, rows["fdb"] = {}
    PROVE  \E b \in Witnessed : EntriesOf(b)
<1> DEFINE P == DOMAIN box.ports
<1>1. PICK b \in Witnessed : rows["qfdb"] \subseteq Table(b, "qfdb") /\ ("qfdb" \notin cut => rows["qfdb"] = Table(b, "qfdb"))
  BY DEF WitnessKnown, Sourced
<1>2. PICK c \in Witnessed : rows["fids"] \subseteq Table(c, "fids") /\ ("fids" \notin cut => rows["fids"] = Table(c, "fids"))
  BY DEF WitnessKnown, Sourced
<1>3. DOMAIN b.ports = P /\ DOMAIN c.ports = P /\ IsBox(b) /\ IsBox(c) /\ (AllSeen => b = box /\ c = box)
  BY WitnessesAre DEF WitnessKnown, AllSeen, Witnessed
<1>4. Entries = {r \in rows["qfdb"] : r.v # 0}
  BY DEF Entries
<1>5. \A p \in P : b.ports[p].pvid \in Nat /\ c.ports[p].pvid \in Nat /\ b.ports[p].bridge # 0
  BY <1>3 DEF IsBox
<1>6. Table(c, "fids") = {[i |-> c.ports[p].pvid, v |-> 10 * c.ports[p].pvid] : p \in P}
  BY <1>3, TablesOfDevice
<1>7. ASSUME NEW r \in Entries
      PROVE  b.fdbMib = "q" /\ r \in Learnt(b)
  <2>1. r \in Table(b, "qfdb") /\ r.v # 0
    BY <1>1, <1>4
  <2>2. b.fdbMib = "q" /\ r \in Learnt(b) \cup {Itself}
    BY <2>1, TablesOfDevice
  <2>3. Itself.v = 0
    BY DEF Itself
  <2> QED
    BY <2>1, <2>2, <2>3
<1>8. ASSUME NEW p \in P, NEW r, r.fid = 10 * b.ports[p].pvid
      PROVE  VlanOf(r) \in {b.ports[p].pvid, Missing} /\ (AllSeen => VlanOf(r) = b.ports[p].pvid)
  <2> DEFINE vlans == {f.i : f \in {f \in rows["fids"] : f.v = r.fid}}
             n == b.ports[p].pvid
  <2>1. VlanOf(r) = IF vlans = {} THEN Missing ELSE CHOOSE v \in vlans : \A u \in vlans : u <= v
    BY DEF VlanOf
  <2>2. ASSUME NEW f \in rows["fids"], f.v = r.fid
        PROVE  f.i = n
    <3>1. PICK q \in P : f = [i |-> c.ports[q].pvid, v |-> 10 * c.ports[q].pvid]
      BY <1>2, <1>6, <2>2
    <3>2. f.i = c.ports[q].pvid /\ 10 * c.ports[q].pvid = 10 * n
      BY <1>8, <2>2, <3>1
    <3>3. c.ports[q].pvid \in Nat /\ n \in Nat
      BY <1>5
    <3> QED
      BY <3>2, <3>3
  <2>3. vlans \subseteq {n} /\ n \in Nat
    BY <1>5, <2>2
  <2>4. vlans # {} => VlanOf(r) = n
    <3> HIDE DEF vlans, n
    <3>1. vlans # {} => vlans = {n} /\ n <= n
      BY <2>3
    <3> QED
      BY <2>1, <3>1
  <2>5. AllSeen => vlans # {}
    <3> SUFFICES ASSUME AllSeen PROVE vlans # {}
      OBVIOUS
    <3>1. rows["fids"] = Table(c, "fids") /\ c = b
      BY <1>2, <1>3 DEF AllSeen
    <3>2. [i |-> n, v |-> 10 * n] \in rows["fids"]
      BY <1>6, <3>1
    <3>3. [i |-> n, v |-> 10 * n].v = r.fid
      BY <1>8
    <3> QED
      BY <3>2, <3>3
  <2> QED
    BY <2>1, <2>4, <2>5
<1>9. ASSUME NEW r \in Entries
      PROVE  \E p, m : OfPort(b, r, p, m)
  <2>1. PICK p, m : p \in P /\ m \in b.ports[p].macs /\ r = FdbEntry(b, p, m)
    BY <1>3, <1>7, <1>9, LearntIs DEF FdbEntry
  <2>2. r.fid = 10 * b.ports[p].pvid
    BY <2>1 DEF FdbEntry
  <2>3. VlanAt(b, p) = b.ports[p].pvid
    BY <1>7, <1>9 DEF VlanAt
  <2> QED
    BY <1>8, <2>1, <2>2, <2>3 DEF OfPort
<1>10. AllSeen => b.fdbMib = "q"
  <2> SUFFICES ASSUME AllSeen PROVE b.fdbMib = "q"
    OBVIOUS
  <2>1. PICK d \in Witnessed : "fdb" \notin cut => rows["fdb"] = Table(d, "fdb")
    BY DEF WitnessKnown, Sourced
  <2>2. d = b /\ Table(b, "fdb") = {}
    BY <1>3, <2>1 DEF AllSeen, Witnessed
  <2>3. b.fdbMib \in {"bridge", "q"}
    BY <1>3 DEF IsBox
  <2> QED
    BY <2>2, <2>3, TablesOfDevice
<1>11. ASSUME AllSeen, NEW p \in P, NEW m \in b.ports[p].macs
       PROVE  FdbEntry(b, p, m) \in Entries
  <2>1. FdbEntry(b, p, m) \in Learnt(b)
    BY <1>3, LearntIs DEF FdbEntry
  <2>3. FdbEntry(b, p, m) \in rows["qfdb"]
    BY <1>1, <1>10, <1>11, <2>1, TablesOfDevice DEF AllSeen
  <2>4. FdbEntry(b, p, m).v # 0
    BY <1>5 DEF FdbEntry
  <2> QED
    BY <1>4, <2>3, <2>4
<1> QED
  BY <1>3, <1>9, <1>10, <1>11 DEF EntriesOf

LEMMA FdbRight ==
    ASSUME WitnessKnown, Done("fdb")
    PROVE  Right("fdb", Fdb)
<1> DEFINE P == DOMAIN box.ports
           at(p) == box.ports[p].bridge
           real(b, p, m) == [key |-> m, port |-> p, vlan |-> VlanAt(b, p)]
           itself == [key |-> Itself.i, port |-> Missing, vlan |-> Missing]
           of(r) == [key |-> r.i, port |-> Value("base", r.v), vlan |-> VlanOf(r)]
<1>1. "base" \in DOMAIN rows /\ \E b \in Witnessed : EntriesOf(b)
  BY BridgeEntries, VlanEntries DEF Done
<1>2. PICK b \in Witnessed : EntriesOf(b)
  BY <1>1
<1>3. DOMAIN b.ports = P /\ \A p \in P : b.ports[p].bridge = at(p)
  BY WitnessesAre DEF WitnessKnown
<1>4. Fdb = {of(r) : r \in Entries}
  BY DEF Fdb
<1>5. \A t : t \in Truth(b, "fdb") <=> \/ \E p \in P : \E m \in b.ports[p].macs : t = real(b, p, m)
                                       \/ b.fdbMib # "q" /\ t = itself
  <2> DEFINE ports == UNION {{real(b, p, m) : m \in b.ports[p].macs} : p \in P}
             own == IF b.fdbMib = "q" THEN {} ELSE {itself}
  <2>1. Truth(b, "fdb") = ports \cup own
    BY <1>3 DEF Truth, VlanAt
  <2> HIDE DEF real, itself
  <2>2. \A t : t \in ports <=> \E p \in P : \E m \in b.ports[p].macs : t = real(b, p, m)
    OBVIOUS
  <2>3. \A t : t \in own <=> b.fdbMib # "q" /\ t = itself
    OBVIOUS
  <2> HIDE DEF ports, own
  <2> QED
    BY <2>1, <2>2, <2>3
<1>6. ASSUME NEW p \in P, NEW m
      PROVE  FdbEntry(b, p, m).i = m /\ FdbEntry(b, p, m).v = at(p)
  BY <1>3 DEF FdbEntry
<1>7. ASSUME NEW r, OfItself(b, r)
      PROVE  of(r) = itself /\ itself \in Truth(b, "fdb")
  <2>1. of(r) = itself
    BY <1>1, <1>7, NoPortZero DEF OfItself, Itself
  <2>2. b.fdbMib # "q"
    BY <1>7 DEF OfItself
  <2> QED
    BY <2>1, <2>2, <1>5
<1>8. AllSeen => Fdb = Truth(box, "fdb")
  <2> SUFFICES ASSUME AllSeen PROVE Fdb = Truth(box, "fdb")
    OBVIOUS
  <2>1. b = box
    BY <1>2 DEF EntriesOf
  <2>2. ASSUME NEW p, NEW m, NEW r, OfPort(b, r, p, m)
        PROVE  of(r) = real(b, p, m)
    BY <1>1, <1>6, <2>2, BaseIs DEF AllSeen, OfPort
  <2>3. ASSUME NEW a \in Fdb
        PROVE  a \in Truth(box, "fdb")
    <3>1. PICK r \in Entries : a = of(r)
      BY <1>4
    <3> HIDE DEF of, real, itself
    <3>2. CASE OfItself(b, r)
      BY <1>7, <2>1, <3>1, <3>2
    <3>3. CASE \E p, m : OfPort(b, r, p, m)
      <4>1. PICK p, m : OfPort(b, r, p, m)
        BY <3>3
      <4>2. a = real(b, p, m)
        BY <2>2, <3>1, <4>1
      <4>3. p \in P /\ m \in b.ports[p].macs
        BY <4>1 DEF OfPort
      <4> QED
        BY <1>5, <2>1, <4>2, <4>3
    <3> QED
      BY <1>2, <3>2, <3>3 DEF EntriesOf
  <2>4. ASSUME NEW a \in Truth(box, "fdb")
        PROVE  a \in Fdb
    <3> HIDE DEF of, real, itself
    <3>1. CASE b.fdbMib # "q" /\ a = itself
      <4>1. OfItself(b, Itself) /\ Itself \in Entries
        BY <1>2, <3>1 DEF EntriesOf
      <4>2. of(Itself) = a
        BY <1>7, <3>1, <4>1
      <4> QED
        BY <1>4, <4>1, <4>2
    <3>2. CASE \E p \in P : \E m \in b.ports[p].macs : a = real(b, p, m)
      <4>1. PICK p, m : p \in P /\ m \in b.ports[p].macs /\ a = real(b, p, m)
        BY <3>2
      <4>2. FdbEntry(b, p, m) \in Entries
        BY <4>1, <1>2 DEF EntriesOf
      <4>3. ~OfItself(b, FdbEntry(b, p, m))
        <5>1. at(p) # 0
          BY <4>1, WitnessesAre DEF WitnessKnown, IsBox
        <5> QED
          BY <1>6, <4>1, <5>1 DEF OfItself, Itself
      <4>4. PICK q, n : OfPort(b, FdbEntry(b, p, m), q, n)
        BY <1>2, <4>2, <4>3 DEF EntriesOf
      <4>5. q \in P /\ n \in b.ports[q].macs /\ FdbEntry(b, p, m) = FdbEntry(b, q, n)
        BY <4>4 DEF OfPort
      <4>6. at(p) = at(q) /\ m = n
        BY <4>1, <1>6, <4>5
      <4>7. p = q
        BY <4>1, <4>5, <4>6, WitnessesAre DEF WitnessKnown, IsBox
      <4>8. of(FdbEntry(b, p, m)) = a
        BY <2>2, <4>1, <4>4, <4>6, <4>7
      <4> QED
        BY <1>4, <4>2, <4>8
    <3> QED
      BY <1>5, <2>1, <3>1, <3>2
  <2> QED
    BY <2>3, <2>4
<1>9. ASSUME NEW a \in Fdb
      PROVE  "key" \in DOMAIN a /\ \A f \in DOMAIN a \ {"key"} : Fits("fdb", a, f)
  <2>1. PICK r \in Entries : a = of(r)
    BY <1>4
  <2>2. DOMAIN a = {"key", "port", "vlan"} /\ a.key = r.i /\ a["port"] = Value("base", r.v) /\ a["vlan"] = VlanOf(r)
    BY <2>1
  <2>3. CASE OfItself(b, r)
    <3>1. itself.key = a.key /\ itself["port"] = a["port"] /\ itself["vlan"] = a["vlan"]
      BY <1>7, <2>1, <2>3
    <3> HIDE DEF of, itself
    <3>2. itself \in Truth(b, "fdb")
      BY <1>7, <2>3
    <3>3. Fits("fdb", a, "port") /\ Fits("fdb", a, "vlan")
      BY <2>2, <3>1, <3>2 DEF Fits
    <3> QED
      BY <2>2, <3>3
  <2>4. CASE \E p, m : OfPort(b, r, p, m)
    <3>1. PICK p, m : p \in P /\ m \in b.ports[p].macs /\ r = FdbEntry(b, p, m) /\ VlanOf(r) \in {VlanAt(b, p), Missing}
      BY <2>4 DEF OfPort
    <3>2. a.key = m /\ a["port"] = Value("base", at(p))
      BY <1>6, <2>2, <3>1
    <3>3. real(b, p, m).key = m /\ real(b, p, m)["port"] = p /\ real(b, p, m)["vlan"] = VlanAt(b, p)
      OBVIOUS
    <3> HIDE DEF real, of, itself
    <3>4. real(b, p, m) \in Truth(b, "fdb")
      BY <3>1, <1>5
    <3>5. Value("base", at(p)) \in {p, Missing}
      BY <3>1, <1>1, BaseIs
    <3>6. Fits("fdb", a, "port")
      BY <2>2, <3>2, <3>3, <3>4, <3>5, Unknowns DEF Fits
    <3>7. Fits("fdb", a, "vlan")
      BY <2>2, <3>1, <3>2, <3>3, <3>4, Unknowns DEF Fits
    <3> QED
      BY <2>2, <3>6, <3>7
  <2> QED
    BY <1>2, <2>3, <2>4 DEF EntriesOf
<1> QED
  BY <1>8, <1>9 DEF Right

-----------------------------------------------------------------------------
(* PoE: the ports that report power, without the last two of them.               *)
LastOf(S) == CHOOSE i \in S : \A j \in S : j <= i
Dropped(S) == IF S = {} THEN {} ELSE S \ {LastOf(S)}

LEMMA LastIs ==
    ASSUME NEW S \in SUBSET Nat, S # {}, NEW n \in Nat, \A i \in S : i <= n
    PROVE  LastOf(S) \in S /\ \A j \in S : j <= LastOf(S)
<1>1. \E i \in S : \A j \in S : j <= i
  <2>1. Max(S) \in S /\ \A j \in S : Max(S) >= j
    BY GreatestOne
  <2>2. \A j \in S : j <= Max(S)
    BY <2>1
  <2> QED
    BY <2>1, <2>2
<1> QED
  BY <1>1 DEF LastOf

LEMMA DroppedTwo ==
    ASSUME NEW B \in SUBSET Nat, NEW n \in Nat, \A i \in B : i <= n,
           NEW u \in B, NEW v \in B, u # v, \A i \in B \ {u, v} : i < u /\ i < v,
           NEW S \in SUBSET B
    PROVE  /\ Dropped(Dropped(S)) \subseteq S \ {u, v}
           /\ S = B => Dropped(Dropped(S)) = S \ {u, v}
<1>1. CASE S = {}
  BY <1>1 DEF Dropped
<1>2. CASE S # {}
  <2> DEFINE x == LastOf(S)
             T == S \ {x}
  <2>1. x \in S /\ \A j \in S : j <= x
    BY <1>2, LastIs
  <2>2. Dropped(S) = T
    BY <1>2 DEF Dropped
  <2> HIDE DEF x
  <2>3. CASE T = {}
    BY <2>1, <2>2, <2>3 DEF Dropped
  <2>4. CASE T # {}
    <3> DEFINE y == LastOf(T)
    <3>1. y \in T /\ \A j \in T : j <= y
      BY <2>4, LastIs
    <3>2. Dropped(T) = T \ {y}
      BY <2>4 DEF Dropped
    <3> HIDE DEF y
    <3>3. Dropped(Dropped(S)) = S \ {x, y}
      BY <2>2, <3>2
    <3>4. x # y /\ y < x /\ x \in B /\ y \in B
      BY <2>1, <3>1
    <3>5. ASSUME NEW i \in {u, v}, i \in S, i # x, i # y
          PROVE  FALSE
      <4>1. i < x /\ i < y /\ i \in Nat /\ x \in Nat /\ y \in Nat
        BY <2>1, <3>1, <3>4, <3>5
      <4>2. x \in {u, v} /\ y \in {u, v}
        BY <3>4, <4>1
      <4> QED
        BY <3>4, <3>5, <4>1, <4>2
    <3>6. S = B => {x, y} = {u, v}
      BY <3>4, <3>5
    <3> QED
      BY <3>3, <3>5, <3>6
  <2> QED
    BY <2>3, <2>4
<1> QED
  BY <1>1, <1>2

(* Without the standard MIB the uplinks are the last two ports.                  *)
LEMMA PowerPorts ==
    ASSUME NEW b, IsBox(b), b.poeMib # "standard",
           NEW S \in SUBSET {b.ports[p].bridge : p \in DOMAIN b.ports}
    PROVE  /\ \A i \in Dropped(Dropped(S)) : \E p \in Feeding(b) : i = b.ports[p].bridge
           /\ S = {b.ports[p].bridge : p \in DOMAIN b.ports} =>
                 \A p \in Feeding(b) : b.ports[p].bridge \in Dropped(Dropped(S))
<1> DEFINE P == DOMAIN b.ports
           B == {b.ports[p].bridge : p \in P}
<1>1. PICK u \in B, v \in B : u # v /\ b.uplinks = {u, v}
  BY DEF IsBox
<1>2. B \in SUBSET Nat
  BY DEF IsBox
<1>3. \A i \in B \ {u, v} : i < u /\ i < v
  BY <1>1 DEF IsBox
<1>4. PICK n \in Nat : \A i \in B : i <= n
  <2>1. P # {}
    BY <1>1
  <2>2. PICK p \in P : \A q \in P : b.ports[q].bridge <= b.ports[p].bridge
    BY <2>1 DEF IsBox
  <2>3. b.ports[p].bridge \in Nat /\ \A i \in B : i <= b.ports[p].bridge
    BY <1>2, <2>2
  <2> QED
    BY <2>3
<1>5. S \in SUBSET B
  OBVIOUS
<1> HIDE DEF B
<1>6. Dropped(Dropped(S)) \subseteq S \ {u, v} /\ (S = B => Dropped(Dropped(S)) = S \ {u, v})
  BY <1>1, <1>2, <1>3, <1>4, <1>5, DroppedTwo, SMTT(30)
<1>7. ASSUME NEW i \in Dropped(Dropped(S))
      PROVE  \E p \in Feeding(b) : i = b.ports[p].bridge
  <2>1. i \in B /\ i \notin b.uplinks
    BY <1>1, <1>5, <1>6, <1>7 DEF B
  <2>2. PICK p \in P : i = b.ports[p].bridge
    BY <2>1 DEF B
  <2>3. p \in Feeding(b)
    BY <2>1, <2>2 DEF IsBox
  <2> QED
    BY <2>2, <2>3
<1>8. ASSUME S = B, NEW p \in Feeding(b)
      PROVE  b.ports[p].bridge \in Dropped(Dropped(S))
  <2>1. p \in P /\ b.ports[p].bridge \notin b.uplinks
    BY DEF Feeding, IsBox
  <2> QED
    BY <1>1, <1>6, <1>8, <2>1 DEF B
<1> QED
  BY <1>7, <1>8 DEF B

LEMMA FeedingIs ==
    ASSUME WitnessKnown, NEW b \in Witnessed, NEW p \in Feeding(b)
    PROVE  /\ p \in DOMAIN box.ports /\ b.ports[p].bridge = box.ports[p].bridge
           /\ box.ports[p].bridge \notin box.uplinks
           /\ b.ports[p].poe \in {"DELIVERING", "SEARCHING", "DISABLED"} /\ b.ports[p].poe # Missing
BY WitnessesAre DEF WitnessKnown, Feeding, IsBox

(* The PoE ports are ports that feed; all of them when the walks were whole.     *)
LEMMA PoePortsAre ==
    ASSUME WitnessKnown, Done("poe")
    PROVE  /\ \A i \in PoePorts : \E b \in Witnessed : \E p \in Feeding(b) : i = box.ports[p].bridge
           /\ PoePorts # {} => (rows["enable"] = {} <=> box.poeMib # "standard")
           /\ AllSeen => \A p \in Feeding(box) : box.ports[p].bridge \in PoePorts
<1> DEFINE P == DOMAIN box.ports
           fed(b) == {[i |-> b.ports[p].bridge, v |-> b.ports[p].poe] : p \in Feeding(b)}
           indexes(t) == {r.i : r \in rows[t]}
<1>1. "enable" \in DOMAIN rows /\ (rows["enable"] = {} => "present" \in DOMAIN rows /\ "power" \in DOMAIN rows)
  BY DEF Done
<1>2. PoePorts = IF rows["enable"] # {} THEN indexes("enable")
                 ELSE IF rows["present"] # {} THEN indexes("present")
                 ELSE Dropped(Dropped(indexes("power")))
  BY DEF PoePorts, Dropped, LastOf
<1>3. ASSUME NEW t \in DOMAIN rows
      PROVE  \E b \in Witnessed : /\ rows[t] \subseteq Table(b, t) /\ (AllSeen => rows[t] = Table(b, t) /\ b = box)
                                  /\ IsBox(b) /\ b.poeMib = box.poeMib /\ DOMAIN b.ports = P
                                  /\ \A p \in P : b.ports[p].bridge = box.ports[p].bridge
  <2>1. PICK b \in Witnessed : rows[t] \subseteq Table(b, t) /\ (t \notin cut => rows[t] = Table(b, t))
    BY DEF WitnessKnown, Sourced
  <2>2. AllSeen => t \notin cut /\ b = box
    BY DEF AllSeen, Witnessed
  <2> QED
    BY <2>1, <2>2, WitnessesAre DEF WitnessKnown
<1>4. ASSUME NEW t \in DOMAIN rows, NEW b \in Witnessed, rows[t] \subseteq fed(b)
      PROVE  /\ \A i \in indexes(t) : \E p \in Feeding(b) : i = box.ports[p].bridge
             /\ rows[t] = fed(b) => \A p \in Feeding(b) : box.ports[p].bridge \in indexes(t)
  <2>1. \A p \in Feeding(b) : b.ports[p].bridge = box.ports[p].bridge
    BY FeedingIs
  <2>2. ASSUME NEW i \in indexes(t)
        PROVE  \E p \in Feeding(b) : i = box.ports[p].bridge
    <3>1. PICK r \in rows[t] : i = r.i
      OBVIOUS
    <3>2. PICK p \in Feeding(b) : r = [i |-> b.ports[p].bridge, v |-> b.ports[p].poe]
      BY <1>4, <3>1
    <3> QED
      BY <2>1, <3>1, <3>2
  <2>3. ASSUME rows[t] = fed(b), NEW p \in Feeding(b)
        PROVE  box.ports[p].bridge \in indexes(t)
    <3>1. [i |-> b.ports[p].bridge, v |-> b.ports[p].poe] \in rows[t]
      BY <2>3
    <3>2. [i |-> b.ports[p].bridge, v |-> b.ports[p].poe].i = box.ports[p].bridge
      BY <2>1
    <3> QED
      BY <3>1, <3>2
  <2> QED
    BY <2>2, <2>3
<1>5. CASE rows["enable"] # {}
  <2>1. PICK b \in Witnessed : /\ rows["enable"] \subseteq Table(b, "enable")
                               /\ AllSeen => rows["enable"] = Table(b, "enable") /\ b = box
                               /\ b.poeMib = box.poeMib
    BY <1>1, <1>3
  <2>2. box.poeMib = "standard" /\ Table(b, "enable") = fed(b)
    BY <1>5, <2>1, PoeTables
  <2> HIDE DEF fed, indexes
  <2> QED
    BY <1>1, <1>2, <1>4, <1>5, <2>1, <2>2
<1>6. CASE rows["enable"] = {} /\ rows["present"] # {}
  <2>1. PICK b \in Witnessed : /\ rows["present"] \subseteq Table(b, "present")
                               /\ AllSeen => rows["present"] = Table(b, "present") /\ b = box
                               /\ b.poeMib = box.poeMib
    BY <1>1, <1>3, <1>6
  <2>2. box.poeMib # "standard" /\ Table(b, "present") = fed(b)
    BY <1>6, <2>1, PoeTables
  <2> HIDE DEF fed, indexes
  <2> QED
    BY <1>1, <1>2, <1>4, <1>6, <2>1, <2>2
<1>7. CASE rows["enable"] = {} /\ rows["present"] = {}
  <2>1. PICK b \in Witnessed : /\ rows["power"] \subseteq Table(b, "power")
                               /\ AllSeen => rows["power"] = Table(b, "power") /\ b = box
                               /\ IsBox(b) /\ b.poeMib = box.poeMib /\ DOMAIN b.ports = P
                               /\ \A p \in P : b.ports[p].bridge = box.ports[p].bridge
    BY <1>1, <1>3, <1>7
  <2>2. PoePorts = Dropped(Dropped(indexes("power")))
    BY <1>2, <1>7
  <2>3. CASE box.poeMib = "standard"
    <3>1. rows["power"] = {}
      BY <2>1, <2>3, PoeTables
    <3>2. indexes("power") = {}
      BY <3>1
    <3>3. PoePorts = {}
      BY <2>2, <3>2 DEF Dropped
    <3>4. AllSeen => Feeding(box) = {}
      <4>1. PICK c \in Witnessed : AllSeen => rows["enable"] = Table(c, "enable") /\ c = box
        BY <1>1, <1>3
      <4>2. Table(box, "enable") = fed(box)
        BY <2>3, PoeTables
      <4> QED
        BY <1>7, <4>1, <4>2
    <3> QED
      BY <3>3, <3>4
  <2>4. CASE box.poeMib # "standard"
    <3> DEFINE B == {b.ports[p].bridge : p \in DOMAIN b.ports}
    <3>1. Table(b, "power") = {[i |-> b.ports[p].bridge,
                                v |-> IF p \in Feeding(b) /\ b.ports[p].poe = "DELIVERING" THEN 70 ELSE 0] :
                                  p \in DOMAIN b.ports}
      BY <2>1, <2>4, PoeTables
    <3>2. \A r \in Table(b, "power") : r.i \in B
      BY <3>1
    <3>3. \A i \in B : \E r \in Table(b, "power") : r.i = i
      <4>1. ASSUME NEW p \in DOMAIN b.ports
            PROVE  \E r \in Table(b, "power") : r.i = b.ports[p].bridge
        <5> DEFINE r == [i |-> b.ports[p].bridge,
                         v |-> IF p \in Feeding(b) /\ b.ports[p].poe = "DELIVERING" THEN 70 ELSE 0]
        <5>1. r \in Table(b, "power") /\ r.i = b.ports[p].bridge
          BY <3>1
        <5> HIDE DEF r
        <5> QED
          BY <5>1
      <4> QED
        BY <4>1
    <3> HIDE DEF B
    <3>4. indexes("power") \subseteq B /\ (AllSeen => indexes("power") = B)
      BY <2>1, <3>2, <3>3
    <3> HIDE DEF indexes
    <3>5. /\ \A i \in PoePorts : \E p \in Feeding(b) : i = b.ports[p].bridge
          /\ indexes("power") = B => \A p \in Feeding(b) : b.ports[p].bridge \in PoePorts
      BY <2>1, <2>2, <2>4, <3>4, PowerPorts DEF B
    <3> QED
      BY <1>7, <2>1, <2>4, <3>4, <3>5, FeedingIs
  <2> QED
    BY <2>3, <2>4
<1> QED
  BY <1>5, <1>6, <1>7

(* What a column of PoE says of a port. *)
LEMMA FedColumn ==
    ASSUME WitnessKnown, NEW t \in {"enable", "detect", "nadmin"}, t \in DOMAIN rows,
           t \in {"enable", "detect"} <=> box.poeMib = "standard"
    PROVE  \E b \in Witnessed :
              /\ AllSeen => b = box
              /\ \A p \in DOMAIN box.ports :
                    LET v == Value(t, box.ports[p].bridge) IN
                    /\ (p \in Feeding(b) /\ v = b.ports[p].poe) \/ (v = Missing /\ (AllSeen => p \notin Feeding(b)))
                    /\ (\E r \in rows[t] : r.i = box.ports[p].bridge) => p \in Feeding(b) /\ v = b.ports[p].poe
<1> DEFINE P == DOMAIN box.ports
           at(p) == box.ports[p].bridge
           fed(b) == {[i |-> b.ports[p].bridge, v |-> b.ports[p].poe] : p \in Feeding(b)}
<1>1. t \in Columns
  BY DEF Columns, WalkNames
<1>2. PICK b \in Witnessed :
         /\ AllSeen => b = box
         /\ rows[t] \subseteq Table(b, t) /\ (t \notin cut => rows[t] = Table(b, t))
         /\ \A r \in Table(b, t) : \/ Value(t, r.i) = r.v /\ r \in rows[t]
                                   \/ Value(t, r.i) = Missing /\ t \in cut
         /\ \A i : (\A r \in Table(b, t) : r.i # i) => Value(t, i) = Missing
  BY <1>1, ColumnIs
<1>3. b.poeMib = box.poeMib /\ DOMAIN b.ports = P /\ (\A p \in P : b.ports[p].bridge = at(p)) /\ IsBox(b)
  BY WitnessesAre DEF WitnessKnown
<1>4. Table(b, t) = fed(b)
  BY <1>3, PoeTables
<1>5. Feeding(b) \subseteq P /\ \A p, q \in P : at(p) = at(q) => p = q
  BY <1>3 DEF Feeding, IsBox
<1>6. ASSUME NEW p \in P, p \in Feeding(b)
      PROVE  /\ Value(t, at(p)) = b.ports[p].poe \/ (Value(t, at(p)) = Missing /\ ~AllSeen)
             /\ (\E r \in rows[t] : r.i = at(p)) => Value(t, at(p)) = b.ports[p].poe
  <2> DEFINE r == [i |-> b.ports[p].bridge, v |-> b.ports[p].poe]
  <2>1. r \in Table(b, t) /\ r.i = at(p) /\ r.v = b.ports[p].poe
    BY <1>3, <1>4, <1>6
  <2> HIDE DEF r
  <2>2. \/ Value(t, at(p)) = b.ports[p].poe /\ r \in rows[t]
        \/ Value(t, at(p)) = Missing /\ t \in cut
    BY <1>2, <2>1
  <2>3. ASSUME NEW s \in rows[t], s.i = at(p)
        PROVE  s = r
    BY <1>1, <1>2, <1>3, <2>1, <2>3, OneRowEach
  <2>4. r \in rows[t] => Value(t, at(p)) = b.ports[p].poe
    <3>1. \A x, y \in rows[t] : x.i = y.i => x = y
      BY <1>1, <1>2, <1>3, OneRowEach
    <3> QED
      BY <2>1, <3>1, ValueIs
  <2> QED
    BY <2>2, <2>3, <2>4 DEF AllSeen
<1>7. ASSUME NEW p \in P, p \notin Feeding(b)
      PROVE  Value(t, at(p)) = Missing /\ \A r \in rows[t] : r.i # at(p)
  <2>1. ASSUME NEW r \in Table(b, t)
        PROVE  r.i # at(p)
    <3>1. PICK q \in Feeding(b) : r = [i |-> b.ports[q].bridge, v |-> b.ports[q].poe]
      BY <1>4, <2>1
    <3>2. q \in P /\ q # p /\ r.i = at(q)
      BY <1>3, <1>5, <1>7, <3>1
    <3> QED
      BY <1>5, <3>2
  <2> QED
    BY <1>2, <2>1
<1> QED
  BY <1>2, <1>6, <1>7

LEMMA PowerIs ==
    ASSUME WitnessKnown, "power" \in DOMAIN rows, box.poeMib # "standard"
    PROVE  \E b \in Witnessed :
              /\ AllSeen => b = box
              /\ \A p \in DOMAIN box.ports :
                    LET v == Default(Value("power", box.ports[p].bridge), 0) IN
                    /\ v > 0 => p \in Feeding(b) /\ b.ports[p].poe = "DELIVERING"
                    /\ AllSeen /\ p \in Feeding(b) /\ b.ports[p].poe = "DELIVERING" => v > 0
<1> DEFINE P == DOMAIN box.ports
           at(p) == box.ports[p].bridge
           w(b, p) == IF p \in Feeding(b) /\ b.ports[p].poe = "DELIVERING" THEN 70 ELSE 0
<1>1. "power" \in Columns
  BY DEF Columns, WalkNames
<1>2. PICK b \in Witnessed :
         /\ AllSeen => b = box
         /\ \A r \in Table(b, "power") : \/ Value("power", r.i) = r.v /\ r \in rows["power"]
                                         \/ Value("power", r.i) = Missing /\ "power" \in cut
  BY <1>1, ColumnIs
<1>3. b.poeMib = box.poeMib /\ DOMAIN b.ports = P /\ (\A p \in P : b.ports[p].bridge = at(p)) /\ IsBox(b)
  BY WitnessesAre DEF WitnessKnown
<1>4. Table(b, "power") = {[i |-> b.ports[p].bridge, v |-> w(b, p)] : p \in P}
  BY <1>3, PoeTables
<1>5. ASSUME NEW p \in P
      PROVE  Value("power", at(p)) = w(b, p) \/ (Value("power", at(p)) = Missing /\ ~AllSeen)
  <2> DEFINE r == [i |-> b.ports[p].bridge, v |-> w(b, p)]
  <2>1. r \in Table(b, "power") /\ r.i = at(p) /\ r.v = w(b, p)
    BY <1>3, <1>4
  <2> HIDE DEF r, w
  <2> QED
    BY <1>2, <2>1 DEF AllSeen
<1>6. Missing # 70 /\ Missing # 0
  BY BoxesAssumption
<1> QED
  BY <1>2, <1>5, <1>6 DEF Default

(* What is said of a PoE port is what one of the states had there, or stands for *)
(* unknown.                                                                      *)
LEMMA PoeStateIs ==
    ASSUME WitnessKnown, Done("poe"), NEW p \in DOMAIN box.ports, box.ports[p].bridge \in PoePorts
    PROVE  LET s == PoeState(box.ports[p].bridge) IN
           /\ \E b \in Witnessed : /\ p \in Feeding(b)
                                   /\ s.enabled = (b.ports[p].poe # "DISABLED") \/ s.enabled = TRUE
           /\ \E b \in Witnessed : /\ p \in Feeding(b)
                                   /\ s.status = b.ports[p].poe \/ s.status = Unknown["status"]
           /\ AllSeen => /\ p \in Feeding(box) /\ s.enabled = (box.ports[p].poe # "DISABLED")
                       /\ s.status = box.ports[p].poe
<1> DEFINE i == box.ports[p].bridge
           s == PoeState(i)
<1>1. \A p1, q \in DOMAIN box.ports : box.ports[p1].bridge = box.ports[q].bridge => p1 = q
  BY WitnessesAre DEF WitnessKnown, IsBox
<1>2. PICK c \in Witnessed : p \in Feeding(c)
  <2>1. PICK b \in Witnessed : \E q \in Feeding(b) : i = box.ports[q].bridge
    BY PoePortsAre
  <2>2. PICK q \in Feeding(b) : i = box.ports[q].bridge
    BY <2>1
  <2>3. q = p
    BY <1>1, <2>2, FeedingIs
  <2> QED
    BY <2>2, <2>3
<1>3. rows["enable"] = {} <=> box.poeMib # "standard"
  BY PoePortsAre
<1>4. AllSeen => c = box
  BY DEF AllSeen, Witnessed
<1>6. CASE rows["enable"] # {}
  <2>1. box.poeMib = "standard" /\ "enable" \in DOMAIN rows /\ "detect" \in DOMAIN rows
    BY <1>3, <1>6 DEF Done
  <2>2. \E r \in rows["enable"] : r.i = i
    BY <1>6 DEF PoePorts
  <2>3. PICK b \in Witnessed : /\ AllSeen => b = box
                               /\ p \in Feeding(b) /\ Value("enable", i) = b.ports[p].poe
    BY <2>1, <2>2, FedColumn
  <2>4. PICK d \in Witnessed : /\ AllSeen => d = box
                               /\ \/ p \in Feeding(d) /\ Value("detect", i) = d.ports[p].poe
                                  \/ Value("detect", i) = Missing /\ (AllSeen => p \notin Feeding(d))
    BY <2>1, FedColumn
  <2>5. b.ports[p].poe # Missing /\ (p \in Feeding(d) => d.ports[p].poe # Missing)
    BY <2>3, FeedingIs
  <2>6. /\ s.enabled = (Default(Value("enable", i), "SEARCHING") # "DISABLED")
        /\ s.status = Default(Value("detect", i), "DISABLED")
    BY <1>6 DEF PoeState
  <2>7. s.enabled = (b.ports[p].poe # "DISABLED")
    BY <2>3, <2>5, <2>6 DEF Default
  <2>8. \/ p \in Feeding(d) /\ s.status = d.ports[p].poe
        \/ s.status = "DISABLED" /\ ~(AllSeen /\ p \in Feeding(d))
    BY <2>4, <2>5, <2>6 DEF Default
  <2>9. Unknown["status"] = "DISABLED"
    BY <2>1, Unknowns
  <2> HIDE DEF s, i
  <2> QED
    BY <2>3, <2>4, <2>7, <2>8, <2>9 DEF s, i
<1>7. CASE rows["enable"] = {}
  <2>1. box.poeMib # "standard" /\ "nadmin" \in DOMAIN rows /\ "power" \in DOMAIN rows
    BY <1>3, <1>7 DEF Done
  <2>2. PICK b \in Witnessed : /\ AllSeen => b = box
                               /\ \/ p \in Feeding(b) /\ Value("nadmin", i) = b.ports[p].poe
                                  \/ Value("nadmin", i) = Missing /\ (AllSeen => p \notin Feeding(b))
    BY <2>1, FedColumn
  <2> DEFINE on == Default(Value("nadmin", i), "SEARCHING") # "DISABLED"
             flows == Default(Value("power", i), 0) > 0
  <2>3. PICK d \in Witnessed : /\ AllSeen => d = box
                               /\ flows => p \in Feeding(d) /\ d.ports[p].poe = "DELIVERING"
                               /\ AllSeen /\ p \in Feeding(d) /\ d.ports[p].poe = "DELIVERING" => flows
    BY <2>1, PowerIs
  <2>4. s.enabled = on /\ s.status = IF ~on THEN "DISABLED" ELSE IF flows THEN "DELIVERING" ELSE "SEARCHING"
    BY <1>7 DEF PoeState
  <2>5. on \in BOOLEAN /\ (~on => p \in Feeding(b) /\ b.ports[p].poe = "DISABLED")
    BY <2>2, FeedingIs DEF Default
  <2>6. AllSeen => p \in Feeding(box) /\ b = box /\ d = box /\ on = (box.ports[p].poe # "DISABLED")
    BY <1>2, <1>4, <2>2, <2>3, FeedingIs DEF Default
  <2>7. Unknown["status"] = "SEARCHING"
    BY <2>1, Unknowns
  <2>8. AllSeen => box.ports[p].poe \in {"DELIVERING", "SEARCHING", "DISABLED"}
    BY <1>2, <1>4, FeedingIs
  <2> HIDE DEF on, flows, s
  <2>9. \E x \in Witnessed : /\ p \in Feeding(x)
                             /\ s.enabled = (x.ports[p].poe # "DISABLED") \/ s.enabled = TRUE
    BY <1>2, <2>2, <2>4, <2>5
  <2>10. \E x \in Witnessed : p \in Feeding(x) /\ (s.status = x.ports[p].poe \/ s.status = Unknown["status"])
    BY <1>2, <2>2, <2>3, <2>4, <2>5, <2>7
  <2>11. ASSUME AllSeen
         PROVE  s.status = box.ports[p].poe
    <3>1. CASE box.ports[p].poe = "DISABLED"
      <4>1. ~on
        BY <2>6, <2>11, <3>1
      <4> QED
        BY <2>4, <3>1, <4>1
    <3>2. CASE box.ports[p].poe # "DISABLED"
      <4>1. on
        BY <2>6, <2>11, <3>2
      <4>2. flows <=> box.ports[p].poe = "DELIVERING"
        BY <2>3, <2>6, <2>11
      <4> QED
        BY <2>4, <2>8, <2>11, <3>2, <4>1, <4>2
    <3> QED
      BY <3>1, <3>2
  <2>12. AllSeen => s.enabled = (box.ports[p].poe # "DISABLED")
    BY <2>4, <2>6
  <2> QED
    BY <2>6, <2>9, <2>10, <2>11, <2>12 DEF s
<1> QED
  BY <1>6, <1>7

(* The first n placements, written down as a function. *)
Placements(f, n) == f[0] = {} /\ \A i \in 0..n : i # n => f[i + 1] = Placed(f[i], i + 1)

LEMMA PlacementsExist == \A n \in Nat : \E f : Placements(f, n)
<1> DEFINE Bad == {n \in Nat : ~ \E f : Placements(f, n)}
<1> SUFFICES ASSUME Bad # {} PROVE FALSE
  OBVIOUS
<1>1. PICK m \in Bad : \A n \in Bad : m <= n
  BY LeastOne
<1>2. CASE m = 0
  <2>1. Placements([i \in 0..0 |-> {}], 0)
    BY DEF Placements
  <2> QED
    BY <1>1, <1>2, <2>1
<1>3. CASE m # 0
  <2>1. m - 1 \in Nat /\ m - 1 \notin Bad
    BY <1>1, <1>3
  <2>2. PICK f : Placements(f, m - 1)
    BY <2>1
  <2> DEFINE g == [i \in 0..m |-> IF i = m THEN Placed(f[m - 1], m) ELSE f[i]]
  <2>3. g[0] = {}
    BY <1>1, <1>3, <2>2 DEF Placements
  <2>4. ASSUME NEW i \in 0..m, i # m
        PROVE  g[i + 1] = Placed(g[i], i + 1)
    <3>1. CASE i = m - 1
      <4>1. g[i + 1] = Placed(f[m - 1], m) /\ g[i] = f[m - 1] /\ i + 1 = m
        BY <1>1, <1>3, <2>4, <3>1
      <4> HIDE DEF g
      <4> QED
        BY <3>1, <4>1
    <3>2. CASE i # m - 1
      <4>1. i \in 0..(m - 1) /\ i + 1 \in 0..m /\ i + 1 # m
        BY <1>1, <1>3, <2>4, <3>2
      <4>2. f[i + 1] = Placed(f[i], i + 1)
        BY <2>2, <3>2, <4>1 DEF Placements
      <4>3. g[i + 1] = f[i + 1] /\ g[i] = f[i]
        BY <2>4, <4>1
      <4> HIDE DEF g
      <4> QED
        BY <4>2, <4>3
    <3> QED
      BY <3>1, <3>2
  <2> HIDE DEF g
  <2>5. Placements(g, m)
    BY <2>3, <2>4 DEF Placements
  <2> QED
    BY <1>1, <2>5
<1> QED
  BY <1>2, <1>3

LEMMA PlacementsAgree ==
    ASSUME NEW n \in Nat, NEW k \in Nat, NEW f, NEW g, Placements(f, n), Placements(g, k),
           NEW i \in Nat, i <= n, i <= k
    PROVE  f[i] = g[i]
<1> DEFINE Bad == {j \in Nat : j <= n /\ j <= k /\ f[j] # g[j]}
<1> SUFFICES ASSUME Bad # {} PROVE FALSE
  OBVIOUS
<1>1. PICK m \in Bad : \A j \in Bad : m <= j
  BY LeastOne
<1>2. m # 0
  BY <1>1 DEF Placements
<1>3. /\ m - 1 \in Nat /\ m - 1 \in 0..n /\ m - 1 \in 0..k
      /\ m - 1 # n /\ m - 1 # k /\ m - 1 + 1 = m
  BY <1>1, <1>2
<1>4. f[m - 1] = g[m - 1]
  BY <1>1, <1>3
<1>5. f[m - 1 + 1] = g[m - 1 + 1]
  BY <1>3, <1>4 DEF Placements
<1> QED
  BY <1>1, <1>3, <1>5

(* Mapped is what its definition says. *)
LEMMA MappedIs ==
    /\ Mapped[0] = {}
    /\ \A n \in Nat : Mapped[n + 1] = Placed(Mapped[n], n + 1)
<1> DEFINE W == [n \in Nat |-> (CHOOSE f : Placements(f, n))[n]]
<1>1. ASSUME NEW n \in Nat
      PROVE  /\ Placements(CHOOSE f : Placements(f, n), n)
             /\ W[n] = (CHOOSE f : Placements(f, n))[n]
  BY PlacementsExist
<1>2. W[0] = {}
  BY <1>1 DEF Placements
<1>3. ASSUME NEW n \in Nat
      PROVE  W[n + 1] = Placed(W[n], n + 1)
  <2>1. PICK f : f = CHOOSE h : Placements(h, n)
    OBVIOUS
  <2>2. PICK g : g = CHOOSE h : Placements(h, n + 1)
    OBVIOUS
  <2>3. n + 1 \in Nat /\ Placements(f, n) /\ Placements(g, n + 1) /\ W[n] = f[n] /\ W[n + 1] = g[n + 1]
    BY <1>1, <2>1, <2>2
  <2> HIDE DEF W
  <2>4. f[n] = g[n]
    BY <2>3, PlacementsAgree
  <2>5. n \in 0..(n + 1) /\ n # n + 1
    OBVIOUS
  <2>6. g[n + 1] = Placed(g[n], n + 1)
    BY <2>3, <2>5 DEF Placements
  <2> QED
    BY <2>3, <2>4, <2>6
<1>4. W = [n \in Nat |-> IF n = 0 THEN {} ELSE Placed(W[n - 1], n)]
  <2>1. ASSUME NEW n \in Nat, n # 0
        PROVE  W[n] = Placed(W[n - 1], n)
    <3>1. n - 1 \in Nat /\ n - 1 + 1 = n
      BY <2>1
    <3> HIDE DEF W
    <3>2. W[n - 1 + 1] = Placed(W[n - 1], n - 1 + 1)
      BY <1>3, <3>1
    <3> QED
      BY <3>1, <3>2
  <2>2. W = [n \in Nat |-> W[n]]
    OBVIOUS
  <2> HIDE DEF W
  <2> QED
    BY <1>2, <2>1, <2>2
<1> HIDE DEF W
<1>5. Mapped = [n \in Nat |-> IF n = 0 THEN {} ELSE Placed(Mapped[n - 1], n)]
  BY <1>4 DEF Mapped
<1>6. Mapped[0] = {}
  BY <1>5
<1>7. ASSUME NEW n \in Nat
      PROVE  Mapped[n + 1] = Placed(Mapped[n], n + 1)
  <2>1. n + 1 \in Nat /\ n + 1 # 0 /\ n + 1 - 1 = n
    OBVIOUS
  <2>2. \A k \in Nat : k # 0 => Mapped[k] = Placed(Mapped[k - 1], k)
    BY <1>5
  <2>3. Mapped[n + 1] = Placed(Mapped[n + 1 - 1], n + 1)
    BY <2>1, <2>2
  <2> QED
    BY <2>1, <2>3
<1> QED
  BY <1>6, <1>7

(* The interface that is chosen for a PoE port is none that was taken; it is the *)
(* port's own when all interfaces are known and it was not taken.                *)
LEMMA ChosenIs ==
    ASSUME WitnessKnown, "descr" \in DOMAIN rows, NEW taken, NEW k
    PROVE  /\ Chosen(taken, k) = Missing \/ Chosen(taken, k) \notin taken
           /\ \A b \in Witnessed : \A p \in Feeding(b) :
                 k = box.ports[p].bridge /\ p \notin taken /\ "descr" \notin cut => Chosen(taken, k) = p
<1> DEFINE free == {r \in rows["descr"] : r.v # Missing /\ r.i \notin taken}
           best == CASE \E r \in free : r.v = k -> {r \in free : r.v = k}
                     [] ~(\E r \in free : r.v = k) /\ \E r \in free : r.i = k -> {r \in free : r.i = k}
                     [] OTHER -> free
           one == CHOOSE r \in best : \A q \in best : r.v <= q.v
<1>1. Chosen(taken, k) = IF best = {} THEN Missing ELSE one.i
  BY DEF Chosen
<1>2. PICK b \in Witnessed : rows["descr"] \subseteq Table(b, "descr") /\ ("descr" \notin cut => rows["descr"] = Table(b, "descr"))
  BY DEF WitnessKnown, Sourced
<1>3. DOMAIN b.ports = DOMAIN box.ports /\ IsBox(b)
  BY WitnessesAre DEF WitnessKnown
<1>4. Table(b, "descr") = {[i |-> p, v |-> b.ports[p].number] : p \in DOMAIN box.ports}
  BY <1>3, TablesOfDevice
<1>5. \A r \in free : r.v \in Nat
  <2>1. \A p \in DOMAIN box.ports : b.ports[p].number \in Nat \cup {Missing}
    BY <1>3 DEF IsBox
  <2> QED
    BY <1>2, <1>4, <2>1
<1>6. best \subseteq free
  OBVIOUS
<1> HIDE DEF best
<1>7. best # {} => one \in best
  <2> SUFFICES ASSUME best # {} PROVE \E r \in best : \A q \in best : r.v <= q.v
    OBVIOUS
  <2> DEFINE N == {r.v : r \in best}
  <2>1. N \in SUBSET Nat /\ N # {}
    BY <1>5, <1>6
  <2>2. PICK n \in N : \A m \in N : n <= m
    BY <2>1, LeastOne
  <2> QED
    BY <2>2
<1>8. Chosen(taken, k) = Missing \/ Chosen(taken, k) \notin taken
  BY <1>1, <1>6, <1>7
<1>9. ASSUME NEW c \in Witnessed, NEW p \in Feeding(c), k = box.ports[p].bridge, p \notin taken, "descr" \notin cut
      PROVE  Chosen(taken, k) = p
  <2> DEFINE r == [i |-> p, v |-> b.ports[p].number]
  <2>1. p \in DOMAIN box.ports /\ k \in Nat
    BY <1>9, FeedingIs, WitnessesAre DEF WitnessKnown, IsBox
  <2>2. \A q \in DOMAIN box.ports : b.ports[q].number = k <=> q = p
    <3>1. \A q \in DOMAIN c.ports : c.ports[q].number = c.ports[p].bridge <=> q = p
      BY <1>9, WitnessesAre DEF WitnessKnown, IsBox, Feeding
    <3>2. /\ DOMAIN c.ports = DOMAIN box.ports /\ c.ports[p].bridge = k
          /\ \A q \in DOMAIN box.ports : b.ports[q].number = c.ports[q].number
      BY <1>9, <2>1, WitnessesAre DEF WitnessKnown
    <3> QED
      BY <3>1, <3>2
  <2>3. r \in rows["descr"] /\ r.i = p /\ r.v = k
    BY <1>2, <1>4, <1>9, <2>1, <2>2
  <2>4. k # Missing
    BY <2>1, BoxesAssumption
  <2> HIDE DEF r
  <2>5. r \in free
    BY <1>9, <2>3, <2>4
  <2>6. best = {x \in free : x.v = k}
    BY <2>3, <2>5 DEF best
  <2>7. ASSUME NEW x \in free, x.v = k
        PROVE  x.i = p
    <3>1. PICK q \in DOMAIN box.ports : x = [i |-> q, v |-> b.ports[q].number]
      BY <1>2, <1>4
    <3> QED
      BY <2>2, <2>7, <3>1
  <2>8. best # {}
    BY <2>3, <2>5, <2>6
  <2>9. one.i = p
    BY <1>7, <2>6, <2>7, <2>8
  <2> QED
    BY <1>1, <2>8, <2>9
<1> QED
  BY <1>8, <1>9

(* The PoE ports up to n were placed, no two of them at one interface, and each  *)
(* at its own when all interfaces are known.                                     *)
Place(i, x) == [key |-> i, port |-> x, enabled |-> PoeState(i).enabled, status |-> PoeState(i).status]
PlacedWell(A, n) ==
    /\ \A a \in A : a.key \in PoePorts /\ a.key <= n /\ a = Place(a.key, a.port)
    /\ \A a, b \in A : a.port # Missing /\ a.port = b.port => a.key = b.key
    /\ \A i \in PoePorts : i <= n => \E a \in A : a.key = i
    /\ "descr" \notin cut => \A a \in A : a.port \in DOMAIN box.ports /\ box.ports[a.port].bridge = a.key

LEMMA PoeNumbers ==
    ASSUME WitnessKnown, Done("poe")
    PROVE  /\ PoePorts \in SUBSET Nat /\ 0 \notin PoePorts
           /\ PoePorts # {} => LastOf(PoePorts) \in PoePorts /\ \A i \in PoePorts : i <= LastOf(PoePorts)
<1>1. \A i \in PoePorts : \E p \in DOMAIN box.ports : i = box.ports[p].bridge
  BY PoePortsAre, FeedingIs
<1>2. \A p \in DOMAIN box.ports : box.ports[p].bridge \in Nat \ {0}
  BY WitnessesAre DEF WitnessKnown, IsBox
<1>3. ASSUME PoePorts # {}
      PROVE  LastOf(PoePorts) \in PoePorts /\ \A i \in PoePorts : i <= LastOf(PoePorts)
  <2>1. PICK p \in DOMAIN box.ports : \A q \in DOMAIN box.ports : box.ports[q].bridge <= box.ports[p].bridge
    BY <1>1, <1>3, WitnessesAre DEF WitnessKnown, IsBox
  <2>2. PoePorts \in SUBSET Nat /\ box.ports[p].bridge \in Nat /\ \A i \in PoePorts : i <= box.ports[p].bridge
    BY <1>1, <1>2, <2>1
  <2> QED
    BY <1>3, <2>2, LastIs
<1> QED
  BY <1>1, <1>2, <1>3

LEMMA PlacingStep ==
    ASSUME WitnessKnown, Done("poe"), NEW A, NEW n \in Nat, PlacedWell(A, n)
    PROVE  PlacedWell(Placed(A, n + 1), n + 1)
<1> DEFINE k == n + 1
           taken == {a.port : a \in A}
           x == Chosen(taken, k)
<1>1. PoePorts \in SUBSET Nat
  BY PoeNumbers
<1>2. CASE k \notin PoePorts
  <2>1. Placed(A, k) = A
    BY <1>2 DEF Placed
  <2>2. \A i \in PoePorts : i <= k => i <= n
    BY <1>1, <1>2
  <2>3. \A a \in A : a.key <= k
    <3>1. \A a \in A : a.key \in Nat /\ a.key <= n
      BY <1>1 DEF PlacedWell
    <3>2. \A i \in Nat : i <= n => i <= k
      OBVIOUS
    <3> QED
      BY <3>1, <3>2
  <2> QED
    BY <2>1, <2>2, <2>3 DEF PlacedWell
<1>3. CASE k \in PoePorts
  <2>1. Placed(A, k) = A \cup {Place(k, x)}
    BY <1>3 DEF Placed, Place
  <2>2. Place(k, x).key = k /\ Place(k, x).port = x
    BY DEF Place
  <2>3. x = Missing \/ x \notin taken
    BY ChosenIs DEF Done
  <2>4. \A a \in A : a.port \in taken /\ a.key \in Nat /\ a.key <= n
    BY <1>1 DEF PlacedWell
  <2>5. "descr" \notin cut => x \in DOMAIN box.ports /\ box.ports[x].bridge = k
    <3> SUFFICES ASSUME "descr" \notin cut PROVE x \in DOMAIN box.ports /\ box.ports[x].bridge = k
      OBVIOUS
    <3>1. PICK b \in Witnessed : \E p \in Feeding(b) : k = box.ports[p].bridge
      BY <1>3, PoePortsAre
    <3>2. PICK p \in Feeding(b) : k = box.ports[p].bridge
      BY <3>1
    <3>3. p \notin taken
      <4>1. \A a \in A : box.ports[a.port].bridge = a.key /\ a.key # k
        BY <2>4 DEF PlacedWell
      <4> QED
        BY <3>2, <4>1
    <3>4. x = p
      BY <3>2, <3>3, ChosenIs DEF Done
    <3> QED
      BY <3>2, <3>4, FeedingIs
  <2> HIDE DEF x, taken, k
  <2>6. \A a \in Placed(A, k) : a.key \in PoePorts /\ a.key <= k /\ a = Place(a.key, a.port)
    BY <1>3, <2>1, <2>2, <2>4 DEF PlacedWell, k
  <2>7. \A a, b \in Placed(A, k) : a.port # Missing /\ a.port = b.port => a.key = b.key
    BY <2>1, <2>2, <2>3, <2>4 DEF PlacedWell
  <2>8. \A i \in PoePorts : i <= k => \E a \in Placed(A, k) : a.key = i
    <3>1. \A i \in PoePorts : i <= k => i = k \/ i <= n
      BY <1>1 DEF k
    <3> QED
      BY <2>1, <2>2, <3>1 DEF PlacedWell
  <2>9. "descr" \notin cut => \A a \in Placed(A, k) : a.port \in DOMAIN box.ports /\ box.ports[a.port].bridge = a.key
    BY <2>1, <2>2, <2>5 DEF PlacedWell
  <2> QED
    BY <2>6, <2>7, <2>8, <2>9 DEF PlacedWell, k
<1> QED
  BY <1>2, <1>3

LEMMA PlacingWell ==
    ASSUME WitnessKnown, Done("poe"), NEW n \in Nat
    PROVE  PlacedWell(Mapped[n], n)
<1> DEFINE Bad == {k \in Nat : ~PlacedWell(Mapped[k], k)}
<1> SUFFICES ASSUME Bad # {} PROVE FALSE
  OBVIOUS
<1>1. PICK m \in Bad : \A k \in Bad : m <= k
  BY LeastOne
<1>2. PlacedWell(Mapped[0], 0)
  BY MappedIs, PoeNumbers DEF PlacedWell
<1>3. m # 0
  BY <1>1, <1>2
<1>4. m - 1 \in Nat /\ m - 1 \notin Bad /\ m - 1 + 1 = m
  BY <1>1, <1>3
<1>5. PlacedWell(Mapped[m - 1], m - 1)
  BY <1>4
<1>6. Mapped[m - 1 + 1] = Placed(Mapped[m - 1], m - 1 + 1)
  BY <1>4, MappedIs
<1>7. PlacedWell(Placed(Mapped[m - 1], m - 1 + 1), m - 1 + 1)
  BY <1>4, <1>5, PlacingStep
<1>8. PlacedWell(Mapped[m], m)
  BY <1>4, <1>6, <1>7
<1> QED
  BY <1>1, <1>8

LEMMA PoeIs ==
    ASSUME WitnessKnown, Done("poe")
    PROVE  \E n \in Nat : PlacedWell(Poe, n) /\ \A i \in PoePorts : i <= n
<1>1. CASE PoePorts = {}
  <2>1. Poe = {}
    BY <1>1 DEF Poe
  <2> QED
    BY <1>1, <2>1 DEF PlacedWell
<1>2. CASE PoePorts # {}
  <2> DEFINE n == LastOf(PoePorts)
  <2>1. n \in Nat /\ \A i \in PoePorts : i <= n
    BY <1>2, PoeNumbers
  <2>2. Poe = Mapped[n]
    BY <1>2 DEF Poe, LastOf
  <2> HIDE DEF n
  <2> QED
    BY <2>1, <2>2, PlacingWell
<1> QED
  BY <1>1, <1>2

LEMMA PoeRight ==
    ASSUME WitnessKnown, Done("poe")
    PROVE  /\ Right("poe", Poe)
           /\ \A a \in Poe : a.key \notin box.uplinks
           /\ \A a, b \in Poe : a.port # Missing /\ a.port = b.port => a.key = b.key
<1> DEFINE P == DOMAIN box.ports
           at(p) == box.ports[p].bridge
           real(b, p) == [key |-> b.ports[p].bridge, port |-> p, enabled |-> b.ports[p].poe # "DISABLED",
                          status |-> b.ports[p].poe]
<1>1. PICK n \in Nat : PlacedWell(Poe, n) /\ \A i \in PoePorts : i <= n
  BY PoeIs
<1>2. \A b : Truth(b, "poe") = {real(b, p) : p \in Feeding(b)}
  BY DEF Truth
<1>3. \A p, q \in P : at(p) = at(q) => p = q
  BY WitnessesAre DEF WitnessKnown, IsBox
<1>4. ASSUME NEW a \in Poe
      PROVE  /\ \E p \in P : a.key = at(p) /\ at(p) \in PoePorts
             /\ a.key \notin box.uplinks /\ a = Place(a.key, a.port)
             /\ "descr" \notin cut => a.port \in P /\ at(a.port) = a.key
  BY <1>1, PoePortsAre, FeedingIs DEF PlacedWell
<1>5. \A i, x : /\ DOMAIN Place(i, x) = {"key", "port", "enabled", "status"}
                /\ Place(i, x)["key"] = i /\ Place(i, x)["port"] = x
                /\ Place(i, x)["enabled"] = PoeState(i).enabled /\ Place(i, x)["status"] = PoeState(i).status
  BY DEF Place
<1>6. \A b, p : /\ real(b, p)["key"] = b.ports[p].bridge /\ real(b, p)["port"] = p
                /\ real(b, p)["enabled"] = (b.ports[p].poe # "DISABLED") /\ real(b, p)["status"] = b.ports[p].poe
  OBVIOUS
<1>7. ASSUME AllSeen, NEW p \in Feeding(box)
      PROVE  Place(at(p), p) = real(box, p)
  <2>1. at(p) \in PoePorts /\ p \in P
    BY <1>7, PoePortsAre DEF Feeding
  <2>2. PoeState(at(p)).enabled = (box.ports[p].poe # "DISABLED") /\ PoeState(at(p)).status = box.ports[p].poe
    BY <1>7, <2>1, PoeStateIs
  <2> QED
    BY <2>2 DEF Place
<1>8. AllSeen => Poe = Truth(box, "poe")
  <2> SUFFICES ASSUME AllSeen PROVE Poe = Truth(box, "poe")
    OBVIOUS
  <2> HIDE DEF real
  <2>1. "descr" \notin cut
    BY DEF AllSeen
  <2>2. ASSUME NEW a \in Poe
        PROVE  \E p \in Feeding(box) : a = real(box, p)
    <3>1. a.port \in P /\ at(a.port) = a.key /\ a = Place(a.key, a.port) /\ at(a.port) \in PoePorts
      BY <1>4, <2>1
    <3>2. a.port \in Feeding(box)
      BY <3>1, PoeStateIs
    <3> QED
      BY <1>7, <3>1, <3>2
  <2>3. ASSUME NEW p \in Feeding(box)
        PROVE  real(box, p) \in Poe
    <3>1. p \in P /\ at(p) \in PoePorts
      BY PoePortsAre DEF Feeding
    <3>2. PICK a \in Poe : a.key = at(p)
      BY <1>1, <3>1 DEF PlacedWell
    <3>3. a.port = p
      BY <1>3, <1>4, <2>1, <3>1, <3>2
    <3> QED
      BY <1>4, <1>7, <3>2, <3>3
  <2> DEFINE R == {real(box, p) : p \in Feeding(box)}
  <2>4. Poe \subseteq R
    BY <2>2
  <2>5. R \subseteq Poe
    BY <2>3
  <2>6. Truth(box, "poe") = R
    BY <1>2
  <2> QED
    BY <2>4, <2>5, <2>6
<1>9. ASSUME NEW a \in Poe
      PROVE  "key" \in DOMAIN a /\ \A f \in DOMAIN a \ {"key"} : Fits("poe", a, f)
  <2>1. PICK p \in P : a.key = at(p) /\ at(p) \in PoePorts
    BY <1>4
  <2>2. /\ DOMAIN a = {"key", "port", "enabled", "status"}
        /\ a["enabled"] = PoeState(at(p)).enabled /\ a["status"] = PoeState(at(p)).status
    BY <1>4, <1>5, <2>1
  <2>3. ASSUME NEW b \in Witnessed, p \in Feeding(b)
        PROVE  real(b, p) \in Truth(b, "poe") /\ real(b, p).key = a.key
    BY <1>2, <2>1, <2>3, FeedingIs
  <2> HIDE DEF real
  <2>4. PICK b \in Witnessed : /\ p \in Feeding(b)
                               /\ a["enabled"] = (b.ports[p].poe # "DISABLED") \/ a["enabled"] = TRUE
    BY <2>1, <2>2, PoeStateIs
  <2>5. PICK c \in Witnessed : /\ p \in Feeding(c)
                               /\ a["status"] = c.ports[p].poe \/ a["status"] = Unknown["status"]
    BY <2>1, <2>2, PoeStateIs
  <2>6. Fits("poe", a, "enabled")
    <3>1. PICK t : t = real(b, p)
      OBVIOUS
    <3>2. t \in Truth(b, "poe") /\ t.key = a.key /\ t["enabled"] = (b.ports[p].poe # "DISABLED")
      BY <1>6, <2>3, <2>4, <3>1
    <3>3. a["enabled"] = t["enabled"] \/ a["enabled"] = Unknown["enabled"]
      BY <2>4, <3>2, Unknowns, Zenon
    <3> QED
      BY <3>2, <3>3 DEF Fits
  <2>7. Fits("poe", a, "status")
    BY <1>6, <2>3, <2>5 DEF Fits
  <2>8. Fits("poe", a, "port")
    <3>1. CASE "descr" \in cut
      BY <2>3, <2>4, <3>1 DEF Fits
    <3>2. CASE "descr" \notin cut
      <4>1. a["port"] = p
        BY <1>3, <1>4, <2>1, <3>2
      <4> QED
        BY <1>6, <2>3, <2>4, <4>1 DEF Fits
    <3> QED
      BY <3>1, <3>2
  <2> QED
    BY <2>2, <2>6, <2>7, <2>8
<1> QED
  BY <1>1, <1>4, <1>8, <1>9 DEF Right, PlacedWell

-----------------------------------------------------------------------------
(* What a method returns is right. *)
LEMMA ReturnRight ==
    ASSUME CollectInv, Return
    PROVE  /\ Right(call.method, answer')
           /\ call.method = "poe" => /\ \A a \in answer' : a.key \notin box.uplinks
                                     /\ \A a, b \in answer' : a.port # Missing /\ a.port = b.port => a.key = b.key
<1>1. WitnessKnown /\ call.method \in Methods \ {"set_pvid"} /\ Done(call.method)
  BY AllWalked DEF CollectInv, Return, WitnessKnown
<1>2. CASE call.method = "interfaces"
  <2>1. answer' = Interfaces
    BY <1>2 DEF Return
  <2> QED
    BY <1>1, <1>2, <2>1, InterfacesRight DEF Done
<1>3. CASE call.method = "lldp"
  <2>1. answer' = IF rows["chassis"] = {} THEN {} ELSE Neighbours
    BY <1>3 DEF Return
  <2>2. rows["chassis"] = {} => Neighbours = {}
    BY DEF Neighbours
  <2> QED
    BY <1>1, <1>3, <2>1, <2>2, NeighboursRight DEF Done
<1>4. CASE call.method = "fdb"
  <2>1. answer' = Fdb
    BY <1>4 DEF Return
  <2> QED
    BY <1>1, <1>4, <2>1, FdbRight
<1>5. CASE call.method = "pvids"
  <2>1. answer' = Pvids
    BY <1>5 DEF Return
  <2> QED
    BY <1>1, <1>5, <2>1, PvidsRight DEF Done
<1>6. CASE call.method = "routes"
  <2>1. answer' = Routes
    BY <1>6 DEF Return
  <2> QED
    BY <1>1, <1>6, <2>1, RoutesRight DEF Done
<1>7. CASE call.method = "poe"
  <2>1. answer' = Poe
    BY <1>7 DEF Return
  <2> QED
    BY <1>1, <1>7, <2>1, PoeRight
<1> QED
  BY <1>1, <1>2, <1>3, <1>4, <1>5, <1>6, <1>7 DEF Methods

AnswerInv == WholeIsExact /\ NothingInvented /\ UplinksNeverPoe /\ PoeApart

LEMMA AnswerStep ==
    ASSUME CollectInv, AnswerInv, [CollectNext]_collectVars
    PROVE  AnswerInv'
<1>1. CASE answer' = Missing
  BY <1>1 DEF AnswerInv, WholeIsExact, NothingInvented, UplinksNeverPoe, PoeApart, Returned
<1>2. CASE Walk \/ Changes
  BY <1>1, <1>2 DEF Walk, Changes
<1>3. CASE Return
  <2>1. UNCHANGED <<box, call, cut, moved>> /\ Family' = Family /\ Unknown' = Unknown /\ Placing' = Placing
    BY <1>3 DEF Return, Family, Unknown, Placing
  <2>2. Right(call.method, answer')
    BY <1>3, ReturnRight
  <2>3. WholeIsExact'
    BY <2>1, <2>2 DEF WholeIsExact, Returned, Right, AllSeen
  <2>4. NothingInvented'
    <3> DEFINE true == UNION {Truth(b, call.method) : b \in IF moved THEN Family ELSE {box}}
    <3>1. ASSUME NEW a \in answer', NEW f \in DOMAIN a \ {"key"}
          PROVE  \E t \in true : /\ t.key = a.key
                                 /\ \/ a[f] = t[f] \/ (call.method # "pvids" /\ a[f] = Unknown[f])
                                    \/ f = "port" /\ call.method \in {"lldp", "poe"} /\ Placing \in cut
      <4>1. Fits(call.method, a, f)
        BY <2>2, <3>1 DEF Right
      <4>2. PICK b \in Witnessed : \E t \in Truth(b, call.method) :
               /\ t.key = a.key
               /\ \/ a[f] = t[f] \/ (call.method # "pvids" /\ a[f] = Unknown[f])
                  \/ f = "port" /\ call.method \in {"lldp", "poe"} /\ Placing \in cut
        BY <4>1 DEF Fits, Placing
      <4>3. \A t \in Truth(b, call.method) : t \in true
        BY <4>2 DEF Witnessed
      <4> HIDE DEF true
      <4> QED
        BY <4>2, <4>3
    <3>2. true' = true
      BY <2>1
    <3>3. NothingInvented' <=>
            (Returned' => \A a \in answer' : \A f \in DOMAIN a \ {"key"} :
               \E t \in true' : /\ t.key = a.key
                                /\ \/ a[f] = t[f] \/ (call'.method # "pvids" /\ a[f] = Unknown'[f])
                                   \/ f = "port" /\ call'.method \in {"lldp", "poe"} /\ Placing' \in cut')
      BY DEF NothingInvented
    <3> HIDE DEF true
    <3> QED
      BY <2>1, <3>1, <3>2, <3>3
  <2>5. UplinksNeverPoe'
    BY <1>3, <2>1, ReturnRight DEF UplinksNeverPoe, Returned
  <2>6. PoeApart'
    BY <1>3, <2>1, ReturnRight DEF PoeApart, Returned
  <2> QED
    BY <2>3, <2>4, <2>5, <2>6 DEF AnswerInv
<1>4. CASE SetPvid
  <2>1. ~Returned'
    BY <1>4 DEF SetPvid, Returned
  <2> QED
    BY <2>1 DEF AnswerInv, WholeIsExact, NothingInvented, UplinksNeverPoe, PoeApart
<1>5. CASE UNCHANGED collectVars
  <2>1. UNCHANGED <<box, call, cut, moved, answer>> /\ Family' = Family /\ Unknown' = Unknown /\ Placing' = Placing
    BY <1>5 DEF collectVars, Family, Unknown, Placing
  <2> QED
    BY <2>1 DEF AnswerInv, WholeIsExact, NothingInvented, UplinksNeverPoe, PoeApart, Returned
<1> QED
  BY <1>2, <1>3, <1>4, <1>5 DEF CollectNext

(* A SET goes to the bridge port of the interface it was meant for. *)
LEMMA SetOfItsPort ==
    ASSUME CollectInv, SetPvid, answer' = {[set |-> TRUE]}, NEW p \in DOMAIN box.ports
    PROVE  box'.ports[p] = IF p = call.port THEN [box.ports[p] EXCEPT !.pvid = 77] ELSE box.ports[p]
<1> DEFINE P == DOMAIN box.ports
           at(q) == box.ports[q].bridge
<1>1. WitnessKnown /\ "base" \in DOMAIN rows
  <2>1. WitnessKnown /\ Done(call.method) /\ call.method = "set_pvid"
    BY AllWalked DEF CollectInv, SetPvid, WitnessKnown
  <2> QED
    BY <2>1 DEF Done, WalksNeeded
<1>2. IsBox(box) /\ \A q, s \in P : at(q) = at(s) => q = s
  <2>1. IsBox(box)
    BY <1>1, WitnessesAre DEF WitnessKnown
  <2>2. \A q, s \in P : box.ports[q].bridge = box.ports[s].bridge => q = s
    BY <2>1 DEF IsBox
  <2> QED
    BY <2>1, <2>2
<1>3. PICK b \in Witnessed : rows["base"] \subseteq Table(b, "base")
  BY <1>1 DEF WitnessKnown, Sourced
<1>4. DOMAIN b.ports = P /\ \A q \in P : b.ports[q].bridge = at(q)
  BY <1>1, WitnessesAre DEF WitnessKnown
<1>5. ASSUME NEW r \in rows["base"]
      PROVE  r.v \in P /\ r.i = at(r.v)
  <2>1. r \in {[i |-> b.ports[q].bridge, v |-> q] : q \in P}
    BY <1>3, <1>4, <1>5, TablesOfDevice
  <2> QED
    BY <1>4, <2>1
<1>6. [set |-> TRUE] # [set |-> FALSE]
  <2>1. [set |-> TRUE].set # [set |-> FALSE].set
    OBVIOUS
  <2> QED
    BY <2>1
<1>7. /\ Target # {}
      /\ box' = [box EXCEPT !.ports = [q \in DOMAIN @ |-> IF @[q].bridge \in Target THEN [@[q] EXCEPT !.pvid = 77] ELSE @[q]]]
  BY <1>6 DEF SetPvid
<1>8. box'.ports[p] = IF at(p) \in Target THEN [box.ports[p] EXCEPT !.pvid = 77] ELSE box.ports[p]
  <2>1. "ports" \in DOMAIN box
    BY <1>2 DEF IsBox
  <2>2. box'.ports = [q \in P |-> IF at(q) \in Target THEN [box.ports[q] EXCEPT !.pvid = 77] ELSE box.ports[q]]
    BY <1>7, <2>1
  <2> QED
    BY <2>2
<1>9. at(p) \in Target <=> p = call.port
  BY <1>2, <1>5, <1>7 DEF Target
<1> QED
  BY <1>8, <1>9

PvidStep ==
    answer' = {[set |-> TRUE]} =>
       \A p \in DOMAIN box.ports :
          box'.ports[p] = IF p = call.port THEN [box.ports[p] EXCEPT !.pvid = 77] ELSE box.ports[p]

LEMMA PvidSet ==
    ASSUME CollectInv, [CollectNext]_collectVars
    PROVE  [PvidStep]_collectVars
<1>1. CASE Walk \/ Changes
  BY <1>1, BoxesAssumption DEF Walk, Changes, PvidStep
<1>2. CASE Return
  <2>1. \A a \in answer' : "key" \in DOMAIN a
    BY <1>2, ReturnRight DEF Right
  <2>2. "key" \notin DOMAIN [set |-> TRUE]
    OBVIOUS
  <2> QED
    BY <2>1, <2>2 DEF PvidStep
<1>3. CASE SetPvid
  BY <1>3, SetOfItsPort DEF PvidStep
<1>4. CASE UNCHANGED collectVars
  BY <1>4
<1> QED
  BY <1>1, <1>2, <1>3, <1>4 DEF CollectNext

(* Every method of the SNMP collector, wherever its walks end and whatever       *)
(* changes between them, tells of the device what it has or has had in the call, *)
(* and all of it when the walks were whole; no uplink is taken for a PoE port,   *)
(* no two PoE ports are one interface; and a VLAN is set on its port.            *)
THEOREM AnswersTrue == CollectSpec => AnswersAreTrue
<1>1. CollectInit => CollectInv /\ AnswerInv
  BY CollectStart DEF AnswerInv, WholeIsExact, NothingInvented, UplinksNeverPoe, PoeApart, Returned
<1>2. CollectInv /\ AnswerInv /\ [CollectNext]_collectVars => CollectInv' /\ AnswerInv'
  BY CollectStep, AnswerStep
<1>3. CollectInv /\ [CollectNext]_collectVars => [PvidStep]_collectVars
  BY PvidSet
<1>4. AnswerInv => WholeIsExact /\ NothingInvented /\ UplinksNeverPoe /\ PoeApart
  BY DEF AnswerInv
<1> QED
  BY <1>1, <1>2, <1>3, <1>4, PTL DEF CollectSpec, AnswersAreTrue, PvidOfItsPort, PvidStep
=============================================================================
