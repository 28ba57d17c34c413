---------------------------- MODULE TopologyProofs ----------------------------
(* Proofs about the topology: the links of one pair of devices (LinkTable) and   *)
(* the transactions that race for them (LinkRace), for any ports, cables,        *)
(* networks, labels, sessions and number of rows; the passes of a recomputation  *)
(* (Topology) for any hosts; the roles (Roles), for any devices, links,          *)
(* thresholds and choices of the operator.                                       *)
EXTENDS MCTopology, IdentityProofs, FiniteSetTheorems, TLAPS

-----------------------------------------------------------------------------
(* LinkTable. *)

(* The rows have ids of their own, and one that an operator labelled is older   *)
(* than any other: it absorbed the rows there were.                             *)
RowsDistinct == \A l, k \in links : l.id = k.id => l = k
LabelledIsOldest == \A l, k \in links : l.label # NoLabel => l.id <= k.id

(* A row without an operator's evidence, in a network whose rows all name their *)
(* port, stands for a cable.                                                    *)
AllAnchored == \A o \in reports : o.src # NoPort
Real(l) == l.src # NoPort /\ (l.dst # NoPort => <<l.src, l.dst>> \in Cables)
Observed(l) == \A e \in saved : e[1] = l.id => e[2] # Manual
RowsReal == AllAnchored => \A l \in links : Observed(l) => Real(l)

(* What the open recomputation has heard is on a link, and has its evidence.     *)
OnALink(o, held) == \E l \in held : l.src = o.src /\ (o.dst # NoPort => l.dst = o.dst)
HeardKept == Anchored => \A o \in heard : OnALink(o, links) /\ \E e \in saved \cup pending : e[2] = o

LinkInv ==
    /\ LinkTypeOK /\ RowsDistinct /\ LabelledIsOldest /\ RowsReal /\ HeardKept
    /\ NoTwoCompatible /\ EvidenceHasLink /\ DownIsUnseen

-----------------------------------------------------------------------------
(* The oldest row of several. *)
LEMMA OldestRow ==
  ASSUME NEW S, S # {}, \A l \in S : l.id \in Nat
  PROVE  Oldest(S) \in S /\ \A k \in S : Oldest(S).id <= k.id
<1>1. {l.id : l \in S} \subseteq Nat /\ {l.id : l \in S} # {}
  OBVIOUS
<1>2. PICK m \in {l.id : l \in S} : \A n \in {l.id : l \in S} : m <= n
  BY <1>1, LeastOne
<1>3. \E l \in S : \A k \in S : l.id <= k.id
  BY <1>2
<1> QED
  BY <1>3 DEF Oldest

LEMMA OldestIs ==
  ASSUME NEW S \in SUBSET Link, S # {}
  PROVE  Oldest(S) \in S /\ \A k \in S : Oldest(S).id <= k.id
BY OldestRow, MaxIdAssumption DEF Link, Ids

LEMMA GapOrder == \A a, b \in 0..100 : 100 - a <= 100 - b => b <= a
OBVIOUS

(* The row of the highest confidence. *)
LEMMA BestRow ==
  ASSUME NEW S, S # {}, \A l \in S : l.id \in Nat /\ l.conf \in 0..Sure
  PROVE  Best(S) \in S
<1> DEFINE gap(l) == Sure - l.conf
           T == {l \in S : \A k \in S : k.conf <= l.conf}
<1>1. \A l \in S : gap(l) \in Nat /\ l.conf \in 0..100 /\ gap(l) = 100 - l.conf
  BY DEF Sure
<1>2. {gap(l) : l \in S} \subseteq Nat /\ {gap(l) : l \in S} # {}
  BY <1>1
<1>3. PICK m \in {gap(l) : l \in S} : \A n \in {gap(l) : l \in S} : m <= n
  BY <1>2, LeastOne
<1>4. PICK l \in S : m = gap(l)
  OBVIOUS
<1>5. ASSUME NEW k \in S PROVE k.conf <= l.conf
  <2>1. gap(k) \in {gap(j) : j \in S}
    OBVIOUS
  <2>2. m <= gap(k)
    BY <1>3, <2>1
  <2>3. gap(l) <= gap(k)
    BY <1>4, <2>2
  <2>4. gap(l) = 100 - l.conf /\ gap(k) = 100 - k.conf /\ l.conf \in 0..100 /\ k.conf \in 0..100
    BY <1>1
  <2>5. 100 - l.conf <= 100 - k.conf
    BY <2>3, <2>4
  <2> QED
    BY <2>4, <2>5, GapOrder
<1>6. T # {} /\ T \subseteq S
  BY <1>5
<1>7. Oldest(T) \in T
  BY <1>6, OldestRow
<1> QED
  BY <1>7 DEF Best

LEMMA BestIs ==
  ASSUME NEW S \in SUBSET Link, S # {}
  PROVE  Best(S) \in S
BY BestRow, MaxIdAssumption DEF Link, Ids

-----------------------------------------------------------------------------
(* The ports of a merged row: what its oldest row knows stays; what the          *)
(* observation knows is learnt, as all the merged rows agree with it; no port is *)
(* made up, and none that is known is lost.                                     *)
LEMMA MergedPorts2 ==
  ASSUME NEW S \in SUBSET Link, S # {}, NEW o \in Reports, \A l \in S : Compatible(l, o)
  PROVE  /\ Oldest(S).src # NoPort => Src(S, o) = Oldest(S).src
         /\ Oldest(S).dst # NoPort => Dst(S, o) = Oldest(S).dst
         /\ o.src # NoPort => Src(S, o) = o.src
         /\ o.dst # NoPort => Dst(S, o) = o.dst
         /\ Src(S, o) # NoPort => Src(S, o) = o.src \/ \E l \in S : Src(S, o) = l.src
         /\ Dst(S, o) # NoPort => Dst(S, o) = o.dst \/ \E l \in S : Dst(S, o) = l.dst
         /\ Src(S, o) \in SrcPorts \cup {NoPort} /\ Dst(S, o) \in DstPorts \cup {NoPort}
<1>1. Oldest(S) \in S
  BY OldestIs
<1>2. /\ \A l \in S : l.src \in SrcPorts \cup {NoPort} /\ l.dst \in DstPorts \cup {NoPort}
      /\ o.src \in SrcPorts \cup {NoPort} /\ o.dst \in DstPorts \cup {NoPort}
  BY DEF Link, Reports
<1>3. ASSUME {l \in S : l.src # NoPort} # {} PROVE Oldest({l \in S : l.src # NoPort}) \in S
  BY <1>3, OldestIs, {l \in S : l.src # NoPort} \in SUBSET Link
<1>4. ASSUME {l \in S : l.dst # NoPort} # {} PROVE Oldest({l \in S : l.dst # NoPort}) \in S
  BY <1>4, OldestIs, {l \in S : l.dst # NoPort} \in SUBSET Link
<1>5. /\ Oldest(S).src # NoPort => Src(S, o) = Oldest(S).src
      /\ o.src # NoPort => Src(S, o) = o.src
      /\ Src(S, o) # NoPort => Src(S, o) = o.src \/ \E l \in S : Src(S, o) = l.src
      /\ Src(S, o) \in SrcPorts \cup {NoPort}
  BY <1>1, <1>2, <1>3 DEF Src, Port, Compatible
<1>6. /\ Oldest(S).dst # NoPort => Dst(S, o) = Oldest(S).dst
      /\ o.dst # NoPort => Dst(S, o) = o.dst
      /\ Dst(S, o) # NoPort => Dst(S, o) = o.dst \/ \E l \in S : Dst(S, o) = l.dst
      /\ Dst(S, o) \in DstPorts \cup {NoPort}
  BY <1>1, <1>2, <1>4 DEF Dst, Port, Compatible
<1> QED
  BY <1>5, <1>6

(* Rows with some of their fields replaced. *)
Raised(l, c, s) == [l EXCEPT !.conf = c, !.source = s]
Placed(l, p, q) == [l EXCEPT !.src = p, !.dst = q]
AgedTo(l, a, s) == [l EXCEPT !.age = a, !.status = s]
Seen(l, p, q) == [l EXCEPT !.src = p, !.dst = q, !.age = 0, !.status = "UP"]

LEMMA RaisedRow ==
  \A l \in Link, c \in 0..Sure, s \in DOMAIN Confidence :
    LET r == Raised(l, c, s)
    IN  r \in Link /\ r.conf = c /\ r.id = l.id /\ r.label = l.label
BY DEF Link, Raised

LEMMA PlacedRow ==
  \A l \in Link, p \in SrcPorts \cup {NoPort}, q \in DstPorts \cup {NoPort} :
    LET r == Placed(l, p, q)
    IN  r \in Link /\ r.id = l.id /\ r.label = l.label /\ r.conf = l.conf /\ r.src = p /\ r.dst = q
<1> TAKE l \in Link, p \in SrcPorts \cup {NoPort}, q \in DstPorts \cup {NoPort}
<1>1. Placed(l, p, q) \in Link
  BY DEF Link, Placed
<1>2. /\ Placed(l, p, q).id = l.id /\ Placed(l, p, q).label = l.label /\ Placed(l, p, q).conf = l.conf
      /\ Placed(l, p, q).src = p /\ Placed(l, p, q).dst = q
  BY DEF Link, Placed
<1> QED
  BY <1>1, <1>2

LEMMA AgedRow ==
  \A l \in Link, a \in 0..2, s \in {"UP", "STALE", "DOWN"} :
    LET r == AgedTo(l, a, s)
    IN  /\ r \in Link /\ r.id = l.id /\ r.label = l.label /\ r.conf = l.conf
        /\ r.src = l.src /\ r.dst = l.dst /\ r.age = a /\ r.status = s
<1> TAKE l \in Link, a \in 0..2, s \in {"UP", "STALE", "DOWN"}
<1>1. AgedTo(l, a, s) \in Link
  BY DEF Link, AgedTo
<1>2. AgedTo(l, a, s).age = a /\ AgedTo(l, a, s).status = s
  BY DEF Link, AgedTo
<1>3. /\ AgedTo(l, a, s).id = l.id /\ AgedTo(l, a, s).label = l.label /\ AgedTo(l, a, s).conf = l.conf
      /\ AgedTo(l, a, s).src = l.src /\ AgedTo(l, a, s).dst = l.dst
  BY DEF Link, AgedTo
<1> QED
  BY <1>1, <1>2, <1>3

LEMMA SeenRow ==
  \A l \in Link, p \in SrcPorts \cup {NoPort}, q \in DstPorts \cup {NoPort} :
    LET r == Seen(l, p, q)
    IN  /\ r \in Link /\ r.id = l.id /\ r.label = l.label /\ r.conf = l.conf
        /\ r.src = p /\ r.dst = q /\ r.age = 0 /\ r.status = "UP"
<1> TAKE l \in Link, p \in SrcPorts \cup {NoPort}, q \in DstPorts \cup {NoPort}
<1>1. Seen(l, p, q) = AgedTo(Placed(l, p, q), 0, "UP")
  BY Zenon DEF Seen, AgedTo, Placed
<1>2. 0 \in 0..2 /\ "UP" \in {"UP", "STALE", "DOWN"}
  OBVIOUS
<1> DEFINE j == Placed(l, p, q)
<1>3. j \in Link /\ j.id = l.id /\ j.label = l.label /\ j.conf = l.conf /\ j.src = p /\ j.dst = q
  BY PlacedRow
<1> HIDE DEF j
<1>4. LET r == AgedTo(j, 0, "UP")
      IN  /\ r \in Link /\ r.id = j.id /\ r.label = j.label /\ r.conf = j.conf
          /\ r.src = j.src /\ r.dst = j.dst /\ r.age = 0 /\ r.status = "UP"
  BY <1>2, <1>3, AgedRow
<1>5. Seen(l, p, q) = AgedTo(j, 0, "UP")
  BY <1>1 DEF j
<1> QED
  BY <1>3, <1>4, <1>5

LEMMA RaiseIs ==
  ASSUME NEW l \in Link, NEW m, m.conf \in 0..Sure, m.source \in DOMAIN Confidence
  PROVE  /\ Raise(l, m) \in Link /\ Raise(l, m).id = l.id /\ Raise(l, m).label = l.label
         /\ Raise(l, m).conf >= l.conf
<1>1. l.conf \in 0..100 /\ m.conf \in 0..100
  BY DEF Link, Sure
<1>2. CASE m.conf > l.conf
  <2>1. Raise(l, m) = Raised(l, m.conf, m.source)
    BY <1>2 DEF Raise, Raised
  <2>2. PICK c \in 0..Sure, s \in DOMAIN Confidence : c = m.conf /\ s = m.source
    OBVIOUS
  <2>3. /\ Raise(l, m) \in Link /\ Raise(l, m).conf = c
        /\ Raise(l, m).id = l.id /\ Raise(l, m).label = l.label
    BY <2>1, <2>2, RaisedRow
  <2> QED
    BY <1>1, <1>2, <2>2, <2>3
<1>3. CASE ~(m.conf > l.conf)
  BY <1>1, <1>3 DEF Raise
<1> QED
  BY <1>2, <1>3

(* The rest of a merged row: its oldest row's identity and label, a confidence   *)
(* that has not dropped, and a sighting just now.                               *)
LEMMA MergedRow ==
  ASSUME NEW S \in SUBSET Link, S # {}, NEW o \in Reports, \A l \in S : Compatible(l, o)
  PROVE  /\ Merged(S, o) \in Link
         /\ Merged(S, o).id = Oldest(S).id /\ Merged(S, o).label = Oldest(S).label
         /\ Merged(S, o).src = Src(S, o) /\ Merged(S, o).dst = Dst(S, o)
         /\ Merged(S, o).conf >= Oldest(S).conf
         /\ Merged(S, o).age = 0 /\ Merged(S, o).status = "UP"
<1> DEFINE seen == Raise(Oldest(S), [conf |-> Confidence[o.source], source |-> o.source])
           best == Raise(seen, Best(S))
<1>1. Oldest(S) \in Link /\ Best(S) \in Link
  BY OldestIs, BestIs
<1>2. o.source \in DOMAIN Confidence /\ Confidence[o.source] \in 0..Sure
  BY ConfidenceAssumption DEF Reports
<1>3. seen \in Link /\ seen.id = Oldest(S).id /\ seen.label = Oldest(S).label /\ seen.conf >= Oldest(S).conf
  BY <1>1, <1>2, RaiseIs
<1> HIDE DEF seen
<1>4. best \in Link /\ best.id = seen.id /\ best.label = seen.label /\ best.conf >= seen.conf
  <2>1. Best(S).conf \in 0..Sure /\ Best(S).source \in DOMAIN Confidence
    BY <1>1 DEF Link
  <2> QED
    BY <1>3, <2>1, RaiseIs
<1> HIDE DEF best
<1>5. best.conf >= Oldest(S).conf
  BY <1>1, <1>3, <1>4 DEF Link, Sure
<1>6. Merged(S, o) = Seen(best, Src(S, o), Dst(S, o))
  BY Zenon DEF Merged, Seen, best, seen
<1>7. Src(S, o) \in SrcPorts \cup {NoPort} /\ Dst(S, o) \in DstPorts \cup {NoPort}
  BY MergedPorts2
<1>8. best \in Link => /\ Merged(S, o) \in Link /\ Merged(S, o).id = best.id /\ Merged(S, o).label = best.label
                        /\ Merged(S, o).src = Src(S, o) /\ Merged(S, o).dst = Dst(S, o)
                        /\ Merged(S, o).conf = best.conf /\ Merged(S, o).age = 0 /\ Merged(S, o).status = "UP"
  BY <1>6, <1>7, SeenRow
<1> QED
  BY <1>3, <1>4, <1>5, <1>8

-----------------------------------------------------------------------------
(* What an observation o makes of the rows S that fit it: the row r.            *)
Stands(r, S, o) ==
    /\ r \in Link /\ r.status = "UP"
    /\ o.src # NoPort => r.src = o.src
    /\ o.dst # NoPort => r.dst = o.dst
    /\ r.src # NoPort => r.src = o.src \/ \E l \in S : r.src = l.src
    /\ r.dst # NoPort => r.dst = o.dst \/ \E l \in S : r.dst = l.dst
    /\ IF S = {} THEN \A l \in links : l.id < r.id
       ELSE /\ r.id = Oldest(S).id /\ r.conf >= Oldest(S).conf
            /\ Oldest(S).src # NoPort => r.src = Oldest(S).src
            /\ Oldest(S).dst # NoPort => r.dst = Oldest(S).dst

LEMMA ReportsTyped ==
  ASSUME LinkTypeOK
  PROVE  /\ reports \subseteq Reports /\ Manual \in Reports
         /\ \A o \in reports : o.src # NoPort /\ o.dst # NoPort => <<o.src, o.dst>> \in Cables
<1>1. reports \subseteq Reports
  BY NetworksAssumption DEF LinkTypeOK
<1>2. \A o \in reports : o.src # NoPort /\ o.dst # NoPort => <<o.src, o.dst>> \in Cables
  BY NetworksAssumption DEF LinkTypeOK
<1>3. Manual \in Reports
  BY ConfidenceAssumption DEF Manual, Reports, Passes
<1> QED
  BY <1>1, <1>2, <1>3

LEMMA MatchesAre ==
  ASSUME LinkTypeOK, NEW o \in Reports
  PROVE  /\ Matches(o) \in SUBSET Link /\ Matches(o) \subseteq links
         /\ \A l \in Matches(o) : Compatible(l, o)
         /\ \A l \in links \ Matches(o) : ~ Compatible(l, o)
BY DEF Matches, LinkTypeOK

LEMMA ReciprocalRow ==
  ASSUME NEW l \in Link, NEW both \in BOOLEAN
  PROVE  LET r == Reciprocal(l, both)
         IN  /\ r \in Link /\ r.id = l.id /\ r.label = l.label /\ r.conf >= l.conf
             /\ r.src = l.src /\ r.dst = l.dst /\ r.age = l.age /\ r.status = l.status
<1>1. l.conf \in 0..100
  BY DEF Link, Sure
<1>2. CASE both /\ l.conf < Sure
  BY <1>1, <1>2 DEF Reciprocal, Link, Sure
<1>3. CASE ~(both /\ l.conf < Sure)
  BY <1>1, <1>3 DEF Reciprocal
<1> QED
  BY <1>2, <1>3

LEMMA NewRow ==
  ASSUME NEW i \in Ids, NEW o \in Reports
  PROVE  LET r == New(i, o)
         IN  /\ r \in Link /\ r.id = i /\ r.label = NoLabel
             /\ r.src = o.src /\ r.dst = o.dst /\ r.age = 0 /\ r.status = "UP"
<1>1. o.source \in DOMAIN Confidence /\ Confidence[o.source] \in 0..Sure
  BY ConfidenceAssumption DEF Reports
<1>2. o.src \in SrcPorts \cup {NoPort} /\ o.dst \in DstPorts \cup {NoPort}
  BY DEF Reports
<1> QED
  BY <1>1, <1>2 DEF New, Link

(* The row that an observation inserts, and the row that absorbs the rows that   *)
(* fit it, stand for them.                                                      *)
LEMMA InsertedStands ==
  ASSUME LinkTypeOK, NEW o \in Reports, NEW both \in BOOLEAN, NEW i \in Ids, Fresh(i), Matches(o) = {}
  PROVE  LET r == Reciprocal(New(i, o), both)
         IN  Stands(r, Matches(o), o) /\ r.label = NoLabel /\ r.id = i
<1> DEFINE r == Reciprocal(New(i, o), both)
<1>1. r \in Link /\ r.id = i /\ r.label = NoLabel /\ r.src = o.src /\ r.dst = o.dst /\ r.status = "UP"
  BY NewRow, ReciprocalRow
<1>2. \A l \in links : l.id < i
  BY DEF Fresh
<1> HIDE DEF r
<1>3. Stands(r, Matches(o), o)
  BY <1>1, <1>2 DEF Stands
<1> QED
  BY <1>1, <1>3 DEF r

LEMMA MergedStands ==
  ASSUME LinkTypeOK, NEW o \in Reports, Matches(o) # {}
  PROVE  Stands(Merged(Matches(o), o), Matches(o), o) /\ Merged(Matches(o), o).label = Oldest(Matches(o)).label
<1> DEFINE S == Matches(o)
           r == Merged(S, o)
<1>1. S \in SUBSET Link /\ S # {} /\ \A l \in S : Compatible(l, o)
  BY MatchesAre
<1> HIDE DEF S
<1>2. /\ r \in Link /\ r.id = Oldest(S).id /\ r.label = Oldest(S).label
      /\ r.src = Src(S, o) /\ r.dst = Dst(S, o) /\ r.conf >= Oldest(S).conf /\ r.status = "UP"
  BY <1>1, MergedRow
<1>3. /\ Oldest(S).src # NoPort => Src(S, o) = Oldest(S).src
      /\ Oldest(S).dst # NoPort => Dst(S, o) = Oldest(S).dst
      /\ o.src # NoPort => Src(S, o) = o.src
      /\ o.dst # NoPort => Dst(S, o) = o.dst
      /\ Src(S, o) # NoPort => Src(S, o) = o.src \/ \E l \in S : Src(S, o) = l.src
      /\ Dst(S, o) # NoPort => Dst(S, o) = o.dst \/ \E l \in S : Dst(S, o) = l.dst
  BY <1>1, MergedPorts2
<1> HIDE DEF r
<1>4. Stands(r, S, o)
  BY <1>1, <1>2, <1>3 DEF Stands
<1> QED
  BY <1>2, <1>4 DEF r, S

LEMMA GeqTransitive == \A a, b, c \in 0..100 : a >= b /\ b >= c => a >= c
OBVIOUS

LEMMA ReciprocalStands ==
  ASSUME LinkTypeOK, NEW o \in Reports, NEW both \in BOOLEAN, NEW S \in SUBSET Link, S # {},
         NEW l, Stands(l, S, o)
  PROVE  Stands(Reciprocal(l, both), S, o) /\ Reciprocal(l, both).label = l.label
<1> DEFINE r == Reciprocal(l, both)
<1>1. l \in Link
  BY DEF Stands
<1>2. /\ r \in Link /\ r.id = l.id /\ r.label = l.label /\ r.conf >= l.conf
      /\ r.src = l.src /\ r.dst = l.dst /\ r.status = l.status
  BY <1>1, ReciprocalRow
<1>3. Oldest(S).conf \in 0..100 /\ l.conf \in 0..100 /\ r.conf \in 0..100
  BY <1>1, <1>2, OldestIs DEF Link, Sure
<1> HIDE DEF r
<1>4. l.conf >= Oldest(S).conf /\ l.id = Oldest(S).id /\ l.status = "UP"
  BY DEF Stands
<1>5. r.conf >= Oldest(S).conf
  <2>1. r.conf >= l.conf
    BY <1>2
  <2>2. l.conf >= Oldest(S).conf
    BY <1>4
  <2> QED
    BY <1>3, <2>1, <2>2, GeqTransitive
<1>6. /\ Oldest(S).src # NoPort => l.src = Oldest(S).src
      /\ Oldest(S).dst # NoPort => l.dst = Oldest(S).dst
      /\ o.src # NoPort => l.src = o.src
      /\ o.dst # NoPort => l.dst = o.dst
      /\ l.src # NoPort => l.src = o.src \/ \E k \in S : l.src = k.src
      /\ l.dst # NoPort => l.dst = o.dst \/ \E k \in S : l.dst = k.dst
  BY DEF Stands
<1>7. Stands(r, S, o)
  BY <1>2, <1>4, <1>5, <1>6 DEF Stands
<1> QED
  BY <1>2, <1>7 DEF r

(* An operator's label leaves the rest of the row alone. *)
Relabelled(l, label) == [l EXCEPT !.label = label]

LEMMA RelabelledRow ==
  \A l \in Link, label \in Labels :
    LET r == Relabelled(l, label)
    IN  /\ r \in Link /\ r.id = l.id /\ r.label = label /\ r.conf = l.conf
        /\ r.src = l.src /\ r.dst = l.dst /\ r.status = l.status
BY DEF Link, Relabelled

LEMMA RelabelledStands ==
  ASSUME NEW o \in Reports, NEW S \in SUBSET Link, S # {}, NEW l, Stands(l, S, o), NEW label \in Labels
  PROVE  Stands(Relabelled(l, label), S, o) /\ Relabelled(l, label).label = label
<1> DEFINE r == Relabelled(l, label)
<1>1. l \in Link
  BY DEF Stands
<1>2. /\ r \in Link /\ r.id = l.id /\ r.label = label /\ r.conf = l.conf
      /\ r.src = l.src /\ r.dst = l.dst /\ r.status = l.status
  BY <1>1, RelabelledRow
<1> HIDE DEF r
<1>4. l.conf >= Oldest(S).conf /\ l.id = Oldest(S).id /\ l.status = "UP"
  BY DEF Stands
<1>6. /\ Oldest(S).src # NoPort => l.src = Oldest(S).src
      /\ Oldest(S).dst # NoPort => l.dst = Oldest(S).dst
      /\ o.src # NoPort => l.src = o.src
      /\ o.dst # NoPort => l.dst = o.dst
      /\ l.src # NoPort => l.src = o.src \/ \E k \in S : l.src = k.src
      /\ l.dst # NoPort => l.dst = o.dst \/ \E k \in S : l.dst = k.dst
  BY DEF Stands
<1>7. Stands(r, S, o)
  BY <1>2, <1>4, <1>6 DEF Stands
<1> QED
  BY <1>2, <1>7 DEF r

-----------------------------------------------------------------------------
(* A row that takes the place of those that fit an observation keeps the table   *)
(* in order, whichever rows there were.                                         *)
Learnt(held) ==
    \A l \in links, k \in held : k.id = l.id =>
       /\ l.src # NoPort => k.src = l.src
       /\ l.dst # NoPort => k.dst = l.dst
       /\ k.conf >= l.conf

LabelsStay(held) ==
    \A l \in links : l.label # NoLabel => \E k \in held : k.id = l.id /\ k.label # NoLabel

LEMMA ReplacedInOrder ==
  ASSUME LinkTypeOK, RowsDistinct, NoTwoCompatible, DownIsUnseen,
         NEW o \in Reports, NEW r, Stands(r, Matches(o), o), links' = (links \ Matches(o)) \cup {r}
  PROVE  /\ links' \subseteq Link /\ RowsDistinct' /\ NoTwoCompatible' /\ DownIsUnseen'
         /\ Learnt(links')
<1> DEFINE S == Matches(o)
<1>1. /\ S \in SUBSET Link /\ S \subseteq links
      /\ \A l \in S : Compatible(l, o)
      /\ \A l \in links \ S : ~ Compatible(l, o)
  BY MatchesAre
<1>2. S # {} => Oldest(S) \in S
  BY <1>1, OldestIs
<1>3. r \in Link /\ links \subseteq Link
  BY DEF Stands, LinkTypeOK
<1>4. \A l \in links \ S : l.id # r.id
  <2>1. CASE S = {}
    <3>1. \A l \in links : l.id < r.id
      BY <2>1 DEF Stands
    <3>2. \A l \in links : l.id \in Nat
      BY <1>3 DEF Link, Ids
    <3> QED
      BY <3>1, <3>2
  <2>2. CASE S # {}
    <3>1. r.id = Oldest(S).id /\ Oldest(S) \in S
      BY <1>2, <2>2 DEF Stands
    <3> QED
      BY <1>1, <3>1 DEF RowsDistinct
  <2> QED
    BY <2>1, <2>2
<1>5. links' = (links \ S) \cup {r}
  OBVIOUS
<1>6. o.src # NoPort => r.src = o.src
  BY DEF Stands
<1>7. o.dst # NoPort => r.dst = o.dst
  BY DEF Stands
<1>8. r.status = "UP"
  BY DEF Stands
<1>9. S # {} => /\ r.id = Oldest(S).id /\ r.conf >= Oldest(S).conf
                /\ Oldest(S).src # NoPort => r.src = Oldest(S).src
                /\ Oldest(S).dst # NoPort => r.dst = Oldest(S).dst
  BY DEF Stands
<1> HIDE DEF S
<1>10. links' \subseteq Link
  BY <1>3, <1>5
<1>11. RowsDistinct'
  BY <1>4, <1>5 DEF RowsDistinct
<1>12. \A l \in links \ S : ~ Compatible(l, r) /\ ~ Compatible(r, l)
  BY <1>1, <1>6, <1>7 DEF Compatible
<1>13. NoTwoCompatible'
  BY <1>5, <1>12 DEF NoTwoCompatible
<1>14. DownIsUnseen'
  BY <1>5, <1>8 DEF DownIsUnseen
<1>15. ASSUME NEW l \in links, NEW k \in links', k.id = l.id
       PROVE  /\ l.src # NoPort => k.src = l.src
              /\ l.dst # NoPort => k.dst = l.dst
              /\ k.conf >= l.conf
  <2>1. CASE k \in links \ S
    <3>1. k = l
      BY <1>15, <2>1 DEF RowsDistinct
    <3>2. l.conf \in 0..100
      BY <1>3 DEF Link, Sure
    <3> QED
      BY <3>1, <3>2
  <2>2. CASE k = r
    <3>1. S # {}
      <4>1. SUFFICES ASSUME S = {} PROVE FALSE
        OBVIOUS
      <4> QED
        BY <1>4, <1>15, <2>2, <4>1
    <3>2. l = Oldest(S)
      BY <1>1, <1>2, <1>9, <1>15, <2>2, <3>1 DEF RowsDistinct
    <3> QED
      BY <1>9, <2>2, <3>1, <3>2
  <2> QED
    BY <1>5, <2>1, <2>2
<1>16. Learnt(links')
  BY <1>15 DEF Learnt
<1> QED
  BY <1>10, <1>11, <1>13, <1>14, <1>16

(* The row of a label is among those merged only as their oldest, so the label   *)
(* is kept, and stays with the oldest row.                                      *)
LEMMA LabelReplaced ==
  ASSUME LinkTypeOK, RowsDistinct, LabelledIsOldest,
         NEW o \in Reports, NEW r, Stands(r, Matches(o), o), links' = (links \ Matches(o)) \cup {r},
         r.label = IF Matches(o) = {} THEN NoLabel ELSE Oldest(Matches(o)).label
  PROVE  LabelledIsOldest' /\ LabelsStay(links')
<1> DEFINE S == Matches(o)
<1>1. S \in SUBSET Link /\ S \subseteq links
  BY MatchesAre
<1>2. S # {} => Oldest(S) \in S /\ \A k \in S : Oldest(S).id <= k.id
  BY <1>1, OldestIs
<1>3. S # {} => r.id = Oldest(S).id
  BY DEF Stands
<1>4. S = {} => \A l \in links : l.id < r.id
  BY DEF Stands
<1>5. links' = (links \ S) \cup {r} /\ r.label = IF S = {} THEN NoLabel ELSE Oldest(S).label
  OBVIOUS
<1>6. r.id \in Nat /\ \A l \in links : l.id \in Nat
  BY DEF Stands, LinkTypeOK, Link, Ids
<1> HIDE DEF S
<1>7. LabelledIsOldest'
  BY <1>1, <1>2, <1>3, <1>4, <1>5, <1>6 DEF LabelledIsOldest
<1>8. ASSUME NEW l \in links, l.label # NoLabel
      PROVE  \E k \in links' : k.id = l.id /\ k.label # NoLabel
  <2>1. CASE l \notin S
    BY <1>5, <1>8, <2>1
  <2>2. CASE l \in S
    <3>1. l.id <= Oldest(S).id /\ Oldest(S).id <= l.id /\ Oldest(S) \in links
      BY <1>1, <1>2, <1>8, <2>2 DEF LabelledIsOldest
    <3>2. l = Oldest(S)
      BY <1>6, <3>1 DEF RowsDistinct
    <3> QED
      BY <1>3, <1>5, <1>8, <2>2, <3>2
  <2> QED
    BY <2>1, <2>2
<1> QED
  BY <1>7, <1>8 DEF LabelsStay

-----------------------------------------------------------------------------
(* Evidence that is moved keeps what it says, and names a row that is left, or   *)
(* the one that absorbs the others.                                             *)
LEMMA EvidenceMoves ==
  ASSUME LinkTypeOK, EvidenceHasLink, NEW o \in Reports, Matches(o) # {}
  PROVE  LET S == Matches(o)
         IN  /\ Oldest(S) \in links /\ Oldest(S).id \in Ids
             /\ Moved(saved, o) \in SUBSET (Ids \X Reports)
             /\ \A e \in saved : e[1] \in DuplicateIds(o) => <<Oldest(S).id, e[2]>> \in Moved(saved, o)
             /\ \A e \in saved : e[1] \notin DuplicateIds(o) => e \in Moved(saved, o)
             /\ \A e \in Moved(saved, o) : (\E l \in links \ S : l.id = e[1]) \/ e[1] = Oldest(S).id
             /\ \A e \in pending : e[1] \notin DuplicateIds(o) =>
                  (\E l \in links \ S : l.id = e[1]) \/ e[1] = Oldest(S).id
<1> DEFINE S == Matches(o)
<1>1. S \in SUBSET Link /\ S \subseteq links /\ S # {}
  BY MatchesAre
<1>2. Oldest(S) \in S
  BY <1>1, OldestIs
<1>3. Oldest(S) \in links /\ Oldest(S).id \in Ids
  BY <1>1, <1>2 DEF Link
<1>4. saved \subseteq Ids \X Reports /\ pending \subseteq Ids \X Reports
  BY DEF LinkTypeOK
<1>5. Moved(saved, o) = {<<IF e[1] \in DuplicateIds(o) THEN Oldest(S).id ELSE e[1], e[2]>> : e \in saved}
  BY DEF Moved
<1>6. \A e \in saved \cup pending : e[1] \notin DuplicateIds(o) =>
        (\E l \in links \ S : l.id = e[1]) \/ e[1] = Oldest(S).id
  <2> SUFFICES ASSUME NEW e \in saved \cup pending, e[1] \notin DuplicateIds(o)
               PROVE  (\E l \in links \ S : l.id = e[1]) \/ e[1] = Oldest(S).id
    OBVIOUS
  <2>1. PICK l \in links : l.id = e[1]
    BY DEF EvidenceHasLink
  <2>2. l \notin Duplicates(o)
    BY <2>1 DEF DuplicateIds
  <2> QED
    BY <2>1, <2>2 DEF Duplicates
<1> HIDE DEF S
<1>7. Moved(saved, o) \in SUBSET (Ids \X Reports)
  BY <1>3, <1>4, <1>5
<1>8. \A e \in saved : e[1] \notin DuplicateIds(o) => e \in Moved(saved, o)
  BY <1>4, <1>5
<1>9. \A e \in saved : e[1] \in DuplicateIds(o) => <<Oldest(S).id, e[2]>> \in Moved(saved, o)
  BY <1>4, <1>5
<1>10. \A e \in Moved(saved, o) : (\E l \in links \ S : l.id = e[1]) \/ e[1] = Oldest(S).id
  BY <1>5, <1>6
<1> QED
  BY <1>3, <1>6, <1>7, <1>8, <1>9, <1>10 DEF S

(* A row stands for a cable when all the rows it replaces do.                    *)
LEMMA RealReplaced ==
  ASSUME LinkTypeOK, RowsReal, NEW o \in reports, NEW r, Stands(r, Matches(o), o),
         links' = (links \ Matches(o)) \cup {r}, reports' = reports,
         \A l \in links \ Matches(o) : Observed(l)' => Observed(l),
         Observed(r)' => \A l \in Matches(o) : Observed(l)
  PROVE  RowsReal'
<1> SUFFICES ASSUME AllAnchored', NEW l \in links', Observed(l)'
             PROVE  Real(l)
  BY DEF RowsReal, Real
<1>1. o \in Reports /\ (o.src # NoPort /\ o.dst # NoPort => <<o.src, o.dst>> \in Cables)
  BY ReportsTyped
<1>2. AllAnchored /\ o.src # NoPort
  BY DEF AllAnchored
<1>3. CASE l \in links \ Matches(o)
  BY <1>2, <1>3 DEF RowsReal
<1>4. CASE l = r
  <2>1. r.src = o.src /\ r.src # NoPort
    BY <1>2 DEF Stands
  <2>2. r.dst # NoPort => r.dst = o.dst \/ \E k \in Matches(o) : r.dst = k.dst
    BY DEF Stands
  <2>3. ASSUME NEW k \in Matches(o), r.dst = k.dst, r.dst # NoPort PROVE <<r.src, r.dst>> \in Cables
    <3>1. k \in links /\ Compatible(k, o) /\ Observed(k)
      BY <1>1, <1>4, MatchesAre
    <3>2. Real(k)
      BY <1>2, <3>1 DEF RowsReal
    <3>3. k.src = o.src
      BY <1>2, <3>1, <3>2 DEF Real, Compatible
    <3> QED
      BY <2>1, <2>3, <3>2, <3>3 DEF Real
  <2>4. r.dst # NoPort => <<r.src, r.dst>> \in Cables
    BY <1>1, <1>2, <2>1, <2>2, <2>3
  <2> QED
    BY <1>4, <2>1, <2>4 DEF Real
<1> QED
  BY <1>3, <1>4

(* With an anchored network and no link of an operator's, one row at most fits an *)
(* observation: two would be ends of the port's only cable.                     *)
LEMMA AnchoredSingle ==
  ASSUME LinkTypeOK, RowsReal, NoTwoCompatible, Anchored, NEW o \in reports
  PROVE  \A l, k \in Matches(o) : l = k
<1> SUFFICES ASSUME NEW l \in Matches(o), NEW k \in Matches(o), l # k
             PROVE  FALSE
  OBVIOUS
<1>1. o \in Reports /\ o.src # NoPort
  BY ReportsTyped DEF Anchored
<1>2. l \in links /\ k \in links /\ Compatible(l, o) /\ Compatible(k, o)
  BY <1>1, MatchesAre
<1>3. Observed(l) /\ Observed(k)
  BY DEF Observed, Anchored
<1>4. Real(l) /\ Real(k)
  BY <1>2, <1>3 DEF RowsReal, AllAnchored, Anchored
<1>5. l.src = o.src /\ k.src = o.src
  BY <1>1, <1>2, <1>4 DEF Compatible, Real
<1>6. l.dst # NoPort /\ k.dst # NoPort /\ l.dst # k.dst
  BY <1>2, <1>5 DEF NoTwoCompatible, Compatible
<1>7. <<o.src, l.dst>> \in Cables /\ <<o.src, k.dst>> \in Cables
  BY <1>4, <1>5, <1>6 DEF Real
<1>8. <<o.src, l.dst>> = <<o.src, k.dst>>
  BY <1>7, CablesAssumption
<1> QED
  BY <1>6, <1>8

(* What was heard before is still on a link, and what is heard now is too.       *)
LEMMA HeardReplaced ==
  ASSUME LinkTypeOK, HeardKept, RowsReal, NoTwoCompatible, NEW o \in reports, NEW r, Stands(r, Matches(o), o),
         links' = (links \ Matches(o)) \cup {r}, heard' = heard \cup {o}, reports' = reports,
         Anchored' => Anchored,
         Anchored => /\ saved \cup pending \subseteq (saved \cup pending)'
                     /\ \E e \in (saved \cup pending)' : e[2] = o
  PROVE  HeardKept'
<1> DEFINE S == Matches(o)
<1> SUFFICES ASSUME Anchored', NEW p \in heard'
             PROVE  OnALink(p, links') /\ \E e \in (saved \cup pending)' : e[2] = p
  BY DEF HeardKept
<1>1. Anchored /\ heard \subseteq reports /\ o.src # NoPort /\ o \in Reports
  BY ReportsTyped DEF Anchored, LinkTypeOK
<1>2. /\ o.src # NoPort => r.src = o.src
      /\ o.dst # NoPort => r.dst = o.dst
  BY DEF Stands
<1>3. CASE p = o
  BY <1>1, <1>2, <1>3 DEF OnALink
<1>4. CASE p \in heard
  <2>1. \E e \in (saved \cup pending)' : e[2] = p
    BY <1>1, <1>4 DEF HeardKept
  <2>2. PICK l \in links : l.src = p.src /\ (p.dst # NoPort => l.dst = p.dst)
    BY <1>1, <1>4 DEF HeardKept, OnALink
  <2>3. CASE l \notin S
    BY <2>1, <2>2, <2>3 DEF OnALink
  <2>4. CASE l \in S
    <3>1. S \in SUBSET Link /\ S # {}
      BY <1>1, <2>4, MatchesAre
    <3>2. Oldest(S) = l
      BY <1>1, <2>4, <3>1, OldestIs, AnchoredSingle
    <3>3. /\ l.src # NoPort => r.src = l.src
          /\ l.dst # NoPort => r.dst = l.dst
      BY <3>1, <3>2 DEF Stands
    <3>4. p.src # NoPort
      BY <1>1, <1>4 DEF Anchored
    <3> QED
      BY <2>1, <2>2, <3>3, <3>4 DEF OnALink
  <2> QED
    BY <2>3, <2>4
<1> QED
  BY <1>3, <1>4

-----------------------------------------------------------------------------
(* An observation that no row fits. *)
LEMMA InsertKeeps ==
  ASSUME LinkInv, NEW o \in reports, NEW both \in BOOLEAN, NEW i \in Ids, Insert(i, o, both),
         heard' = heard \cup {o}, reports' = reports
  PROVE  LinkInv' /\ Learnt(links') /\ LabelsStay(links')
<1> DEFINE S == Matches(o)
           r == Reciprocal(New(i, o), both)
<1>1. /\ LinkTypeOK /\ RowsDistinct /\ LabelledIsOldest /\ RowsReal /\ HeardKept
      /\ NoTwoCompatible /\ EvidenceHasLink /\ DownIsUnseen
  BY DEF LinkInv
<1>2. o \in Reports
  BY <1>1, ReportsTyped
<1>3. /\ S = {} /\ Fresh(i) /\ links' = links \cup {r}
      /\ saved' = saved \cup pending /\ pending' = {<<i, o>>}
  BY DEF Insert
<1>4. Stands(r, S, o) /\ r.label = NoLabel /\ r.id = i
  BY <1>1, <1>2, <1>3, InsertedStands
<1>5. links' = (links \ S) \cup {r}
  BY <1>3
<1> HIDE DEF r, S
<1>6. /\ links' \subseteq Link /\ RowsDistinct' /\ NoTwoCompatible' /\ DownIsUnseen'
      /\ Learnt(links')
  BY <1>1, <1>2, <1>4, <1>5, ReplacedInOrder DEF S
<1>7. LabelledIsOldest' /\ LabelsStay(links')
  BY <1>1, <1>2, <1>3, <1>4, <1>5, LabelReplaced DEF S
<1>8. LinkTypeOK'
  BY <1>1, <1>2, <1>3, <1>6 DEF LinkTypeOK
<1>9. EvidenceHasLink'
  BY <1>1, <1>3, <1>4 DEF EvidenceHasLink
<1>10. \A l : Observed(l)' => Observed(l)
  BY <1>3 DEF Observed
<1>11. RowsReal'
  <2>1. \A l \in links \ S : Observed(l)' => Observed(l)
    BY <1>10
  <2>2. Observed(r)' => \A l \in S : Observed(l)
    BY <1>3
  <2> QED
    BY <1>1, <1>4, <1>5, <2>1, <2>2, RealReplaced DEF S
<1>12. HeardKept'
  <2>1. Anchored' => Anchored
    BY <1>3 DEF Anchored
  <2>2. saved \cup pending \subseteq (saved \cup pending)' /\ \E e \in (saved \cup pending)' : e[2] = o
    <3>1. <<i, o>> \in (saved \cup pending)' /\ <<i, o>>[2] = o
      BY <1>3
    <3> QED
      BY <1>3, <3>1
  <2> QED
    BY <1>1, <1>4, <1>5, <2>1, <2>2, HeardReplaced DEF S
<1> QED
  BY <1>6, <1>7, <1>8, <1>9, <1>11, <1>12 DEF LinkInv

(* An observation that rows fit. *)
LEMMA AbsorbKeeps ==
  ASSUME LinkInv, NEW o \in reports, NEW both \in BOOLEAN, Absorb(o, both),
         heard' = heard \cup {o}, reports' = reports
  PROVE  LinkInv' /\ Learnt(links') /\ LabelsStay(links')
<1> DEFINE S == Matches(o)
           rep == Oldest(S)
<1>0. PICK r : r = Reciprocal(Merged(S, o), both)
  OBVIOUS
<1>1. /\ LinkTypeOK /\ RowsDistinct /\ LabelledIsOldest /\ RowsReal /\ HeardKept
      /\ NoTwoCompatible /\ EvidenceHasLink /\ DownIsUnseen
  BY DEF LinkInv
<1>2. o \in Reports
  BY <1>1, ReportsTyped
<1>3. /\ S # {} /\ links' = (links \ S) \cup {r}
      /\ Duplicates(o) = {} => saved' = saved /\ pending' = pending \cup {<<rep.id, o>>}
      /\ Duplicates(o) # {} =>
           /\ saved' = Moved(saved, o) \cup {e \in pending : e[1] \notin DuplicateIds(o)}
           /\ pending' = {<<rep.id, o>>}
  BY <1>0 DEF Absorb
<1>4. S \in SUBSET Link /\ S \subseteq links
  BY <1>1, <1>2, MatchesAre
<1>5. Stands(r, S, o) /\ r.label = rep.label
  <2>1. Stands(Merged(S, o), S, o) /\ Merged(S, o).label = rep.label
    BY <1>1, <1>2, <1>3, MergedStands
  <2> QED
    BY <1>0, <1>1, <1>2, <1>3, <1>4, <2>1, ReciprocalStands
<1>6. /\ rep \in links /\ rep.id \in Ids
      /\ Moved(saved, o) \in SUBSET (Ids \X Reports)
      /\ \A e \in saved : e[1] \in DuplicateIds(o) => <<rep.id, e[2]>> \in Moved(saved, o)
      /\ \A e \in saved : e[1] \notin DuplicateIds(o) => e \in Moved(saved, o)
      /\ \A e \in Moved(saved, o) : (\E l \in links \ S : l.id = e[1]) \/ e[1] = rep.id
      /\ \A e \in pending : e[1] \notin DuplicateIds(o) => (\E l \in links \ S : l.id = e[1]) \/ e[1] = rep.id
  BY <1>1, <1>2, <1>3, EvidenceMoves
<1>7. r.id = rep.id
  BY <1>3, <1>5 DEF Stands
<1>8. Duplicates(o) = S \ {rep} /\ DuplicateIds(o) = {l.id : l \in Duplicates(o)}
  BY DEF Duplicates, DuplicateIds
<1> HIDE DEF rep, S
<1>9. /\ links' \subseteq Link /\ RowsDistinct' /\ NoTwoCompatible' /\ DownIsUnseen'
      /\ Learnt(links')
  BY <1>1, <1>2, <1>3, <1>5, ReplacedInOrder DEF S
<1>10. LabelledIsOldest' /\ LabelsStay(links')
  BY <1>1, <1>2, <1>3, <1>5, LabelReplaced DEF S, rep
<1>11. LinkTypeOK'
  <2>1. CASE Duplicates(o) = {}
    BY <1>1, <1>2, <1>3, <1>6, <1>9, <2>1 DEF LinkTypeOK
  <2>2. CASE Duplicates(o) # {}
    BY <1>1, <1>2, <1>3, <1>6, <1>9, <2>2 DEF LinkTypeOK
  <2> QED
    BY <2>1, <2>2
<1>12. EvidenceHasLink'
  <2>1. CASE Duplicates(o) = {}
    <3>1. S = {rep}
      BY <1>3, <1>8, <2>1
    <3>2. links' = (links \ {rep}) \cup {r}
      BY <1>3, <3>1
    <3>3. saved' \cup pending' = saved \cup pending \cup {<<rep.id, o>>}
      BY <1>3, <2>1
    <3>4. \A e \in saved \cup pending : \E l \in links' : l.id = e[1]
      BY <1>1, <1>7, <3>2 DEF EvidenceHasLink
    <3>5. <<rep.id, o>>[1] = r.id /\ r \in links'
      BY <1>7, <3>2
    <3> QED
      BY <3>3, <3>4, <3>5 DEF EvidenceHasLink
  <2>2. CASE Duplicates(o) # {}
    BY <1>3, <1>6, <1>7, <2>2 DEF EvidenceHasLink
  <2> QED
    BY <2>1, <2>2
<1>13. \A l \in links \ S : Observed(l)' => Observed(l)
  <2> SUFFICES ASSUME NEW l \in links \ S, Observed(l)', NEW e \in saved, e[1] = l.id
               PROVE  e[2] # Manual
    BY DEF Observed
  <2>1. e[1] \notin DuplicateIds(o)
    BY <1>1, <1>4, <1>8 DEF RowsDistinct
  <2>2. e \in saved'
    BY <1>3, <1>6, <2>1
  <2> QED
    BY <2>2 DEF Observed
<1>14. Observed(r)' => \A l \in S : Observed(l)
  <2> SUFFICES ASSUME Observed(r)', NEW l \in S, NEW e \in saved, e[1] = l.id
               PROVE  e[2] # Manual
    BY DEF Observed
  <2>1. CASE l = rep /\ e[1] \notin DuplicateIds(o)
    <3>1. e \in saved' /\ e[1] = r.id
      BY <1>3, <1>6, <1>7, <2>1
    <3> QED
      BY <3>1 DEF Observed
  <2>2. CASE e[1] \in DuplicateIds(o)
    <3>1. Duplicates(o) # {}
      BY <1>8, <2>2
    <3>2. <<r.id, e[2]>> \in saved'
      BY <1>3, <1>6, <1>7, <2>2, <3>1
    <3> QED
      BY <3>2 DEF Observed
  <2> QED
    BY <1>8, <2>1, <2>2
<1>15. RowsReal'
  BY <1>1, <1>3, <1>5, <1>13, <1>14, RealReplaced DEF S
<1>16. HeardKept'
  <2>1. Anchored' => Anchored
    <3>1. ASSUME NEW e \in saved PROVE \E f \in saved' : f[2] = e[2]
      <4>1. CASE Duplicates(o) = {}
        BY <1>3, <4>1
      <4>2. CASE Duplicates(o) # {} /\ e[1] \in DuplicateIds(o)
        BY <1>3, <1>6, <4>2
      <4>3. CASE Duplicates(o) # {} /\ e[1] \notin DuplicateIds(o)
        BY <1>3, <1>6, <4>3
      <4> QED
        BY <4>1, <4>2, <4>3
    <3> QED
      BY <3>1 DEF Anchored
  <2>2. ASSUME Anchored
        PROVE  saved \cup pending \subseteq (saved \cup pending)' /\ \E e \in (saved \cup pending)' : e[2] = o
    <3>1. Duplicates(o) = {}
      BY <1>1, <1>3, <1>4, <1>6, <1>8, <2>2, AnchoredSingle, OldestIs DEF S, rep
    <3>2. <<rep.id, o>> \in (saved \cup pending)' /\ <<rep.id, o>>[2] = o
      BY <1>3, <3>1
    <3> QED
      BY <1>3, <3>1, <3>2
  <2> QED
    BY <1>1, <1>3, <1>5, <2>1, <2>2, HeardReplaced DEF S
<1> QED
  BY <1>9, <1>10, <1>11, <1>12, <1>15, <1>16 DEF LinkInv

LEMMA ObserveKeeps ==
  ASSUME LinkInv, NEW o \in reports, NEW both \in BOOLEAN, Observe(o, both)
  PROVE  LinkInv' /\ Learnt(links') /\ LabelsStay(links')
<1>1. heard' = heard \cup {o} /\ reports' = reports
  BY DEF Observe
<1>2. CASE \E i \in Ids : Insert(i, o, both)
  BY <1>1, <1>2, InsertKeeps
<1>3. CASE Absorb(o, both)
  BY <1>1, <1>3, AbsorbKeeps
<1> QED
  BY <1>2, <1>3 DEF Observe

-----------------------------------------------------------------------------
(* The rows one by one with another age or status: the end of a recomputation    *)
(* and the passing of time.                                                     *)
Older(l) == [l EXCEPT !.age = IF @ < 2 THEN @ + 1 ELSE 2]
Judged(l) == [l EXCEPT !.status = StatusOf(l.age)]

LEMMA OlderRow ==
  \A l \in Link :
    LET r == Older(l)
    IN  /\ r \in Link /\ r.id = l.id /\ r.label = l.label /\ r.conf = l.conf
        /\ r.src = l.src /\ r.dst = l.dst /\ r.status = l.status
        /\ l.age = 2 => r.age = 2
<1> TAKE l \in Link
<1>1. l.age \in 0..2 /\ (IF l.age < 2 THEN l.age + 1 ELSE 2) \in 0..2
  BY DEF Link
<1> QED
  BY <1>1 DEF Link, Older

LEMMA StatusRow ==
  \A l \in Link :
    LET r == Judged(l)
    IN  /\ r \in Link /\ r.id = l.id /\ r.label = l.label /\ r.conf = l.conf
        /\ r.src = l.src /\ r.dst = l.dst /\ (r.status = "DOWN" => r.age = 2)
<1> TAKE l \in Link
<1>1. /\ StatusOf(l.age) \in {"UP", "STALE", "DOWN"}
      /\ StatusOf(l.age) = "DOWN" => l.age = 2
  BY DEF StatusOf, Link
<1> QED
  BY <1>1 DEF Link, Judged

LEMMA RowsMapped ==
  ASSUME LinkInv, NEW M, links' = {M[l] : l \in links},
         \A l \in links : /\ M[l] \in Link /\ M[l].id = l.id /\ M[l].label = l.label /\ M[l].conf = l.conf
                         /\ M[l].src = l.src /\ M[l].dst = l.dst /\ (M[l].status = "DOWN" => M[l].age = 2),
         saved' = saved \cup pending, pending' = {}, heard' = {}, reports' = reports
  PROVE  LinkInv' /\ Learnt(links') /\ LabelsStay(links')
<1>1. /\ LinkTypeOK /\ RowsDistinct /\ LabelledIsOldest /\ RowsReal
      /\ NoTwoCompatible /\ EvidenceHasLink
  BY DEF LinkInv
<1>2. \A k \in links' : \E l \in links : k = M[l]
  OBVIOUS
<1>3. LinkTypeOK'
  BY <1>1 DEF LinkTypeOK
<1>4. RowsDistinct' /\ LabelledIsOldest'
  BY <1>1 DEF RowsDistinct, LabelledIsOldest
<1>5. NoTwoCompatible'
  <2> SUFFICES ASSUME NEW l \in links, NEW k \in links, M[l] # M[k]
               PROVE  ~ Compatible(M[l], M[k])
    BY <1>2 DEF NoTwoCompatible
  <2>1. ~ Compatible(l, k)
    BY <1>1 DEF NoTwoCompatible
  <2> QED
    BY <2>1 DEF Compatible
<1>6. EvidenceHasLink'
  <2> SUFFICES ASSUME NEW e \in saved \cup pending PROVE \E l \in links' : l.id = e[1]
    BY DEF EvidenceHasLink
  <2>1. PICK l \in links : l.id = e[1]
    BY <1>1 DEF EvidenceHasLink
  <2>2. M[l] \in links' /\ M[l].id = e[1]
    BY <2>1
  <2> QED
    BY <2>2
<1>7. DownIsUnseen'
  BY <1>2 DEF DownIsUnseen
<1>8. RowsReal'
  <2> SUFFICES ASSUME AllAnchored', NEW l \in links, Observed(M[l])'
               PROVE  Real(M[l])
    BY <1>2 DEF RowsReal, Real
  <2>1. AllAnchored
    BY DEF AllAnchored
  <2>2. Observed(l)
    BY DEF Observed
  <2>3. Real(l)
    BY <1>1, <2>1, <2>2 DEF RowsReal
  <2> QED
    BY <2>3 DEF Real
<1>9. HeardKept'
  BY DEF HeardKept
<1>10. Learnt(links')
  <2> SUFFICES ASSUME NEW l \in links, NEW m \in links, M[m].id = l.id
               PROVE  /\ l.src # NoPort => M[m].src = l.src
                      /\ l.dst # NoPort => M[m].dst = l.dst
                      /\ M[m].conf >= l.conf
    BY <1>2 DEF Learnt
  <2>1. m = l
    BY <1>1 DEF RowsDistinct
  <2>2. l.conf \in 0..100 /\ M[m].conf = l.conf
    BY <1>1, <2>1 DEF LinkTypeOK, Link, Sure
  <2> QED
    BY <2>1, <2>2
<1>11. LabelsStay(links')
  BY DEF LabelsStay
<1> QED
  BY <1>3, <1>4, <1>5, <1>6, <1>7, <1>8, <1>9, <1>10, <1>11 DEF LinkInv

LEMMA FinishKeeps ==
  ASSUME LinkInv, Finish
  PROVE  LinkInv' /\ Learnt(links') /\ LabelsStay(links')
<1>0. PICK M : M = [l \in links |-> Judged(l)]
  OBVIOUS
<1>1. links' = {M[l] : l \in links}
  BY <1>0 DEF Finish, Judged
<1>2. links \subseteq Link
  BY DEF LinkInv, LinkTypeOK
<1>3. \A l \in links : M[l] = Judged(l)
  BY <1>0
<1>4. \A l \in links : /\ M[l] \in Link /\ M[l].id = l.id /\ M[l].label = l.label /\ M[l].conf = l.conf
                       /\ M[l].src = l.src /\ M[l].dst = l.dst /\ (M[l].status = "DOWN" => M[l].age = 2)
  BY <1>2, <1>3, StatusRow
<1>5. saved' = saved \cup pending /\ pending' = {} /\ heard' = {} /\ reports' = reports
  BY DEF Finish
<1> QED
  BY <1>1, <1>4, <1>5, RowsMapped

LEMMA TickKeeps ==
  ASSUME LinkInv, Tick
  PROVE  LinkInv' /\ Learnt(links') /\ LabelsStay(links')
<1>0. PICK M : M = [l \in links |-> Older(l)]
  OBVIOUS
<1>1. links' = {M[l] : l \in links}
  BY <1>0 DEF Tick, Older
<1>2. links \subseteq Link /\ DownIsUnseen
  BY DEF LinkInv, LinkTypeOK
<1>3. \A l \in links : M[l] = Older(l)
  BY <1>0
<1>4. \A l \in links : /\ M[l] \in Link /\ M[l].id = l.id /\ M[l].label = l.label /\ M[l].conf = l.conf
                       /\ M[l].src = l.src /\ M[l].dst = l.dst /\ (M[l].status = "DOWN" => M[l].age = 2)
  BY <1>2, <1>3, OlderRow DEF DownIsUnseen
<1>5. saved' = saved \cup pending /\ pending' = {} /\ heard' = {} /\ reports' = reports
  BY DEF Tick
<1> QED
  BY <1>1, <1>4, <1>5, RowsMapped

(* An operator's deletions take rows and their evidence away. *)
LEMMA RowsRemoved ==
  ASSUME LinkInv, links' \subseteq links, saved' \subseteq saved, pending' = {}, heard' = {}, reports' = reports,
         \A e \in saved' : \E l \in links' : l.id = e[1],
         \A e \in saved \ saved' : \A l \in links' : l.id # e[1]
  PROVE  LinkInv' /\ Learnt(links')
<1>1. /\ LinkTypeOK /\ RowsDistinct /\ LabelledIsOldest /\ RowsReal
      /\ NoTwoCompatible /\ DownIsUnseen
  BY DEF LinkInv
<1>2. LinkTypeOK' /\ RowsDistinct' /\ LabelledIsOldest' /\ NoTwoCompatible' /\ DownIsUnseen'
  BY <1>1 DEF LinkTypeOK, RowsDistinct, LabelledIsOldest, NoTwoCompatible, DownIsUnseen
<1>3. EvidenceHasLink' /\ HeardKept'
  BY DEF EvidenceHasLink, HeardKept
<1>4. RowsReal'
  <2> SUFFICES ASSUME AllAnchored', NEW l \in links', Observed(l)'
               PROVE  Real(l)
    BY DEF RowsReal, Real
  <2>1. AllAnchored
    BY DEF AllAnchored
  <2>2. Observed(l)
    BY DEF Observed
  <2> QED
    BY <1>1, <2>1, <2>2 DEF RowsReal
<1>5. Learnt(links')
  <2> SUFFICES ASSUME NEW l \in links, NEW k \in links', k.id = l.id
               PROVE  k = l /\ k.conf >= l.conf
    BY DEF Learnt
  <2>1. k = l
    BY <1>1 DEF RowsDistinct
  <2>2. l.conf \in 0..100
    BY <1>1 DEF LinkTypeOK, Link, Sure
  <2> QED
    BY <2>1, <2>2
<1> QED
  BY <1>2, <1>3, <1>4, <1>5 DEF LinkInv

LEMMA DeleteKeeps ==
  ASSUME LinkInv, NEW l \in links, DeleteLink(l)
  PROVE  /\ LinkInv' /\ Learnt(links')
         /\ \A k \in links : k # l => k \in links'
<1>1. /\ links' = links \ {l} /\ saved' = {e \in saved : e[1] # l.id}
      /\ pending' = {} /\ heard' = {} /\ reports' = reports
  BY DEF DeleteLink
<1>2. RowsDistinct /\ EvidenceHasLink
  BY DEF LinkInv
<1>3. \A e \in saved' : \E k \in links' : k.id = e[1]
  BY <1>1, <1>2 DEF EvidenceHasLink
<1>4. \A e \in saved \ saved' : \A k \in links' : k.id # e[1]
  BY <1>1, <1>2 DEF RowsDistinct
<1> QED
  BY <1>1, <1>3, <1>4, RowsRemoved

LEMMA ClearKeeps ==
  ASSUME LinkInv, Clear
  PROVE  LinkInv' /\ Learnt(links')
BY RowsRemoved DEF Clear

(* A link the operator adds fits every row there is, and is left alone in the     *)
(* table with the label.                                                        *)
LEMMA ManualFits ==
  ASSUME LinkTypeOK
  PROVE  Manual \in Reports /\ Matches(Manual) = links
<1>1. Manual \in Reports
  BY ReportsTyped
<1>2. \A l \in links : Compatible(l, Manual)
  BY DEF Compatible, Manual
<1> QED
  BY <1>1, <1>2 DEF Matches

LEMMA ManualKeeps ==
  ASSUME LinkInv, NEW label \in Labels, CreateManual(label)
  PROVE  LinkInv' /\ Learnt(links') /\ LabelsStay(links')
<1>1. /\ LinkTypeOK /\ RowsDistinct /\ NoTwoCompatible /\ DownIsUnseen /\ EvidenceHasLink
  BY DEF LinkInv
<1>2. Manual \in Reports /\ Matches(Manual) = links
  BY <1>1, ManualFits
<1>3. pending' = {} /\ heard' = {} /\ heard = {} /\ pending = {} /\ reports' = reports
  BY DEF CreateManual
<1>4. ASSUME NEW r, Stands(r, links, Manual), r.label = label, links' = {r},
             \A e \in saved' : e[1] = r.id, <<r.id, Manual>> \in saved',
             saved' \subseteq Ids \X Reports,
             \A l \in links : l.label # NoLabel => r.id = l.id
      PROVE  LinkInv' /\ Learnt(links') /\ LabelsStay(links')
  <2>1. links' = (links \ Matches(Manual)) \cup {r} /\ Stands(r, Matches(Manual), Manual)
    BY <1>2, <1>4
  <2>2. /\ links' \subseteq Link /\ RowsDistinct' /\ NoTwoCompatible' /\ DownIsUnseen'
        /\ Learnt(links')
    BY <1>1, <1>2, <2>1, ReplacedInOrder
  <2>3. LinkTypeOK'
    BY <1>1, <1>3, <1>4, <2>2 DEF LinkTypeOK
  <2>4. EvidenceHasLink' /\ HeardKept'
    BY <1>3, <1>4 DEF EvidenceHasLink, HeardKept
  <2>5. RowsReal'
    BY <1>4 DEF RowsReal, Observed
  <2>6. label # NoLabel
    BY PortsAssumption
  <2>7. LabelsStay(links')
    BY <1>4, <2>6 DEF LabelsStay
  <2>8. LabelledIsOldest'
    <3>1. r.id \in Nat
      BY <1>4 DEF Stands, Link, Ids
    <3> QED
      BY <1>4, <3>1 DEF LabelledIsOldest
  <2> QED
    BY <2>2, <2>3, <2>4, <2>5, <2>7, <2>8 DEF LinkInv
<1>5. CASE links = {}
  <2>1. PICK i \in Ids : Fresh(i) /\ links' = {[New(i, Manual) EXCEPT !.label = label]}
                         /\ saved' = saved \cup {<<i, Manual>>}
    BY <1>2, <1>5 DEF CreateManual
  <2>2. PICK r : r = Relabelled(New(i, Manual), label)
    OBVIOUS
  <2>3. links' = {r}
    BY <2>1, <2>2 DEF Relabelled
  <2>4. LET n == New(i, Manual)
        IN  /\ n \in Link /\ n.id = i /\ n.src = Manual.src /\ n.dst = Manual.dst /\ n.status = "UP"
    BY <1>2, NewRow
  <2>5. /\ r \in Link /\ r.id = i /\ r.label = label /\ r.status = "UP"
        /\ r.src = Manual.src /\ r.dst = Manual.dst
    BY <2>2, <2>4, RelabelledRow
  <2>6. Stands(r, links, Manual)
    BY <1>5, <2>5 DEF Stands
  <2>7. saved = {}
    BY <1>1, <1>5 DEF EvidenceHasLink
  <2>8. saved' = {<<i, Manual>>} /\ <<i, Manual>>[1] = r.id
    BY <2>1, <2>5, <2>7
  <2>9. saved' \subseteq Ids \X Reports /\ <<r.id, Manual>> \in saved' /\ \A e \in saved' : e[1] = r.id
    BY <1>2, <2>5, <2>8
  <2> QED
    BY <1>4, <1>5, <2>3, <2>5, <2>6, <2>9
<1>6. CASE links # {}
  <2> DEFINE rep == Oldest(links)
             m == Merged(links, Manual)
  <2>1. /\ links' = {[m EXCEPT !.label = label]}
        /\ saved' = Moved(saved, Manual) \cup {<<rep.id, Manual>>}
    BY <1>2, <1>6 DEF CreateManual
  <2>2. PICK r : r = Relabelled(m, label)
    OBVIOUS
  <2>3. links' = {r}
    BY <2>1, <2>2 DEF Relabelled
  <2>4. Stands(m, links, Manual)
    BY <1>1, <1>2, <1>6, MergedStands
  <2>5. links \in SUBSET Link
    BY <1>1 DEF LinkTypeOK
  <2> HIDE DEF m
  <2>6. Stands(r, links, Manual) /\ r.label = label
    BY <1>2, <1>6, <2>2, <2>4, <2>5, RelabelledStands
  <2>7. /\ rep \in links /\ rep.id \in Ids /\ Moved(saved, Manual) \in SUBSET (Ids \X Reports)
        /\ \A e \in Moved(saved, Manual) : (\E l \in links \ links : l.id = e[1]) \/ e[1] = rep.id
    BY <1>1, <1>2, <1>6, EvidenceMoves
  <2>8. r.id = rep.id
    BY <1>6, <2>6 DEF Stands
  <2> HIDE DEF rep
  <2>9. saved' \subseteq Ids \X Reports
    BY <1>2, <2>1, <2>7
  <2>10. <<r.id, Manual>> \in saved' /\ \A e \in saved' : e[1] = r.id
    BY <2>1, <2>7, <2>8
  <2>11. \A l \in links : l.label # NoLabel => r.id = l.id
    <3> SUFFICES ASSUME NEW l \in links, l.label # NoLabel PROVE r.id = l.id
      OBVIOUS
    <3>1. l.id <= rep.id /\ rep.id <= l.id
      BY <1>6, <2>5, <2>7, OldestIs DEF LinkInv, LabelledIsOldest, rep
    <3>2. l.id \in Nat /\ rep.id \in Nat
      BY <2>5, <2>7 DEF Link, Ids
    <3> QED
      BY <2>8, <3>1, <3>2
  <2> QED
    BY <1>4, <2>3, <2>6, <2>9, <2>10, <2>11
<1> QED
  BY <1>5, <1>6

-----------------------------------------------------------------------------
LEMMA LinkInitial == LinkInit => LinkInv
BY DEF LinkInit, LinkInv, LinkTypeOK, RowsDistinct, LabelledIsOldest, RowsReal, HeardKept,
       NoTwoCompatible, EvidenceHasLink, DownIsUnseen

LEMMA LinkKept == LinkInv /\ [LinkNext]_linkVars => LinkInv'
<1> SUFFICES ASSUME LinkInv, [LinkNext]_linkVars PROVE LinkInv'
  OBVIOUS
<1>1. ASSUME NEW o \in reports, NEW both \in BOOLEAN, Observe(o, both) PROVE LinkInv'
  BY <1>1, ObserveKeeps
<1>2. CASE Finish
  BY <1>2, FinishKeeps
<1>3. ASSUME NEW label \in Labels, CreateManual(label) PROVE LinkInv'
  BY <1>3, ManualKeeps
<1>4. ASSUME NEW l \in links, DeleteLink(l) PROVE LinkInv'
  BY <1>4, DeleteKeeps
<1>5. CASE Clear
  BY <1>5, ClearKeeps
<1>6. CASE Tick
  BY <1>6, TickKeeps
<1>7. CASE UNCHANGED linkVars
  BY <1>7 DEF linkVars, LinkInv, LinkTypeOK, RowsDistinct, LabelledIsOldest, RowsReal, AllAnchored, Observed,
              HeardKept, Anchored, NoTwoCompatible, EvidenceHasLink, DownIsUnseen
<1> QED
  BY <1>1, <1>2, <1>3, <1>4, <1>5, <1>6, <1>7 DEF LinkNext

LEMMA LinkAlways == LinkSpec => []LinkInv
BY LinkInitial, LinkKept, PTL DEF LinkSpec

(* Whatever the two devices report, an operator adds or deletes and time does: no *)
(* two rows could be one cable, evidence has its row, a link that is DOWN has not *)
(* been seen for the whole period, and, in a network whose rows name the port of *)
(* the smaller device and without an operator's links, a link is a real cable.   *)
THEOREM LinksSound == LinkSpec => []LinksAreSound
<1>1. LinkInv => LinksAreSound
  <2> SUFFICES ASSUME LinkInv PROVE LinksAreSound
    OBVIOUS
  <2>1. OnlyRealCables
    <3> SUFFICES ASSUME Anchored, NEW l \in links, l.dst # NoPort PROVE <<l.src, l.dst>> \in Cables
      BY DEF OnlyRealCables
    <3>1. Observed(l) /\ AllAnchored
      BY DEF Observed, Anchored, AllAnchored
    <3> QED
      BY <3>1 DEF LinkInv, RowsReal, Real
  <2> QED
    BY <2>1 DEF LinkInv, LinksAreSound
<1> QED
  BY <1>1, LinkAlways, PTL

LEMMA StepLearns ==
  ASSUME LinkInv, [LinkNext]_linkVars
  PROVE  /\ Learnt(links')
         /\ \A l \in links : l.label # NoLabel =>
              \/ \E k \in links' : k.id = l.id /\ k.label # NoLabel
              \/ DeleteLink(l) \/ Clear
<1> DEFINE Told == \A l \in links : l.label # NoLabel =>
              \/ \E k \in links' : k.id = l.id /\ k.label # NoLabel
              \/ DeleteLink(l) \/ Clear
<1>0. LabelsStay(links') => Told
  BY DEF LabelsStay
<1>1. ASSUME NEW o \in reports, NEW both \in BOOLEAN, Observe(o, both) PROVE Learnt(links') /\ Told
  BY <1>0, <1>1, ObserveKeeps
<1>2. CASE Finish
  BY <1>0, <1>2, FinishKeeps
<1>3. ASSUME NEW label \in Labels, CreateManual(label) PROVE Learnt(links') /\ Told
  BY <1>0, <1>3, ManualKeeps
<1>4. ASSUME NEW m \in links, DeleteLink(m) PROVE Learnt(links') /\ Told
  <2>1. Learnt(links') /\ \A k \in links : k # m => k \in links'
    BY <1>4, DeleteKeeps
  <2> QED
    BY <1>4, <2>1
<1>5. CASE Clear
  BY <1>5, ClearKeeps
<1>6. CASE Tick
  BY <1>0, <1>6, TickKeeps
<1>7. CASE UNCHANGED linkVars
  <2>1. links' = links /\ RowsDistinct /\ links \subseteq Link
    BY <1>7 DEF linkVars, LinkInv, LinkTypeOK
  <2>2. \A l \in links : l.conf >= l.conf
    BY <2>1 DEF Link, Sure
  <2>3. Learnt(links')
    BY <2>1, <2>2 DEF Learnt, RowsDistinct
  <2> QED
    BY <2>1, <2>3
<1> QED
  BY <1>1, <1>2, <1>3, <1>4, <1>5, <1>6, <1>7 DEF LinkNext

(* The commit of a recomputation: what it has heard is on a link, with evidence. *)
LEMMA CommitKeepsHeard ==
  ASSUME LinkInv, [LinkNext]_linkVars, heard # {}, heard' = {}, Anchored
  PROVE  /\ \A o \in heard : \E l \in links' : l.src = o.src /\ (o.dst # NoPort => l.dst = o.dst)
         /\ heard \subseteq {e[2] : e \in saved'}
<1>1. Finish
  BY DEF LinkNext, linkVars, Observe, CreateManual, DeleteLink, Clear, Tick
<1>2. links \subseteq Link /\ HeardKept
  BY DEF LinkInv, LinkTypeOK
<1>3. links' = {Judged(l) : l \in links} /\ saved' = saved \cup pending
  BY <1>1 DEF Finish, Judged
<1>4. ASSUME NEW o \in heard
      PROVE  \E l \in links' : l.src = o.src /\ (o.dst # NoPort => l.dst = o.dst)
  <2>1. PICK l \in links : l.src = o.src /\ (o.dst # NoPort => l.dst = o.dst)
    BY <1>2 DEF HeardKept, OnALink
  <2>2. Judged(l) \in links' /\ Judged(l).src = l.src /\ Judged(l).dst = l.dst
    BY <1>2, <1>3, StatusRow
  <2> QED
    BY <2>1, <2>2
<1>5. heard \subseteq {e[2] : e \in saved'}
  BY <1>2, <1>3 DEF HeardKept
<1> QED
  BY <1>4, <1>5

(* A row that an operator labelled survives every merge, a row's ports and        *)
(* confidence are never lost, and each commit has a link and the evidence for    *)
(* whatever its recomputation heard.                                            *)
THEOREM ObservationsAreKept == LinkSpec => ObservationsKept
<1>1. LinkInv /\ [LinkNext]_linkVars =>
        [\A l \in links : l.label # NoLabel =>
           \/ \E k \in links' : k.id = l.id /\ k.label # NoLabel
           \/ DeleteLink(l) \/ Clear]_linkVars
  BY StepLearns
<1>2. LinkInv /\ [LinkNext]_linkVars =>
        [\A l \in links, k \in links' : k.id = l.id =>
           /\ l.src # NoPort => k.src = l.src
           /\ l.dst # NoPort => k.dst = l.dst
           /\ k.conf >= l.conf]_linkVars
  BY StepLearns DEF Learnt
<1>3. LinkInv /\ [LinkNext]_linkVars =>
        [heard # {} /\ heard' = {} /\ Anchored =>
           \A o \in heard : \E l \in links' : l.src = o.src /\ (o.dst # NoPort => l.dst = o.dst)]_linkVars
  BY CommitKeepsHeard
<1>4. LinkInv /\ [LinkNext]_linkVars =>
        [heard # {} /\ heard' = {} /\ Anchored => heard \subseteq {e[2] : e \in saved'}]_linkVars
  BY CommitKeepsHeard
<1>5. LinkSpec => LabelKept
  BY <1>1, LinkAlways, PTL DEF LinkSpec, LabelKept
<1>6. LinkSpec => RowsOnlyLearn
  BY <1>2, LinkAlways, PTL DEF LinkSpec, RowsOnlyLearn
<1>7. LinkSpec => ObservedPortsLinked
  BY <1>3, LinkAlways, PTL DEF LinkSpec, ObservedPortsLinked
<1>8. LinkSpec => EvidenceAccumulates
  BY <1>4, LinkAlways, PTL DEF LinkSpec, EvidenceAccumulates
<1> QED
  BY <1>5, <1>6, <1>7, <1>8 DEF ObservationsKept

-----------------------------------------------------------------------------
(* LinkRace: the sessions that store observations of one pair at the same time.  *)

Columns == {"id", "src", "dst", "source", "conf", "age", "status"}
OfCable(r, o) == r.src = o.src /\ r.dst = o.dst
IsRow(r) == DOMAIN r = Columns /\ r.id \in Ids /\ \E o \in contested : OfCable(r, o)

\* The rows, and those that sessions have read, are of observed cables.
RaceRows ==
    /\ \A r \in rows : IsRow(r)
    /\ cand = [t \in Sessions |-> cand[t]]
    /\ \A t \in Sessions : \A c \in cand[t] : IsRow(c) /\ OfCable(c, mine[t])
    /\ mine \in [Sessions -> contested \cup {NoObservation}]
    /\ step \in [Sessions -> {"idle", "read", "rolled back"}]
    /\ \A t \in Sessions : step[t] = "read" => mine[t] \in contested

\* Of a cable with an unknown port the first row stays, and is the oldest that any
\* session has read.
FirstIn(S) == S # {} => \E r \in S : r.id = 1
FirstStays ==
    ~ AllKnown /\ OneCable =>
        /\ FirstIn(rows)
        /\ \A t \in Sessions : FirstIn(cand[t]) /\ (cand[t] # {} => rows # {})

\* All ports are known, or the cable is one: a session reads the rows of the cable
\* it stores.
Uniform == AllKnown \/ OneCable
RaceInv == Uniform => RaceRows /\ OneRowPerCable /\ FirstStays /\ NeverRolledBack

LEMMA IdsAre == \A i \in Ids : i \in Nat /\ i >= 1
BY MaxIdAssumption DEF Ids

LEMMA OnlyOne == \A n \in Nat : n <= 1 /\ n >= 1 => n = 1
OBVIOUS

(* The merged row is the oldest one, with the ports the oldest knows.            *)
LEMMA MergedEnds ==
  ASSUME NEW S, NEW o, DOMAIN Oldest(S) = Columns
  PROVE  /\ Merged(S, o).id = Oldest(S).id
         /\ Merged(S, o).src = Src(S, o) /\ Merged(S, o).dst = Dst(S, o)
<1> DEFINE old == Oldest(S)
           seen == Raise(old, [conf |-> Confidence[o.source], source |-> o.source])
           top == Raise(seen, Best(S))
<1>1. DOMAIN seen = Columns /\ seen.id = old.id
  BY DEF Raise, Columns
<1> HIDE DEF seen
<1>2. DOMAIN top = Columns /\ top.id = seen.id
  BY <1>1 DEF Raise, Columns
<1> HIDE DEF top
<1>3. Merged(S, o) = [top EXCEPT !.src = Src(S, o), !.dst = Dst(S, o), !.age = 0, !.status = "UP"]
  BY DEF Merged, top, seen
<1>4. QED
  BY <1>1, <1>2, <1>3 DEF Columns

(* Of the rows of one cable, the merged row is of it too.                        *)
LEMMA MergedOfCable ==
  ASSUME NEW S, S # {}, NEW o, \A l \in S : l.id \in Nat /\ DOMAIN l = Columns /\ OfCable(l, o)
  PROVE  OfCable(Merged(S, o), o) /\ Merged(S, o).id = Oldest(S).id
<1>1. Oldest(S) \in S
  BY OldestRow
<1>2. /\ o.src = NoPort => {l \in S : l.src # NoPort} = {}
      /\ o.dst = NoPort => {l \in S : l.dst # NoPort} = {}
  BY DEF OfCable
<1>3. Src(S, o) = o.src /\ Dst(S, o) = o.dst
  BY <1>1, <1>2 DEF Src, Dst, Port, OfCable
<1>4. QED
  BY <1>1, <1>3, MergedEnds DEF OfCable

(* What is written over a stored row keeps its id, and its ports where the row   *)
(* that was read had those of the merged one.                                    *)
LEMMA PatchedRow ==
  ASSUME NEW r, DOMAIN r = Columns, NEW old, NEW new,
         new.id = old.id, new.src = old.src, new.dst = old.dst
  PROVE  /\ DOMAIN Patch(r, old, new) = Columns
         /\ Patch(r, old, new).id = r.id
         /\ Patch(r, old, new).src = r.src /\ Patch(r, old, new).dst = r.dst
BY DEF Patch, Columns

LEMMA RowIsRow ==
  ASSUME NEW i \in Ids, NEW o \in contested
  PROVE  IsRow(Row(i, o)) /\ OfCable(Row(i, o), o) /\ Row(i, o).id = i
BY DEF Row, IsRow, OfCable, Columns

LEMMA ReadKeeps ==
  ASSUME Uniform, RaceRows, OneRowPerCable, FirstStays, NeverRolledBack,
         NEW t \in Sessions, NEW o \in contested, Read(t, o)
  PROVE  RaceRows' /\ OneRowPerCable' /\ FirstStays' /\ NeverRolledBack'
<1> DEFINE got == {r \in rows : Compatible(r, o)}
<1>1. /\ cand' = [cand EXCEPT ![t] = got] /\ mine' = [mine EXCEPT ![t] = o]
      /\ step' = [step EXCEPT ![t] = "read"] /\ UNCHANGED <<rows, contested>>
  BY DEF Read
<1>2. \A c \in got : IsRow(c) /\ OfCable(c, o)
  <2> SUFFICES ASSUME NEW c \in got
               PROVE  OfCable(c, o)
    BY DEF RaceRows
  <2>1. PICK k \in contested : OfCable(c, k)
    BY DEF RaceRows, IsRow
  <2>2. QED
    BY <2>1 DEF Uniform, AllKnown, OneCable, OfCable, Compatible
<1>3. ~ AllKnown /\ OneCable => got = rows
  <2>1. ASSUME OneCable, NEW r \in rows
        PROVE  Compatible(r, o)
    <3>1. PICK k \in contested : OfCable(r, k)
      BY DEF RaceRows, IsRow
    <3>2. QED
      BY <2>1, <3>1 DEF OneCable, OfCable, Compatible
  <2>2. QED
    BY <2>1
<1> HIDE DEF got
<1>4. RaceRows'
  BY <1>1, <1>2 DEF RaceRows, IsRow, OfCable
<1>5. OneRowPerCable' /\ NeverRolledBack'
  BY <1>1 DEF OneRowPerCable, NeverRolledBack, AllKnown, OneCable, RaceRows, Compatible
<1>6. FirstStays'
  <2>1. /\ AllKnown' = AllKnown /\ OneCable' = OneCable
        /\ cand'[t] = got /\ \A u \in Sessions \ {t} : cand'[u] = cand[u]
    BY <1>1 DEF AllKnown, OneCable, RaceRows
  <2>2. QED
    BY <1>1, <1>3, <2>1 DEF FirstStays, FirstIn
<1>7. QED
  BY <1>4, <1>5, <1>6

\* The session forgets what it read.
Forgets(t) ==
    /\ cand' = [cand EXCEPT ![t] = {}] /\ mine' = [mine EXCEPT ![t] = NoObservation]
    /\ UNCHANGED contested

LEMMA InsertRowKeeps ==
  ASSUME Uniform, RaceRows, OneRowPerCable, FirstStays, NeverRolledBack,
         NEW t \in Sessions, step[t] = "read", InsertRow(t), Forgets(t),
         step' = [step EXCEPT ![t] = "idle"]
  PROVE  RaceRows' /\ OneRowPerCable' /\ FirstStays' /\ NeverRolledBack'
<1>1. PICK i \in Ids :
        /\ \A r \in rows : r.id < i
        /\ \A j \in Ids : (\A r \in rows : r.id < j) => i <= j
        /\ ~ Conflict(Row(i, mine[t]), rows)
        /\ rows' = rows \cup {Row(i, mine[t])}
  BY DEF InsertRow
<1> DEFINE o == mine[t]
           new == Row(i, o)
<1>2. o \in contested /\ IsRow(new) /\ OfCable(new, o) /\ new.id = i
  BY RowIsRow DEF RaceRows
<1>3. RaceRows'
  BY <1>1, <1>2 DEF RaceRows, IsRow, OfCable, Forgets
<1>4. OneRowPerCable'
  <2> SUFFICES ASSUME AllKnown
               PROVE  \A r \in rows : ~ Compatible(r, new) /\ ~ Compatible(new, r)
    BY <1>1 DEF OneRowPerCable, Forgets, AllKnown, Compatible
  <2> TAKE r \in rows
  <2>1. PICK k \in contested : OfCable(r, k)
    BY DEF RaceRows, IsRow
  <2>2. new.src # NoPort /\ new.dst # NoPort /\ r.src # NoPort /\ r.dst # NoPort
    BY <1>2, <2>1 DEF AllKnown, OfCable
  <2>3. r.id # i
    <3>1. r.id \in Nat /\ i \in Nat /\ r.id < i
      BY <1>1, IdsAre DEF RaceRows, IsRow
    <3>2. QED
      BY <3>1
  <2>4. QED
    BY <1>1, <1>2, <2>2, <2>3 DEF Conflict, Compatible
<1>5. FirstStays'
  <2> SUFFICES ASSUME ~ AllKnown, OneCable
               PROVE  /\ FirstIn(rows')
                      /\ \A u \in Sessions : FirstIn(cand'[u])
    BY <1>1 DEF FirstStays, Forgets, AllKnown, OneCable
  <2>1. FirstIn(rows')
    <3>1. CASE rows = {}
      <4>1. 1 \in Ids
        BY MaxIdAssumption DEF Ids
      <4>2. i = 1
        BY <1>1, <3>1, <4>1 DEF Ids
      <4>3. QED
        BY <1>1, <1>2, <4>2 DEF FirstIn
    <3>2. CASE rows # {}
      BY <1>1, <3>2 DEF FirstStays, FirstIn
    <3>3. QED
      BY <3>1, <3>2
  <2>2. QED
    BY <2>1 DEF Forgets, FirstStays, FirstIn, RaceRows
<1>6. NeverRolledBack'
  BY DEF NeverRolledBack, Forgets, AllKnown, OneCable, RaceRows
<1>7. QED
  BY <1>3, <1>4, <1>5, <1>6

\* The row that an update replaces keeps its id and its ports.
LEMMA WrittenRow ==
  ASSUME Uniform, RaceRows, NEW t \in Sessions, cand[t] # {}, NEW r \in Stored(t)
  PROVE  LET new == Patch(r, Oldest(cand[t]), Merged(cand[t], mine[t]))
         IN  /\ r \in rows /\ r.id = Oldest(cand[t]).id /\ Oldest(cand[t]) \in cand[t]
             /\ DOMAIN new = Columns /\ new.id = r.id /\ new.src = r.src /\ new.dst = r.dst
<1> DEFINE old == Oldest(cand[t])
           merged == Merged(cand[t], mine[t])
<1>1. r \in rows /\ r.id = old.id /\ DOMAIN r = Columns
  BY DEF Stored, RaceRows, IsRow
<1>2. \A c \in cand[t] : c.id \in Nat /\ DOMAIN c = Columns /\ OfCable(c, mine[t])
  BY IdsAre DEF RaceRows, IsRow
<1>3. old \in cand[t] /\ OfCable(merged, mine[t]) /\ merged.id = old.id
  BY <1>2, OldestRow, MergedOfCable
<1>4. merged.src = old.src /\ merged.dst = old.dst
  BY <1>2, <1>3 DEF OfCable
<1> HIDE DEF old, merged
<1>5. LET new == Patch(r, old, merged)
      IN  DOMAIN new = Columns /\ new.id = r.id /\ new.src = r.src /\ new.dst = r.dst
  BY <1>1, <1>3, <1>4, PatchedRow
<1>6. QED
  BY <1>1, <1>3, <1>5 DEF old, merged

LEMMA UpdateKeeps ==
  ASSUME Uniform, RaceRows, OneRowPerCable, FirstStays, NeverRolledBack,
         NEW t \in Sessions, Update(t), Forgets(t), step' = [step EXCEPT ![t] = "idle"]
  PROVE  RaceRows' /\ OneRowPerCable' /\ FirstStays' /\ NeverRolledBack'
<1>1. PICK r \in Stored(t) :
        rows' = {k \in rows : \A c \in cand[t] : c.id # k.id}
                \cup {Patch(r, Oldest(cand[t]), Merged(cand[t], mine[t]))}
  BY DEF Update
<1> DEFINE new == Patch(r, Oldest(cand[t]), Merged(cand[t], mine[t]))
           old == Oldest(cand[t])
<1>0. cand[t] # {}
  BY DEF Update
<1>2. /\ r \in rows /\ r.id = old.id /\ old \in cand[t]
      /\ DOMAIN new = Columns /\ new.id = r.id /\ new.src = r.src /\ new.dst = r.dst
  BY <1>0, WrittenRow
<1>3. rows' \subseteq (rows \ {r}) \cup {new} /\ new \in rows'
  BY <1>1, <1>2
<1> HIDE DEF new, old
<1>4. IsRow(new)
  <2>1. IsRow(r)
    BY <1>2 DEF RaceRows
  <2>2. \A o : OfCable(r, o) => OfCable(new, o)
    BY <1>2 DEF OfCable
  <2> QED
    BY <1>2, <2>1, <2>2 DEF IsRow
<1>5. RaceRows'
  BY <1>3, <1>4 DEF RaceRows, IsRow, OfCable, Forgets
<1>6. OneRowPerCable'
  <2>1. \A k : (Compatible(k, new) <=> Compatible(k, r)) /\ (Compatible(new, k) <=> Compatible(r, k))
    BY <1>2 DEF Compatible
  <2>2. QED
    BY <1>2, <1>3, <2>1 DEF OneRowPerCable, Forgets, AllKnown, Compatible
<1>7. FirstStays'
  <2> SUFFICES ASSUME ~ AllKnown, OneCable
               PROVE  /\ FirstIn(rows')
                      /\ \A u \in Sessions : FirstIn(cand'[u])
    BY <1>3 DEF FirstStays, Forgets, AllKnown, OneCable
  <2>1. PICK c \in cand[t] : c.id = 1
    BY <1>0 DEF FirstStays, FirstIn
  <2>2. \A k \in cand[t] : k.id \in Nat /\ k.id >= 1
    BY IdsAre DEF RaceRows, IsRow
  <2>3. old.id <= 1
    BY <1>0, <2>1, <2>2, OldestRow DEF old
  <2>4. old.id = 1
    BY <1>2, <2>2, <2>3
  <2>5. QED
    BY <1>2, <1>3, <2>4 DEF Forgets, FirstStays, FirstIn, RaceRows
<1>8. NeverRolledBack'
  BY DEF NeverRolledBack, Forgets, AllKnown, OneCable, RaceRows
<1>9. QED
  BY <1>5, <1>6, <1>7, <1>8

\* A rollback: not over one cable with an unknown port.
LEMMA FailsKeeps ==
  ASSUME Uniform, RaceRows, OneRowPerCable, FirstStays, NeverRolledBack,
         NEW t \in Sessions, step[t] = "read", Fails(t), Forgets(t), UNCHANGED rows,
         step' = [step EXCEPT ![t] = "rolled back"]
  PROVE  RaceRows' /\ OneRowPerCable' /\ FirstStays' /\ NeverRolledBack'
<1>1. RaceRows' /\ OneRowPerCable'
  BY DEF RaceRows, IsRow, OfCable, Forgets, OneRowPerCable, AllKnown, Compatible
<1>2. ASSUME ~ AllKnown, OneCable
      PROVE  FALSE
  <2>1. \A o \in contested : o.src = NoPort \/ o.dst = NoPort
    BY <1>2 DEF AllKnown, OneCable
  <2>2. CASE cand[t] = {}
    <3>1. mine[t] \in contested
      BY DEF RaceRows
    <3>2. Row(0, mine[t]).src = mine[t].src /\ Row(0, mine[t]).dst = mine[t].dst
      BY DEF Row
    <3>3. QED
      BY <2>1, <2>2, <3>1, <3>2 DEF Fails, Conflict
  <2>3. CASE cand[t] # {}
    <3>1. \A c \in cand[t] : c.id \in Nat /\ c.id >= 1
      BY IdsAre DEF RaceRows, IsRow
    <3>2. Oldest(cand[t]).id = 1
      <4>1. PICK c \in cand[t] : c.id = 1
        BY <1>2, <2>3 DEF FirstStays, FirstIn
      <4>2. Oldest(cand[t]) \in cand[t] /\ Oldest(cand[t]).id <= 1
        BY <3>1, <2>3, <4>1, OldestRow
      <4>3. Oldest(cand[t]).id \in Nat /\ Oldest(cand[t]).id >= 1
        BY <3>1, <4>2
      <4>4. QED
        BY <4>2, <4>3, OnlyOne, Zenon
    <3>3. PICK r \in rows : r.id = 1
      BY <1>2, <2>3 DEF FirstStays, FirstIn
    <3>4. r \in Stored(t)
      BY <3>2, <3>3 DEF Stored
    <3> DEFINE new == Patch(r, Oldest(cand[t]), Merged(cand[t], mine[t]))
    <3>5. new.src = r.src /\ new.dst = r.dst
      BY <2>3, <3>4, WrittenRow
    <3>6. \E o \in contested : OfCable(r, o)
      BY DEF RaceRows, IsRow
    <3>7. ~ Conflict(new, rows)
      BY <2>1, <3>5, <3>6 DEF Conflict, OfCable
    <3>8. QED
      BY <2>3, <3>4, <3>7 DEF Fails
  <2>4. QED
    BY <2>2, <2>3
<1>3. FirstStays' /\ NeverRolledBack'
  BY <1>2 DEF FirstStays, NeverRolledBack, Forgets, AllKnown, OneCable
<1>4. QED
  BY <1>1, <1>3

LEMMA DeleteRowKeeps ==
  ASSUME Uniform, RaceRows, OneRowPerCable, FirstStays, NeverRolledBack, NEW r \in rows, DeleteRow(r)
  PROVE  RaceRows' /\ OneRowPerCable' /\ FirstStays' /\ NeverRolledBack'
<1>1. AllKnown /\ rows' = rows \ {r} /\ UNCHANGED <<cand, mine, step, contested>>
  BY DEF DeleteRow
<1>2. QED
  BY <1>1 DEF RaceRows, IsRow, OfCable, OneRowPerCable, Compatible, FirstStays, NeverRolledBack, AllKnown, OneCable

LEMMA RaceKept == RaceInv /\ [RaceNext]_raceVars => RaceInv'
<1> SUFFICES ASSUME RaceInv, [RaceNext]_raceVars
             PROVE  RaceInv'
  OBVIOUS
<1>0. contested' = contested
  BY DEF RaceNext, raceVars, Read, Flush, DeleteRow
<1>1. SUFFICES ASSUME Uniform
               PROVE  RaceRows' /\ OneRowPerCable' /\ FirstStays' /\ NeverRolledBack'
  BY <1>0 DEF RaceInv, Uniform, AllKnown, OneCable
<1>2. RaceRows /\ OneRowPerCable /\ FirstStays /\ NeverRolledBack
  BY <1>1 DEF RaceInv
<1>3. CASE \E t \in Sessions : \E o \in contested : Read(t, o)
  BY <1>1, <1>2, <1>3, ReadKeeps
<1>4. CASE \E t \in Sessions : Flush(t)
  <2>1. PICK t \in Sessions : Flush(t)
    BY <1>4
  <2>2. step[t] = "read" /\ Forgets(t)
    BY <2>1 DEF Flush, Forgets
  <2>3. \/ InsertRow(t) /\ step' = [step EXCEPT ![t] = "idle"]
        \/ Update(t) /\ step' = [step EXCEPT ![t] = "idle"]
        \/ Fails(t) /\ rows' = rows /\ step' = [step EXCEPT ![t] = "rolled back"]
    BY <2>1 DEF Flush
  <2>4. QED
    BY <1>1, <1>2, <2>2, <2>3, InsertRowKeeps, UpdateKeeps, FailsKeeps
<1>5. CASE \E r \in rows : DeleteRow(r)
  BY <1>1, <1>2, <1>5, DeleteRowKeeps
<1>6. CASE UNCHANGED raceVars
  BY <1>2, <1>6 DEF raceVars, RaceRows, IsRow, OfCable, OneRowPerCable, Compatible, FirstStays, FirstIn,
                    NeverRolledBack, AllKnown, OneCable
<1>7. QED
  BY <1>3, <1>4, <1>5, <1>6 DEF RaceNext

(* However the sessions that store one pair's links interleave, and whatever is   *)
(* deleted meanwhile: one row per cable where all ports are known, and no session *)
(* rolled back over one cable where one is not.                                   *)
THEOREM RaceSound == RaceSpec => []RaceIsHarmless
<1>1. RaceInit => RaceInv
  BY DEF RaceInit, RaceInv, RaceRows, OneRowPerCable, FirstStays, FirstIn, NeverRolledBack
<1>2. RaceInv => RaceIsHarmless
  BY DEF RaceInv, RaceIsHarmless, Uniform, OneRowPerCable, NeverRolledBack
<1>3. QED
  BY <1>1, <1>2, RaceKept, PTL DEF RaceSpec

-----------------------------------------------------------------------------
(* Topology: the inductive invariant, in parts.                                  *)

Idents(D) == {d.id : d \in D}
IsLink(l) ==
  /\ DOMAIN l = {"id", "a", "b", "src", "dst", "source", "conf", "age", "status", "shown"}
  /\ l.id \in Nat /\ l.a \in Nat /\ l.b \in Nat /\ l.a < l.b
AreLinks(D, L) == Bounded(L) /\ \A l \in L : IsLink(l) /\ l.a \in Idents(D) /\ l.b \in Idents(D)

Phases == {"idle", "neighbours", "fdb", "arp", "prune", "liveness", "directions"}
MapBase ==
  /\ AreDevices(devices) /\ AreLinks(devices, topoLinks)
  /\ \A r \in neighbors : r.local \in Idents(devices)
  /\ todo \subseteq neighbors
  /\ phase \notin {"neighbours", "fdb", "arp"} => todo = {}
  /\ phase = "arp" => \A r \in todo : r.kind = "ARP"
  /\ phase \in Phases /\ calm \in 0..2

(* A link that is heard in the recomputation under way. *)
Current(l) == l.age = 0 /\ l.status = "UP"
Ended(l, k) == l.a = k.a /\ l.b = k.b
CurrentLink(L, i, j) == \E l \in L : {l.a, l.b} = {i, j} /\ Current(l)

(* From L to K no link is lost, and no fresh one ages. *)
Grows(L, K) == \A l \in L : \E k \in K : Ended(l, k) /\ (Current(l) => Current(k))

-----------------------------------------------------------------------------
(* What an observation does to the links.                                        *)
LEMMA RaisedLink ==
  ASSUME NEW l, IsLink(l), NEW m
  PROVE  IsLink(Raise(l, m)) /\ Raise(l, m).id = l.id /\ Ended(Raise(l, m), l)
BY DEF Raise, IsLink, Ended

LEMMA MergedLink ==
  ASSUME NEW M, M # {}, \A l \in M : IsLink(l), NEW o
  PROVE  /\ IsLink(Merged(M, o)) /\ Current(Merged(M, o))
         /\ \E l \in M : Merged(M, o).id = l.id /\ Ended(Merged(M, o), l)
<1> DEFINE seen == Raise(Oldest(M), [conf |-> Confidence[o.source], source |-> o.source])
           l == Raise(seen, Best(M))
           k == [l EXCEPT !.src = Src(M, o), !.dst = Dst(M, o), !.age = 0, !.status = "UP"]
<1>1. Oldest(M) \in M /\ IsLink(Oldest(M))
  BY OldestRow DEF IsLink
<1>2. IsLink(seen) /\ seen.id = Oldest(M).id /\ Ended(seen, Oldest(M))
  BY <1>1, RaisedLink
<1> HIDE DEF seen
<1>3. IsLink(l) /\ l.id = Oldest(M).id /\ Ended(l, Oldest(M))
  BY <1>2, RaisedLink DEF Ended
<1> HIDE DEF l
<1>4. IsLink(k) /\ Current(k) /\ k.id = l.id /\ Ended(k, l)
  BY <1>3 DEF IsLink, Current, Ended
<1>5. Merged(M, o) = k
  BY DEF Merged, seen, l
<1> HIDE DEF k
<1>6. QED
  BY <1>1, <1>3, <1>4, <1>5 DEF Ended

LEMMA NewLinkIs ==
  ASSUME NEW i \in Nat, NEW o, o.a \in Nat, o.b \in Nat, o.a < o.b
  PROVE  IsLink(NewLink(i, o)) /\ NewLink(i, o).id = i /\ Ended(NewLink(i, o), o) /\ Current(NewLink(i, o))
BY DEF NewLink, IsLink, Ended, Current

LEMMA FlushedAre ==
  ASSUME NEW D, NEW L, AreLinks(D, L)
  PROVE  AreLinks(D, Flushed(L)) /\ Grows(L, Flushed(L))
<1>1. \A l \in L : LET k == [l EXCEPT !.shown = l.status]
                   IN  IsLink(k) /\ k.id = l.id /\ Ended(l, k) /\ (Current(l) => Current(k))
  BY DEF AreLinks, IsLink, Ended, Current
<1>2. \A k \in Flushed(L) : \E l \in L : IsLink(k) /\ k.id = l.id /\ Ended(l, k)
  BY <1>1 DEF Flushed
<1>3. \A l \in L : \E k \in Flushed(L) : Ended(l, k) /\ (Current(l) => Current(k))
  BY <1>1 DEF Flushed
<1>4. Bounded(Flushed(L))
  BY <1>2 DEF AreLinks, Bounded
<1>5. QED
  BY <1>2, <1>3, <1>4 DEF AreLinks, Grows, Ended

LEMMA GrowsOn ==
  ASSUME NEW K, NEW L, NEW M, Grows(K, L), Grows(L, M)
  PROVE  Grows(K, M)
BY DEF Grows, Ended

LEMMA GrowsStill == \A L : Grows(L, L)
BY DEF Grows, Ended

LEMMA LinkedAre ==
  ASSUME NEW D, NEW L, AreLinks(D, L), NEW o, o.a \in Nat, o.b \in Nat, o.a < o.b,
         o.a \in Idents(D), o.b \in Idents(D)
  PROVE  /\ AreLinks(D, Linked(L, o)) /\ Grows(L, Linked(L, o))
         /\ \E l \in Linked(L, o) : Ended(l, o) /\ Current(l)
<1> DEFINE M == {l \in L : l.a = o.a /\ l.b = o.b /\ Compatible(l, o)}
           grown == L \cup {NewLink(NextId(L), o)}
           joined == (L \ M) \cup {Merged(M, o)}
<1>0. \A l \in L : IsLink(l) /\ l.id \in Nat
  BY DEF AreLinks, IsLink
<1>1. CASE M = {}
  <2>1. NextId(L) \in Nat /\ \A l \in L : l.id < NextId(L)
    BY <1>0, NextIdIsNew DEF AreLinks
  <2>2. IsLink(NewLink(NextId(L), o)) /\ NewLink(NextId(L), o).id = NextId(L)
        /\ Ended(NewLink(NextId(L), o), o) /\ Current(NewLink(NextId(L), o))
    BY <2>1, NewLinkIs
  <2>3. AreLinks(D, grown)
    <3>1. Bounded(grown)
      BY <1>0, <2>1, <2>2 DEF Bounded
    <3>2. QED
      BY <2>2, <3>1 DEF AreLinks, Ended
  <2>4. Grows(L, grown) /\ \E l \in grown : Ended(l, o) /\ Current(l)
    BY <2>2 DEF Grows, Ended
  <2> HIDE DEF grown
  <2>5. AreLinks(D, Flushed(grown)) /\ Grows(grown, Flushed(grown))
    BY <2>3, FlushedAre
  <2>6. Linked(L, o) = Flushed(grown)
    BY <1>1 DEF Linked, grown
  <2>7. QED
    BY <2>4, <2>5, <2>6, GrowsOn DEF Grows, Ended
<1>2. CASE M # {}
  <2>1. \A l \in M : IsLink(l) /\ l \in L /\ Ended(l, o)
    BY <1>0 DEF Ended
  <2> HIDE DEF M
  <2>2. /\ IsLink(Merged(M, o)) /\ Current(Merged(M, o))
        /\ \E l \in M : Merged(M, o).id = l.id /\ Ended(Merged(M, o), l)
    BY <1>2, <2>1, MergedLink
  <2>3. Ended(Merged(M, o), o)
    BY <2>1, <2>2 DEF Ended
  <2>4. AreLinks(D, joined)
    <3>1. Bounded(joined)
      <4>1. PICK b \in Nat : \A l \in L : l.id <= b
        BY DEF AreLinks, Bounded
      <4>2. \A l \in joined : l.id <= b
        BY <2>1, <2>2, <4>1
      <4>3. QED
        BY <4>2 DEF Bounded
    <3>2. QED
      BY <2>2, <2>3, <3>1 DEF AreLinks, Ended
  <2>5. Grows(L, joined) /\ \E l \in joined : Ended(l, o) /\ Current(l)
    BY <2>1, <2>2, <2>3 DEF Grows, Ended
  <2> HIDE DEF joined
  <2>6. AreLinks(D, Flushed(joined)) /\ Grows(joined, Flushed(joined))
    BY <2>4, FlushedAre
  <2>7. Linked(L, o) \in {joined, Flushed(joined)}
    BY <1>2 DEF Linked, joined, M
  <2>8. QED
    BY <2>4, <2>5, <2>6, <2>7, GrowsOn DEF Grows, Ended
<1>3. QED
  BY <1>1, <1>2

LEMMA SightingIs ==
  ASSUME NEW i \in Nat, NEW j \in Nat, i # j, NEW p, NEW q, NEW evidence
  PROVE  LET o == Sighting(i, p, j, q, evidence)
         IN  o.a < o.b /\ {o.a, o.b} = {i, j} /\ o.a \in Nat /\ o.b \in Nat
BY DEF Sighting

-----------------------------------------------------------------------------
(* Between D and E every device keeps its chassis and its address, and what joins *)
(* was named by an ARP row, has no chassis id and is not the server itself.        *)
Alike(d, e) == e.id = d.id /\ e.chassis = d.chassis /\ e.ip = d.ip
Joined(D, E) ==
  /\ \A d \in D : \E e \in E : Alike(d, e)
  /\ \A e \in E : \/ \E d \in D : Alike(d, e)
                  \/ e.chassis = None /\ ~ Excludes(e) /\ \E s \in neighbors : s.kind = "ARP" /\ s.ip = e.ip

LEMMA BareDoes ==
  ASSUME NEW D, AreDevices(D), NEW mac, \A d \in D : d.mac # mac,
         NEW s \in neighbors, s.kind = "ARP", s.ip \notin excluded,
         NEW found \in Resolved(D, Bare(mac, s.ip))
  PROVE  /\ AreDevices(found[1]) /\ found[2] \in found[1]
         /\ Idents(D) \subseteq Idents(found[1]) /\ Joined(D, found[1])
<1> DEFINE o == Bare(mac, s.ip)
<1>1. o.depth \in Nat /\ o.chassis = None /\ o.mac = mac /\ o.model = None /\ o.ip = s.ip
  BY DEF Bare
<1> HIDE DEF o
<1>2. found \in Resolved(D, o)
  BY DEF o
<1>3. AreDevices(found[1]) /\ found[2] \in found[1] /\ Idents(D) \subseteq Idents(found[1])
  BY <1>1, <1>2, ResolvedDoes DEF Idents
<1>4. CASE Candidates(D, o) = {} /\ found[2] = Created(NextId(D), o) /\ found[1] = D \cup {found[2]}
  <2>1. found[2].chassis = None /\ found[2].ip = s.ip
    BY <1>1, <1>4 DEF Created
  <2>2. Joined(D, found[1])
    BY <1>4, <2>1 DEF Joined, Alike, Excludes
  <2>3. QED
    BY <1>3, <2>2
<1>5. ASSUME NEW d \in Candidates(D, o), found[2] = Updated(d, o), found[1] = (D \ {d}) \cup {found[2]}
      PROVE  Joined(D, found[1])
  <2>1. d \in D /\ IsDevice(d)
    BY CandidatesAre DEF AreDevices
  <2>2. d.ip = s.ip
    BY <1>1, <2>1, CandidateBy
  <2>3. found[2].id = d.id /\ found[2].chassis = d.chassis /\ found[2].ip = d.ip
    BY <1>1, <1>5, <2>1, <2>2, UpdatedRow DEF Given
  <2>4. QED
    BY <1>5, <2>1, <2>3 DEF Joined, Alike
<1>6. QED
  BY <1>2, <1>3, <1>4, <1>5, ResolvedIs

LEMMA AttachDoes ==
  ASSUME NEW D, AreDevices(D), NEW L, AreLinks(D, L), NEW r, r.local \in Idents(D),
         NEW d \in D, NEW evidence, Attach(D, L, r, d, evidence)
  PROVE  devices' = D /\ AreLinks(D, topoLinks') /\ Grows(L, topoLinks')
<1> DEFINE o == Sighting(r.local, r.port, d.id, NoPort, evidence)
<1>1. CASE d.id = r.local \/ Excludes(d)
  BY <1>1, GrowsStill DEF Attach
<1>2. CASE ~ (d.id = r.local \/ Excludes(d))
  <2>1. r.local \in Nat /\ d.id \in Nat /\ d.id \in Idents(D)
    BY DEF AreDevices, IsDevice, Idents
  <2>2. o.a < o.b /\ {o.a, o.b} = {r.local, d.id} /\ o.a \in Nat /\ o.b \in Nat
    BY <1>2, <2>1, SightingIs
  <2>3. topoLinks' = Linked(L, o) /\ devices' = D
    BY <1>2 DEF Attach
  <2> HIDE DEF o
  <2>4. o.a \in Idents(D) /\ o.b \in Idents(D)
    BY <2>1, <2>2
  <2>5. QED
    BY <2>2, <2>3, <2>4, LinkedAre
<1>3. QED
  BY <1>1, <1>2

LEMMA LinksStay ==
  ASSUME NEW D, NEW E, Idents(D) \subseteq Idents(E), NEW L, AreLinks(D, L)
  PROVE  AreLinks(E, L)
BY DEF AreLinks

(* A pass that looks at one row. *)
Furthers ==
  /\ AreDevices(devices') /\ AreLinks(devices', topoLinks')
  /\ Idents(devices) \subseteq Idents(devices')
  /\ Joined(devices, devices') /\ Grows(topoLinks, topoLinks')
  /\ UNCHANGED <<neighbors, excluded, phase, calm>>

LEMMA Nothing == devices' = devices => Joined(devices, devices') /\ Idents(devices) \subseteq Idents(devices')
BY DEF Joined, Alike

(* The link that a row of a known neighbour makes. *)
LEMMA ObservedDoes ==
  ASSUME MapBase, NEW r \in neighbors, NEW d \in devices, d.id # r.local, NEW q, NEW evidence,
         topoLinks' = Linked(topoLinks, Sighting(r.local, r.port, d.id, q, evidence))
  PROVE  /\ AreLinks(devices, topoLinks') /\ Grows(topoLinks, topoLinks')
         /\ CurrentLink(topoLinks', r.local, d.id)
<1> DEFINE o == Sighting(r.local, r.port, d.id, q, evidence)
<1>1. r.local \in Nat /\ d.id \in Nat /\ d.id \in Idents(devices) /\ r.local \in Idents(devices)
  BY DEF MapBase, AreDevices, IsDevice, Idents
<1>2. o.a < o.b /\ {o.a, o.b} = {r.local, d.id} /\ o.a \in Nat /\ o.b \in Nat
  BY <1>1, SightingIs
<1>3. topoLinks' = Linked(topoLinks, o)
  OBVIOUS
<1> HIDE DEF o
<1>4. o.a \in Idents(devices) /\ o.b \in Idents(devices)
  BY <1>1, <1>2
<1>5. /\ AreLinks(devices, topoLinks') /\ Grows(topoLinks, topoLinks')
      /\ \E l \in topoLinks' : Ended(l, o) /\ Current(l)
  BY <1>2, <1>3, <1>4, LinkedAre DEF MapBase
<1>6. QED
  BY <1>2, <1>5 DEF CurrentLink, Ended

LEMMA LldpDoes ==
  ASSUME MapBase, NEW r \in todo, Lldp(r)
  PROVE  /\ Furthers
         /\ Remote(r) = {} \/ \E d \in Remote(r) : d.id = r.local \/ CurrentLink(topoLinks', r.local, d.id)
<1>1. r \in neighbors /\ Remote(r) \subseteq devices
  BY DEF MapBase, Remote
<1>2. devices' = devices /\ UNCHANGED <<neighbors, excluded, phase, calm>>
  BY DEF Lldp
<1>3. CASE topoLinks' = topoLinks /\ (Remote(r) = {} \/ \E d \in Remote(r) : d.id = r.local)
  BY <1>2, <1>3, Nothing, GrowsStill DEF Furthers, MapBase
<1>4. ASSUME NEW d \in Remote(r), d.id # r.local,
             topoLinks' = Linked(topoLinks, Sighting(r.local, r.port, d.id, RemotePort(d, r), "LLDP"))
      PROVE  Furthers /\ CurrentLink(topoLinks', r.local, d.id)
  <2>1. /\ AreLinks(devices, topoLinks') /\ Grows(topoLinks, topoLinks')
        /\ CurrentLink(topoLinks', r.local, d.id)
    BY <1>1, <1>4, ObservedDoes
  <2>2. QED
    BY <1>2, <2>1, Nothing DEF Furthers, MapBase
<1>5. QED
  BY <1>3, <1>4 DEF Lldp

LEMMA StpDoes ==
  ASSUME MapBase, NEW r \in todo, Stp(r)
  PROVE  Furthers
<1> DEFINE bridges == {d \in devices : d.mac = r.key \/ d.chassis = r.key}
<1>1. r \in neighbors /\ devices' = devices /\ UNCHANGED <<neighbors, excluded, phase, calm>>
  BY DEF MapBase, Stp
<1>2. CASE topoLinks' = topoLinks
  BY <1>1, <1>2, Nothing, GrowsStill DEF Furthers, MapBase
<1>3. ASSUME NEW d \in bridges, d.id # r.local,
             topoLinks' = Linked(topoLinks, Sighting(r.local, r.port, d.id, NoPort, "STP"))
      PROVE  Furthers
  <2>1. AreLinks(devices, topoLinks') /\ Grows(topoLinks, topoLinks')
    BY <1>1, <1>3, ObservedDoes
  <2>2. QED
    BY <1>1, <2>1, Nothing DEF Furthers, MapBase
<1>4. QED
  BY <1>2, <1>3 DEF Stp

(* ... and what a row leads to when its neighbour is known by address only. *)
LEMMA FoundDoes ==
  ASSUME MapBase, NEW r \in neighbors, NEW s \in neighbors, s.kind = "ARP", s.ip \notin excluded,
         \A d \in devices : d.mac # r.key, NEW found \in Resolved(devices, Bare(r.key, s.ip)), NEW evidence,
         \/ devices' = found[1] /\ topoLinks' = Flushed(topoLinks)
         \/ Attach(found[1], Flushed(topoLinks), r, found[2], evidence),
         UNCHANGED <<neighbors, excluded, phase, calm>>
  PROVE  Furthers
<1>1. /\ AreDevices(found[1]) /\ found[2] \in found[1]
      /\ Idents(devices) \subseteq Idents(found[1]) /\ Joined(devices, found[1])
  BY BareDoes DEF MapBase
<1>2. AreLinks(found[1], topoLinks)
  BY <1>1, LinksStay DEF MapBase
<1>3. AreLinks(found[1], Flushed(topoLinks)) /\ Grows(topoLinks, Flushed(topoLinks))
  BY <1>2, FlushedAre
<1>4. r.local \in Idents(found[1])
  BY <1>1 DEF MapBase
<1>5. devices' = found[1] /\ AreLinks(found[1], topoLinks') /\ Grows(topoLinks, topoLinks')
  <2>1. CASE devices' = found[1] /\ topoLinks' = Flushed(topoLinks)
    BY <1>3, <2>1
  <2>2. CASE Attach(found[1], Flushed(topoLinks), r, found[2], evidence)
    <3>1. devices' = found[1] /\ AreLinks(found[1], topoLinks') /\ Grows(Flushed(topoLinks), topoLinks')
      BY <1>1, <1>3, <1>4, <2>2, AttachDoes
    <3>2. QED
      BY <1>3, <3>1, GrowsOn
  <2>3. QED
    BY <2>1, <2>2
<1>6. QED
  BY <1>1, <1>5 DEF Furthers

LEMMA KnownDoes ==
  ASSUME MapBase, NEW r \in neighbors, NEW d \in devices, NEW evidence,
         Attach(devices, topoLinks, r, d, evidence), UNCHANGED <<neighbors, excluded, phase, calm>>
  PROVE  Furthers
<1>1. devices' = devices /\ AreLinks(devices, topoLinks') /\ Grows(topoLinks, topoLinks')
  BY AttachDoes DEF MapBase
<1>2. QED
  BY <1>1, Nothing DEF Furthers, MapBase

LEMMA NoneDoes ==
  ASSUME MapBase, UNCHANGED <<devices, topoLinks, neighbors, excluded, phase, calm>>
  PROVE  Furthers
BY Nothing, GrowsStill DEF Furthers, MapBase

LEMMA FdbDoes ==
  ASSUME MapBase, NEW r \in todo, Fdb(r)
  PROVE  Furthers
<1> DEFINE known == {d \in devices : d.mac = r.key}
           arps == ArpOf(r.key)
<1>1. r \in neighbors /\ UNCHANGED <<neighbors, excluded, phase, calm>>
  BY DEF MapBase, Fdb
<1>2. CASE \E d \in known : Attach(devices, topoLinks, r, d, IF arps = {} THEN "FDB" ELSE "FDB_ARP")
  BY <1>1, <1>2, KnownDoes
<1>3. ASSUME NEW s \in arps, NEW found \in Resolved(devices, Bare(r.key, s.ip)),
             known = {}, s.ip \notin excluded, Attach(found[1], Flushed(topoLinks), r, found[2], "FDB_ARP")
      PROVE  Furthers
  <2>1. s \in neighbors /\ s.kind = "ARP" /\ \A d \in devices : d.mac # r.key
    BY <1>3 DEF ArpOf
  <2>2. QED
    BY <1>1, <1>3, <2>1, FoundDoes
<1>4. CASE UNCHANGED <<devices, topoLinks>>
  BY <1>1, <1>4, NoneDoes
<1>5. QED
  BY <1>2, <1>3, <1>4 DEF Fdb

LEMMA ArpOnlyDoes ==
  ASSUME MapBase, NEW r \in todo, ArpOnly(r)
  PROVE  Furthers
<1> DEFINE known == {d \in devices : d.mac = r.key}
<1>1. r \in neighbors /\ r.kind = "ARP" /\ UNCHANGED <<neighbors, excluded, phase, calm>>
  BY DEF MapBase, ArpOnly
<1>2. CASE UNCHANGED <<devices, topoLinks>>
  BY <1>1, <1>2, NoneDoes
<1>3. ASSUME NEW d \in known, Attach(devices, topoLinks, r, d, "ARP")
      PROVE  Furthers
  BY <1>1, <1>3, KnownDoes
<1>4. ASSUME NEW found \in Resolved(devices, Bare(r.key, r.ip)), r.ip \notin excluded, known = {},
             IF AlreadyLinked(r.local, found[2].id)
             THEN devices' = found[1] /\ topoLinks' = Flushed(topoLinks)
             ELSE Attach(found[1], Flushed(topoLinks), r, found[2], "ARP")
      PROVE  Furthers
  <2>1. \A d \in devices : d.mac # r.key
    BY <1>4
  <2>2. \/ devices' = found[1] /\ topoLinks' = Flushed(topoLinks)
        \/ Attach(found[1], Flushed(topoLinks), r, found[2], "ARP")
    BY <1>4
  <2>3. QED
    BY <1>1, <1>4, <2>1, <2>2, FoundDoes
<1>5. QED
  BY <1>2, <1>3, <1>4 DEF ArpOnly

-----------------------------------------------------------------------------
(* A device, a neighbour row and a link go together through every step.            *)
LEMMA CascadeDoes ==
  ASSUME MapBase, NEW D, D \subseteq devices, Cascade(D)
  PROVE  /\ AreDevices(devices') /\ AreLinks(devices', topoLinks')
         /\ \A r \in neighbors' : r.local \in Idents(devices')
<1>1. AreDevices(D)
  BY DEF MapBase, AreDevices, Bounded
<1>2. AreLinks(D, topoLinks')
  BY DEF MapBase, AreLinks, Bounded, Cascade, Idents
<1>3. \A r \in neighbors' : r.local \in Idents(D)
  BY DEF Cascade, Idents
<1>4. QED
  BY <1>1, <1>2, <1>3 DEF Cascade

LEMMA ScanDoes ==
  ASSUME MapBase, NEW h \in Hosts, Scan(h)
  PROVE  MapBase'
<1>1. PICK found \in Resolved(devices, h.self) :
        /\ devices' = (found[1] \ {found[2]}) \cup {[found[2] EXCEPT !.ports = @ \cup h.ports]}
        /\ neighbors' = neighbors \cup {RowOf(r, [found[2] EXCEPT !.ports = @ \cup h.ports].id) : r \in h.rows}
  BY DEF Scan
<1> DEFINE d == [found[2] EXCEPT !.ports = @ \cup h.ports]
<1>2. /\ AreDevices(found[1]) /\ found[2] \in found[1]
      /\ Idents(devices) \subseteq Idents(found[1])
  BY TopologyAssumption, ResolvedDoes DEF MapBase, Idents
<1>3. IsDevice(d) /\ d.id = found[2].id
  BY <1>2 DEF AreDevices, IsDevice
<1>4. devices' = (found[1] \ {found[2]}) \cup {d} /\ neighbors' = neighbors \cup {RowOf(r, d.id) : r \in h.rows}
  BY <1>1
<1> HIDE DEF d
<1>5. AreDevices(devices')
  <2>1. \A c \in devices' : IsDevice(c)
    BY <1>2, <1>3, <1>4 DEF AreDevices
  <2>2. \A c, e \in devices' : c.id = e.id => c = e
    BY <1>2, <1>3, <1>4 DEF AreDevices
  <2>3. Bounded(devices')
    <3>1. PICK b \in Nat : \A c \in found[1] : c.id <= b
      BY <1>2 DEF AreDevices, Bounded
    <3>2. \A c \in devices' : c.id <= b
      BY <1>2, <1>3, <1>4, <3>1
    <3>3. QED
      BY <3>2 DEF Bounded
  <2>4. QED
    BY <2>1, <2>2, <2>3 DEF AreDevices
<1>6. Idents(devices) \subseteq Idents(devices') /\ d.id \in Idents(devices')
  BY <1>2, <1>3, <1>4 DEF Idents
<1>7. AreLinks(devices', topoLinks')
  BY <1>6, LinksStay DEF MapBase, Scan
<1>8. \A r \in neighbors' : r.local \in Idents(devices')
  BY <1>4, <1>6 DEF MapBase, RowOf
<1>9. todo' = {} /\ todo' \subseteq neighbors' /\ phase' = "idle" /\ calm' = 0
  BY DEF MapBase, Scan
<1>10. QED
  BY <1>5, <1>7, <1>8, <1>9 DEF MapBase, Phases

LEMMA FurthersBase ==
  ASSUME MapBase, Furthers, todo' \subseteq todo
  PROVE  MapBase'
BY DEF MapBase, Furthers

(* The steps that change no device and no row; links at most in age and status.    *)
OnlyAges == \A k \in topoLinks' : \E l \in topoLinks : IsLink(k) /\ k.id = l.id /\ Ended(k, l)
LEMMA AgesDo ==
  ASSUME MapBase, devices' = devices, OnlyAges
  PROVE  AreLinks(devices', topoLinks')
<1>1. Bounded(topoLinks')
  BY DEF MapBase, AreLinks, OnlyAges, Bounded
<1>2. QED
  BY <1>1 DEF MapBase, AreLinks, OnlyAges, Ended

LEMMA FlushedOnly ==
  ASSUME MapBase, NEW L, L \subseteq topoLinks, topoLinks' = Flushed(L)
  PROVE  OnlyAges
<1>1. \A l \in topoLinks : IsLink([l EXCEPT !.shown = l.status])
  BY DEF MapBase, AreLinks, IsLink
<1>2. QED
  BY <1>1 DEF OnlyAges, Flushed, MapBase, AreLinks, IsLink, Ended

LEMMA MapBaseInit == TopologyInit => MapBase
<1> SUFFICES ASSUME TopologyInit PROVE MapBase
  OBVIOUS
<1>1. AreDevices(devices)
  BY DEF TopologyInit, AreDevices, Bounded
<1>2. AreLinks(devices, topoLinks)
  BY DEF TopologyInit, AreLinks, Bounded
<1>3. QED
  BY <1>1, <1>2 DEF TopologyInit, MapBase, Phases

LEMMA MapBaseStep == MapBase /\ [TopologyNext]_topoVars => MapBase'
<1> SUFFICES ASSUME MapBase, [TopologyNext]_topoVars
             PROVE  MapBase'
  OBVIOUS
<1>1. ASSUME NEW h \in Hosts, Scan(h) PROVE MapBase'
  BY <1>1, ScanDoes
<1>2. ASSUME NEW ip, Exclude(ip) PROVE MapBase'
  BY <1>2 DEF Exclude, MapBase
<1>3. CASE LinksAge
  <2>1. devices' = devices /\ OnlyAges
    BY <1>3 DEF LinksAge, OnlyAges, MapBase, AreLinks, IsLink, Ended
  <2>2. QED
    BY <1>3, <2>1, AgesDo DEF LinksAge, MapBase
<1>4. CASE ClearDevices
  <2>1. /\ AreDevices(devices') /\ AreLinks(devices', topoLinks')
        /\ \A r \in neighbors' : r.local \in Idents(devices')
    BY <1>4, CascadeDoes DEF ClearDevices
  <2>2. QED
    BY <1>4, <2>1 DEF ClearDevices, MapBase
<1>5. CASE ClearLinks
  <2>1. devices' = devices /\ OnlyAges
    BY <1>5 DEF ClearLinks, OnlyAges
  <2>2. QED
    BY <1>5, <2>1, AgesDo DEF ClearLinks, MapBase
<1>6. CASE Begin
  <2>1. /\ AreDevices(devices') /\ AreLinks(devices', topoLinks')
        /\ \A r \in neighbors' : r.local \in Idents(devices')
    BY <1>6, CascadeDoes DEF Begin
  <2>2. QED
    BY <1>6, <2>1 DEF Begin, MapBase, Phases
<1>7. ASSUME NEW r \in todo, Lldp(r) \/ Stp(r) \/ Fdb(r) \/ ArpOnly(r) PROVE MapBase'
  <2>1. Furthers
    BY <1>7, LldpDoes, StpDoes, FdbDoes, ArpOnlyDoes
  <2>2. todo' \subseteq todo
    BY <1>7 DEF Lldp, Stp, Fdb, ArpOnly
  <2>3. QED
    BY <2>1, <2>2, FurthersBase
<1>8. CASE NextPass("neighbours", "fdb", {"FDB"})
  BY <1>8 DEF NextPass, MapBase, Phases
<1>9. CASE NextPass("fdb", "arp", {"ARP"})
  BY <1>9 DEF NextPass, MapBase, Phases
<1>10. CASE NextPass("arp", "prune", {})
  BY <1>10 DEF NextPass, MapBase, Phases
<1>11. CASE PruneLinks
  <2> DEFINE kept == {l \in topoLinks : ~ \E d \in devices : d.id \in {l.a, l.b} /\ Excludes(d)}
  <2>1. devices' = devices /\ topoLinks' \in {kept, Flushed(kept)} /\ kept \subseteq topoLinks
    BY <1>11 DEF PruneLinks
  <2> HIDE DEF kept
  <2>2. OnlyAges
    <3>1. CASE topoLinks' = kept
      BY <2>1, <3>1 DEF OnlyAges, MapBase, AreLinks, Ended
    <3>2. CASE topoLinks' = Flushed(kept)
      BY <2>1, <3>2, FlushedOnly
    <3>3. QED
      BY <2>1, <3>1, <3>2
  <2>3. QED
    BY <1>11, <2>1, <2>2, AgesDo DEF PruneLinks, MapBase, Phases
<1>12. CASE AgeLinks
  <2>1. devices' = devices /\ OnlyAges
    BY <1>12 DEF AgeLinks, OnlyAges, MapBase, AreLinks, IsLink, Ended
  <2>2. QED
    BY <1>12, <2>1, AgesDo DEF AgeLinks, MapBase, Phases
<1>13. CASE Publish
  <2>1. devices' = devices /\ OnlyAges
    BY <1>13, FlushedOnly DEF Publish
  <2>2. calm' \in 0..2
    BY <1>13 DEF Publish, MapBase
  <2>3. QED
    BY <1>13, <2>1, <2>2, AgesDo DEF Publish, MapBase, Phases
<1>14. CASE UNCHANGED topoVars
  BY <1>14 DEF topoVars, MapBase
<1>15. QED
  BY <1>1, <1>2, <1>3, <1>4, <1>5, <1>6, <1>7, <1>8, <1>9, <1>10, <1>11, <1>12, <1>13, <1>14 DEF TopologyNext

-----------------------------------------------------------------------------
(* While a recomputation runs, and until something changes after its commit: the  *)
(* server's own addresses are gone, and each LLDP row that has had its turn has a  *)
(* link that is heard.                                                            *)
Running == phase # "idle" \/ calm > 0
NoneExcluded == \A d \in devices : ~ Excludes(d)
Heard(r) == Settled(r) /\ Remote(r) # {} =>
              \E d \in Remote(r) : d.id = r.local \/ CurrentLink(topoLinks, r.local, d.id)
Had(r) == r.kind = "LLDP" /\ ~ (phase = "neighbours" /\ r \in todo)
MapInv == MapBase /\ (Running => NoneExcluded /\ \A r \in neighbors : Had(r) => Heard(r))

LEMMA CurrentGrows ==
  ASSUME Grows(topoLinks, topoLinks'), NEW i, NEW j, CurrentLink(topoLinks, i, j)
  PROVE  CurrentLink(topoLinks', i, j)
BY DEF Grows, CurrentLink, Ended

(* A row that is heard stays so when devices join and links grow.                  *)
LEMMA HeardStays ==
  ASSUME Joined(devices, devices'), Grows(topoLinks, topoLinks'), neighbors' = neighbors,
         NEW r, Heard(r)
  PROVE  Heard(r)'
<1> DEFINE byChassis == {d \in devices : r.key # None /\ d.chassis = r.key}
           byChassis2 == {d \in devices' : r.key # None /\ d.chassis = r.key}
           byAddress2 == {d \in devices' : r.ip # None /\ d.ip = r.ip}
<1> SUFFICES ASSUME Settled(r)', Remote(r)' # {}
             PROVE  \E e \in Remote(r)' : e.id = r.local \/ CurrentLink(topoLinks', r.local, e.id)
  BY DEF Heard
<1>1. CASE byChassis # {}
  <2>1. Settled(r) /\ Remote(r) = byChassis
    BY <1>1 DEF Settled, Remote
  <2>2. PICK d \in byChassis : d.id = r.local \/ CurrentLink(topoLinks, r.local, d.id)
    BY <1>1, <2>1 DEF Heard
  <2>3. PICK e \in devices' : Alike(d, e)
    BY <2>2 DEF Joined
  <2>4. e \in byChassis2
    BY <2>2, <2>3 DEF Alike
  <2>5. Remote(r)' = byChassis2
    BY <2>4 DEF Remote
  <2>6. QED
    BY <2>2, <2>3, <2>4, <2>5, CurrentGrows DEF Alike
<1>2. CASE byChassis = {}
  <2>1. byChassis2 = {}
    BY <1>2 DEF Joined, Alike
  <2>2. ~ \E s \in neighbors : s.kind = "ARP" /\ s.ip = r.ip
    BY <2>1 DEF Settled
  <2>3. Remote(r)' = byAddress2
    BY <2>1 DEF Remote
  <2>4. \A e \in byAddress2 : \E d \in devices : Alike(d, e)
    BY <2>2 DEF Joined
  <2>5. Remote(r) = {d \in devices : r.ip # None /\ d.ip = r.ip}
    BY <1>2 DEF Remote
  <2>6. Settled(r) /\ Remote(r) # {}
    BY <2>2, <2>3, <2>4, <2>5 DEF Settled, Alike
  <2>7. PICK d \in Remote(r) : d.id = r.local \/ CurrentLink(topoLinks, r.local, d.id)
    BY <2>6 DEF Heard
  <2>8. PICK e \in devices' : Alike(d, e)
    BY <2>5, <2>7 DEF Joined
  <2>9. e \in Remote(r)'
    BY <2>3, <2>5, <2>7, <2>8 DEF Alike
  <2>10. QED
    BY <2>7, <2>8, <2>9, CurrentGrows DEF Alike
<1>3. QED
  BY <1>1, <1>2

LEMMA RowLooked ==
  ASSUME MapInv, NEW r \in todo, Lldp(r) \/ Stp(r) \/ Fdb(r) \/ ArpOnly(r)
  PROVE  NoneExcluded' /\ \A s \in neighbors' : Had(s)' => Heard(s)'
<1>1. MapBase /\ NoneExcluded /\ \A s \in neighbors : Had(s) => Heard(s)
  BY DEF MapInv, Running, Lldp, Stp, Fdb, ArpOnly
<1>2. Furthers
  BY <1>1, LldpDoes, StpDoes, FdbDoes, ArpOnlyDoes
<1>3. NoneExcluded'
  BY <1>1, <1>2 DEF Furthers, Joined, Alike, NoneExcluded, Excludes
<1>4. ASSUME NEW s \in neighbors, Had(s)'
      PROVE  Heard(s)'
  <2>1. CASE Had(s)
    <3>1. Heard(s)
      BY <1>1, <2>1
    <3>2. QED
      BY <1>2, <3>1, HeardStays DEF Furthers
  <2>2. CASE ~ Had(s)
    <3>1. s = r /\ s.kind = "LLDP" /\ phase = "neighbours"
      BY <1>2, <1>4, <2>2 DEF Had, Furthers, Lldp, Stp, Fdb, ArpOnly
    <3>2. Lldp(r) /\ devices' = devices
      BY <3>1 DEF Lldp, Stp, Fdb, ArpOnly
    <3>3. Remote(r) = {} \/ \E d \in Remote(r) : d.id = r.local \/ CurrentLink(topoLinks', r.local, d.id)
      BY <1>1, <3>2, LldpDoes
    <3>4. Remote(r)' = Remote(r)
      BY <3>2 DEF Remote
    <3>5. QED
      BY <3>1, <3>3, <3>4 DEF Heard
  <2>3. QED
    BY <2>1, <2>2
<1>5. QED
  BY <1>2, <1>3, <1>4 DEF Furthers

(* The steps after the passes: no device, row or fresh link is lost.               *)
LEMMA Kept ==
  ASSUME MapInv, phase # "idle", UNCHANGED <<devices, neighbors, excluded>>, Grows(topoLinks, topoLinks'),
         \A r \in neighbors : Had(r)' => Had(r)
  PROVE  NoneExcluded' /\ \A r \in neighbors' : Had(r)' => Heard(r)'
<1>1. NoneExcluded /\ \A r \in neighbors : Had(r) => Heard(r)
  BY DEF MapInv, Running
<1>2. NoneExcluded'
  BY <1>1 DEF NoneExcluded, Excludes
<1>3. Joined(devices, devices')
  BY Nothing
<1>4. \A r \in neighbors : Heard(r) => Heard(r)'
  BY <1>3, HeardStays
<1>5. QED
  BY <1>1, <1>2, <1>4

LEMMA MapInvInit == TopologyInit => MapInv
BY MapBaseInit DEF MapInv, Running, TopologyInit

LEMMA MapInvStep == MapInv /\ [TopologyNext]_topoVars => MapInv'
<1> SUFFICES ASSUME MapInv, [TopologyNext]_topoVars
             PROVE  MapInv'
  OBVIOUS
<1> USE DEF MapInv
<1>0. MapBase' /\ \A L : Grows(L, L)
  BY MapBaseStep, GrowsStill
<1>1. CASE \/ \E h \in Hosts : Scan(h)
           \/ \E ip \in Servers : Exclude(ip)
           \/ LinksAge \/ ClearDevices \/ ClearLinks
  <2>1. phase' = "idle" /\ calm' = 0
    BY <1>1 DEF Scan, Exclude, LinksAge, ClearDevices, ClearLinks
  <2>2. QED
    BY <1>0, <2>1 DEF Running
<1>2. CASE Begin
  <2>1. NoneExcluded'
    BY <1>2 DEF Begin, Cascade, NoneExcluded, Excludes
  <2>2. \A r \in neighbors' : ~ Had(r)'
    BY <1>2 DEF Begin, Had
  <2>3. QED
    BY <1>0, <2>1, <2>2
<1>3. ASSUME NEW r \in todo, Lldp(r) \/ Stp(r) \/ Fdb(r) \/ ArpOnly(r)
      PROVE  MapInv'
  BY <1>0, <1>3, RowLooked
<1>4. CASE NextPass("neighbours", "fdb", {"FDB"}) \/ NextPass("fdb", "arp", {"ARP"}) \/ NextPass("arp", "prune", {})
  <2>1. phase # "idle" /\ UNCHANGED <<devices, neighbors, excluded, topoLinks>>
    BY <1>4 DEF NextPass
  <2>2. \A r \in neighbors : Had(r)' => Had(r)
    BY <1>4 DEF NextPass, Had
  <2>3. QED
    BY <1>0, <2>1, <2>2, Kept
<1>5. CASE PruneLinks
  <2> DEFINE kept == {l \in topoLinks : ~ \E d \in devices : d.id \in {l.a, l.b} /\ Excludes(d)}
  <2>1. phase # "idle" /\ UNCHANGED <<devices, neighbors, excluded>>
    BY <1>5 DEF PruneLinks
  <2>2. NoneExcluded
    BY <2>1 DEF Running
  <2>3. kept = topoLinks
    BY <2>2 DEF NoneExcluded
  <2>4. topoLinks' = topoLinks
    BY <1>5, <2>3 DEF PruneLinks
  <2>5. \A r \in neighbors : Had(r)' => Had(r)
    BY <1>5 DEF PruneLinks, Had
  <2>6. QED
    BY <1>0, <2>1, <2>4, <2>5, Kept
<1>6. CASE AgeLinks
  <2>1. phase # "idle" /\ UNCHANGED <<devices, neighbors, excluded>>
    BY <1>6 DEF AgeLinks
  <2>2. StatusOf(0) = "UP"
    BY DEF StatusOf
  <2>3. ASSUME NEW l \in topoLinks
        PROVE  \E k \in topoLinks' : Ended(l, k) /\ (Current(l) => Current(k))
    <3>1. Ended(l, [l EXCEPT !.status = StatusOf(l.age)])
          /\ (Current(l) => Current([l EXCEPT !.status = StatusOf(l.age)]))
      BY <2>2 DEF Ended, Current, MapBase, AreLinks, IsLink
    <3>2. QED
      BY <1>6, <3>1 DEF AgeLinks
  <2>4. Grows(topoLinks, topoLinks')
    BY <2>3 DEF Grows
  <2>5. \A r \in neighbors : Had(r)' => Had(r)
    BY <1>6 DEF AgeLinks, Had
  <2>6. QED
    BY <1>0, <2>1, <2>4, <2>5, Kept
<1>7. CASE Publish
  <2>1. phase # "idle" /\ UNCHANGED <<devices, neighbors, excluded>>
    BY <1>7 DEF Publish
  <2>2. Grows(topoLinks, topoLinks')
    BY <1>7, FlushedAre DEF Publish, MapBase
  <2>3. \A r \in neighbors : Had(r)' => Had(r)
    BY <1>7 DEF Publish, Had
  <2>4. QED
    BY <1>0, <2>1, <2>2, <2>3, Kept
<1>8. CASE UNCHANGED topoVars
  BY <1>0, <1>8 DEF topoVars, Running, NoneExcluded, Excludes, Had, Heard, Settled, Remote
<1>9. QED
  BY <1>1, <1>2, <1>3, <1>4, <1>5, <1>6, <1>7, <1>8 DEF TopologyNext

LEMMA MapAlways == TopologySpec => []MapInv
<1>1. QED
  BY MapInvInit, MapInvStep, PTL DEF TopologySpec

(* What is stored of a device goes with the device, whatever the hosts answer and  *)
(* whenever the passes, the deletions and the scans come.                         *)
THEOREM TopologyTypes == TopologySpec => []TopologyTypeOK
<1>1. MapInv => TopologyTypeOK
  BY DEF MapInv, MapBase, AreDevices, IsDevice, AreLinks, IsLink, Idents, Phases, TopologyTypeOK
<1>2. QED
  BY <1>1, MapAlways, PTL

(* Once a recomputation has committed, no device is the server itself, and every   *)
(* neighbour that LLDP reports by a known chassis id is on an UP link: for any      *)
(* hosts, any number of recomputations and any order of their rows.                *)
THEOREM CommittedMap == TopologySpec => []CommittedMapHolds
<1>1. MapInv => CommittedMapHolds
  <2> SUFFICES ASSUME MapInv, phase = "idle", calm > 0
               PROVE  /\ \A d \in devices : ~ Excludes(d)
                      /\ \A r \in neighbors : r.kind = "LLDP" /\ Settled(r) /\ Remote(r) # {} =>
                           \E d \in Remote(r) : d.id = r.local \/ UpLink(r.local, d.id)
    BY DEF CommittedMapHolds, NoExcludedLeft, NeighbourIsUp
  <2>1. NoneExcluded /\ \A r \in neighbors : Had(r) => Heard(r)
    BY DEF MapInv, Running
  <2>2. \A i, j : CurrentLink(topoLinks, i, j) => UpLink(i, j)
    BY DEF CurrentLink, UpLink, Current
  <2>3. \A r \in neighbors : r.kind = "LLDP" => Heard(r)
    BY <2>1 DEF Had
  <2>4. QED
    BY <2>1, <2>2, <2>3 DEF NoneExcluded, Heard
<1>2. QED
  BY <1>1, MapAlways, PTL

-----------------------------------------------------------------------------
(* Roles. *)

EndRoles == {"ENDPOINT", "SERVER"}
EndTypes == {"LINUX_PC", "WINDOWS_PC", "MAC_PC", "IP_CAMERA"}

-----------------------------------------------------------------------------
(* The numbers a score is made of are integers: what MaxDegree picks exists.    *)

LEMMA DegreesAreNumbers ==
    ASSUME live \subseteq Wires, NEW d, NEW S
    PROVE  /\ Degree(d) \in Nat /\ Degree(d) <= Cardinality(Wires)
           /\ Neighbours(d, S) \in Nat /\ Cardinality(Wires) \in Nat
<1>1. \A T \in SUBSET Wires : Cardinality(T) \in Nat /\ Cardinality(T) <= Cardinality(Wires)
  BY RolesAssumption, FS_CardinalityType, FS_Subset
<1>2. LinksOf(d) \in SUBSET Wires /\ {w \in LinksOf(d) : Other(w, d) \in S} \in SUBSET Wires
  BY DEF LinksOf
<1>3. Cardinality(Wires) \in Nat
  BY RolesAssumption, FS_CardinalityType
<1> QED
  BY <1>1, <1>2, <1>3 DEF Degree, Neighbours

LEMMA MaxDegreeIsNumber ==
    ASSUME live \subseteq Wires
    PROVE  MaxDegree \in Nat /\ MaxDegree >= 1
<1> DEFINE S == {1} \cup {Degree(d) : d \in Nodes}
<1>1. S \in SUBSET Nat /\ 1 \in S /\ Cardinality(Wires) \in Nat
  BY DegreesAreNumbers
<1>2. \A n \in S : n <= Cardinality(Wires) + 1
  <2>1. \A d : Degree(d) \in Nat /\ Degree(d) <= Cardinality(Wires)
    BY DegreesAreNumbers
  <2> QED
    BY <1>1, <2>1
<1> HIDE DEF S
<1>3. Max(S) \in S /\ \A n \in S : Max(S) >= n
  <2>1. Cardinality(Wires) + 1 \in Nat
    BY <1>1
  <2> QED
    BY <1>1, <1>2, <2>1, GreatestOne
<1>4. Max(S) \in Nat /\ Max(S) >= 1
  BY <1>1, <1>3
<1> QED
  BY <1>4 DEF MaxDegree, S

LEMMA RoundIsNumber ==
    ASSUME NEW n \in Nat, NEW m \in Nat, m >= 1
    PROVE  Round(n, m) \in Int
<1>1. n \div m \in Int
  BY SMT
<1> QED
  BY <1>1 DEF Round

LEMMA CoreTotalIsNumber ==
    ASSUME kit \in Kits, live \subseteq Wires, NEW d \in Nodes
    PROVE  CoreTotal(d) \in Int /\ (~ kit[d].layer3 => CoreTotal(d) < CoreScore)
<1>1. /\ kit[d].vlans \in Nat /\ kit[d].routes \in Nat /\ kit[d].trunks \in Nat
      /\ kit[d].depth \in Nat /\ CoreScore \in Nat
  BY RolesAssumption DEF Nodes
<1>2. SwitchNeighbours(d) \in Nat /\ Degree(d) \in Nat
  BY DegreesAreNumbers DEF SwitchNeighbours
<1>3. Round(3 * Degree(d), 2) \in Int /\ Round(10 * Degree(d), MaxDegree) \in Int
  <2>1. 3 * Degree(d) \in Nat /\ 10 * Degree(d) \in Nat
    BY <1>2
  <2> QED
    BY <2>1, RoundIsNumber, MaxDegreeIsNumber
<1>4. kit[d].vlans \div 4 \in Int
  BY <1>1
<1>5. ASSUME NEW a \in Int, NEW b \in Int
      PROVE  AtMost(a, b) \in Int /\ AtMost(a, b) <= a
  BY DEF AtMost
<1> DEFINE total == (IF kit[d].layer3 THEN 20 ELSE 0) + AtMost(20, 3 * SwitchNeighbours(d))
               + AtMost(15, Round(3 * Degree(d), 2)) + AtMost(10, kit[d].vlans \div 4)
               + AtMost(10, 2 * kit[d].routes) + AtMost(10, 2 * kit[d].trunks)
               + AtMost(10, Round(10 * Degree(d), MaxDegree)) + AtMost(5, AtLeast(0, 6 - kit[d].depth))
<1>6. total \in Int
  <2>1. /\ AtMost(20, 3 * SwitchNeighbours(d)) \in Int
        /\ AtMost(15, Round(3 * Degree(d), 2)) \in Int /\ AtMost(10, kit[d].vlans \div 4) \in Int
    <3>1. 3 * SwitchNeighbours(d) \in Int
      BY <1>2
    <3> QED
      BY <3>1, <1>3, <1>4 DEF AtMost
  <2>2. /\ AtMost(10, 2 * kit[d].routes) \in Int /\ AtMost(10, 2 * kit[d].trunks) \in Int
        /\ AtMost(10, Round(10 * Degree(d), MaxDegree)) \in Int
        /\ AtMost(5, AtLeast(0, 6 - kit[d].depth)) \in Int
    <3>1. 2 * kit[d].routes \in Int /\ 2 * kit[d].trunks \in Int /\ 6 - kit[d].depth \in Int
      BY <1>1
    <3>2. AtLeast(0, 6 - kit[d].depth) \in Int
      BY <3>1 DEF AtLeast
    <3> QED
      BY <3>1, <3>2, <1>3 DEF AtMost
  <2> QED
    BY <2>1, <2>2
<1>7. CoreTotal(d) = IF kit[d].layer3 THEN total ELSE AtMost(CoreScore - 1, total)
  BY DEF CoreTotal
<1> HIDE DEF total
<1>8. AtMost(CoreScore - 1, total) \in Int /\ AtMost(CoreScore - 1, total) <= CoreScore - 1
  <2>1. CoreScore - 1 \in Int
    BY <1>1
  <2> QED
    BY <2>1, <1>5, <1>6
<1> QED
  BY <1>1, <1>6, <1>7, <1>8

-----------------------------------------------------------------------------
(* The role of a device that a pass classifies.                                 *)

\* The pass gives an endpoint's role to the devices of an endpoint's type alone.
LEMMA EndRoleOfType ==
  ASSUME NEW d, NEW C
  PROVE  RoleOf(d, C) \in EndRoles <=> kit[d].type \in EndTypes
BY DEF RoleOf, EndRoles, EndTypes, InfrastructureTypes, SwitchTypes

\* It gives the core role exactly to those that the provisional pass took for core.
LEMMA CoreRoleOfScore ==
  ASSUME kit \in Kits, live \subseteq Wires, NEW d \in Nodes, NEW C
  PROVE  RoleOf(d, C) = "CORE_SWITCH"
           <=> kit[d].type \in InfrastructureTypes /\ CoreTotal(d) >= CoreScore
<1>1. CoreTotal(d) \in Int /\ CoreScore \in Int
  BY CoreTotalIsNumber, RolesAssumption
<1> QED
  BY <1>1 DEF RoleOf, InfrastructureTypes, SwitchTypes

LEMMA RoleOfIsRole ==
  ASSUME NEW d, NEW C
  PROVE  RoleOf(d, C) \in DeviceRoles
BY DEF RoleOf, DeviceRoles, InfrastructureTypes, SwitchTypes

-----------------------------------------------------------------------------
(* Types.                                                                       *)

LEMMA RolesTypesInit == RolesInit => RolesTypeOK
BY DEF RolesInit, RolesTypeOK, DeviceRoles

LEMMA RolesTypesStep ==
  ASSUME RolesTypeOK, [RolesNext]_roleVars
  PROVE  RolesTypeOK'
<1>1. CASE RolePass
  <2>1. \A d \in Nodes : RoleOf(d, Cores) \in DeviceRoles
    BY RoleOfIsRole
  <2>2. role' \in [Nodes -> DeviceRoles]
    BY <1>1, <2>1 DEF RolePass, RolesTypeOK
  <2>3. logged' \in [Nodes -> DeviceRoles]
    BY <1>1, <2>2 DEF RolePass, RolesTypeOK
  <2>4. kit' = kit /\ live' = live /\ manual' = manual /\ passes' \in 0..2
    BY <1>1 DEF RolePass, RolesTypeOK, AtMost
  <2> QED
    BY <2>2, <2>3, <2>4 DEF RolesTypeOK, Nodes
<1>2. ASSUME NEW d \in Nodes, NEW r \in ManualRoles, SetRole(d, r)
      PROVE  RolesTypeOK'
  BY <1>2, RolesAssumption DEF SetRole, RolesTypeOK, Nodes
<1>3. ASSUME NEW w \in Wires, Rewire(w)
      PROVE  RolesTypeOK'
  BY <1>3 DEF Rewire, RolesTypeOK, Nodes
<1>4. ASSUME NEW k \in Kits, Rekit(k)
      PROVE  RolesTypeOK'
  BY <1>4 DEF Rekit, RolesTypeOK, Nodes
<1>5. CASE UNCHANGED roleVars
  BY <1>5 DEF roleVars, RolesTypeOK, Nodes
<1> QED
  BY <1>1, <1>2, <1>3, <1>4, <1>5 DEF RolesNext

-----------------------------------------------------------------------------
(* The pass over a network that has not changed.                                *)

\* What a role depends on: the role a pass gives is the same as long as the same
\* devices are endpoints and the same are core.
LEMMA RoleOfDepends ==
  ASSUME kit' = kit, live' = live,
         {e \in Nodes : role'[e] \in EndRoles} = {e \in Nodes : role[e] \in EndRoles},
         NEW d, NEW C
  PROVE  RoleOf(d, C)' = RoleOf(d, C)
<1>1. EndpointDensity(d)' = EndpointDensity(d)
  BY DEF EndpointDensity, Neighbours, LinksOf, Nodes, EndRoles
<1>2. /\ Degree(d)' = Degree(d) /\ MaxDegree' = MaxDegree /\ SwitchNeighbours(d)' = SwitchNeighbours(d)
      /\ Parents(d)' = Parents(d) /\ Downstream(d)' = Downstream(d) /\ LinksOf(d)' = LinksOf(d)
  BY DEF Degree, MaxDegree, SwitchNeighbours, Parents, Downstream, Neighbours, LinksOf, Switches,
         IsSwitch, Nodes
<1>3. CoreTotal(d)' = CoreTotal(d)
  BY <1>2 DEF CoreTotal
<1>4. DistributionTotal(d, C)' = DistributionTotal(d, C)
  BY <1>2 DEF DistributionTotal
<1>5. FloorTotal(d)' = FloorTotal(d)
  BY <1>1, <1>2 DEF FloorTotal
<1> QED
  BY <1>3, <1>4, <1>5 DEF RoleOf

LEMMA CoreTotalDepends ==
  ASSUME kit' = kit, live' = live, NEW d
  PROVE  CoreTotal(d)' = CoreTotal(d)
BY DEF CoreTotal, Degree, MaxDegree, SwitchNeighbours, Neighbours, LinksOf, Switches, IsSwitch, Nodes

LEMMA CoresStay ==
  ASSUME RolesTypeOK, RolePass
  PROVE  Cores' = Cores
<1>1. kit' = kit /\ live' = live /\ manual' = manual /\ Nodes' = Nodes
  BY DEF RolePass, Nodes
<1>2. \A d \in manual : role'[d] = role[d]
  BY DEF RolePass, RolesTypeOK
<1>3. \A d : CoreTotal(d)' = CoreTotal(d)
  BY <1>1, CoreTotalDepends
<1> QED
  BY <1>1, <1>2, <1>3 DEF Cores

-----------------------------------------------------------------------------
(* The invariant. After one pass the endpoints are those by type, after two the *)
(* roles are what another pass would make them.                                 *)

EndsByType == \A d \in Nodes \ manual : role[d] \in EndRoles <=> kit[d].type \in EndTypes
AtRest == \A d \in Nodes \ manual : role[d] = RoleOf(d, Cores)

RolesInv == /\ RolesTypeOK /\ RoleLogComplete /\ CoreHasLayer3
            /\ passes > 0 => EndsByType
            /\ passes = 2 => AtRest

LEMMA PassGives ==
  ASSUME RolesTypeOK, RolePass
  PROVE  /\ \A d \in manual : role'[d] = role[d]
         /\ \A d \in Nodes \ manual : role'[d] = RoleOf(d, Cores)
         /\ kit' = kit /\ live' = live /\ manual' = manual /\ Nodes' = Nodes
BY DEF RolePass, RolesTypeOK, Nodes

LEMMA PassRests ==
  ASSUME RolesTypeOK, RolePass, EndsByType
  PROVE  AtRest'
<1>1. {e \in Nodes : role'[e] \in EndRoles} = {e \in Nodes : role[e] \in EndRoles}
  <2>1. \A e \in Nodes : role'[e] \in EndRoles <=> role[e] \in EndRoles
    BY PassGives, EndRoleOfType DEF EndsByType
  <2> QED
    BY <2>1
<1>2. \A d : RoleOf(d, Cores)' = RoleOf(d, Cores)
  <2> SUFFICES ASSUME NEW d PROVE RoleOf(d, Cores)' = RoleOf(d, Cores)
    OBVIOUS
  <2> DEFINE C == Cores
  <2>1. C' = C
    BY CoresStay
  <2>2. kit' = kit /\ live' = live
    BY PassGives
  <2>3. EndpointDensity(d)' = EndpointDensity(d)
    BY <1>1, <2>2 DEF EndpointDensity, Neighbours, LinksOf, Nodes, EndRoles
  <2>4. /\ Parents(d)' = Parents(d) /\ Downstream(d)' = Downstream(d) /\ LinksOf(d)' = LinksOf(d)
    BY <2>2 DEF Parents, Downstream, Neighbours, LinksOf, Switches, IsSwitch, Nodes
  <2>5. CoreTotal(d)' = CoreTotal(d)
    BY <2>2, CoreTotalDepends
  <2>6. DistributionTotal(d, Cores)' = DistributionTotal(d, Cores)
    BY <2>1, <2>2, <2>4 DEF DistributionTotal
  <2>7. FloorTotal(d)' = FloorTotal(d)
    BY <2>2, <2>3, <2>4 DEF FloorTotal
  <2> QED
    BY <2>2, <2>5, <2>6, <2>7 DEF RoleOf
<1> QED
  BY <1>2, PassGives DEF AtRest

LEMMA RolesInvPass ==
  ASSUME RolesInv, RolePass, RolesTypeOK'
  PROVE  RolesInv'
<1>1. RolesTypeOK
  BY DEF RolesInv
<1>2. RoleLogComplete'
  BY DEF RolesInv, RoleLogComplete, RolePass, RolesTypeOK
<1>3. CoreHasLayer3'
  <2> SUFFICES ASSUME NEW d \in Nodes \ manual, role'[d] = "CORE_SWITCH"
               PROVE  kit[d].layer3
    BY <1>1, PassGives DEF CoreHasLayer3
  <2>1. RoleOf(d, Cores) = "CORE_SWITCH"
    BY <1>1, PassGives
  <2>2. CoreTotal(d) >= CoreScore
    BY <1>1, <2>1, CoreRoleOfScore DEF RolesTypeOK
  <2>3. CoreTotal(d) \in Int /\ (~ kit[d].layer3 => CoreTotal(d) < CoreScore)
    BY <1>1, CoreTotalIsNumber DEF RolesTypeOK
  <2> QED
    BY <2>2, <2>3, RolesAssumption
<1>4. EndsByType'
  BY <1>1, PassGives, EndRoleOfType DEF EndsByType
<1>5. passes' = 2 => AtRest'
  <2>1. passes' = 2 => passes > 0
    BY DEF RolePass, AtMost, RolesTypeOK, RolesInv
  <2> QED
    BY <2>1, <1>1, PassRests DEF RolesInv
<1> QED
  BY <1>2, <1>3, <1>4, <1>5 DEF RolesInv

LEMMA RolesInvStep == RolesInv /\ [RolesNext]_roleVars => RolesInv'
<1> SUFFICES ASSUME RolesInv, [RolesNext]_roleVars PROVE RolesInv'
  OBVIOUS
<1>1. RolesTypeOK'
  BY RolesTypesStep DEF RolesInv
<1>2. CASE RolePass
  BY <1>1, <1>2, RolesInvPass
<1>3. CASE passes' = 0 /\ RoleLogComplete'
  BY <1>1, <1>3 DEF RolesInv, CoreHasLayer3
<1>4. ASSUME NEW d \in Nodes, NEW r \in ManualRoles, SetRole(d, r)
      PROVE  passes' = 0 /\ RoleLogComplete'
  BY <1>4 DEF SetRole, RolesInv, RoleLogComplete, RolesTypeOK
<1>5. ASSUME NEW w \in Wires, Rewire(w)
      PROVE  passes' = 0 /\ RoleLogComplete'
  BY <1>5 DEF Rewire, RolesInv, RoleLogComplete
<1>6. ASSUME NEW k \in Kits, Rekit(k)
      PROVE  passes' = 0 /\ RoleLogComplete'
  BY <1>6 DEF Rekit, RolesInv, RoleLogComplete
<1>7. CASE UNCHANGED roleVars
  <2>1. kit' = kit /\ live' = live /\ role' = role /\ manual' = manual /\ logged' = logged /\ passes' = passes
    BY <1>7 DEF roleVars
  <2>2. RoleLogComplete' /\ CoreHasLayer3' /\ EndsByType' = EndsByType
    BY <2>1 DEF RolesInv, RoleLogComplete, CoreHasLayer3, EndsByType, Nodes
  <2>3. AtRest' = AtRest
    <3>1. \A d : CoreTotal(d)' = CoreTotal(d)
      BY <2>1, CoreTotalDepends
    <3>2. Cores' = Cores
      BY <2>1, <3>1 DEF Cores, Nodes
    <3>3. \A d, C : RoleOf(d, C)' = RoleOf(d, C)
      BY <2>1, RoleOfDepends DEF Nodes
    <3>4. \A d : RoleOf(d, Cores)' = RoleOf(d, Cores)
      BY <2>1, <3>2 DEF RoleOf
    <3> QED
      BY <2>1, <3>4 DEF AtRest, Nodes
  <2> QED
    BY <1>1, <2>1, <2>2, <2>3 DEF RolesInv
<1> QED
  BY <1>2, <1>3, <1>4, <1>5, <1>6, <1>7 DEF RolesNext

LEMMA RolesInvariant == RolesSpec => []RolesInv
<1>1. RolesInit => RolesInv
  BY RolesTypesInit DEF RolesInit, RolesInv, RoleLogComplete, CoreHasLayer3
<1> QED
  BY <1>1, RolesInvStep, PTL DEF RolesSpec

-----------------------------------------------------------------------------
(* What a step may never do.                                                    *)

LEMMA SettleStep ==
  RolesInv /\ [RolesNext]_roleVars => [passes = 2 /\ role' # role => passes' = 0]_roleVars
<1> SUFFICES ASSUME RolesInv, RolesNext, passes = 2, role' # role PROVE passes' = 0
  OBVIOUS
<1>1. CASE RolePass
  <2>1. \A d \in Nodes : role'[d] = role[d]
    BY <1>1, PassGives DEF RolesInv, AtRest
  <2> QED
    BY <1>1, <2>1 DEF RolesInv, RolesTypeOK, RolePass
<1> QED
  BY <1>1 DEF RolesNext, SetRole, Rewire, Rekit

LEMMA ManualStep ==
  RolesInv /\ [RolesNext]_roleVars =>
    [\A d \in manual : role'[d] # role[d] => \E r \in ManualRoles : SetRole(d, r)]_roleVars
<1> SUFFICES ASSUME RolesInv, RolesNext, NEW d \in manual, role'[d] # role[d]
             PROVE  \E r \in ManualRoles : SetRole(d, r)
  OBVIOUS
<1>1. ~ RolePass
  BY PassGives DEF RolesInv
<1>2. ASSUME NEW e \in Nodes, NEW r \in ManualRoles, SetRole(e, r)
      PROVE  e = d
  BY <1>2 DEF SetRole, RolesInv, RolesTypeOK
<1> QED
  BY <1>1, <1>2 DEF RolesNext, Rewire, Rekit

LEMMA ProvisionalStep ==
  RolesInv /\ [RolesNext]_roleVars =>
    [passes' > 0 => Cores = {d \in Nodes : role'[d] = "CORE_SWITCH"}]_roleVars
<1> SUFFICES ASSUME RolesInv, RolesNext, passes' > 0
             PROVE  Cores = {d \in Nodes : role'[d] = "CORE_SWITCH"}
  OBVIOUS
<1>1. RolePass
  BY DEF RolesNext, SetRole, Rewire, Rekit
<1>2. \A d \in Nodes \ manual :
        role'[d] = "CORE_SWITCH" <=> kit[d].type \in InfrastructureTypes /\ CoreTotal(d) >= CoreScore
  BY <1>1, PassGives, CoreRoleOfScore DEF RolesInv, RolesTypeOK
<1>3. \A d \in manual : role'[d] = role[d]
  BY <1>1, PassGives DEF RolesInv
<1>4. manual \subseteq Nodes
  BY DEF RolesInv, RolesTypeOK
<1> QED
  BY <1>2, <1>3, <1>4 DEF Cores

\* The roles of topology/engine.py, for every network and every choice of the
\* operator: they rest after two passes, provisional and final cores agree, manual
\* roles stay, no layer-2 device is core by its score, and the log is complete.
THEOREM RolesSound == RolesSpec => RolesAreSound
<1>1. RolesInv => CoreHasLayer3 /\ RoleLogComplete
  BY DEF RolesInv
<1> QED
  BY <1>1, RolesInvariant, SettleStep, ManualStep, ProvisionalStep, PTL
  DEF RolesSpec, RolesAreSound, RolesSettle, ManualKept, ProvisionalIsFinal

-----------------------------------------------------------------------------
(* MCTopology: the types of all parts. Those of the race hold over any cables,   *)
(* where a session may merge rows of several of them.                            *)

RowTyped(r) == /\ DOMAIN r = Columns
               /\ r.id \in Ids /\ r.source \in DOMAIN Confidence /\ r.conf \in 0..Sure
RaceTyped ==
    /\ \A r \in rows : RowTyped(r)
    /\ cand = [t \in Sessions |-> cand[t]]
    /\ \A t \in Sessions : \A c \in cand[t] : RowTyped(c)
    /\ mine \in [Sessions -> contested \cup {NoObservation}]
    /\ step \in [Sessions -> {"idle", "read", "rolled back"}]
    /\ \A t \in Sessions : step[t] = "read" => mine[t] \in contested
    /\ \A o \in contested : o.source \in DOMAIN Confidence

LEMMA RaisedTyped ==
  ASSUME NEW l, RowTyped(l), NEW m, m.conf \in 0..Sure, m.source \in DOMAIN Confidence
  PROVE  RowTyped(Raise(l, m)) /\ Raise(l, m).id = l.id
BY DEF Raise, RowTyped, Columns

LEMMA MergedTyped ==
  ASSUME NEW S, S # {}, \A l \in S : RowTyped(l), NEW o, o.source \in DOMAIN Confidence
  PROVE  RowTyped(Merged(S, o)) /\ Merged(S, o).id = Oldest(S).id
<1> DEFINE m == [conf |-> Confidence[o.source], source |-> o.source]
           seen == Raise(Oldest(S), m)
           top == Raise(seen, Best(S))
           new == [top EXCEPT !.src = Src(S, o), !.dst = Dst(S, o), !.age = 0, !.status = "UP"]
<1>1. \A l \in S : l.id \in Nat /\ l.conf \in 0..Sure
  BY IdsAre DEF RowTyped
<1>2. Oldest(S) \in S /\ Best(S) \in S
  BY <1>1, OldestRow, BestRow
<1>3. m.conf \in 0..Sure /\ m.source \in DOMAIN Confidence
  BY ConfidenceAssumption
<1> HIDE DEF m
<1>4. RowTyped(seen) /\ seen.id = Oldest(S).id
  BY <1>2, <1>3, RaisedTyped
<1> HIDE DEF seen
<1>5. RowTyped(top) /\ top.id = seen.id
  BY <1>2, <1>4, RaisedTyped DEF RowTyped
<1> HIDE DEF top
<1>6. RowTyped(new) /\ new.id = top.id
  BY <1>5 DEF RowTyped, Columns
<1>7. Merged(S, o) = new
  BY DEF Merged, new, top, seen, m
<1>8. QED
  BY <1>4, <1>5, <1>6, <1>7

LEMMA PatchTyped ==
  ASSUME NEW r, RowTyped(r), NEW old, NEW new, RowTyped(new), new.id = old.id
  PROVE  RowTyped(Patch(r, old, new))
BY DEF RowTyped, Patch, Columns

LEMMA RowIsTyped ==
  ASSUME NEW i \in Ids, NEW o, o.source \in DOMAIN Confidence
  PROVE  RowTyped(Row(i, o))
BY ConfidenceAssumption DEF RowTyped, Row, Columns

LEMMA RaceTypedInit == RaceInit => RaceTyped
<1> SUFFICES ASSUME RaceInit PROVE RaceTyped
  OBVIOUS
<1>1. \A o \in contested : o.source \in DOMAIN Confidence
  BY RacesAssumption DEF RaceInit
<1>2. QED
  BY <1>1 DEF RaceInit, RaceTyped

LEMMA FlushTyped ==
  ASSUME RaceTyped, NEW t \in Sessions, Flush(t)
  PROVE  RaceTyped'
<1>1. mine[t].source \in DOMAIN Confidence
  BY DEF Flush, RaceTyped
<1>2. \A r \in rows' : RowTyped(r)
  <2>1. ASSUME NEW i \in Ids, rows' = rows \cup {Row(i, mine[t])}
        PROVE  \A r \in rows' : RowTyped(r)
    BY <1>1, <2>1, RowIsTyped DEF RaceTyped
  <2>2. ASSUME NEW r \in Stored(t), cand[t] # {},
               rows' = {k \in rows : \A c \in cand[t] : c.id # k.id}
                       \cup {Patch(r, Oldest(cand[t]), Merged(cand[t], mine[t]))}
        PROVE  \A k \in rows' : RowTyped(k)
    <3>1. RowTyped(Merged(cand[t], mine[t])) /\ Merged(cand[t], mine[t]).id = Oldest(cand[t]).id
      BY <1>1, <2>2, MergedTyped DEF RaceTyped
    <3>2. RowTyped(Patch(r, Oldest(cand[t]), Merged(cand[t], mine[t])))
      BY <3>1, PatchTyped DEF Stored, RaceTyped
    <3>3. QED
      BY <2>2, <3>2 DEF RaceTyped
  <2>3. CASE rows' = rows
    BY <2>3 DEF RaceTyped
  <2>4. QED
    BY <2>1, <2>2, <2>3 DEF Flush, InsertRow, Update
<1>3. cand' = [u \in Sessions |-> cand'[u]] /\ \A u \in Sessions : \A c \in cand'[u] : RowTyped(c)
  BY DEF Flush, RaceTyped
<1>4. mine' \in [Sessions -> contested' \cup {NoObservation}]
  BY DEF Flush, RaceTyped
<1>5. /\ step' \in [Sessions -> {"idle", "read", "rolled back"}]
      /\ \A u \in Sessions : step'[u] = "read" => mine'[u] \in contested'
  BY DEF Flush, RaceTyped
<1>6. QED
  BY <1>2, <1>3, <1>4, <1>5 DEF RaceTyped, Flush

LEMMA ReadTyped ==
  ASSUME RaceTyped, NEW t \in Sessions, NEW o \in contested, Read(t, o)
  PROVE  RaceTyped'
<1>1. cand' = [u \in Sessions |-> cand'[u]] /\ \A u \in Sessions : \A c \in cand'[u] : RowTyped(c)
  BY DEF Read, RaceTyped
<1>2. mine' \in [Sessions -> contested' \cup {NoObservation}]
  BY DEF Read, RaceTyped
<1>3. /\ step' \in [Sessions -> {"idle", "read", "rolled back"}]
      /\ \A u \in Sessions : step'[u] = "read" => mine'[u] \in contested'
  BY DEF Read, RaceTyped
<1>4. QED
  BY <1>1, <1>2, <1>3 DEF RaceTyped, Read

LEMMA RaceTypedStep == RaceTyped /\ [RaceNext]_raceVars => RaceTyped'
<1> SUFFICES ASSUME RaceTyped, [RaceNext]_raceVars PROVE RaceTyped'
  OBVIOUS
<1>1. CASE UNCHANGED raceVars
  BY <1>1 DEF raceVars, RaceTyped
<1>2. ASSUME NEW r \in rows, DeleteRow(r) PROVE RaceTyped'
  BY <1>2 DEF DeleteRow, RaceTyped
<1>3. QED
  BY <1>1, <1>2, FlushTyped, ReadTyped DEF RaceNext

(* A behaviour of the composition is a behaviour of each part: what is proved of   *)
(* the parts holds of what the run topology checks.                                *)
LEMMA PartsRun == Spec => /\ LinkSpec /\ TopologySpec /\ RolesSpec
                          /\ RaceInit /\ [][RaceNext]_raceVars
<1>1. Init => LinkInit /\ TopologyInit /\ RolesInit /\ RaceInit
  BY DEF Init
<1>2. [Next]_vars => /\ [LinkNext]_linkVars /\ [TopologyNext]_topoVars
                     /\ [RolesNext]_roleVars /\ [RaceNext]_raceVars
  BY DEF Next, vars
<1>3. QED
  BY <1>1, <1>2, PTL DEF Spec, LinkSpec, TopologySpec, RolesSpec

(* The types of the topology's parts in one behaviour: links, evidence and labels, *)
(* the rows that sessions race for, what is stored of a device, roles and metrics. *)
THEOREM TopologyPartsTyped == Spec => []TypeOK
<1>1. RaceTyped => RaceTypeOK
  BY DEF RaceTyped, RowTyped, RaceTypeOK
<1>2. RaceInit /\ [][RaceNext]_raceVars => []RaceTyped
  BY RaceTypedInit, RaceTypedStep, PTL
<1>3. LinkSpec => []LinkTypeOK
  BY LinkAlways, PTL DEF LinkInv
<1>4. RolesSpec => []RolesTypeOK
  BY RolesInvariant, PTL DEF RolesInv
<1>5. QED
  BY <1>1, <1>2, <1>3, <1>4, PartsRun, TopologyTypes, PTL DEF TypeOK
===============================================================================
