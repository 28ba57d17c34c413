----------------------------- MODULE LinkTable ------------------------------
(* The network_link rows of one pair of devices and their evidence, through  *)
(* the recomputations of the topology, the operator's own links and the       *)
(* passing of time, one transaction after the other.                          *)
EXTENDS LinkRows, FiniteSets

CONSTANTS SrcPorts, DstPorts,  \* interfaces of the two devices
          Cables,              \* the cables between them, as pairs of ports
          Networks,            \* sets of neighbour rows that the devices may report
          Labels, NoLabel      \* what operators write on a link

(* The pass of recompute_topology_and_roles that makes an observation: LLDP   *)
(* (1) and STP (2) rows of the device with the smaller id, those of the other *)
(* device (3, 4), FDB (5), ARP (6); 0 is the operator.                        *)
Passes == 0..6
Reports == [src : SrcPorts \cup {NoPort}, dst : DstPorts \cup {NoPort},
            source : DOMAIN Confidence, pass : Passes]

ASSUME PortsAssumption == NoPort \notin SrcPorts \cup DstPorts /\ NoLabel \notin Labels

(* A port of the device with the smaller id has one cable at most, and a row   *)
(* that names both ports names two ends of one cable.                         *)
ASSUME CablesAssumption == \A c, d \in Cables : c[1] = d[1] => c = d
ASSUME NetworksAssumption ==
  /\ Networks \subseteq SUBSET Reports
  /\ \A N \in Networks : \A o \in N : o.src # NoPort /\ o.dst # NoPort => <<o.src, o.dst>> \in Cables

ASSUME ConfidenceAssumption == /\ Confidence \in [DOMAIN Confidence -> 0..Sure]
                               /\ "MANUAL" \in DOMAIN Confidence

VARIABLES links,    \* the rows
          saved,    \* evidence in the database: <<id of the link, observation>>
          pending,  \* evidence added to the session and not yet flushed
          heard,    \* what the open recomputation has observed so far
          reports   \* the neighbour rows of this network (fixed)

linkVars == <<links, saved, pending, heard, reports>>

Link == [id : Ids, src : SrcPorts \cup {NoPort}, dst : DstPorts \cup {NoPort},
         source : DOMAIN Confidence, conf : 0..Sure, label : Labels \cup {NoLabel},
         age : 0..2, status : {"UP", "STALE", "DOWN"}]

LinkTypeOK == /\ links \subseteq Link
              /\ saved \subseteq Ids \X Reports
              /\ pending \subseteq Ids \X Reports
              /\ reports \in Networks
              /\ heard \subseteq reports

LinkInit == links = {} /\ saved = {} /\ pending = {} /\ heard = {} /\ reports \in Networks

-----------------------------------------------------------------------------
(* Row ids grow; a new row takes the next one. *)
Fresh(i) == /\ i \in Ids
            /\ \A l \in links : l.id < i
            /\ \A j \in Ids : (\A l \in links : l.id < j) => i <= j

New(i, o) == [id |-> i, src |-> o.src, dst |-> o.dst, source |-> o.source,
              conf |-> Confidence[o.source], label |-> NoLabel, age |-> 0, status |-> "UP"]

\* mutant: only a row with the same two ports is reused
MatchesExact(o) == {l \in links : l.src = o.src /\ l.dst = o.dst}

Matches(o) == {l \in links : Compatible(l, o)}
Duplicates(o) == Matches(o) \ {Oldest(Matches(o))}
DuplicateIds(o) == {l.id : l \in Duplicates(o)}

\* mutant: the evidence stays with the deleted duplicates
MovedNot(E, o) == E

(* The evidence of the duplicates moves to the link that replaces them. *)
Moved(E, o) ==
  {<<IF e[1] \in DuplicateIds(o) THEN Oldest(Matches(o)).id ELSE e[1], e[2]>> : e \in E}

(* No row fits the observation: insert one and flush, which also writes the   *)
(* evidence added so far; the row's own evidence waits for the next flush.    *)
Insert(i, o, both) ==
  /\ Matches(o) = {}
  /\ Fresh(i)
  /\ links' = links \cup {Reciprocal(New(i, o), both)}
  /\ saved' = saved \cup pending
  /\ pending' = {<<i, o>>}

\* mutant: a row that is reused gets no evidence
AbsorbQuietly(o, both) ==
  LET row == Reciprocal(Merged(Matches(o), o), both)
  IN  /\ Matches(o) # {}
      /\ links' = (links \ Matches(o)) \cup {row}
      /\ saved' = Moved(saved, o) /\ pending' = pending

(* Rows fit: the oldest absorbs the others. Evidence rows in the database are *)
(* moved and the duplicates deleted in one flush. Evidence still in the       *)
(* session names the duplicate, is inserted by that flush, and the delete     *)
(* cascades over it.                                                          *)
Absorb(o, both) ==
  LET rep == Oldest(Matches(o))
      row == Reciprocal(Merged(Matches(o), o), both)
  IN  /\ Matches(o) # {}
      /\ links' = (links \ Matches(o)) \cup {row}
      /\ IF Duplicates(o) = {}
         THEN saved' = saved /\ pending' = pending \cup {<<rep.id, o>>}
         ELSE /\ saved' = Moved(saved, o)
                          \cup {e \in pending : e[1] \notin DuplicateIds(o)}
              /\ pending' = {<<rep.id, o>>}

(* One neighbour row of a recomputation, in the order of the passes and of     *)
(* the rows of a pass: every pass ends in this, with both set when the LLDP    *)
(* neighbour reports this device as well. The ARP pass skips a linked pair.    *)
Observe(o, both) ==
  /\ both => o.source \in {"LLDP", "CDP"}
  /\ \A p \in heard : p.pass <= o.pass
  /\ o.pass = 6 => links = {}
  /\ \/ \E i \in Ids : Insert(i, o, both)
     \/ Absorb(o, both)
  /\ heard' = heard \cup {o}
  /\ UNCHANGED reports

(* The end of a recomputation: liveness, then the commit. *)
Finish ==
  /\ links' = {[l EXCEPT !.status = StatusOf(l.age)] : l \in links}
  /\ saved' = saved \cup pending
  /\ pending' = {}
  /\ heard' = {}
  /\ UNCHANGED reports

(* POST /topology/links: an observation without ports, the operator's label   *)
(* on the row it ends in, and a commit, outside any recomputation.            *)
Manual == [src |-> NoPort, dst |-> NoPort, source |-> "MANUAL", pass |-> 0]

CreateManual(label) ==
  /\ heard = {} /\ pending = {}
  /\ \/ \E i \in Ids : /\ Matches(Manual) = {} /\ Fresh(i)
                       /\ links' = links \cup {[New(i, Manual) EXCEPT !.label = label]}
                       /\ saved' = saved \cup {<<i, Manual>>}
     \/ /\ Matches(Manual) # {}
        /\ links' = (links \ Matches(Manual))
                    \cup {[Merged(Matches(Manual), Manual) EXCEPT !.label = label]}
        /\ saved' = Moved(saved, Manual) \cup {<<Oldest(Matches(Manual)).id, Manual>>}
  /\ UNCHANGED <<pending, heard, reports>>

(* DELETE /topology/links/{id}: the row and its evidence. *)
DeleteLink(l) ==
  /\ heard = {} /\ pending = {}
  /\ links' = links \ {l}
  /\ saved' = {e \in saved : e[1] # l.id}
  /\ UNCHANGED <<pending, heard, reports>>

(* clear_all_links, a discovery started with reset_links. *)
Clear == /\ heard = {} /\ pending = {} /\ links # {}
         /\ links' = {} /\ saved' = {}
         /\ UNCHANGED <<pending, heard, reports>>

(* Time reaches the next threshold (stale, then down) for a row not seen. *)
Tick == /\ heard = {} /\ pending = {}
        /\ links' = {[l EXCEPT !.age = IF @ < 2 THEN @ + 1 ELSE 2] : l \in links}
        /\ UNCHANGED <<saved, pending, heard, reports>>

LinkNext == \/ \E o \in reports, both \in BOOLEAN : Observe(o, both)
            \/ Finish
            \/ \E label \in Labels : CreateManual(label)
            \/ \E l \in links : DeleteLink(l)
            \/ Clear
            \/ Tick

LinkSpec == LinkInit /\ [][LinkNext]_linkVars

-----------------------------------------------------------------------------
(* After any sequence of observations, links the operator adds or deletes and *)
(* ageing, no two rows of a pair could be the same cable: the duplicates that *)
(* _get_or_create_link collects are all gone once it returns.                 *)
NoTwoCompatible == \A l, k \in links : l # k => ~ Compatible(l, k)

(* Evidence never names a row that is gone, through merges and deletes.       *)
EvidenceHasLink == \A e \in saved \cup pending : \E l \in links : l.id = e[1]

(* A link reported DOWN has not been seen for the whole period: sightings and *)
(* the ageing pass of a recomputation agree on the status.                    *)
DownIsUnseen == \A l \in links : l.status = "DOWN" => l.age = 2

(* Merging keeps the row an operator labelled, with a label, whatever is      *)
(* observed of the pair afterwards; only a deletion removes it.               *)
LabelKept ==
  [][\A l \in links : l.label # NoLabel =>
       \/ \E k \in links' : k.id = l.id /\ k.label # NoLabel
       \/ DeleteLink(l) \/ Clear]_linkVars

(* What a surviving row knows is kept by every observation and merge: its     *)
(* ports once known, and a confidence that never drops.                       *)
RowsOnlyLearn ==
  [][\A l \in links, k \in links' : k.id = l.id =>
       /\ l.src # NoPort => k.src = l.src
       /\ l.dst # NoPort => k.dst = l.dst
       /\ k.conf >= l.conf]_linkVars

(* Every neighbour row names the port of the device with the smaller id, and  *)
(* no operator has added a link: what the two properties below rest on. With  *)
(* rows that name the other end only, or a link without ports, parallel       *)
(* cables are merged and joined crosswise (see the README).                   *)
Anchored == /\ \A o \in reports : o.src # NoPort
            /\ Manual \notin {e[2] : e \in saved}

(* The two ports of a link are the two ends of one cable: no link joins the   *)
(* port of one cable to the port of another.                                  *)
OnlyRealCables ==
  Anchored => \A l \in links : l.dst # NoPort => <<l.src, l.dst>> \in Cables

(* Every port a recomputation hears of is on a link when it commits: no cable *)
(* it has just observed is missing from the map.                              *)
ObservedPortsLinked ==
  [][heard # {} /\ heard' = {} /\ Anchored =>
       \A o \in heard : \E l \in links' : l.src = o.src /\ (o.dst # NoPort => l.dst = o.dst)]_linkVars

(* Every observation of a recomputation has its evidence row when it commits. *)
EvidenceAccumulates ==
  [][heard # {} /\ heard' = {} /\ Anchored => heard \subseteq {e[2] : e \in saved'}]_linkVars

(* What the rows and the evidence of a pair hold at any moment, in parts.      *)
LinksAreSound == NoTwoCompatible /\ EvidenceHasLink /\ DownIsUnseen /\ OnlyRealCables

(* What was observed or written by an operator is on the map at the commit and *)
(* stays there, in parts.                                                      *)
ObservationsKept == LabelKept /\ RowsOnlyLearn /\ ObservedPortsLinked /\ EvidenceAccumulates
=============================================================================
