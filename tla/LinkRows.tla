------------------------------ MODULE LinkRows ------------------------------
(* How one observation of a link between two devices meets the network_link *)
(* rows already stored for that pair (_get_or_create_link in                *)
(* topology/engine.py). The two devices are fixed and the row is normalised *)
(* (src id < dst id), so a row is told apart by its two ports. A row is a   *)
(* record with at least the fields id, src, dst, source, conf, age, status; *)
(* an observation has src, dst and source.                                  *)
EXTENDS Naturals

CONSTANTS NoPort,      \* an interface id that is not known (NULL)
          Confidence,  \* the confidence each evidence type carries
          MaxId        \* bound: the largest row id

ASSUME MaxIdAssumption == MaxId \in Nat

Ids == 1..MaxId

Sure == 100                    \* CONFIDENCE_LLDP_FDB: both sides report LLDP

\* mutant: one link per pair of devices
CompatibleAny(l, o) == TRUE

\* mutant: one end that does not contradict is enough
CompatibleOneEnd(l, o) == \/ l.src = NoPort \/ o.src = NoPort \/ l.src = o.src
                          \/ l.dst = NoPort \/ o.dst = NoPort \/ l.dst = o.dst

(* _compatible: the ports both know are the same. *)
Compatible(l, o) ==
  /\ l.src = NoPort \/ o.src = NoPort \/ l.src = o.src
  /\ l.dst = NoPort \/ o.dst = NoPort \/ l.dst = o.dst

\* mutant: the newest row is kept
Newest(S) == CHOOSE l \in S : \A k \in S : l.id >= k.id

(* The representative is the oldest compatible row. *)
Oldest(S) == CHOOSE l \in S : \A k \in S : l.id <= k.id

(* A known port is never replaced; an unknown one is learnt from the          *)
(* observation first, then from the duplicates in the order of their ids.     *)
Port(p, q, later) ==
  CASE p # NoPort -> p
    [] p = NoPort /\ q # NoPort -> q
    [] OTHER -> later

Src(S, o) == LET known == {l \in S : l.src # NoPort}
             IN  Port(Oldest(S).src, o.src,
                      IF known = {} THEN NoPort ELSE Oldest(known).src)

Dst(S, o) == LET known == {l \in S : l.dst # NoPort}
             IN  Port(Oldest(S).dst, o.dst,
                      IF known = {} THEN NoPort ELSE Oldest(known).dst)

(* A strictly larger confidence replaces confidence and source together, the  *)
(* observation's first, then each duplicate's.                                *)
Raise(l, m) == IF m.conf > l.conf
               THEN [l EXCEPT !.conf = m.conf, !.source = m.source] ELSE l

Best(S) == Oldest({l \in S : \A k \in S : k.conf <= l.conf})

\* mutant: the latest observation decides confidence and source
MergedLatest(S, o) ==
  [Oldest(S) EXCEPT !.conf = Confidence[o.source], !.source = o.source,
                    !.src = Src(S, o), !.dst = Dst(S, o), !.age = 0, !.status = "UP"]

\* mutant: the ports are those of the latest observation
MergedPorts(S, o) ==
  LET seen == Raise(Oldest(S), [conf |-> Confidence[o.source], source |-> o.source])
  IN  [Raise(seen, Best(S)) EXCEPT !.src = o.src, !.dst = o.dst, !.age = 0, !.status = "UP"]

\* mutant: a link that is seen again keeps its status
MergedStale(S, o) ==
  LET seen == Raise(Oldest(S), [conf |-> Confidence[o.source], source |-> o.source])
  IN  [Raise(seen, Best(S)) EXCEPT !.src = Src(S, o), !.dst = Dst(S, o), !.age = 0]

(* The row that stands for the compatible rows S after the observation o. *)
Merged(S, o) ==
  LET seen == Raise(Oldest(S), [conf |-> Confidence[o.source], source |-> o.source])
  IN  [Raise(seen, Best(S)) EXCEPT !.src = Src(S, o), !.dst = Dst(S, o),
                                   !.age = 0, !.status = "UP"]

\* mutant: the second report adds to the confidence
ReciprocalAdds(l, both) == IF both THEN [l EXCEPT !.conf = @ + 5] ELSE l

(* infer_lldp_links: the neighbour reports this device too. *)
Reciprocal(l, both) == IF both /\ l.conf < Sure THEN [l EXCEPT !.conf = Sure] ELSE l

(* update_link_liveness: the status follows the age of the last sighting. *)
StatusOf(age) == CASE age = 2 -> "DOWN" [] age = 1 -> "STALE" [] OTHER -> "UP"
=============================================================================
