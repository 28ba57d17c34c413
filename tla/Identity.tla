------------------------------ MODULE Identity ------------------------------
(* How an observation of a device meets the stored network_device rows        *)
(* (identity.py). A row is a record with id, chassis, mac, model, ip and       *)
(* depth; an observation has the same fields without an id. The engine id and  *)
(* the serial number, which come first, are given by no caller and left out.   *)
EXTENDS Null, Integers, FiniteSetsExt

\* mutants: the chassis is not looked up; two unknown addresses are equal
CandidatesNoChassis(D, o) ==
  LET same(f) == {d \in D : o[f] # None /\ d[f] = o[f]}
  IN  IF same("mac") # {} THEN same("mac") ELSE same("ip")
CandidatesNull(D, o) ==
  LET same(f) == {d \in D : d[f] = o[f]}
  IN  CASE same("chassis") # {} -> same("chassis")
        [] same("chassis") = {} /\ same("mac") # {} -> same("mac")
        [] OTHER -> same("ip")

(* _find_existing: the rows with the strongest identifier that any row shares. *)
(* A model (sysObjectID and vendor) counts when the observation has a MAC,     *)
(* whatever the MAC of the row.                                                *)
Candidates(D, o) ==
  LET same(f) == {d \in D : o[f] # None /\ d[f] = o[f]}
      model == IF o.mac = None THEN {} ELSE same("model")
  IN  CASE same("chassis") # {} -> same("chassis")
        [] same("chassis") = {} /\ same("mac") # {} -> same("mac")
        [] same("chassis") = {} /\ same("mac") = {} /\ model # {} -> model
        [] OTHER -> same("ip")

Given(new, old) == IF new # None THEN new ELSE old

\* mutant: the depth of the last observation
DepthLatest(old, new) == new

(* discovery_depth: a stored zero counts as not set. *)
Depth(old, new) == IF old # 0 /\ old < new THEN old ELSE new

(* resolve_or_create_device on a row that matches: what the observation knows  *)
(* replaces what the row says; the address only when a strong identifier came  *)
(* with it.                                                                    *)
Updated(d, o) ==
  [d EXCEPT !.chassis = Given(o.chassis, @), !.mac = Given(o.mac, @),
            !.model = Given(o.model, @), !.depth = Depth(@, o.depth),
            !.ip = IF o.chassis # None \/ o.mac # None THEN Given(o.ip, @) ELSE @]

(* ... and on no match: a row with the next id. *)
Created(i, o) == [id |-> i, chassis |-> o.chassis, mac |-> o.mac, model |-> o.model,
                  ip |-> o.ip, depth |-> o.depth, ports |-> {}]

(* SQLite gives a new row the id above the highest. *)
NextId(S) == IF S = {} THEN 1 ELSE Max({s.id : s \in S}) + 1

\* mutant: the row that was found stays beside its update
ResolvedAdds(D, o) ==
  LET found == Candidates(D, o)
      new == Created(NextId(D), o)
  IN  IF found = {} THEN {<<D \cup {new}, new>>} ELSE {<<D \cup {Updated(d, o)}, Updated(d, o)>> : d \in found}

(* resolve_or_create_device: the rows after the observation, with the row it   *)
(* ended in. Of several candidates the database returns one.                   *)
Resolved(D, o) ==
  LET found == Candidates(D, o)
      new == Created(NextId(D), o)
  IN  IF found = {} THEN {<<D \cup {new}, new>>}
      ELSE {<<(D \ {d}) \cup {Updated(d, o)}, Updated(d, o)>> : d \in found}
=============================================================================
