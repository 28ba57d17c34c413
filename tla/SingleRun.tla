-------------------------------- MODULE SingleRun --------------------------------
(***************************************************************************)
(* What the discovery runs promise the network they scan: at most one      *)
(* engine works at any time, and a run that ended never works again.       *)
(***************************************************************************)
CONSTANTS Runs, None

VARIABLES active, past

Init == active = None /\ past = {}

Begin(r) == active = None /\ r \notin past /\ active' = r /\ past' = past

\* A run is given its number, but its engine never starts.
Waste(r) == active = None /\ r \notin past /\ active' = None /\ past' = past \union {r}

End == active # None /\ active' = None /\ past' = past \union {active}

Next == End \/ \E r \in Runs : Begin(r) \/ Waste(r)

Spec == Init /\ [][Next]_<<active, past>>
=============================================================================
