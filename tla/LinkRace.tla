------------------------------ MODULE LinkRace ------------------------------
(* Several database sessions reach _get_or_create_link for the same pair of  *)
(* devices: a discovery run's recomputation, POST /devices/reclassify and     *)
(* POST /topology/links run in different threads. A session reads the         *)
(* candidates and flushes what it made of them later; readers see committed   *)
(* rows only and writers wait for each other, so that a flush and its commit  *)
(* are one step for every other session.                                      *)
EXTENDS LinkRows

CONSTANTS Sessions,
          NoObservation,  \* a session between two observations
          Races           \* sets of observations that sessions may store at once

ASSUME RacesAssumption == \A R \in Races : \A o \in R : o.source \in DOMAIN Confidence

VARIABLES rows,      \* the committed rows of the pair
          cand,      \* the candidates each session has read
          mine,      \* the observation it is about to store
          step,      \* where it is
          contested  \* the observations of this race (fixed)

raceVars == <<rows, cand, mine, step, contested>>

\* mutant: the row is stored before it has its id
RowUnnumbered(i, o) == [id |-> 0, src |-> o.src, dst |-> o.dst, source |-> o.source,
                        conf |-> Confidence[o.source], age |-> 0, status |-> "UP"]

Row(i, o) == [id |-> i, src |-> o.src, dst |-> o.dst, source |-> o.source,
              conf |-> Confidence[o.source], age |-> 0, status |-> "UP"]

AllKnown == \A o \in contested : o.src # NoPort /\ o.dst # NoPort

RaceTypeOK == /\ \A r \in rows : r.id \in Ids /\ r.source \in DOMAIN Confidence
              /\ mine \in [Sessions -> contested \cup {NoObservation}]
              /\ step \in [Sessions -> {"idle", "read", "rolled back"}]

RaceInit == /\ rows = {}
            /\ cand = [t \in Sessions |-> {}]
            /\ mine = [t \in Sessions |-> NoObservation]
            /\ step = [t \in Sessions |-> "idle"]
            /\ contested \in Races

Read(t, o) == /\ step[t] # "read"
              /\ cand' = [cand EXCEPT ![t] = {r \in rows : Compatible(r, o)}]
              /\ mine' = [mine EXCEPT ![t] = o]
              /\ step' = [step EXCEPT ![t] = "read"]
              /\ UNCHANGED <<rows, contested>>

\* mutant: no unique constraint over the endpoints
NoConflict(r, others) == FALSE

(* uq_link_endpoints: two rows with the same four endpoints, all known. An    *)
(* UPDATE is checked before the DELETEs of the same flush are sent.           *)
Conflict(r, others) ==
  /\ r.src # NoPort /\ r.dst # NoPort
  /\ \E k \in others : k.id # r.id /\ k.src = r.src /\ k.dst = r.dst

(* An UPDATE writes the columns that differ from the values read. *)
Patch(r, old, new) == [f \in DOMAIN r |-> IF new[f] # old[f] THEN new[f] ELSE r[f]]

Stored(t) == {r \in rows : r.id = Oldest(cand[t]).id}

InsertRow(t) ==
  \E i \in Ids :
    /\ cand[t] = {}
    /\ \A r \in rows : r.id < i
    /\ \A j \in Ids : (\A r \in rows : r.id < j) => i <= j
    /\ ~ Conflict(Row(i, mine[t]), rows)
    /\ rows' = rows \cup {Row(i, mine[t])}

\* mutant: the duplicates are left in place
UpdateOne(t) ==
  /\ cand[t] # {}
  /\ \E r \in Stored(t) :
       LET new == Patch(r, Oldest(cand[t]), Merged(cand[t], mine[t]))
       IN  ~ Conflict(new, rows) /\ rows' = (rows \ {r}) \cup {new}

Update(t) ==
  /\ cand[t] # {}
  /\ \E r \in Stored(t) :
       LET new == Patch(r, Oldest(cand[t]), Merged(cand[t], mine[t]))
       IN  /\ ~ Conflict(new, rows)
           /\ rows' = {k \in rows : \A c \in cand[t] : c.id # k.id} \cup {new}

(* The flush fails: the unique constraint, or an UPDATE of a row that is gone *)
(* (StaleDataError). The whole transaction is rolled back.                    *)
Fails(t) ==
  \/ cand[t] = {} /\ Conflict(Row(0, mine[t]), rows)
  \/ /\ cand[t] # {}
     /\ \A r \in Stored(t) :
          Conflict(Patch(r, Oldest(cand[t]), Merged(cand[t], mine[t])), rows)

Flush(t) ==
  /\ step[t] = "read"
  /\ \/ (InsertRow(t) \/ Update(t)) /\ step' = [step EXCEPT ![t] = "idle"]
     \/ Fails(t) /\ rows' = rows /\ step' = [step EXCEPT ![t] = "rolled back"]
  /\ cand' = [cand EXCEPT ![t] = {}]
  /\ mine' = [mine EXCEPT ![t] = NoObservation]
  /\ UNCHANGED contested

(* An operator deletes a link: modelled where both ports are known. *)
DeleteRow(r) == /\ AllKnown
                /\ rows' = rows \ {r} /\ UNCHANGED <<cand, mine, step, contested>>

RaceNext == \/ \E t \in Sessions : (\E o \in contested : Read(t, o)) \/ Flush(t)
            \/ \E r \in rows : DeleteRow(r)

(* Discoveries and reclassifications keep being started, and a thread that    *)
(* has read the candidates gets to write: it waits for the lock at most the   *)
(* busy timeout.                                                              *)
RaceSpec == /\ RaceInit /\ [][RaceNext]_raceVars
            /\ \A t \in Sessions : /\ WF_raceVars(Flush(t))
                                   /\ WF_raceVars(\E o \in contested : Read(t, o))

-----------------------------------------------------------------------------
(* When every observation names both ports, sessions that read before either  *)
(* wrote still store one row per cable: the unique constraint stops the other.*)
OneRowPerCable == AllKnown => \A r, k \in rows : r # k => ~ Compatible(r, k)

(* Where a port of the one cable they store is unknown, no session is rolled  *)
(* back: each keeps the oldest row, so what one deletes as a duplicate is     *)
(* never what another updates. Over two such cables this fails: an id that a  *)
(* merge freed is given to a row of the other cable (see the README).         *)
OneCable == \A o, k \in contested : o.src = k.src /\ o.dst = k.dst
NeverRolledBack == ~ AllKnown /\ OneCable => \A t \in Sessions : step[t] # "rolled back"

(* Rows that sessions inserted for one cable at the same time are merged for  *)
(* good by later observations of it.                                          *)
DuplicatesHeal == <>[](~ AllKnown => \A r, k \in rows : r # k => ~ Compatible(r, k))

(* Sessions that race over one pair leave one row per cable, or, where a port  *)
(* is unknown, duplicates that fail nobody.                                    *)
RaceIsHarmless == OneRowPerCable /\ NeverRolledBack
=============================================================================
