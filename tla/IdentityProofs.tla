---------------------------- MODULE IdentityProofs ----------------------------
(* Proofs about Identity: what one observation does to the stored rows, for any  *)
(* rows and any observation; and the numbers that ids are made of.               *)
EXTENDS Identity, WellFoundedInduction, TLAPS

(* The rows of network_device: an id is one row's, and there is a highest one. *)
IsDevice(d) ==
    /\ DOMAIN d = {"id", "chassis", "mac", "model", "ip", "depth", "ports"}
    /\ d.id \in Nat \ {0} /\ d.depth \in Nat
Bounded(S) == \E b \in Nat : \A s \in S : s.id <= b
AreDevices(D) ==
    /\ \A d \in D : IsDevice(d)
    /\ \A d, e \in D : d.id = e.id => d = e
    /\ Bounded(D)

(* What an observation may do to the depth of a row that was there: it takes the   *)
(* depth of the observation, if that is smaller or the stored one is zero.         *)
DepthGoes(d, e, o) ==
    e.depth = d.depth \/ (e.depth = o.depth /\ (d.depth = 0 \/ e.depth < d.depth))

OneChassisEach(D) == \A d, e \in D : d.chassis # None /\ d.chassis = e.chassis => d.id = e.id

-----------------------------------------------------------------------------
(* A set of numbers that is not empty has a least one. *)
LEMMA LeastOne ==
    ASSUME NEW S \in SUBSET Nat, S # {}
    PROVE  \E m \in S : \A n \in S : m <= n
<1> DEFINE R == OpToRel(<, Nat)
<1>1. IsWellFoundedOn(R, Nat)
  BY NatLessThanWellFounded
<1>2. \A n, m \in Nat : n < m => <<n, m>> \in R
  BY DEF OpToRel
<1> HIDE DEF R
<1>3. PICK m \in S : \A n \in S : ~ (<<n, m>> \in R)
  BY <1>1, WFMin
<1>4. ASSUME NEW n \in S
      PROVE  m <= n
  <2>1. n \in Nat /\ m \in Nat /\ ~ (n < m)
    BY <1>2, <1>3
  <2>2. QED
    BY <2>1
<1>5. QED
  BY <1>4

(* ... and below a bound it has a greatest one, the least of its bounds. *)
LEMMA GreatestOne ==
    ASSUME NEW S \in SUBSET Nat, S # {}, NEW b \in Nat, \A n \in S : n <= b
    PROVE  Max(S) \in S /\ \A n \in S : Max(S) >= n
<1> DEFINE B == {m \in Nat : \A n \in S : n <= m}
<1>1. PICK m \in B : \A k \in B : m <= k
  <2>1. B \in SUBSET Nat /\ b \in B
    OBVIOUS
  <2>2. QED
    BY <2>1, LeastOne
<1>2. m \in S
  <2> SUFFICES ASSUME m \notin S PROVE FALSE
    OBVIOUS
  <2>1. \A n \in S : n < m
    OBVIOUS
  <2>2. PICK n \in S : TRUE
    OBVIOUS
  <2>3. m - 1 \in B
    BY <2>1, <2>2
  <2>4. QED
    BY <2>3, <1>1
<1>3. \A n \in S : m >= n
  OBVIOUS
<1>4. QED
  BY <1>2, <1>3 DEF Max

(* A new row has an id of its own. *)
LEMMA NextIdIsNew ==
    ASSUME NEW S, \A s \in S : s.id \in Nat, Bounded(S)
    PROVE  /\ NextId(S) \in Nat \ {0}
           /\ \A s \in S : s.id < NextId(S)
<1> DEFINE N == {s.id : s \in S}
<1>1. CASE S = {}
  BY <1>1 DEF NextId
<1>2. CASE S # {}
  <2>1. N \in SUBSET Nat /\ N # {}
    BY <1>2
  <2>2. PICK b \in Nat : \A s \in S : s.id <= b
    BY DEF Bounded
  <2>3. \A n \in N : n <= b
    BY <2>2
  <2>4. Max(N) \in N /\ \A n \in N : Max(N) >= n
    BY <2>1, <2>2, <2>3, GreatestOne
  <2>5. NextId(S) = Max(N) + 1
    BY <1>2 DEF NextId
  <2>6. Max(N) \in Nat /\ \A s \in S : s.id \in Nat /\ s.id <= Max(N)
    BY <2>1, <2>4
  <2> HIDE DEF N
  <2>7. QED
    BY <2>5, <2>6
<1>3. QED
  BY <1>1, <1>2

-----------------------------------------------------------------------------
(* An observation updates one row or makes a new one. *)
LEMMA ResolvedIs ==
    ASSUME NEW D, NEW o, NEW found \in Resolved(D, o)
    PROVE  \/ /\ Candidates(D, o) = {}
              /\ found[2] = Created(NextId(D), o) /\ found[1] = D \cup {found[2]}
           \/ \E d \in Candidates(D, o) : found[2] = Updated(d, o) /\ found[1] = (D \ {d}) \cup {found[2]}
BY DEF Resolved

LEMMA CandidatesAre ==
    ASSUME NEW D, NEW o
    PROVE  Candidates(D, o) \subseteq D
BY DEF Candidates

(* Why a row is a candidate: it shares an identifier that the observation has,   *)
(* and if it is not the chassis, then no row has that of the observation.         *)
LEMMA CandidateBy ==
    ASSUME NEW D, NEW o, NEW d \in Candidates(D, o)
    PROVE  /\ \/ o.chassis # None /\ d.chassis = o.chassis
              \/ o.mac # None /\ d.mac = o.mac
              \/ o.mac # None /\ o.model # None /\ d.model = o.model
              \/ o.ip # None /\ d.ip = o.ip
           /\ o.chassis # None /\ d.chassis # o.chassis => \A e \in D : e.chassis # o.chassis
<1> DEFINE same(f) == {e \in D : o[f] # None /\ e[f] = o[f]}
           model == IF o.mac = None THEN {} ELSE same("model")
<1>1. CASE same("chassis") # {}
  <2>1. d \in same("chassis")
    BY <1>1 DEF Candidates
  <2>2. QED
    BY <2>1
<1>2. CASE same("chassis") = {}
  <2>1. o.chassis # None => \A e \in D : e.chassis # o.chassis
    BY <1>2
  <2>2. d \in same("mac") \/ d \in model \/ d \in same("ip")
    BY <1>2 DEF Candidates
  <2>3. QED
    BY <2>1, <2>2
<1>3. QED
  BY <1>1, <1>2

(* Where there is none, no row has the chassis of the observation, nor its        *)
(* address.                                                                      *)
LEMMA NoCandidate ==
    ASSUME NEW D, NEW o, Candidates(D, o) = {}
    PROVE  /\ o.chassis # None => \A e \in D : e.chassis # o.chassis
           /\ o.ip # None => \A e \in D : e.ip # o.ip
<1> DEFINE same(f) == {e \in D : o[f] # None /\ e[f] = o[f]}
<1>1. same("chassis") = {} /\ same("ip") = {}
  BY DEF Candidates
<1>2. QED
  BY <1>1

LEMMA UpdatedRow ==
    ASSUME NEW d, NEW o, IsDevice(d), o.depth \in Nat
    PROVE  /\ IsDevice(Updated(d, o)) /\ Updated(d, o).id = d.id
           /\ DepthGoes(d, Updated(d, o), o)
           /\ Updated(d, o).chassis = Given(o.chassis, d.chassis)
           /\ Updated(d, o).mac = Given(o.mac, d.mac)
           /\ Updated(d, o).model = Given(o.model, d.model)
           /\ Updated(d, o).ip \in {d.ip, o.ip} /\ (o.ip = None => Updated(d, o).ip = d.ip)
BY DEF Updated, IsDevice, Depth, DepthGoes, Given

LEMMA CreatedRow ==
    ASSUME NEW i \in Nat \ {0}, NEW o, o.depth \in Nat
    PROVE  IsDevice(Created(i, o)) /\ Created(i, o).id = i
BY DEF Created, IsDevice

(* The rows after an observation are rows, and no id is lost; only the one that   *)
(* the observation ended in differs, and its depth goes as above.                 *)
LEMMA ResolvedDoes ==
    ASSUME NEW D, AreDevices(D), NEW o, o.depth \in Nat, NEW found \in Resolved(D, o)
    PROVE  /\ AreDevices(found[1]) /\ found[2] \in found[1]
           /\ {d.id : d \in found[1]} = {d.id : d \in D} \cup {found[2].id}
           /\ \A d \in D, e \in found[1] : d.id = e.id => DepthGoes(d, e, o)
           /\ \A e \in found[1] : e # found[2] => e \in D
<1>0. \A d \in D : IsDevice(d) /\ d.id \in Nat /\ d.depth \in Nat
  BY DEF AreDevices, IsDevice
<1>1. CASE Candidates(D, o) = {} /\ found[2] = Created(NextId(D), o) /\ found[1] = D \cup {found[2]}
  <2>1. NextId(D) \in Nat \ {0} /\ \A d \in D : d.id < NextId(D)
    BY <1>0, NextIdIsNew DEF AreDevices
  <2>2. IsDevice(found[2]) /\ found[2].id = NextId(D)
    BY <1>1, <2>1, CreatedRow
  <2>3. found[1] = D \cup {found[2]}
    BY <1>1
  <2>4. \A d \in D : d.id # found[2].id
    BY <1>0, <2>1, <2>2
  <2>5. Bounded(found[1])
    BY <1>0, <2>1, <2>2, <2>3 DEF Bounded
  <2>6. AreDevices(found[1])
    BY <1>0, <2>2, <2>3, <2>4, <2>5 DEF AreDevices
  <2>7. ASSUME NEW d \in D, NEW e \in found[1], d.id = e.id
        PROVE  DepthGoes(d, e, o)
    <3>1. e \in D
      BY <2>3, <2>4, <2>7
    <3>2. e = d
      BY <3>1, <2>7 DEF AreDevices
    <3>3. QED
      BY <3>2 DEF DepthGoes
  <2>8. QED
    BY <2>3, <2>6, <2>7
<1>2. ASSUME NEW d \in Candidates(D, o), found[2] = Updated(d, o), found[1] = (D \ {d}) \cup {found[2]}
      PROVE  /\ AreDevices(found[1]) /\ found[2] \in found[1]
             /\ {c.id : c \in found[1]} = {c.id : c \in D} \cup {found[2].id}
             /\ \A c \in D, e \in found[1] : c.id = e.id => DepthGoes(c, e, o)
             /\ \A e \in found[1] : e # found[2] => e \in D
  <2>1. d \in D
    BY CandidatesAre
  <2>2. IsDevice(found[2]) /\ found[2].id = d.id /\ DepthGoes(d, found[2], o)
    BY <1>0, <1>2, <2>1, UpdatedRow
  <2>3. found[1] = (D \ {d}) \cup {found[2]}
    BY <1>2
  <2>4. \A c \in D : c.id = d.id => c = d
    BY <2>1 DEF AreDevices
  <2>5. Bounded(found[1])
    <3>1. PICK b \in Nat : \A c \in D : c.id <= b
      BY DEF AreDevices, Bounded
    <3>2. \A c \in found[1] : c.id <= b
      BY <2>1, <2>2, <2>3, <3>1
    <3>3. QED
      BY <3>2 DEF Bounded
  <2>6. \A c, e \in found[1] : c.id = e.id => c = e
    BY <2>2, <2>3, <2>4 DEF AreDevices
  <2>7. AreDevices(found[1])
    BY <1>0, <2>2, <2>3, <2>5, <2>6 DEF AreDevices
  <2>8. {c.id : c \in found[1]} = {c.id : c \in D} \cup {found[2].id}
    BY <2>1, <2>2, <2>3
  <2>9. ASSUME NEW c \in D, NEW e \in found[1], c.id = e.id
        PROVE  DepthGoes(c, e, o)
    <3>1. CASE e = found[2]
      BY <2>2, <2>4, <2>9, <3>1
    <3>2. CASE e # found[2]
      <4>1. e \in D
        BY <2>3, <3>2
      <4>2. e = c
        BY <4>1, <2>9 DEF AreDevices
      <4>3. QED
        BY <4>2 DEF DepthGoes
    <3>3. QED
      BY <3>1, <3>2
  <2>10. QED
    BY <2>3, <2>7, <2>8, <2>9
<1>3. QED
  BY <1>1, <1>2, ResolvedIs

(* One observation after another, no two rows come to have one chassis. *)
LEMMA ChassisStep ==
    ASSUME NEW D, AreDevices(D), OneChassisEach(D), NEW o, o.depth \in Nat, NEW found \in Resolved(D, o)
    PROVE  OneChassisEach(found[1])
<1>0. \A c \in D : IsDevice(c)
  BY DEF AreDevices
<1>1. CASE Candidates(D, o) = {} /\ found[2] = Created(NextId(D), o) /\ found[1] = D \cup {found[2]}
  <2>1. found[2].chassis = o.chassis
    BY <1>1 DEF Created
  <2>2. o.chassis # None => \A e \in D : e.chassis # o.chassis
    BY <1>1, NoCandidate
  <2>3. QED
    BY <1>1, <2>1, <2>2 DEF OneChassisEach
<1>2. ASSUME NEW d \in Candidates(D, o), found[2] = Updated(d, o), found[1] = (D \ {d}) \cup {found[2]}
      PROVE  OneChassisEach(found[1])
  <2>1. d \in D /\ IsDevice(d)
    BY <1>0, CandidatesAre
  <2>2. found[2].id = d.id /\ found[2].chassis = IF o.chassis # None THEN o.chassis ELSE d.chassis
    BY <1>2, <2>1, UpdatedRow DEF Given
  <2>3. o.chassis # None /\ d.chassis # o.chassis => \A e \in D : e.chassis # o.chassis
    BY CandidateBy
  <2>4. ASSUME NEW e \in D, found[2].chassis # None, e.chassis = found[2].chassis
        PROVE  e.id = found[2].id
    <3>1. found[2].chassis = d.chassis
      BY <2>2, <2>3, <2>4
    <3>2. QED
      BY <2>1, <2>2, <2>4, <3>1 DEF OneChassisEach
  <2>5. QED
    BY <1>2, <2>4 DEF OneChassisEach
<1>3. QED
  BY <1>1, <1>2, ResolvedIs
=============================================================================
