------------------------------ MODULE AlarmsProofs ------------------------------
(* Proofs about Alarms: for any devices, links, operators and limit, and however *)
(* the requests overlap.                                                         *)
EXTENDS Alarms, IdentityProofs, FiniteSetTheorems

USE AlarmsAssumption

DownStates == {"STALE", "OFFLINE"}
HostRow == [status : {"ONLINE"} \cup DownStates, seen : Nat]

AlarmIds ==
    {<<"device", d, s>> : d \in DOMAIN Depths, s \in DownStates}
    \cup {<<"link", l, s>> : l \in DOMAIN Cables, s \in DownStates}
    \cup {<<"log", n>> : n \in Nat}
Alarm == [id : AlarmIds, at : Nat, suppressed : BOOLEAN]
Request == [step : {"new", "devices", "listed", "commit", "done"}, kind : {"list", "all"},
            devices : [DOMAIN Depths -> HostRow], alarms : SUBSET Alarm, calm : BOOLEAN]

Types ==
    /\ clock \in 0..MaxTime /\ counted \in Nat
    /\ hosts \in [DOMAIN Depths -> HostRow]
    /\ DOMAIN lines \subseteq DOMAIN Cables /\ lines \in [DOMAIN lines -> HostRow]
    /\ failures \subseteq [id : Nat, at : Nat]
    /\ dismissed \subseteq [id : AlarmIds, at : Nat]
    /\ viewers \in [Viewers -> Request]

\* The logs are finite, and an id is one entry's.
Logs ==
    /\ IsFiniteSet(failures)
    /\ \A f \in failures : f.id <= clock /\ f.at <= clock
    /\ \A f, g \in failures : f.id = g.id => f = g

\* What a request holds, and what was dismissed, is finite; an id is one alarm's.
Lists ==
    /\ IsFiniteSet(dismissed)
    /\ \A v \in Viewers : /\ IsFiniteSet(viewers[v].alarms)
                          /\ \A a, b \in viewers[v].alarms : a.id = b.id => a = b

\* Nothing was seen in the future.
Times ==
    /\ \A d \in DOMAIN Depths : hosts[d].seen <= clock
    /\ \A l \in DOMAIN lines : lines[l].seen <= clock
    /\ \A v \in Viewers : /\ \A d \in DOMAIN Depths : viewers[v].devices[d].seen <= clock
                          /\ \A a \in viewers[v].alarms : a.at <= clock

AlarmsBase == Types /\ Logs /\ Lists /\ Times

-----------------------------------------------------------------------------
(* What list_alarms derives.                                                     *)

OfDevice(a, devices) ==
    \E d \in DOMAIN Depths :
        /\ Down(devices[d])
        /\ a = [id |-> <<"device", d, devices[d].status>>, at |-> devices[d].seen,
                suppressed |-> Upstream(d, devices, lines) # {}]
OfLink(a) ==
    \E l \in DOMAIN lines :
        /\ Down(lines[l])
        /\ a = [id |-> <<"link", l, lines[l].status>>, at |-> lines[l].seen, suppressed |-> FALSE]
OfLog(a) == \E f \in failures : a = [id |-> <<"log", f.id>>, at |-> f.at, suppressed |-> FALSE]

LEMMA DerivedIs ==
    ASSUME NEW devices, NEW a \in Derived(devices)
    PROVE  OfDevice(a, devices) \/ OfLink(a) \/ OfLog(a)
BY DEF Derived, OfDevice, OfLink, OfLog, Newest

LEMMA DerivedAre ==
    ASSUME NEW devices
    PROVE  /\ \A d \in DOMAIN Depths : Down(devices[d]) =>
                 [id |-> <<"device", d, devices[d].status>>, at |-> devices[d].seen,
                  suppressed |-> Upstream(d, devices, lines) # {}] \in Derived(devices)
           /\ \A l \in DOMAIN lines : Down(lines[l]) =>
                 [id |-> <<"link", l, lines[l].status>>, at |-> lines[l].seen,
                  suppressed |-> FALSE] \in Derived(devices)
BY DEF Derived

LEMMA DerivedTyped ==
    ASSUME Types, NEW devices \in [DOMAIN Depths -> HostRow]
    PROVE  Derived(devices) \subseteq Alarm
<1> SUFFICES ASSUME NEW a \in Derived(devices)
             PROVE  a \in Alarm
  OBVIOUS
<1>1. CASE OfDevice(a, devices)
  <2>1. PICK d \in DOMAIN Depths :
              /\ Down(devices[d])
              /\ a = [id |-> <<"device", d, devices[d].status>>, at |-> devices[d].seen,
                      suppressed |-> Upstream(d, devices, lines) # {}]
    BY <1>1 DEF OfDevice
  <2>2. <<"device", d, devices[d].status>> \in AlarmIds /\ devices[d].seen \in Nat
    BY <2>1 DEF Down, HostRow, AlarmIds, DownStates
  <2>3. QED
    BY <2>1, <2>2 DEF Alarm
<1>2. CASE OfLink(a)
  <2>1. PICK l \in DOMAIN lines :
              /\ Down(lines[l])
              /\ a = [id |-> <<"link", l, lines[l].status>>, at |-> lines[l].seen, suppressed |-> FALSE]
    BY <1>2 DEF OfLink
  <2>2. <<"link", l, lines[l].status>> \in AlarmIds /\ lines[l].seen \in Nat
    BY <2>1 DEF Down, Types, HostRow, AlarmIds, DownStates
  <2>3. QED
    BY <2>1, <2>2 DEF Alarm
<1>3. CASE OfLog(a)
  BY <1>3 DEF OfLog, Types, Alarm, AlarmIds
<1>4. QED
  BY <1>1, <1>2, <1>3, DerivedIs

LEMMA DerivedById ==
    ASSUME Logs, NEW devices
    PROVE  \A a, b \in Derived(devices) : a.id = b.id => a = b
<1> DEFINE D == {[id |-> <<"device", d, devices[d].status>>, at |-> devices[d].seen,
                  suppressed |-> Upstream(d, devices, lines) # {}] : d \in {e \in DOMAIN Depths : Down(devices[e])}}
           L == {[id |-> <<"link", l, lines[l].status>>, at |-> lines[l].seen,
                  suppressed |-> FALSE] : l \in {k \in DOMAIN lines : Down(lines[k])}}
           F == {[id |-> <<"log", f.id>>, at |-> f.at, suppressed |-> FALSE] : f \in Newest}
<1>1. Derived(devices) = D \cup L \cup F
  BY DEF Derived
<1>2. /\ \A a \in D : a.id[1] = "device"
      /\ \A a \in L : a.id[1] = "link"
      /\ \A a \in F : a.id[1] = "log"
  OBVIOUS
<1>3. \A a, b \in D : a.id = b.id => a = b
  OBVIOUS
<1>4. ASSUME NEW a \in L, NEW b \in L, a.id = b.id
      PROVE  a = b
  <2>1. PICK k \in DOMAIN lines :
            a = [id |-> <<"link", k, lines[k].status>>, at |-> lines[k].seen, suppressed |-> FALSE]
    OBVIOUS
  <2>2. PICK l \in DOMAIN lines :
            b = [id |-> <<"link", l, lines[l].status>>, at |-> lines[l].seen, suppressed |-> FALSE]
    OBVIOUS
  <2> HIDE DEF L
  <2>3. a.id[2] = k /\ b.id[2] = l
    BY <2>1, <2>2
  <2>4. k = l
    BY <1>4, <2>3
  <2>5. QED
    BY <2>1, <2>2, <2>4
<1>5. ASSUME NEW a \in F, NEW b \in F, a.id = b.id
      PROVE  a = b
  <2>1. PICK f \in failures : a = [id |-> <<"log", f.id>>, at |-> f.at, suppressed |-> FALSE]
    BY DEF Newest
  <2>2. PICK g \in failures : b = [id |-> <<"log", g.id>>, at |-> g.at, suppressed |-> FALSE]
    BY DEF Newest
  <2> HIDE DEF F
  <2>3. a.id[2] = f.id /\ b.id[2] = g.id
    BY <2>1, <2>2
  <2>4. f = g
    BY <1>5, <2>3 DEF Logs
  <2>5. QED
    BY <2>1, <2>2, <2>4
<1> HIDE DEF D, L, F
<1>6. QED
  BY <1>1, <1>2, <1>3, <1>4, <1>5

LEMMA DerivedFinite ==
    ASSUME Types, Logs, NEW devices
    PROVE  IsFiniteSet(Derived(devices))
<1> DEFINE Ds == {e \in DOMAIN Depths : Down(devices[e])}
           Ls == {k \in DOMAIN lines : Down(lines[k])}
           dev == [d \in Ds |-> [id |-> <<"device", d, devices[d].status>>, at |-> devices[d].seen,
                                 suppressed |-> Upstream(d, devices, lines) # {}]]
           lin == [l \in Ls |-> [id |-> <<"link", l, lines[l].status>>, at |-> lines[l].seen, suppressed |-> FALSE]]
           log == [f \in Newest |-> [id |-> <<"log", f.id>>, at |-> f.at, suppressed |-> FALSE]]
<1>1. IsFiniteSet(Ds) /\ IsFiniteSet(Ls) /\ IsFiniteSet(Newest)
  <2>1. Ds \subseteq DOMAIN Depths /\ Ls \subseteq DOMAIN Cables /\ Newest \subseteq failures
    BY DEF Types, Newest
  <2>2. IsFiniteSet(DOMAIN Depths) /\ IsFiniteSet(DOMAIN Cables) /\ IsFiniteSet(failures)
    BY DEF Logs
  <2> HIDE DEF Ds, Ls
  <2>3. QED
    BY <2>1, <2>2, FS_Subset
<1>2. Derived(devices) = {dev[d] : d \in Ds} \cup {lin[l] : l \in Ls} \cup {log[f] : f \in Newest}
  BY DEF Derived
<1> DEFINE A == {dev[d] : d \in Ds}
           B == {lin[l] : l \in Ls}
           C == {log[f] : f \in Newest}
<1>3. dev \in Surjection(Ds, A) /\ lin \in Surjection(Ls, B) /\ log \in Surjection(Newest, C)
  BY DEF Surjection
<1> HIDE DEF Ds, Ls, dev, lin, log, A, B, C
<1>4. IsFiniteSet(A) /\ IsFiniteSet(B) /\ IsFiniteSet(C)
  BY <1>1, <1>3, FS_Surjection
<1>5. Derived(devices) = (A \cup B) \cup C
  BY <1>2 DEF A, B, C
<1>6. QED
  BY <1>4, <1>5, FS_Union

-----------------------------------------------------------------------------
(* Root causes.                                                                  *)

LEMMA RootOfDown ==
    ASSUME NEW devices, NEW d \in DOMAIN Depths, Upstream(d, devices, lines) # {}
    PROVE  \E e \in DOMAIN Depths : /\ Down(devices[e]) /\ Depths[e] < Depths[d]
                                    /\ Upstream(e, devices, lines) = {}
<1> DEFINE Near == {e \in DOMAIN Depths : Down(devices[e]) /\ Depths[e] < Depths[d]}
           N == {Depths[e] : e \in Near}
<1>1. N \subseteq Nat /\ N # {}
  BY DEF Upstream
<1>2. PICK m \in N : \A n \in N : m <= n
  BY <1>1, LeastOne
<1>3. PICK e \in Near : Depths[e] = m
  BY <1>2
<1>4. ASSUME NEW f \in Upstream(e, devices, lines)
      PROVE  FALSE
  <2>1. f \in DOMAIN Depths /\ Down(devices[f]) /\ Depths[f] < Depths[e] /\ Depths[e] < Depths[d]
    BY <1>3, <1>4 DEF Upstream
  <2>2. Depths[f] \in Nat /\ Depths[e] \in Nat /\ Depths[d] \in Nat
    BY <1>3, <2>1
  <2>3. f \in Near
    BY <2>1, <2>2
  <2>4. QED
    BY <1>2, <1>3, <2>1, <2>2, <2>3
<1>5. QED
  BY <1>3, <1>4

(* However the reads of a request fall, what is suppressed has a root cause      *)
(* nearer to the core that is not.                                               *)
LEMMA RootAlways == RootShown
<1> SUFFICES ASSUME NEW devices, NEW a \in Derived(devices), a.suppressed
             PROVE  \E b \in Derived(devices) :
                       b.id[1] = "device" /\ ~b.suppressed /\ Depths[b.id[2]] < Depths[a.id[2]]
  BY DEF RootShown
<1>1. PICK d \in DOMAIN Depths :
         a = [id |-> <<"device", d, devices[d].status>>, at |-> devices[d].seen,
              suppressed |-> Upstream(d, devices, lines) # {}]
  BY DEF Derived
<1>2. Upstream(d, devices, lines) # {} /\ a.id[2] = d
  BY <1>1
<1>3. PICK e \in DOMAIN Depths : /\ Down(devices[e]) /\ Depths[e] < Depths[d]
                                 /\ Upstream(e, devices, lines) = {}
  BY <1>2, RootOfDown
<1> DEFINE b == [id |-> <<"device", e, devices[e].status>>, at |-> devices[e].seen,
                 suppressed |-> Upstream(e, devices, lines) # {}]
<1>4. b \in Derived(devices)
  BY <1>3, DerivedAre
<1>5. b.id[1] = "device" /\ ~b.suppressed /\ b.id[2] = e
  BY <1>3
<1>6. QED
  BY <1>2, <1>3, <1>4, <1>5

-----------------------------------------------------------------------------
(* What each step does to the request that makes it.                             *)

LEMMA ReadDevicesDoes ==
    ASSUME Types, NEW v \in Viewers, ReadDevices(v)
    PROVE  /\ viewers' \in [Viewers -> Request]
           /\ \A u \in Viewers \ {v} : viewers'[u] = viewers[u]
           /\ viewers'[v].step = "devices" /\ viewers'[v].devices = hosts /\ viewers'[v].alarms = {}
           /\ viewers'[v].calm => viewers'[v].kind = "all"
<1>1. PICK kind \in {"list", "all"} :
         viewers' = [viewers EXCEPT ![v] = [@ EXCEPT !.step = "devices", !.kind = kind, !.devices = hosts,
                                                     !.alarms = {}, !.calm = kind = "all"]]
  BY DEF ReadDevices
<1> DEFINE r == [viewers[v] EXCEPT !.step = "devices", !.kind = kind, !.devices = hosts,
                                   !.alarms = {}, !.calm = kind = "all"]
<1>2. viewers[v] \in Request
  BY DEF Types
<1>3. r \in Request
  BY <1>2 DEF Types, Request
<1>4. /\ r.step = "devices" /\ r.devices = hosts /\ r.alarms = {}
      /\ r.calm => r.kind = "all"
  BY <1>2 DEF Request
<1>5. viewers' = [viewers EXCEPT ![v] = r]
  BY <1>1
<1> HIDE DEF r
<1>6. QED
  BY <1>3, <1>4, <1>5 DEF Types

LEMMA ReadRestDoes ==
    ASSUME Types, Logs, NEW v \in Viewers, ReadRest(v)
    PROVE  /\ viewers' \in [Viewers -> Request]
           /\ \A u \in Viewers \ {v} : viewers'[u] = viewers[u]
           /\ viewers'[v].step \in {"listed", "commit"}
           /\ viewers'[v].devices = NothingRead
           /\ viewers'[v].alarms \subseteq Derived(viewers[v].devices)
           /\ viewers'[v].calm => /\ viewers[v].calm /\ viewers'[v].kind = viewers[v].kind
                                  /\ \A a \in Derived(viewers[v].devices) :
                                        a \in viewers'[v].alarms \/ Hidden(a)
<1>1. PICK all \in BOOLEAN :
         viewers' = [viewers EXCEPT
              ![v].alarms = {a \in Derived(viewers[v].devices) : ~Hidden(a) /\ (all \/ ~a.suppressed)},
              ![v].step = IF viewers[v].kind = "list" THEN "listed" ELSE "commit",
              ![v].devices = NothingRead, ![v].calm = @ /\ all]
  BY DEF ReadRest
<1> DEFINE got == {a \in Derived(viewers[v].devices) : ~Hidden(a) /\ (all \/ ~a.suppressed)}
           next == IF viewers[v].kind = "list" THEN "listed" ELSE "commit"
<1>2. viewers[v] \in Request
  BY DEF Types
<1>3. Derived(viewers[v].devices) \subseteq Alarm
  BY <1>2, DerivedTyped DEF Request
<1>4. got \subseteq Derived(viewers[v].devices) /\ got \in SUBSET Alarm
  BY <1>3
<1>5. NothingRead \in [DOMAIN Depths -> HostRow]
  BY DEF NothingRead, Met, HostRow
<1>6. next \in {"listed", "commit"}
  OBVIOUS
<1>a. all => \A a \in Derived(viewers[v].devices) : a \in got \/ Hidden(a)
  OBVIOUS
<1>b. viewers' = [viewers EXCEPT ![v].alarms = got, ![v].step = next,
                                 ![v].devices = NothingRead, ![v].calm = @ /\ all]
  BY <1>1
<1> HIDE DEF got, next
<1>7. viewers' = [viewers EXCEPT ![v] = viewers'[v]]
  BY <1>b DEF Types
<1>8. viewers'[v] = [viewers[v] EXCEPT !.alarms = got, !.step = next, !.devices = NothingRead,
                                       !.calm = @ /\ all]
  BY <1>b DEF Types
<1>9. viewers'[v] \in Request
  BY <1>2, <1>4, <1>5, <1>6, <1>8 DEF Request
<1>10. /\ viewers'[v].step = next /\ viewers'[v].devices = NothingRead /\ viewers'[v].alarms = got
       /\ viewers'[v].kind = viewers[v].kind
       /\ viewers'[v].calm => viewers[v].calm /\ all
  BY <1>2, <1>8 DEF Request
<1>11. QED
  BY <1>4, <1>6, <1>7, <1>9, <1>10, <1>a DEF Types

LEMMA TickDoes ==
    ASSUME Types, NEW v \in Viewers, Tick(v)
    PROVE  /\ viewers' \in [Viewers -> Request]
           /\ \A u \in Viewers \ {v} : viewers'[u] = viewers[u]
           /\ viewers'[v].devices = viewers[v].devices
           /\ viewers'[v].step = "commit" /\ ~viewers'[v].calm
           /\ viewers'[v].alarms \subseteq viewers[v].alarms
<1>1. PICK ticked \in SUBSET viewers[v].alarms :
         viewers' = [viewers EXCEPT ![v].alarms = {a \in ticked : ~Hidden(a)},
                                    ![v].step = "commit", ![v].calm = FALSE]
  BY DEF Tick
<1> DEFINE got == {a \in ticked : ~Hidden(a)}
<1>2. viewers[v] \in Request
  BY DEF Types
<1>3. got \subseteq viewers[v].alarms /\ got \in SUBSET Alarm
  BY <1>2 DEF Request
<1>4. viewers' = [viewers EXCEPT ![v].alarms = got, ![v].step = "commit", ![v].calm = FALSE]
  BY <1>1
<1> HIDE DEF got
<1>5. viewers'[v] = [viewers[v] EXCEPT !.alarms = got, !.step = "commit", !.calm = FALSE]
  BY <1>4 DEF Types
<1>6. viewers' = [viewers EXCEPT ![v] = viewers'[v]]
  BY <1>4 DEF Types
<1>7. viewers'[v] \in Request
  BY <1>2, <1>3, <1>5 DEF Request
<1>8. /\ viewers'[v].devices = viewers[v].devices /\ viewers'[v].alarms = got
      /\ viewers'[v].step = "commit" /\ ~viewers'[v].calm
  BY <1>2, <1>5 DEF Request
<1>9. QED
  BY <1>3, <1>6, <1>7, <1>8 DEF Types

LEMMA CommitDoes ==
    ASSUME Types, NEW v \in Viewers, Commit(v)
    PROVE  /\ viewers' \in [Viewers -> Request]
           /\ \A u \in Viewers \ {v} : viewers'[u] = viewers[u]
           /\ viewers[v].step = "commit" /\ viewers'[v].step = "done"
           /\ UNCHANGED <<viewers[v].devices, viewers[v].alarms, viewers[v].kind>>
           /\ \/ UNCHANGED <<dismissed, counted>> /\ ~viewers'[v].calm
              \/ /\ ~Conflicts(viewers[v].alarms)
                 /\ dismissed' = dismissed \cup {Key(a) : a \in viewers[v].alarms}
                 /\ counted' = counted + Cardinality(viewers[v].alarms)
                 /\ viewers'[v].calm = viewers[v].calm
<1>1. viewers[v] \in Request
  BY DEF Types
<1>2. CASE Conflicts(viewers[v].alarms)
  <2>1. viewers' = [viewers EXCEPT ![v].step = "done", ![v].calm = FALSE] /\ UNCHANGED <<dismissed, counted>>
    BY <1>2 DEF Commit
  <2>2. viewers'[v] = [viewers[v] EXCEPT !.step = "done", !.calm = FALSE]
    BY <2>1 DEF Types
  <2>3. viewers' = [viewers EXCEPT ![v] = viewers'[v]]
    BY <2>1 DEF Types
  <2>4. viewers'[v] \in Request
    BY <1>1, <2>2 DEF Request
  <2>5. /\ viewers'[v].step = "done" /\ ~viewers'[v].calm
        /\ UNCHANGED <<viewers[v].devices, viewers[v].alarms, viewers[v].kind>>
    BY <1>1, <2>2 DEF Request
  <2>6. QED
    BY <2>1, <2>3, <2>4, <2>5 DEF Types, Commit
<1>3. CASE ~Conflicts(viewers[v].alarms)
  <2>1. /\ viewers' = [viewers EXCEPT ![v].step = "done"]
        /\ dismissed' = dismissed \cup {Key(a) : a \in viewers[v].alarms}
        /\ counted' = counted + Cardinality(viewers[v].alarms)
    BY <1>3 DEF Commit
  <2>2. viewers'[v] = [viewers[v] EXCEPT !.step = "done"]
    BY <2>1 DEF Types
  <2>3. viewers' = [viewers EXCEPT ![v] = viewers'[v]]
    BY <2>1 DEF Types
  <2>4. viewers'[v] \in Request
    BY <1>1, <2>2 DEF Request
  <2>5. /\ viewers'[v].step = "done" /\ viewers'[v].calm = viewers[v].calm
        /\ UNCHANGED <<viewers[v].devices, viewers[v].alarms, viewers[v].kind>>
    BY <1>1, <2>2 DEF Request
  <2>6. QED
    BY <1>3, <2>1, <2>3, <2>4, <2>5 DEF Types, Commit
<1>4. QED
  BY <1>2, <1>3

\* What a step outside the requests leaves of them.
Untouched ==
    /\ viewers' \in [Viewers -> Request]
    /\ \A v \in Viewers : /\ UNCHANGED <<viewers[v].step, viewers[v].kind, viewers[v].devices, viewers[v].alarms>>
                          /\ viewers'[v].calm => viewers[v].calm

LEMMA MovedDoes ==
    ASSUME Types, Moved
    PROVE  Untouched /\ \A v \in Viewers : ~viewers'[v].calm
<1>1. ASSUME NEW v \in Viewers
      PROVE  /\ viewers'[v] \in Request
             /\ UNCHANGED <<viewers[v].step, viewers[v].kind, viewers[v].devices, viewers[v].alarms>>
             /\ ~viewers'[v].calm
  <2>1. viewers[v] \in Request /\ viewers'[v] = [viewers[v] EXCEPT !.calm = FALSE]
    BY DEF Moved, Types
  <2>2. QED
    BY <2>1 DEF Request
<1>2. viewers' = [v \in Viewers |-> viewers'[v]]
  BY DEF Moved
<1>3. QED
  BY <1>1, <1>2 DEF Untouched

LEMMA StillUntouched ==
    ASSUME Types, UNCHANGED viewers
    PROVE  Untouched
BY DEF Types, Untouched

-----------------------------------------------------------------------------
(* Types, logs and lists.                                                        *)

\* The id of the next entry.
NextLog == IF failures = {} THEN 1 ELSE Max({f.id : f \in failures}) + 1

LEMMA NextLogIsNew ==
    ASSUME Types, Logs
    PROVE  NextLog \in Nat /\ NextLog <= clock + 1 /\ \A f \in failures : f.id # NextLog
<1>1. CASE failures = {}
  BY <1>1 DEF NextLog, Types
<1>2. CASE failures # {}
  <2> DEFINE S == {f.id : f \in failures}
  <2>1. S \in SUBSET Nat /\ S # {} /\ \A n \in S : n <= clock
    BY <1>2 DEF Types, Logs
  <2>2. clock \in Nat
    BY DEF Types
  <2> HIDE DEF S
  <2>3. Max(S) \in S /\ \A n \in S : Max(S) >= n
    BY <2>1, <2>2, GreatestOne
  <2>4. NextLog = Max(S) + 1
    BY <1>2 DEF NextLog, S
  <2>5. \A f \in failures : f.id \in S
    BY DEF S
  <2>6. Max(S) \in Nat /\ Max(S) <= clock /\ \A f \in failures : f.id \in Nat /\ f.id <= Max(S)
    BY <2>1, <2>3, <2>5
  <2> HIDE DEF NextLog
  <2>7. QED
    BY <2>2, <2>4, <2>6
<1>3. QED
  BY <1>1, <1>2

LEMMA DerivedBefore ==
    ASSUME AlarmsBase, NEW v \in Viewers
    PROVE  \A a \in Derived(viewers[v].devices) : a.at <= clock
<1> DEFINE devices == viewers[v].devices
<1> SUFFICES ASSUME NEW a \in Derived(devices)
             PROVE  a.at <= clock
  OBVIOUS
<1>1. OfDevice(a, devices) \/ OfLink(a) \/ OfLog(a)
  BY DerivedIs
<1>2. QED
  BY <1>1 DEF OfDevice, OfLink, OfLog, AlarmsBase, Logs, Times

LEMMA ReadsKeepBase ==
    ASSUME AlarmsBase, NEW v \in Viewers, ReadDevices(v) \/ ReadRest(v) \/ Tick(v)
    PROVE  AlarmsBase'
<1>1. UNCHANGED <<clock, hosts, lines, failures, dismissed, counted>>
  BY DEF ReadDevices, ReadRest, Tick
<1>2. /\ viewers' \in [Viewers -> Request]
      /\ \A u \in Viewers \ {v} : viewers'[u] = viewers[u]
  BY ReadDevicesDoes, ReadRestDoes, TickDoes DEF AlarmsBase
<1>3. /\ IsFiniteSet(viewers'[v].alarms)
      /\ \A a, b \in viewers'[v].alarms : a.id = b.id => a = b
      /\ \A a \in viewers'[v].alarms : a.at <= clock
      /\ \A d \in DOMAIN Depths : viewers'[v].devices[d].seen <= clock
  <2>1. CASE ReadDevices(v)
    BY <2>1, ReadDevicesDoes, FS_EmptySet DEF AlarmsBase, Times
  <2>2. CASE ReadRest(v)
    <3> DEFINE all == Derived(viewers[v].devices)
    <3>1. viewers'[v].alarms \subseteq all
      BY <2>2, ReadRestDoes DEF AlarmsBase
    <3>2. IsFiniteSet(all) /\ \A a, b \in all : a.id = b.id => a = b
      BY DerivedFinite, DerivedById DEF AlarmsBase
    <3>3. \A a \in all : a.at <= clock
      BY DerivedBefore DEF AlarmsBase
    <3>4. \A d \in DOMAIN Depths : viewers'[v].devices[d].seen <= clock
      BY <2>2, ReadRestDoes DEF AlarmsBase, Types, NothingRead, Met
    <3> HIDE DEF all
    <3>5. QED
      BY <3>1, <3>2, <3>3, <3>4, FS_Subset
  <2>3. CASE Tick(v)
    <3>1. viewers'[v].alarms \subseteq viewers[v].alarms
      BY <2>3, TickDoes DEF AlarmsBase
    <3>2. QED
      BY <2>3, <3>1, TickDoes, FS_Subset DEF AlarmsBase, Lists, Times
  <2>4. QED
    BY <2>1, <2>2, <2>3
<1>4. Types'
  BY <1>1, <1>2 DEF AlarmsBase, Types
<1>5. Logs'
  BY <1>1 DEF AlarmsBase, Logs
<1>6. Lists'
  BY <1>1, <1>2, <1>3 DEF AlarmsBase, Lists
<1>7. Times'
  BY <1>1, <1>2, <1>3 DEF AlarmsBase, Times
<1>8. QED
  BY <1>4, <1>5, <1>6, <1>7 DEF AlarmsBase

LEMMA CommitKeepsBase ==
    ASSUME AlarmsBase, NEW v \in Viewers, Commit(v)
    PROVE  AlarmsBase'
<1> DEFINE keys == {Key(a) : a \in viewers[v].alarms}
<1>1. UNCHANGED <<clock, hosts, lines, failures>>
  BY DEF Commit
<1>2. /\ viewers' \in [Viewers -> Request]
      /\ \A u \in Viewers \ {v} : viewers'[u] = viewers[u]
      /\ UNCHANGED <<viewers[v].devices, viewers[v].alarms>>
  BY CommitDoes DEF AlarmsBase
<1>3. IsFiniteSet(viewers[v].alarms) /\ Cardinality(viewers[v].alarms) \in Nat
  BY FS_CardinalityType DEF AlarmsBase, Lists
<1>4. IsFiniteSet(keys) /\ keys \subseteq [id : AlarmIds, at : Nat]
  <2> DEFINE key == [a \in viewers[v].alarms |-> Key(a)]
  <2>1. key \in Surjection(viewers[v].alarms, keys)
    BY DEF Surjection
  <2>2. viewers[v].alarms \subseteq Alarm
    BY DEF AlarmsBase, Types, Request
  <2>3. keys \subseteq [id : AlarmIds, at : Nat]
    BY <2>2 DEF Alarm, Key
  <2> HIDE DEF key, keys
  <2>4. QED
    BY <1>3, <2>1, <2>3, FS_Surjection
<1>5. /\ dismissed' \in {dismissed, dismissed \cup keys}
      /\ counted' \in {counted, counted + Cardinality(viewers[v].alarms)}
  BY CommitDoes DEF AlarmsBase
<1>6. dismissed' \subseteq [id : AlarmIds, at : Nat] /\ counted' \in Nat
  <2> HIDE DEF keys
  <2>1. QED
    BY <1>3, <1>4, <1>5 DEF AlarmsBase, Types
<1>7. IsFiniteSet(dismissed')
  <2> HIDE DEF keys
  <2>1. IsFiniteSet(dismissed)
    BY DEF AlarmsBase, Lists
  <2>2. IsFiniteSet(dismissed \cup keys)
    BY <1>4, <2>1, FS_Union
  <2>3. QED
    BY <1>5, <2>1, <2>2
<1>8. Types' /\ Logs'
  BY <1>1, <1>2, <1>6 DEF AlarmsBase, Types, Logs
<1>9. Lists'
  BY <1>2, <1>7 DEF AlarmsBase, Lists
<1>10. Times'
  BY <1>1, <1>2 DEF AlarmsBase, Times
<1>11. QED
  BY <1>8, <1>9, <1>10 DEF AlarmsBase

\* The steps outside the requests: the world.
World ==
    \/ \E d \in DOMAIN Depths : SeeDevice(d)
    \/ \E l \in DOMAIN Cables : SeeLink(l) \/ RemoveLink(l)
    \/ Later \/ AgeDevices \/ AgeRows \/ Fail \/ DeleteFailure

LEMMA WorldDoes ==
    ASSUME Types, World \/ UNCHANGED alarmVars
    PROVE  /\ Untouched /\ UNCHANGED <<dismissed, counted>>
           /\ UNCHANGED <<hosts, lines, failures>> \/ \A v \in Viewers : ~viewers'[v].calm
<1>1. CASE Later \/ UNCHANGED alarmVars
  BY <1>1, StillUntouched DEF Later, alarmVars
<1>2. CASE \E d \in DOMAIN Depths : SeeDevice(d)
  BY <1>2, MovedDoes DEF SeeDevice
<1>3. CASE \E l \in DOMAIN Cables : SeeLink(l) \/ RemoveLink(l)
  BY <1>3, MovedDoes DEF SeeLink, RemoveLink
<1>4. CASE AgeDevices \/ AgeRows
  BY <1>4, MovedDoes DEF AgeDevices, AgeRows
<1>5. CASE Fail \/ DeleteFailure
  BY <1>5, MovedDoes DEF Fail, DeleteFailure
<1>6. QED
  BY <1>1, <1>2, <1>3, <1>4, <1>5 DEF World

LEMMA AgedRow ==
    ASSUME NEW row \in HostRow
    PROVE  Aged(row) \in HostRow /\ Aged(row).seen = row.seen
BY DEF Aged, HostRow, DownStates

\* The rows as they are after any step of the world.
LEMMA WorldRows ==
    ASSUME Types, Times, World \/ UNCHANGED alarmVars
    PROVE  /\ clock' \in 0..MaxTime /\ clock <= clock'
           /\ hosts' \in [DOMAIN Depths -> HostRow]
           /\ DOMAIN lines' \subseteq DOMAIN Cables /\ lines' \in [DOMAIN lines' -> HostRow]
           /\ \A d \in DOMAIN Depths : hosts'[d].seen <= clock'
           /\ \A l \in DOMAIN lines' : lines'[l].seen <= clock'
<1>0. Met(clock) \in HostRow /\ Met(clock).seen = clock /\ clock \in Nat /\ clock <= clock
  BY DEF Types, Met, HostRow
<1>1. CASE Later \/ Fail \/ DeleteFailure \/ UNCHANGED alarmVars
  <2>1. UNCHANGED <<hosts, lines>> /\ clock' \in 0..MaxTime /\ clock <= clock'
    BY <1>0, <1>1 DEF Types, Later, Fail, DeleteFailure, alarmVars
  <2>2. ASSUME NEW row \in HostRow, row.seen <= clock
        PROVE  row.seen <= clock'
    BY <1>0, <2>1, <2>2 DEF HostRow
  <2>3. QED
    BY <2>1, <2>2 DEF Types, Times
<1>2. CASE \E d \in DOMAIN Depths : SeeDevice(d)
  <2>1. PICK d \in DOMAIN Depths : hosts' = [hosts EXCEPT ![d] = Met(clock)] /\ UNCHANGED <<clock, lines>>
    BY <1>2 DEF SeeDevice
  <2>2. QED
    BY <1>0, <2>1 DEF Types, Times
<1>3. CASE \E l \in DOMAIN Cables : SeeLink(l)
  <2>1. PICK l \in DOMAIN Cables :
           /\ lines' = [k \in DOMAIN lines \cup {l} |-> IF k = l THEN Met(clock) ELSE lines[k]]
           /\ UNCHANGED <<clock, hosts>>
    BY <1>3 DEF SeeLink
  <2>2. DOMAIN lines' = DOMAIN lines \cup {l}
    BY <2>1
  <2>3. \A k \in DOMAIN lines' : lines'[k] \in HostRow /\ lines'[k].seen <= clock
    BY <1>0, <2>1 DEF Types, Times
  <2>4. lines' \in [DOMAIN lines' -> HostRow]
    BY <2>1, <2>3
  <2>5. QED
    BY <1>0, <2>1, <2>2, <2>3, <2>4 DEF Types, Times
<1>4. CASE \E l \in DOMAIN Cables : RemoveLink(l)
  <2>1. PICK l \in DOMAIN lines :
           lines' = [k \in DOMAIN lines \ {l} |-> lines[k]] /\ UNCHANGED <<clock, hosts>>
    BY <1>4 DEF RemoveLink
  <2>2. QED
    BY <1>0, <2>1 DEF Types, Times
<1>5. CASE AgeDevices
  <2>1. /\ hosts' = [d \in DOMAIN hosts |-> IF hosts[d].status = "OFFLINE" THEN hosts[d] ELSE Aged(hosts[d])]
        /\ UNCHANGED <<clock, lines>>
    BY <1>5 DEF AgeDevices
  <2>2. QED
    BY <1>0, <2>1, AgedRow DEF Types, Times
<1>6. CASE AgeRows
  <2>1. lines' = [l \in DOMAIN lines |-> Aged(lines[l])] /\ UNCHANGED <<clock, hosts>>
    BY <1>6 DEF AgeRows
  <2>2. QED
    BY <1>0, <2>1, AgedRow DEF Types, Times
<1>7. QED
  BY <1>1, <1>2, <1>3, <1>4, <1>5, <1>6 DEF World

LEMMA WorldLogs ==
    ASSUME Types, Logs, World \/ UNCHANGED alarmVars
    PROVE  Logs' /\ failures' \subseteq [id : Nat, at : Nat]
<1>1. CASE Fail
  <2> DEFINE new == [id |-> NextLog, at |-> clock']
  <2>1. failures' = failures \cup {new} /\ clock' = clock + 1
    BY <1>1 DEF Fail, NextLog
  <2>2. NextLog \in Nat /\ NextLog <= clock' /\ \A f \in failures : f.id # NextLog
    BY <2>1, NextLogIsNew
  <2>3. IsFiniteSet(failures')
    BY <2>1, FS_AddElement DEF Logs
  <2>4. \A f \in failures' : f.id \in Nat /\ f.at \in Nat /\ f.id <= clock' /\ f.at <= clock'
    BY <2>1, <2>2 DEF Types, Logs
  <2>5. \A f, g \in failures' : f.id = g.id => f = g
    BY <2>1, <2>2 DEF Logs
  <2>6. failures' \subseteq [id : Nat, at : Nat]
    BY <2>1, <2>2 DEF Types
  <2>7. QED
    BY <2>3, <2>4, <2>5, <2>6 DEF Logs
<1>2. CASE DeleteFailure
  <2>1. failures' \subseteq failures /\ clock' = clock
    BY <1>2 DEF DeleteFailure
  <2>2. QED
    BY <2>1, FS_Subset DEF Types, Logs
<1>3. CASE Later
  <2>1. failures' = failures /\ clock' = clock + 1
    BY <1>3 DEF Later
  <2>2. \A f \in failures : f.id \in Nat /\ f.at \in Nat /\ clock \in Nat
    BY DEF Types
  <2>3. QED
    BY <2>1, <2>2 DEF Types, Logs
<1>4. CASE UNCHANGED <<failures, clock>>
  BY <1>4 DEF Types, Logs
<1>5. QED
  BY <1>1, <1>2, <1>3, <1>4
  DEF World, alarmVars, SeeDevice, SeeLink, RemoveLink, AgeDevices, AgeRows

LEMMA WorldKeepsBase ==
    ASSUME AlarmsBase, World \/ UNCHANGED alarmVars
    PROVE  AlarmsBase'
<1>1. Untouched /\ UNCHANGED <<dismissed, counted>>
  BY WorldDoes DEF AlarmsBase
<1>2. /\ clock' \in 0..MaxTime /\ clock <= clock'
      /\ hosts' \in [DOMAIN Depths -> HostRow]
      /\ DOMAIN lines' \subseteq DOMAIN Cables /\ lines' \in [DOMAIN lines' -> HostRow]
      /\ \A d \in DOMAIN Depths : hosts'[d].seen <= clock'
      /\ \A l \in DOMAIN lines' : lines'[l].seen <= clock'
  BY WorldRows DEF AlarmsBase
<1>3. Logs' /\ failures' \subseteq [id : Nat, at : Nat]
  BY WorldLogs DEF AlarmsBase
<1>4. Types'
  BY <1>1, <1>2, <1>3 DEF AlarmsBase, Types, Untouched
<1>5. Lists'
  BY <1>1 DEF AlarmsBase, Lists, Untouched
<1>6. \A n \in Nat : n <= clock => n <= clock'
  BY <1>2 DEF AlarmsBase, Types
<1>7. ASSUME NEW v \in Viewers
      PROVE  /\ \A d \in DOMAIN Depths : viewers'[v].devices[d].seen <= clock'
             /\ \A a \in viewers'[v].alarms : a.at <= clock'
  <2>1. viewers[v] \in Request
    BY DEF AlarmsBase, Types
  <2>2. /\ \A d \in DOMAIN Depths : viewers[v].devices[d].seen \in Nat
        /\ \A a \in viewers[v].alarms : a.at \in Nat
    BY <2>1 DEF Request, HostRow, Alarm
  <2>3. QED
    BY <1>1, <1>6, <2>2 DEF AlarmsBase, Times, Untouched
<1>8. Times'
  BY <1>2, <1>7 DEF Times
<1>9. QED
  BY <1>3, <1>4, <1>5, <1>8 DEF AlarmsBase

LEMMA BaseStep == AlarmsBase /\ [AlarmsNext]_alarmVars => AlarmsBase'
<1> SUFFICES ASSUME AlarmsBase, [AlarmsNext]_alarmVars
             PROVE  AlarmsBase'
  OBVIOUS
<1>1. CASE World \/ UNCHANGED alarmVars
  BY <1>1, WorldKeepsBase
<1>2. CASE \E v \in Viewers : ReadDevices(v) \/ ReadRest(v) \/ Tick(v) \/ Commit(v)
  BY <1>2, ReadsKeepBase, CommitKeepsBase
<1>3. QED
  BY <1>1, <1>2 DEF AlarmsNext, World

LEMMA BaseInit == AlarmsInit => AlarmsBase
<1> SUFFICES ASSUME AlarmsInit
             PROVE  AlarmsBase
  OBVIOUS
<1>1. Met(0) \in HostRow /\ Met(0).seen = 0 /\ clock = 0
  BY DEF AlarmsInit, Met, HostRow
<1>2. NothingRead \in [DOMAIN Depths -> HostRow] /\ \A d \in DOMAIN Depths : NothingRead[d].seen = 0
  BY <1>1 DEF NothingRead
<1>3. /\ NoRequest \in Request /\ NoRequest.alarms = {} /\ NoRequest.devices = NothingRead
      /\ viewers = [v \in Viewers |-> NoRequest]
  BY <1>2 DEF AlarmsInit, NoRequest, Request
<1>4. Types
  BY <1>1, <1>3 DEF AlarmsInit, Types
<1>5. Logs /\ Lists
  BY <1>3, FS_EmptySet DEF AlarmsInit, Logs, Lists
<1>6. Times
  BY <1>1, <1>2, <1>3 DEF AlarmsInit, Times
<1>7. QED
  BY <1>4, <1>5, <1>6 DEF AlarmsBase

-----------------------------------------------------------------------------
(* The counts.                                                                   *)

\* A list holds as many alarms as it has keys.
LEMMA KeysCounted ==
    ASSUME NEW S, IsFiniteSet(S), \A a, b \in S : a.id = b.id => a = b
    PROVE  IsFiniteSet({Key(a) : a \in S}) /\ Cardinality({Key(a) : a \in S}) = Cardinality(S)
<1> DEFINE keys == {Key(a) : a \in S}
           key == [a \in S |-> Key(a)]
<1>1. \A a, b \in S : key[a] = key[b] => a.id = b.id
  BY DEF Key
<1>2. key \in [S -> keys] /\ \A k \in keys : \E a \in S : key[a] = k
  OBVIOUS
<1> HIDE DEF key, keys
<1>3. key \in Bijection(S, keys)
  <2>1. key \in Injection(S, keys)
    BY <1>1, <1>2 DEF Injection, IsInjective
  <2>2. key \in Surjection(S, keys)
    BY <1>2 DEF Surjection
  <2>3. QED
    BY <2>1, <2>2 DEF Bijection
<1>4. IsFiniteSet(keys) /\ Cardinality(keys) = Cardinality(S)
  BY <1>3, FS_Bijection DEF ExistsBijection
<1>5. QED
  BY <1>4 DEF keys

LEMMA CountsStep ==
    ASSUME AlarmsBase, CountsAddUp, [AlarmsNext]_alarmVars
    PROVE  CountsAddUp'
<1>1. CASE UNCHANGED <<dismissed, counted>>
  BY <1>1 DEF CountsAddUp
<1>2. ASSUME \E v \in Viewers : Commit(v), ~UNCHANGED <<dismissed, counted>>
      PROVE  CountsAddUp'
  <2>1. PICK v \in Viewers :
           /\ ~Conflicts(viewers[v].alarms)
           /\ dismissed' = dismissed \cup {Key(a) : a \in viewers[v].alarms}
           /\ counted' = counted + Cardinality(viewers[v].alarms)
    BY <1>2, CommitDoes DEF AlarmsBase
  <2> DEFINE keys == {Key(a) : a \in viewers[v].alarms}
  <2>2. IsFiniteSet(keys) /\ Cardinality(keys) = Cardinality(viewers[v].alarms)
    BY KeysCounted DEF AlarmsBase, Lists
  <2>3. dismissed \cap keys = {}
    BY <2>1 DEF Conflicts, Hidden
  <2>4. dismissed' = dismissed \cup keys /\ counted = Cardinality(dismissed) /\ IsFiniteSet(dismissed)
    BY <2>1 DEF CountsAddUp, AlarmsBase, Lists
  <2> HIDE DEF keys
  <2>5. Cardinality(dismissed \cup keys) = Cardinality(dismissed) + Cardinality(keys)
    <3>1. Cardinality(dismissed) \in Nat /\ Cardinality(keys) \in Nat /\ Cardinality(dismissed \cap keys) = 0
      BY <2>2, <2>3, <2>4, FS_CardinalityType, FS_EmptySet
    <3>2. Cardinality(dismissed \cup keys) =
              Cardinality(dismissed) + Cardinality(keys) - Cardinality(dismissed \cap keys)
      BY <2>2, <2>4, FS_Union
    <3>3. QED
      BY <3>1, <3>2
  <2>6. QED
    BY <2>1, <2>2, <2>4, <2>5 DEF CountsAddUp
<1>3. QED
  <2>1. CASE World \/ UNCHANGED alarmVars
    BY <1>1, <2>1, WorldDoes DEF AlarmsBase
  <2>2. CASE \E v \in Viewers : ReadDevices(v) \/ ReadRest(v) \/ Tick(v)
    BY <1>1, <2>2 DEF ReadDevices, ReadRest, Tick
  <2>3. QED
    BY <1>1, <1>2, <2>1, <2>2 DEF AlarmsNext, World

-----------------------------------------------------------------------------
(* Dismiss-all.                                                                  *)

\* What a dismiss-all of everything, during which nothing has moved, knows.
Cleared(v) ==
    viewers[v].calm =>
        /\ viewers[v].kind = "all"
        /\ viewers[v].step = "devices" => viewers[v].devices = hosts
        /\ viewers[v].step = "commit" => \A a \in Derived(hosts) : a \in viewers[v].alarms \/ Hidden(a)
        /\ viewers[v].step = "done" => \A a \in Derived(hosts) : Hidden(a)
AllCleared == \A v \in Viewers : Cleared(v)

\* The alarms are what the rows and the logs say.
LEMMA SameDerived ==
    ASSUME UNCHANGED <<hosts, lines, failures>>
    PROVE  Derived(hosts)' = Derived(hosts)
BY DEF Derived, Upstream, Newest

LEMMA ClearedStep ==
    ASSUME AlarmsBase, AllCleared, [AlarmsNext]_alarmVars
    PROVE  AllCleared'
<1>1. CASE World \/ UNCHANGED alarmVars
  <2>1. Untouched /\ UNCHANGED dismissed
    BY <1>1, WorldDoes DEF AlarmsBase
  <2>2. CASE \A v \in Viewers : ~viewers'[v].calm
    BY <2>2 DEF AllCleared, Cleared
  <2>3. CASE UNCHANGED <<hosts, lines, failures>>
    <3>1. Derived(hosts)' = Derived(hosts)
      BY <2>3, SameDerived
    <3>2. QED
      BY <2>1, <2>3, <3>1 DEF AllCleared, Cleared, Untouched, Hidden
  <2>4. QED
    BY <1>1, <2>2, <2>3, WorldDoes DEF AlarmsBase
<1>2. ASSUME NEW v \in Viewers, ReadDevices(v) \/ ReadRest(v) \/ Tick(v) \/ Commit(v)
      PROVE  AllCleared'
  <2>1. UNCHANGED <<hosts, lines, failures>> /\ dismissed \subseteq dismissed'
    BY <1>2, CommitDoes DEF ReadDevices, ReadRest, Tick, Commit, AlarmsBase
  <2>2. Derived(hosts)' = Derived(hosts)
    BY <2>1, SameDerived
  <2>3. \A a : Hidden(a) => Hidden(a)'
    BY <2>1 DEF Hidden, Key
  <2>4. ASSUME NEW u \in Viewers \ {v}
        PROVE  Cleared(u)'
    <3>1. viewers'[u] = viewers[u]
      BY <1>2, ReadDevicesDoes, ReadRestDoes, TickDoes, CommitDoes DEF AlarmsBase
    <3>2. QED
      BY <2>1, <2>2, <2>3, <3>1 DEF AllCleared, Cleared
  <2>5. Cleared(v)'
    <3>1. CASE ReadDevices(v)
      BY <2>1, <3>1, ReadDevicesDoes DEF AlarmsBase, Cleared
    <3>2. CASE ReadRest(v)
      <4>1. SUFFICES ASSUME viewers'[v].calm PROVE Cleared(v)'
        BY DEF Cleared
      <4>2. /\ viewers[v].calm /\ viewers'[v].kind = viewers[v].kind
            /\ viewers'[v].step \in {"listed", "commit"}
            /\ \A a \in Derived(viewers[v].devices) : a \in viewers'[v].alarms \/ Hidden(a)
        BY <3>2, <4>1, ReadRestDoes DEF AlarmsBase
      <4>3. viewers[v].devices = hosts /\ viewers[v].kind = "all"
        BY <3>2, <4>2 DEF AllCleared, Cleared, ReadRest
      <4>4. QED
        BY <2>2, <2>3, <4>2, <4>3 DEF Cleared
    <3>3. CASE Tick(v)
      BY <3>3, TickDoes DEF AlarmsBase, Cleared
    <3>4. CASE Commit(v)
      <4>1. SUFFICES ASSUME viewers'[v].calm PROVE Cleared(v)'
        BY DEF Cleared
      <4>2. /\ viewers[v].step = "commit" /\ viewers'[v].step = "done"
            /\ viewers'[v].kind = viewers[v].kind /\ viewers[v].calm
            /\ dismissed' = dismissed \cup {Key(a) : a \in viewers[v].alarms}
        BY <3>4, <4>1, CommitDoes DEF AlarmsBase
      <4>3. \A a \in Derived(hosts) : a \in viewers[v].alarms \/ Hidden(a)
        BY <4>2 DEF AllCleared, Cleared
      <4>4. \A a \in viewers[v].alarms : Hidden(a)'
        BY <4>2 DEF Hidden, Key
      <4>5. viewers[v].kind = "all"
        BY <4>2 DEF AllCleared, Cleared
      <4>6. QED
        BY <2>2, <2>3, <4>2, <4>3, <4>4, <4>5 DEF Cleared
    <3>5. QED
      BY <1>2, <3>1, <3>2, <3>3, <3>4
  <2>6. QED
    BY <2>4, <2>5 DEF AllCleared
<1>3. QED
  BY <1>1, <1>2 DEF AlarmsNext, World

-----------------------------------------------------------------------------
(* What was told of an outage.                                                   *)

\* A row that is down has not been seen for as long as that takes.
LeftAlone(row) ==
    /\ row.status = "STALE" => row.seen + StaleAfter <= clock
    /\ row.status = "OFFLINE" => row.seen + GoneAfter <= clock

\* Since it was told that the row is in this state, last seen then, the row has
\* been seen again or has only got worse.
Told(row, status, at) == at <= row.seen /\ (at = row.seen => row.status \in {status, "OFFLINE"})

Passed(x) ==
    /\ x.id[1] = "device" => x.at < clock /\ Told(hosts[x.id[2]], x.id[3], x.at)
    /\ x.id[1] = "link" => /\ x.at < clock
                           /\ x.id[2] \in DOMAIN lines => Told(lines[x.id[2]], x.id[3], x.at)

Snapshot(devices) ==
    \A d \in DOMAIN Depths : Down(devices[d]) =>
        devices[d].seen < clock /\ Told(hosts[d], devices[d].status, devices[d].seen)

Occurrences ==
    /\ \A d \in DOMAIN Depths : LeftAlone(hosts[d])
    /\ \A l \in DOMAIN lines : LeftAlone(lines[l])
    /\ \A x \in dismissed : Passed(x)
    /\ \A v \in Viewers : Snapshot(viewers[v].devices) /\ \A a \in viewers[v].alarms : Passed(a)

\* What the world's steps do to one row.
RowGoesOn(old, new) ==
    \/ new = old
    \/ new = Met(clock)
    \/ /\ new.seen = old.seen /\ LeftAlone(new)
       /\ old.status = "OFFLINE" => new.status = "OFFLINE"
       /\ old.status = "STALE" => new.status \in DownStates

LEMMA AgedGoesOn ==
    ASSUME clock \in Nat, NEW row \in HostRow, LeftAlone(row), row.seen <= clock
    PROVE  RowGoesOn(row, Aged(row))
<1>1. row.seen \in Nat /\ row.status \in {"ONLINE", "STALE", "OFFLINE"}
  BY DEF HostRow, DownStates
<1>2. Aged(row).seen = row.seen
  BY AgedRow
<1>3. Aged(row).status = IF clock - row.seen >= GoneAfter THEN "OFFLINE"
                         ELSE IF clock - row.seen >= StaleAfter THEN "STALE" ELSE "ONLINE"
  BY DEF Aged, HostRow
<1>4. QED
  BY <1>1, <1>2, <1>3 DEF RowGoesOn, LeftAlone, GoneAfter, StaleAfter, DownStates

LEMMA RowsGoOn ==
    ASSUME AlarmsBase, Occurrences, World \/ UNCHANGED alarmVars
    PROVE  /\ \A d \in DOMAIN Depths : RowGoesOn(hosts[d], hosts'[d])
           /\ \A l \in DOMAIN lines' : \/ l \in DOMAIN lines /\ RowGoesOn(lines[l], lines'[l])
                                       \/ lines'[l] = Met(clock)
<1>0. /\ clock \in Nat
      /\ \A d \in DOMAIN Depths : RowGoesOn(hosts[d], hosts[d])
      /\ \A l \in DOMAIN lines : RowGoesOn(lines[l], lines[l])
  BY DEF AlarmsBase, Types, RowGoesOn
<1>1. CASE UNCHANGED <<hosts, lines>>
  BY <1>0, <1>1
<1>2. CASE \E d \in DOMAIN Depths : SeeDevice(d)
  <2>1. PICK d \in DOMAIN Depths : hosts' = [hosts EXCEPT ![d] = Met(clock)] /\ UNCHANGED lines
    BY <1>2 DEF SeeDevice
  <2>2. \A e \in DOMAIN Depths : hosts'[e] = hosts[e] \/ hosts'[e] = Met(clock)
    BY <2>1 DEF AlarmsBase, Types
  <2>3. QED
    BY <1>0, <2>1, <2>2 DEF RowGoesOn
<1>3. CASE \E l \in DOMAIN Cables : SeeLink(l)
  <2>1. PICK l \in DOMAIN Cables :
           /\ lines' = [k \in DOMAIN lines \cup {l} |-> IF k = l THEN Met(clock) ELSE lines[k]]
           /\ UNCHANGED hosts
    BY <1>3 DEF SeeLink
  <2>2. \A k \in DOMAIN lines' : lines'[k] = Met(clock) \/ (k \in DOMAIN lines /\ lines'[k] = lines[k])
    BY <2>1
  <2>3. QED
    BY <1>0, <2>1, <2>2 DEF RowGoesOn
<1>4. CASE \E l \in DOMAIN Cables : RemoveLink(l)
  <2>1. PICK l \in DOMAIN lines : lines' = [k \in DOMAIN lines \ {l} |-> lines[k]] /\ UNCHANGED hosts
    BY <1>4 DEF RemoveLink
  <2>2. \A k \in DOMAIN lines' : k \in DOMAIN lines /\ lines'[k] = lines[k]
    BY <2>1
  <2>3. QED
    BY <1>0, <2>1, <2>2
<1>5. CASE AgeDevices
  <2>1. /\ hosts' = [d \in DOMAIN Depths |-> IF hosts[d].status = "OFFLINE" THEN hosts[d] ELSE Aged(hosts[d])]
        /\ UNCHANGED lines
    BY <1>5 DEF AgeDevices, AlarmsBase, Types
  <2>2. \A d \in DOMAIN Depths : RowGoesOn(hosts[d], Aged(hosts[d]))
    BY <1>0, AgedGoesOn DEF AlarmsBase, Types, Times, Occurrences
  <2>3. \A d \in DOMAIN Depths : hosts'[d] = hosts[d] \/ hosts'[d] = Aged(hosts[d])
    BY <2>1
  <2>4. QED
    BY <1>0, <2>1, <2>2, <2>3
<1>6. CASE AgeRows
  <2>1. lines' = [l \in DOMAIN lines |-> Aged(lines[l])] /\ UNCHANGED hosts
    BY <1>6 DEF AgeRows
  <2>2. \A l \in DOMAIN lines : RowGoesOn(lines[l], Aged(lines[l]))
    BY <1>0, AgedGoesOn DEF AlarmsBase, Types, Times, Occurrences
  <2>3. QED
    BY <1>0, <2>1, <2>2
<1>7. QED
  BY <1>1, <1>2, <1>3, <1>4, <1>5, <1>6 DEF World, Later, Fail, DeleteFailure, alarmVars

LEMMA ToldStays ==
    ASSUME clock \in Nat, NEW old \in HostRow, NEW new, RowGoesOn(old, new),
           NEW status \in DownStates, NEW at \in Nat, at < clock, Told(old, status, at)
    PROVE  Told(new, status, at)
<1>1. old.seen \in Nat /\ old.status \in {"ONLINE", "STALE", "OFFLINE"}
  BY DEF HostRow, DownStates
<1>2. CASE new = Met(clock)
  BY <1>2 DEF Told, Met
<1>3. CASE new # Met(clock)
  BY <1>1, <1>3 DEF RowGoesOn, Told, DownStates
<1>4. QED
  BY <1>2, <1>3

\* Passed, of the rows and the clock after the step.
LEMMA PassedStays ==
    ASSUME AlarmsBase, Occurrences, World \/ UNCHANGED alarmVars,
           NEW x, x.id \in AlarmIds, x.at \in Nat, Passed(x)
    PROVE  Passed(x)'
<1>0. clock \in Nat /\ clock' \in Nat /\ clock <= clock'
  BY WorldRows DEF AlarmsBase, Types
<1>1. /\ \A d \in DOMAIN Depths : RowGoesOn(hosts[d], hosts'[d])
      /\ \A l \in DOMAIN lines' : \/ l \in DOMAIN lines /\ RowGoesOn(lines[l], lines'[l])
                                  \/ lines'[l] = Met(clock)
  BY RowsGoOn
<1>2. CASE \E d \in DOMAIN Depths, s \in DownStates : x.id = <<"device", d, s>>
  <2>1. PICK d \in DOMAIN Depths, s \in DownStates : x.id = <<"device", d, s>>
    BY <1>2
  <2>2. x.at < clock /\ Told(hosts[d], s, x.at)
    BY <2>1 DEF Passed
  <2>3. Told(hosts'[d], s, x.at)
    BY <1>0, <1>1, <2>1, <2>2, ToldStays DEF AlarmsBase, Types
  <2>4. x.at < clock'
    BY <1>0, <2>2
  <2>5. QED
    BY <2>1, <2>3, <2>4 DEF Passed, Told
<1>3. CASE \E l \in DOMAIN Cables, s \in DownStates : x.id = <<"link", l, s>>
  <2>1. PICK l \in DOMAIN Cables, s \in DownStates : x.id = <<"link", l, s>>
    BY <1>3
  <2>2. x.at < clock /\ x.at < clock'
    BY <1>0, <2>1 DEF Passed
  <2>3. ASSUME l \in DOMAIN lines'
        PROVE  Told(lines'[l], s, x.at)
    <3>1. CASE lines'[l] = Met(clock)
      BY <1>0, <2>2, <3>1 DEF Told, Met
    <3>2. CASE l \in DOMAIN lines /\ RowGoesOn(lines[l], lines'[l])
      <4>1. Told(lines[l], s, x.at) /\ lines[l] \in HostRow
        BY <2>1, <3>2 DEF Passed, AlarmsBase, Types
      <4>2. QED
        BY <1>0, <2>1, <2>2, <3>2, <4>1, ToldStays
    <3>3. QED
      BY <1>1, <2>3, <3>1, <3>2
  <2>4. QED
    BY <2>1, <2>2, <2>3 DEF Passed, Told
<1>4. CASE \E n \in Nat : x.id = <<"log", n>>
  BY <1>4 DEF Passed
<1>5. QED
  BY <1>2, <1>3, <1>4 DEF AlarmIds

LEMMA WorldKeepsOccurrences ==
    ASSUME AlarmsBase, Occurrences, World \/ UNCHANGED alarmVars
    PROVE  Occurrences'
<1>0. clock \in Nat /\ clock' \in Nat /\ clock <= clock'
  BY WorldRows DEF AlarmsBase, Types
<1>1. /\ \A d \in DOMAIN Depths : RowGoesOn(hosts[d], hosts'[d])
      /\ \A l \in DOMAIN lines' : \/ l \in DOMAIN lines /\ RowGoesOn(lines[l], lines'[l])
                                  \/ lines'[l] = Met(clock)
  BY RowsGoOn
<1>2. Untouched /\ UNCHANGED dismissed
  BY WorldDoes DEF AlarmsBase
<1>3. ASSUME NEW old \in HostRow, LeftAlone(old), NEW new \in HostRow, RowGoesOn(old, new) \/ new = Met(clock)
      PROVE  LeftAlone(new)'
  <2>1. LeftAlone(new)
    BY <1>3 DEF RowGoesOn, LeftAlone, Met
  <2>2. new.seen \in Nat
    BY DEF HostRow
  <2>3. QED
    BY <1>0, <2>1, <2>2 DEF LeftAlone, StaleAfter, GoneAfter
<1>4. \A d \in DOMAIN Depths : LeftAlone(hosts[d])'
  BY <1>1, <1>3, WorldRows DEF AlarmsBase, Types, Occurrences
<1>5. \A l \in DOMAIN lines' : LeftAlone(lines[l])'
  <2> TAKE l \in DOMAIN lines'
  <2>1. lines'[l] \in HostRow
    BY WorldRows DEF AlarmsBase
  <2>2. CASE lines'[l] = Met(clock)
    BY <2>2 DEF LeftAlone, Met
  <2>3. CASE l \in DOMAIN lines /\ RowGoesOn(lines[l], lines'[l])
    BY <1>3, <2>1, <2>3 DEF AlarmsBase, Types, Occurrences
  <2>4. QED
    BY <1>1, <2>2, <2>3
<1>6. \A x \in dismissed' : Passed(x)'
  BY <1>2, PassedStays DEF AlarmsBase, Types, Occurrences
<1>7. ASSUME NEW v \in Viewers
      PROVE  Snapshot(viewers[v].devices)' /\ \A a \in viewers'[v].alarms : Passed(a)'
  <2>1. viewers[v] \in Request /\ UNCHANGED <<viewers[v].devices, viewers[v].alarms>>
    BY <1>2 DEF AlarmsBase, Types, Untouched
  <2>2. \A a \in viewers[v].alarms : a.id \in AlarmIds /\ a.at \in Nat /\ Passed(a)
    BY <2>1 DEF Request, Alarm, Occurrences
  <2>3. \A a \in viewers'[v].alarms : Passed(a)'
    BY <2>1, <2>2, PassedStays
  <2>4. ASSUME NEW d \in DOMAIN Depths, Down(viewers[v].devices[d])
        PROVE  /\ viewers[v].devices[d].seen < clock'
               /\ Told(hosts'[d], viewers[v].devices[d].status, viewers[v].devices[d].seen)
    <3>1. /\ viewers[v].devices[d].seen < clock
          /\ Told(hosts[d], viewers[v].devices[d].status, viewers[v].devices[d].seen)
      BY <2>4 DEF Occurrences, Snapshot
    <3>2. /\ viewers[v].devices[d].seen \in Nat /\ viewers[v].devices[d].status \in DownStates
          /\ hosts[d] \in HostRow
      BY <2>1, <2>4 DEF Request, HostRow, Down, DownStates, AlarmsBase, Types
    <3>3. QED
      BY <1>0, <1>1, <3>1, <3>2, ToldStays
  <2>5. Snapshot(viewers[v].devices)'
    BY <2>1, <2>4 DEF Snapshot, Told
  <2>6. QED
    BY <2>3, <2>5
<1>8. QED
  BY <1>4, <1>5, <1>6, <1>7 DEF Occurrences

\* A row that is down was told of as it is.
LEMMA DownIsTold ==
    ASSUME clock \in Nat, NEW row \in HostRow, Down(row), LeftAlone(row)
    PROVE  row.seen < clock /\ Told(row, row.status, row.seen)
<1>1. row.seen \in Nat /\ row.status \in {"STALE", "OFFLINE"}
  BY DEF HostRow, Down
<1>2. QED
  BY <1>1 DEF LeftAlone, StaleAfter, GoneAfter, Told

LEMMA DerivedPassed ==
    ASSUME AlarmsBase, Occurrences, NEW devices \in [DOMAIN Depths -> HostRow], Snapshot(devices)
    PROVE  \A a \in Derived(devices) : Passed(a)
<1> SUFFICES ASSUME NEW a \in Derived(devices)
             PROVE  Passed(a)
  OBVIOUS
<1>1. CASE OfDevice(a, devices)
  <2>1. PICK d \in DOMAIN Depths :
              /\ Down(devices[d])
              /\ a = [id |-> <<"device", d, devices[d].status>>, at |-> devices[d].seen,
                      suppressed |-> Upstream(d, devices, lines) # {}]
    BY <1>1 DEF OfDevice
  <2>2. a.id[1] = "device" /\ a.id[2] = d /\ a.id[3] = devices[d].status /\ a.at = devices[d].seen
    BY <2>1
  <2>3. a.at < clock /\ Told(hosts[d], a.id[3], a.at)
    BY <2>1, <2>2 DEF Snapshot
  <2>4. QED
    BY <2>2, <2>3 DEF Passed
<1>2. CASE OfLink(a)
  <2>1. PICK l \in DOMAIN lines :
              /\ Down(lines[l])
              /\ a = [id |-> <<"link", l, lines[l].status>>, at |-> lines[l].seen, suppressed |-> FALSE]
    BY <1>2 DEF OfLink
  <2>2. a.id[1] = "link" /\ a.id[2] = l /\ a.id[3] = lines[l].status /\ a.at = lines[l].seen
    BY <2>1
  <2>3. lines[l].seen < clock /\ Told(lines[l], lines[l].status, lines[l].seen)
    BY <2>1, DownIsTold DEF AlarmsBase, Types, Occurrences
  <2>4. QED
    BY <2>2, <2>3 DEF Passed
<1>3. CASE OfLog(a)
  <2>1. a.id[1] = "log"
    BY <1>3 DEF OfLog
  <2>2. QED
    BY <2>1 DEF Passed
<1>4. QED
  BY <1>1, <1>2, <1>3, DerivedIs

LEMMA RequestsKeepOccurrences ==
    ASSUME AlarmsBase, Occurrences, NEW v \in Viewers, ReadDevices(v) \/ ReadRest(v) \/ Tick(v) \/ Commit(v)
    PROVE  Occurrences'
<1>1. /\ UNCHANGED <<clock, hosts, lines>>
      /\ \A u \in Viewers \ {v} : viewers'[u] = viewers[u]
  BY ReadDevicesDoes, ReadRestDoes, TickDoes, CommitDoes
  DEF ReadDevices, ReadRest, Tick, Commit, AlarmsBase
<1>2. /\ \A x : Passed(x) => Passed(x)'
      /\ \A devices : Snapshot(devices) => \A d \in DOMAIN Depths : Down(devices[d]) =>
            devices[d].seen < clock' /\ Told(hosts'[d], devices[d].status, devices[d].seen)
  BY <1>1 DEF Passed, Snapshot
<1>3. viewers[v] \in Request /\ Snapshot(viewers[v].devices) /\ \A a \in viewers[v].alarms : Passed(a)
  BY DEF AlarmsBase, Types, Occurrences
<1>4. Snapshot(viewers'[v].devices) /\ \A a \in viewers'[v].alarms : Passed(a)
  <2>1. CASE ReadDevices(v)
    <3>1. Snapshot(hosts)
      BY DownIsTold DEF AlarmsBase, Types, Occurrences, Snapshot
    <3>2. QED
      BY <2>1, <3>1, ReadDevicesDoes DEF AlarmsBase
  <2>2. CASE ReadRest(v)
    <3>1. \A a \in Derived(viewers[v].devices) : Passed(a)
      BY <1>3, DerivedPassed DEF Request
    <3>2. Snapshot(NothingRead)
      BY DEF Snapshot, NothingRead, Met, Down
    <3>3. QED
      BY <2>2, <3>1, <3>2, ReadRestDoes DEF AlarmsBase
  <2>3. CASE Tick(v)
    BY <1>3, <2>3, TickDoes DEF AlarmsBase
  <2>4. CASE Commit(v)
    BY <1>3, <2>4, CommitDoes DEF AlarmsBase
  <2>5. QED
    BY <2>1, <2>2, <2>3, <2>4
<1>5. \A x \in dismissed' : Passed(x)
  <2>1. CASE Commit(v)
    <3>1. \A a \in viewers[v].alarms : Passed(Key(a))
      BY <1>3 DEF Passed, Key
    <3>2. dismissed' \subseteq dismissed \cup {Key(a) : a \in viewers[v].alarms}
      BY <2>1, CommitDoes DEF AlarmsBase
    <3>3. QED
      BY <3>1, <3>2 DEF Occurrences
  <2>2. CASE UNCHANGED dismissed
    BY <2>2 DEF Occurrences
  <2>3. QED
    BY <2>1, <2>2 DEF ReadDevices, ReadRest, Tick
<1>6. /\ \A d \in DOMAIN Depths : LeftAlone(hosts[d])'
      /\ \A l \in DOMAIN lines' : LeftAlone(lines[l])'
  BY <1>1 DEF Occurrences, LeftAlone
<1>7. ASSUME NEW u \in Viewers
      PROVE  Snapshot(viewers[u].devices)' /\ \A a \in viewers'[u].alarms : Passed(a)'
  <2>1. Snapshot(viewers'[u].devices) /\ \A a \in viewers'[u].alarms : Passed(a)
    BY <1>1, <1>4 DEF Occurrences
  <2>2. QED
    BY <1>2, <2>1 DEF Snapshot
<1>8. QED
  BY <1>2, <1>5, <1>6, <1>7 DEF Occurrences

-----------------------------------------------------------------------------
(* An outage that begins in a step shows.                                        *)

LEMMA OutageShows ==
    ASSUME AlarmsBase, Occurrences, [AlarmsNext]_alarmVars, hosts' # hosts \/ lines' # lines,
           NEW a \in Derived(hosts)', Hidden(a)'
    PROVE  a.id[1] = "log" \/ \E b \in Derived(hosts) : b.id = a.id
<1>1. World
  BY DEF AlarmsNext, World, alarmVars, ReadDevices, ReadRest, Tick, Commit
<1>2. /\ \A d \in DOMAIN Depths : RowGoesOn(hosts[d], hosts'[d])
      /\ \A l \in DOMAIN lines' : \/ l \in DOMAIN lines /\ RowGoesOn(lines[l], lines'[l])
                                  \/ lines'[l] = Met(clock)
  BY <1>1, RowsGoOn
<1>3. Passed(Key(a))
  BY <1>1, WorldDoes DEF Hidden, AlarmsBase, Occurrences
<1>4. AlarmsBase'
  BY BaseStep
\* A row that is down and was told of was down in the same state before.
<1>5. ASSUME NEW old \in HostRow, NEW new, RowGoesOn(old, new), Down(new),
             new.seen < clock, Told(old, new.status, new.seen)
      PROVE  Down(old) /\ old.status = new.status
  BY <1>5 DEF RowGoesOn, Told, Down, Met
<1>6. CASE OfDevice(a, hosts)'
  <2>1. PICK d \in DOMAIN Depths :
              /\ Down(hosts'[d])
              /\ a = [id |-> <<"device", d, hosts'[d].status>>, at |-> hosts'[d].seen,
                      suppressed |-> Upstream(d, hosts', lines') # {}]
    BY <1>6 DEF OfDevice, Down, Upstream
  <2>2. a.id = <<"device", d, hosts'[d].status>> /\ a.at = hosts'[d].seen
    BY <2>1
  <2>3. hosts'[d].seen < clock /\ Told(hosts[d], hosts'[d].status, hosts'[d].seen)
    BY <1>3, <2>2 DEF Passed, Key
  <2>4. Down(hosts[d]) /\ hosts[d].status = hosts'[d].status
    BY <1>2, <1>5, <2>1, <2>3 DEF AlarmsBase, Types
  <2>5. QED
    BY <2>2, <2>4, DerivedAre
<1>7. CASE OfLink(a)'
  <2>1. PICK l \in DOMAIN lines' :
              /\ Down(lines'[l])
              /\ a = [id |-> <<"link", l, lines'[l].status>>, at |-> lines'[l].seen, suppressed |-> FALSE]
    BY <1>7 DEF OfLink, Down
  <2>2. a.id = <<"link", l, lines'[l].status>> /\ a.at = lines'[l].seen
    BY <2>1
  <2>3. l \in DOMAIN lines /\ RowGoesOn(lines[l], lines'[l])
    BY <1>2, <2>1 DEF Down, Met
  <2>4. lines'[l].seen < clock /\ Told(lines[l], lines'[l].status, lines'[l].seen)
    BY <1>3, <2>2, <2>3 DEF Passed, Key
  <2>5. Down(lines[l]) /\ lines[l].status = lines'[l].status
    BY <1>5, <2>1, <2>3, <2>4 DEF AlarmsBase, Types
  <2>6. QED
    BY <2>2, <2>3, <2>5, DerivedAre
<1>8. CASE OfLog(a)'
  <2>1. a.id[1] = "log"
    BY <1>8 DEF OfLog
  <2>2. QED
    BY <2>1
<1>9. OfDevice(a, hosts)' \/ OfLink(a)' \/ OfLog(a)'
  BY DEF Derived, OfDevice, OfLink, OfLog, Newest
<1>10. QED
  BY <1>6, <1>7, <1>8, <1>9

-----------------------------------------------------------------------------
(* The theorems.                                                                 *)

AlarmsInv == AlarmsBase /\ CountsAddUp /\ AllCleared /\ Occurrences

(* All of it, for any number of devices, links and requests.                     *)
THEOREM AlarmsAlways == AlarmsSpec => []AlarmsInv
<1>1. AlarmsInit => AlarmsInv
  <2> SUFFICES ASSUME AlarmsInit
               PROVE  AlarmsInv
    OBVIOUS
  <2>1. AlarmsBase
    BY BaseInit
  <2>2. CountsAddUp
    BY FS_EmptySet DEF AlarmsInit, CountsAddUp
  <2>3. \A v \in Viewers : viewers[v] = NoRequest
    BY DEF AlarmsInit
  <2>4. AllCleared
    BY <2>3 DEF AllCleared, Cleared, NoRequest
  <2>5. Occurrences
    BY <2>3 DEF AlarmsInit, Occurrences, LeftAlone, Met, NoRequest, NothingRead, Snapshot, Down
  <2>6. QED
    BY <2>1, <2>2, <2>4, <2>5 DEF AlarmsInv
<1>2. AlarmsInv /\ [AlarmsNext]_alarmVars => AlarmsInv'
  <2> SUFFICES ASSUME AlarmsInv, [AlarmsNext]_alarmVars
               PROVE  AlarmsInv'
    OBVIOUS
  <2>1. AlarmsBase' /\ CountsAddUp' /\ AllCleared'
    BY BaseStep, CountsStep, ClearedStep DEF AlarmsInv
  <2>2. Occurrences'
    <3>1. CASE World \/ UNCHANGED alarmVars
      BY <3>1, WorldKeepsOccurrences DEF AlarmsInv
    <3>2. CASE \E v \in Viewers : ReadDevices(v) \/ ReadRest(v) \/ Tick(v) \/ Commit(v)
      BY <3>2, RequestsKeepOccurrences DEF AlarmsInv
    <3>3. QED
      BY <3>1, <3>2 DEF AlarmsNext, World
  <2>3. QED
    BY <2>1, <2>2 DEF AlarmsInv
<1>3. QED
  BY <1>1, <1>2, PTL DEF AlarmsSpec

(* The types, the ids and the times of the rows and of the alarms of every       *)
(* request.                                                                      *)
THEOREM AlarmsTypes == AlarmsSpec => []AlarmsTypeOK
<1>1. AlarmsBase => AlarmsTypeOK
  <2> SUFFICES ASSUME AlarmsBase
               PROVE  AlarmsTypeOK
    OBVIOUS
  <2>1. \A d \in DOMAIN Depths : hosts[d].status \in {"ONLINE", "STALE", "OFFLINE"} /\ hosts[d].seen <= clock
    BY DEF AlarmsBase, Types, Times, HostRow, DownStates
  <2>2. \A f \in failures : f.at <= clock /\ \A g \in failures \ {f} : g.id # f.id
    BY DEF AlarmsBase, Logs
  <2>3. \A v \in Viewers :
           /\ viewers[v].step \in {"new", "devices", "listed", "commit", "done"}
           /\ \A a, b \in viewers[v].alarms : a.at <= clock /\ (a.id = b.id => a = b)
    BY DEF AlarmsBase, Types, Request, Lists, Times
  <2>4. QED
    BY <2>1, <2>2, <2>3 DEF AlarmsTypeOK, AlarmsBase, Types
<1>2. AlarmsInv => AlarmsTypeOK
  BY <1>1 DEF AlarmsInv
<1>3. QED
  BY <1>2, AlarmsAlways, PTL

(* What the page tells an operator, for any number of overlapping requests:      *)
(* what is suppressed has a root cause that is not, the counts that were told    *)
(* add up to what is dismissed, a dismiss-all that nothing disturbed leaves the  *)
(* page empty, and an outage is never hidden by what was dismissed before it.    *)
THEOREM PageSound == AlarmsSpec => PageIsSound
<1>1. AlarmsInv => RootShown /\ CountsAddUp /\ DismissAllClears
  <2>1. AllCleared => DismissAllClears
    BY DEF AllCleared, Cleared, DismissAllClears
  <2>2. QED
    BY <2>1, RootAlways DEF AlarmsInv
<1>2. AlarmsInv /\ [AlarmsNext]_alarmVars =>
        [hosts' # hosts \/ lines' # lines =>
            \A a \in Derived(hosts)' :
               Hidden(a)' => \/ a.id[1] = "log"
                             \/ \E b \in Derived(hosts) : b.id = a.id]_alarmVars
  BY OutageShows DEF AlarmsInv
<1>3. AlarmsSpec => OutagesShow
  BY <1>2, AlarmsAlways, PTL DEF AlarmsSpec, OutagesShow
<1>4. QED
  BY <1>1, <1>3, AlarmsAlways, PTL DEF PageIsSound
=============================================================================
