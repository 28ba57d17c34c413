--------------------------------- MODULE Alarms ---------------------------------
(* The alarms page (alarms.py, api/routes_alarms.py): there is no table of      *)
(* alarms, each request derives them from the devices, the links and the logs   *)
(* as it finds them, and a dismissal remembers one occurrence, the id of the    *)
(* alarm with the time it occurred. Requests run in threads: between the reads  *)
(* of one, and between its last read and its commit, others commit.             *)
(* Control logs, recorded changes and failed runs, which are added and deleted  *)
(* but never change, are one log of failures here, with the limit of the first  *)
(* two.                                                                         *)
EXTENDS Naturals, FiniteSets, FiniteSetsExt

CONSTANTS
    Depths,     \* a function: the devices and their discovery_depth
    Cables,     \* a function: the links that come and go, each a set of two devices
    Viewers,    \* the operators' requests
    LogLimit,   \* control_log_limit, config_change_limit
    MaxTime     \* bound on the clock

ASSUME AlarmsAssumption ==
    /\ IsFiniteSet(DOMAIN Depths) /\ IsFiniteSet(DOMAIN Cables)
    /\ \A d \in DOMAIN Depths : Depths[d] \in Nat
    /\ \A l \in DOMAIN Cables : Cables[l] \subseteq DOMAIN Depths
    /\ LogLimit \in Nat \ {0} /\ MaxTime \in Nat

VARIABLES
    clock,      \* utcnow()
    hosts,      \* network_device: status and last_seen_at
    lines,      \* network_link: the rows, status and last_seen_at
    failures,   \* device_control_log, config_change_log, discovery_run: ids and times
    dismissed,  \* dismissed_alarm, with the row's stay in the world as history
    viewers,    \* the requests and what their sessions hold
    counted     \* history: the sum of the dismissed_count answered

alarmVars == <<clock, hosts, lines, failures, dismissed, viewers, counted>>

StaleAfter == 1     \* STALE_AFTER_SECONDS, LINK_STALE_AFTER_SECONDS
GoneAfter == 2      \* OFFLINE_AFTER_SECONDS, LINK_DOWN_AFTER_SECONDS

\* mutant: stamped with the local time
MetLocal(now) == [status |-> "ONLINE", seen |-> now + 9]
(* A row that was just seen. *)
Met(now) == [status |-> "ONLINE", seen |-> now]

(* A request before it is made. calm is history: nothing that alarms are derived *)
(* from has moved since a dismiss-all of everything began.                      *)
NothingRead == [d \in DOMAIN Depths |-> Met(0)]
NoRequest == [step |-> "new", kind |-> "list", devices |-> NothingRead, alarms |-> {}, calm |-> FALSE]

AlarmsInit ==
    /\ clock = 0
    /\ hosts = [d \in DOMAIN Depths |-> Met(0)]
    /\ lines = [l \in DOMAIN Cables |-> Met(0)]
    /\ failures = {} /\ dismissed = {} /\ counted = 0
    /\ viewers = [v \in Viewers |-> NoRequest]

-----------------------------------------------------------------------------
Down(row) == row.status \in {"STALE", "OFFLINE"}

\* mutant: any neighbour that is down is taken for upstream
UpstreamAny(d, devices, rows) ==
    {e \in DOMAIN Depths \ {d} : Down(devices[e]) /\ \E l \in DOMAIN rows : Cables[l] = {d, e}}

(* _find_down_upstream: the neighbours nearer to the core that are down too. *)
Upstream(d, devices, rows) ==
    {e \in DOMAIN Depths \ {d} : /\ Down(devices[e]) /\ Depths[e] < Depths[d]
                                 /\ \E l \in DOMAIN rows : Cables[l] = {d, e}}

\* mutant: the limit leaves room for older ones as the newest are dismissed
NewestUndismissed ==
    LET left == {f \in failures : \A x \in dismissed : x.id # <<"log", f.id>> \/ x.at # f.at}
    IN  {f \in left : Cardinality({g \in left : g.at > f.at}) < LogLimit}
Newest == {f \in failures : Cardinality({g \in failures : g.at > f.at}) < LogLimit}

(* list_alarms, from the devices its first query read: what is down, and the    *)
(* newest failures. The status is part of the id.                               *)
Derived(devices) ==
    {[id |-> <<"device", d, devices[d].status>>, at |-> devices[d].seen,
      suppressed |-> Upstream(d, devices, lines) # {}] : d \in {e \in DOMAIN Depths : Down(devices[e])}}
    \cup {[id |-> <<"link", l, lines[l].status>>, at |-> lines[l].seen,
           suppressed |-> FALSE] : l \in {k \in DOMAIN lines : Down(lines[k])}}
    \cup {[id |-> <<"log", f.id>>, at |-> f.at, suppressed |-> FALSE] : f \in Newest}

Key(a) == [id |-> a.id, at |-> a.at]
\* mutant: an alarm is known by its id alone
HiddenById(a) == \E x \in dismissed : x.id = a.id
Hidden(a) == Key(a) \in dismissed

(* get_alarms, dismiss_alarms and dismiss_all_alarms begin. *)
ReadDevices(v) ==
    /\ viewers[v].step = "new"
    /\ \E kind \in {"list", "all"} :
         viewers' = [viewers EXCEPT ![v] = [@ EXCEPT !.step = "devices", !.kind = kind, !.devices = hosts,
                                                     !.alarms = {}, !.calm = kind = "all"]]
    /\ UNCHANGED <<clock, hosts, lines, failures, dismissed, counted>>

(* The links and the logs, then _filter_dismissed; dismiss-all may ask for the  *)
(* alarms that are not suppressed only.                                         *)
ReadRest(v) ==
    /\ viewers[v].step = "devices"
    /\ \E all \in BOOLEAN :
         /\ viewers[v].kind = "list" => all
         /\ viewers' = [viewers EXCEPT
              ![v].alarms = {a \in Derived(viewers[v].devices) : ~Hidden(a) /\ (all \/ ~a.suppressed)},
              ![v].step = IF viewers[v].kind = "list" THEN "listed" ELSE "commit",
              ![v].devices = NothingRead, ![v].calm = @ /\ all]
    /\ UNCHANGED <<clock, hosts, lines, failures, dismissed, counted>>

(* dismiss_alarms: the operator ticks alarms of a list, perhaps an old one; only *)
(* those not yet dismissed are added.                                           *)
Tick(v) ==
    /\ viewers[v].step = "listed"
    /\ \E ticked \in SUBSET viewers[v].alarms :
         /\ ticked # {}
         /\ viewers' = [viewers EXCEPT ![v].alarms = {a \in ticked : ~Hidden(a)},
                                       ![v].step = "commit", ![v].calm = FALSE]
    /\ UNCHANGED <<clock, hosts, lines, failures, dismissed, counted>>

\* mutant: an alarm that another request dismissed in between is passed over
ConflictsNever(alarms) == FALSE
(* The key of dismissed_alarm: what another request dismissed since the check.  *)
Conflicts(alarms) == \E a \in alarms : Hidden(a)

(* The commit stores all of them, or, with a 500, none. *)
Commit(v) ==
    /\ viewers[v].step = "commit"
    /\ IF Conflicts(viewers[v].alarms)
       THEN UNCHANGED <<dismissed, counted>> /\ viewers' = [viewers EXCEPT ![v].step = "done", ![v].calm = FALSE]
       ELSE /\ dismissed' = dismissed \cup {Key(a) : a \in viewers[v].alarms}
            /\ counted' = counted + Cardinality(viewers[v].alarms)
            /\ viewers' = [viewers EXCEPT ![v].step = "done"]
    /\ UNCHANGED <<clock, hosts, lines, failures>>

-----------------------------------------------------------------------------
(* What the alarms are derived from moves on. *)
Moved == viewers' = [v \in Viewers |-> [viewers[v] EXCEPT !.calm = FALSE]]


Later ==
    /\ clock < MaxTime /\ clock' = clock + 1
    /\ UNCHANGED <<hosts, lines, failures, dismissed, viewers, counted>>

(* resolve_or_create_device and _get_or_create_link on a sighting; a link that   *)
(* was deleted gets its id again, as SQLite gives it.                           *)
SeeDevice(d) ==
    /\ hosts[d] # Met(clock)
    /\ hosts' = [hosts EXCEPT ![d] = Met(clock)]
    /\ Moved /\ UNCHANGED <<clock, lines, failures, dismissed, counted>>
SeeLink(l) ==
    /\ lines' = [k \in DOMAIN lines \cup {l} |-> IF k = l THEN Met(clock) ELSE lines[k]]
    /\ lines' # lines
    /\ Moved /\ UNCHANGED <<clock, hosts, failures, dismissed, counted>>
RemoveLink(l) ==
    /\ l \in DOMAIN lines
    /\ lines' = [k \in DOMAIN lines \ {l} |-> lines[k]]
    /\ Moved /\ UNCHANGED <<clock, hosts, failures, dismissed, counted>>

(* mark_stale_and_offline_devices and update_link_liveness. *)
Aged(row) ==
    [row EXCEPT !.status = IF clock - row.seen >= GoneAfter THEN "OFFLINE"
                           ELSE IF clock - row.seen >= StaleAfter THEN "STALE" ELSE "ONLINE"]
AgeDevices ==
    /\ hosts' = [d \in DOMAIN hosts |-> IF hosts[d].status = "OFFLINE" THEN hosts[d] ELSE Aged(hosts[d])]
    /\ hosts' # hosts
    /\ Moved /\ UNCHANGED <<clock, lines, failures, dismissed, counted>>
AgeRows ==
    /\ lines' = [l \in DOMAIN lines |-> Aged(lines[l])]
    /\ lines' # lines
    /\ Moved /\ UNCHANGED <<clock, hosts, failures, dismissed, counted>>

(* A control fails, a rescan records a change, a run fails; and the operator    *)
(* deletes such entries. The next id is one above the highest; no two of them   *)
(* are of the same microsecond.                                                 *)
Fail ==
    /\ clock < MaxTime /\ clock' = clock + 1
    /\ failures' = failures \cup {[id |-> IF failures = {} THEN 1 ELSE Max({f.id : f \in failures}) + 1,
                                   at |-> clock']}
    /\ Moved /\ UNCHANGED <<hosts, lines, dismissed, counted>>
DeleteFailure ==
    /\ \E f \in failures : failures' = failures \ {f}
    /\ Moved /\ UNCHANGED <<clock, hosts, lines, dismissed, counted>>

AlarmsNext ==
    \/ \E v \in Viewers : ReadDevices(v) \/ ReadRest(v) \/ Tick(v) \/ Commit(v)
    \/ \E d \in DOMAIN Depths : SeeDevice(d)
    \/ \E l \in DOMAIN Cables : SeeLink(l) \/ RemoveLink(l)
    \/ Later \/ AgeDevices \/ AgeRows \/ Fail \/ DeleteFailure

AlarmsSpec == AlarmsInit /\ [][AlarmsNext]_alarmVars

-----------------------------------------------------------------------------
(* Type: nothing was seen in the future, an alarm of a request is of a row that *)
(* was down and has the time it was last seen.                                  *)
AlarmsTypeOK ==
    /\ clock \in 0..MaxTime /\ counted \in Nat
    /\ \A d \in DOMAIN Depths : hosts[d].status \in {"ONLINE", "STALE", "OFFLINE"} /\ hosts[d].seen <= clock
    /\ DOMAIN lines \subseteq DOMAIN Cables
    /\ \A f \in failures : f.at <= clock /\ \A g \in failures \ {f} : g.id # f.id
    /\ \A v \in Viewers :
         /\ viewers[v].step \in {"new", "devices", "listed", "commit", "done"}
         /\ \A a, b \in viewers[v].alarms : a.at <= clock /\ (a.id = b.id => a = b)

(* However the reads of a request fall between the writes of others, what is    *)
(* suppressed leads to a cause that is not: if any device is down, one that is   *)
(* down, and nearer to the core than all it suppresses, stands as a root cause.  *)
RootShown ==
    \A v \in Viewers : viewers[v].step = "devices" =>
        \A a \in Derived(viewers[v].devices) : a.suppressed =>
            \E b \in Derived(viewers[v].devices) :
                b.id[1] = "device" /\ ~b.suppressed /\ Depths[b.id[2]] < Depths[a.id[2]]

(* The counts that operators were told add up to the alarms that are dismissed, *)
(* however their requests overlap: none was counted twice, none half-stored.    *)
CountsAddUp == counted = Cardinality(dismissed)

(* After a dismiss-all of everything during which, and since which, nothing     *)
(* moved, the page is empty.                                                    *)
DismissAllClears ==
    \A v \in Viewers : viewers[v].step = "done" /\ viewers[v].kind = "all" /\ viewers[v].calm =>
        \A a \in Derived(hosts) : Hidden(a)

(* A device or a link that goes down shows, whatever was dismissed before: its  *)
(* earlier outages, its milder state, or the deleted row that had its id.       *)
OutagesShow ==
    [][hosts' # hosts \/ lines' # lines =>
         \A a \in Derived(hosts)' :
            Hidden(a)' => \/ a.id[1] = "log"
                          \/ \E b \in Derived(hosts) : b.id = a.id]_alarmVars

(* What the page and its requests tell an operator, in parts. *)
PageIsSound == []RootShown /\ []CountsAddUp /\ []DismissAllClears /\ OutagesShow
=============================================================================
