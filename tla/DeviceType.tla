-------------------------------- MODULE DeviceType --------------------------------
(* What kind of device the evidence of a scan makes of a host                   *)
(* (classification/device_type.py): scores that add up, a threshold, a margin   *)
(* over the runner-up, and two signatures that decide alone. The evidence is    *)
(* what the callers give: fields no caller sets (WMI, NetBIOS, uname, Bonjour,  *)
(* the wireless ones, the vendors behind a port) and the answer to management,  *)
(* which every caller sets, add the same to every score and are left out.       *)
EXTENDS Integers, Sequences

Threshold == 60     \* CLASSIFICATION_THRESHOLD
Margin == 10        \* CLASSIFICATION_MIN_MARGIN
ReviewFloorLow == 20  \* mutant
ReviewFloor == 25   \* CLASSIFICATION_REVIEW_FLOOR

(* ClassificationEvidence. ports, svis and vlans say that there are enough of   *)
(* them; name is what the NSH/NHM naming rule reads from the host name.         *)
NoEvidence ==
    [bridge |-> FALSE, fdb |-> FALSE, lldp |-> FALSE, ports |-> FALSE, forwards |-> FALSE,
     routes |-> FALSE, svis |-> FALSE, vlans |-> FALSE, wan |-> FALSE, poe |-> FALSE,
     name |-> "other", onvif |-> FALSE, rtsp |-> FALSE, oui |-> "other", title |-> FALSE,
     descr |-> "none", smb |-> FALSE, ssh |-> "none", ttl |-> "none"]

Names == {"other", "L2", "L2_POE", "L3", "L3_POE"}
L2Types == {"L2_SWITCH", "L2_POE_SWITCH"}
L3Types == {"L3_SWITCH", "L3_POE_SWITCH"}
PoeTypes == {"L2_POE_SWITCH", "L3_POE_SWITCH"}

(* _SCORERS, in their order; ACCESS_POINT and HUB come last. *)
Scored == <<"L2_SWITCH", "L3_SWITCH", "ROUTER", "IP_CAMERA", "WINDOWS_PC", "LINUX_PC", "MAC_PC",
            "ACCESS_POINT", "HUB">>

Points(holds, n) == IF holds THEN n ELSE 0

\* mutants: no cap; a cap that reaches the threshold
L2ScoreUncapped(e) ==
    Points(e.bridge, 35) + Points(e.fdb, 25) + Points(e.lldp, 15) + Points(e.ports, 15) + Points(~e.forwards, 10)
L2ScoreAtThreshold(e) ==
    LET sum == L2ScoreUncapped(e) IN IF (e.routes \/ e.svis) /\ sum > Threshold THEN Threshold ELSE sum

L2Score(e) ==
    LET sum == Points(e.bridge, 35) + Points(e.fdb, 25) + Points(e.lldp, 15) + Points(e.ports, 15)
               + Points(~e.forwards, 10)
    IN  IF (e.routes \/ e.svis) /\ sum >= Threshold THEN Threshold - 1 ELSE sum
L3Score(e) ==
    Points(e.bridge \/ e.fdb, 25) + Points(e.lldp, 10) + Points(e.forwards, 20)
    + Points(e.routes, 20) + Points(e.svis, 15) + Points(e.vlans, 10)
RouterScore(e) ==
    Points(e.forwards, 30) + Points(e.routes, 30) + Points(e.svis, 20) + Points(~e.bridge, 10)
    + Points(e.wan, 10)

Score(e) ==
    [L2_SWITCH |-> L2Score(e), L3_SWITCH |-> L3Score(e), ROUTER |-> RouterScore(e),
     IP_CAMERA |-> Points(e.onvif, 45) + Points(e.rtsp, 20) + Points(e.oui = "CAMERA", 15)
                   + Points(e.title, 10) + Points(e.descr # "none", 10),
     WINDOWS_PC |-> Points(e.smb, 20) + Points(e.descr = "windows", 20) + Points(e.ttl = "WINDOWS", 15),
     LINUX_PC |-> Points(e.ssh # "none", 20) + Points(e.descr = "linux", 35) + Points(e.ssh = "linux", 15)
                  + Points(e.ttl = "UNIX", 15),
     MAC_PC |-> Points(e.oui = "APPLE", 20) + Points(e.ssh = "mac", 30) + Points(e.descr = "mac", 20)
                + Points(e.ttl = "UNIX", 10),
     ACCESS_POINT |-> Points(e.oui = "AP", 20), HUB |-> 0]

(* The best score, the first of the order among equals, and the next one. *)
Precedence(s, i, j) == s[Scored[i]] > s[Scored[j]] \/ (s[Scored[i]] = s[Scored[j]] /\ i <= j)
Best(s) == CHOOSE i \in DOMAIN Scored : \A j \in DOMAIN Scored : Precedence(s, i, j)
\* mutant: the next one in the order of the scorers
SecondListed(s) == s[Scored[IF Best(s) = Len(Scored) THEN 1 ELSE Best(s) + 1]]
SecondScore(s) ==
    LET rest == DOMAIN Scored \ {Best(s)}
    IN  s[Scored[CHOOSE i \in rest : \A j \in rest : Precedence(s, i, j)]]

\* mutant: PoE makes a switch of anything
PoeVariantOfAll(type, poe) == IF poe THEN "L2_POE_SWITCH" ELSE type

(* _apply_poe_variant *)
PoeVariant(type, poe) ==
    CASE type = "L2_SWITCH" /\ poe -> "L2_POE_SWITCH"
      [] type = "L3_SWITCH" /\ poe -> "L3_POE_SWITCH"
      [] OTHER -> type

(* classify_device_type: a camera that answers ONVIF; a switch whose name says  *)
(* what it is; the best score, if it is high and clear enough; else a guess to  *)
(* be reviewed, which never says PoE.                                           *)
Classified(e, s) ==
    LET best == Scored[Best(s)]
    IN  CASE e.onvif -> [type |-> "IP_CAMERA", method |-> "STRONG_SIGNATURE"]
          [] ~e.onvif /\ (e.bridge \/ e.fdb) /\ e.name \in Names \ {"other"} ->
               [type |-> PoeVariant(IF e.name \in {"L3", "L3_POE"} THEN "L3_SWITCH" ELSE "L2_SWITCH",
                                    e.name \in {"L2_POE", "L3_POE"}),
                method |-> "STRONG_SIGNATURE"]
          [] OTHER ->
               IF s[best] >= Threshold /\ s[best] - SecondScore(s) >= Margin
               THEN [type |-> PoeVariant(best, e.poe), method |-> "CONFIRMED"]
               ELSE [type |-> IF s[best] >= ReviewFloor THEN best ELSE "UNKNOWN", method |-> "REVIEW_REQUIRED"]

-----------------------------------------------------------------------------
(* One scan after another finds one item more or less, as when a walk goes      *)
(* unanswered: of the items a switch or a router gives, or of those an end      *)
(* device gives. The name "end" marks these here; it says nothing to the rule.   *)
VARIABLES evidence, scores, verdict
typeVars == <<evidence, scores, verdict>>

SwitchItems == {"bridge", "fdb", "lldp", "ports", "forwards", "routes", "svis", "vlans", "wan", "poe"}
EndItems == {"onvif", "rtsp", "title", "smb"}
Items(e) == IF e.name = "end" THEN EndItems ELSE SwitchItems

TypesInit ==
    /\ \/ \E n \in Names, t \in {"none", "UNIX"} : evidence = [NoEvidence EXCEPT !.name = n, !.ttl = t]
       \/ \E o \in {"other", "CAMERA", "APPLE", "AP"}, h \in {"none", "other", "linux", "mac"},
             t \in {"none", "WINDOWS", "UNIX"}, d \in {"none", "other", "windows", "linux", "mac"} :
             evidence = [NoEvidence EXCEPT !.name = "end", !.oui = o, !.ssh = h, !.ttl = t, !.descr = d]
    /\ scores = Score(evidence)
    /\ verdict = Classified(evidence, scores)

(* A default route is a route. *)
TypesNext == \E item \in Items(evidence) :
    /\ evidence' = [evidence EXCEPT ![item] = ~@]
    /\ evidence.wan' => evidence.routes'
    /\ scores' = Score(evidence')
    /\ verdict' = Classified(evidence', scores')

TypesSpec == TypesInit /\ [][TypesNext]_typeVars

-----------------------------------------------------------------------------
Base(type) == IF type \in L2Types THEN "L2_SWITCH" ELSE IF type \in L3Types THEN "L3_SWITCH" ELSE type

(* Type: of the types the program knows, an access point and a hub come out for *)
(* no evidence that its callers collect, and a PoE switch is never a guess.     *)
TypesTypeOK ==
    /\ verdict.type \in ((DOMAIN scores \ {"ACCESS_POINT", "HUB"}) \cup PoeTypes \cup {"UNKNOWN"})
    /\ verdict.method = "REVIEW_REQUIRED" => verdict.type \notin PoeTypes

(* A device with routes or SVIs of its own is never confirmed as a layer-2      *)
(* switch, however much of a switch it is; only its name can make it one.       *)
Layer3IsNotConfirmedLayer2 ==
    evidence.routes \/ evidence.svis =>
        ~(verdict.method = "CONFIRMED" /\ verdict.type \in L2Types)

(* The reference: a type is confirmed exactly when no signature decides and it  *)
(* alone is at the threshold and the margin above every other type, whatever    *)
(* the order of the scorers.                                                    *)
ConfirmedIsClear ==
    LET clear(t) == /\ scores[t] >= Threshold
                    /\ \A u \in DOMAIN scores \ {t} : scores[t] >= scores[u] + Margin
    IN  verdict.method # "STRONG_SIGNATURE" =>
            \A t \in DOMAIN scores :
                clear(t) <=> verdict.method = "CONFIRMED" /\ Base(verdict.type) = t

(* Whether a switch feeds PoE changes neither what kind of device it is nor how *)
(* certain that is.                                                             *)
PoeOnlyVaries ==
    [][evidence.poe' # evidence.poe =>
         Base(verdict'.type) = Base(verdict.type) /\ verdict'.method = verdict.method]_typeVars

(* One item that appears or gets lost between two scans does not turn one        *)
(* confirmed type into another, except that a layer-3 switch may come to be a   *)
(* layer-2 switch or a router, and back.                                        *)
OneItemDoesNotFlip ==
    [][verdict.method = "CONFIRMED" /\ verdict'.method = "CONFIRMED" =>
         \/ Base(verdict'.type) = Base(verdict.type)
         \/ "L3_SWITCH" \in {Base(verdict.type), Base(verdict'.type)}]_typeVars

(* What a confirmed type means, in parts. *)
ConfirmedIsSound == Layer3IsNotConfirmedLayer2 /\ ConfirmedIsClear

(* What one item of evidence more or less may do to the type, in parts. *)
VerdictIsStable == PoeOnlyVaries /\ OneItemDoesNotFlip
=============================================================================
