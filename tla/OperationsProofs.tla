--------------------------- MODULE OperationsProofs --------------------------
(* Proofs about MCOperations and the parts of it that have no module of proofs   *)
(* of their own: DeviceControl, for any requests and rescans; Migration, for any *)
(* servers, starts and earlier versions; and CredentialProfiles, for any runs,   *)
(* requests, devices and communities.                                            *)
EXTENDS MCOperations, AlarmsProofs, DeviceScanProofs, CollectorProofs

-----------------------------------------------------------------------------
(* DeviceControl.                                                                *)

PortTexts == Words \cup {None}
DeviceRoles == {"CORE_SWITCH", "FLOOR_SWITCH"}
ChangeRows == [port : Ports, field : Stored, old : PortTexts, new : PortTexts]
              \cup [port : {None}, field : {"ROLE"}, old : DeviceRoles, new : DeviceRoles]
RequestRows ==
    [step : {"new", "alias", "set", "read", "done"}, port : Ports \cup {None}, kind : Kinds \cup {None},
     want : PortTexts, force : BOOLEAN, before : PortTexts, row : PoeRows \cup {None},
     reply : {None, "200", "403", "500"}]
RescanRows ==
    [step : {"idle", "read", "stored", "poe"}, calm : BOOLEAN, left : 0..MaxScans,
     seen : {None} \cup [Ports -> [Stored -> PortTexts]] \cup [Ports -> PortTexts]]

(* Types, and what a request that has been let through holds. *)
Pending(q) == q.step \in {"alias", "set", "read"} =>
    /\ q.port \in Ports /\ q.kind \in Kinds /\ q.want \in Words
    /\ q.kind = "POE" => q.before \in Words
    /\ q.step = "alias" => q.kind = "DESCRIPTION"
ControlTypes ==
    /\ real \in [Ports -> [Kinds -> Words]]
    /\ stored \in [Ports -> [Stored -> PortTexts]]
    /\ devRole \in [value : DeviceRoles, source : {"AUTO", "MANUAL"}]
    /\ shielded \in [Ports -> BOOLEAN] /\ poeOf \in [Ports -> Ports \cup {None}]
    /\ requests \in [Requests -> RequestRows]
    /\ poe \in [Ports -> PoeRows \cup {None}] /\ RowsApart(poe)
    /\ \A r \in Requests : Pending(requests[r])
    /\ changes \subseteq ChangeRows
    /\ scan \in RescanRows
    /\ scan.step = "read" => scan.seen \in [Ports -> [Stored -> PortTexts]]
    /\ scan.step = "poe" => scan.seen \in [Ports -> PortTexts]

(* What the rescan holds is true as long as no control moved. *)
ScanIsTrue ==
    scan.calm => \A p \in Ports :
        /\ scan.step = "read" => \A k \in Stored : scan.seen[p][k] = real[p][k]
        /\ scan.step \in {"stored", "poe", "idle"} => \A k \in Stored : stored[p][k] = real[p][k]
        /\ scan.step = "poe" => scan.seen[p] = real[p]["POE"]
        /\ scan.step = "idle" => poe[p] # None /\ poe[p].enabled = (real[p]["POE"] = "ENABLED")

(* A request that is not done has no entry. *)
NoEntryYet == \A r \in Requests, e \in audit : e.by = r => requests[r].step = "done"

(* A request that has passed the check of a protected port may go on. *)
Allowed == \A r \in Requests : requests[r].step = "set" /\ shielded[requests[r].port] =>
               requests[r].force \/ requests[r].want \in {"UP", "ENABLED"}

ControlInv == ControlTypes /\ ScanIsTrue /\ NoEntryYet /\ Allowed /\ SuccessIsTrue /\ AnswersAreLogged

-----------------------------------------------------------------------------
(* The words of the application: what a port can be, and UNKNOWN.               *)
LEMMA AllWords == Words = {"UP", "DOWN", "ENABLED", "DISABLED", "10", "20", "uplink", "camera", "UNKNOWN"}
  BY DEF Words, Values, Kinds

LEMMA ControlInitInv == ControlInit => ControlInv
<1> SUFFICES ASSUME ControlInit PROVE ControlInv
  OBVIOUS
<1>1. real \in [Ports -> [Kinds -> Words]] /\ stored \in [Ports -> [Stored -> PortTexts]]
  BY AllWords DEF ControlInit, Kinds, Stored, Usual, PortTexts
<1>2. /\ devRole \in [value : DeviceRoles, source : {"AUTO", "MANUAL"}]
      /\ shielded \in [Ports -> BOOLEAN] /\ poeOf \in [Ports -> Ports \cup {None}]
  BY DEF ControlInit, DeviceRoles
<1>3. requests \in [Requests -> RequestRows] /\ \A r \in Requests : Pending(requests[r])
  BY DEF ControlInit, Unmade, RequestRows, PortTexts, Pending
<1>4. poe \in [Ports -> PoeRows \cup {None}] /\ RowsApart(poe)
  <2>1. [id : PoeIds, enabled : {TRUE}, status : {"ENABLED"}] \subseteq PoeRows
    BY AllWords DEF PoeRows
  <2> QED
    BY <2>1 DEF ControlInit
<1>5. changes \subseteq ChangeRows
  <2>1. Recorded(None, "ROLE", "FLOOR_SWITCH", "CORE_SWITCH") \subseteq ChangeRows
    BY DEF Recorded, ChangeRows, DeviceRoles
  <2>2. ASSUME NEW p \in Ports
        PROVE  Recorded(p, "PORT", "UNKNOWN", "UP") \cup Recorded(p, "VLAN", "20", "10") \subseteq ChangeRows
    BY AllWords DEF Recorded, ChangeRows, PortTexts, Stored
  <2> QED
    BY <2>1, <2>2 DEF ControlInit
<1>6. scan.step = "idle" /\ ~scan.calm /\ scan \in RescanRows
  <2>1. PICK n \in 0..MaxScans : scan = [Idle EXCEPT !.left = n]
    BY DEF ControlInit
  <2> QED
    BY <2>1, ControlAssumption DEF Idle, RescanRows
<1>7. ControlTypes
  BY <1>1, <1>2, <1>3, <1>4, <1>5, <1>6 DEF ControlTypes
<1>8. ScanIsTrue /\ NoEntryYet /\ Allowed /\ SuccessIsTrue /\ AnswersAreLogged
  BY <1>6 DEF ControlInit, ScanIsTrue, NoEntryYet, Allowed, SuccessIsTrue, AnswersAreLogged, Unmade
<1> QED
  BY <1>7, <1>8 DEF ControlInv

-----------------------------------------------------------------------------
(* A request that ends with its entry: the log stays sound if the entry is.     *)
LEMMA LoggedKeeps ==
  ASSUME ControlInv, NEW r \in Requests, NEW entry, NEW status \in {"200", "403"},
         requests[r].step # "done", entry.by = r, entry.kind \in Kinds,
         entry.answer = "whole" => (entry.result = "SUCCESS" <=> entry.found[Addressed(entry)] = entry.requested),
         Logged(r, entry, status), UNCHANGED poeOf
  PROVE  /\ requests' \in [Requests -> RequestRows]
         /\ \A q \in Requests : Pending(requests'[q])
         /\ requests'[r].step = "done" /\ \A q \in Requests \ {r} : requests'[q] = requests[q]
         /\ NoEntryYet' /\ SuccessIsTrue' /\ AnswersAreLogged'
<1> USE DEF ControlInv, ControlTypes
<1>1. requests' = [requests EXCEPT ![r] = Ended(entry.kind, status)] /\ audit' = audit \cup {entry}
  BY DEF Logged
<1>2. Ended(entry.kind, status) \in RequestRows /\ Pending(Ended(entry.kind, status))
      /\ Ended(entry.kind, status).step = "done" /\ Ended(entry.kind, status).reply = status
  BY DEF Ended, Unmade, RequestRows, Pending, PortTexts
<1>3. requests'[r] = Ended(entry.kind, status) /\ \A q \in Requests \ {r} : requests'[q] = requests[q]
  BY <1>1
<1>4. requests' \in [Requests -> RequestRows] /\ \A q \in Requests : Pending(requests'[q])
  BY <1>1, <1>2, <1>3
<1>5. NoEntryYet' /\ SuccessIsTrue'
  BY <1>1, <1>2, <1>3 DEF NoEntryYet, SuccessIsTrue, Addressed
<1>6. AnswersAreLogged'
  BY <1>1, <1>2, <1>3 DEF AnswersAreLogged
<1> QED
  BY <1>2, <1>3, <1>4, <1>5, <1>6

(* A refusal: its entry says nothing of the device.                             *)
LEMMA DeniedKeeps ==
  ASSUME ControlInv, NEW r \in Requests, NEW q, NEW status \in {"200", "403"},
         requests[r].step # "done", q.kind \in Kinds, Denied(r, q, status), UNCHANGED poeOf
  PROVE  /\ requests' \in [Requests -> RequestRows]
         /\ \A x \in Requests : Pending(requests'[x])
         /\ requests'[r].step = "done" /\ \A x \in Requests \ {r} : requests'[x] = requests[x]
         /\ NoEntryYet' /\ SuccessIsTrue' /\ AnswersAreLogged'
<1> DEFINE entry == Entry(r, q, q.before, "DENIED", "none")
<1>1. entry.by = r /\ entry.kind \in Kinds /\ entry.answer # "whole" /\ Logged(r, entry, status)
  BY DEF Entry, Denied
<1> HIDE DEF entry
<1> QED
  BY <1>1, LoggedKeeps

(* A request is made: refused, or let through with leave.                       *)
LEMMA AskKeeps ==
  ASSUME ControlInv, NEW r \in Requests, NEW p \in Ports, NEW kind \in Kinds, NEW want \in Words,
         NEW force \in BOOLEAN,
         kind = "PORT" => want \in {"UP", "DOWN"}, kind = "POE" => want \in {"ENABLED", "DISABLED"},
         NEW denial \in {"200", "403"}, Ask(r, p, kind, want, force, denial)
  PROVE  ControlInv'
<1> USE DEF ControlInv, ControlTypes
<1> DEFINE q == Started(p, kind, want, force)
<1>1. requests[r].step = "new" /\ UNCHANGED <<real, stored, poe, shielded, poeOf, devRole, changes, scan>>
  BY DEF Ask
<1>2. ScanIsTrue'
  BY <1>1 DEF ScanIsTrue
<1>3. /\ q.port = p /\ q.kind = kind /\ q.want = want /\ q.force = force /\ q.before = StoredBefore(p, kind)
      /\ q.step = IF kind = "DESCRIPTION" THEN "alias" ELSE "set"
  BY DEF Started
<1>4. CASE kind # "DESCRIPTION" /\ Refused(q)
  <2>1. Denied(r, q, denial)
    BY <1>4 DEF Ask
  <2> HIDE DEF q
  <2>2. /\ requests' \in [Requests -> RequestRows]
        /\ \A x \in Requests : Pending(requests'[x])
        /\ requests'[r].step = "done" /\ \A x \in Requests \ {r} : requests'[x] = requests[x]
        /\ NoEntryYet' /\ SuccessIsTrue' /\ AnswersAreLogged'
    BY <1>1, <1>3, <2>1, DeniedKeeps
  <2>3. Allowed'
    BY <1>1, <2>2 DEF Allowed
  <2> QED
    BY <1>1, <1>2, <2>2, <2>3
<1>5. CASE ~(kind # "DESCRIPTION" /\ Refused(q))
  <2>1. requests' = [requests EXCEPT ![r] = q] /\ audit' = audit
    BY <1>5 DEF Ask
  <2>2. StoredBefore(p, kind) \in PortTexts /\ (kind = "POE" => StoredBefore(p, kind) \in Words)
    <3>1. CASE kind = "POE"
      BY <3>1, AllWords DEF StoredBefore, PortTexts, PoeRows
    <3>2. CASE kind # "POE"
      BY <3>2 DEF StoredBefore, PortTexts, Stored, Kinds
    <3> QED
      BY <3>1, <3>2
  <2>3. q \in RequestRows
    <3>1. (IF kind = "POE" THEN poe[p] ELSE None) \in PoeRows \cup {None}
      OBVIOUS
    <3> QED
      BY <2>2, <3>1 DEF Started, RequestRows, PortTexts
  <2>4. Pending(q) /\ q.step \in {"alias", "set"}
    BY <1>3, <2>2 DEF Pending
  <2>5. shielded[p] /\ q.step = "set" => q.force \/ q.want \in {"UP", "ENABLED"}
    BY <1>3, <1>5 DEF Refused, NeedsForce, Kinds
  <2> HIDE DEF q
  <2>6. requests'[r] = q /\ \A x \in Requests \ {r} : requests'[x] = requests[x]
    BY <2>1
  <2>7. requests' \in [Requests -> RequestRows] /\ \A x \in Requests : Pending(requests'[x])
    BY <2>1, <2>3, <2>4, <2>6
  <2>8. Allowed'
    BY <1>1, <1>3, <2>5, <2>6 DEF Allowed
  <2>9. NoEntryYet' /\ SuccessIsTrue' /\ AnswersAreLogged'
    BY <1>1, <2>1, <2>4, <2>6 DEF NoEntryYet, SuccessIsTrue, AnswersAreLogged, Addressed
  <2> QED
    BY <1>1, <1>2, <2>7, <2>8, <2>9
<1> QED
  BY <1>4, <1>5

LEMMA ControlKeeps ==
  ASSUME ControlInv, NEW r \in Requests, Control(r) PROVE ControlInv'
<1>1. PICK p \in Ports, kind \in Kinds, force \in BOOLEAN :
        \E want \in Values[kind] : Ask(r, p, kind, want, force, "403")
  BY DEF Control
<1>2. PICK want \in Values[kind] : Ask(r, p, kind, want, force, "403")
  BY <1>1
<1>3. want \in Words /\ (kind = "PORT" => want \in {"UP", "DOWN"}) /\ (kind = "POE" => want \in {"ENABLED", "DISABLED"})
  BY AllWords DEF Kinds, Values
<1> QED
  BY <1>2, <1>3, AskKeeps

LEMMA RestoreKeeps ==
  ASSUME ControlInv, NEW r \in Requests, Restore(r) PROVE ControlInv'
<1> USE DEF ControlInv, ControlTypes
<1>1. PICK c \in changes, force \in BOOLEAN : RestoreControl(r, c, force) \/ RestoreRole(r, c)
  BY DEF Restore
<1>2. CASE RestoreControl(r, c, force)
  <2> DEFINE want == IF c.field = "PORT" /\ c.old # "UP" THEN "DOWN" ELSE c.old
  <2>1. c.field \in Stored /\ c.old # None /\ Ask(r, c.port, c.field, want, force, "200")
    BY <1>2 DEF RestoreControl, Stored
  <2>2. c.old \in PortTexts /\ c.port \in Ports
    BY <2>1 DEF ChangeRows, Stored
  <2>3. want \in Words /\ (c.field = "PORT" => want \in {"UP", "DOWN"}) /\ c.field # "POE" /\ c.field \in Kinds
    BY <2>1, <2>2, AllWords DEF PortTexts, Stored, Kinds
  <2> HIDE DEF want
  <2> QED
    BY <2>1, <2>2, <2>3, AskKeeps
<1>3. CASE RestoreRole(r, c)
  <2>1. requests' = [requests EXCEPT ![r] = Ended(None, "200")] /\ UNCHANGED <<real, stored, poe, shielded, poeOf, audit, scan>>
    BY <1>3 DEF RestoreRole
  <2>2. c.old \in DeviceRoles /\ devRole.value \in DeviceRoles
    BY <1>3 DEF RestoreRole, ChangeRows, Stored
  <2>3. devRole' \in [value : DeviceRoles, source : {"AUTO", "MANUAL"}] /\ changes' \subseteq ChangeRows
    BY <1>3, <2>2 DEF RestoreRole, Recorded, ChangeRows
  <2>4. Ended(None, "200") \in RequestRows /\ Pending(Ended(None, "200")) /\ Ended(None, "200").step = "done"
        /\ Ended(None, "200").kind = None
    BY DEF Ended, Unmade, RequestRows, PortTexts, Pending
  <2>5. requests'[r] = Ended(None, "200") /\ \A p \in Requests \ {r} : requests'[p] = requests[p]
    BY <2>1
  <2>6. requests' \in [Requests -> RequestRows] /\ \A p \in Requests : Pending(requests'[p])
    BY <2>1, <2>4, <2>5
  <2>7. ScanIsTrue' /\ SuccessIsTrue'
    BY <2>1 DEF ScanIsTrue, SuccessIsTrue, Addressed
  <2>8. NoEntryYet' /\ Allowed' /\ AnswersAreLogged'
    BY <2>1, <2>4, <2>5 DEF NoEntryYet, Allowed, AnswersAreLogged
  <2> QED
    BY <2>1, <2>3, <2>6, <2>7, <2>8
<1> QED
  BY <1>1, <1>2, <1>3

LEMMA ReadAliasKeeps ==
  ASSUME ControlInv, NEW r \in Requests, ReadAlias(r) PROVE ControlInv'
<1> USE DEF ControlInv, ControlTypes
<1>1. PICK value \in {real[requests[r].port]["DESCRIPTION"], None} :
        LET q == [requests[r] EXCEPT !.before = value, !.step = "set"] IN
        IF Refused(q) THEN Denied(r, q, "403")
        ELSE requests' = [requests EXCEPT ![r] = q] /\ UNCHANGED audit
  BY DEF ReadAlias
<1> DEFINE q == [requests[r] EXCEPT !.before = value, !.step = "set"]
<1>2. requests[r].step = "alias" /\ UNCHANGED <<real, stored, poe, shielded, poeOf, devRole, changes, scan>>
  BY DEF ReadAlias
<1>3. requests[r].port \in Ports /\ requests[r].kind = "DESCRIPTION" /\ requests[r].want \in Words
      /\ requests[r] \in RequestRows
  BY <1>2 DEF Pending
<1>4. value \in PortTexts
  BY <1>3 DEF Kinds, PortTexts
<1>5. /\ q \in RequestRows /\ q.port = requests[r].port /\ q.kind = "DESCRIPTION" /\ q.want \in Words
      /\ q.step = "set" /\ q.force = requests[r].force
  BY <1>3, <1>4 DEF RequestRows
<1>6. ScanIsTrue'
  BY <1>2 DEF ScanIsTrue
<1>7. CASE Refused(q)
  <2>1. Denied(r, q, "403")
    BY <1>1, <1>7
  <2> HIDE DEF q
  <2>2. /\ requests' \in [Requests -> RequestRows]
        /\ \A p \in Requests : Pending(requests'[p])
        /\ requests'[r].step = "done" /\ \A p \in Requests \ {r} : requests'[p] = requests[p]
        /\ NoEntryYet' /\ SuccessIsTrue' /\ AnswersAreLogged'
    BY <1>2, <1>5, <2>1, DeniedKeeps DEF Kinds
  <2>3. Allowed'
    BY <1>2, <2>2 DEF Allowed
  <2> QED
    BY <1>2, <1>6, <2>2, <2>3
<1>8. CASE ~Refused(q)
  <2>1. requests' = [requests EXCEPT ![r] = q] /\ audit' = audit
    BY <1>1, <1>8
  <2>2. Pending(q) /\ (shielded[q.port] => q.force)
    BY <1>3, <1>5, <1>8 DEF Pending, Kinds, Refused, NeedsForce
  <2> HIDE DEF q
  <2>3. requests'[r] = q /\ \A p \in Requests \ {r} : requests'[p] = requests[p]
    BY <2>1
  <2>4. requests' \in [Requests -> RequestRows] /\ \A p \in Requests : Pending(requests'[p])
    BY <1>5, <2>1, <2>2, <2>3
  <2>5. NoEntryYet' /\ Allowed' /\ AnswersAreLogged' /\ SuccessIsTrue'
    BY <1>2, <1>5, <2>1, <2>2, <2>3 DEF NoEntryYet, Allowed, AnswersAreLogged, SuccessIsTrue, Addressed
  <2> QED
    BY <1>2, <1>6, <2>4, <2>5
<1> QED
  BY <1>7, <1>8

(* A SET leaves the device with words it can have, and the rescan not calm. *)
LEMMA SentKeeps ==
  ASSUME ControlInv, NEW r \in Requests, requests[r].step = "set", SetSent(requests[r])
  PROVE  /\ real' \in [Ports -> [Kinds -> Words]]
         /\ scan' \in RescanRows /\ scan'.step = scan.step /\ scan'.seen = scan.seen /\ ~scan'.calm
<1> USE DEF ControlInv, ControlTypes
<1>1. requests[r].kind \in Kinds /\ requests[r].want \in Words
  BY DEF Pending
<1> DEFINE hit(p) == IF p = Addressed(requests[r]) THEN [real[p] EXCEPT ![requests[r].kind] = requests[r].want]
                     ELSE real[p]
<1>2. real' \in {real, [p \in Ports |-> hit(p)]}
  BY DEF SetSent
<1>3. real' \in [Ports -> [Kinds -> Words]]
  <2>1. \A p \in Ports : hit(p) \in [Kinds -> Words]
    BY <1>1
  <2> HIDE DEF hit
  <2> QED
    BY <1>2, <2>1
<1>4. scan' \in RescanRows /\ scan'.step = scan.step /\ scan'.seen = scan.seen /\ ~scan'.calm
  BY DEF SetSent, RescanRows
<1> QED
  BY <1>3, <1>4

LEMMA SetKeeps ==
  ASSUME ControlInv, NEW r \in Requests, Set(r) PROVE ControlInv'
<1> USE DEF ControlInv, ControlTypes
<1>1. /\ requests[r].step = "set" /\ requests' = [requests EXCEPT ![r].step = "read"]
      /\ UNCHANGED <<stored, poe, shielded, poeOf, devRole, audit, changes>>
  BY DEF Set
<1>2. /\ real' \in [Ports -> [Kinds -> Words]]
      /\ scan' \in RescanRows /\ scan'.step = scan.step /\ scan'.seen = scan.seen /\ ~scan'.calm
  BY SentKeeps DEF Set
<1>3. requests[r] \in RequestRows /\ Pending(requests[r])
  OBVIOUS
<1> DEFINE q == [requests[r] EXCEPT !.step = "read"]
<1>4. q \in RequestRows /\ Pending(q) /\ q.step = "read"
  BY <1>1, <1>3 DEF RequestRows, Pending
<1>5. requests'[r] = q /\ \A p \in Requests \ {r} : requests'[p] = requests[p]
  BY <1>1
<1>6. requests' \in [Requests -> RequestRows] /\ \A p \in Requests : Pending(requests'[p])
  BY <1>1, <1>4, <1>5
<1> HIDE DEF q
<1>7. NoEntryYet' /\ Allowed' /\ AnswersAreLogged' /\ SuccessIsTrue' /\ ScanIsTrue'
  BY <1>1, <1>2, <1>4, <1>5 DEF NoEntryYet, Allowed, AnswersAreLogged, SuccessIsTrue, Addressed, ScanIsTrue
<1> QED
  BY <1>1, <1>2, <1>6, <1>7

LEMMA SetFailsKeeps ==
  ASSUME ControlInv, NEW r \in Requests, SetFails(r) PROVE ControlInv'
<1> USE DEF ControlInv, ControlTypes
<1> DEFINE entry == Entry(r, requests[r], requests[r].before, "FAILED", "error")
<1>1. /\ requests[r].step = "set" /\ Logged(r, entry, "200")
      /\ UNCHANGED <<stored, poe, shielded, poeOf, devRole, changes>>
  BY DEF SetFails
<1>2. /\ real' \in [Ports -> [Kinds -> Words]]
      /\ scan' \in RescanRows /\ scan'.step = scan.step /\ scan'.seen = scan.seen /\ ~scan'.calm
  BY SentKeeps DEF SetFails
<1>3. entry.by = r /\ entry.kind \in Kinds /\ entry.answer # "whole"
  BY <1>1 DEF Entry, Pending
<1> HIDE DEF entry
<1>4. /\ requests' \in [Requests -> RequestRows]
      /\ \A p \in Requests : Pending(requests'[p])
      /\ requests'[r].step = "done" /\ \A p \in Requests \ {r} : requests'[p] = requests[p]
      /\ NoEntryYet' /\ SuccessIsTrue' /\ AnswersAreLogged'
  BY <1>1, <1>3, LoggedKeeps
<1>5. Allowed' /\ ScanIsTrue'
  BY <1>1, <1>2, <1>4 DEF Allowed, ScanIsTrue
<1> QED
  BY <1>1, <1>2, <1>4, <1>5

(* What a re-read yields is a word or nothing. *)
LEMMA AfterTyped ==
  ASSUME ControlInv, NEW r \in Requests, requests[r].step = "read", NEW back \in Answers(requests[r])
  PROVE  /\ After(requests[r], back) \in PortTexts
         /\ back = "whole" => /\ Addressed(requests[r]) \in Ports
                              /\ After(requests[r], back) = real[Addressed(requests[r])][requests[r].kind]
         /\ requests[r].kind = "POE" => PoeAfter(requests[r], back) \in [enabled : BOOLEAN, status : Words]
<1> USE DEF ControlInv, ControlTypes
<1> DEFINE q == requests[r]
<1>1. q \in RequestRows /\ q.port \in Ports /\ q.kind \in Kinds /\ q.want \in Words
      /\ (q.kind = "POE" => q.before \in Words)
  BY DEF Pending
<1>2. back = "whole" => Addressed(q) \in Ports
  BY <1>1 DEF Answers, Addressed
<1>3. back = "whole" => After(q, back) = real[Addressed(q)][q.kind]
  BY DEF After
<1>4. After(q, back) \in PortTexts
  BY <1>1, <1>2, AllWords DEF After, PortTexts
<1>5. ASSUME q.kind = "POE" PROVE PoeAfter(q, back) \in [enabled : BOOLEAN, status : Words]
  <2>1. back = "whole" => real[Addressed(q)]["POE"] \in Words
    BY <1>2 DEF Kinds
  <2>2. q.row # None => q.row.status \in Words
    BY <1>1 DEF RequestRows, PoeRows
  <2> QED
    BY <1>1, <1>5, <2>1, <2>2 DEF PoeAfter
<1> QED
  BY <1>2, <1>3, <1>4, <1>5

(* The rows of PoE stay rows, and apart, whether one is inserted or updated.    *)
LEMMA PoeRowsKeep ==
  ASSUME ControlInv, NEW r \in Requests, NEW back, StorePoeRow(requests[r], back),
         requests[r].kind = "POE" =>
             requests[r].port \in Ports /\ PoeAfter(requests[r], back) \in [enabled : BOOLEAN, status : Words]
  PROVE  poe' \in [Ports -> PoeRows \cup {None}] /\ RowsApart(poe')
<1> USE DEF ControlInv, ControlTypes
<1> DEFINE q == requests[r]
           new == PoeAfter(q, back)
<1>1. CASE q.kind # "POE"
  BY <1>1 DEF StorePoeRow
<1>2. CASE q.kind = "POE" /\ q.row = None
  <2>1. PICK id \in PoeIds \ IdsInUse :
          poe' = [poe EXCEPT ![q.port] = [id |-> id, enabled |-> new.enabled, status |-> new.status]]
    BY <1>2 DEF StorePoeRow, InsertPoe
  <2> DEFINE row == [id |-> id, enabled |-> new.enabled, status |-> new.status]
  <2>2. new.enabled \in BOOLEAN /\ new.status \in Words
    BY <1>2
  <2> HIDE DEF new
  <2>3. row \in PoeRows /\ row.id = id
    BY <2>2 DEF PoeRows
  <2> HIDE DEF row
  <2>4. poe'[q.port] = row /\ \A p \in Ports \ {q.port} : poe'[p] = poe[p]
    BY <1>2, <2>1 DEF row
  <2>5. \A p \in Ports : poe[p] # None => poe[p].id # id
    BY DEF IdsInUse
  <2>6. poe' \in [Ports -> PoeRows \cup {None}]
    BY <1>2, <2>1, <2>3 DEF row
  <2>7. RowsApart(poe')
    BY <2>3, <2>4, <2>5 DEF RowsApart
  <2> QED
    BY <2>6, <2>7
<1>3. CASE q.kind = "POE" /\ q.row # None
  <2>1. poe' = [p \in Ports |-> IF poe[p] # None /\ poe[p].id = q.row.id THEN RowUpdated(poe[p], q, back) ELSE poe[p]]
    BY <1>3 DEF StorePoeRow, UpdatePoe
  <2>2. new.enabled \in BOOLEAN /\ new.status \in Words
    BY <1>3
  <2>3. ASSUME NEW p \in Ports, poe[p] # None
        PROVE  RowUpdated(poe[p], q, back) \in PoeRows /\ RowUpdated(poe[p], q, back).id = poe[p].id
    <3>1. poe[p] \in PoeRows
      BY <2>3
    <3>2. Assigned(poe[p].enabled, q.row.enabled, new.enabled) \in BOOLEAN
          /\ Assigned(poe[p].status, q.row.status, new.status) \in Words
      BY <2>2, <3>1 DEF Assigned, PoeRows
    <3> HIDE DEF new
    <3> QED
      BY <3>1, <3>2 DEF RowUpdated, PoeRows, new
  <2>4. \A p \in Ports : /\ poe'[p] \in PoeRows \cup {None}
                         /\ poe'[p] # None => poe[p] # None /\ poe'[p].id = poe[p].id
    BY <2>1, <2>3
  <2> QED
    BY <2>1, <2>4 DEF RowsApart
<1> QED
  BY <1>1, <1>2, <1>3

LEMMA RereadKeeps ==
  ASSUME ControlInv, NEW r \in Requests, Reread(r) PROVE ControlInv'
<1> USE DEF ControlInv, ControlTypes
<1> DEFINE q == requests[r]
           result(back) == IF After(q, back) = q.want THEN "SUCCESS" ELSE "FAILED"
<1>1. PICK back \in Answers(q) :
        IF q.kind = "POE" /\ PoeFails(q, back) THEN Lost(r)
        ELSE /\ Logged(r, Entry(r, q, After(q, back), result(back), back), "200")
             /\ StorePort(q, After(q, back)) /\ StorePoeRow(q, back)
  BY DEF Reread
<1>2. /\ q.step = "read" /\ scan' = [scan EXCEPT !.calm = FALSE]
      /\ UNCHANGED <<real, shielded, poeOf, devRole, changes>>
  BY DEF Reread
<1>3. q \in RequestRows /\ q.port \in Ports /\ q.kind \in Kinds /\ q.want \in Words
  BY <1>2 DEF Pending
<1>4. scan' \in RescanRows /\ scan'.step = scan.step /\ scan'.seen = scan.seen /\ ~scan'.calm
  BY <1>2 DEF RescanRows
<1>5. ScanIsTrue'
  BY <1>4 DEF ScanIsTrue
<1>6. CASE q.kind = "POE" /\ PoeFails(q, back)
  <2>1. requests' = [requests EXCEPT ![r] = Ended("POE", "500")] /\ UNCHANGED <<audit, stored, poe>>
    BY <1>1, <1>6 DEF Lost
  <2>2. Ended("POE", "500") \in RequestRows /\ Pending(Ended("POE", "500")) /\ Ended("POE", "500").step = "done"
        /\ Ended("POE", "500").kind = "POE" /\ Ended("POE", "500").reply = "500"
    BY DEF Ended, Unmade, RequestRows, PortTexts, Pending, Kinds
  <2>3. requests'[r] = Ended("POE", "500") /\ \A p \in Requests \ {r} : requests'[p] = requests[p]
    BY <2>1
  <2>4. requests' \in [Requests -> RequestRows] /\ \A p \in Requests : Pending(requests'[p])
    BY <2>1, <2>2, <2>3
  <2>5. ~\E e \in audit : e.by = r
    BY <1>2 DEF NoEntryYet
  <2>6. NoEntryYet' /\ Allowed' /\ AnswersAreLogged' /\ SuccessIsTrue'
    BY <1>2, <2>1, <2>2, <2>3, <2>5 DEF NoEntryYet, Allowed, AnswersAreLogged, SuccessIsTrue, Addressed
  <2> QED
    BY <1>2, <1>4, <1>5, <2>1, <2>4, <2>6
<1>7. CASE ~(q.kind = "POE" /\ PoeFails(q, back))
  <2> DEFINE entry == Entry(r, q, After(q, back), result(back), back)
  <2>1. /\ After(q, back) \in PortTexts
        /\ back = "whole" => Addressed(q) \in Ports /\ After(q, back) = real[Addressed(q)][q.kind]
        /\ q.kind = "POE" => PoeAfter(q, back) \in [enabled : BOOLEAN, status : Words]
    BY <1>2, AfterTyped
  <2>2. entry.by = r /\ entry.kind \in Kinds
        /\ (entry.answer = "whole" => (entry.result = "SUCCESS" <=> entry.found[Addressed(entry)] = entry.requested))
    BY <1>3, <2>1 DEF Entry, Addressed
  <2>3. Logged(r, entry, "200") /\ StorePort(q, After(q, back)) /\ StorePoeRow(q, back)
    BY <1>1, <1>7
  <2>4. /\ requests' \in [Requests -> RequestRows]
        /\ \A p \in Requests : Pending(requests'[p])
        /\ requests'[r].step = "done" /\ \A p \in Requests \ {r} : requests'[p] = requests[p]
        /\ NoEntryYet' /\ SuccessIsTrue' /\ AnswersAreLogged'
    <3> HIDE DEF entry
    <3> QED
      BY <1>2, <2>2, <2>3, LoggedKeeps
  <2>5. Allowed'
    BY <1>2, <2>4 DEF Allowed
  <2>6. stored' \in [Ports -> [Stored -> PortTexts]]
    BY <1>3, <2>1, <2>3 DEF StorePort, Assigned
  <2>7. poe' \in [Ports -> PoeRows \cup {None}] /\ RowsApart(poe')
    BY <1>3, <2>1, <2>3, PoeRowsKeep
  <2> QED
    BY <1>2, <1>4, <1>5, <2>4, <2>5, <2>6, <2>7
<1> QED
  BY <1>6, <1>7

-----------------------------------------------------------------------------
(* The steps that leave the requests and their log alone.                       *)
LEMMA RequestsKept ==
  ASSUME ControlInv, UNCHANGED <<requests, audit, shielded, poeOf>>
  PROVE  NoEntryYet' /\ Allowed' /\ SuccessIsTrue' /\ AnswersAreLogged'
         /\ requests' \in [Requests -> RequestRows] /\ \A r \in Requests : Pending(requests'[r])
BY DEF ControlInv, ControlTypes, NoEntryYet, Allowed, SuccessIsTrue, Addressed, AnswersAreLogged

LEMMA DeleteChangesKeeps == ControlInv /\ DeleteChanges => ControlInv'
<1> SUFFICES ASSUME ControlInv, DeleteChanges PROVE ControlInv'
  OBVIOUS
<1>1. changes' \subseteq changes /\ UNCHANGED <<real, stored, poe, shielded, poeOf, devRole, requests, audit, scan>>
  BY DEF DeleteChanges
<1>2. ControlTypes' /\ ScanIsTrue'
  BY <1>1, RequestsKept DEF ControlInv, ControlTypes, ScanIsTrue
<1> QED
  BY <1>1, <1>2, RequestsKept DEF ControlInv

LEMMA ScanReadsKeeps == ControlInv /\ ScanReads => ControlInv'
<1> SUFFICES ASSUME ControlInv, ScanReads PROVE ControlInv'
  OBVIOUS
<1> USE DEF ControlInv, ControlTypes
<1> DEFINE seen(missed) ==
             [p \in Ports |-> [k \in Stored |-> IF k = "VLAN" /\ p \in missed THEN None ELSE real[p][k]]]
<1>1. PICK missed \in SUBSET Ports :
         scan' = [step |-> "read", left |-> scan.left - 1, seen |-> seen(missed),
                  calm |-> missed = {} /\ \A r \in Requests : requests[r].step \in {"new", "done"}]
  BY DEF ScanReads
<1>2. scan.step = "idle" /\ scan.left > 0
      /\ UNCHANGED <<real, stored, poe, shielded, poeOf, devRole, requests, audit, changes>>
  BY DEF ScanReads
<1>3. seen(missed) \in [Ports -> [Stored -> PortTexts]]
  BY DEF Stored, Kinds, PortTexts
<1>4. scan'.step = "read" /\ scan'.seen = seen(missed) /\ (scan'.calm => missed = {})
  BY <1>1
<1>5. scan' \in RescanRows
  <2>1. scan.left - 1 \in 0..MaxScans
    BY <1>2, ControlAssumption DEF RescanRows
  <2>2. (missed = {} /\ \A r \in Requests : requests[r].step \in {"new", "done"}) \in BOOLEAN
    OBVIOUS
  <2> HIDE DEF seen
  <2> QED
    BY <1>1, <1>3, <2>1, <2>2 DEF RescanRows
<1>6. ScanIsTrue'
  BY <1>2, <1>4 DEF ScanIsTrue
<1> HIDE DEF seen
<1> QED
  BY <1>2, <1>3, <1>4, <1>5, <1>6, RequestsKept

LEMMA ScanStoresKeeps == ControlInv /\ ScanStores => ControlInv'
<1> SUFFICES ASSUME ControlInv, ScanStores PROVE ControlInv'
  OBVIOUS
<1> USE DEF ControlInv, ControlTypes
<1>1. /\ scan.step = "read" /\ stored' = [p \in Ports |-> Ingested(p)] /\ scan' = [scan EXCEPT !.step = "stored"]
      /\ changes' = changes \cup UNION {Recorded(p, k, stored[p][k], Ingested(p)[k]) : p \in Ports, k \in Stored}
      /\ UNCHANGED <<real, poe, shielded, poeOf, devRole, requests, audit>>
  BY DEF ScanStores
<1>2. scan.seen \in [Ports -> [Stored -> PortTexts]]
  BY <1>1
<1>3. \A p \in Ports : Ingested(p) \in [Stored -> PortTexts]
  BY <1>2 DEF Ingested
<1>4. changes' \subseteq ChangeRows
  <2>1. ASSUME NEW p \in Ports, NEW k \in Stored PROVE Recorded(p, k, stored[p][k], Ingested(p)[k]) \subseteq ChangeRows
    <3>1. Ingested(p)[k] \in PortTexts /\ stored[p][k] \in PortTexts
      BY <1>3
    <3> QED
      BY <3>1 DEF Recorded, ChangeRows
  <2> QED
    BY <1>1, <2>1
<1>5. scan' \in RescanRows /\ scan'.step = "stored" /\ scan'.calm = scan.calm
  BY <1>1 DEF RescanRows
<1>6. ScanIsTrue'
  <2>1. ASSUME scan.calm, NEW p \in Ports, NEW k \in Stored PROVE Ingested(p)[k] = real[p][k]
    <3>1. scan.seen[p][k] = real[p][k]
      BY <1>1, <2>1 DEF ScanIsTrue
    <3>2. real[p][k] \in Words
      BY DEF Stored, Kinds
    <3> QED
      BY <3>1, <3>2, ControlAssumption DEF Ingested
  <2> QED
    BY <1>1, <1>5, <2>1 DEF ScanIsTrue
<1> QED
  BY <1>1, <1>3, <1>4, <1>5, <1>6, RequestsKept

LEMMA ScanReadsPoeKeeps == ControlInv /\ ScanReadsPoe => ControlInv'
<1> SUFFICES ASSUME ControlInv, ScanReadsPoe PROVE ControlInv'
  OBVIOUS
<1> USE DEF ControlInv, ControlTypes
<1> DEFINE seen(missed) == [p \in Ports |-> IF p \in missed THEN None ELSE real[p]["POE"]]
<1>1. PICK missed \in SUBSET Ports :
        scan' = [scan EXCEPT !.step = "poe", !.calm = @ /\ missed = {}, !.seen = seen(missed)]
  BY DEF ScanReadsPoe
<1>2. scan.step = "stored" /\ UNCHANGED <<real, stored, poe, shielded, poeOf, devRole, requests, audit, changes>>
  BY DEF ScanReadsPoe
<1>3. seen(missed) \in [Ports -> PortTexts]
  BY DEF PortTexts, Kinds
<1>4. scan' \in RescanRows /\ scan'.step = "poe" /\ scan'.seen = seen(missed) /\ (scan'.calm => scan.calm /\ missed = {})
  <2> HIDE DEF seen
  <2> QED
    BY <1>1, <1>3 DEF RescanRows
<1>5. ScanIsTrue'
  BY <1>2, <1>4 DEF ScanIsTrue
<1> HIDE DEF seen
<1> QED
  BY <1>2, <1>3, <1>4, <1>5, RequestsKept

LEMMA ScanStoresPoeKeeps == ControlInv /\ ScanStoresPoe => ControlInv'
<1> SUFFICES ASSUME ControlInv, ScanStoresPoe PROVE ControlInv'
  OBVIOUS
<1> USE DEF ControlInv, ControlTypes
<1>1. /\ scan.step = "poe" /\ scan' = [scan EXCEPT !.step = "idle", !.seen = None]
      /\ UNCHANGED <<real, stored, shielded, poeOf, devRole, requests, audit, changes>>
  BY DEF ScanStoresPoe
<1>2. scan' \in RescanRows /\ scan'.step = "idle" /\ scan'.calm = scan.calm
  BY <1>1 DEF RescanRows
<1> DEFINE row(ids, p) == [id |-> ids[p], enabled |-> scan.seen[p] = "ENABLED", status |-> scan.seen[p]]
<1>3. PICK ids \in [Ports -> PoeIds] :
         Apart(ids) /\ poe' = [p \in Ports |-> IF scan.seen[p] = None THEN None ELSE row(ids, p)]
  BY DEF ScanStoresPoe
<1>4. ASSUME NEW p \in Ports, scan.seen[p] # None
      PROVE  row(ids, p) \in PoeRows /\ row(ids, p).id = ids[p] /\ row(ids, p).enabled = (scan.seen[p] = "ENABLED")
  <2>1. scan.seen[p] \in Words
    BY <1>1, <1>4 DEF PortTexts
  <2> QED
    BY <2>1 DEF PoeRows
<1> HIDE DEF row
<1>5. poe' \in [Ports -> PoeRows \cup {None}] /\ RowsApart(poe')
  BY <1>3, <1>4 DEF RowsApart, Apart
<1>6. ScanIsTrue'
  <2> SUFFICES ASSUME scan.calm, NEW p \in Ports
               PROVE  poe'[p] # None /\ poe'[p].enabled = (real[p]["POE"] = "ENABLED")
                      /\ \A k \in Stored : stored[p][k] = real[p][k]
    BY <1>1, <1>2 DEF ScanIsTrue
  <2>1. scan.seen[p] = real[p]["POE"] /\ \A k \in Stored : stored[p][k] = real[p][k]
    BY <1>1 DEF ScanIsTrue
  <2>2. scan.seen[p] # None
    BY <2>1, ControlAssumption DEF Kinds
  <2>3. poe'[p] = row(ids, p)
    BY <1>3, <2>2
  <2> QED
    BY <1>4, <2>1, <2>2, <2>3, ControlAssumption
<1> QED
  BY <1>1, <1>2, <1>5, <1>6, RequestsKept

LEMMA ControlStepKeeps == ControlInv /\ [ControlNext]_controlVars => ControlInv'
<1> SUFFICES ASSUME ControlInv, [ControlNext]_controlVars PROVE ControlInv'
  OBVIOUS
<1>1. ASSUME NEW r \in Requests, Control(r) \/ Restore(r) \/ ControlMoves(r) PROVE ControlInv'
  BY <1>1, ControlKeeps, RestoreKeeps, ReadAliasKeeps, SetKeeps, SetFailsKeeps, RereadKeeps DEF ControlMoves
<1>2. CASE DeleteChanges \/ ScanReads \/ ScanStores \/ ScanReadsPoe \/ ScanStoresPoe
  BY <1>2, DeleteChangesKeeps, ScanReadsKeeps, ScanStoresKeeps, ScanReadsPoeKeeps, ScanStoresPoeKeeps
<1>3. CASE UNCHANGED controlVars
  BY <1>3 DEF controlVars, ControlInv, ControlTypes, ScanIsTrue, NoEntryYet, Allowed, SuccessIsTrue, Addressed, AnswersAreLogged
<1> QED
  BY <1>1, <1>2, <1>3 DEF ControlNext

LEMMA ControlInvariant == ControlSpec => []ControlInv
BY ControlInitInv, ControlStepKeeps, PTL DEF ControlSpec

(* The log of controls tells what a re-read that answered found on the port that *)
(* was addressed, which for PoE is the one with the ifIndex for its PoE number;  *)
(* every request that got an answer is in it; and a rescan that no control       *)
(* disturbed leaves the stored ports as the device has them (app/control and    *)
(* the engine's ingest).                                                         *)
THEOREM ControlTold == ControlSpec => []PortIsTold
<1>1. ControlInv => PortIsTold
  BY DEF ControlInv, PortIsTold, ScanIsTrue, RescanSettles
<1> QED
  BY <1>1, ControlInvariant, PTL

-----------------------------------------------------------------------------
(* What the rescan and the deletion of changes leave alone. *)
LEMMA RescanFrame ==
  /\ DeleteChanges \/ ScanReads \/ ScanStores \/ ScanReadsPoe \/ ScanStoresPoe =>
       UNCHANGED <<real, poeOf, devRole, requests, audit>>
  /\ DeleteChanges \/ ScanReads \/ ScanReadsPoe \/ ScanStoresPoe => UNCHANGED stored
<1>1. DeleteChanges => UNCHANGED <<real, stored, poeOf, devRole, requests, audit>>
  BY DEF DeleteChanges
<1>2. ScanReads => UNCHANGED <<real, stored, poeOf, devRole, requests, audit>>
  BY Zenon DEF ScanReads
<1>3. ScanStores => UNCHANGED <<real, poeOf, devRole, requests, audit>>
  BY DEF ScanStores
<1>4. ScanReadsPoe => UNCHANGED <<real, stored, poeOf, devRole, requests, audit>>
  BY Zenon DEF ScanReadsPoe
<1>5. ScanStoresPoe => UNCHANGED <<real, stored, poeOf, devRole, requests, audit>>
  BY Zenon DEF ScanStoresPoe
<1> QED
  BY <1>1, <1>2, <1>3, <1>4, <1>5

(* Only an operator's SET changes a port, the one it addresses, and it has the   *)
(* leave that its own port asks for.                                            *)
LEMMA ShieldStep ==
  ASSUME ControlInv, ControlNext, NEW p \in Ports, real'[p] # real[p]
  PROVE  \E r \in Requests :
            /\ Sends(r) /\ Addressed(requests[r]) = p
            /\ shielded[requests[r].port] => requests[r].force \/ requests[r].want \in {"UP", "ENABLED"}
            /\ \A k \in Kinds : real'[p][k] = real[p][k] \/ (requests[r].kind = k /\ real'[p][k] = requests[r].want)
<1>1. PICK r \in Requests : Set(r) \/ SetFails(r)
  <2>1. ~(DeleteChanges \/ ScanReads \/ ScanStores \/ ScanReadsPoe \/ ScanStoresPoe)
    BY RescanFrame
  <2>2. ASSUME NEW r \in Requests PROVE ~(Control(r) \/ Restore(r) \/ ReadAlias(r) \/ Reread(r))
    BY DEF Control, Restore, RestoreControl, RestoreRole, Ask, ReadAlias, Reread
  <2> QED
    BY <2>1, <2>2 DEF ControlNext, ControlMoves
<1>2. requests[r].step = "set" /\ SetSent(requests[r])
  BY <1>1 DEF Set, SetFails
<1>3. shielded[requests[r].port] => requests[r].force \/ requests[r].want \in {"UP", "ENABLED"}
  BY <1>2 DEF ControlInv, Allowed
<1>4. requests'[r].step # "set"
  <2>1. CASE Set(r)
    BY <1>2, <2>1 DEF Set, ControlInv, ControlTypes, RequestRows
  <2>2. CASE SetFails(r)
    BY <1>2, <2>2 DEF SetFails, Logged, Ended, Unmade, ControlInv, ControlTypes
  <2> QED
    BY <1>1, <2>1, <2>2
<1>5. /\ Addressed(requests[r]) = p
      /\ \A k \in Kinds : real'[p][k] = real[p][k] \/ (requests[r].kind = k /\ real'[p][k] = requests[r].want)
  BY <1>2 DEF SetSent, ControlInv, ControlTypes
<1> QED
  BY <1>2, <1>3, <1>4, <1>5 DEF Sends

(* A stored value is changed by a re-read, which logs it, or by a rescan, which *)
(* records it.                                                                  *)
LEMMA StoredStep ==
  ASSUME ControlInv, ControlNext, NEW p \in Ports, NEW k \in Stored, stored'[p][k] # stored[p][k]
  PROVE  \/ [port |-> p, field |-> k, old |-> stored[p][k], new |-> stored'[p][k]] \in changes'
         \/ \E e \in audit' \ audit : e.port = p /\ e.kind = k /\ e.after = stored'[p][k]
<1>1. CASE \E r \in Requests : Reread(r)
  <2>1. PICK r \in Requests : Reread(r)
    BY <1>1
  <2> DEFINE q == requests[r]
             entry(back) == Entry(r, q, After(q, back), IF After(q, back) = q.want THEN "SUCCESS" ELSE "FAILED", back)
  <2>2. PICK back \in Answers(q) :
          IF q.kind = "POE" /\ PoeFails(q, back) THEN Lost(r)
          ELSE Logged(r, entry(back), "200") /\ StorePort(q, After(q, back)) /\ StorePoeRow(q, back)
    BY <2>1 DEF Reread
  <2>3. ~(q.kind = "POE" /\ PoeFails(q, back))
    BY <2>2 DEF Lost
  <2>4. q.step = "read" /\ q.port \in Ports
    BY <2>1 DEF Reread, ControlInv, ControlTypes, Pending
  <2>5. q.port = p /\ q.kind = k /\ stored'[p][k] = Assigned(stored[p][k], q.before, After(q, back))
    BY <2>2, <2>3, <2>4 DEF StorePort, ControlInv, ControlTypes
  <2>6. stored'[p][k] = After(q, back)
    BY <2>5 DEF Assigned
  <2>7. /\ entry(back) \in audit' /\ entry(back).by = r /\ entry(back).port = p /\ entry(back).kind = k
        /\ entry(back).after = stored'[p][k]
    BY <2>2, <2>3, <2>5, <2>6 DEF Logged, Entry
  <2>8. entry(back) \notin audit
    <3> HIDE DEF entry
    <3> QED
      BY <2>4, <2>7 DEF ControlInv, NoEntryYet
  <2> HIDE DEF entry
  <2> QED
    BY <2>7, <2>8
<1>2. CASE ScanStores
  <2>1. stored'[p][k] = Ingested(p)[k]
    BY <1>2 DEF ScanStores
  <2>2. Recorded(p, k, stored[p][k], Ingested(p)[k]) \subseteq changes'
    BY <1>2 DEF ScanStores
  <2> QED
    BY <2>1, <2>2 DEF Recorded
<1>3. ASSUME ~ScanStores, \A r \in Requests : ~Reread(r) PROVE FALSE
  <2>1. ~(DeleteChanges \/ ScanReads \/ ScanReadsPoe \/ ScanStoresPoe)
    BY RescanFrame
  <2>2. ASSUME NEW r \in Requests PROVE ~(Control(r) \/ Restore(r) \/ ReadAlias(r) \/ Set(r) \/ SetFails(r))
    BY DEF Control, Restore, RestoreControl, RestoreRole, Ask, ReadAlias, Set, SetFails
  <2> QED
    BY <1>3, <2>1, <2>2 DEF ControlNext, ControlMoves
<1> QED
  BY <1>1, <1>2, <1>3

(* The device's role is changed by a restoration, which records it.             *)
LEMMA RoleStep ==
  ASSUME ControlInv, ControlNext, devRole'.value # devRole.value
  PROVE  [port |-> None, field |-> "ROLE", old |-> devRole.value, new |-> devRole'.value] \in changes'
<1>1. PICK r \in Requests : Restore(r)
  <2>1. ~(DeleteChanges \/ ScanReads \/ ScanStores \/ ScanReadsPoe \/ ScanStoresPoe)
    BY RescanFrame
  <2>2. ASSUME NEW r \in Requests PROVE ~(Control(r) \/ ReadAlias(r) \/ Set(r) \/ SetFails(r) \/ Reread(r))
    BY DEF Control, Ask, ReadAlias, Set, SetFails, Reread
  <2> QED
    BY <2>1, <2>2 DEF ControlNext, ControlMoves
<1>2. PICK c \in changes : RestoreRole(r, c)
  BY <1>1 DEF Restore, RestoreControl, Ask
<1> QED
  BY <1>2 DEF RestoreRole, Recorded

(* A port is brought down, or given another VLAN or description, only by a SET   *)
(* that addresses it, and without force only by a request for a port that is    *)
(* not protected, which is the same one but for PoE numbers that are another    *)
(* port's ifIndex; every change of a stored port or of the role is in the log   *)
(* of controls or in the record of changes (app/control, config_history.py).    *)
THEOREM ControlAccounted == ControlSpec => ControlsAreAccounted
<1> DEFINE Shield == \A p \in Ports : real'[p] # real[p] =>
             \E r \in Requests :
                /\ Sends(r) /\ Addressed(requests[r]) = p
                /\ shielded[requests[r].port] => requests[r].force \/ requests[r].want \in {"UP", "ENABLED"}
           Records ==
             /\ \A p \in Ports, k \in Stored :
                  \/ stored'[p][k] = stored[p][k]
                  \/ [port |-> p, field |-> k, old |-> stored[p][k], new |-> stored'[p][k]] \in changes'
                  \/ \E e \in audit' \ audit : e.port = p /\ e.kind = k /\ e.after = stored'[p][k]
             /\ devRole'.value # devRole.value =>
                  [port |-> None, field |-> "ROLE", old |-> devRole.value, new |-> devRole'.value] \in changes'
<1>1. ControlInv /\ [ControlNext]_controlVars => [Shield]_controlVars /\ [Records]_controlVars
  BY ShieldStep, StoredStep, RoleStep
<1> HIDE DEF Shield, Records
<1>2. ControlSpec => [][Shield]_controlVars /\ [][Records]_controlVars
  BY <1>1, ControlInvariant, PTL DEF ControlSpec
<1> QED
  BY <1>2 DEF Shield, Records, ControlsAreAccounted, ShieldHolds, ChangesAreRecorded

-----------------------------------------------------------------------------
(* What each kind of control may hold of the port: a value of its own, none, or, *)
(* but for the VLAN, UNKNOWN.                                                    *)
Held(k) == Values[k] \cup {None} \cup (IF k = "VLAN" THEN {} ELSE {"UNKNOWN"})
Meant(q) ==
    /\ q.reply # None <=> q.step = "done"
    /\ q.step \in {"alias", "set", "read"} =>
         /\ q.want \in Values[q.kind] /\ q.before \in Held(q.kind)
         /\ q.row = None \/ q.row.status \in Held("POE")
EntryFits(e) ==
    /\ e.port \in Ports /\ e.requested \in Values[e.kind] /\ e.after \in Held(e.kind)
    /\ e.answer = "whole" => Addressed(e) \in Ports
ChangeFits(c) == c.old # c.new /\ (c.field \in Stored => c.old \in Held(c.field))

PortFits ==
    /\ \A p \in Ports, k \in Kinds : real[p][k] \in Values[k]
    /\ \A p \in Ports, k \in Stored : stored[p][k] \in Held(k)
    /\ \A p \in Ports : poe[p] = None \/ poe[p].status \in Held("POE")
    /\ scan.step = "read" => \A p \in Ports, k \in Stored : scan.seen[p][k] \in Held(k)
    /\ scan.step = "poe" => \A p \in Ports : scan.seen[p] \in Held("POE")
RequestsFit == \A r \in Requests : Meant(requests[r])
LogFits == \A e \in audit : EntryFits(e)
ChangesFit == \A c \in changes : ChangeFits(c)
ControlFits == PortFits /\ RequestsFit /\ LogFits /\ ChangesFit

LEMMA ValuesAre ==
  /\ Values["PORT"] = {"UP", "DOWN"} /\ Values["POE"] = {"ENABLED", "DISABLED"}
  /\ Values["VLAN"] = {"10", "20"} /\ Values["DESCRIPTION"] = {"uplink", "camera"}
BY DEF Values

LEMMA FitsStart == ControlInit => ControlFits
<1> SUFFICES ASSUME ControlInit PROVE ControlFits
  OBVIOUS
<1>1. scan.step = "idle"
  BY DEF ControlInit, Idle
<1>2. PortFits
  <2>1. \A p \in Ports : poe[p] = None \/ poe[p].status \in Held("POE")
    BY ValuesAre DEF ControlInit, Held
  <2> QED
    BY <1>1, <2>1, ValuesAre DEF ControlInit, PortFits, Held, Kinds, Stored, Usual
<1>3. RequestsFit /\ LogFits
  BY DEF ControlInit, RequestsFit, LogFits, Meant, Unmade
<1>4. ChangesFit
  BY ValuesAre DEF ControlInit, Recorded, ChangesFit, ChangeFits, Held, Stored
<1> QED
  BY <1>2, <1>3, <1>4 DEF ControlFits

(* A request ends with an entry that fits. *)
LEMMA LoggedFits ==
  ASSUME ControlInv, ControlFits, NEW r \in Requests, NEW entry, NEW status \in {"200", "403"},
         EntryFits(entry), Logged(r, entry, status), UNCHANGED poeOf
  PROVE  RequestsFit' /\ LogFits'
<1>1. requests' = [requests EXCEPT ![r] = Ended(entry.kind, status)] /\ audit' = audit \cup {entry}
  BY DEF Logged
<1>2. Meant(Ended(entry.kind, status))
  BY ControlAssumption DEF Ended, Unmade, Meant
<1>3. DOMAIN requests = Requests
  BY DEF ControlInv, ControlTypes
<1> QED
  BY <1>1, <1>2, <1>3 DEF ControlFits, RequestsFit, LogFits, EntryFits, Addressed

LEMMA AskFits ==
  ASSUME ControlInv, ControlFits, NEW r \in Requests, NEW p \in Ports, NEW kind \in Kinds, NEW want \in Values[kind],
         NEW force \in BOOLEAN, NEW denial \in {"200", "403"}, Ask(r, p, kind, want, force, denial)
  PROVE  ControlFits'
<1> DEFINE q == Started(p, kind, want, force)
<1>1. UNCHANGED <<real, stored, poe, poeOf, changes, scan>>
  BY DEF Ask
<1>2. PortFits' /\ ChangesFit'
  BY <1>1 DEF ControlFits, PortFits, ChangesFit
<1>3. /\ q.port = p /\ q.kind = kind /\ q.want = want /\ q.before = StoredBefore(p, kind) /\ q.reply = None
      /\ q.row \in {None, poe[p]} /\ q.step \in {"alias", "set"}
  BY DEF Started
<1>4. StoredBefore(p, kind) \in Held(kind)
  BY DEF StoredBefore, ControlFits, PortFits, Held, Kinds, Stored
<1>5. CASE kind # "DESCRIPTION" /\ Refused(q)
  <2>1. Denied(r, q, denial)
    BY <1>5 DEF Ask
  <2>2. EntryFits(Entry(r, q, q.before, "DENIED", "none"))
    BY <1>3, <1>4 DEF Entry, EntryFits
  <2> QED
    BY <1>1, <1>2, <2>1, <2>2, LoggedFits DEF ControlFits, Denied
<1>6. CASE ~(kind # "DESCRIPTION" /\ Refused(q))
  <2>1. requests' = [requests EXCEPT ![r] = q] /\ audit' = audit
    BY <1>6 DEF Ask
  <2>2. Meant(q)
    BY <1>3, <1>4 DEF Meant, ControlFits, PortFits
  <2>3. DOMAIN requests = Requests
    BY DEF ControlInv, ControlTypes
  <2> HIDE DEF q
  <2>4. RequestsFit' /\ LogFits'
    BY <1>1, <2>1, <2>2, <2>3 DEF ControlFits, RequestsFit, LogFits, EntryFits, Addressed
  <2> QED
    BY <1>2, <2>4 DEF ControlFits
<1> QED
  BY <1>5, <1>6

LEMMA RestoreFits ==
  ASSUME ControlInv, ControlFits, NEW r \in Requests, Restore(r)
  PROVE  ControlFits'
<1>1. PICK c \in changes, force \in BOOLEAN : RestoreControl(r, c, force) \/ RestoreRole(r, c)
  BY DEF Restore
<1>2. ChangeFits(c) /\ c \in ChangeRows
  BY DEF ControlFits, ChangesFit, ControlInv, ControlTypes
<1>3. CASE RestoreControl(r, c, force)
  <2> DEFINE want == IF c.field = "PORT" /\ c.old # "UP" THEN "DOWN" ELSE c.old
  <2>1. c.field \in Stored /\ c.field \in Kinds /\ c.old # None
        /\ Ask(r, c.port, c.field, want, force, "200")
    BY <1>3 DEF RestoreControl, Stored, Kinds
  <2>2. want \in Values[c.field] /\ c.port \in Ports
    BY <1>2, <2>1, ValuesAre DEF ChangeFits, ChangeRows, Held, Stored
  <2> HIDE DEF want
  <2> QED
    BY <2>1, <2>2, AskFits
<1>4. CASE RestoreRole(r, c)
  <2>1. requests' = [requests EXCEPT ![r] = Ended(None, "200")] /\ UNCHANGED <<real, stored, poe, shielded, poeOf, audit, scan>>
        /\ changes' = changes \cup Recorded(None, "ROLE", devRole.value, c.old)
    BY <1>4 DEF RestoreRole
  <2>2. Meant(Ended(None, "200"))
    BY ControlAssumption DEF Ended, Unmade, Meant
  <2>3. DOMAIN requests = Requests
    BY DEF ControlInv, ControlTypes
  <2>4. RequestsFit'
    BY <2>1, <2>2, <2>3 DEF ControlFits, RequestsFit
  <2>5. PortFits' /\ LogFits'
    BY <2>1 DEF ControlFits, PortFits, LogFits, EntryFits, Addressed
  <2>6. ChangesFit'
    BY <2>1 DEF ControlFits, ChangesFit, ChangeFits, Recorded, Stored
  <2> QED
    BY <2>4, <2>5, <2>6 DEF ControlFits
<1> QED
  BY <1>1, <1>3, <1>4

LEMMA ReadAliasFits ==
  ASSUME ControlInv, ControlFits, NEW r \in Requests, ReadAlias(r)
  PROVE  ControlFits'
<1>1. PICK value \in {real[requests[r].port]["DESCRIPTION"], None} :
        LET q == [requests[r] EXCEPT !.before = value, !.step = "set"] IN
        IF Refused(q) THEN Denied(r, q, "403")
        ELSE requests' = [requests EXCEPT ![r] = q] /\ UNCHANGED audit
  BY DEF ReadAlias
<1> DEFINE q == [requests[r] EXCEPT !.before = value, !.step = "set"]
<1>2. requests[r].step = "alias" /\ UNCHANGED <<real, stored, poe, poeOf, changes, scan>>
  BY DEF ReadAlias
<1>3. /\ requests[r] \in RequestRows /\ requests[r].port \in Ports /\ requests[r].kind = "DESCRIPTION"
      /\ Meant(requests[r]) /\ DOMAIN requests = Requests
  BY <1>2 DEF ControlInv, ControlTypes, Pending, ControlFits, RequestsFit
<1>4. value \in Held("DESCRIPTION")
  BY <1>3 DEF ControlFits, PortFits, Kinds, Held
<1>5. /\ q.port = requests[r].port /\ q.kind = "DESCRIPTION" /\ q.want = requests[r].want /\ q.before = value
      /\ q.step = "set" /\ q.row = requests[r].row /\ q.reply = requests[r].reply
  BY <1>3 DEF RequestRows
<1>6. PortFits' /\ ChangesFit'
  BY <1>2 DEF ControlFits, PortFits, ChangesFit
<1> HIDE DEF q
<1>7. CASE Refused(q)
  <2>1. Denied(r, q, "403")
    BY <1>1, <1>7 DEF q
  <2>2. EntryFits(Entry(r, q, q.before, "DENIED", "none"))
    BY <1>2, <1>3, <1>4, <1>5 DEF Entry, EntryFits, Meant
  <2> QED
    BY <1>2, <1>6, <2>1, <2>2, LoggedFits DEF ControlFits, Denied
<1>8. CASE ~Refused(q)
  <2>1. requests' = [requests EXCEPT ![r] = q] /\ audit' = audit
    BY <1>1, <1>8 DEF q
  <2>2. Meant(q)
    BY <1>2, <1>3, <1>4, <1>5 DEF Meant
  <2>3. RequestsFit' /\ LogFits'
    BY <1>2, <1>3, <2>1, <2>2 DEF ControlFits, RequestsFit, LogFits, EntryFits, Addressed
  <2> QED
    BY <1>6, <2>3 DEF ControlFits
<1> QED
  BY <1>7, <1>8

(* The device takes the value that was asked for, or keeps its own. *)
LEMMA DeviceFits ==
  ASSUME ControlInv, ControlFits, NEW r \in Requests, requests[r].step = "set", SetSent(requests[r]),
         UNCHANGED <<stored, poe>>
  PROVE  PortFits'
<1>1. requests[r].kind \in Kinds /\ requests[r].want \in Values[requests[r].kind]
  BY DEF ControlInv, ControlTypes, Pending, ControlFits, RequestsFit, Meant
<1>2. \A p \in Ports : DOMAIN real[p] = Kinds
  BY DEF ControlInv, ControlTypes
<1>3. \A p \in Ports, k \in Kinds : real'[p][k] \in Values[k]
  BY <1>1, <1>2 DEF SetSent, ControlFits, PortFits
<1>4. scan'.step = scan.step /\ scan'.seen = scan.seen
  BY DEF SetSent, ControlInv, ControlTypes, RescanRows
<1> QED
  BY <1>3, <1>4 DEF ControlFits, PortFits

LEMMA SetFits ==
  ASSUME ControlInv, ControlFits, NEW r \in Requests, Set(r)
  PROVE  ControlFits'
<1>1. /\ requests[r].step = "set" /\ SetSent(requests[r]) /\ requests' = [requests EXCEPT ![r].step = "read"]
      /\ UNCHANGED <<stored, poe, poeOf, audit, changes>>
  BY DEF Set
<1>2. requests[r] \in RequestRows /\ Meant(requests[r]) /\ DOMAIN requests = Requests
  BY DEF ControlInv, ControlTypes, ControlFits, RequestsFit
<1>3. Meant([requests[r] EXCEPT !.step = "read"])
  BY <1>1, <1>2 DEF Meant, RequestRows
<1>4. RequestsFit'
  BY <1>1, <1>2, <1>3 DEF ControlFits, RequestsFit
<1>5. PortFits'
  BY <1>1, DeviceFits
<1> QED
  BY <1>1, <1>4, <1>5 DEF ControlFits, LogFits, EntryFits, Addressed, ChangesFit

LEMMA SetFailsFits ==
  ASSUME ControlInv, ControlFits, NEW r \in Requests, SetFails(r)
  PROVE  ControlFits'
<1> DEFINE entry == Entry(r, requests[r], requests[r].before, "FAILED", "error")
<1>1. /\ requests[r].step = "set" /\ SetSent(requests[r]) /\ Logged(r, entry, "200")
      /\ UNCHANGED <<stored, poe, poeOf, changes>>
  BY DEF SetFails
<1>2. EntryFits(entry)
  BY <1>1 DEF Entry, EntryFits, ControlFits, RequestsFit, Meant, ControlInv, ControlTypes, Pending
<1> HIDE DEF entry
<1>3. RequestsFit' /\ LogFits'
  BY <1>1, <1>2, LoggedFits
<1>4. PortFits'
  BY <1>1, DeviceFits
<1> QED
  BY <1>1, <1>3, <1>4 DEF ControlFits, ChangesFit

(* The rows of PoE after a re-read hold a state the request read, now or first. *)
LEMMA PoeRowsFit ==
  ASSUME ControlInv, ControlFits, NEW r \in Requests, NEW back, StorePoeRow(requests[r], back),
         requests[r].kind = "POE" =>
             requests[r].port \in Ports /\ PoeAfter(requests[r], back).status \in Held("POE")
  PROVE  \A p \in Ports : poe'[p] = None \/ poe'[p].status \in Held("POE")
<1> DEFINE q == requests[r]
           state == PoeAfter(q, back).status
<1>1. DOMAIN poe = Ports /\ \A p \in Ports : poe[p] = None \/ poe[p].status \in Held("POE")
  BY DEF ControlInv, ControlTypes, ControlFits, PortFits
<1>2. CASE q.kind # "POE"
  BY <1>1, <1>2 DEF StorePoeRow
<1>3. CASE q.kind = "POE" /\ q.row = None
  <2>1. PICK id \in PoeIds \ IdsInUse :
          poe' = [poe EXCEPT ![q.port] = [id |-> id, enabled |-> PoeAfter(q, back).enabled, status |-> state]]
    BY <1>3 DEF StorePoeRow, InsertPoe
  <2> HIDE DEF state
  <2> QED
    BY <1>1, <1>3, <2>1 DEF state
<1>4. CASE q.kind = "POE" /\ q.row # None
  <2>1. poe' = [p \in Ports |-> IF poe[p] # None /\ poe[p].id = q.row.id THEN RowUpdated(poe[p], q, back) ELSE poe[p]]
    BY <1>4 DEF StorePoeRow, UpdatePoe
  <2>2. ASSUME NEW p \in Ports, poe[p] # None PROVE RowUpdated(poe[p], q, back).status \in Held("POE")
    <3>1. RowUpdated(poe[p], q, back).status = Assigned(poe[p].status, q.row.status, state)
      BY DEF RowUpdated
    <3> HIDE DEF state
    <3> QED
      BY <1>1, <1>4, <2>2, <3>1 DEF Assigned, state
  <2> QED
    BY <1>1, <2>1, <2>2
<1> QED
  BY <1>2, <1>3, <1>4

LEMMA RereadFits ==
  ASSUME ControlInv, ControlFits, NEW r \in Requests, Reread(r)
  PROVE  ControlFits'
<1> DEFINE q == requests[r]
           result(back) == IF After(q, back) = q.want THEN "SUCCESS" ELSE "FAILED"
<1>1. PICK back \in Answers(q) :
        IF q.kind = "POE" /\ PoeFails(q, back) THEN Lost(r)
        ELSE /\ Logged(r, Entry(r, q, After(q, back), result(back), back), "200")
             /\ StorePort(q, After(q, back)) /\ StorePoeRow(q, back)
  BY DEF Reread
<1>2. q.step = "read" /\ scan' = [scan EXCEPT !.calm = FALSE] /\ UNCHANGED <<real, poeOf, changes>>
  BY DEF Reread
<1>3. q \in RequestRows /\ q.port \in Ports /\ q.kind \in Kinds /\ Meant(q) /\ DOMAIN requests = Requests
  BY <1>2 DEF ControlInv, ControlTypes, Pending, ControlFits, RequestsFit
<1>4. q.want \in Values[q.kind] /\ q.before \in Held(q.kind) /\ (q.row = None \/ q.row.status \in Held("POE"))
  BY <1>2, <1>3 DEF Meant
<1>5. scan'.step = scan.step /\ scan'.seen = scan.seen
  BY <1>2 DEF ControlInv, ControlTypes, RescanRows
<1>6. ChangesFit'
  BY <1>2 DEF ControlFits, ChangesFit
<1>7. CASE q.kind = "POE" /\ PoeFails(q, back)
  <2>1. requests' = [requests EXCEPT ![r] = Ended("POE", "500")] /\ UNCHANGED <<audit, stored, poe>>
    BY <1>1, <1>7 DEF Lost
  <2>2. Meant(Ended("POE", "500"))
    BY ControlAssumption DEF Ended, Unmade, Meant
  <2>3. RequestsFit' /\ LogFits'
    BY <1>2, <1>3, <2>1, <2>2 DEF ControlFits, RequestsFit, LogFits, EntryFits, Addressed
  <2>4. PortFits'
    BY <1>2, <1>5, <2>1 DEF ControlFits, PortFits
  <2> QED
    BY <1>6, <2>3, <2>4 DEF ControlFits
<1>8. CASE ~(q.kind = "POE" /\ PoeFails(q, back))
  <2> DEFINE entry == Entry(r, q, After(q, back), result(back), back)
  <2>1. back = "whole" => /\ Addressed(q) \in Ports /\ After(q, back) = real[Addressed(q)][q.kind]
                          /\ real[Addressed(q)][q.kind] \in Values[q.kind]
    BY <1>2, <1>3, AfterTyped DEF ControlFits, PortFits
  <2>2. After(q, back) \in Held(q.kind)
    <3>1. back = "partial" => q.kind # "VLAN"
      BY DEF Answers
    <3> QED
      BY <1>4, <2>1, <3>1 DEF After, Held
  <2>3. Logged(r, entry, "200") /\ StorePort(q, After(q, back)) /\ StorePoeRow(q, back)
    BY <1>1, <1>8
  <2>4. EntryFits(entry)
    BY <1>3, <1>4, <2>1, <2>2 DEF Entry, EntryFits, Addressed
  <2>5. RequestsFit' /\ LogFits'
    <3> HIDE DEF entry
    <3> QED
      BY <1>2, <2>3, <2>4, LoggedFits
  <2>6. \A p \in Ports, k \in Stored : stored'[p][k] \in Held(k)
    <3>1. stored \in [Ports -> [Stored -> PortTexts]] /\ \A p \in Ports, k \in Stored : stored[p][k] \in Held(k)
      BY DEF ControlInv, ControlTypes, ControlFits, PortFits
    <3>2. CASE q.kind \notin Stored
      BY <2>3, <3>1, <3>2 DEF StorePort
    <3>3. CASE q.kind \in Stored
      <4>1. stored' = [stored EXCEPT ![q.port][q.kind] = Assigned(@, q.before, After(q, back))]
        BY <2>3, <3>3 DEF StorePort
      <4>2. Assigned(stored[q.port][q.kind], q.before, After(q, back)) \in Held(q.kind)
        BY <1>3, <2>2, <3>1, <3>3 DEF Assigned
      <4> QED
        BY <1>3, <3>1, <4>1, <4>2
    <3> QED
      BY <3>2, <3>3
  <2>7. q.kind = "POE" => PoeAfter(q, back).status \in Held("POE")
    BY <1>4, <2>1 DEF PoeAfter, Held
  <2>8. \A p \in Ports : poe'[p] = None \/ poe'[p].status \in Held("POE")
    BY <1>3, <2>3, <2>7, PoeRowsFit
  <2>9. PortFits'
    BY <1>2, <1>5, <2>6, <2>8 DEF ControlFits, PortFits
  <2> QED
    BY <1>6, <2>5, <2>9 DEF ControlFits
<1> QED
  BY <1>7, <1>8

(* The steps of the rescan, and the deletion of changes. *)
LEMMA RescanFits ==
  ASSUME ControlInv, ControlFits, DeleteChanges \/ ScanReads \/ ScanStores \/ ScanReadsPoe \/ ScanStoresPoe
  PROVE  ControlFits'
<1>1. UNCHANGED <<real, poeOf, requests, audit>>
  BY RescanFrame
<1>2. RequestsFit' /\ LogFits' /\ \A p \in Ports, k \in Kinds : real'[p][k] \in Values[k]
  BY <1>1 DEF ControlFits, RequestsFit, LogFits, EntryFits, Addressed, PortFits
<1>3. \A p \in Ports, k \in Kinds : real[p][k] \in Held(k)
  BY DEF ControlFits, PortFits, Held
<1>4. CASE DeleteChanges
  <2>1. changes' \subseteq changes /\ UNCHANGED <<stored, poe, scan>>
    BY <1>4 DEF DeleteChanges
  <2> QED
    BY <1>2, <2>1 DEF ControlFits, PortFits, ChangesFit
<1>5. CASE ScanReads
  <2> DEFINE seen(missed) ==
               [p \in Ports |-> [k \in Stored |-> IF k = "VLAN" /\ p \in missed THEN None ELSE real[p][k]]]
  <2>0. PICK missed \in SUBSET Ports :
          scan' = [step |-> "read", left |-> scan.left - 1, seen |-> seen(missed),
                   calm |-> missed = {} /\ \A r \in Requests : requests[r].step \in {"new", "done"}]
    BY <1>5 DEF ScanReads
  <2>1. scan'.step = "read" /\ scan'.seen = seen(missed)
    BY <2>0
  <2>2. UNCHANGED <<stored, poe, changes>>
    BY <1>5 DEF ScanReads
  <2>3. \A p \in Ports, k \in Stored : scan'.seen[p][k] \in Held(k)
    BY <1>3, <2>1 DEF Stored, Kinds, Held
  <2> QED
    BY <1>2, <2>1, <2>2, <2>3 DEF ControlFits, PortFits, ChangesFit
<1>6. CASE ScanStores
  <2>1. /\ scan.step = "read" /\ stored' = [p \in Ports |-> Ingested(p)] /\ scan' = [scan EXCEPT !.step = "stored"]
        /\ changes' = changes \cup UNION {Recorded(p, k, stored[p][k], Ingested(p)[k]) : p \in Ports, k \in Stored}
        /\ UNCHANGED poe
    BY <1>6 DEF ScanStores
  <2>2. scan'.step = "stored"
    BY <2>1 DEF ControlInv, ControlTypes, RescanRows
  <2>3. \A p \in Ports, k \in Stored : Ingested(p)[k] \in Held(k) /\ stored[p][k] \in Held(k)
    BY <2>1 DEF Ingested, ControlFits, PortFits
  <2>4. ChangesFit'
    BY <2>1, <2>3 DEF ControlFits, ChangesFit, ChangeFits, Recorded
  <2>5. PortFits'
    BY <1>2, <2>1, <2>2, <2>3 DEF ControlFits, PortFits
  <2> QED
    BY <1>2, <2>4, <2>5 DEF ControlFits
<1>7. CASE ScanReadsPoe
  <2>1. PICK missed \in SUBSET Ports :
          scan' = [scan EXCEPT !.step = "poe", !.calm = @ /\ missed = {},
                               !.seen = [p \in Ports |-> IF p \in missed THEN None ELSE real[p]["POE"]]]
    BY <1>7 DEF ScanReadsPoe
  <2>2. scan'.step = "poe" /\ \A p \in Ports : scan'.seen[p] \in Held("POE")
    BY <1>3, <2>1 DEF ControlInv, ControlTypes, RescanRows, Kinds, Held
  <2>3. UNCHANGED <<stored, poe, changes>>
    BY <1>7 DEF ScanReadsPoe
  <2> QED
    BY <1>2, <2>2, <2>3 DEF ControlFits, PortFits, ChangesFit
<1>8. CASE ScanStoresPoe
  <2>1. scan.step = "poe" /\ scan' = [scan EXCEPT !.step = "idle", !.seen = None] /\ UNCHANGED <<stored, changes>>
    BY <1>8 DEF ScanStoresPoe
  <2>2. scan'.step = "idle"
    BY <2>1 DEF ControlInv, ControlTypes, RescanRows
  <2>3. \A p \in Ports : poe'[p] = None \/ poe'[p].status = scan.seen[p]
    BY <1>8 DEF ScanStoresPoe
  <2> QED
    BY <1>2, <2>1, <2>2, <2>3 DEF ControlFits, PortFits, ChangesFit
<1> QED
  BY <1>4, <1>5, <1>6, <1>7, <1>8

LEMMA FitsStep == ControlInv /\ ControlFits /\ [ControlNext]_controlVars => ControlFits'
<1> SUFFICES ASSUME ControlInv, ControlFits, [ControlNext]_controlVars PROVE ControlFits'
  OBVIOUS
<1>1. ASSUME NEW r \in Requests, Control(r) PROVE ControlFits'
  BY <1>1, AskFits DEF Control
<1>2. ASSUME NEW r \in Requests, Restore(r) \/ ControlMoves(r) PROVE ControlFits'
  BY <1>2, RestoreFits, ReadAliasFits, SetFits, SetFailsFits, RereadFits DEF ControlMoves
<1>3. CASE UNCHANGED controlVars
  BY <1>3 DEF controlVars, ControlFits, PortFits, RequestsFit, LogFits, EntryFits, Addressed, ChangesFit
<1> QED
  BY <1>1, <1>2, <1>3, RescanFits DEF ControlNext

LEMMA ControlFitting == ControlSpec => [](ControlInv /\ ControlFits)
BY ControlInitInv, ControlStepKeeps, FitsStart, FitsStep, PTL DEF ControlSpec

(* The types of what operators' controls and rescans leave. *)
THEOREM ControlTyped == ControlSpec => []ControlTypeOK
<1>1. ControlInv /\ ControlFits => ControlTypeOK
  <2> SUFFICES ASSUME ControlInv, ControlFits PROVE ControlTypeOK
    OBVIOUS
  <2>1. \A k : Held(k) \subseteq Known(k)
    BY DEF Held, Known
  <2>2. /\ \A p \in Ports, k \in Kinds : real[p][k] \in Values[k]
        /\ \A p \in Ports, k \in Stored : stored[p][k] \in Known(k)
        /\ \A p \in Ports : poe[p] = None \/ (poe[p] \in PoeRows /\ poe[p].status \in Known("POE"))
    BY <2>1 DEF ControlFits, PortFits, ControlInv, ControlTypes
  <2>3. \A r \in Requests : /\ requests[r].step \in {"new", "alias", "set", "read", "done"}
                            /\ requests[r].reply \in {None, "200", "403", "500"}
                            /\ requests[r].reply # None <=> requests[r].step = "done"
    BY DEF ControlFits, RequestsFit, Meant, ControlInv, ControlTypes, RequestRows
  <2>4. /\ \A e \in audit : e.port \in Ports /\ e.requested \in Values[e.kind] /\ e.after \in Known(e.kind)
        /\ \A c \in changes : c.field \in {"PORT", "VLAN", "ROLE"} /\ c.old # c.new
    BY <2>1 DEF ControlFits, LogFits, EntryFits, ChangesFit, ChangeFits, ControlInv, ControlTypes, ChangeRows, Stored
  <2>5. /\ shielded \in [Ports -> BOOLEAN] /\ poeOf \in [Ports -> Ports \cup {None}] /\ RowsApart(poe)
        /\ devRole.value \in {"CORE_SWITCH", "FLOOR_SWITCH"} /\ devRole.source \in {"AUTO", "MANUAL"}
        /\ scan.step \in {"idle", "read", "stored", "poe"} /\ scan.left \in 0..MaxScans
    BY DEF ControlInv, ControlTypes, DeviceRoles, RescanRows
  <2> QED
    BY <2>2, <2>3, <2>4, <2>5 DEF ControlTypeOK
<1> QED
  BY <1>1, ControlFitting, PTL

(* On a device none of whose PoE numbers is another port's ifIndex, SUCCESS is   *)
(* true of the port it is logged for, and a protected port loses its PoE only   *)
(* to a forced control of that port, as poe_control.py says of every device.    *)
THEOREM OwnNumberControls == ControlSpec /\ NumbersAgree => []SuccessIsOfItsPort /\ PoeShielded
<1> DEFINE Spared == \A p \in Ports : shielded[p] /\ real[p]["POE"] = "ENABLED" /\ real'[p]["POE"] = "DISABLED" =>
             \E r \in Requests : Sends(r) /\ requests[r].port = p /\ requests[r].force
<1>1. NumbersAgree /\ [ControlNext]_controlVars => NumbersAgree'
  <2> SUFFICES ASSUME NumbersAgree, [ControlNext]_controlVars PROVE poeOf' = poeOf
    BY DEF NumbersAgree
  <2>1. ASSUME NEW r \in Requests, Control(r) \/ Restore(r) \/ ReadAlias(r) PROVE poeOf' = poeOf
    BY <2>1 DEF Control, Restore, RestoreControl, RestoreRole, Ask, ReadAlias
  <2>2. ASSUME NEW r \in Requests, Set(r) \/ SetFails(r) \/ Reread(r) PROVE poeOf' = poeOf
    BY <2>2 DEF Set, SetFails, Reread
  <2>3. CASE DeleteChanges \/ ScanReads \/ ScanStores \/ ScanReadsPoe \/ ScanStoresPoe
    BY <2>3, RescanFrame
  <2> QED
    BY <2>1, <2>2, <2>3 DEF ControlNext, ControlMoves, controlVars
<1>2. ControlInv /\ ControlFits /\ NumbersAgree => SuccessIsOfItsPort
  <2> SUFFICES ASSUME ControlInv, ControlFits, NumbersAgree, NEW e \in audit, e.kind = "POE", e.answer = "whole"
               PROVE  e.result = "SUCCESS" <=> e.found[e.port] = e.requested
    BY DEF SuccessIsOfItsPort
  <2>1. e.port \in Ports /\ Addressed(e) \in Ports
    BY DEF ControlFits, LogFits, EntryFits
  <2>2. Addressed(e) = e.port
    BY <2>1, ControlAssumption DEF Addressed, NumbersAgree
  <2> QED
    BY <2>2 DEF ControlInv, SuccessIsTrue
<1>3. ControlInv /\ NumbersAgree /\ [ControlNext]_controlVars => [Spared]_controlVars
  <2> SUFFICES ASSUME ControlInv, NumbersAgree, ControlNext, NEW p \in Ports, shielded[p],
                      real[p]["POE"] = "ENABLED", real'[p]["POE"] = "DISABLED"
               PROVE  \E r \in Requests : Sends(r) /\ requests[r].port = p /\ requests[r].force
    OBVIOUS
  <2>1. PICK r \in Requests :
            /\ Sends(r) /\ Addressed(requests[r]) = p
            /\ shielded[requests[r].port] => requests[r].force \/ requests[r].want \in {"UP", "ENABLED"}
            /\ \A k \in Kinds : real'[p][k] = real[p][k] \/ (requests[r].kind = k /\ real'[p][k] = requests[r].want)
    BY ShieldStep
  <2>2. requests[r].kind = "POE" /\ requests[r].want = "DISABLED"
    BY <2>1 DEF Kinds
  <2>3. requests[r].port \in Ports
    BY <2>1 DEF Sends, ControlInv, ControlTypes, Pending
  <2>4. requests[r].port = p
    BY <2>1, <2>2, <2>3, ControlAssumption DEF Addressed, NumbersAgree
  <2> QED
    BY <2>1, <2>2, <2>4
<1> HIDE DEF Spared
<1>4. ControlSpec /\ NumbersAgree => []SuccessIsOfItsPort /\ [][Spared]_controlVars
  BY <1>1, <1>2, <1>3, ControlInvariant, ControlFitting, PTL DEF ControlSpec
<1> QED
  BY <1>4 DEF Spared, PoeShielded

-----------------------------------------------------------------------------
(* Migration.                                                                    *)

ServerRows ==
    [step : {"off", "tables", "insert", "guard", "alter", "write", "serving", "failed"},
     missing : SUBSET Tables, at : Nat, alone : BOOLEAN]
MigrationTypes == version \in Nat /\ servers \in [Servers -> ServerRows]

HasColumn(k) == ColumnOf(k) \in columns
IsWhole(t) == Whole(t) \subseteq columns

(* What the version row says is there; without a row, no table lacks a column. *)
VersionTold ==
    /\ \A k \in AddedBy(version) : HasTable(Steps[k].table) => HasColumn(k)
    /\ version = 0 => \A t \in Tables : HasTable(t) => IsWhole(t)

(* How far a server has come, and what it has left behind it. *)
Behind(s) ==
    /\ servers[s].step = "tables" => \A t \in Tables : t \in servers[s].missing \/ HasTable(t)
    /\ servers[s].step \in {"insert", "guard", "alter", "write", "serving"} => \A t \in Tables : HasTable(t)
    /\ servers[s].step \in {"guard", "alter"} =>
         servers[s].at \in DOMAIN Steps /\ \A j \in DOMAIN Steps : j < servers[s].at => HasColumn(j)
    /\ servers[s].step = "write" => \A j \in DOMAIN Steps : HasColumn(j)
    /\ servers[s].step = "serving" => \A t \in Tables : IsWhole(t)

(* What a server that starts by itself may rely on. *)
Undisturbed(s) ==
    servers[s].alone =>
        /\ servers[s].step # "failed"
        /\ Starting(s) => \A w \in Servers \ {s} : ~Starting(w)
        /\ servers[s].step = "tables" => \A t \in servers[s].missing : ~HasTable(t)
        /\ servers[s].step = "insert" => version = 0
        /\ servers[s].step = "alter" => ~HasColumn(servers[s].at)

MigrationInv == MigrationTypes /\ VersionTold /\ \A s \in Servers : Behind(s) /\ Undisturbed(s)

-----------------------------------------------------------------------------
(* The migrations: their number, and that none of them adds a table's key.      *)
LEMMA StepsAre ==
  /\ DOMAIN Steps = 1..18 /\ Cardinality(DOMAIN Steps) = 18
  /\ \A k \in DOMAIN Steps : Steps[k].table \in Tables /\ Steps[k].version \in 1..14 /\ Steps[k].column # "id"
<1>1. DOMAIN Steps = 1..18
  BY DEF Steps
<1>2. Cardinality(1..18) = 18
  <2>1. Cardinality(1..18) = IF 1 > 18 THEN 0 ELSE 18 - 1 + 1
    BY FS_Interval, 1 \in Int, 18 \in Int
  <2> QED
    BY <2>1
<1>3. \A k \in 1..18 : Steps[k].version \in 1..14 /\ Steps[k].column # "id"
  BY DEF Steps, Step
<1> QED
  BY <1>1, <1>2, <1>3 DEF Tables

LEMMA LeastStep ==
  ASSUME NEW S \in SUBSET (DOMAIN Steps), S # {}
  PROVE  First(S) \in S /\ \A j \in S : First(S) <= j
<1> DEFINE R == OpToRel(<, Nat)
<1>1. IsWellFoundedOn(R, Nat)
  BY NatLessThanWellFounded
<1>2. \A n, m \in Nat : n < m => <<n, m>> \in R
  BY DEF OpToRel
<1>3. S \subseteq Nat
  BY StepsAre
<1> HIDE DEF R
<1>4. PICK m \in S : \A n \in S : ~ (<<n, m>> \in R)
  BY <1>1, <1>3, WFMin
<1>5. ASSUME NEW n \in S PROVE m <= n
  <2>1. n \in Nat /\ m \in Nat
    BY <1>3
  <2>2. ~ (n < m)
    BY <2>1, <1>2, <1>4
  <2> QED
    BY <2>1, <2>2
<1> QED
  BY <1>4, <1>5 DEF First

(* A table with all its columns. *)
LEMMA AllColumns ==
  ASSUME \A t \in Tables : HasTable(t), \A k \in DOMAIN Steps : HasColumn(k)
  PROVE  \A t \in Tables : IsWhole(t)
BY StepsAre DEF HasTable, HasColumn, IsWhole, Whole, ColumnOf

(* A table that is made whole gets its key and the columns of its migrations.   *)
LEMMA WholeTable ==
  ASSUME NEW t \in Tables, NEW k \in DOMAIN Steps, Steps[k].table = t
  PROVE  ColumnOf(k) \in Whole(t)
BY DEF Whole, ColumnOf

-----------------------------------------------------------------------------
(* What has been found in the database stays there.                             *)
LEMMA ColumnsStay ==
  ASSUME MigrationInv, columns \subseteq columns'
  PROVE  /\ \A t \in Tables : (HasTable(t) => HasTable(t)') /\ (IsWhole(t) => IsWhole(t)')
         /\ \A k \in DOMAIN Steps : HasColumn(k) => HasColumn(k)'
BY DEF HasTable, IsWhole, HasColumn

LEMMA MigrationInitInv == MigrationInit => MigrationInv
<1> SUFFICES ASSUME MigrationInit PROVE MigrationInv
  OBVIOUS
<1>1. MigrationTypes
  BY MigrationAssumption DEF MigrationInit, MigrationTypes, ServerRows, Off
<1>2. \A k \in AddedBy(version) : HasTable(Steps[k].table) => HasColumn(k)
  <2>1. ASSUME NEW k \in AddedBy(version), HasTable(Steps[k].table) PROVE Steps[k].table \in TablesOf(version)
    <3>1. [table |-> Steps[k].table, column |-> "id"] \in SchemaOf(version)
      BY <2>1 DEF HasTable, MigrationInit
    <3>2. \A j \in AddedBy(version) : ColumnOf(j) # [table |-> Steps[k].table, column |-> "id"]
      BY StepsAre DEF ColumnOf, AddedBy
    <3> QED
      BY <3>1, <3>2 DEF SchemaOf
  <2> QED
    BY <2>1 DEF HasColumn, MigrationInit, SchemaOf
<1>3. version = 0 => columns = {}
  BY StepsAre DEF MigrationInit, SchemaOf, TablesOf, AddedBy
<1>4. VersionTold
  BY <1>2, <1>3 DEF VersionTold, HasTable
<1>5. \A s \in Servers : Behind(s) /\ Undisturbed(s)
  BY DEF MigrationInit, Behind, Undisturbed, Off, Starting
<1> QED
  BY <1>1, <1>4, <1>5 DEF MigrationInv

(* A server that moves to another step while columns and the version stay.      *)
LEMMA OthersKept ==
  ASSUME MigrationInv, NEW s \in Servers, NEW q \in ServerRows,
         servers' = [servers EXCEPT ![s] = q], columns \subseteq columns',
         Starting(s) \/ (columns' = columns /\ version' = version /\ q.step \in {"off", "serving", "failed"})
  PROVE  /\ servers' \in [Servers -> ServerRows] /\ servers'[s] = q
         /\ \A u \in Servers \ {s} : Behind(u)' /\ Undisturbed(u)'
<1>1. servers' \in [Servers -> ServerRows] /\ servers'[s] = q /\ \A u \in Servers \ {s} : servers'[u] = servers[u]
  BY DEF MigrationInv, MigrationTypes
<1>2. ASSUME NEW u \in Servers \ {s} PROVE Behind(u)'
  <2>1. Behind(u) /\ servers'[u] = servers[u]
    BY <1>1 DEF MigrationInv
  <2> QED
    BY <2>1, ColumnsStay DEF Behind
<1>3. ASSUME NEW u \in Servers \ {s} PROVE Undisturbed(u)'
  <2>1. Undisturbed(u) /\ servers'[u] = servers[u]
    BY <1>1 DEF MigrationInv
  <2>2. CASE Starting(s)
    <3>1. servers[u].alone => ~Starting(u)
      BY <2>1, <2>2 DEF Undisturbed
    <3> QED
      BY <2>1, <3>1 DEF Undisturbed, Starting
  <2>3. CASE columns' = columns /\ version' = version /\ q.step \in {"off", "serving", "failed"}
    <3>1. \A w \in Servers : Starting(w)' => Starting(w)
      BY <1>1, <2>3 DEF Starting
    <3> QED
      BY <2>1, <2>3, <3>1 DEF Undisturbed, Starting, HasTable, HasColumn
  <2> QED
    BY <2>2, <2>3
<1> QED
  BY <1>1, <1>2, <1>3

LEMMA StartKeeps ==
  ASSUME MigrationInv, NEW s \in Servers, Start(s) PROVE MigrationInv'
<1> USE DEF MigrationInv, MigrationTypes
<1> DEFINE row == [step |-> "tables", missing |-> {t \in Tables : ~HasTable(t)}, at |-> 0,
                   alone |-> \A w \in Servers \ {s} : ~Starting(w)]
<1>1. /\ servers' = [u \in Servers |->
                       IF u = s THEN row
                       ELSE IF Starting(u) THEN [servers[u] EXCEPT !.alone = FALSE] ELSE servers[u]]
      /\ columns' = columns /\ version' = version
  BY DEF Start
<1>2. row \in ServerRows
  BY DEF ServerRows
<1>3. \A u \in Servers : Starting(u) => [servers[u] EXCEPT !.alone = FALSE] \in ServerRows
  BY DEF ServerRows
<1> HIDE DEF row
<1>4. MigrationTypes' /\ VersionTold'
  BY <1>1, <1>2, <1>3 DEF VersionTold, HasTable, HasColumn, IsWhole
<1>5. servers'[s] = row /\ \A u \in Servers \ {s} :
        servers'[u] = IF Starting(u) THEN [servers[u] EXCEPT !.alone = FALSE] ELSE servers[u]
  BY <1>1
<1>6. Behind(s)' /\ Undisturbed(s)'
  <2>1. servers'[s].step = "tables" /\ servers'[s].missing = {t \in Tables : ~HasTable(t)}
        /\ (servers'[s].alone => \A w \in Servers \ {s} : ~Starting(w))
    BY <1>5 DEF row
  <2>2. (\A w \in Servers \ {s} : ~Starting(w)) => \A w \in Servers \ {s} : ~Starting(w)'
    BY <1>5 DEF Starting
  <2> QED
    BY <1>1, <2>1, <2>2 DEF Behind, Undisturbed, HasTable, HasColumn, IsWhole
<1>7. ASSUME NEW u \in Servers \ {s} PROVE Behind(u)' /\ Undisturbed(u)'
  <2>1. Behind(u) /\ Undisturbed(u) /\ servers[u] \in ServerRows
    OBVIOUS
  <2>2. CASE Starting(u)
    <3>1. servers'[u] = [servers[u] EXCEPT !.alone = FALSE]
      BY <1>5, <2>2
    <3>2. ~servers'[u].alone /\ servers'[u].step = servers[u].step /\ servers'[u].at = servers[u].at
          /\ servers'[u].missing = servers[u].missing
      BY <2>1, <3>1 DEF ServerRows
    <3> QED
      BY <1>1, <2>1, <3>2 DEF Behind, Undisturbed, HasTable, HasColumn, IsWhole
  <2>3. CASE ~Starting(u)
    <3>1. servers'[u] = servers[u]
      BY <1>5, <2>3
    <3> QED
      BY <1>1, <2>1, <2>3, <3>1 DEF Behind, Undisturbed, Starting, HasTable, HasColumn, IsWhole
  <2> QED
    BY <2>2, <2>3
<1> QED
  BY <1>4, <1>6, <1>7

LEMMA CreateTableKeeps ==
  ASSUME MigrationInv, NEW s \in Servers, CreateTable(s) PROVE MigrationInv'
<1> USE DEF MigrationInv, MigrationTypes
<1>0. PICK t : t = CHOOSE u \in servers[s].missing : TRUE
  OBVIOUS
<1>1. servers[s].step = "tables" /\ servers[s].missing # {} /\ version' = version
  BY DEF CreateTable
<1>2. servers[s] \in ServerRows /\ Behind(s) /\ Undisturbed(s)
  OBVIOUS
<1>3. t \in servers[s].missing /\ t \in Tables
  BY <1>0, <1>1, <1>2 DEF ServerRows
<1>4. Starting(s)
  BY <1>1 DEF Starting
<1>5. CASE HasTable(t)
  <2> DEFINE q == [servers[s] EXCEPT !.step = "failed"]
  <2>1. servers' = [servers EXCEPT ![s] = q] /\ columns' = columns
    BY <1>0, <1>5 DEF CreateTable, Goes
  <2>2. q \in ServerRows /\ q.step = "failed" /\ q.alone = servers[s].alone
    BY <1>2 DEF ServerRows
  <2>3. ~servers[s].alone
    BY <1>1, <1>2, <1>3, <1>5 DEF Undisturbed
  <2> HIDE DEF q
  <2>4. /\ servers' \in [Servers -> ServerRows] /\ servers'[s] = q
        /\ \A u \in Servers \ {s} : Behind(u)' /\ Undisturbed(u)'
    BY <1>4, <2>1, <2>2, OthersKept
  <2>5. Behind(s)' /\ Undisturbed(s)'
    BY <2>2, <2>3, <2>4 DEF Behind, Undisturbed
  <2>6. VersionTold'
    BY <1>1, <2>1 DEF VersionTold, HasTable, HasColumn, IsWhole
  <2> QED
    BY <1>1, <2>4, <2>5, <2>6
<1>6. CASE ~HasTable(t)
  <2> DEFINE q == [servers[s] EXCEPT !.missing = @ \ {t}]
  <2>1. servers' = [servers EXCEPT ![s] = q] /\ columns' = columns \cup Whole(t)
    BY <1>0, <1>6 DEF CreateTable
  <2>2. q \in ServerRows /\ q.step = "tables" /\ q.alone = servers[s].alone /\ q.missing = servers[s].missing \ {t}
    BY <1>1, <1>2 DEF ServerRows
  <2> HIDE DEF q
  <2>3. /\ servers' \in [Servers -> ServerRows] /\ servers'[s] = q
        /\ \A u \in Servers \ {s} : Behind(u)' /\ Undisturbed(u)'
    BY <1>4, <2>1, <2>2, OthersKept
  <2>4. IsWhole(t)' /\ HasTable(t)'
    BY <2>1 DEF IsWhole, HasTable, Whole
  <2>5. ASSUME NEW u \in Tables, u # t PROVE HasTable(u)' => HasTable(u)
    BY <2>1, <2>5, StepsAre DEF HasTable, Whole
  <2>6. \A u \in Tables : (HasTable(u) => HasTable(u)') /\ (IsWhole(u) => IsWhole(u)')
    BY <2>1 DEF HasTable, IsWhole
  <2>7. VersionTold'
    <3>1. ASSUME NEW k \in AddedBy(version), HasTable(Steps[k].table)' PROVE HasColumn(k)'
      <4>1. k \in DOMAIN Steps /\ Steps[k].table \in Tables
        BY StepsAre DEF AddedBy
      <4>2. CASE Steps[k].table = t
        BY <2>1, <4>1, <4>2, WholeTable DEF HasColumn
      <4>3. CASE Steps[k].table # t
        <5>1. HasColumn(k)
          BY <2>5, <3>1, <4>1, <4>3 DEF VersionTold
        <5> QED
          BY <2>1, <5>1 DEF HasColumn
      <4> QED
        BY <4>2, <4>3
    <3>2. ASSUME version = 0, NEW u \in Tables, HasTable(u)' PROVE IsWhole(u)'
      BY <2>4, <2>5, <2>6, <3>2 DEF VersionTold
    <3> QED
      BY <1>1, <3>1, <3>2 DEF VersionTold, AddedBy
  <2>8. Behind(s)'
    BY <1>1, <1>2, <2>2, <2>3, <2>4, <2>6 DEF Behind
  <2>9. Undisturbed(s)'
    <3>1. servers'[s].alone => \A w \in Servers \ {s} : ~Starting(w) /\ servers'[w] = servers[w]
      BY <1>2, <1>4, <2>1, <2>2, <2>3 DEF Undisturbed
    <3>2. servers'[s].alone => \A w \in Servers \ {s} : ~Starting(w)'
      BY <3>1 DEF Starting
    <3>3. servers'[s].alone => \A u \in servers'[s].missing : ~HasTable(u)'
      <4>1. servers'[s].missing \subseteq Tables
        BY <2>2, <2>3 DEF ServerRows
      <4> QED
        BY <1>1, <1>2, <2>2, <2>3, <2>5, <4>1 DEF Undisturbed
    <3> QED
      BY <2>2, <2>3, <3>2, <3>3 DEF Undisturbed
  <2> QED
    BY <1>1, <2>3, <2>7, <2>8, <2>9
<1> QED
  BY <1>5, <1>6

(* A server that moves on and leaves the tables and the version as they are.    *)
LEMMA MoveKeeps ==
  ASSUME MigrationInv, NEW s \in Servers, NEW q \in ServerRows,
         servers' = [servers EXCEPT ![s] = q], columns' = columns, version' = version,
         Starting(s) \/ q.step \in {"off", "serving", "failed"}
  PROVE  /\ MigrationTypes' /\ VersionTold' /\ servers'[s] = q
         /\ \A u \in Servers \ {s} : Behind(u)' /\ Undisturbed(u)'
         /\ Starting(s) /\ servers[s].alone => \A w \in Servers \ {s} : ~Starting(w)'
<1>1. /\ servers' \in [Servers -> ServerRows] /\ servers'[s] = q
      /\ \A u \in Servers \ {s} : Behind(u)' /\ Undisturbed(u)'
  BY OthersKept
<1>2. MigrationTypes' /\ VersionTold'
  BY <1>1 DEF MigrationInv, MigrationTypes, VersionTold, HasTable, HasColumn, IsWhole
<1>3. Starting(s) /\ servers[s].alone => \A w \in Servers \ {s} : ~Starting(w)'
  BY DEF MigrationInv, Undisturbed, Starting
<1> QED
  BY <1>1, <1>2, <1>3

LEMMA ReadVersionKeeps ==
  ASSUME MigrationInv, NEW s \in Servers, ReadVersion(s) PROVE MigrationInv'
<1> USE DEF MigrationInv
<1> DEFINE to == IF version = 0 THEN "insert" ELSE IF Todo(version) = {} THEN "serving" ELSE "guard"
           at == IF version = 0 \/ Todo(version) = {} THEN 0 ELSE First(Todo(version))
           q == [servers[s] EXCEPT !.step = to, !.at = at]
<1>1. /\ servers[s].step = "tables" /\ servers[s].missing = {}
      /\ servers' = [servers EXCEPT ![s] = q] /\ columns' = columns /\ version' = version
  BY DEF ReadVersion, MigrationTypes
<1>2. servers[s] \in ServerRows /\ Behind(s) /\ Undisturbed(s) /\ Starting(s) /\ version \in Nat
  BY <1>1 DEF MigrationTypes, Starting
<1>3. \A t \in Tables : HasTable(t)
  BY <1>1, <1>2 DEF Behind
<1>4. Todo(version) \subseteq DOMAIN Steps /\ \A k \in DOMAIN Steps \ Todo(version) : HasColumn(k)
  <2>1. \A k \in DOMAIN Steps \ Todo(version) : k \in AddedBy(version)
    BY <1>2, StepsAre DEF Todo, AddedBy
  <2> QED
    BY <1>3, <2>1, StepsAre DEF Todo, VersionTold
<1>5. at \in Nat /\ (to = "guard" => at \in Todo(version) /\ \A j \in Todo(version) : at <= j)
  BY <1>4, LeastStep, StepsAre
<1>6. to = "guard" => at \in DOMAIN Steps /\ \A j \in DOMAIN Steps : j < at => HasColumn(j)
  BY <1>4, <1>5, StepsAre
<1>7. to = "serving" => \A t \in Tables : IsWhole(t)
  BY <1>3, <1>4, AllColumns
<1>8. to \in {"insert", "serving", "guard"} /\ (to = "insert" => version = 0)
  OBVIOUS
<1> HIDE DEF to, at
<1>9. q \in ServerRows /\ q.step = to /\ q.at = at /\ q.alone = servers[s].alone
  BY <1>2, <1>5, <1>8 DEF ServerRows
<1> HIDE DEF q
<1>10. /\ MigrationTypes' /\ VersionTold' /\ servers'[s] = q
       /\ \A u \in Servers \ {s} : Behind(u)' /\ Undisturbed(u)'
       /\ Starting(s) /\ servers[s].alone => \A w \in Servers \ {s} : ~Starting(w)'
  BY <1>1, <1>2, <1>9, MoveKeeps
<1>11. Behind(s)'
  BY <1>1, <1>3, <1>6, <1>7, <1>8, <1>9, <1>10 DEF Behind, HasTable, HasColumn, IsWhole
<1>12. Undisturbed(s)'
  BY <1>1, <1>2, <1>8, <1>9, <1>10 DEF Undisturbed
<1> QED
  BY <1>10, <1>11, <1>12

LEMMA InsertVersionKeeps ==
  ASSUME MigrationInv, NEW s \in Servers, InsertVersion(s) PROVE MigrationInv'
<1> USE DEF MigrationInv
<1>1. servers[s].step = "insert" /\ columns' = columns
  BY DEF InsertVersion
<1>2. servers[s] \in ServerRows /\ Behind(s) /\ Undisturbed(s) /\ Starting(s) /\ version \in Nat
  BY <1>1 DEF MigrationTypes, Starting
<1>3. CASE version # 0
  <2> DEFINE q == [servers[s] EXCEPT !.step = "failed"]
  <2>1. servers' = [servers EXCEPT ![s] = q] /\ version' = version /\ ~servers[s].alone
    BY <1>1, <1>2, <1>3 DEF InsertVersion, Goes, Undisturbed
  <2>2. q \in ServerRows /\ q.step = "failed" /\ q.alone = servers[s].alone
    BY <1>2 DEF ServerRows
  <2> HIDE DEF q
  <2>3. /\ MigrationTypes' /\ VersionTold' /\ servers'[s] = q
        /\ \A u \in Servers \ {s} : Behind(u)' /\ Undisturbed(u)'
    BY <1>1, <1>2, <2>1, <2>2, MoveKeeps
  <2> QED
    BY <2>1, <2>2, <2>3 DEF Behind, Undisturbed
<1>4. CASE version = 0
  <2> DEFINE q == [servers[s] EXCEPT !.step = "serving"]
  <2>1. servers' = [servers EXCEPT ![s] = q] /\ version' = 14
    BY <1>4 DEF InsertVersion, Goes, SCHEMA_VERSION
  <2>2. q \in ServerRows /\ q.step = "serving" /\ q.alone = servers[s].alone
    BY <1>2 DEF ServerRows
  <2> HIDE DEF q
  <2>3. /\ servers' \in [Servers -> ServerRows] /\ servers'[s] = q
        /\ \A u \in Servers \ {s} : Behind(u)' /\ Undisturbed(u)'
    BY <1>1, <1>2, <2>1, <2>2, OthersKept
  <2>4. \A t \in Tables : HasTable(t) /\ IsWhole(t)
    BY <1>1, <1>2, <1>4 DEF Behind, VersionTold
  <2>5. \A k \in DOMAIN Steps : HasColumn(k)
    BY <2>4, StepsAre, WholeTable DEF HasColumn, IsWhole
  <2>6. VersionTold'
    BY <1>1, <2>1, <2>5 DEF VersionTold, HasColumn, AddedBy
  <2>7. Behind(s)' /\ Undisturbed(s)'
    BY <1>1, <2>2, <2>3, <2>4 DEF Behind, Undisturbed, Starting, HasTable, IsWhole
  <2> QED
    BY <2>1, <2>3, <2>6, <2>7 DEF MigrationTypes
<1> QED
  BY <1>3, <1>4

(* A server that has brought one more column behind it.                         *)
LEMMA NextStep ==
  ASSUME NEW k \in DOMAIN Steps
  PROVE  /\ AfterStep(k) \in {"guard", "write"} /\ k + 1 \in Nat
         /\ AfterStep(k) = "guard" => k + 1 \in DOMAIN Steps
         /\ AfterStep(k) = "write" => \A j \in DOMAIN Steps : j < k + 1
         /\ \A j \in DOMAIN Steps : j < k + 1 => j < k \/ j = k
BY StepsAre DEF AfterStep

LEMMA GuardKeeps ==
  ASSUME MigrationInv, NEW s \in Servers, Guard(s) PROVE MigrationInv'
<1> USE DEF MigrationInv
<1>0. PICK at : at = servers[s].at
  OBVIOUS
<1>1. servers[s].step = "guard" /\ columns' = columns /\ version' = version
  BY DEF Guard
<1>2. servers[s] \in ServerRows /\ Behind(s) /\ Undisturbed(s) /\ Starting(s)
  BY <1>1 DEF MigrationTypes, Starting
<1>3. at \in DOMAIN Steps /\ (\A j \in DOMAIN Steps : j < at => HasColumn(j)) /\ \A t \in Tables : HasTable(t)
  BY <1>0, <1>1, <1>2 DEF Behind
<1>4. CASE Guarded(at)
  <2> DEFINE q == [servers[s] EXCEPT !.step = "alter"]
  <2>1. servers' = [servers EXCEPT ![s] = q] /\ ~HasColumn(at)
    BY <1>0, <1>4 DEF Guard, Goes, Guarded, HasColumn
  <2>2. q \in ServerRows /\ q.step = "alter" /\ q.alone = servers[s].alone /\ q.at = at
    BY <1>0, <1>2 DEF ServerRows
  <2> HIDE DEF q
  <2>3. /\ MigrationTypes' /\ VersionTold' /\ servers'[s] = q
        /\ \A u \in Servers \ {s} : Behind(u)' /\ Undisturbed(u)'
        /\ Starting(s) /\ servers[s].alone => \A w \in Servers \ {s} : ~Starting(w)'
    BY <1>1, <1>2, <2>1, <2>2, MoveKeeps
  <2>4. Behind(s)'
    BY <1>1, <1>3, <2>2, <2>3 DEF Behind, HasTable, HasColumn
  <2>5. Undisturbed(s)'
    BY <1>1, <1>2, <2>1, <2>2, <2>3 DEF Undisturbed, HasColumn
  <2> QED
    BY <2>3, <2>4, <2>5
<1>5. CASE ~Guarded(at)
  <2> DEFINE q == [servers[s] EXCEPT !.step = AfterStep(at), !.at = at + 1]
  <2>1. servers' = [servers EXCEPT ![s] = q] /\ HasColumn(at)
    BY <1>0, <1>2, <1>5 DEF Guard, Guarded, HasColumn, MigrationTypes
  <2>2. q \in ServerRows /\ q.step = AfterStep(at) /\ q.alone = servers[s].alone /\ q.at = at + 1
    BY <1>2, <1>3, NextStep DEF ServerRows
  <2> HIDE DEF q
  <2>3. /\ MigrationTypes' /\ VersionTold' /\ servers'[s] = q
        /\ \A u \in Servers \ {s} : Behind(u)' /\ Undisturbed(u)'
        /\ Starting(s) /\ servers[s].alone => \A w \in Servers \ {s} : ~Starting(w)'
    BY <1>1, <1>2, <2>1, <2>2, MoveKeeps
  <2>4. Behind(s)'
    <3>1. (\A t \in Tables : HasTable(t)') /\ \A j \in DOMAIN Steps : j < at + 1 => HasColumn(j)'
      BY <1>1, <1>3, <2>1, NextStep DEF HasTable, HasColumn
    <3> QED
      BY <1>3, <2>2, <2>3, <3>1, NextStep DEF Behind
  <2>5. Undisturbed(s)'
    BY <1>1, <1>2, <1>3, <2>1, <2>2, <2>3, NextStep DEF Undisturbed
  <2> QED
    BY <2>3, <2>4, <2>5
<1> QED
  BY <1>4, <1>5

LEMMA AlterKeeps ==
  ASSUME MigrationInv, NEW s \in Servers, Alter(s) PROVE MigrationInv'
<1> USE DEF MigrationInv
<1>0. PICK at : at = servers[s].at
  OBVIOUS
<1>1. servers[s].step = "alter" /\ version' = version
  BY DEF Alter
<1>2. servers[s] \in ServerRows /\ Behind(s) /\ Undisturbed(s) /\ Starting(s)
  BY <1>1 DEF MigrationTypes, Starting
<1>3. at \in DOMAIN Steps /\ (\A j \in DOMAIN Steps : j < at => HasColumn(j)) /\ \A t \in Tables : HasTable(t)
  BY <1>0, <1>1, <1>2 DEF Behind
<1>4. CASE HasColumn(at)
  <2> DEFINE q == [servers[s] EXCEPT !.step = "failed"]
  <2>1. servers' = [servers EXCEPT ![s] = q] /\ columns' = columns
    BY <1>0, <1>4 DEF Alter, Goes, HasColumn
  <2>2. q \in ServerRows /\ q.step = "failed" /\ q.alone = servers[s].alone
    BY <1>2 DEF ServerRows
  <2>3. ~servers[s].alone
    BY <1>0, <1>1, <1>2, <1>4 DEF Undisturbed
  <2> HIDE DEF q
  <2>4. /\ MigrationTypes' /\ VersionTold' /\ servers'[s] = q
        /\ \A u \in Servers \ {s} : Behind(u)' /\ Undisturbed(u)'
    BY <1>1, <1>2, <2>1, <2>2, MoveKeeps
  <2> QED
    BY <2>2, <2>3, <2>4 DEF Behind, Undisturbed
<1>5. CASE ~HasColumn(at)
  <2> DEFINE q == [servers[s] EXCEPT !.step = AfterStep(at), !.at = at + 1]
  <2>1. servers' = [servers EXCEPT ![s] = q] /\ columns' = columns \cup {ColumnOf(at)}
    BY <1>0, <1>2, <1>5 DEF Alter, HasColumn, MigrationTypes
  <2>2. q \in ServerRows /\ q.step = AfterStep(at) /\ q.alone = servers[s].alone /\ q.at = at + 1
    BY <1>2, <1>3, NextStep DEF ServerRows
  <2> HIDE DEF q
  <2>3. /\ servers' \in [Servers -> ServerRows] /\ servers'[s] = q
        /\ \A u \in Servers \ {s} : Behind(u)' /\ Undisturbed(u)'
    BY <1>2, <2>1, <2>2, OthersKept
  <2>4. /\ \A t \in Tables : HasTable(t)' /\ (IsWhole(t) => IsWhole(t)')
        /\ \A j \in DOMAIN Steps : HasColumn(j) => HasColumn(j)'
    BY <1>3, <2>1 DEF HasTable, HasColumn, IsWhole
  <2>5. VersionTold'
    BY <1>1, <1>3, <2>4, StepsAre DEF VersionTold, AddedBy
  <2>6. Behind(s)'
    <3>1. \A j \in DOMAIN Steps : j < at + 1 => HasColumn(j)'
      BY <1>3, <2>1, <2>4, NextStep DEF HasColumn
    <3> QED
      BY <1>3, <2>2, <2>3, <2>4, <3>1, NextStep DEF Behind
  <2>7. servers[s].alone => \A w \in Servers \ {s} : ~Starting(w)'
    BY <1>2, <2>1 DEF Undisturbed, Starting, MigrationTypes
  <2>8. Undisturbed(s)'
    BY <1>3, <2>2, <2>3, <2>7, NextStep DEF Undisturbed
  <2> QED
    BY <1>1, <2>3, <2>5, <2>6, <2>8 DEF MigrationTypes
<1> QED
  BY <1>4, <1>5

LEMMA WriteVersionKeeps ==
  ASSUME MigrationInv, NEW s \in Servers, WriteVersion(s) PROVE MigrationInv'
<1> USE DEF MigrationInv
<1> DEFINE q == [servers[s] EXCEPT !.step = "serving"]
<1>1. servers[s].step = "write" /\ version' = 14 /\ columns' = columns /\ servers' = [servers EXCEPT ![s] = q]
  BY DEF WriteVersion, Goes, SCHEMA_VERSION
<1>2. servers[s] \in ServerRows /\ Behind(s) /\ Undisturbed(s) /\ Starting(s)
  BY <1>1 DEF MigrationTypes, Starting
<1>3. q \in ServerRows /\ q.step = "serving" /\ q.alone = servers[s].alone
  BY <1>2 DEF ServerRows
<1> HIDE DEF q
<1>4. /\ servers' \in [Servers -> ServerRows] /\ servers'[s] = q
      /\ \A u \in Servers \ {s} : Behind(u)' /\ Undisturbed(u)'
  BY <1>1, <1>2, <1>3, OthersKept
<1>5. (\A t \in Tables : HasTable(t)) /\ (\A k \in DOMAIN Steps : HasColumn(k))
  BY <1>1, <1>2 DEF Behind
<1>6. \A t \in Tables : IsWhole(t)
  BY <1>5, AllColumns
<1>7. VersionTold'
  BY <1>1, <1>5 DEF VersionTold, HasColumn, AddedBy
<1>8. Behind(s)' /\ Undisturbed(s)'
  BY <1>1, <1>3, <1>4, <1>5, <1>6 DEF Behind, Undisturbed, Starting, HasTable, IsWhole
<1> QED
  BY <1>1, <1>4, <1>7, <1>8 DEF MigrationTypes

LEMMA StopKeeps ==
  ASSUME MigrationInv, NEW s \in Servers, Stop(s) PROVE MigrationInv'
<1>1. servers' = [servers EXCEPT ![s] = Off] /\ columns' = columns /\ version' = version
  BY DEF Stop
<1>2. Off \in ServerRows /\ Off.step = "off"
  BY DEF Off, ServerRows
<1>3. /\ MigrationTypes' /\ VersionTold' /\ servers'[s] = Off
      /\ \A u \in Servers \ {s} : Behind(u)' /\ Undisturbed(u)'
  BY <1>1, <1>2, MoveKeeps
<1>4. Behind(s)' /\ Undisturbed(s)'
  BY <1>2, <1>3 DEF Behind, Undisturbed, Starting
<1> QED
  BY <1>3, <1>4 DEF MigrationInv

LEMMA MigrationStepKeeps == MigrationInv /\ [MigrationNext]_migrationVars => MigrationInv'
<1> SUFFICES ASSUME MigrationInv, [MigrationNext]_migrationVars PROVE MigrationInv'
  OBVIOUS
<1>1. ASSUME NEW s \in Servers, Start(s) \/ Proceeds(s) \/ Stop(s) PROVE MigrationInv'
  BY <1>1, StartKeeps, CreateTableKeeps, ReadVersionKeeps, InsertVersionKeeps, GuardKeeps, AlterKeeps,
     WriteVersionKeeps, StopKeeps DEF Proceeds
<1>2. CASE UNCHANGED migrationVars
  BY <1>2 DEF migrationVars, MigrationInv, MigrationTypes, VersionTold, Behind, Undisturbed, Starting,
     HasTable, HasColumn, IsWhole
<1> QED
  BY <1>1, <1>2 DEF MigrationNext

(* Without the fairness that a start ends. *)
LEMMA StartupAlways == MigrationInit /\ [][MigrationNext]_migrationVars => []StartupIsSound
<1>1. MigrationInv => StartupIsSound
  BY DEF MigrationInv, VersionTold, Behind, Undisturbed, StartupIsSound, VersionIsKept, ServesWhole,
     AloneNeverFails, HasColumn, IsWhole
<1> QED
  BY <1>1, MigrationInitInv, MigrationStepKeeps, PTL

(* Through any crashes and any servers that start on one database: no column    *)
(* the version row stands for is missing, a server that serves finds every      *)
(* table whole, and a start by itself never fails (init_db and _migrate).       *)
THEOREM StartupSound == MigrationSpec => []StartupIsSound
BY StartupAlways, PTL DEF MigrationSpec

-----------------------------------------------------------------------------
(* What is in the database: the columns of tables there are.                    *)
SchemaFits ==
    /\ version \in 0..SCHEMA_VERSION /\ starts \in 0..MaxStarts /\ crashed \in BOOLEAN
    /\ columns \subseteq UNION {Whole(t) : t \in Tables}
    /\ \A c \in columns : HasTable(c.table)

LEMMA SchemaStart == MigrationInit => SchemaFits
<1> SUFFICES ASSUME MigrationInit PROVE SchemaFits
  OBVIOUS
<1>1. version \in 0..SCHEMA_VERSION /\ starts \in 0..MaxStarts /\ crashed \in BOOLEAN
  <2>1. version \in FromVersions /\ starts = MaxStarts /\ crashed = FALSE
    BY DEF MigrationInit
  <2>2. FromVersions \subseteq 0..14 /\ MaxStarts \in 0..MaxStarts
    BY MigrationAssumption
  <2> QED
    BY <2>1, <2>2 DEF SCHEMA_VERSION
<1>2. ASSUME NEW c \in columns
      PROVE  c \in UNION {Whole(t) : t \in Tables} /\ HasTable(c.table)
  <2>1. /\ columns = SchemaOf(version)
        /\ TablesOf(version) \subseteq Tables
    BY DEF MigrationInit, TablesOf
  <2>2. CASE c \in {[table |-> t, column |-> "id"] : t \in TablesOf(version)}
    BY <2>1, <2>2 DEF Whole, HasTable
  <2>3. CASE \E k \in AddedBy(version) : Steps[k].table \in TablesOf(version) /\ c = ColumnOf(k)
    <3>1. PICK k \in DOMAIN Steps : Steps[k].table \in TablesOf(version) /\ c = ColumnOf(k)
      BY <2>3 DEF AddedBy
    <3>2. c \in Whole(Steps[k].table) /\ Steps[k].table \in Tables
      BY <2>1, <3>1, WholeTable
    <3>3. c.table = Steps[k].table
      BY <3>1 DEF ColumnOf
    <3>4. [table |-> Steps[k].table, column |-> "id"] \in columns
      BY <2>1, <3>1 DEF SchemaOf
    <3> QED
      BY <3>2, <3>3, <3>4 DEF HasTable
  <2> QED
    BY <2>1, <2>2, <2>3 DEF SchemaOf
<1> QED
  BY <1>1, <1>2 DEF SchemaFits

(* Columns of a table that is there, or is made with them, keep it so. *)
LEMMA SchemaGrows ==
  ASSUME SchemaFits, NEW C, columns' = columns \cup C,
         \A c \in C : c \in UNION {Whole(t) : t \in Tables} /\ [table |-> c.table, column |-> "id"] \in columns',
         version' \in {version, SCHEMA_VERSION}, starts' = starts, crashed' = crashed
  PROVE  SchemaFits'
<1>1. version' \in 0..SCHEMA_VERSION
  BY DEF SchemaFits, SCHEMA_VERSION
<1>2. columns' \subseteq UNION {Whole(t) : t \in Tables}
  BY DEF SchemaFits
<1>3. \A c \in columns' : [table |-> c.table, column |-> "id"] \in columns'
  BY DEF SchemaFits, HasTable
<1> QED
  BY <1>1, <1>2, <1>3 DEF SchemaFits, HasTable

LEMMA SchemaStep == MigrationInv /\ SchemaFits /\ [MigrationNext]_migrationVars => SchemaFits'
<1> SUFFICES ASSUME MigrationInv, SchemaFits, [MigrationNext]_migrationVars PROVE SchemaFits'
  OBVIOUS
<1>1. ASSUME columns' = columns, version' \in {version, SCHEMA_VERSION}, starts' = starts, crashed' = crashed
      PROVE  SchemaFits'
  <2>1. version' \in 0..SCHEMA_VERSION
    BY <1>1 DEF SchemaFits, SCHEMA_VERSION
  <2>2. columns' \subseteq UNION {Whole(t) : t \in Tables} /\ \A c \in columns' : HasTable(c.table)'
    BY <1>1 DEF SchemaFits, HasTable
  <2> QED
    BY <1>1, <2>1, <2>2 DEF SchemaFits
<1>2. ASSUME NEW s \in Servers, Start(s) PROVE SchemaFits'
  <2>1. starts > 0 /\ starts' = starts - 1 /\ UNCHANGED <<version, columns, crashed>>
    BY <1>2 DEF Start
  <2>2. starts' \in 0..MaxStarts
    BY <2>1, MigrationAssumption DEF SchemaFits
  <2>3. /\ columns' \subseteq UNION {Whole(t) : t \in Tables} /\ \A c \in columns' : HasTable(c.table)'
        /\ version' \in 0..SCHEMA_VERSION /\ crashed' \in BOOLEAN
    BY <2>1 DEF SchemaFits, HasTable
  <2> QED
    BY <2>2, <2>3 DEF SchemaFits
<1>3. ASSUME NEW s \in Servers, CreateTable(s) PROVE SchemaFits'
  <2> DEFINE t == CHOOSE u \in servers[s].missing : TRUE
  <2>1. /\ servers[s].missing # {} /\ UNCHANGED <<version, starts, crashed>>
        /\ IF HasTable(t) THEN UNCHANGED columns ELSE columns' = columns \cup Whole(t)
    BY <1>3 DEF CreateTable
  <2>2. t \in servers[s].missing
    BY <2>1
  <2>3. t \in Tables
    BY <2>2 DEF MigrationInv, MigrationTypes, ServerRows
  <2> HIDE DEF t
  <2>4. CASE HasTable(t)
    BY <1>1, <2>1, <2>4
  <2>5. CASE ~HasTable(t)
    <3>1. columns' = columns \cup Whole(t)
      BY <2>1, <2>5
    <3>2. [table |-> t, column |-> "id"] \in columns' /\ \A c \in Whole(t) : c.table = t
      BY <3>1 DEF Whole
    <3>3. \A c \in Whole(t) : c \in UNION {Whole(u) : u \in Tables} /\ [table |-> c.table, column |-> "id"] \in columns'
      BY <2>3, <3>2
    <3> QED
      BY <2>1, <3>1, <3>3, SchemaGrows
  <2> QED
    BY <2>4, <2>5
<1>4. ASSUME NEW s \in Servers, ReadVersion(s) \/ InsertVersion(s) \/ Guard(s) \/ WriteVersion(s) PROVE SchemaFits'
  BY <1>1, <1>4 DEF ReadVersion, InsertVersion, Guard, WriteVersion
<1>5. ASSUME NEW s \in Servers, Alter(s) PROVE SchemaFits'
  <2> DEFINE k == servers[s].at
  <2>1. /\ servers[s].step = "alter" /\ UNCHANGED <<version, starts, crashed>>
        /\ columns' = columns \/ columns' = columns \cup {ColumnOf(k)}
    BY <1>5 DEF Alter
  <2>2. k \in DOMAIN Steps /\ HasTable(Steps[k].table)
    BY <2>1, StepsAre DEF MigrationInv, Behind
  <2>3. CASE columns' = columns
    BY <1>1, <2>1, <2>3
  <2>4. CASE columns' = columns \cup {ColumnOf(k)}
    <3>1. ColumnOf(k) \in Whole(Steps[k].table) /\ Steps[k].table \in Tables
      BY <2>2, WholeTable, StepsAre
    <3>2. ColumnOf(k).table = Steps[k].table
      BY DEF ColumnOf
    <3>3. [table |-> Steps[k].table, column |-> "id"] \in columns'
      BY <2>2, <2>4 DEF HasTable
    <3> QED
      BY <2>1, <2>4, <3>1, <3>2, <3>3, SchemaGrows
  <2> QED
    BY <2>1, <2>3, <2>4
<1>6. ASSUME NEW s \in Servers, Stop(s) PROVE SchemaFits'
  BY <1>6 DEF Stop, SchemaFits, HasTable
<1>7. CASE UNCHANGED migrationVars
  BY <1>1, <1>7 DEF migrationVars
<1> QED
  BY <1>2, <1>3, <1>4, <1>5, <1>6, <1>7 DEF MigrationNext, Proceeds

(* The types of servers, however many start, on a database of whatever version. *)
THEOREM StartupTyped == MigrationInit /\ [][MigrationNext]_migrationVars => []MigrationTypeOK
<1>1. MigrationInv /\ SchemaFits => MigrationTypeOK
  BY DEF MigrationInv, MigrationTypes, ServerRows, Behind, SchemaFits, MigrationTypeOK
<1>2. MigrationInit => MigrationInv /\ SchemaFits
  BY MigrationInitInv, SchemaStart
<1>3. MigrationInv /\ SchemaFits /\ [MigrationNext]_migrationVars => (MigrationInv /\ SchemaFits)'
  BY MigrationStepKeeps, SchemaStep
<1> QED
  BY <1>1, <1>2, <1>3, PTL

-----------------------------------------------------------------------------
(* CredentialProfiles.                                                           *)

Ids == DOMAIN profiles
Texts == Communities \cup {None}
RunRows == [step : {"new", "looked", "scanning", "done", "failed"}, community : Texts, id : Nat \cup {None},
            erred : BOOLEAN, raced : BOOLEAN]
BindingRows == [profile : Nat \cup {None}, legacy : Texts, by : Runs \cup {None}]

(* The profiles: the database numbers them, and a name that the application made *)
(* tells the community.                                                         *)
ProfileTypes ==
    /\ Ids \subseteq Nat \ {0} /\ \E b \in Nat : \A i \in Ids : i <= b
    /\ \A i \in Ids : /\ profiles[i].community \in Communities
                      /\ profiles[i].name \in {Named, AutoName(profiles[i].community)}
RowTypes ==
    /\ bindings \in [Switches -> BindingRows]
    /\ runners \in [Runs -> RunRows]
    /\ \A k \in Clerks : clerks[k].step = "asked" =>
         clerks[k].community \in Communities /\ clerks[k].name \in {Named, AutoName(clerks[k].community)}

(* A run that no operator has disturbed holds a profile of its community, or has *)
(* found none, and then there is none; it has begun before it can err.          *)
RunHolds(r) ==
    /\ runners[r].step \in {"new", "looked"} => ~runners[r].erred
    /\ runners[r].step = "looked" => runners[r].community \in Communities
    /\ runners[r].step = "scanning" => runners[r].id # None
    /\ ~runners[r].raced =>
         /\ runners[r].step \in {"looked", "scanning"} /\ runners[r].id # None =>
              runners[r].id \in Ids /\ profiles[runners[r].id].name = AutoName(runners[r].community)
         /\ runners[r].step = "looked" /\ runners[r].id = None => ~Taken(AutoName(runners[r].community))
         /\ runners[r].step # "failed" /\ ~runners[r].erred
OneLooks == \A q, r \in Runs : runners[q].step = "looked" /\ runners[r].step = "looked" => q = r

(* A device is bound by a run that has begun, to a profile there is.            *)
DeviceHolds(m) ==
    bindings[m].profile # None =>
        /\ bindings[m].profile \in Ids
        /\ bindings[m].by \in Runs /\ runners[bindings[m].by].step \in {"scanning", "done"}
        /\ runners[bindings[m].by].raced
           \/ profiles[bindings[m].profile].community = runners[bindings[m].by].community

CredentialsInv ==
    /\ ProfileTypes /\ RowTypes /\ OneLooks
    /\ \A r \in Runs : RunHolds(r)
    /\ \A m \in Switches : DeviceHolds(m)

-----------------------------------------------------------------------------
(* A name the application made is no operator's, and tells its community.       *)
LEMMA NamesTell == \A c, d : AutoName(c) # Named /\ (AutoName(c) = AutoName(d) => c = d)
<1> TAKE c, d
<1>1. AutoName(c)[1] = "snmp-auto" /\ AutoName(c)[2] = c /\ AutoName(d)[2] = d
  BY DEF AutoName
<1>2. Named[1] = "named"
  BY DEF Named
<1> QED
  BY <1>1, <1>2

LEMMA NewIdIsNew == ProfileTypes => NewId \in Nat \ {0} /\ NewId \notin Ids
<1> SUFFICES ASSUME ProfileTypes PROVE NewId \in Nat \ {0} /\ NewId \notin Ids
  OBVIOUS
<1> DEFINE S == {0} \cup Ids
           B == {m \in Nat : \A n \in S : n <= m}
           R == OpToRel(<, Nat)
<1>1. PICK b \in Nat : \A i \in Ids : i <= b
  BY DEF ProfileTypes
<1>2. S \subseteq Nat /\ b \in B
  BY <1>1 DEF ProfileTypes
<1>0. IsWellFoundedOn(R, Nat)
  BY NatLessThanWellFounded
<1>3. \A n, m \in Nat : n < m => <<n, m>> \in R
  BY DEF OpToRel
<1> HIDE DEF R
<1>4. PICK m \in B : \A n \in B : ~ (<<n, m>> \in R)
  <2>1. B \subseteq Nat /\ B # {}
    BY <1>2
  <2> HIDE DEF B
  <2> QED
    BY <1>0, <2>1, WFMin
<1>5. m \in S
  <2>1. CASE m = 0
    BY <2>1
  <2>2. CASE m # 0
    <3>1. m - 1 \in Nat /\ m - 1 < m
      BY <2>2
    <3>2. m - 1 \notin B
      BY <1>3, <1>4, <3>1
    <3>3. PICK n \in S : ~(n <= m - 1)
      BY <3>1, <3>2
    <3>4. n \in Nat /\ n <= m
      BY <1>2, <3>3
    <3> QED
      BY <3>1, <3>3, <3>4
  <2> QED
    BY <2>1, <2>2
<1>6. \A n \in S : m >= n
  BY <1>2
<1>7. Max(S) \in S /\ \A n \in S : Max(S) >= n
  BY <1>5, <1>6 DEF Max
<1>8. NewId = Max(S) + 1
  BY DEF NewId, Ids
<1> HIDE DEF S
<1>9. Max(S) \in Nat
  BY <1>2, <1>7
<1>10. \A n \in Ids : n \in S /\ n \in Nat
  BY <1>2 DEF S
<1> QED
  BY <1>7, <1>8, <1>9, <1>10

LEMMA FoundIt ==
  ASSUME NEW name
  PROVE  /\ Found(name) # None => Found(name) \in Ids /\ profiles[Found(name)].name = name
         /\ ProfileTypes /\ Found(name) = None => ~Taken(name)
BY CredentialsAssumption DEF Found, Taken, Ids, ProfileTypes

LEMMA AddedRow ==
  ASSUME ProfileTypes, NEW c \in Communities, NEW name \in {Named, AutoName(c)}, profiles' = WithNew(name, c)
  PROVE  /\ ProfileTypes' /\ Ids' = Ids \cup {NewId}
         /\ \A i \in Ids : profiles'[i] = profiles[i]
         /\ profiles'[NewId] = [name |-> name, community |-> c]
<1>1. Ids' = Ids \cup {NewId} /\ profiles'[NewId] = [name |-> name, community |-> c]
  BY DEF WithNew, Ids
<1>2. NewId \in Nat \ {0} /\ NewId \notin Ids
  BY NewIdIsNew
<1>3. \A i \in Ids : profiles'[i] = profiles[i]
  BY <1>2 DEF WithNew, Ids
<1>4. \E b \in Nat : \A i \in Ids' : i <= b
  <2>1. PICK b \in Nat : \A i \in Ids : i <= b
    BY DEF ProfileTypes
  <2>2. \A i \in Ids : i \in Nat
    BY DEF ProfileTypes
  <2>3. b + NewId \in Nat /\ \A i \in Ids \cup {NewId} : i <= b + NewId
    BY <1>2, <2>1, <2>2
  <2> QED
    BY <1>1, <2>3
<1>5. \A i \in Ids' : profiles'[i].community \in Communities /\ profiles'[i].name \in {Named, AutoName(profiles'[i].community)}
  BY <1>1, <1>3 DEF ProfileTypes
<1> QED
  BY <1>1, <1>2, <1>3, <1>4, <1>5 DEF ProfileTypes

LEMMA CredentialsInitInv == CredentialsInit => CredentialsInv
<1> SUFFICES ASSUME CredentialsInit PROVE CredentialsInv
  OBVIOUS
<1>1. Ids = {}
  BY DEF CredentialsInit, Ids
<1>2. ProfileTypes
  BY <1>1 DEF ProfileTypes
<1>3. RowTypes
  BY DEF CredentialsInit, RowTypes, BindingRows, RunRows, Texts, NotBegun, NoClerk
<1>4. OneLooks /\ \A r \in Runs : RunHolds(r)
  BY DEF CredentialsInit, OneLooks, RunHolds, NotBegun
<1>5. \A m \in Switches : DeviceHolds(m)
  BY DEF CredentialsInit, DeviceHolds
<1> QED
  BY <1>2, <1>3, <1>4, <1>5 DEF CredentialsInv

(* A run looks its profile up. *)
LEMMA LookKeeps ==
  ASSUME CredentialsInv, NEW r \in Runs, Look(r) PROVE CredentialsInv'
<1> USE DEF CredentialsInv, RowTypes
<1>1. /\ runners[r].step = "new" /\ \A q \in Runs : runners[q].step # "looked"
      /\ UNCHANGED <<profiles, bindings, clerks, cascades, deletes>>
  BY DEF Look
<1>2. PICK c \in Communities \cup {Community(m) : m \in Switches} :
         runners' = [runners EXCEPT ![r] = [@ EXCEPT !.step = "looked", !.community = c, !.id = Found(AutoName(c))]]
  BY DEF Look
<1>3. c \in Communities
  <2>1. ASSUME NEW m \in Switches PROVE Community(m) \in Communities
    <3>1. bindings[m] \in BindingRows /\ DeviceHolds(m)
      OBVIOUS
    <3> QED
      BY <3>1, CredentialsAssumption DEF Community, DeviceHolds, BindingRows, Texts, ProfileTypes
  <2> QED
    BY <2>1
<1> DEFINE q == [runners[r] EXCEPT !.step = "looked", !.community = c, !.id = Found(AutoName(c))]
<1>4. runners' = [runners EXCEPT ![r] = q]
  BY <1>2
<1>5. Found(AutoName(c)) \in Nat \cup {None}
  BY FoundIt DEF ProfileTypes
<1>6. q \in RunRows /\ q.step = "looked" /\ q.community = c /\ q.id = Found(AutoName(c))
      /\ q.raced = runners[r].raced /\ q.erred = runners[r].erred
  BY <1>3, <1>5 DEF RunRows, Texts
<1> HIDE DEF q
<1>7. runners' \in [Runs -> RunRows] /\ runners'[r] = q /\ \A p \in Runs \ {r} : runners'[p] = runners[p]
  BY <1>4, <1>6
<1>8. RunHolds(r)'
  <2>1. RunHolds(r)
    OBVIOUS
  <2> QED
    BY <1>1, <1>3, <1>6, <1>7, <2>1, FoundIt DEF RunHolds, Ids, Taken
<1>9. \A p \in Runs \ {r} : RunHolds(p)'
  BY <1>1, <1>7 DEF RunHolds, Ids, Taken
<1>10. \A m \in Switches : DeviceHolds(m)'
  BY <1>1, <1>6, <1>7 DEF DeviceHolds, Ids
<1>11. OneLooks'
  BY <1>1, <1>7 DEF OneLooks
<1>12. ProfileTypes'
  BY <1>1 DEF ProfileTypes, Ids
<1> QED
  BY <1>1, <1>7, <1>8, <1>9, <1>10, <1>11, <1>12

(* It stores its profile, goes on with the one it found, or fails.              *)
LEMMA SettleKeeps ==
  ASSUME CredentialsInv, NEW r \in Runs, Settle(r) PROVE CredentialsInv'
<1> USE DEF CredentialsInv, RowTypes
<1>0. PICK c, id : c = runners[r].community /\ id = runners[r].id
  OBVIOUS
<1>1. runners[r].step = "looked" /\ UNCHANGED <<bindings, clerks, cascades, deletes>>
  BY DEF Settle
<1>2. runners[r] \in RunRows /\ RunHolds(r) /\ \A p \in Runs \ {r} : runners[p].step # "looked"
  BY <1>1 DEF OneLooks
<1>3. CASE id = None /\ ~Taken(AutoName(c))
  <2>0. PICK new : new = NewId
    OBVIOUS
  <2> DEFINE q == [runners[r] EXCEPT !.step = "scanning", !.id = new, !.raced = FALSE]
  <2>1. profiles' = WithNew(AutoName(c), c) /\ runners' = [runners EXCEPT ![r] = q]
    BY <1>0, <1>3, <2>0 DEF Settle
  <2>2. new \in Nat \ {0} /\ new \notin Ids
    BY <2>0, NewIdIsNew
  <2>3. q \in RunRows /\ q.step = "scanning" /\ q.community = c /\ q.id = new /\ ~q.raced /\ q.erred = runners[r].erred
    BY <1>0, <1>2, <2>2 DEF RunRows
  <2> HIDE DEF q
  <2>4. runners' \in [Runs -> RunRows] /\ runners'[r] = q /\ \A p \in Runs \ {r} : runners'[p] = runners[p]
    BY <2>1, <2>3
  <2>5. c \in Communities
    BY <1>0, <1>1, <1>2 DEF RunHolds
  <2>6. /\ ProfileTypes' /\ Ids' = Ids \cup {new}
        /\ \A i \in Ids : profiles'[i] = profiles[i]
        /\ profiles'[new] = [name |-> AutoName(c), community |-> c]
    BY <2>0, <2>1, <2>5, AddedRow
  <2>7. RunHolds(r)'
    BY <1>1, <1>2, <2>2, <2>3, <2>4, <2>6, CredentialsAssumption DEF RunHolds
  <2>8. ASSUME NEW p \in Runs \ {r} PROVE RunHolds(p)'
    BY <1>2, <2>4, <2>6 DEF RunHolds
  <2>9. \A m \in Switches : DeviceHolds(m)'
    BY <1>1, <2>4, <2>6 DEF DeviceHolds
  <2>10. OneLooks'
    BY <1>2, <2>3, <2>4 DEF OneLooks
  <2> QED
    BY <1>1, <2>4, <2>6, <2>7, <2>8, <2>9, <2>10
<1>4. CASE ~(id = None /\ ~Taken(AutoName(c)))
  <2> DEFINE to == IF id # None /\ id \in Ids THEN "scanning" ELSE "failed"
             q == [runners[r] EXCEPT !.step = to]
  <2>1. profiles' = profiles /\ runners' = [runners EXCEPT ![r] = q]
    BY <1>0, <1>4 DEF Settle, Ids
  <2>2. to \in {"scanning", "failed"} /\ (to = "scanning" => id # None /\ id \in Ids)
        /\ (to = "failed" => runners[r].raced)
    BY <1>0, <1>1, <1>2, <1>4 DEF RunHolds
  <2> HIDE DEF to
  <2>3. q \in RunRows /\ q.step = to /\ q.community = c /\ q.id = id /\ q.raced = runners[r].raced /\ q.erred = runners[r].erred
    BY <1>0, <1>2, <2>2 DEF RunRows
  <2> HIDE DEF q
  <2>4. runners' \in [Runs -> RunRows] /\ runners'[r] = q /\ \A p \in Runs \ {r} : runners'[p] = runners[p]
    BY <2>1, <2>3
  <2>5. RunHolds(r)'
    BY <1>0, <1>1, <1>2, <2>1, <2>2, <2>3, <2>4 DEF RunHolds, Ids, Taken
  <2>6. \A p \in Runs \ {r} : RunHolds(p)'
    BY <2>1, <2>4 DEF RunHolds, Ids, Taken
  <2>7. \A m \in Switches : DeviceHolds(m)'
    BY <1>1, <2>1, <2>4 DEF DeviceHolds, Ids
  <2>8. OneLooks' /\ ProfileTypes'
    BY <1>2, <2>1, <2>2, <2>3, <2>4 DEF OneLooks, ProfileTypes, Ids
  <2> QED
    BY <1>1, <2>4, <2>5, <2>6, <2>7, <2>8
<1> QED
  BY <1>3, <1>4

(* A device is bound to the profile the run holds, or the database refuses.      *)
LEMMA BindKeeps ==
  ASSUME CredentialsInv, NEW r \in Runs, NEW m \in Switches, Bind(r, m) PROVE CredentialsInv'
<1> USE DEF CredentialsInv, RowTypes
<1>1. runners[r].step = "scanning" /\ UNCHANGED <<profiles, clerks, cascades, deletes>>
  BY DEF Bind
<1>2. runners[r] \in RunRows /\ RunHolds(r) /\ bindings[m] \in BindingRows
  OBVIOUS
<1>3. ProfileTypes' /\ \A i : (i \in Ids <=> i \in Ids')
  BY <1>1 DEF ProfileTypes, Ids
<1>4. CASE runners[r].id \in Ids
  <2>0. PICK id : id = runners[r].id
    OBVIOUS
  <2> DEFINE b == [bindings[m] EXCEPT !.profile = id, !.by = r]
  <2>1. bindings' = [bindings EXCEPT ![m] = b] /\ runners' = runners
    BY <1>4, <2>0 DEF Bind, Ids
  <2>2. b \in BindingRows /\ b.profile = id /\ b.by = r
    BY <1>2, <2>0 DEF BindingRows, RunRows
  <2> HIDE DEF b
  <2>3. bindings' \in [Switches -> BindingRows] /\ bindings'[m] = b /\ \A n \in Switches \ {m} : bindings'[n] = bindings[n]
    BY <2>1, <2>2
  <2>4. runners[r].raced \/ profiles[id].community = runners[r].community
    <3>1. ASSUME ~runners[r].raced PROVE profiles[id].community = runners[r].community
      <4>1. id \in Ids /\ profiles[id].name = AutoName(runners[r].community)
        BY <1>1, <1>2, <1>4, <2>0, <3>1 DEF RunHolds
      <4> QED
        BY <4>1, NamesTell DEF ProfileTypes
    <3> QED
      BY <3>1
  <2>5. DeviceHolds(m)'
    BY <1>1, <1>3, <1>4, <2>0, <2>1, <2>2, <2>3, <2>4 DEF DeviceHolds
  <2>6. \A n \in Switches \ {m} : DeviceHolds(n)'
    BY <1>1, <1>3, <2>1, <2>3 DEF DeviceHolds
  <2>7. OneLooks' /\ \A p \in Runs : RunHolds(p)'
    BY <1>1, <2>1 DEF OneLooks, RunHolds, Ids, Taken
  <2> QED
    BY <1>1, <1>3, <2>1, <2>3, <2>5, <2>6, <2>7
<1>5. CASE runners[r].id \notin Ids
  <2> DEFINE q == [runners[r] EXCEPT !.erred = TRUE]
  <2>1. runners' = [runners EXCEPT ![r] = q] /\ bindings' = bindings
    BY <1>5 DEF Bind, Ids
  <2>2. q \in RunRows /\ q.step = "scanning" /\ q.id = runners[r].id /\ q.community = runners[r].community
        /\ q.raced = runners[r].raced
    BY <1>1, <1>2 DEF RunRows
  <2> HIDE DEF q
  <2>3. runners' \in [Runs -> RunRows] /\ runners'[r] = q /\ \A p \in Runs \ {r} : runners'[p] = runners[p]
    BY <2>1, <2>2
  <2>4. RunHolds(r)'
    BY <1>1, <1>2, <1>5, <2>2, <2>3 DEF RunHolds
  <2>5. \A p \in Runs \ {r} : RunHolds(p)'
    BY <1>1, <2>3 DEF RunHolds, Ids, Taken
  <2>6. \A n \in Switches : DeviceHolds(n)'
    BY <1>1, <1>3, <2>1, <2>2, <2>3 DEF DeviceHolds
  <2>7. OneLooks'
    BY <1>1, <2>2, <2>3 DEF OneLooks
  <2> QED
    BY <1>1, <1>3, <2>1, <2>3, <2>4, <2>5, <2>6, <2>7
<1> QED
  BY <1>4, <1>5

LEMMA RunEndsKeeps ==
  ASSUME CredentialsInv, NEW r \in Runs, RunEnds(r) PROVE CredentialsInv'
<1> USE DEF CredentialsInv, RowTypes
<1> DEFINE q == [runners[r] EXCEPT !.step = "done"]
<1>1. /\ runners[r].step = "scanning" /\ runners' = [runners EXCEPT ![r] = q]
      /\ UNCHANGED <<profiles, bindings, clerks, cascades, deletes>>
  BY DEF RunEnds
<1>2. q \in RunRows /\ q.step = "done" /\ q.id = runners[r].id /\ q.community = runners[r].community
      /\ q.raced = runners[r].raced /\ q.erred = runners[r].erred
  BY DEF RunRows
<1> HIDE DEF q
<1>3. runners' \in [Runs -> RunRows] /\ runners'[r] = q /\ \A p \in Runs \ {r} : runners'[p] = runners[p]
  BY <1>1, <1>2
<1>4. RunHolds(r)
  OBVIOUS
<1>5. RunHolds(r)'
  BY <1>1, <1>2, <1>3, <1>4 DEF RunHolds
<1>6. \A p \in Runs \ {r} : RunHolds(p)'
  BY <1>1, <1>3 DEF RunHolds, Ids, Taken
<1>7. \A m \in Switches : DeviceHolds(m)'
  BY <1>1, <1>2, <1>3 DEF DeviceHolds, Ids
<1>8. OneLooks' /\ ProfileTypes'
  BY <1>1, <1>2, <1>3 DEF OneLooks, ProfileTypes, Ids
<1> QED
  BY <1>1, <1>3, <1>5, <1>6, <1>7, <1>8

(* An operator's request marks the runs it disturbs, and leaves them as they are. *)
LEMMA RacedRows ==
  ASSUME CredentialsInv, NEW hit, runners' = Raced(hit)
  PROVE  /\ runners' \in [Runs -> RunRows] /\ OneLooks'
         /\ \A r \in Runs :
              /\ runners'[r].step = runners[r].step /\ runners'[r].community = runners[r].community
              /\ runners'[r].id = runners[r].id /\ runners'[r].erred = runners[r].erred
              /\ runners'[r].raced <=> runners[r].raced \/ (runners[r].step \in {"looked", "scanning"} /\ r \in hit)
<1> DEFINE mark(r) == runners[r].raced \/ (runners[r].step \in {"looked", "scanning"} /\ r \in hit)
           row(r) == [runners[r] EXCEPT !.raced = mark(r)]
<1>1. runners' = [r \in Runs |-> row(r)]
  BY DEF Raced
<1>2. \A r \in Runs : runners[r] \in RunRows
  BY DEF CredentialsInv, RowTypes
<1>3. \A r \in Runs : mark(r) \in BOOLEAN
  BY <1>2 DEF RunRows
<1> HIDE DEF mark
<1>4. \A r \in Runs : /\ row(r) \in RunRows
                      /\ row(r).step = runners[r].step /\ row(r).community = runners[r].community
                      /\ row(r).id = runners[r].id /\ row(r).erred = runners[r].erred /\ row(r).raced = mark(r)
  BY <1>2, <1>3 DEF RunRows
<1> HIDE DEF row
<1>5. runners' \in [Runs -> RunRows] /\ OneLooks'
  BY <1>1, <1>4 DEF OneLooks, CredentialsInv
<1> QED
  BY <1>1, <1>4, <1>5 DEF mark

LEMMA AskProfileKeeps ==
  ASSUME CredentialsInv, NEW k \in Clerks, AskProfile(k) PROVE CredentialsInv'
<1> USE DEF CredentialsInv, RowTypes
<1>1. PICK c \in Communities, given \in BOOLEAN :
         LET name == IF given THEN Named ELSE AutoName(c) IN
         clerks' = [clerks EXCEPT ![k] = [step |-> "asked", name |-> name, community |-> c,
                                          id |-> IF given THEN None ELSE Found(name)]]
  BY DEF AskProfile
<1>2. UNCHANGED <<profiles, bindings, runners, cascades, deletes>>
  BY DEF AskProfile
<1>3. \A l \in Clerks : clerks'[l].step = "asked" =>
         clerks'[l].community \in Communities /\ clerks'[l].name \in {Named, AutoName(clerks'[l].community)}
  BY <1>1
<1>4. ProfileTypes' /\ OneLooks' /\ (\A r \in Runs : RunHolds(r)') /\ (\A m \in Switches : DeviceHolds(m)')
  BY <1>2 DEF ProfileTypes, OneLooks, RunHolds, DeviceHolds, Ids, Taken
<1> QED
  BY <1>2, <1>3, <1>4

LEMMA AddKeeps ==
  ASSUME CredentialsInv, NEW k \in Clerks, Add(k) PROVE CredentialsInv'
<1> USE DEF CredentialsInv, RowTypes
<1>1. clerks[k].step = "asked" /\ clerks' = [clerks EXCEPT ![k].step = "done"] /\ UNCHANGED <<bindings, cascades, deletes>>
  BY DEF Add
<1>2. \A l \in Clerks : clerks'[l].step = "asked" =>
         clerks'[l].community \in Communities /\ clerks'[l].name \in {Named, AutoName(clerks'[l].community)}
  BY <1>1
<1>3. CASE clerks[k].id = None /\ ~Taken(clerks[k].name)
  <2>0. PICK new, name, c : new = NewId /\ name = clerks[k].name /\ c = clerks[k].community
    OBVIOUS
  <2> DEFINE hit == {r \in Runs : AutoName(runners[r].community) = name}
  <2>1. profiles' = WithNew(name, c) /\ runners' = Raced(hit)
    BY <1>3, <2>0 DEF Add
  <2>2. c \in Communities /\ name \in {Named, AutoName(c)} /\ new \notin Ids
    BY <1>1, <2>0, NewIdIsNew
  <2>3. /\ ProfileTypes' /\ Ids' = Ids \cup {new}
        /\ \A i \in Ids : profiles'[i] = profiles[i]
        /\ profiles'[new] = [name |-> name, community |-> c]
    BY <2>0, <2>1, <2>2, AddedRow
  <2>4. /\ runners' \in [Runs -> RunRows] /\ OneLooks'
        /\ \A r \in Runs :
             /\ runners'[r].step = runners[r].step /\ runners'[r].community = runners[r].community
             /\ runners'[r].id = runners[r].id /\ runners'[r].erred = runners[r].erred
             /\ runners'[r].raced <=> runners[r].raced \/ (runners[r].step \in {"looked", "scanning"} /\ r \in hit)
    <3> HIDE DEF hit
    <3> QED
      BY <2>1, RacedRows
  <2>5. ASSUME NEW r \in Runs PROVE RunHolds(r)'
    <3>1. RunHolds(r)
      OBVIOUS
    <3>2. ASSUME ~runners'[r].raced, runners[r].step = "looked", runners[r].id = None
          PROVE  ~Taken(AutoName(runners[r].community))'
      <4>1. AutoName(runners[r].community) # name /\ ~Taken(AutoName(runners[r].community))
        BY <2>4, <3>1, <3>2 DEF RunHolds
      <4> QED
        BY <2>3, <2>4, <4>1 DEF Taken, Ids
    <3> QED
      BY <2>3, <2>4, <3>1, <3>2 DEF RunHolds
  <2>6. \A m \in Switches : DeviceHolds(m)'
    BY <1>1, <2>3, <2>4 DEF DeviceHolds
  <2> QED
    BY <1>1, <1>2, <2>3, <2>4, <2>5, <2>6
<1>4. CASE ~(clerks[k].id = None /\ ~Taken(clerks[k].name))
  <2>1. UNCHANGED <<profiles, runners>>
    BY <1>4 DEF Add
  <2>2. ProfileTypes' /\ OneLooks' /\ (\A r \in Runs : RunHolds(r)') /\ (\A m \in Switches : DeviceHolds(m)')
    BY <1>1, <2>1 DEF ProfileTypes, OneLooks, RunHolds, DeviceHolds, Ids, Taken
  <2> QED
    BY <1>1, <1>2, <2>1, <2>2
<1> QED
  BY <1>3, <1>4

(* A deletion unbinds the devices, or the database refuses it.                  *)
LEMMA DeleteKeeps ==
  ASSUME CredentialsInv, NEW gone, Delete(gone) PROVE CredentialsInv'
<1> USE DEF CredentialsInv, RowTypes
<1> DEFINE hit == {r \in Runs : runners[r].id \in gone}
<1>1. /\ profiles' = [i \in DOMAIN profiles \ gone |-> profiles[i]] /\ bindings' = Unbound(gone)
      /\ runners' = Raced(hit) /\ clerks' = clerks
  BY DEF Delete
<1>2. Ids' = Ids \ gone /\ \A i \in Ids' : profiles'[i] = profiles[i]
  BY <1>1 DEF Ids
<1>3. ProfileTypes'
  BY <1>2 DEF ProfileTypes
<1>4. /\ runners' \in [Runs -> RunRows] /\ OneLooks'
      /\ \A r \in Runs :
           /\ runners'[r].step = runners[r].step /\ runners'[r].community = runners[r].community
           /\ runners'[r].id = runners[r].id /\ runners'[r].erred = runners[r].erred
           /\ runners'[r].raced <=> runners[r].raced \/ (runners[r].step \in {"looked", "scanning"} /\ r \in hit)
  <2> HIDE DEF hit
  <2> QED
    BY <1>1, RacedRows
<1>5. ASSUME NEW r \in Runs PROVE RunHolds(r)'
  <2>1. RunHolds(r)
    OBVIOUS
  <2>2. Taken(AutoName(runners[r].community))' => Taken(AutoName(runners[r].community))
    BY <1>2, <1>4 DEF Taken, Ids
  <2> QED
    BY <1>2, <1>4, <2>1, <2>2 DEF RunHolds
<1>6. ASSUME NEW m \in Switches
      PROVE  /\ bindings'[m] \in BindingRows /\ bindings'[m].by = bindings[m].by
             /\ bindings'[m].profile # None => bindings'[m].profile = bindings[m].profile /\ bindings[m].profile \notin gone
  <2>1. bindings[m] \in BindingRows
    OBVIOUS
  <2>2. bindings'[m] = IF bindings[m].profile \in gone THEN [bindings[m] EXCEPT !.profile = None] ELSE bindings[m]
    BY <1>1 DEF Unbound
  <2> QED
    BY <2>1, <2>2 DEF BindingRows
<1>7. bindings' \in [Switches -> BindingRows]
  BY <1>1, <1>6 DEF Unbound
<1>8. \A m \in Switches : DeviceHolds(m)'
  BY <1>2, <1>4, <1>6 DEF DeviceHolds
<1> QED
  BY <1>1, <1>3, <1>4, <1>5, <1>7, <1>8

LEMMA CredentialsStepKeeps == CredentialsInv /\ [CredentialsNext]_credentialVars => CredentialsInv'
<1> SUFFICES ASSUME CredentialsInv, [CredentialsNext]_credentialVars PROVE CredentialsInv'
  OBVIOUS
<1>1. ASSUME NEW r \in Runs, Look(r) \/ Settle(r) \/ RunEnds(r) \/ \E m \in Switches : Bind(r, m) PROVE CredentialsInv'
  BY <1>1, LookKeeps, SettleKeeps, RunEndsKeeps, BindKeeps
<1>2. ASSUME NEW k \in Clerks, AskProfile(k) \/ Add(k) PROVE CredentialsInv'
  BY <1>2, AskProfileKeeps, AddKeeps
<1>3. ASSUME NEW gone, Delete(gone) PROVE CredentialsInv'
  BY <1>3, DeleteKeeps
<1>4. CASE UNCHANGED credentialVars
  BY <1>4 DEF credentialVars, CredentialsInv, RowTypes, ProfileTypes, OneLooks, RunHolds, DeviceHolds, Ids, Taken
<1> QED
  BY <1>1, <1>2, <1>3, <1>4 DEF CredentialsNext

(* Through every race of runs, operators' profiles and deletions, on a database *)
(* with either rule for references: no device refers to a profile that is gone, *)
(* and only an operator who made or deleted a run's profile in its moments makes *)
(* it fail or gives its devices another community (credentials.py, engine.py).  *)
THEOREM ProfilesSound == CredentialsSpec => []ProfilesAreSound
<1>1. CredentialsInv => ProfilesAreSound
  BY DEF CredentialsInv, ProfilesAreSound, NoDangling, OwnCommunity, FailsOnlyByOperator, DeviceHolds, RunHolds,
     RowTypes, BindingRows, Ids
<1> QED
  BY <1>1, CredentialsInitInv, CredentialsStepKeeps, PTL DEF CredentialsSpec

-----------------------------------------------------------------------------
(* A profile's name is its own, and a run that came to scan keeps its id.       *)
OneName == \A i, j \in Ids : profiles[i].name = profiles[j].name => i = j
KeepsId == \A r \in Runs : runners[r].step = "done" => runners[r].id # None
Requested ==
    /\ DOMAIN clerks = Clerks /\ \A k \in Clerks : clerks[k].step \in {"new", "asked", "done"}
    /\ deletes \in 0..MaxDeletes

LEMMA WithNewIs ==
  ASSUME CredentialsInv, OneName, NEW name, NEW c, ~Taken(name), profiles' = WithNew(name, c)
  PROVE  OneName'
<1>1. DOMAIN profiles' = Ids \cup {NewId} /\ NewId \notin Ids
  BY NewIdIsNew DEF WithNew, Ids, CredentialsInv
<1>2. profiles'[NewId].name = name /\ \A i \in Ids : profiles'[i] = profiles[i]
  BY <1>1 DEF WithNew, Ids
<1>3. \A i \in Ids : profiles[i].name # name
  BY DEF Taken, Ids
<1> QED
  BY <1>1, <1>2, <1>3 DEF OneName, Ids

LEMMA NamesStart == CredentialsInit => OneName /\ KeepsId /\ Requested
BY CredentialsAssumption DEF CredentialsInit, OneName, KeepsId, Requested, Ids, NotBegun, NoClerk

LEMMA OneNameStep == CredentialsInv /\ OneName /\ [CredentialsNext]_credentialVars => OneName'
<1> SUFFICES ASSUME CredentialsInv, OneName, [CredentialsNext]_credentialVars PROVE OneName'
  OBVIOUS
<1>1. ASSUME profiles' = profiles PROVE OneName'
  BY <1>1 DEF OneName, Ids
<1>2. ASSUME NEW r \in Runs, Look(r) \/ RunEnds(r) \/ \E m \in Switches : Bind(r, m) PROVE OneName'
  BY <1>1, <1>2 DEF Look, RunEnds, Bind
<1>3. ASSUME NEW r \in Runs, Settle(r) PROVE OneName'
  BY <1>1, <1>3, WithNewIs DEF Settle
<1>4. ASSUME NEW k \in Clerks, AskProfile(k) \/ Add(k) PROVE OneName'
  BY <1>1, <1>4, WithNewIs DEF AskProfile, Add
<1>5. ASSUME NEW gone \in SUBSET DOMAIN profiles, Delete(gone) PROVE OneName'
  BY <1>5 DEF Delete, OneName, Ids
<1>6. CASE UNCHANGED credentialVars
  BY <1>1, <1>6 DEF credentialVars
<1> QED
  BY <1>2, <1>3, <1>4, <1>5, <1>6 DEF CredentialsNext

(* A run that did not end in this step has the step and the id it had. *)
LEMMA KeepsIdStep == CredentialsInv /\ KeepsId /\ [CredentialsNext]_credentialVars => KeepsId'
<1> SUFFICES ASSUME CredentialsInv, KeepsId, [CredentialsNext]_credentialVars PROVE KeepsId'
  OBVIOUS
<1>1. runners \in [Runs -> RunRows] /\ \A r \in Runs : runners[r].step = "scanning" => runners[r].id # None
  BY DEF CredentialsInv, RowTypes, RunHolds
<1>2. ASSUME \A q \in Runs : \/ runners'[q].step = runners[q].step /\ runners'[q].id = runners[q].id
                             \/ runners'[q].step # "done" \/ runners'[q].id # None
      PROVE  KeepsId'
  BY <1>2 DEF KeepsId
<1>3. ASSUME NEW H, runners' = Raced(H) PROVE KeepsId'
  <2>1. \A q \in Runs : runners'[q].step = runners[q].step /\ runners'[q].id = runners[q].id
    BY <1>1, <1>3 DEF Raced, RunRows
  <2> QED
    BY <1>2, <2>1
<1>4. ASSUME NEW r \in Runs, Look(r) PROVE KeepsId'
  <2>1. PICK c : runners' = [runners EXCEPT ![r] = [@ EXCEPT !.step = "looked", !.community = c, !.id = Found(AutoName(c))]]
    BY <1>4 DEF Look
  <2>2. runners'[r].step = "looked" /\ \A q \in Runs \ {r} : runners'[q] = runners[q]
    BY <1>1, <2>1 DEF RunRows
  <2> QED
    BY <1>2, <2>2
<1>5. ASSUME NEW r \in Runs, Settle(r) PROVE KeepsId'
  <2>1. runners'[r].step \in {"scanning", "failed"} /\ \A q \in Runs \ {r} : runners'[q] = runners[q]
    BY <1>1, <1>5 DEF Settle, RunRows
  <2> QED
    BY <1>2, <2>1
<1>6. ASSUME NEW r \in Runs, RunEnds(r) PROVE KeepsId'
  <2>1. /\ runners'[r].id = runners[r].id /\ runners[r].id # None
        /\ \A q \in Runs \ {r} : runners'[q] = runners[q]
    BY <1>1, <1>6 DEF RunEnds, RunRows
  <2> QED
    BY <1>2, <2>1
<1>7. ASSUME NEW r \in Runs, NEW m \in Switches, Bind(r, m) PROVE KeepsId'
  <2>1. \A q \in Runs : runners'[q].step = runners[q].step /\ runners'[q].id = runners[q].id
    BY <1>1, <1>7 DEF Bind, RunRows
  <2> QED
    BY <1>2, <2>1
<1>8. ASSUME runners' = runners PROVE KeepsId'
  BY <1>8 DEF KeepsId
<1>9. ASSUME NEW k \in Clerks, AskProfile(k) \/ Add(k) PROVE KeepsId'
  BY <1>3, <1>8, <1>9 DEF AskProfile, Add
<1>10. ASSUME NEW gone \in SUBSET DOMAIN profiles, Delete(gone) PROVE KeepsId'
  BY <1>3, <1>10 DEF Delete
<1>11. CASE UNCHANGED credentialVars
  BY <1>8, <1>11 DEF credentialVars
<1> QED
  BY <1>4, <1>5, <1>6, <1>7, <1>9, <1>10, <1>11 DEF CredentialsNext

LEMMA RequestedStep == Requested /\ [CredentialsNext]_credentialVars => Requested'
<1> SUFFICES ASSUME Requested, [CredentialsNext]_credentialVars PROVE Requested'
  OBVIOUS
<1>1. ASSUME UNCHANGED <<clerks, deletes>> PROVE Requested'
  BY <1>1 DEF Requested
<1>2. ASSUME NEW r \in Runs, Look(r) \/ Settle(r) \/ RunEnds(r) \/ \E m \in Switches : Bind(r, m) PROVE Requested'
  BY <1>1, <1>2 DEF Look, Settle, RunEnds, Bind
<1>3. ASSUME NEW k \in Clerks, AskProfile(k) PROVE Requested'
  <2>1. \E q : q.step = "asked" /\ clerks' = [clerks EXCEPT ![k] = q]
    BY <1>3 DEF AskProfile
  <2>2. deletes' = deletes
    BY <1>3 DEF AskProfile
  <2> QED
    BY <2>1, <2>2 DEF Requested
<1>4. ASSUME NEW k \in Clerks, Add(k) PROVE Requested'
  <2>1. clerks[k].step = "asked" /\ clerks' = [clerks EXCEPT ![k].step = "done"] /\ deletes' = deletes
    BY <1>4 DEF Add
  <2>2. \A q \in Clerks : clerks'[q].step \in {"new", "asked", "done"}
    BY <2>1 DEF Requested
  <2> QED
    BY <2>1, <2>2 DEF Requested
<1>5. ASSUME NEW gone \in SUBSET DOMAIN profiles, Delete(gone) PROVE Requested'
  BY <1>5, CredentialsAssumption DEF Delete, Requested
<1>6. CASE UNCHANGED credentialVars
  BY <1>1, <1>6 DEF credentialVars
<1> QED
  BY <1>2, <1>3, <1>4, <1>5, <1>6 DEF CredentialsNext

(* The types of profiles, and of what runs and requests hold of them. *)
THEOREM ProfilesTyped == CredentialsSpec => []CredentialsTypeOK
<1>1. CredentialsInv /\ OneName /\ KeepsId /\ Requested => CredentialsTypeOK
  BY DEF CredentialsInv, ProfileTypes, RowTypes, RunRows, RunHolds, Ids, OneName, KeepsId, Requested, CredentialsTypeOK
<1> QED
  BY <1>1, CredentialsInitInv, CredentialsStepKeeps, NamesStart, OneNameStep, KeepsIdStep, RequestedStep, PTL
     DEF CredentialsSpec

-----------------------------------------------------------------------------
(* MCOperations: a behaviour of it is one of each of its parts, which moves or    *)
(* rests; a collector that rests is in no call.                                   *)
NoCall == part # "collect" /\ call.method = "set_pvid"

LEMMA PartsRun ==
  Spec => /\ ControlSpec /\ TypesSpec /\ ScanSpec /\ AlarmsSpec /\ CredentialsSpec
          /\ MigrationInit /\ [][MigrationNext]_migrationVars
          /\ [][CollectNext]_collectVars
<1>1. Init => /\ ControlInit /\ TypesInit /\ ScanInit /\ AlarmsInit /\ CredentialsInit /\ MigrationInit
  BY DEF Init
<1>2. [Next]_vars => /\ [ControlNext]_controlVars /\ [TypesNext]_typeVars /\ [ScanNext]_scanVars
                     /\ [AlarmsNext]_alarmVars /\ [CredentialsNext]_credentialVars
                     /\ [MigrationNext]_migrationVars /\ [CollectNext]_collectVars
  BY DEF Next, vars, Stay
<1> QED
  BY <1>1, <1>2, PTL DEF Spec, ControlSpec, TypesSpec, ScanSpec, AlarmsSpec, CredentialsSpec

LEMMA CollectorRuns == Spec => AnswersAreTrue
<1> DEFINE Pvid == answer' = {[set |-> TRUE]} =>
             \A p \in DOMAIN box.ports :
                box'.ports[p] = IF p = call.port THEN [box.ports[p] EXCEPT !.pvid = 77] ELSE box.ports[p]
<1>1. Init => CollectInit \/ NoCall
  BY DEF Init, CollectorRests, NoCall
<1>2. NoCall /\ [Next]_vars => NoCall' /\ [Pvid]_collectVars
  <2> SUFFICES ASSUME NoCall, [Next]_vars PROVE NoCall' /\ UNCHANGED collectVars
    OBVIOUS
  <2>1. part' = part /\ UNCHANGED collectVars
    BY DEF NoCall, Next, Stay, vars
  <2> QED
    BY <2>1 DEF NoCall, collectVars
<1>3. NoCall => WholeIsExact /\ NothingInvented /\ UplinksNeverPoe /\ PoeApart
  BY DEF NoCall, WholeIsExact, NothingInvented, UplinksNeverPoe, PoeApart, Returned
<1> HIDE DEF Pvid
<1>4. Spec /\ NoCall => []WholeIsExact /\ []NothingInvented /\ []UplinksNeverPoe /\ []PoeApart /\ [][Pvid]_collectVars
  BY <1>2, <1>3, PTL DEF Spec
<1>5. Spec /\ NoCall => AnswersAreTrue
  BY <1>4 DEF Pvid, AnswersAreTrue, PvidOfItsPort
<1>6. Spec /\ CollectInit => AnswersAreTrue
  BY PartsRun, AnswersTrue, PTL DEF CollectSpec
<1>7. Spec => CollectInit \/ NoCall
  BY <1>1, PTL DEF Spec
<1> QED
  BY <1>5, <1>6, <1>7

(* The types of what runs beside the discovery of hosts: the controls of a port,  *)
(* a device's type and stored facts, alarms, the database's columns and profiles. *)
THEOREM OperationsTyped == Spec => []TypeOK
BY PartsRun, ControlTyped, TypesSound, ScanTypes, AlarmsTypes, StartupTyped, ProfilesTyped, PTL DEF TypeOK

(* What the run operations checks on small instances holds of MCOperations for    *)
(* all values of its constants, but that a server comes to serve.                 *)
THEOREM OperationsSound ==
  Spec => /\ [](PortIsTold /\ ConfirmedIsSound /\ RowsAreMachines /\ StoredTypesSettle /\ StartupIsSound /\ ProfilesAreSound)
          /\ ControlsAreAccounted /\ VerdictIsStable /\ NothingTakenBack /\ AnswersAreTrue /\ PageIsSound
<1>1. ScanSpec => []RowsAreMachines
  BY ScanRows, CampusApart
<1>2. MigrationInit /\ [][MigrationNext]_migrationVars => []StartupIsSound
  BY StartupAlways
<1> QED
  BY <1>1, <1>2, PartsRun, CollectorRuns, ControlTold, ControlAccounted, TypesSound, VerdictStable, ScanSettles,
     ScanTakesNothingBack, PageSound, ProfilesSound, PTL
=============================================================================
