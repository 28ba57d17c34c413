---------------------------- MODULE CredentialProfiles ----------------------------
(* Who holds which SNMP community (credentials.py, api/routes_settings.py): a    *)
(* discovery run looks its profile up by name, or makes it, and gives its id to  *)
(* every device it scans; operators make and delete profiles in other threads    *)
(* meanwhile; a device's community is the profile's, or that of its old column,  *)
(* or the default. The database numbers the rows and keeps the references.       *)
EXTENDS Null, Naturals, FiniteSets, FiniteSetsExt

CONSTANTS
    Communities,    \* the communities in use
    Switches,       \* the devices
    Runs,           \* the discovery runs; each begins at most once
    Clerks,         \* the operators' requests
    DefaultCommunity, \* DEFAULT_SNMP_COMMUNITY
    MaxDeletes      \* bound on the deletions

ASSUME CredentialsAssumption ==
    /\ None \notin Communities \cup Nat /\ DefaultCommunity \in Communities /\ MaxDeletes \in Nat

VARIABLES
    profiles,   \* credential_profile: by id, its name and community
    bindings,   \* network_device: credential_profile_id and the old snmp_community
    runners,    \* the runs: community, what the session holds, and how far it came
    clerks,     \* the requests
    cascades,   \* the column has ON DELETE SET NULL: it came with the table
    deletes     \* deletions left

credentialVars == <<profiles, bindings, runners, clerks, cascades, deletes>>

AutoName(c) == <<"snmp-auto", c>>       \* _profile_name_for_community
Named == <<"named", "office">>      \* a name operators give

(* A run and a request before they begin. raced is history: since it looked up   *)
(* its profile, an operator has made or deleted that profile.                   *)
NotBegun == [step |-> "new", community |-> None, id |-> None, erred |-> FALSE, raced |-> FALSE]
NoClerk == [step |-> "new", name |-> None, community |-> None, id |-> None]

CredentialsInit ==
    /\ profiles = <<>>
    /\ bindings \in [Switches -> [profile : {None}, legacy : {None} \cup Communities, by : {None}]]
    /\ runners = [r \in Runs |-> NotBegun]
    /\ clerks = [k \in Clerks |-> NoClerk]
    /\ cascades \in BOOLEAN /\ deletes = MaxDeletes

-----------------------------------------------------------------------------
\* mutants: nothing is looked up; any profile of this kind is taken
FoundNever(name) == None
FoundKind(name) ==
    IF \E i \in DOMAIN profiles : profiles[i].name[1] = name[1]
    THEN CHOOSE i \in DOMAIN profiles : profiles[i].name[1] = name[1] ELSE None

(* SELECT ... WHERE name, of which there is one at most, and the id of a new row, *)
(* which may be that of a deleted one.                                          *)
Found(name) ==
    IF \E i \in DOMAIN profiles : profiles[i].name = name
    THEN CHOOSE i \in DOMAIN profiles : profiles[i].name = name ELSE None
\* mutant: the names are not unique
TakenNever(name) == FALSE
Taken(name) == \E i \in DOMAIN profiles : profiles[i].name = name
NewId == Max({0} \cup DOMAIN profiles) + 1
WithNew(name, c) ==
    [i \in DOMAIN profiles \cup {NewId} |->
       IF i = NewId THEN [name |-> name, community |-> c] ELSE profiles[i]]

(* resolve_snmp_community *)
Community(m) ==
    IF bindings[m].profile # None THEN profiles[bindings[m].profile].community
    ELSE IF bindings[m].legacy # None THEN bindings[m].legacy ELSE DefaultCommunity

(* A run begins, with the community its operator gave, or one that a device has  *)
(* (_discovery_community). Runs share the event loop, so that no other is        *)
(* between its look-up and its commit.                                          *)
Look(r) ==
    /\ runners[r].step = "new" /\ \A q \in Runs : runners[q].step # "looked"
    /\ \E c \in Communities \cup {Community(m) : m \in Switches} :
         runners' = [runners EXCEPT ![r] = [@ EXCEPT !.step = "looked", !.community = c, !.id = Found(AutoName(c))]]
    /\ UNCHANGED <<profiles, bindings, clerks, cascades, deletes>>

(* It stores its profile if it found none; it fails when the name is taken by    *)
(* now, and when the profile it found is gone.                                  *)
Settle(r) ==
    LET c == runners[r].community
        id == runners[r].id
    IN  /\ runners[r].step = "looked"
        /\ IF id = None /\ ~Taken(AutoName(c))
           THEN /\ profiles' = WithNew(AutoName(c), c)
                /\ runners' = [runners EXCEPT ![r].step = "scanning", ![r].id = NewId, ![r].raced = FALSE]
           ELSE /\ UNCHANGED profiles
                /\ runners' = [runners EXCEPT
                     ![r].step = IF id # None /\ id \in DOMAIN profiles THEN "scanning" ELSE "failed"]
        /\ UNCHANGED <<bindings, clerks, cascades, deletes>>

(* A device that answers SNMP gets the id the run holds, which the database      *)
(* refuses when there is no such profile any more.                              *)
Bind(r, m) ==
    /\ runners[r].step = "scanning"
    /\ IF runners[r].id \in DOMAIN profiles
       THEN /\ bindings' = [bindings EXCEPT ![m].profile = runners[r].id, ![m].by = r]
            /\ UNCHANGED runners
       ELSE /\ runners' = [runners EXCEPT ![r].erred = TRUE]
            /\ UNCHANGED bindings
    /\ UNCHANGED <<profiles, clerks, cascades, deletes>>

RunEnds(r) ==
    /\ runners[r].step = "scanning"
    /\ runners' = [runners EXCEPT ![r].step = "done"]
    /\ UNCHANGED <<profiles, bindings, clerks, cascades, deletes>>

(* create_named_credential_profile looks up a name it makes itself, and not one  *)
(* that is given; the row is added, or the name refused.                        *)
AskProfile(k) ==
    /\ clerks[k].step = "new"
    /\ \E c \in Communities, given \in BOOLEAN :
         LET name == IF given THEN Named ELSE AutoName(c) IN
         clerks' = [clerks EXCEPT ![k] = [step |-> "asked", name |-> name, community |-> c,
                                          id |-> IF given THEN None ELSE Found(name)]]
    /\ UNCHANGED <<profiles, bindings, runners, cascades, deletes>>
Raced(hit) ==
    [r \in Runs |-> [runners[r] EXCEPT !.raced = @ \/ (runners[r].step \in {"looked", "scanning"} /\ r \in hit)]]
Add(k) ==
    /\ clerks[k].step = "asked"
    /\ IF clerks[k].id = None /\ ~Taken(clerks[k].name)
       THEN /\ profiles' = WithNew(clerks[k].name, clerks[k].community)
            /\ runners' = Raced({r \in Runs : AutoName(runners[r].community) = clerks[k].name})
       ELSE UNCHANGED <<profiles, runners>>
    /\ clerks' = [clerks EXCEPT ![k].step = "done"]
    /\ UNCHANGED <<bindings, cascades, deletes>>

\* mutant: the references to a deleted profile are kept
UnboundNot(gone) == bindings
Unbound(gone) ==
    [m \in Switches |-> IF bindings[m].profile \in gone THEN [bindings[m] EXCEPT !.profile = None] ELSE bindings[m]]

(* The deletions of one, several or all profiles. Where the reference came with  *)
(* the migration to version 3 it has no ON DELETE: a profile in use is refused,  *)
(* and with it all that the request names.                                      *)
Delete(gone) ==
    /\ deletes > 0 /\ gone # {}
    /\ cascades \/ \A m \in Switches : bindings[m].profile \notin gone
    /\ profiles' = [i \in DOMAIN profiles \ gone |-> profiles[i]]
    /\ bindings' = Unbound(gone)
    /\ runners' = Raced({r \in Runs : runners[r].id \in gone})
    /\ deletes' = deletes - 1
    /\ UNCHANGED <<clerks, cascades>>

CredentialsNext ==
    \/ \E r \in Runs : Look(r) \/ Settle(r) \/ RunEnds(r) \/ \E m \in Switches : Bind(r, m)
    \/ \E k \in Clerks : AskProfile(k) \/ Add(k)
    \/ \E gone \in SUBSET DOMAIN profiles : Delete(gone)

CredentialsSpec == CredentialsInit /\ [][CredentialsNext]_credentialVars

-----------------------------------------------------------------------------
(* Type: ids are above 0, and no two profiles have one name. *)
CredentialsTypeOK ==
    /\ DOMAIN profiles \subseteq Nat \ {0}
    /\ \A i, j \in DOMAIN profiles : profiles[i].name = profiles[j].name => i = j
    /\ \A i \in DOMAIN profiles : profiles[i].community \in Communities
    /\ \A r \in Runs : /\ runners[r].step \in {"new", "looked", "scanning", "done", "failed"}
                       /\ runners[r].step \in {"scanning", "done"} => runners[r].id # None
    /\ \A k \in Clerks : clerks[k].step \in {"new", "asked", "done"}
    /\ deletes \in 0..MaxDeletes

(* No device refers to a profile that is gone, whichever rule its database has. *)
NoDangling == \A m \in Switches : bindings[m].profile \in DOMAIN profiles \cup {None}

(* A device answers to the community of the run that found it last; only a run   *)
(* whose profile was deleted while it went on can leave it another, that of the  *)
(* profile that got the freed id.                                               *)
OwnCommunity ==
    \A m \in Switches : bindings[m].profile # None =>
        LET r == bindings[m].by
        IN  runners[r].raced \/ profiles[bindings[m].profile].community = runners[r].community

(* Runs never get in each other's way over a profile: one fails to begin, or on a *)
(* device, only when an operator made or deleted its profile in those moments.  *)
FailsOnlyByOperator == \A r \in Runs : runners[r].step = "failed" \/ runners[r].erred => runners[r].raced

(* Runs and devices hold the community they were given, in parts. *)
ProfilesAreSound == NoDangling /\ OwnCommunity /\ FailsOnlyByOperator
=============================================================================
