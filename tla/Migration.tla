-------------------------------- MODULE Migration --------------------------------
(* The start of the server on a database of some earlier version (db.py):       *)
(* create_all makes the tables that are missing, the migrations add the columns *)
(* that tables of an earlier version lack, and the version row is written last. *)
(* On SQLite, through the driver as db.py configures it, every CREATE and ALTER *)
(* is committed by itself, so that a crash may fall between any two, and a      *)
(* second server that starts on the same database sees and disturbs each.       *)
EXTENDS Naturals, FiniteSets

CONSTANTS
    Servers,    \* the server processes
    FromVersions, \* the versions databases are found in; 0: there is none yet
    MaxStarts   \* bound on the starts of all servers

ASSUME MigrationAssumption == FromVersions \subseteq 0..14 /\ MaxStarts \in Nat

VARIABLES
    version,    \* schema_version.version, 0 when there is no row
    columns,    \* the tables and columns there are
    servers,    \* the servers, and how far each has come
    starts,     \* starts left
    crashed     \* history: some server crashed or was stopped

migrationVars == <<version, columns, servers, starts, crashed>>

SCHEMA_VERSION == 14

(* _MIGRATIONS, in their order: the version, the table and the column each ALTER *)
(* adds. An ALTER that follows another of the same version has a guard of its own. *)
Step(v, t, c) == [version |-> v, table |-> t, column |-> c]
Steps == <<
    Step(2, "network_device", "vlan_count"), Step(3, "network_device", "credential_profile_id"),
    Step(4, "discovery_run", "current_ip"), Step(5, "discovery_run", "concurrency"),
    Step(5, "discovery_run", "hostname_rules"), Step(6, "discovery_run", "current_ips"),
    Step(7, "device_interface", "is_downlink"), Step(8, "device_interface", "in_octets"),
    Step(8, "device_interface", "out_octets"), Step(9, "network_device", "sys_descr"),
    Step(10, "network_device", "is_stp_root"), Step(10, "device_interface", "stp_state"),
    Step(11, "device_interface", "stp_designated_bridge_mac"), Step(12, "network_link", "label"),
    Step(13, "credential_profile", "ssh_username_encrypted"),
    Step(13, "credential_profile", "ssh_password_encrypted"), Step(13, "credential_profile", "ssh_port"),
    Step(14, "credential_profile", "cli_protocol")>>
AddedBy(v) == {k \in DOMAIN Steps : Steps[k].version <= v}

(* The tables the migrations alter; credential_profile came with version 3. The *)
(* table schema_version stands for all that no migration touches.               *)
Tables == {Steps[k].table : k \in DOMAIN Steps} \cup {"schema_version"}
TablesOf(v) ==
    IF v = 0 THEN {} ELSE {t \in Tables : t = "credential_profile" => v >= 3}
Whole(t) == {[table |-> t, column |-> "id"]}
            \cup {[table |-> t, column |-> Steps[k].column] : k \in {j \in DOMAIN Steps : Steps[j].table = t}}
ColumnOf(k) == [table |-> Steps[k].table, column |-> Steps[k].column]
HasTable(t) == [table |-> t, column |-> "id"] \in columns

(* A database as the server of version v left it. *)
SchemaOf(v) ==
    {[table |-> t, column |-> "id"] : t \in TablesOf(v)}
    \cup {ColumnOf(k) : k \in {j \in AddedBy(v) : Steps[j].table \in TablesOf(v)}}

Off == [step |-> "off", missing |-> {}, at |-> 0, alone |-> TRUE]

MigrationInit ==
    /\ version \in FromVersions
    /\ columns = SchemaOf(version)
    /\ servers = [s \in Servers |-> Off]
    /\ starts = MaxStarts /\ crashed = FALSE

-----------------------------------------------------------------------------
Starting(s) == servers[s].step \notin {"off", "serving", "failed"}
Goes(s, step) == servers' = [servers EXCEPT ![s].step = step]

(* init_db begins: create_all looks for the tables that are missing. alone is    *)
(* history: no other server was starting at the same time.                      *)
Start(s) ==
    /\ ~Starting(s) /\ servers[s].step # "serving" /\ starts > 0
    /\ starts' = starts - 1
    /\ servers' = [u \in Servers |->
         IF u = s THEN [step |-> "tables", missing |-> {t \in Tables : ~HasTable(t)}, at |-> 0,
                        alone |-> \A w \in Servers \ {s} : ~Starting(w)]
         ELSE IF Starting(u) THEN [servers[u] EXCEPT !.alone = FALSE] ELSE servers[u]]
    /\ UNCHANGED <<version, columns, crashed>>

(* It creates them one by one, each with all its columns, and fails on one that  *)
(* another server has created since.                                            *)
CreateTable(s) ==
    /\ servers[s].step = "tables" /\ servers[s].missing # {}
    /\ LET t == CHOOSE u \in servers[s].missing : TRUE IN
       IF HasTable(t) THEN Goes(s, "failed") /\ UNCHANGED columns
       ELSE /\ columns' = columns \cup Whole(t)
            /\ servers' = [servers EXCEPT ![s].missing = @ \ {t}]
    /\ UNCHANGED <<version, starts, crashed>>

\* mutant: the migration to the version after the row's is left out
TodoBeyond(v) == {k \in DOMAIN Steps : Steps[k].version > v + 1}
(* The version row is read once. Without one the database is taken for new, and *)
(* gets the current version; an older one is brought up from its version.       *)
Todo(v) == {k \in DOMAIN Steps : Steps[k].version > v}
First(S) == CHOOSE k \in S : \A j \in S : k <= j
ReadVersion(s) ==
    /\ servers[s].step = "tables" /\ servers[s].missing = {}
    /\ servers' = [servers EXCEPT
         ![s].step = IF version = 0 THEN "insert" ELSE IF Todo(version) = {} THEN "serving" ELSE "guard",
         ![s].at = IF version = 0 \/ Todo(version) = {} THEN 0 ELSE First(Todo(version))]
    /\ UNCHANGED <<version, columns, starts, crashed>>

InsertVersion(s) ==
    /\ servers[s].step = "insert"
    /\ IF version # 0 THEN Goes(s, "failed") /\ UNCHANGED version
       ELSE version' = SCHEMA_VERSION /\ Goes(s, "serving")
    /\ UNCHANGED <<columns, starts, crashed>>

\* mutant: the migration to version 13 has one guard for its three columns
GuardedByFirst(k) == IF Steps[k].version = 13 THEN k # 15 \/ ColumnOf(15) \notin columns ELSE ColumnOf(k) \notin columns
(* _column_exists *)
Guarded(k) == ColumnOf(k) \notin columns

\* mutants: the migrations have no end; the version row is written before the last migration
AfterStepOn(k) == "guard"
AfterStepEarly(k) == IF k >= Cardinality(DOMAIN Steps) - 1 THEN "write" ELSE "guard"
AfterStep(k) == IF k = Cardinality(DOMAIN Steps) THEN "write" ELSE "guard"

Guard(s) ==
    /\ servers[s].step = "guard"
    /\ IF Guarded(servers[s].at) THEN Goes(s, "alter")
       ELSE servers' = [servers EXCEPT ![s].step = AfterStep(servers[s].at), ![s].at = @ + 1]
    /\ UNCHANGED <<version, columns, starts, crashed>>

(* ALTER TABLE, which fails when the column is there by now. *)
Alter(s) ==
    /\ servers[s].step = "alter"
    /\ IF ColumnOf(servers[s].at) \in columns THEN Goes(s, "failed") /\ UNCHANGED columns
       ELSE /\ columns' = columns \cup {ColumnOf(servers[s].at)}
            /\ servers' = [servers EXCEPT ![s].step = AfterStep(servers[s].at), ![s].at = @ + 1]
    /\ UNCHANGED <<version, starts, crashed>>

WriteVersion(s) ==
    /\ servers[s].step = "write"
    /\ version' = SCHEMA_VERSION
    /\ Goes(s, "serving")
    /\ UNCHANGED <<columns, starts, crashed>>

(* A crash, or a stop, at any moment; what is committed stays. *)
Stop(s) ==
    /\ servers[s].step # "off"
    /\ servers' = [servers EXCEPT ![s] = Off]
    /\ crashed' = (crashed \/ servers[s].step # "failed")
    /\ UNCHANGED <<version, columns, starts>>

Proceeds(s) == CreateTable(s) \/ ReadVersion(s) \/ InsertVersion(s) \/ Guard(s) \/ Alter(s) \/ WriteVersion(s)
MigrationNext == \E s \in Servers : Start(s) \/ Proceeds(s) \/ Stop(s)
MigrationFairness == \A s \in Servers : WF_migrationVars(Proceeds(s))
MigrationSpec == MigrationInit /\ [][MigrationNext]_migrationVars /\ MigrationFairness

-----------------------------------------------------------------------------
(* Type: a table has its key, and a server that migrates knows where it is. *)
MigrationTypeOK ==
    /\ version \in 0..SCHEMA_VERSION /\ starts \in 0..MaxStarts /\ crashed \in BOOLEAN
    /\ columns \subseteq UNION {Whole(t) : t \in Tables}
    /\ \A c \in columns : HasTable(c.table)
    /\ \A s \in Servers :
         /\ servers[s].step \in {"off", "tables", "insert", "guard", "alter", "write", "serving", "failed"}
         /\ servers[s].missing \subseteq Tables /\ servers[s].alone \in BOOLEAN
         /\ servers[s].step \in {"guard", "alter"} => servers[s].at \in DOMAIN Steps

(* What the version row says is there, is there, through every crash and with    *)
(* every other server that starts: no column is skipped by a later start.       *)
VersionIsKept == \A k \in AddedBy(version) : HasTable(Steps[k].table) => ColumnOf(k) \in columns

(* A server that serves finds every table with every column. *)
ServesWhole == \A s \in Servers : servers[s].step = "serving" => \A t \in Tables : Whole(t) \subseteq columns

(* A start after any number of crashes succeeds, also on a table that create_all *)
(* made whole and the migrations then come to: only another server that starts  *)
(* at the same time makes one fail.                                             *)
AloneNeverFails == \A s \in Servers : servers[s].step = "failed" => ~servers[s].alone

(* Servers that start together get in each other's way, but as long as none      *)
(* crashes or is stopped, one of them serves in the end.                        *)
SomeoneServes ==
    (\E s \in Servers : Starting(s)) ~> (crashed \/ \E s \in Servers : servers[s].step = "serving")

(* What starts do to the database, over crashes and other servers, in parts. *)
StartupIsSound == VersionIsKept /\ ServesWhole /\ AloneNeverFails
=============================================================================
