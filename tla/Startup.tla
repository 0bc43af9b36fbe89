------------------------------- MODULE Startup -------------------------------
(***************************************************************************)
(* What a process does before it serves: RunMigrations with                *)
(* reconcileExistingMigrations (repository/db.go), and the key of the      *)
(* request envelope (loadOrCreatePrivateKey in service/request_crypto.go). *)
(*                                                                         *)
(* A server and a run of the subcommand migrate share one database and one *)
(* key file, and nothing keeps them apart: every two statements of theirs  *)
(* may interleave.  A process may end between any two of them, by an error *)
(* or a crash, and starts again from the beginning.                        *)
(*                                                                         *)
(* The schema is the set of the parts that exist.  001_init.sql runs       *)
(* statement by statement, so it has several parts, in order; the other    *)
(* scripts run in a transaction each.  An existing part is left alone by   *)
(* every script (IF NOT EXISTS, OR IGNORE) but for the ALTER TABLE of 005  *)
(* and those of 006.  The rows that 002 and 003 copy for the accounts of   *)
(* the day commit with the table they are copied to; no start reads them.  *)
(***************************************************************************)
EXTENDS Naturals, Sequences, FiniteSets

CONSTANTS
  Key,         \* the private keys rsa.GenerateKey may draw
  NoFile,      \* the key file does not exist
  Torn,        \* the key file exists and holds no key
  MaxCrashes,  \* bound: processes that end before they are ready
  MaxManual    \* bound: runs of the subcommand migrate

ASSUME StartupAssumption ==
  /\ NoFile \notin Key /\ Torn \notin Key /\ NoFile # Torn
  /\ MaxCrashes \in Nat /\ MaxManual \in Nat

VARIABLES
  schema,    \* the parts of the schema that exist
  recorded,  \* schema_migrations: the numbers of the scripts on record
  file,      \* the contents of auth_encryption_private.pem
  pc,        \* the next step of each process
  at,        \* the artifact or the script a process has come to
  stmt,      \* its next statement in 001_init.sql
  hasPhone,  \* whether it found users.phone before it runs 005
  key,       \* the key the server holds in memory, or NoFile
  served,    \* history: the keys whose public half was handed out
  cut,       \* history: 001_init.sql was left after its first table
  crashes, manual

disk == <<schema, recorded, file>>
local == <<pc, at, stmt, hasPhone, key>>
history == <<served, cut, crashes, manual>>
vars == <<disk, local, history>>

Proc == {"serve", "migrate"}

(* The parts of 001_init.sql in the order of its statements: users and its *)
(* indexes; the tables up to user_roles; announcements; the remaining      *)
(* tables, the roles, the permissions and the account admin.               *)
InitScript == <<"users", "roles", "announcements", "seeds">>

Script ==
  << {"users", "roles", "announcements", "seeds"},
     {"user_access_control"},
     {"user_auth_versions"},
     {"registration_defaults"},
     {"phone", "sms"},
     {"delivery"} >>

Files == DOMAIN Script
Parts == UNION {Script[f] : f \in Files}

(* The tables a script alters or copies from. *)
Needs(f) == CASE f \in {2, 3, 5} -> {"users"} [] f = 6 -> {"announcements"} [] OTHER -> {}

(* A new database, or one that an earlier program left: the first n        *)
(* scripts complete, on record or (before schema_migrations) not, and 005  *)
(* perhaps no further than the column.                                     *)
Upgraded ==
  /\ \E n \in 0..5 :
       /\ \E extra \in {{}} \cup (IF n = 4 THEN {{"phone"}} ELSE {}) :
            schema = (UNION {Script[f] : f \in 1..n}) \cup extra
       /\ recorded \in {{}, 1..n}
  /\ cut = FALSE

(* Or 001_init.sql was cut short by an earlier program. *)
HalfInstalled ==
  /\ \E k \in 1..3 : schema = {InitScript[s] : s \in 1..k}
  /\ recorded = {}
  /\ cut = TRUE

Init ==
  /\ Upgraded \/ HalfInstalled
  /\ file = NoFile /\ key = NoFile /\ served = {}
  /\ pc = [p \in Proc |-> "down"]
  /\ at = [p \in Proc |-> 1] /\ stmt = [p \in Proc |-> 1]
  /\ hasPhone = [p \in Proc |-> FALSE]
  /\ crashes = 0 /\ manual = 0

-----------------------------------------------------------------------------

Go(p, from, to) == pc[p] = from /\ pc' = [pc EXCEPT ![p] = to]

(* Process p ends; whoever comes next starts from the beginning.           *)
Exit(p) ==
  /\ pc' = [pc EXCEPT ![p] = "down"]
  /\ at' = [at EXCEPT ![p] = 1]
  /\ stmt' = [stmt EXCEPT ![p] = 1]
  /\ hasPhone' = [hasPhone EXCEPT ![p] = FALSE]
  /\ key' = IF p = "serve" THEN NoFile ELSE key
  /\ cut' = (cut \/ (pc[p] = "init" /\ stmt[p] \in 2..Len(InitScript)))

Start(p) ==
  /\ Go(p, "down", "reconcile")
  /\ p = "migrate" => manual < MaxManual
  /\ manual' = IF p = "migrate" THEN manual + 1 ELSE manual
  /\ UNCHANGED <<disk, at, stmt, hasPhone, key, served, cut, crashes>>

(* Mutant of Artifact: the column alone stands for 005. *)
ColumnStandsForScript(f) == CASE f = 1 -> {"users"} [] f = 5 -> {"phone"} [] OTHER -> Script[f]

(* The object whose presence shows that script f was applied before there  *)
(* was a record of it; for 005 all that it makes.                          *)
Artifact(f) == IF f = 1 THEN {"users"} ELSE Script[f]

(* reconcileExistingMigrations, one artifact. *)
Reconcile(p) ==
  /\ pc[p] = "reconcile"
  /\ recorded' = IF Artifact(at[p]) \subseteq schema THEN recorded \cup {at[p]} ELSE recorded
  /\ IF at[p] < 5
     THEN at' = [at EXCEPT ![p] = @ + 1] /\ UNCHANGED pc
     ELSE at' = [at EXCEPT ![p] = 1] /\ pc' = [pc EXCEPT ![p] = "select"]
  /\ UNCHANGED <<schema, file, stmt, hasPhone, key, history>>

(* The head of the loop over the scripts: is this one on record?           *)
Select(p) ==
  /\ pc[p] = "select"
  /\ at[p] \in Files
  /\ IF at[p] \in recorded
     THEN at' = [at EXCEPT ![p] = @ + 1] /\ UNCHANGED pc
     ELSE /\ pc' = [pc EXCEPT ![p] = CASE at[p] = 1 -> "init" [] at[p] = 5 -> "column"
                                       [] OTHER -> "apply"]
          /\ UNCHANGED at
  /\ UNCHANGED <<disk, stmt, hasPhone, key, history>>

(* Mutant of CheckColumn: 005 is run as it is written. *)
IgnoreColumn(p) ==
  /\ Go(p, "column", "apply")
  /\ hasPhone' = [hasPhone EXCEPT ![p] = FALSE]
  /\ UNCHANGED <<disk, at, stmt, key, history>>

(* columnExists(users, phone): if so, 005 is run without its ALTER TABLE.  *)
CheckColumn(p) ==
  /\ Go(p, "column", "apply")
  /\ hasPhone' = [hasPhone EXCEPT ![p] = "phone" \in schema]
  /\ UNCHANGED <<disk, at, stmt, key, history>>

(* One statement of 001_init.sql, which commits by itself. *)
InitStatement(p) ==
  /\ pc[p] = "init"
  /\ stmt[p] \in DOMAIN InitScript
  /\ schema' = schema \cup {InitScript[stmt[p]]}
  /\ stmt' = [stmt EXCEPT ![p] = @ + 1]
  /\ UNCHANGED <<recorded, file, pc, at, hasPhone, key, history>>

(* 001 is put on record, unless another process has done so since.         *)
InitRecord(p) ==
  /\ pc[p] = "init"
  /\ stmt[p] \notin DOMAIN InitScript
  /\ IF 1 \notin recorded
     THEN /\ recorded' = recorded \cup {1}
          /\ pc' = [pc EXCEPT ![p] = "select"]
          /\ at' = [at EXCEPT ![p] = 2]
          /\ UNCHANGED <<stmt, hasPhone, key, cut>>
     ELSE Exit(p) /\ UNCHANGED recorded
  /\ UNCHANGED <<schema, file, served, crashes, manual>>

(* The script can run: what it alters is there, the columns it adds are    *)
(* not, and nobody has recorded it.                                        *)
Applicable(p, f) ==
  /\ Needs(f) \subseteq schema
  /\ (f = 5 /\ ~hasPhone[p]) => "phone" \notin schema
  /\ f = 6 => "delivery" \notin schema
  /\ f \notin recorded

(* Mutant of Apply: the script and its record are not one transaction; the *)
(* record is made first, and the script in another step.                   *)
RecordFirst(p) ==
  /\ pc[p] = "apply"
  /\ IF at[p] \notin recorded
     THEN /\ recorded' = recorded \cup {at[p]}
          /\ UNCHANGED <<schema, local, cut>>
     ELSE /\ schema' = schema \cup Script[at[p]]
          /\ pc' = [pc EXCEPT ![p] = "select"]
          /\ UNCHANGED <<recorded, at, stmt, hasPhone, key, cut>>
  /\ UNCHANGED <<file, served, crashes, manual>>

(* One of 002 to 006 and its record, in one transaction; what cannot run   *)
(* is rolled back and ends the process.                                    *)
Apply(p) ==
  /\ pc[p] = "apply"
  /\ IF Applicable(p, at[p])
     THEN /\ schema' = schema \cup Script[at[p]]
          /\ recorded' = recorded \cup {at[p]}
          /\ pc' = [pc EXCEPT ![p] = "select"]
          /\ UNCHANGED <<at, stmt, hasPhone, key, cut>>
     ELSE Exit(p) /\ UNCHANGED <<schema, recorded>>
  /\ UNCHANGED <<file, served, crashes, manual>>

(* RunMigrations returns: migrate is finished, serve builds its router.    *)
Migrated(p) ==
  /\ pc[p] = "select"
  /\ at[p] \notin Files
  /\ IF p = "serve"
     THEN pc' = [pc EXCEPT ![p] = "key"] /\ UNCHANGED <<at, stmt, hasPhone, key, cut>>
     ELSE Exit(p)
  /\ UNCHANGED <<disk, served, crashes, manual>>

-----------------------------------------------------------------------------
(* The key of the request envelope, in the server only. *)

Serving(k) ==
  /\ key' = k
  /\ served' = served \cup {k}
  /\ pc' = [pc EXCEPT !["serve"] = "serving"]

(* The file is read; router.New panics if it holds no key.                 *)
LoadKey ==
  /\ pc["serve"] = "key"
  /\ file # NoFile
  /\ IF file \in Key
     THEN Serving(file) /\ UNCHANGED <<at, stmt, hasPhone, cut>>
     ELSE Exit("serve") /\ UNCHANGED served
  /\ UNCHANGED <<disk, crashes, manual>>

(* Mutant of CreateKeyFile: any error of reading is taken for an absent    *)
(* file.                                                                   *)
CreateOnAnyError(k) ==
  /\ k \notin served
  /\ Go("serve", "key", "write")
  /\ file' = Torn
  /\ key' = k
  /\ UNCHANGED <<schema, recorded, at, stmt, hasPhone, history>>

(* There is no file: a key is drawn, and os.WriteFile creates the file     *)
(* before it writes it.                                                    *)
CreateKeyFile(k) ==
  /\ k \notin served
  /\ file = NoFile
  /\ Go("serve", "key", "write")
  /\ file' = Torn
  /\ key' = k
  /\ UNCHANGED <<schema, recorded, at, stmt, hasPhone, history>>

WriteKeyFile ==
  /\ pc["serve"] = "write"
  /\ file' = key
  /\ Serving(key)
  /\ UNCHANGED <<schema, recorded, at, stmt, hasPhone, cut, crashes, manual>>

-----------------------------------------------------------------------------

(* A process ends before it is ready: a statement or the disk fails, or it *)
(* is killed.                                                              *)
Crash(p) ==
  /\ pc[p] \notin {"down", "serving"}
  /\ crashes < MaxCrashes
  /\ crashes' = crashes + 1
  /\ Exit(p)
  /\ UNCHANGED <<disk, served, manual>>

(* The server is stopped, or dies, after it has served. *)
Stop ==
  /\ pc["serve"] = "serving"
  /\ Exit("serve")
  /\ UNCHANGED <<disk, served, crashes, manual>>

Step(p) ==
  \/ Reconcile(p) \/ Select(p) \/ CheckColumn(p)
  \/ InitStatement(p) \/ InitRecord(p) \/ Apply(p) \/ Migrated(p)

KeyStep == LoadKey \/ WriteKeyFile \/ \E k \in Key : CreateKeyFile(k)

Next ==
  \/ \E p \in Proc : Start(p) \/ Step(p) \/ Crash(p)
  \/ KeyStep
  \/ Stop

(* A process runs on; the unit file starts the server again (Restart=      *)
(* on-failure, RestartSec=5), and so does deploy.sh, which stops it.       *)
(* Nobody has to run migrate.                                              *)
Spec ==
  /\ Init /\ [][Next]_vars
  /\ \A p \in Proc : WF_vars(Step(p))
  /\ WF_vars(Start("serve")) /\ WF_vars(KeyStep)

-----------------------------------------------------------------------------

TypeOK ==
  /\ schema \subseteq Parts /\ recorded \subseteq Files
  /\ file \in Key \cup {NoFile, Torn} /\ key \in Key \cup {NoFile}
  /\ served \subseteq Key
  /\ pc \in [Proc -> {"down", "reconcile", "select", "column", "init", "apply",
                      "key", "write", "serving"}]
  /\ at \in [Proc -> 1..(Len(Script) + 1)]
  /\ stmt \in [Proc -> 1..(Len(InitScript) + 1)]
  /\ hasPhone \in [Proc -> BOOLEAN]
  /\ cut \in BOOLEAN /\ crashes \in 0..MaxCrashes /\ manual \in 0..MaxManual

(* 001_init.sql is on record and a process is still in the middle of it.   *)
InitRuns == \E p \in Proc : pc[p] = "init"

(* A script on record has made everything it makes, in whatever order two  *)
(* processes and their crashes meet; but 001_init.sql, which is recorded   *)
(* by reconciliation as soon as users exists, may still be running or have *)
(* been cut short.                                                         *)
RecordedIsComplete ==
  \A f \in recorded : Script[f] \subseteq schema \/ (f = 1 /\ (cut \/ InitRuns))

(* The server never serves on a schema with a part missing, with the same  *)
(* exception: every migration is over before ListenAndServe.               *)
ServingIsComplete ==
  pc["serve"] = "serving" => \/ schema = Parts
                             \/ (cut \/ InitRuns) /\ schema \cup Script[1] = Parts

(* Clients keep the public key they were given: whatever crashes and       *)
(* restarts, the server never hands out another one.                       *)
KeyIsStable == Cardinality(served) <= 1

(* What only a person can repair: the first script was cut short before    *)
(* the table that 006 alters, or the key file was left empty.              *)
Broken ==
  \/ cut /\ "announcements" \notin schema
  \/ file = Torn /\ pc["serve"] # "write"

(* However often it is stopped, and whatever another process migrates      *)
(* meanwhile, the server serves again, from every database of Init, unless *)
(* it is broken.                                                           *)
ServesAgain == []<>(pc["serve"] = "serving" \/ Broken)

=============================================================================
