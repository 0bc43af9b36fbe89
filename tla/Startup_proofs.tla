--------------------------- MODULE Startup_proofs ---------------------------
(***************************************************************************)
(* Machine-checked proofs about Startup, for any set of keys and any       *)
(* number of crashes and of manual migrations.                             *)
(***************************************************************************)
EXTENDS Startup, FiniteSetTheorems, TLAPS

(* The statements process p has run in 001_init.sql stand. *)
StatementsStand == \A p \in Proc : \A s \in 1..4 : s < stmt[p] => InitScript[s] \in schema

(* The first table of 001_init.sql without the others: the script is being *)
(* run, or was cut short.                                                  *)
HalfInit == cut \/ \E p \in Proc : pc[p] = "init" /\ stmt[p] \in 2..4

FirstTableMeansScript == "users" \in schema => Script[1] \subseteq schema \/ HalfInit

RecordedStands ==
  \A f \in recorded : /\ f = 1 => "users" \in schema
                      /\ f # 1 => Script[f] \subseteq schema

(* A process has put on record every script it is past. *)
PassedIsRecorded ==
  \A p \in Proc :
    /\ pc[p] \in {"select", "column", "init", "apply"} =>
         \A f \in Files : f < at[p] => f \in recorded
    /\ pc[p] \in {"key", "write", "serving"} => Files \subseteq recorded

(* Where a process can be in its two lists. *)
PlacesAgree ==
  \A p \in Proc : /\ pc[p] = "down" => at[p] = 1
                  /\ pc[p] = "reconcile" => at[p] \in 1..5
                  /\ pc[p] = "init" => at[p] = 1
                  /\ pc[p] = "column" => at[p] = 5
                  /\ pc[p] = "apply" => at[p] \in 2..6

(* The file holds the key that was served, and holds none while a server   *)
(* is about to write it.                                                   *)
FileHoldsTheKey ==
  /\ served \subseteq {file}
  /\ pc["serve"] = "write" => file = Torn /\ key \in Key

IInv ==
  /\ TypeOK
  /\ StatementsStand /\ FirstTableMeansScript
  /\ RecordedStands /\ PassedIsRecorded /\ PlacesAgree
  /\ FileHoldsTheKey

-----------------------------------------------------------------------------

LEMMA ScriptValues ==
  /\ Len(Script) = 6 /\ Len(InitScript) = 4
  /\ DOMAIN InitScript = 1..4 /\ Files = 1..6
  /\ Script[1] = {"users", "roles", "announcements", "seeds"}
  /\ Script[2] = {"user_access_control"}
  /\ Script[3] = {"user_auth_versions"}
  /\ Script[4] = {"registration_defaults"}
  /\ Script[5] = {"phone", "sms"}
  /\ Script[6] = {"delivery"}
  /\ InitScript[1] = "users" /\ InitScript[2] = "roles"
  /\ InitScript[3] = "announcements" /\ InitScript[4] = "seeds"
BY DEF Script, InitScript, Files

LEMMA PartsValue ==
  /\ \A f \in Files : Script[f] \subseteq Parts
  /\ \A s \in 1..4 : InitScript[s] \in Parts
  /\ \A S : (\A f \in Files : Script[f] \subseteq S) => Parts \subseteq S
<1>1. \A f \in Files : Script[f] \subseteq Parts
  BY DEF Parts
<1>2. \A s \in 1..4 : InitScript[s] \in Script[1] /\ 1 \in Files
  BY ScriptValues
<1>3. ASSUME NEW S, \A f \in Files : Script[f] \subseteq S PROVE Parts \subseteq S
  BY <1>3 DEF Parts
<1> QED
  BY <1>1, <1>2, <1>3

LEMMA ScriptOfInit ==
  ASSUME NEW S, \A s \in 1..4 : InitScript[s] \in S
  PROVE  Script[1] \subseteq S
<1>1. 1 \in 1..4 /\ 2 \in 1..4 /\ 3 \in 1..4 /\ 4 \in 1..4
  OBVIOUS
<1> QED
  BY <1>1, ScriptValues

Phases == {"down", "reconcile", "select", "column", "init", "apply", "key", "write", "serving"}

(* The conjuncts of the invariant about the places of the processes.       *)
PlacesOK ==
  /\ pc \in [Proc -> Phases] /\ at \in [Proc -> 1..7] /\ stmt \in [Proc -> 1..5]
  /\ StatementsStand /\ PassedIsRecorded /\ PlacesAgree

(* Those about the database. *)
DatabaseOK ==
  /\ schema \subseteq Parts /\ recorded \subseteq 1..6
  /\ FirstTableMeansScript /\ RecordedStands

(* Those about the key, and the counters. *)
KeyOK ==
  /\ file \in Key \cup {NoFile, Torn} /\ key \in Key \cup {NoFile}
  /\ served \subseteq Key /\ FileHoldsTheKey
  /\ crashes \in 0..MaxCrashes /\ manual \in 0..MaxManual

FlagsOK == hasPhone \in [Proc -> BOOLEAN] /\ cut \in BOOLEAN

LEMMA PartsOfTheInvariant == IInv <=> PlacesOK /\ DatabaseOK /\ KeyOK /\ FlagsOK
BY ScriptValues DEF IInv, PlacesOK, DatabaseOK, KeyOK, FlagsOK, TypeOK, Phases

(* A process that moves on within its lists, without a new statement.      *)
LEMMA MoveStep ==
  ASSUME PlacesOK, NEW p \in Proc, NEW to \in Phases, NEW place \in 1..7,
         pc' = [pc EXCEPT ![p] = to], at' = [at EXCEPT ![p] = place], stmt' = stmt,
         schema \subseteq schema', recorded \subseteq recorded',
         to = "down" => place = 1, to = "reconcile" => place \in 1..5,
         to = "init" => place = 1, to = "column" => place = 5, to = "apply" => place \in 2..6,
         to \in {"select", "column", "init", "apply"} =>
           \A f \in Files : f < place => f \in recorded',
         to \in {"key", "write", "serving"} => Files \subseteq recorded'
  PROVE  PlacesOK'
<1>1. /\ pc'[p] = to /\ at'[p] = place
      /\ \A q \in Proc \ {p} : pc'[q] = pc[q] /\ at'[q] = at[q]
  BY DEF PlacesOK
<1>2. pc' \in [Proc -> Phases] /\ at' \in [Proc -> 1..7] /\ stmt' \in [Proc -> 1..5]
  BY DEF PlacesOK
<1>3. StatementsStand'
  BY DEF PlacesOK, StatementsStand
<1>4. PassedIsRecorded'
  BY <1>1 DEF PlacesOK, PassedIsRecorded
<1>5. PlacesAgree'
  BY <1>1 DEF PlacesOK, PlacesAgree
<1> QED
  BY <1>2, <1>3, <1>4, <1>5 DEF PlacesOK

(* A step of a process that is not in the first script. *)
LEMMA HalfStays ==
  ASSUME PlacesOK, NEW p \in Proc, pc[p] # "init", UNCHANGED <<stmt, cut>>,
         \A q \in Proc \ {p} : pc'[q] = pc[q]
  PROVE  HalfInit => HalfInit'
BY DEF HalfInit

(* A process that ends; if it leaves the first script half run, this is on *)
(* record.                                                                 *)
LEMMA ExitStep ==
  ASSUME PlacesOK, NEW p \in Proc, Exit(p), schema \subseteq schema', recorded \subseteq recorded'
  PROVE  PlacesOK' /\ (HalfInit => HalfInit')
<1>1. /\ pc'[p] = "down" /\ at'[p] = 1 /\ stmt'[p] = 1
      /\ \A q \in Proc \ {p} : pc'[q] = pc[q] /\ at'[q] = at[q] /\ stmt'[q] = stmt[q]
  BY DEF Exit, PlacesOK
<1>2. pc' \in [Proc -> Phases] /\ at' \in [Proc -> 1..7] /\ stmt' \in [Proc -> 1..5]
  BY DEF Exit, PlacesOK, Phases
<1>3. StatementsStand'
  BY <1>1 DEF PlacesOK, StatementsStand
<1>4. PassedIsRecorded' /\ PlacesAgree'
  BY <1>1 DEF PlacesOK, PassedIsRecorded, PlacesAgree
<1>5. HalfInit => HalfInit'
  <2>1. cut => cut'
    BY DEF Exit
  <2>2. pc[p] = "init" /\ stmt[p] \in 2..4 => cut'
    BY ScriptValues DEF Exit
  <2> QED
    BY <1>1, <2>1, <2>2 DEF HalfInit
<1> QED
  BY <1>2, <1>3, <1>4, <1>5 DEF PlacesOK

(* The database as it was, and the first script half run as before. *)
LEMMA DatabaseStays ==
  ASSUME DatabaseOK, UNCHANGED <<schema, recorded>>, HalfInit => HalfInit'
  PROVE  DatabaseOK'
BY DEF DatabaseOK, FirstTableMeansScript, RecordedStands

LEMMA PhasesValues ==
  /\ "down" \in Phases /\ "reconcile" \in Phases /\ "select" \in Phases
  /\ "column" \in Phases /\ "init" \in Phases /\ "apply" \in Phases
  /\ "key" \in Phases /\ "write" \in Phases /\ "serving" \in Phases
BY DEF Phases

LEMMA ReconcileStep ==
  ASSUME IInv, NEW p \in Proc, Reconcile(p)
  PROVE  PlacesOK' /\ DatabaseOK'
<1>0. PlacesOK /\ DatabaseOK /\ at[p] \in 1..5 /\ pc[p] = "reconcile"
  BY PartsOfTheInvariant DEF Reconcile, PlacesOK, PlacesAgree
<1>1. recorded' = IF Artifact(at[p]) \subseteq schema THEN recorded \cup {at[p]} ELSE recorded
  BY DEF Reconcile
<1>2. schema' = schema /\ stmt' = stmt /\ cut' = cut
  BY DEF Reconcile, history
<1>3. pc \in [Proc -> Phases] /\ at \in [Proc -> 1..7] /\ recorded \subseteq 1..6
  BY <1>0 DEF PlacesOK, DatabaseOK
<1>4. schema \subseteq schema' /\ recorded \subseteq recorded' /\ recorded' \subseteq 1..6
  <2>1. schema \subseteq schema'
    BY <1>2
  <2>2. recorded \subseteq recorded' /\ recorded' \subseteq recorded \cup {at[p]}
    BY <1>1
  <2>3. at[p] \in 1..6
    BY <1>0
  <2>4. recorded \subseteq 1..6
    BY <1>3
  <2> QED
    BY <2>1, <2>2, <2>3, <2>4
<1>5. PlacesOK'
  <2>1. CASE at[p] < 5
    <3>1. pc' = [pc EXCEPT ![p] = "reconcile"] /\ at' = [at EXCEPT ![p] = at[p] + 1]
      BY <1>0, <1>3, <2>1 DEF Reconcile
    <3>2. at[p] + 1 \in 1..5 /\ at[p] + 1 \in 1..7
      BY <1>0, <2>1
    <3> QED
      BY <1>2, <1>4, <1>0, <3>1, <3>2, MoveStep, PhasesValues
  <2>2. CASE ~(at[p] < 5)
    <3>1. pc' = [pc EXCEPT ![p] = "select"] /\ at' = [at EXCEPT ![p] = 1]
      BY <2>2 DEF Reconcile
    <3>2. 1 \in 1..7 /\ \A f \in Files : ~(f < 1)
      BY ScriptValues
    <3> QED
      BY <1>2, <1>4, <1>0, <3>1, <3>2, MoveStep, PhasesValues
  <2> QED
    BY <2>1, <2>2
<1>6. HalfInit => HalfInit'
  <2>1. \A q \in Proc \ {p} : pc'[q] = pc[q]
    BY <1>3 DEF Reconcile
  <2> QED
    BY <1>0, <1>2, <2>1, HalfStays
<1>7. RecordedStands'
  <2>1. at[p] = 1 => Artifact(at[p]) = {"users"}
    BY DEF Artifact
  <2>2. at[p] # 1 => Artifact(at[p]) = Script[at[p]]
    BY DEF Artifact
  <2> QED
    BY <1>0, <1>1, <1>2, <2>1, <2>2 DEF DatabaseOK, RecordedStands
<1>8. FirstTableMeansScript'
  BY <1>0, <1>2, <1>6 DEF DatabaseOK, FirstTableMeansScript
<1> QED
  BY <1>0, <1>2, <1>4, <1>5, <1>7, <1>8 DEF DatabaseOK

LEMMA SelectStep ==
  ASSUME IInv, NEW p \in Proc, Select(p)
  PROVE  PlacesOK' /\ DatabaseOK'
<1>0. PlacesOK /\ DatabaseOK /\ at[p] \in 1..6 /\ pc[p] = "select"
      /\ \A f \in Files : f < at[p] => f \in recorded
  BY PartsOfTheInvariant, ScriptValues DEF Select, PlacesOK, PassedIsRecorded
<1>1. schema' = schema /\ recorded' = recorded /\ stmt' = stmt /\ cut' = cut
  BY DEF Select, disk, history
<1>2. pc \in [Proc -> Phases] /\ at \in [Proc -> 1..7]
  BY <1>0 DEF PlacesOK
<1>3. PlacesOK'
  <2>1. CASE at[p] \in recorded
    <3>1. pc' = [pc EXCEPT ![p] = "select"] /\ at' = [at EXCEPT ![p] = at[p] + 1]
      BY <1>0, <1>2, <2>1 DEF Select
    <3>2. at[p] + 1 \in 1..7 /\ \A f \in Files : f < at[p] + 1 => f \in recorded'
      BY <1>0, <1>1, <2>1, ScriptValues
    <3> QED
      BY <1>0, <1>1, <3>1, <3>2, MoveStep, PhasesValues
  <2>2. CASE at[p] \notin recorded
    <3> DEFINE to == IF at[p] = 1 THEN "init" ELSE IF at[p] = 5 THEN "column" ELSE "apply"
    <3>1. pc' = [pc EXCEPT ![p] = to] /\ at' = [at EXCEPT ![p] = at[p]]
      BY <1>0, <1>2, <2>2 DEF Select
    <3>2. /\ to \in {"init", "column", "apply"}
          /\ to = "init" => at[p] = 1
          /\ to = "column" => at[p] = 5
          /\ to = "apply" => at[p] \in 2..6
      BY <1>0
    <3>3. at[p] \in 1..7
      BY <1>0
    <3> HIDE DEF to
    <3> QED
      BY <1>0, <1>1, <3>1, <3>2, <3>3, MoveStep, PhasesValues
  <2> QED
    BY <2>1, <2>2
<1>4. \A q \in Proc \ {p} : pc'[q] = pc[q]
  BY <1>2 DEF Select
<1>5. DatabaseOK'
  BY <1>0, <1>1, <1>4, HalfStays, DatabaseStays
<1> QED
  BY <1>3, <1>5

LEMMA CheckColumnStep ==
  ASSUME IInv, NEW p \in Proc, CheckColumn(p)
  PROVE  PlacesOK' /\ DatabaseOK'
<1>0. PlacesOK /\ DatabaseOK /\ at[p] = 5 /\ pc[p] = "column"
      /\ \A f \in Files : f < at[p] => f \in recorded
  BY PartsOfTheInvariant, ScriptValues
     DEF CheckColumn, Go, PlacesOK, PassedIsRecorded, PlacesAgree
<1>1. schema' = schema /\ recorded' = recorded /\ stmt' = stmt /\ cut' = cut
  BY DEF CheckColumn, disk, history
<1>2. /\ pc' = [pc EXCEPT ![p] = "apply"] /\ at' = [at EXCEPT ![p] = at[p]]
      /\ at[p] \in 1..7 /\ at[p] \in 2..6
      /\ \A q \in Proc \ {p} : pc'[q] = pc[q]
  BY <1>0 DEF CheckColumn, Go, PlacesOK
<1>3. PlacesOK'
  BY <1>0, <1>1, <1>2, MoveStep, PhasesValues
<1>4. DatabaseOK'
  BY <1>0, <1>1, <1>2, HalfStays, DatabaseStays
<1> QED
  BY <1>3, <1>4

(* One more statement of the first script stands. *)
LEMMA InitStatementStep ==
  ASSUME IInv, NEW p \in Proc, InitStatement(p)
  PROVE  PlacesOK' /\ DatabaseOK'
<1>0. PlacesOK /\ DatabaseOK /\ stmt[p] \in 1..4 /\ pc[p] = "init"
  BY PartsOfTheInvariant, ScriptValues DEF InitStatement
<1>1. /\ schema' = schema \cup {InitScript[stmt[p]]}
      /\ stmt' = [stmt EXCEPT ![p] = stmt[p] + 1]
      /\ recorded' = recorded /\ pc' = pc /\ at' = at /\ cut' = cut
  BY DEF InitStatement, history
<1>2. /\ pc \in [Proc -> Phases] /\ at \in [Proc -> 1..7] /\ stmt \in [Proc -> 1..5]
      /\ stmt[p] + 1 \in 1..5
  BY <1>0 DEF PlacesOK
<1>3. /\ stmt' \in [Proc -> 1..5] /\ stmt'[p] = stmt[p] + 1
      /\ \A q \in Proc \ {p} : stmt'[q] = stmt[q]
  BY <1>1, <1>2
<1>4. StatementsStand'
  <2>1. \A s \in 1..4 : s < stmt[p] + 1 => s < stmt[p] \/ s = stmt[p]
    BY <1>0
  <2> QED
    BY <1>0, <1>1, <1>3, <2>1 DEF PlacesOK, StatementsStand
<1>5. PassedIsRecorded' /\ PlacesAgree'
  BY <1>0, <1>1 DEF PlacesOK, PassedIsRecorded, PlacesAgree
<1>6. schema' \subseteq Parts
  BY <1>0, <1>1, PartsValue DEF DatabaseOK
<1>7. FirstTableMeansScript'
  <2>1. CASE stmt[p] + 1 \in 2..4
    BY <1>0, <1>1, <1>3, <2>1 DEF FirstTableMeansScript, HalfInit
  <2>2. CASE stmt[p] + 1 \notin 2..4
    <3>1. stmt[p] = 4
      BY <1>0, <2>2
    <3>2. \A s \in 1..4 : s < stmt'[p]
      BY <1>3, <3>1
    <3>3. \A s \in 1..4 : InitScript[s] \in schema'
      BY <1>4, <3>2 DEF StatementsStand
    <3> QED
      BY <3>3, ScriptOfInit DEF FirstTableMeansScript
  <2> QED
    BY <2>1, <2>2
<1>8. RecordedStands'
  BY <1>0, <1>1 DEF DatabaseOK, RecordedStands
<1> QED
  BY <1>0, <1>1, <1>2, <1>3, <1>4, <1>5, <1>6, <1>7, <1>8 DEF PlacesOK, DatabaseOK

(* A process whose run of the first script is over has all of it.          *)
LEMMA InitIsOver ==
  ASSUME PlacesOK, NEW p \in Proc, stmt[p] = 5
  PROVE  Script[1] \subseteq schema
<1>1. \A s \in 1..4 : s < stmt[p]
  OBVIOUS
<1>2. \A s \in 1..4 : InitScript[s] \in schema
  BY <1>1 DEF PlacesOK, StatementsStand
<1> QED
  BY <1>2, ScriptOfInit

LEMMA InitRecordStep ==
  ASSUME IInv, NEW p \in Proc, InitRecord(p)
  PROVE  PlacesOK' /\ DatabaseOK'
<1>0. PlacesOK /\ DatabaseOK /\ stmt[p] = 5 /\ pc[p] = "init"
  BY PartsOfTheInvariant, ScriptValues DEF InitRecord, PlacesOK
<1>1. Script[1] \subseteq schema /\ schema' = schema /\ "users" \in Script[1]
  BY <1>0, InitIsOver, ScriptValues DEF InitRecord
<1>2. FirstTableMeansScript'
  BY <1>1 DEF FirstTableMeansScript
<1>3. CASE 1 \notin recorded
  <2>1. /\ recorded' = recorded \cup {1} /\ stmt' = stmt
        /\ pc' = [pc EXCEPT ![p] = "select"] /\ at' = [at EXCEPT ![p] = 2]
    BY <1>3 DEF InitRecord
  <2>2. 2 \in 1..7 /\ 1 \in 1..6 /\ \A f \in Files : f < 2 => f = 1
    BY ScriptValues
  <2>3. PlacesOK'
    BY <1>0, <1>1, <2>1, <2>2, MoveStep, PhasesValues
  <2>4. RecordedStands' /\ recorded' \subseteq 1..6
    BY <1>0, <1>1, <2>1, <2>2 DEF DatabaseOK, RecordedStands
  <2> QED
    BY <1>0, <1>1, <1>2, <2>3, <2>4 DEF DatabaseOK
<1>4. CASE 1 \in recorded
  <2>1. Exit(p) /\ recorded' = recorded
    BY <1>4 DEF InitRecord
  <2> QED
    BY <1>0, <1>1, <2>1, ExitStep, DatabaseStays
<1> QED
  BY <1>3, <1>4

(* A script and its record are one transaction. *)
LEMMA ApplyStep ==
  ASSUME IInv, NEW p \in Proc, Apply(p)
  PROVE  PlacesOK' /\ DatabaseOK'
<1>0. /\ PlacesOK /\ DatabaseOK /\ at[p] \in 2..6 /\ pc[p] = "apply"
      /\ \A f \in Files : f < at[p] => f \in recorded
  BY PartsOfTheInvariant, ScriptValues
     DEF Apply, PlacesOK, PassedIsRecorded, PlacesAgree
<1>1. CASE Applicable(p, at[p])
  <2>1. /\ schema' = schema \cup Script[at[p]] /\ recorded' = recorded \cup {at[p]}
        /\ pc' = [pc EXCEPT ![p] = "select"] /\ at' = [at EXCEPT ![p] = at[p]]
        /\ stmt' = stmt
    BY <1>0, <1>1 DEF Apply, PlacesOK
  <2>2. at[p] \in 1..7 /\ at[p] \in 1..6 /\ at[p] \in Files
    BY <1>0, ScriptValues
  <2>3. cut' = cut
    BY <1>1 DEF Apply
  <2>4. PlacesOK'
    BY <1>0, <2>1, <2>2, MoveStep, PhasesValues
  <2>5. HalfInit => HalfInit'
    <3>1. pc[p] # "init" /\ \A q \in Proc \ {p} : pc'[q] = pc[q]
      BY <1>0, <2>1 DEF PlacesOK
    <3> QED
      BY <1>0, <2>1, <2>3, <3>1, HalfStays
  <2>6. "users" \notin Script[at[p]]
    BY <1>0, ScriptValues
  <2>7. FirstTableMeansScript'
    BY <1>0, <2>1, <2>5, <2>6 DEF DatabaseOK, FirstTableMeansScript
  <2>8. RecordedStands'
    BY <1>0, <2>1 DEF DatabaseOK, RecordedStands
  <2>9. schema' \subseteq Parts /\ recorded' \subseteq 1..6
    BY <1>0, <2>1, <2>2, PartsValue DEF DatabaseOK
  <2> QED
    BY <2>4, <2>7, <2>8, <2>9 DEF DatabaseOK
<1>2. CASE ~Applicable(p, at[p])
  <2>1. Exit(p) /\ schema' = schema /\ recorded' = recorded
    BY <1>2 DEF Apply
  <2> QED
    BY <1>0, <2>1, ExitStep, DatabaseStays
<1> QED
  BY <1>1, <1>2

LEMMA MigratedStep ==
  ASSUME IInv, NEW p \in Proc, Migrated(p)
  PROVE  PlacesOK' /\ DatabaseOK'
<1>0. /\ PlacesOK /\ DatabaseOK /\ at[p] = 7 /\ pc[p] = "select"
      /\ schema' = schema /\ recorded' = recorded
  BY PartsOfTheInvariant, ScriptValues DEF Migrated, disk, PlacesOK
<1>1. Files \subseteq recorded
  BY <1>0, ScriptValues DEF PlacesOK, PassedIsRecorded
<1>2. CASE p = "serve"
  <2>1. /\ pc' = [pc EXCEPT ![p] = "key"] /\ at' = [at EXCEPT ![p] = at[p]]
        /\ stmt' = stmt /\ at[p] \in 1..7
    BY <1>0, <1>2 DEF Migrated, PlacesOK
  <2>2. cut' = cut
    BY <1>2 DEF Migrated
  <2>3. PlacesOK'
    BY <1>0, <1>1, <2>1, MoveStep, PhasesValues
  <2>4. pc[p] # "init" /\ \A q \in Proc \ {p} : pc'[q] = pc[q]
    BY <1>0, <2>1 DEF PlacesOK
  <2>5. HalfInit => HalfInit'
    BY <1>0, <2>1, <2>2, <2>4, HalfStays
  <2> QED
    BY <1>0, <2>3, <2>5, DatabaseStays
<1>3. CASE p # "serve"
  <2>1. Exit(p)
    BY <1>3 DEF Migrated
  <2> QED
    BY <1>0, <2>1, ExitStep, DatabaseStays
<1> QED
  BY <1>2, <1>3

LEMMA StartStep ==
  ASSUME IInv, NEW p \in Proc, Start(p)
  PROVE  PlacesOK' /\ DatabaseOK'
<1>0. PlacesOK /\ DatabaseOK /\ at[p] = 1 /\ pc[p] = "down"
  BY PartsOfTheInvariant DEF Start, Go, PlacesOK, PlacesAgree
<1>1. schema' = schema /\ recorded' = recorded /\ stmt' = stmt /\ cut' = cut
  BY DEF Start, disk
<1>2. /\ pc' = [pc EXCEPT ![p] = "reconcile"] /\ at' = [at EXCEPT ![p] = at[p]]
      /\ at[p] \in 1..7 /\ at[p] \in 1..5
      /\ \A q \in Proc \ {p} : pc'[q] = pc[q]
  BY <1>0 DEF Start, Go, PlacesOK
<1>3. PlacesOK'
  BY <1>0, <1>1, <1>2, MoveStep, PhasesValues
<1>4. DatabaseOK'
  BY <1>0, <1>1, <1>2, HalfStays, DatabaseStays
<1> QED
  BY <1>3, <1>4

LEMMA EndStep ==
  ASSUME IInv, NEW p \in Proc, Exit(p), UNCHANGED disk
  PROVE  PlacesOK' /\ DatabaseOK'
<1>1. schema' = schema /\ recorded' = recorded
  BY DEF disk
<1> QED
  BY <1>1, PartsOfTheInvariant, ExitStep, DatabaseStays

(* The server goes from one of its steps with the key to another. *)
LEMMA KeyPhaseStep ==
  ASSUME IInv, NEW from \in {"key", "write"}, pc["serve"] = from,
         NEW to \in {"write", "serving"}, pc' = [pc EXCEPT !["serve"] = to],
         schema' = schema, recorded' = recorded, at' = at, stmt' = stmt, cut' = cut
  PROVE  PlacesOK' /\ DatabaseOK'
<1>0. PlacesOK /\ DatabaseOK /\ "serve" \in Proc
  BY PartsOfTheInvariant DEF Proc
<1>1. Files \subseteq recorded
  BY <1>0 DEF PlacesOK, PassedIsRecorded
<1>2. /\ at' = [at EXCEPT !["serve"] = at["serve"]] /\ at["serve"] \in 1..7
      /\ pc["serve"] # "init" /\ \A q \in Proc \ {"serve"} : pc'[q] = pc[q]
      /\ to \in Phases
  BY <1>0, PhasesValues DEF PlacesOK
<1>3. PlacesOK'
  BY <1>0, <1>1, <1>2, MoveStep
<1>4. DatabaseOK'
  BY <1>0, <1>2, HalfStays, DatabaseStays
<1> QED
  BY <1>3, <1>4

(* The key: a server that finds no file has served none, and a server that *)
(* finds one serves what is in it.                                         *)
LEMMA KeyStepKeeps ==
  ASSUME IInv, KeyStep
  PROVE  PlacesOK' /\ DatabaseOK' /\ KeyOK'
<1>0. KeyOK /\ "serve" \in Proc /\ pc \in [Proc -> Phases]
  BY PartsOfTheInvariant DEF Proc, PlacesOK
<1>1. CASE LoadKey
  <2>1. UNCHANGED disk /\ schema' = schema /\ recorded' = recorded /\ file' = file
        /\ crashes' = crashes /\ manual' = manual /\ pc["serve"] = "key"
    BY <1>1 DEF LoadKey, disk
  <2>2. CASE file \in Key
    <3>1. /\ key' = file /\ served' = served \cup {file}
          /\ pc' = [pc EXCEPT !["serve"] = "serving"]
          /\ at' = at /\ stmt' = stmt /\ cut' = cut
      BY <1>1, <2>2 DEF LoadKey, Serving
    <3>2. PlacesOK' /\ DatabaseOK'
      BY <2>1, <3>1, KeyPhaseStep
    <3>3. pc'["serve"] = "serving"
      BY <1>0, <3>1
    <3>4. KeyOK'
      BY <1>0, <2>1, <2>2, <3>1, <3>3 DEF KeyOK, FileHoldsTheKey
    <3> QED
      BY <3>2, <3>4
  <2>3. CASE file \notin Key
    <3>1. Exit("serve") /\ served' = served
      BY <1>1, <2>3 DEF LoadKey
    <3>2. PlacesOK' /\ DatabaseOK'
      BY <1>0, <2>1, <3>1, EndStep
    <3>3. pc'["serve"] = "down" /\ key' = NoFile
      BY <1>0, <3>1 DEF Exit
    <3>4. KeyOK'
      BY <1>0, <2>1, <3>1, <3>3 DEF KeyOK, FileHoldsTheKey
    <3> QED
      BY <3>2, <3>4
  <2> QED
    BY <2>2, <2>3
<1>2. CASE WriteKeyFile
  <2>1. /\ pc["serve"] = "write" /\ file' = key /\ key' = key /\ served' = served \cup {key}
        /\ pc' = [pc EXCEPT !["serve"] = "serving"]
        /\ schema' = schema /\ recorded' = recorded /\ at' = at /\ stmt' = stmt
        /\ crashes' = crashes /\ manual' = manual
    BY <1>2 DEF WriteKeyFile, Serving
  <2>2. cut' = cut
    BY <1>2 DEF WriteKeyFile
  <2>3. PlacesOK' /\ DatabaseOK'
    BY <2>1, <2>2, KeyPhaseStep
  <2>4. pc'["serve"] = "serving"
    BY <1>0, <2>1
  <2>5. served = {} /\ key \in Key
    BY <1>0, <2>1, StartupAssumption DEF KeyOK, FileHoldsTheKey
  <2>6. KeyOK'
    BY <1>0, <2>1, <2>4, <2>5 DEF KeyOK, FileHoldsTheKey
  <2> QED
    BY <2>3, <2>6
<1>3. ASSUME NEW k \in Key, CreateKeyFile(k) PROVE PlacesOK' /\ DatabaseOK' /\ KeyOK'
  <2>1. /\ file = NoFile /\ pc["serve"] = "key" /\ file' = Torn /\ key' = k /\ served' = served
        /\ pc' = [pc EXCEPT !["serve"] = "write"]
        /\ schema' = schema /\ recorded' = recorded /\ at' = at /\ stmt' = stmt
        /\ crashes' = crashes /\ manual' = manual
    BY <1>3 DEF CreateKeyFile, Go, history
  <2>2. cut' = cut
    BY <1>3 DEF CreateKeyFile, history
  <2>3. PlacesOK' /\ DatabaseOK'
    BY <2>1, <2>2, KeyPhaseStep
  <2>4. served = {}
    BY <1>0, <2>1, StartupAssumption DEF KeyOK, FileHoldsTheKey
  <2>5. KeyOK'
    BY <1>0, <2>1, <2>4 DEF KeyOK, FileHoldsTheKey
  <2> QED
    BY <2>3, <2>5
<1> QED
  BY <1>1, <1>2, <1>3 DEF KeyStep

(* The other steps leave the key file as it is. *)
LEMMA KeyStays ==
  ASSUME IInv, UNCHANGED <<file, served>>,
         key' = key \/ key' = NoFile,
         pc'["serve"] = "write" => pc["serve"] = "write" /\ key' = key,
         crashes' \in 0..MaxCrashes, manual' \in 0..MaxManual
  PROVE  KeyOK'
BY PartsOfTheInvariant DEF KeyOK, FileHoldsTheKey

LEMMA KeyStaysOnExit ==
  ASSUME IInv, NEW p \in Proc, Exit(p), UNCHANGED <<file, served>>,
         crashes' \in 0..MaxCrashes, manual' \in 0..MaxManual
  PROVE  KeyOK'
<1>0. pc \in [Proc -> Phases] /\ "serve" \in Proc
  BY PartsOfTheInvariant DEF PlacesOK, Proc
<1>1. CASE p = "serve"
  <2>1. key' = NoFile /\ pc'["serve"] = "down"
    BY <1>0, <1>1 DEF Exit
  <2> QED
    BY <2>1, KeyStays
<1>2. CASE p # "serve"
  <2>1. key' = key /\ pc'["serve"] = pc["serve"]
    BY <1>0, <1>2 DEF Exit
  <2> QED
    BY <2>1, KeyStays
<1> QED
  BY <1>1, <1>2

LEMMA FlagsStep ==
  ASSUME IInv, [Next]_vars
  PROVE  FlagsOK'
<1>0. hasPhone \in [Proc -> BOOLEAN] /\ cut \in BOOLEAN
  BY PartsOfTheInvariant DEF FlagsOK
<1>1. ASSUME NEW p \in Proc, Exit(p) PROVE FlagsOK'
  <2>1. hasPhone' \in [Proc -> BOOLEAN]
    BY <1>0, <1>1 DEF Exit
  <2>2. cut' \in BOOLEAN
    BY <1>1 DEF Exit
  <2> QED
    BY <2>1, <2>2 DEF FlagsOK
<1>2. ASSUME UNCHANGED <<hasPhone, cut>> PROVE FlagsOK'
  BY <1>0, <1>2 DEF FlagsOK
<1>3. ASSUME NEW p \in Proc, CheckColumn(p) PROVE FlagsOK'
  <2>1. hasPhone' \in [Proc -> BOOLEAN]
    BY <1>0, <1>3 DEF CheckColumn
  <2>2. cut' = cut
    BY <1>3 DEF CheckColumn, history
  <2> QED
    BY <1>0, <2>1, <2>2 DEF FlagsOK
<1>4. ASSUME NEW p \in Proc, Start(p) \/ Reconcile(p) \/ Select(p) \/ InitStatement(p)
      PROVE  FlagsOK'
  BY <1>2, <1>4 DEF Start, Reconcile, Select, InitStatement, history
<1>5. ASSUME NEW p \in Proc, InitRecord(p) \/ Apply(p) \/ Migrated(p) \/ Crash(p)
      PROVE  FlagsOK'
  BY <1>1, <1>2, <1>5 DEF InitRecord, Apply, Migrated, Crash
<1>6. CASE KeyStep \/ Stop
  BY <1>1, <1>2, <1>6
     DEF KeyStep, LoadKey, WriteKeyFile, CreateKeyFile, Stop, Proc, history
<1>7. CASE UNCHANGED vars
  BY <1>2, <1>7 DEF vars, local, history
<1> QED
  BY <1>3, <1>4, <1>5, <1>6, <1>7 DEF Next, Step

(* Every step keeps the invariant. *)
LEMMA IInvStep == IInv /\ [Next]_vars => IInv'
<1>0. IInv' <=> PlacesOK' /\ DatabaseOK' /\ KeyOK' /\ FlagsOK'
  BY PartsOfTheInvariant, PTL
<1> SUFFICES ASSUME IInv, [Next]_vars PROVE PlacesOK' /\ DatabaseOK' /\ KeyOK'
  BY <1>0, FlagsStep
<1>1. /\ crashes \in 0..MaxCrashes /\ manual \in 0..MaxManual
      /\ MaxCrashes \in Nat /\ MaxManual \in Nat
      /\ pc \in [Proc -> Phases] /\ "serve" \in Proc
  BY PartsOfTheInvariant, StartupAssumption DEF KeyOK, PlacesOK, Proc
<1>2. ASSUME NEW p \in Proc, NEW to \in Phases \ {"write"}, pc' = [pc EXCEPT ![p] = to],
             UNCHANGED <<file, key, served>>,
             crashes' \in 0..MaxCrashes, manual' \in 0..MaxManual
      PROVE  KeyOK'
  <2>1. pc'["serve"] = "write" => pc["serve"] = "write"
    BY <1>1, <1>2
  <2> QED
    BY <1>2, <2>1, KeyStays
<1>3. ASSUME NEW p \in Proc, Start(p) PROVE PlacesOK' /\ DatabaseOK' /\ KeyOK'
  <2>1. manual' \in 0..MaxManual
    BY <1>1, <1>3 DEF Start
  <2>2. /\ UNCHANGED <<file, key, served>> /\ crashes' = crashes
        /\ pc' = [pc EXCEPT ![p] = "reconcile"]
    BY <1>3 DEF Start, Go, disk
  <2>3. "reconcile" \in Phases \ {"write"}
    BY DEF Phases
  <2> QED
    BY <1>1, <1>2, <1>3, <2>1, <2>2, <2>3, StartStep
<1>4. ASSUME NEW p \in Proc, Reconcile(p) \/ Select(p) \/ CheckColumn(p) \/ InitStatement(p)
      PROVE  PlacesOK' /\ DatabaseOK' /\ KeyOK'
  <2>1. UNCHANGED <<file, key, served, crashes, manual>>
    BY <1>4 DEF Reconcile, Select, CheckColumn, InitStatement, disk, history
  <2>2. \E to \in Phases \ {"write"} : pc' = [pc EXCEPT ![p] = to]
    <3>1. ASSUME UNCHANGED pc, pc[p] # "write" PROVE pc' = [pc EXCEPT ![p] = pc[p]]
      BY <1>1, <3>1
    <3>2. pc[p] \in Phases
      BY <1>1
    <3>3. CASE Reconcile(p)
      BY <3>1, <3>2, <3>3 DEF Reconcile, Phases
    <3>4. CASE Select(p)
      <4>1. CASE UNCHANGED pc
        BY <3>1, <3>2, <3>4, <4>1 DEF Select
      <4>2. CASE pc' = [pc EXCEPT ![p] = "init"]
        BY <4>2 DEF Phases
      <4>3. CASE pc' = [pc EXCEPT ![p] = "column"]
        BY <4>3 DEF Phases
      <4>4. CASE pc' = [pc EXCEPT ![p] = "apply"]
        BY <4>4 DEF Phases
      <4> QED
        BY <3>4, <4>1, <4>2, <4>3, <4>4 DEF Select
    <3>5. CASE CheckColumn(p)
      BY <3>5 DEF CheckColumn, Go, Phases
    <3>6. CASE InitStatement(p)
      BY <3>1, <3>2, <3>6 DEF InitStatement
    <3> QED
      BY <1>4, <3>3, <3>4, <3>5, <3>6
  <2>3. KeyOK'
    BY <1>1, <1>2, <2>1, <2>2
  <2> QED
    BY <1>4, <2>3, ReconcileStep, SelectStep, CheckColumnStep, InitStatementStep
<1>5. ASSUME NEW p \in Proc, InitRecord(p) \/ Apply(p) \/ Migrated(p)
      PROVE  PlacesOK' /\ DatabaseOK' /\ KeyOK'
  <2>1. UNCHANGED <<file, served, crashes, manual>>
    BY <1>5 DEF InitRecord, Apply, Migrated, disk
  <2>2. Exit(p) \/ (key' = key /\ \E to \in {"select", "key"} : pc' = [pc EXCEPT ![p] = to])
    BY <1>5 DEF InitRecord, Apply, Migrated
  <2>3. KeyOK'
    <3>1. CASE Exit(p)
      BY <1>1, <2>1, <3>1, KeyStaysOnExit
    <3>2. CASE key' = key /\ \E to \in {"select", "key"} : pc' = [pc EXCEPT ![p] = to]
      BY <1>1, <1>2, <2>1, <3>2 DEF Phases
    <3> QED
      BY <2>2, <3>1, <3>2
  <2> QED
    BY <1>5, <2>3, InitRecordStep, ApplyStep, MigratedStep
<1>6. ASSUME NEW p \in Proc, Crash(p) PROVE PlacesOK' /\ DatabaseOK' /\ KeyOK'
  <2>1. /\ Exit(p) /\ UNCHANGED disk /\ UNCHANGED <<file, served, manual>>
        /\ crashes' \in 0..MaxCrashes
    BY <1>1, <1>6 DEF Crash, disk
  <2> QED
    BY <1>1, <2>1, EndStep, KeyStaysOnExit
<1>7. CASE Stop
  <2>1. Exit("serve") /\ UNCHANGED disk /\ UNCHANGED <<file, served, crashes, manual>>
    BY <1>7 DEF Stop, disk
  <2> QED
    BY <1>1, <2>1, EndStep, KeyStaysOnExit
<1>8. CASE UNCHANGED vars
  <2>1. /\ UNCHANGED <<file, key, served, crashes, manual>>
        /\ UNCHANGED <<schema, recorded, pc, at, stmt>>
    BY <1>8 DEF vars, disk, local, history
  <2>2. cut' = cut
    BY <1>8 DEF vars, history
  <2>3. KeyOK'
    BY <1>1, <2>1, KeyStays
  <2>4. PlacesOK'
    BY <2>1, PartsOfTheInvariant
       DEF PlacesOK, StatementsStand, PassedIsRecorded, PlacesAgree
  <2>5. HalfInit => HalfInit'
    BY <2>1, <2>2 DEF HalfInit
  <2> QED
    BY <2>1, <2>3, <2>4, <2>5, PartsOfTheInvariant, DatabaseStays
<1> QED
  BY <1>3, <1>4, <1>5, <1>6, <1>7, <1>8, KeyStepKeeps DEF Next, Step

(* The database that an earlier program left, with whole scripts. *)
LEMMA UpgradedOK ==
  ASSUME Upgraded
  PROVE  DatabaseOK
<1>1. PICK n \in 0..5 :
        /\ \E extra \in {{}} \cup (IF n = 4 THEN {{"phone"}} ELSE {}) :
             schema = (UNION {Script[f] : f \in 1..n}) \cup extra
        /\ recorded \in {{}, 1..n}
  BY DEF Upgraded
<1>2. PICK extra \in SUBSET {"phone"} : schema = (UNION {Script[f] : f \in 1..n}) \cup extra
  BY <1>1
<1>3. \A part : part \in schema <=> part \in extra \/ \E f \in 1..n : part \in Script[f]
  <2> DEFINE made == UNION {Script[f] : f \in 1..n}
  <2>1. \A part : part \in made <=> \E f \in 1..n : part \in Script[f]
    BY Zenon
  <2>2. schema = made \cup extra
    BY <1>2, Zenon
  <2> HIDE DEF made
  <2> QED
    BY <2>1, <2>2, Zenon
<1>4. /\ \A f \in 1..n : f \in 1..6 /\ f \in Files
      /\ \A f \in 1..n : Script[f] \subseteq schema
  BY <1>3, ScriptValues
<1>5. schema \subseteq Parts
  <2>1. 5 \in Files /\ "phone" \in Script[5]
    BY ScriptValues
  <2>2. extra \subseteq Parts
    BY <2>1, PartsValue
  <2>3. \A f \in 1..n : Script[f] \subseteq Parts
    BY <1>4, PartsValue
  <2> QED
    BY <1>3, <2>2, <2>3
<1>6. FirstTableMeansScript
  <2> SUFFICES ASSUME "users" \in schema PROVE Script[1] \subseteq schema
    BY DEF FirstTableMeansScript
  <2>1. "users" \notin extra
    OBVIOUS
  <2>2. PICK f \in 1..n : "users" \in Script[f]
    BY <1>3, <2>1
  <2>3. 1 \in 1..n
    BY <2>2
  <2> QED
    BY <1>4, <2>3
<1>7. RecordedStands /\ recorded \subseteq 1..6
  <2>1. recorded \subseteq 1..n
    BY <1>1
  <2>2. "users" \in Script[1]
    BY ScriptValues
  <2>3. \A f \in recorded : f \in 1..6 /\ Script[f] \subseteq schema
    BY <1>4, <2>1
  <2> QED
    BY <2>2, <2>3 DEF RecordedStands
<1> QED
  BY <1>5, <1>6, <1>7 DEF DatabaseOK

(* The database in which it was stopped in the first script. *)
LEMMA HalfInstalledOK ==
  ASSUME HalfInstalled
  PROVE  DatabaseOK
<1>1. PICK k \in 1..3 : schema = {InitScript[s] : s \in 1..k}
  BY DEF HalfInstalled
<1>2. \A s \in 1..k : s \in 1..4
  OBVIOUS
<1>3. schema \subseteq Parts
  BY <1>1, <1>2, PartsValue
<1>4. recorded = {} /\ cut
  BY DEF HalfInstalled
<1> QED
  BY <1>3, <1>4 DEF DatabaseOK, FirstTableMeansScript, RecordedStands, HalfInit

LEMMA IInvInit == Init => IInv
<1> SUFFICES ASSUME Init PROVE PlacesOK /\ DatabaseOK /\ KeyOK /\ FlagsOK
  BY PartsOfTheInvariant
<1>1. DatabaseOK
  BY UpgradedOK, HalfInstalledOK DEF Init
<1>2. PlacesOK /\ FlagsOK
  <2>1. \A p \in Proc : pc[p] = "down" /\ at[p] = 1 /\ stmt[p] = 1
    BY DEF Init
  <2>2. /\ pc \in [Proc -> Phases] /\ at \in [Proc -> 1..7] /\ stmt \in [Proc -> 1..5]
    BY PhasesValues DEF Init
  <2>3. StatementsStand /\ PassedIsRecorded /\ PlacesAgree
    BY <2>1 DEF StatementsStand, PassedIsRecorded, PlacesAgree
  <2>4. FlagsOK
    BY DEF Init, Upgraded, HalfInstalled, FlagsOK
  <2> QED
    BY <2>2, <2>3, <2>4 DEF PlacesOK
<1>3. KeyOK
  BY StartupAssumption DEF Init, KeyOK, FileHoldsTheKey, Proc
<1> QED
  BY <1>1, <1>2, <1>3

LEMMA InvariantOfStartup == Spec => []IInv
<1> QED
  BY IInvInit, IInvStep, PTL DEF Spec

-----------------------------------------------------------------------------

(* Every variable keeps its type: no process leaves the lists it walks     *)
(* through, and what is recorded is a script.                              *)
THEOREM StartupTypeCorrect == Spec => []TypeOK
<1>1. IInv => TypeOK
  BY DEF IInv
<1> QED
  BY InvariantOfStartup, <1>1, PTL

(* However two processes and their crashes interleave, a script on record  *)
(* has made all it makes, unless it is the first one and half run.         *)
THEOREM RecordsAreTrue == Spec => []RecordedIsComplete
<1>1. IInv => RecordedIsComplete
  <2> SUFFICES ASSUME IInv, NEW f \in recorded, ~(Script[f] \subseteq schema)
               PROVE  f = 1 /\ (cut \/ InitRuns)
    BY DEF RecordedIsComplete
  <2>1. f = 1 /\ "users" \in schema
    BY DEF IInv, RecordedStands
  <2> QED
    BY <2>1 DEF IInv, FirstTableMeansScript, HalfInit, InitRuns
<1> QED
  BY InvariantOfStartup, <1>1, PTL

(* The server never serves on a schema with a part missing, with the same  *)
(* exception.                                                              *)
THEOREM ServedSchemaIsComplete == Spec => []ServingIsComplete
<1>1. IInv => ServingIsComplete
  <2> SUFFICES ASSUME IInv, pc["serve"] = "serving"
               PROVE  \/ schema = Parts
                      \/ (cut \/ InitRuns) /\ schema \cup Script[1] = Parts
    BY DEF ServingIsComplete
  <2>1. Files \subseteq recorded /\ schema \subseteq Parts
    BY DEF IInv, TypeOK, PassedIsRecorded, Proc
  <2>2. /\ \A f \in Files : f # 1 => Script[f] \subseteq schema
        /\ "users" \in schema
    <3>1. 1 \in recorded
      BY <2>1, ScriptValues
    <3> QED
      BY <2>1, <3>1 DEF IInv, RecordedStands
  <2>3. Parts \subseteq schema \cup Script[1]
    <3>1. \A f \in Files : Script[f] \subseteq schema \cup Script[1]
      BY <2>2
    <3> QED
      BY <3>1, PartsValue
  <2>4. Script[1] \subseteq Parts
    BY PartsValue, ScriptValues
  <2>5. Script[1] \subseteq schema \/ cut \/ InitRuns
    BY <2>2 DEF IInv, FirstTableMeansScript, HalfInit, InitRuns
  <2> QED
    BY <2>1, <2>3, <2>4, <2>5
<1> QED
  BY InvariantOfStartup, <1>1, PTL

(* Through all crashes and restarts the server hands out one public key.   *)
THEOREM OneKeyIsServed == Spec => []KeyIsStable
<1>1. IInv => KeyIsStable
  <2> SUFFICES ASSUME IInv PROVE Cardinality(served) <= 1
    BY DEF KeyIsStable
  <2>1. served = {} \/ served = {file}
    BY DEF IInv, FileHoldsTheKey
  <2>2. Cardinality({}) = 0 /\ Cardinality({file}) = 1
    BY FS_EmptySet, FS_Singleton
  <2> QED
    BY <2>1, <2>2
<1> QED
  BY InvariantOfStartup, <1>1, PTL

=============================================================================
