------------------------ MODULE Announcements_proofs ------------------------
(***************************************************************************)
(* Machine-checked proofs about Announcements, for any sets of users,      *)
(* clients, contents and administrators and any number of revisions.       *)
(***************************************************************************)
EXTENDS Announcements, TLAPS

(* What the client of u displays, or will when its answer arrives.         *)
Expected(u) == IF rpc[u] = "deliver" THEN read[u] ELSE screen[u]

(* The displays of u, the one under way included.                          *)
Seen(u) == shown[u] \cup (IF rpc[u] = "deliver" THEN {read[u]} ELSE {})

(* A display is of a revision that exists, and of the row as it is if it   *)
(* is of the revision that is published.                                   *)
IsOf(d, row) ==
  /\ d.rev <= row.rev
  /\ row.state = "published" /\ d.rev = row.rev => d.body = row.body

SeenIsOfTheRow == \A u \in Reader : \A d \in Seen(u) : IsOf(d, ann)

SeenAgrees == \A u, v \in Reader : \A d \in Seen(u), f \in Seen(v) : d.rev = f.rev => d.body = f.body

(* Receipts, and those about to be written, are of revisions that exist.   *)
ReceiptsAreOfTheRow ==
  \A u \in Reader :
    /\ rpc[u] \in {"deliver", "insertRead", "insertAcknowledged"} => read[u].rev <= ann.rev
    /\ \A r \in Revision : r > ann.rev => receipts[u][r] = {}

(* The client of u would be answered d now.                                *)
Matches(d, u) ==
  IF Available(u) THEN d = [rev |-> ann.rev, body |-> ann.body] ELSE d.rev = 0

(* Request e is going to notify the client of u.                           *)
Covers(e, u) ==
  \/ pc[e] = "notify" /\ (job[e].type = "all" \/ u \in job[e].targets)
  \/ /\ Published
     /\ \/ pc[e] = "reread"
        \/ pc[e] = "published" /\ u \in Audience
        \/ pc[e] = "publishedTargets" /\ (job[e].type = "all" \/ u \in ann.targets)

ChangesAreNotified ==
  \A u \in Reader :
    Matches(Expected(u), u) \/ u \in told \/ u \in silent \/ \E e \in Editor : Covers(e, u)

(* Before its creation there is nothing to find. *)
NotYetCreated == ann.state = "absent" => ann.rev = 0 /\ \A e \in Editor : pc[e] = "idle"

(* Withdrawals are broadcast: the targets are not read for them.           *)
WithdrawalsAreBroadcast == \A e \in Editor : pc[e] = "unpublish" => job[e].type = "all"

IInv ==
  /\ TypeOK /\ NotYetCreated
  /\ SeenIsOfTheRow /\ SeenAgrees
  /\ ReceiptsAreOfTheRow
  /\ ChangesAreNotified /\ WithdrawalsAreBroadcast

-----------------------------------------------------------------------------
(* Types. *)

LEMMA FieldTypes ==
  ASSUME TypeOK
  PROVE  /\ ann.state \in {"absent", "draft", "published", "deleted"}
         /\ ann.rev \in Revision /\ ann.rev \in Nat
         /\ ann.body \in Body \cup {None} /\ ann.type \in {"all", "users"}
         /\ ann.targets \in SUBSET User
         /\ \A e \in Editor : /\ job[e].body \in Body \cup {None}
                              /\ job[e].type \in {"all", "users"}
                              /\ job[e].targets \in SUBSET User
         /\ \A u \in Reader : read[u].rev \in Revision /\ read[u].rev \in Nat
BY ConstantsAssumption DEF TypeOK, Revision, Display

LEMMA NoJobType ==
  NoJob \in [body : Body \cup {None}, type : {"all", "users"}, targets : SUBSET User,
             published : BOOLEAN]
BY DEF NoJob

LEMMA NothingType == Nothing \in Display
BY ConstantsAssumption DEF Nothing, Display, Revision

LEMMA InitInvariant == Init => IInv
<1> SUFFICES ASSUME Init PROVE IInv
  OBVIOUS
<1>1. TypeOK
  BY ConstantsAssumption, NoJobType, NothingType DEF Init, TypeOK, Revision
<1>2. SeenIsOfTheRow /\ SeenAgrees
  BY DEF Init, SeenIsOfTheRow, SeenAgrees, Seen
<1>3. ReceiptsAreOfTheRow
  BY DEF Init, ReceiptsAreOfTheRow
<1>4. ChangesAreNotified
  BY DEF Init, ChangesAreNotified, Matches, Expected, Available, Published, Nothing
<1>5. NotYetCreated
  BY DEF Init, NotYetCreated
<1>6. WithdrawalsAreBroadcast
  BY DEF Init, WithdrawalsAreBroadcast
<1> QED
  BY <1>1, <1>2, <1>3, <1>4, <1>5, <1>6 DEF IInv

LEMMA CarryTypes ==
  ASSUME TypeOK, NEW e \in Editor, NEW from, NEW to \in
           {"idle", "findTargets", "write", "reread", "publish", "published",
            "publishedTargets", "unpublish", "delete", "notify"},
         NEW j \in [body : Body \cup {None}, type : {"all", "users"}, targets : SUBSET User,
                    published : BOOLEAN],
         Carry(e, from, to, j)
  PROVE  /\ pc' \in [Editor -> {"idle", "findTargets", "write", "reread", "publish", "published",
                        "publishedTargets", "unpublish", "delete", "notify"}]
         /\ job' \in [Editor -> [body : Body \cup {None}, type : {"all", "users"},
                         targets : SUBSET User, published : BOOLEAN]]
BY NoJobType DEF TypeOK, Carry, Go

(* The part of the type that administrators change. *)
EditorTypes ==
  /\ ann \in [state : {"absent", "draft", "published", "deleted"}, rev : Revision,
              body : Body \cup {None}, type : {"all", "users"}, targets : SUBSET User]
  /\ ann.type = "all" => ann.targets = {}
  /\ pc \in [Editor -> {"idle", "findTargets", "write", "reread", "publish", "published",
                        "publishedTargets", "unpublish", "delete", "notify"}]
  /\ job \in [Editor -> [body : Body \cup {None}, type : {"all", "users"},
                         targets : SUBSET User, published : BOOLEAN]]

LEMMA EditorTypeStep ==
  ASSUME TypeOK, NEW e \in Editor, EditorStep(e)
  PROVE  EditorTypes'
<1>0. EditorTypes
  BY DEF TypeOK, EditorTypes
<1>1. ASSUME NEW body \in Body, NEW type \in {"all", "users"}, NEW targets \in SUBSET User,
             Create(e, body, type, targets)
      PROVE  EditorTypes'
  <2>1. StoredTargets(type, targets) \in SUBSET User /\ (type = "all" => StoredTargets(type, targets) = {})
    BY DEF StoredTargets
  <2>2. 0 \in Revision
    BY ConstantsAssumption DEF Revision
  <2> QED
    BY <1>0, <1>1, <2>1, <2>2 DEF Create, EditorTypes
<1>2. ASSUME NEW to \in {"findTargets", "publish", "unpublish", "delete"}, FindRow(e, to)
      PROVE  EditorTypes'
  <2> DEFINE j == CASE to = "findTargets" -> [NoJob EXCEPT !.body = ann.body, !.type = ann.type]
             [] to = "delete" -> [NoJob EXCEPT !.published = Published]
             [] OTHER -> NoJob
  <2>1. Published \in BOOLEAN
    BY DEF Published
  <2>2. j \in [body : Body \cup {None}, type : {"all", "users"}, targets : SUBSET User,
               published : BOOLEAN]
    <3>1. CASE to = "findTargets"
      BY <3>1, FieldTypes, NoJobType
    <3>2. CASE to = "delete"
      BY <3>2, <2>1, NoJobType
    <3>3. CASE to \notin {"findTargets", "delete"}
      BY <3>3, NoJobType
    <3> QED
      BY <3>1, <3>2, <3>3
  <2>3. Carry(e, "idle", to, j) /\ ann' = ann
    BY <1>2 DEF FindRow
  <2> HIDE DEF j
  <2> QED
    BY <2>2, <2>3, <1>0, NoJobType DEF Carry, Go, EditorTypes
<1>3. ASSUME NEW from \in {"findTargets", "publishedTargets"}, NEW to \in {"write", "notify"},
             FindTargets(e, from, to)
      PROVE  EditorTypes'
  <2>1. [job[e] EXCEPT !.targets = ann.targets]
          \in [body : Body \cup {None}, type : {"all", "users"}, targets : SUBSET User,
               published : BOOLEAN]
    BY <1>0, FieldTypes DEF EditorTypes
  <2> QED
    BY <2>1, <1>3, <1>0, NoJobType DEF FindTargets, Carry, Go, EditorTypes
<1>4. ASSUME NEW body \in Body \cup {None}, NEW type \in {None, "all", "users"},
             NEW targets \in {None} \cup SUBSET User, UpdateWrite(e, body, type, targets)
      PROVE  EditorTypes'
  <2> DEFINE newBody == IF body = None THEN job[e].body ELSE body
             newType == IF type = None THEN job[e].type ELSE type
             newTargets == IF targets = None THEN job[e].targets ELSE targets
  <2>1. /\ newBody \in Body \cup {None}
        /\ newType \in {"all", "users"}
        /\ newTargets \in SUBSET User
    BY FieldTypes
  <2>2. /\ StoredTargets(newType, newTargets) \in SUBSET User
        /\ newType = "all" => StoredTargets(newType, newTargets) = {}
    BY <2>1 DEF StoredTargets
  <2>3. EditedRevision \in Revision
    <3>1. Published => ann.rev < MaxRev
      BY <1>4 DEF UpdateWrite
    <3> QED
      BY <3>1, FieldTypes, ConstantsAssumption DEF EditedRevision, Revision
  <2>4. CASE Deleted
    <3>1. Carry(e, "write", "idle", NoJob) /\ ann' = ann
      BY <1>4, <2>4 DEF UpdateWrite
    <3> QED
      BY <3>1, <1>0, CarryTypes, NoJobType DEF EditorTypes
  <2>5. CASE ~Deleted
    <3>1. /\ Carry(e, "write", "reread", NoJob)
          /\ ann' = [ann EXCEPT !.body = newBody, !.rev = EditedRevision, !.type = newType,
                                !.targets = StoredTargets(newType, newTargets)]
      BY <1>4, <2>5 DEF UpdateWrite
    <3> HIDE DEF newBody, newType, newTargets
    <3> QED
      BY <3>1, <1>0, <2>1, <2>2, <2>3, CarryTypes, NoJobType DEF EditorTypes
  <2> QED
    BY <2>4, <2>5
<1>5. CASE UpdateReread(e)
  BY <1>5, <1>0, CarryTypes, NoJobType DEF UpdateReread, EditorTypes
<1>6. CASE PublishWrite(e)
  <2>1. ann.rev < MaxRev => ann.rev + 1 \in Revision
    BY FieldTypes, ConstantsAssumption DEF Revision
  <2> QED
    BY <1>6, <1>0, <2>1 DEF PublishWrite, Go, EditorTypes
<1>7. CASE PublishReread(e)
  <2>1. [NoJob EXCEPT !.type = ann.type]
          \in [body : Body \cup {None}, type : {"all", "users"}, targets : SUBSET User,
               published : BOOLEAN]
    BY FieldTypes, NoJobType
  <2> QED
    BY <2>1, <1>7, <1>0, CarryTypes DEF PublishReread, EditorTypes
<1>8. CASE UnpublishWrite(e)
  BY <1>8, <1>0 DEF UnpublishWrite, Go, EditorTypes
<1>9. CASE DeleteWrite(e)
  <2>1. /\ Carry(e, "delete", IF job[e].published THEN "notify" ELSE "idle", NoJob)
        /\ ann' = [ann EXCEPT !.state = "deleted"]
    BY <1>9 DEF DeleteWrite
  <2> QED
    BY <2>1, <1>0, CarryTypes, NoJobType DEF EditorTypes
<1>10. CASE Notify(e)
  BY <1>10, <1>0, CarryTypes, NoJobType DEF Notify, EditorTypes
<1>11. CASE EditorAbort(e)
  BY <1>11, <1>0, CarryTypes, NoJobType DEF EditorAbort, EditorTypes
<1> QED
  BY <1>1, <1>2, <1>3, <1>4, <1>5, <1>6, <1>7, <1>8, <1>9, <1>10, <1>11 DEF EditorStep

-----------------------------------------------------------------------------
(* What administrators leave alone, and how the row moves. *)

(* A change leads to another revision, or to a row that is not published.  *)
RowMoves ==
  \/ ann'.rev = ann.rev /\ (ann' = ann \/ ann'.state # "published")
  \/ ann'.rev = ann.rev + 1

EditorsFrame ==
  /\ UNCHANGED <<rpc, read, screen, shown>>
  /\ receipts' \in {receipts, [u \in Reader |-> [r \in Revision |-> {}]]}
  /\ told' \in SUBSET Reader /\ silent' \in SUBSET Reader
  /\ RowMoves

LEMMA EditorsMoveTheRow ==
  ASSUME TypeOK, NotYetCreated, NEW e \in Editor, EditorStep(e)
  PROVE  EditorsFrame /\ NotYetCreated'
<1>0. /\ ann \in [state : {"absent", "draft", "published", "deleted"}, rev : Revision,
                  body : Body \cup {None}, type : {"all", "users"}, targets : SUBSET User]
      /\ told \subseteq Reader /\ silent \subseteq Reader
  BY DEF TypeOK
<1>1. ASSUME NEW body \in Body, NEW type \in {"all", "users"}, NEW targets \in SUBSET User,
             Create(e, body, type, targets)
      PROVE  /\ UNCHANGED <<receipts, rpc, read, screen, shown, told, silent>>
             /\ RowMoves
  <2>1. ann'.state = "draft" /\ ann'.rev = ann.rev
    BY <1>1 DEF Create, NotYetCreated
  <2> QED
    BY <1>1, <2>1 DEF Create, readerVars, RowMoves
<1>2. ASSUME NEW to, FindRow(e, to)
      PROVE  UNCHANGED <<ann, receipts, rpc, read, screen, shown, told, silent>>
  BY <1>2 DEF FindRow, readerVars
<1>3. ASSUME NEW from, NEW to, FindTargets(e, from, to)
      PROVE  UNCHANGED <<ann, receipts, rpc, read, screen, shown, told, silent>>
  BY <1>3 DEF FindTargets, readerVars
<1>4. ASSUME NEW body, NEW type, NEW targets, UpdateWrite(e, body, type, targets)
      PROVE  /\ UNCHANGED <<receipts, rpc, read, screen, shown, told, silent>>
             /\ RowMoves
  <2>1. CASE Deleted
    BY <2>1, <1>4 DEF UpdateWrite, readerVars, RowMoves
  <2>2. CASE ~Deleted
    <3>1. ann'.state = ann.state /\ ann'.rev = EditedRevision
      BY <2>2, <1>4, <1>0 DEF UpdateWrite
    <3>2. CASE Published
      BY <3>1, <3>2, <1>4 DEF UpdateWrite, readerVars, RowMoves, EditedRevision
    <3>3. CASE ~Published
      BY <3>1, <3>3, <1>4 DEF UpdateWrite, readerVars, RowMoves, EditedRevision, Published
    <3> QED
      BY <3>2, <3>3
  <2> QED
    BY <2>1, <2>2
<1>5. ASSUME UpdateReread(e) PROVE EditorsFrame
  BY <1>5, <1>0 DEF EditorsFrame, UpdateReread, readerVars, RowMoves
<1>6. ASSUME PublishWrite(e) PROVE EditorsFrame
  BY <1>6, <1>0 DEF EditorsFrame, PublishWrite, readerVars, RowMoves
<1>7. ASSUME PublishReread(e) PROVE EditorsFrame
  BY <1>7, <1>0 DEF EditorsFrame, PublishReread, readerVars, RowMoves
<1>8. ASSUME UnpublishWrite(e) PROVE EditorsFrame
  BY <1>8, <1>0 DEF EditorsFrame, UnpublishWrite, readerVars, RowMoves
<1>9. ASSUME DeleteWrite(e) PROVE EditorsFrame
  BY <1>9, <1>0 DEF EditorsFrame, DeleteWrite, readerVars, RowMoves
<1>10. ASSUME Notify(e) PROVE EditorsFrame
  BY <1>10, <1>0 DEF EditorsFrame, Notify, readerVars, RowMoves
<1>11. ASSUME EditorAbort(e) PROVE EditorsFrame
  BY <1>11, <1>0 DEF EditorsFrame, EditorAbort, readerVars, RowMoves
<1>12. ASSUME UNCHANGED <<ann, receipts, rpc, read, screen, shown, told, silent>>
       PROVE  EditorsFrame
  BY <1>12, <1>0 DEF RowMoves, EditorsFrame
<1>13. NotYetCreated'
  <2>1. ann.state = "absent" => ~(pc[e] # "idle") /\ ~Exists
    BY DEF NotYetCreated, Exists
  <2>2. CASE ann.state = "absent"
    <3>1. PICK body \in Body, type \in {"all", "users"}, targets \in SUBSET User :
            Create(e, body, type, targets)
      BY <2>1, <2>2 DEF EditorStep, FindRow, FindTargets, UpdateWrite, UpdateReread, PublishWrite,
           PublishReread, UnpublishWrite, DeleteWrite, Notify, EditorAbort, Carry, Go
    <3> QED
      BY <3>1 DEF Create, NotYetCreated
  <2>3. CASE ann.state # "absent"
    <3>1. ann'.state # "absent"
      BY <1>0, <2>3 DEF EditorStep, Create, FindRow, FindTargets, UpdateWrite, UpdateReread, PublishWrite,
           PublishReread, UnpublishWrite, DeleteWrite, Notify, EditorAbort
    <3> QED
      BY <3>1 DEF NotYetCreated
  <2> QED
    BY <2>2, <2>3
<1> QED
  BY <1>0, <1>1, <1>2, <1>3, <1>4, <1>5, <1>6, <1>7, <1>8, <1>9, <1>10, <1>11, <1>12, <1>13
     DEF EditorStep, EditorsFrame

-----------------------------------------------------------------------------
(* What users leave alone. *)

LEMMA ReceiptTypes ==
  ASSUME NEW u \in Reader, NEW r \in Revision, NEW m \in SUBSET Mark,
         receipts \in [Reader -> [Revision -> SUBSET Mark]],
         receipts' = [receipts EXCEPT ![u][r] = m]
  PROVE  receipts' \in [Reader -> [Revision -> SUBSET Mark]]
<1>1. [receipts[u] EXCEPT ![r] = m] \in [Revision -> SUBSET Mark]
  OBVIOUS
<1> QED
  BY <1>1

LEMMA ReaderTypeStep ==
  ASSUME TypeOK, NEW u \in Reader, ReaderStep(u)
  PROVE  /\ UNCHANGED editorVars
         /\ receipts' \in [Reader -> [Revision -> SUBSET Mark]]
         /\ rpc' \in [Reader -> {"idle", "deliver", "read", "acknowledged", "insertRead",
                                 "insertAcknowledged"}]
         /\ read' \in [Reader -> Display]
         /\ screen' \in [Reader -> Display]
         /\ shown' \in [Reader -> SUBSET Display]
         /\ told' \in SUBSET Reader /\ silent' \in SUBSET Reader
<1>0. /\ receipts \in [Reader -> [Revision -> SUBSET Mark]]
      /\ rpc \in [Reader -> {"idle", "deliver", "read", "acknowledged", "insertRead",
                             "insertAcknowledged"}]
      /\ read \in [Reader -> Display] /\ screen \in [Reader -> Display]
      /\ shown \in [Reader -> SUBSET Display]
      /\ told \subseteq Reader /\ silent \subseteq Reader
  BY DEF TypeOK
<1>1. CASE ListQuery(u)
  <2>1. [rev |-> ann.rev, body |-> ann.body] \in Display
    BY FieldTypes DEF Display
  <2> QED
    BY <1>0, <1>1, <2>1, NothingType DEF ListQuery, GoReader
<1>2. CASE MarkDelivered(u)
  <2>1. read[u].rev \in Revision /\ read[u] \in Display
    BY <1>0, FieldTypes
  <2>2. receipts[u][read[u].rev] \cup {"delivered"} \in SUBSET Mark
    BY <1>0, <2>1 DEF Mark
  <2>3. \/ receipts' = [receipts EXCEPT ![u][read[u].rev] =
                            receipts[u][read[u].rev] \cup {"delivered"}]
        \/ receipts' = receipts
    BY <1>2 DEF MarkDelivered
  <2>4. receipts' \in [Reader -> [Revision -> SUBSET Mark]]
    BY <1>0, <2>1, <2>2, <2>3, ReceiptTypes
  <2>5. /\ rpc' = [rpc EXCEPT ![u] = "idle"] /\ read' = [read EXCEPT ![u] = Nothing]
        /\ screen' \in {screen, [screen EXCEPT ![u] = read[u]]}
        /\ shown' \in {shown, [shown EXCEPT ![u] = shown[u] \cup {read[u]}]}
        /\ told' \in {told, told \cup {u}}
        /\ UNCHANGED <<editorVars, silent>>
    <3>1. screen' \in {screen, [screen EXCEPT ![u] = read[u]]}
      BY <1>2 DEF MarkDelivered
    <3>2. shown' \in {shown, [shown EXCEPT ![u] = shown[u] \cup {read[u]}]}
      BY <1>2 DEF MarkDelivered
    <3>3. told' \in {told, told \cup {u}}
      BY <1>2 DEF MarkDelivered
    <3>4. rpc' = [rpc EXCEPT ![u] = "idle"] /\ read' = [read EXCEPT ![u] = Nothing]
      BY <1>2 DEF MarkDelivered, GoReader
    <3>5. UNCHANGED <<editorVars, silent>>
      BY <1>2 DEF MarkDelivered
    <3> QED
      BY <3>1, <3>2, <3>3, <3>4, <3>5
  <2>6. shown' \in [Reader -> SUBSET Display] /\ screen' \in [Reader -> Display]
    <3>1. shown[u] \cup {read[u]} \in SUBSET Display
      BY <1>0, <2>1
    <3>2. shown' \in [Reader -> SUBSET Display]
      <4>1. shown' \in {shown, [shown EXCEPT ![u] = shown[u] \cup {read[u]}]}
        BY <2>5
      <4> QED
        BY <4>1, <3>1, <1>0
    <3>3. screen' \in [Reader -> Display]
      <4>1. screen' \in {screen, [screen EXCEPT ![u] = read[u]]}
        BY <2>5
      <4> QED
        BY <4>1, <2>1, <1>0
    <3> QED
      BY <3>2, <3>3
  <2> QED
    BY <1>0, <2>4, <2>5, <2>6, NothingType
<1>3. ASSUME NEW mark \in Asked, ReceiptCheck(u, mark)
      PROVE  /\ UNCHANGED <<editorVars, receipts, read, screen, shown, told, silent>>
             /\ rpc' \in [Reader -> {"idle", "deliver", "read", "acknowledged", "insertRead",
                                     "insertAcknowledged"}]
  BY <1>0, <1>3, ConstantsAssumption DEF ReceiptCheck, GoReader
<1>4. ASSUME NEW mark \in Asked, ReceiptRevision(u, mark)
      PROVE  /\ UNCHANGED <<editorVars, receipts, screen, shown, told, silent>>
             /\ read' \in [Reader -> Display]
             /\ rpc' \in [Reader -> {"idle", "deliver", "read", "acknowledged", "insertRead",
                                     "insertAcknowledged"}]
  <2>1. [read[u] EXCEPT !.rev = ann.rev] \in Display
    BY <1>0, FieldTypes DEF Display
  <2>2. read' \in [Reader -> Display]
    BY <1>0, <1>4, <2>1 DEF ReceiptRevision
  <2> QED
    BY <1>0, <1>4, <2>2 DEF ReceiptRevision, GoReader
<1>5. CASE ReceiptInsert(u)
  <2>1. receipts[u][read[u].rev] \cup {"delivered", "read"} \in SUBSET Mark /\ Mark \in SUBSET Mark
    BY <1>0, FieldTypes DEF Mark
  <2>2. receipts' \in [Reader -> [Revision -> SUBSET Mark]]
    <3>1. \/ \E m \in SUBSET Mark : receipts' = [receipts EXCEPT ![u][read[u].rev] = m]
          \/ receipts' = receipts
      BY <1>5, <2>1 DEF ReceiptInsert
    <3> QED
      BY <1>0, <3>1, FieldTypes, ReceiptTypes
  <2> QED
    BY <1>0, <1>5, <2>2, NothingType DEF ReceiptInsert
<1> QED
  BY <1>0, <1>1, <1>2, <1>3, <1>4, <1>5 DEF ReaderStep

LEMMA TypeStep == TypeOK /\ NotYetCreated /\ [Next]_vars => TypeOK'
<1> SUFFICES ASSUME TypeOK, NotYetCreated, [Next]_vars PROVE TypeOK'
  OBVIOUS
<1>1. ASSUME NEW e \in Editor, EditorStep(e) PROVE TypeOK'
  <2>1. [u \in Reader |-> [r \in Revision |-> {}]] \in [Reader -> [Revision -> SUBSET Mark]]
    OBVIOUS
  <2> QED
    BY <2>1, <1>1, EditorTypeStep, EditorsMoveTheRow DEF TypeOK, EditorTypes, EditorsFrame
<1>2. ASSUME NEW u \in Reader, ReaderStep(u) PROVE TypeOK'
  BY <1>2, ReaderTypeStep DEF TypeOK, editorVars
<1>3. CASE UNCHANGED vars
  BY <1>3 DEF vars, TypeOK
<1> QED
  BY <1>1, <1>2, <1>3 DEF Next

-----------------------------------------------------------------------------
(* Revisions. *)

LEMMA SeenTypes ==
  ASSUME TypeOK, NEW u \in Reader
  PROVE  \A d \in Seen(u) : d.rev \in Nat /\ d.rev \in Revision
BY DEF TypeOK, Seen, Display, Revision

LEMMA RevisionsEditorStep ==
  ASSUME IInv, NEW e \in Editor, EditorStep(e)
  PROVE  SeenIsOfTheRow' /\ SeenAgrees' /\ ReceiptsAreOfTheRow'
<1>1. EditorsFrame
  BY EditorsMoveTheRow DEF IInv
<1>2. \A u \in Reader : Seen(u)' = Seen(u)
  BY <1>1 DEF EditorsFrame, Seen
<1>3. ann'.rev \in Nat /\ ann.rev <= ann'.rev
  BY <1>1, FieldTypes DEF EditorsFrame, RowMoves, IInv
<1>4. SeenIsOfTheRow'
  <2> SUFFICES ASSUME NEW u \in Reader, NEW d \in Seen(u) PROVE IsOf(d, ann')
    BY <1>2 DEF SeenIsOfTheRow, IsOf
  <2>1. d.rev \in Nat /\ ann.rev \in Nat
    BY SeenTypes, FieldTypes DEF IInv
  <2>2. IsOf(d, ann)
    BY DEF IInv, SeenIsOfTheRow
  <2> QED
    BY <1>1, <2>1, <2>2 DEF EditorsFrame, RowMoves, IsOf
<1>5. SeenAgrees'
  BY <1>2 DEF SeenAgrees, IInv
<1>6. ReceiptsAreOfTheRow'
  <2> SUFFICES ASSUME NEW u \in Reader
               PROVE  /\ rpc'[u] \in {"deliver", "insertRead", "insertAcknowledged"} =>
                           read'[u].rev <= ann'.rev
                      /\ \A r \in Revision : r > ann'.rev => receipts'[u][r] = {}
    BY DEF ReceiptsAreOfTheRow
  <2>1. read[u].rev \in Nat /\ ann.rev \in Nat /\ \A r \in Revision : r \in Nat
    BY FieldTypes DEF IInv, Revision
  <2>2. /\ rpc[u] \in {"deliver", "insertRead", "insertAcknowledged"} => read[u].rev <= ann.rev
        /\ \A r \in Revision : r > ann.rev => receipts[u][r] = {}
    BY DEF IInv, ReceiptsAreOfTheRow
  <2> QED
    BY <1>1, <1>3, <2>1, <2>2 DEF EditorsFrame
<1> QED
  BY <1>4, <1>5, <1>6

(* Of two clients, only the one that acts sees anything new. *)
LEMMA SeenByOthers ==
  ASSUME TypeOK, NEW u \in Reader, ReaderStep(u), NEW v \in Reader, v # u
  PROVE  /\ rpc'[v] = rpc[v] /\ read'[v] = read[v] /\ screen'[v] = screen[v]
         /\ shown'[v] = shown[v] /\ receipts'[v] = receipts[v]
         /\ v \in told' <=> v \in told
         /\ v \in silent' <=> v \in silent
<1>0. /\ receipts \in [Reader -> [Revision -> SUBSET Mark]]
      /\ rpc \in [Reader -> {"idle", "deliver", "read", "acknowledged", "insertRead",
                             "insertAcknowledged"}]
      /\ read \in [Reader -> Display] /\ screen \in [Reader -> Display]
      /\ shown \in [Reader -> SUBSET Display]
  BY DEF TypeOK
<1>1. rpc'[v] = rpc[v]
  BY <1>0 DEF ReaderStep, ListQuery, MarkDelivered, ReceiptCheck, ReceiptRevision, ReceiptInsert, GoReader
<1>2. read'[v] = read[v]
  BY <1>0 DEF ReaderStep, ListQuery, MarkDelivered, ReceiptCheck, ReceiptRevision, ReceiptInsert
<1>3. screen'[v] = screen[v] /\ shown'[v] = shown[v]
  BY <1>0 DEF ReaderStep, ListQuery, MarkDelivered, ReceiptCheck, ReceiptRevision, ReceiptInsert
<1>4. receipts'[v] = receipts[v]
  BY <1>0 DEF ReaderStep, ListQuery, MarkDelivered, ReceiptCheck, ReceiptRevision, ReceiptInsert
<1>5. (v \in told' <=> v \in told) /\ (v \in silent' <=> v \in silent)
  BY DEF ReaderStep, ListQuery, MarkDelivered, ReceiptCheck, ReceiptRevision, ReceiptInsert
<1> QED
  BY <1>1, <1>2, <1>3, <1>4, <1>5

(* What a client comes to see was seen before, or is the published row.    *)
LEMMA SeenByOneself ==
  ASSUME TypeOK, NEW u \in Reader, ReaderStep(u)
  PROVE  \A d \in Seen(u)' :
           d \in Seen(u) \/ (Published /\ d = [rev |-> ann.rev, body |-> ann.body])
<1>0. /\ rpc \in [Reader -> {"idle", "deliver", "read", "acknowledged", "insertRead",
                             "insertAcknowledged"}]
      /\ read \in [Reader -> Display]
      /\ shown \in [Reader -> SUBSET Display]
  BY DEF TypeOK
<1>1. CASE ListQuery(u)
  <2>1. shown'[u] = shown[u]
    BY <1>1 DEF ListQuery
  <2>2. CASE Available(u)
    <3>1. rpc'[u] = "deliver"
      <4>1. rpc' = [rpc EXCEPT ![u] = "deliver"]
        BY <1>1, <2>2 DEF ListQuery, GoReader
      <4> QED
        BY <4>1, <1>0
    <3>2. read'[u] = [rev |-> ann.rev, body |-> ann.body]
      <4>1. read' = [read EXCEPT ![u] = [rev |-> ann.rev, body |-> ann.body]]
        BY <1>1, <2>2 DEF ListQuery
      <4> QED
        BY <4>1, <1>0
    <3>3. Published
      BY <2>2 DEF Available
    <3>4. Seen(u)' = shown[u] \cup {read'[u]}
      BY <2>1, <3>1 DEF Seen
    <3> QED
      BY <3>2, <3>3, <3>4 DEF Seen
  <2>3. CASE ~Available(u)
    <3>1. rpc'[u] = "idle"
      <4>1. rpc' = [rpc EXCEPT ![u] = "idle"]
        BY <1>1, <2>3 DEF ListQuery, GoReader
      <4> QED
        BY <4>1, <1>0
    <3> QED
      BY <2>1, <3>1 DEF Seen
  <2> QED
    BY <2>2, <2>3
<1>2. CASE MarkDelivered(u)
  <2>1. rpc[u] = "deliver" /\ rpc'[u] = "idle"
    BY <1>0, <1>2 DEF MarkDelivered, GoReader
  <2>2. shown'[u] \subseteq shown[u] \cup {read[u]}
    <3>1. shown' = shown \/ shown' = [shown EXCEPT ![u] = shown[u] \cup {read[u]}]
      BY <1>2 DEF MarkDelivered
    <3>2. CASE shown' = shown
      BY <3>2
    <3>3. CASE shown' = [shown EXCEPT ![u] = shown[u] \cup {read[u]}]
      <4>1. shown'[u] = shown[u] \cup {read[u]}
        BY <3>3, <1>0
      <4> QED
        BY <4>1
    <3> QED
      BY <3>1, <3>2, <3>3
  <2>3. Seen(u)' = shown'[u] /\ Seen(u) = shown[u] \cup {read[u]}
    BY <2>1 DEF Seen
  <2> QED
    BY <2>2, <2>3
<1>3. ASSUME UNCHANGED shown, rpc'[u] # "deliver"
      PROVE  Seen(u)' \subseteq Seen(u)
  BY <1>3 DEF Seen
<1>4. ASSUME NEW mark \in Asked, ReceiptCheck(u, mark) \/ ReceiptRevision(u, mark)
      PROVE  UNCHANGED shown /\ rpc'[u] # "deliver"
  <2>1. mark # "deliver"
    BY ConstantsAssumption
  <2>2. \E to : to # "deliver" /\ rpc' = [rpc EXCEPT ![u] = to]
    <3>1. CASE ReceiptCheck(u, mark)
      <4>1. rpc' = [rpc EXCEPT ![u] = IF Available(u) THEN mark ELSE "idle"]
        BY <3>1 DEF ReceiptCheck, GoReader
      <4>2. (IF Available(u) THEN mark ELSE "idle") # "deliver"
        BY <2>1
      <4> QED
        BY <4>1, <4>2
    <3>2. CASE ReceiptRevision(u, mark)
      <4> DEFINE to == IF Deleted THEN "idle"
                       ELSE IF mark = "read" THEN "insertRead" ELSE "insertAcknowledged"
      <4>1. rpc' = [rpc EXCEPT ![u] = to]
        BY <3>2 DEF ReceiptRevision, GoReader
      <4>2. to # "deliver"
        OBVIOUS
      <4> HIDE DEF to
      <4> QED
        BY <4>1, <4>2
    <3> QED
      BY <1>4, <3>1, <3>2
  <2>3. UNCHANGED shown
    BY <1>4 DEF ReceiptCheck, ReceiptRevision
  <2> QED
    BY <1>0, <2>2, <2>3
<1>5. CASE ReceiptInsert(u)
  <2>1. UNCHANGED shown /\ rpc'[u] # "deliver"
    BY <1>0, <1>5 DEF ReceiptInsert
  <2> QED
    BY <2>1, <1>3
<1> QED
  BY <1>1, <1>2, <1>3, <1>4, <1>5 DEF ReaderStep

LEMMA RevisionsReaderStep ==
  ASSUME IInv, NEW u \in Reader, ReaderStep(u)
  PROVE  SeenIsOfTheRow' /\ SeenAgrees' /\ ReceiptsAreOfTheRow'
<1>0. TypeOK /\ ann' = ann /\ ann.rev \in Nat
  BY ReaderTypeStep, FieldTypes DEF editorVars, IInv
<1>1. \A v \in Reader : \A d \in Seen(v)' :
        d \in Seen(v) \/ (Published /\ d = [rev |-> ann.rev, body |-> ann.body])
  <2> SUFFICES ASSUME NEW v \in Reader, NEW d \in Seen(v)'
               PROVE  d \in Seen(v) \/ (Published /\ d = [rev |-> ann.rev, body |-> ann.body])
    OBVIOUS
  <2>1. CASE v = u
    BY <1>0, <2>1, SeenByOneself
  <2>2. CASE v # u
    <3>1. Seen(v)' = Seen(v)
      BY <1>0, <2>2, SeenByOthers DEF Seen
    <3> QED
      BY <3>1
  <2> QED
    BY <2>1, <2>2
<1>2. \A v \in Reader : \A d \in Seen(v)' : IsOf(d, ann)
  BY <1>0, <1>1 DEF IInv, SeenIsOfTheRow, IsOf
<1>3. SeenIsOfTheRow'
  BY <1>0, <1>2 DEF SeenIsOfTheRow, IsOf
<1>4. SeenAgrees'
  <2> SUFFICES ASSUME NEW v \in Reader, NEW w \in Reader, NEW d \in Seen(v)', NEW f \in Seen(w)',
                      d.rev = f.rev
               PROVE  d.body = f.body
    BY DEF SeenAgrees
  <2>1. IsOf(d, ann) /\ IsOf(f, ann)
    BY <1>2
  <2>2. CASE d \in Seen(v) /\ f \in Seen(w)
    BY <2>2 DEF IInv, SeenAgrees
  <2>3. CASE Published /\ ((d.rev = ann.rev /\ d.body = ann.body) \/ (f.rev = ann.rev /\ f.body = ann.body))
    BY <2>1, <2>3 DEF IsOf, Published
  <2> QED
    BY <1>1, <2>2, <2>3
<1>5. ReceiptsAreOfTheRow'
  <2> SUFFICES ASSUME NEW v \in Reader
               PROVE  /\ rpc'[v] \in {"deliver", "insertRead", "insertAcknowledged"} =>
                           read'[v].rev <= ann.rev
                      /\ \A r \in Revision : r > ann.rev => receipts'[v][r] = {}
    BY <1>0 DEF ReceiptsAreOfTheRow
  <2>0. /\ rpc[v] \in {"deliver", "insertRead", "insertAcknowledged"} => read[v].rev <= ann.rev
        /\ \A r \in Revision : r > ann.rev => receipts[v][r] = {}
    BY DEF IInv, ReceiptsAreOfTheRow
  <2>1. CASE v # u
    BY <1>0, <2>0, <2>1, SeenByOthers
  <2>2. CASE v = u
    <3>0. /\ receipts \in [Reader -> [Revision -> SUBSET Mark]]
          /\ rpc \in [Reader -> {"idle", "deliver", "read", "acknowledged", "insertRead",
                                 "insertAcknowledged"}]
          /\ read \in [Reader -> Display]
          /\ read[u].rev \in Revision /\ read[u].rev \in Nat
          /\ \A r \in Revision : r \in Nat
      BY <1>0, FieldTypes DEF TypeOK, Revision
    <3>1. CASE ListQuery(u)
      <4>1. receipts' = receipts /\ rpc'[u] = IF Available(u) THEN "deliver" ELSE "idle"
        BY <3>0, <3>1 DEF ListQuery, GoReader
      <4>2. Available(u) => read'[u].rev = ann.rev
        BY <3>0, <3>1 DEF ListQuery
      <4> QED
        BY <1>0, <2>0, <2>2, <4>1, <4>2
    <3>2. CASE MarkDelivered(u)
      <4>1. rpc[u] = "deliver" /\ rpc'[u] = "idle"
        BY <3>0, <3>2 DEF MarkDelivered, GoReader
      <4>2. \A r \in Revision : r # read[u].rev => receipts'[u][r] = receipts[u][r]
        BY <3>0, <3>2 DEF MarkDelivered
      <4> QED
        BY <1>0, <2>0, <2>2, <3>0, <4>1, <4>2
    <3>3. ASSUME NEW mark \in Asked, ReceiptCheck(u, mark)
          PROVE  receipts' = receipts /\ rpc'[u] \in {"idle", "read", "acknowledged"}
      BY <3>0, <3>3, ConstantsAssumption DEF ReceiptCheck, GoReader
    <3>4. ASSUME NEW mark \in Asked, ReceiptRevision(u, mark)
          PROVE  receipts' = receipts /\ (rpc'[u] = "idle" \/ read'[u].rev = ann.rev)
      BY <3>0, <3>4 DEF ReceiptRevision, GoReader, Display
    <3>5. CASE ReceiptInsert(u)
      <4>1. rpc[u] \in {"insertRead", "insertAcknowledged"} /\ rpc'[u] = "idle"
        BY <3>0, <3>5 DEF ReceiptInsert
      <4>2. \A r \in Revision : r # read[u].rev => receipts'[u][r] = receipts[u][r]
        BY <3>0, <3>5 DEF ReceiptInsert
      <4> QED
        BY <1>0, <2>0, <2>2, <3>0, <4>1, <4>2
    <3> QED
      BY <1>0, <2>0, <2>2, <3>1, <3>2, <3>3, <3>4, <3>5 DEF ReaderStep
  <2> QED
    BY <2>1, <2>2
<1> QED
  BY <1>3, <1>4, <1>5

-----------------------------------------------------------------------------
(* Notification. *)

LEMMA OtherEditors ==
  ASSUME TypeOK, NEW e \in Editor, EditorStep(e), NEW f \in Editor, f # e
  PROVE  pc'[f] = pc[f] /\ job'[f] = job[f]
<1>0. pc' = pc \/ \E to : pc' = [pc EXCEPT ![e] = to]
  BY DEF EditorStep, Create, FindRow, FindTargets, UpdateWrite, UpdateReread, PublishWrite,
     PublishReread, UnpublishWrite, DeleteWrite, Notify, EditorAbort, Carry, Go
<1>1. job' = job \/ \E j : job' = [job EXCEPT ![e] = j]
  BY DEF EditorStep, Create, FindRow, FindTargets, UpdateWrite, UpdateReread, PublishWrite,
     PublishReread, UnpublishWrite, DeleteWrite, Notify, EditorAbort, Carry
<1> QED
  BY <1>0, <1>1 DEF TypeOK

LEMMA CarryMoves ==
  ASSUME TypeOK, NEW e \in Editor, NEW from, NEW to, NEW j, Carry(e, from, to, j)
  PROVE  /\ pc[e] = from /\ pc'[e] = to
         /\ to = "idle" => job'[e] = NoJob
         /\ to # "idle" => job'[e] = j
BY DEF TypeOK, Carry, Go

Informed(u) == u \in told \/ u \in silent \/ \E e \in Editor : Covers(e, u)

(* Whoever was going to notify still is, unless a published row moved or   *)
(* it is the one that acts.                                                *)
LEMMA StillInformed ==
  ASSUME TypeOK, NEW e \in Editor, EditorStep(e), NEW u \in Reader,
         told \subseteq told', silent \subseteq silent',
         Published => /\ ann'.state = "published" /\ ann'.type = ann.type
                      /\ ann'.targets = ann.targets,
         Covers(e, u) => Informed(u)',
         Informed(u)
  PROVE  Informed(u)'
<1>1. CASE u \in told \/ u \in silent
  BY <1>1 DEF Informed
<1>2. ASSUME NEW f \in Editor, Covers(f, u), f # e
      PROVE  Informed(u)'
  <2>1. pc'[f] = pc[f] /\ job'[f] = job[f]
    BY <1>2, OtherEditors
  <2>2. Covers(f, u)'
    BY <1>2, <2>1 DEF Covers, Published, Audience
  <2> QED
    BY <2>2 DEF Informed
<1> QED
  BY <1>1, <1>2 DEF Informed

LEMMA ChangesEditorStep ==
  ASSUME IInv, NEW e \in Editor, EditorStep(e)
  PROVE  ChangesAreNotified'
<1> SUFFICES ASSUME NEW u \in Reader
             PROVE  Matches(Expected(u), u)' \/ Informed(u)'
  BY DEF ChangesAreNotified, Informed
<1>0. TypeOK /\ (Matches(Expected(u), u) \/ Informed(u))
  BY DEF IInv, ChangesAreNotified, Informed
<1>1. /\ UNCHANGED <<rpc, read, screen, shown>> /\ Expected(u)' = Expected(u)
  BY EditorsMoveTheRow DEF IInv, EditorsFrame, Expected
(* The row stays as it is, or is not published before or after. *)
<1>2. ASSUME ann' = ann \/ (~Published /\ ann'.state # "published"),
             told \subseteq told', silent \subseteq silent',
             Covers(e, u) => Informed(u)'
      PROVE  Matches(Expected(u), u)' \/ Informed(u)'
  <2>1. Matches(Expected(u), u) => Matches(Expected(u), u)'
    BY <1>1, <1>2 DEF Matches, Available, Published, Audience
  <2>2. Published => /\ ann'.state = "published" /\ ann'.type = ann.type
                     /\ ann'.targets = ann.targets
    BY <1>2 DEF Published
  <2>3. Informed(u) => Informed(u)'
    BY <1>0, <1>2, <2>2, StillInformed
  <2> QED
    BY <1>0, <2>1, <2>3
(* Everybody is going to be notified. *)
<1>3. ASSUME pc'[e] = "notify", job'[e].type = "all"
      PROVE  Informed(u)'
  BY <1>3 DEF Informed, Covers
<1>4. ASSUME pc[e] \in {"idle", "findTargets", "write", "publish", "unpublish", "delete"}
      PROVE  ~Covers(e, u)
  BY <1>4 DEF Covers
<1>5. ASSUME NEW body, NEW type, NEW targets, Create(e, body, type, targets)
      PROVE  Matches(Expected(u), u)' \/ Informed(u)'
  <2>1. ~Published /\ ann'.state # "published" /\ pc[e] = "idle"
    BY <1>5 DEF Create, Published
  <2> QED
    BY <1>2, <1>4, <1>5, <2>1 DEF Create
<1>6. ASSUME NEW to, FindRow(e, to)
      PROVE  Matches(Expected(u), u)' \/ Informed(u)'
  <2>1. pc[e] = "idle"
    BY <1>6 DEF FindRow, Carry, Go
  <2> QED
    BY <1>2, <1>4, <1>6, <2>1 DEF FindRow
<1>7. ASSUME FindTargets(e, "findTargets", "write")
      PROVE  Matches(Expected(u), u)' \/ Informed(u)'
  <2>1. pc[e] = "findTargets"
    BY <1>7 DEF FindTargets, Carry, Go
  <2> QED
    BY <1>2, <1>4, <1>7, <2>1 DEF FindTargets
<1>8. ASSUME FindTargets(e, "publishedTargets", "notify")
      PROVE  Matches(Expected(u), u)' \/ Informed(u)'
  <2>1. /\ pc[e] = "publishedTargets" /\ pc'[e] = "notify"
        /\ job'[e] = [job[e] EXCEPT !.targets = ann.targets]
        /\ ann' = ann
    BY <1>0, <1>8, CarryMoves DEF FindTargets
  <2>2. job'[e].type = job[e].type /\ job'[e].targets = ann.targets
    BY <1>0, <2>1 DEF TypeOK
  <2>3. Covers(e, u) => Covers(e, u)'
    BY <2>1, <2>2 DEF Covers
  <2> QED
    BY <1>2, <1>8, <2>3 DEF FindTargets, Informed
<1>9. ASSUME NEW body, NEW type, NEW targets, UpdateWrite(e, body, type, targets)
      PROVE  Matches(Expected(u), u)' \/ Informed(u)'
  <2>1. pc[e] = "write" /\ told' = told /\ silent' = silent
    BY <1>9 DEF UpdateWrite, Carry, Go
  <2>2. CASE Deleted
    BY <1>2, <1>4, <1>9, <2>1, <2>2 DEF UpdateWrite
  <2>3. CASE ~Deleted
    <3>1. pc'[e] = "reread" /\ ann'.state = ann.state
      <4>1. Carry(e, "write", "reread", NoJob)
        BY <1>9, <2>3 DEF UpdateWrite
      <4>2. ann'.state = ann.state
        BY <1>0, <1>9, <2>3 DEF UpdateWrite, TypeOK
      <4> QED
        BY <1>0, <4>1, <4>2, CarryMoves
    <3>2. CASE Published
      BY <3>1, <3>2 DEF Informed, Covers, Published
    <3>3. CASE ~Published
      BY <1>2, <1>4, <2>1, <3>1, <3>3 DEF Published
    <3> QED
      BY <3>2, <3>3
  <2> QED
    BY <2>2, <2>3
<1>10. ASSUME UpdateReread(e)
       PROVE  Matches(Expected(u), u)' \/ Informed(u)'
  <2>1. Carry(e, "reread", IF Published THEN "notify" ELSE "idle", NoJob)
        /\ UNCHANGED <<ann, told, silent>>
    BY <1>10 DEF UpdateReread
  <2>2. pc[e] = "reread" /\ (Published => pc'[e] = "notify" /\ job'[e] = NoJob)
    BY <1>0, <2>1, CarryMoves
  <2>3. Covers(e, u) => Informed(u)'
    <3>1. Covers(e, u) => Published
      BY <2>2 DEF Covers
    <3> QED
      BY <1>3, <2>2, <3>1 DEF NoJob
  <2> QED
    BY <1>2, <2>1, <2>3
<1>11. ASSUME PublishWrite(e)
       PROVE  Matches(Expected(u), u)' \/ Informed(u)'
  <2>1. pc[e] = "publish" /\ told' = told /\ silent' = silent
    BY <1>11 DEF PublishWrite, Go
  <2>2. CASE Deleted
    BY <1>2, <1>4, <1>11, <2>1, <2>2 DEF PublishWrite
  <2>3. CASE ~Deleted
    <3>1. /\ ann'.state = "published" /\ ann'.type = ann.type /\ ann'.targets = ann.targets
          /\ pc'[e] = "published"
      BY <1>0, <1>11, <2>3 DEF PublishWrite, Go, TypeOK
    <3>2. Audience' = Audience
      BY <3>1 DEF Audience
    <3>3. CASE u \in Audience
      BY <3>1, <3>2, <3>3 DEF Informed, Covers, Published
    <3>4. CASE u \notin Audience
      <4>1. Matches(Expected(u), u) => Matches(Expected(u), u)'
        BY <1>1, <3>2, <3>4 DEF Matches, Available
      <4>2. Informed(u) => Informed(u)'
        BY <1>0, <1>4, <2>1, <3>1, StillInformed
      <4> QED
        BY <1>0, <4>1, <4>2
    <3> QED
      BY <3>3, <3>4
  <2> QED
    BY <2>2, <2>3
<1>12. ASSUME PublishReread(e)
       PROVE  Matches(Expected(u), u)' \/ Informed(u)'
  <2>1. Carry(e, "published", IF Deleted THEN "idle" ELSE "publishedTargets",
              [NoJob EXCEPT !.type = ann.type])
        /\ UNCHANGED <<ann, told, silent>>
    BY <1>12 DEF PublishReread
  <2>2. /\ pc[e] = "published"
        /\ Published => pc'[e] = "publishedTargets" /\ job'[e] = [NoJob EXCEPT !.type = ann.type]
    BY <1>0, <2>1, CarryMoves DEF Published, Deleted
  <2>3. [NoJob EXCEPT !.type = ann.type].type = ann.type
    BY DEF NoJob
  <2>4. Covers(e, u) => Covers(e, u)'
    BY <2>1, <2>2, <2>3 DEF Covers, Published, Audience
  <2> QED
    BY <1>2, <2>1, <2>4 DEF Informed
<1>13. ASSUME UnpublishWrite(e)
       PROVE  Matches(Expected(u), u)' \/ Informed(u)'
  <2>1. pc[e] = "unpublish" /\ pc'[e] = "notify" /\ job' = job
    BY <1>0, <1>13 DEF UnpublishWrite, Go, TypeOK
  <2>2. job[e].type = "all"
    BY <2>1 DEF IInv, WithdrawalsAreBroadcast
  <2> QED
    BY <1>3, <2>1, <2>2
<1>14. ASSUME DeleteWrite(e)
       PROVE  Matches(Expected(u), u)' \/ Informed(u)'
  <2>1. /\ Carry(e, "delete", IF job[e].published THEN "notify" ELSE "idle", NoJob)
        /\ silent' = IF Published /\ ~job[e].published THEN silent \cup Reader ELSE silent
        /\ told' = told
    BY <1>14 DEF DeleteWrite
  <2>2. ann'.state = "deleted"
    BY <1>0, <1>14 DEF DeleteWrite, TypeOK
  <2>3. CASE job[e].published
    <3>1. pc'[e] = "notify" /\ job'[e] = NoJob
      BY <1>0, <2>1, <2>3, CarryMoves
    <3> QED
      BY <1>3, <3>1 DEF NoJob
  <2>4. CASE ~job[e].published /\ Published
    BY <2>1, <2>4 DEF Informed
  <2>5. CASE ~job[e].published /\ ~Published
    <3>1. pc[e] = "delete"
      BY <2>1 DEF Carry, Go
    <3> QED
      BY <1>2, <1>4, <2>1, <2>2, <2>5, <3>1
  <2> QED
    BY <2>3, <2>4, <2>5
<1>15. ASSUME Notify(e)
       PROVE  Matches(Expected(u), u)' \/ Informed(u)'
  <2>1. /\ pc[e] = "notify"
        /\ told' = told \cup (IF job[e].type = "all" THEN Reader ELSE job[e].targets \cap Reader)
        /\ UNCHANGED <<ann, silent>>
    BY <1>15 DEF Notify, Carry, Go
  <2>2. Covers(e, u) => u \in told'
    BY <2>1 DEF Covers
  <2> QED
    BY <1>2, <2>1, <2>2 DEF Informed
<1>16. ASSUME EditorAbort(e)
       PROVE  Matches(Expected(u), u)' \/ Informed(u)'
  <2>1. /\ silent' = IF pc[e] \in {"reread", "published", "publishedTargets", "notify"}
                     THEN silent \cup Reader ELSE silent
        /\ UNCHANGED <<ann, told>>
    BY <1>16 DEF EditorAbort
  <2>2. Covers(e, u) => u \in silent'
    BY <2>1 DEF Covers
  <2> QED
    BY <1>2, <2>1, <2>2 DEF Informed
<1> QED
  BY <1>5, <1>6, <1>7, <1>8, <1>9, <1>10, <1>11, <1>12, <1>13, <1>14, <1>15, <1>16 DEF EditorStep

LEMMA WithdrawalsStep ==
  ASSUME IInv, NEW e \in Editor, EditorStep(e)
  PROVE  WithdrawalsAreBroadcast'
<1> SUFFICES ASSUME NEW f \in Editor, pc'[f] = "unpublish"
             PROVE  job'[f].type = "all"
  BY DEF WithdrawalsAreBroadcast
<1>0. TypeOK /\ (pc[f] = "unpublish" => job[f].type = "all")
  BY DEF IInv, WithdrawalsAreBroadcast
<1>1. CASE f # e
  BY <1>0, <1>1, OtherEditors
<1>2. CASE f = e
  <2>1. CASE UNCHANGED <<pc, job>>
    BY <1>0, <2>1
  <2>2. CASE FindRow(e, "unpublish")
    <3>1. Carry(e, "idle", "unpublish", NoJob)
      BY <2>2 DEF FindRow
    <3>2. job'[e] = NoJob
      BY <1>0, <3>1, CarryMoves
    <3> QED
      BY <1>2, <3>2 DEF NoJob
  <2>3. CASE \E to \in {"findTargets", "write", "reread", "publish", "published",
                        "publishedTargets", "delete", "notify", "idle"} : pc'[e] = to
    BY <1>2, <2>3
  <2>4. UNCHANGED <<pc, job>> \/ FindRow(e, "unpublish")
          \/ \E to \in {"findTargets", "write", "reread", "publish", "published",
                        "publishedTargets", "delete", "notify", "idle"} :
               pc' = [pc EXCEPT ![e] = to]
    BY DEF EditorStep, Create, FindRow, FindTargets, UpdateWrite, UpdateReread, PublishWrite,
       PublishReread, UnpublishWrite, DeleteWrite, Notify, EditorAbort, Carry, Go
  <2> QED
    BY <1>0, <2>1, <2>2, <2>3, <2>4 DEF TypeOK
<1> QED
  BY <1>1, <1>2

LEMMA ChangesReaderStep ==
  ASSUME IInv, NEW u \in Reader, ReaderStep(u)
  PROVE  ChangesAreNotified' /\ WithdrawalsAreBroadcast'
<1>0. /\ TypeOK /\ ann' = ann /\ pc' = pc /\ job' = job
      /\ rpc \in [Reader -> {"idle", "deliver", "read", "acknowledged", "insertRead",
                             "insertAcknowledged"}]
      /\ read \in [Reader -> Display] /\ screen \in [Reader -> Display]
  BY ReaderTypeStep DEF editorVars, IInv, TypeOK
<1>1. \A e \in Editor, v \in Reader : Covers(e, v)' = Covers(e, v)
  BY <1>0 DEF Covers, Published, Audience
<1>2. \A d : \A v \in Reader : Matches(d, v)' = Matches(d, v)
  BY <1>0 DEF Matches, Available, Published, Audience
<1>3. \A v \in Reader : Matches(Expected(v), v) \/ Informed(v)
  BY DEF IInv, ChangesAreNotified, Informed
<1>4. ASSUME NEW v \in Reader, v # u
      PROVE  Matches(Expected(v), v)' \/ Informed(v)'
  <2>1. /\ rpc'[v] = rpc[v] /\ read'[v] = read[v] /\ screen'[v] = screen[v]
        /\ v \in told' <=> v \in told
        /\ v \in silent' <=> v \in silent
    BY <1>0, <1>4, SeenByOthers
  <2>2. Expected(v)' = Expected(v)
    BY <2>1 DEF Expected
  <2>3. Matches(Expected(v), v)' = Matches(Expected(v), v)
    BY <1>0, <2>2 DEF Matches, Available, Published, Audience
  <2>4. Informed(v) => Informed(v)'
    BY <1>1, <2>1 DEF Informed
  <2> QED
    BY <1>3, <2>3, <2>4
<1>5. ASSUME Expected(u)' = Expected(u), u \in told => u \in told', u \in silent => u \in silent'
      PROVE  Matches(Expected(u), u)' \/ Informed(u)'
  <2>1. Matches(Expected(u), u)' = Matches(Expected(u), u)
    BY <1>0, <1>5 DEF Matches, Available, Published, Audience
  <2>2. Informed(u) => Informed(u)'
    BY <1>1, <1>5 DEF Informed
  <2> QED
    BY <1>3, <2>1, <2>2
<1>6. ASSUME ListQuery(u)
      PROVE  Matches(Expected(u), u)' \/ Informed(u)'
  <2>1. CASE Available(u)
    <3>1. /\ rpc' = [rpc EXCEPT ![u] = "deliver"]
          /\ read' = [read EXCEPT ![u] = [rev |-> ann.rev, body |-> ann.body]]
      BY <1>6, <2>1 DEF ListQuery, GoReader
    <3>2. Expected(u)' = [rev |-> ann.rev, body |-> ann.body]
      BY <1>0, <3>1 DEF Expected
    <3> QED
      BY <1>0, <2>1, <3>2 DEF Matches, Available, Published, Audience
  <2>2. CASE ~Available(u)
    <3>1. /\ rpc' = [rpc EXCEPT ![u] = "idle"]
          /\ screen' = [screen EXCEPT ![u] = Nothing]
      BY <1>6, <2>2 DEF ListQuery, GoReader
    <3>2. Expected(u)' = Nothing
      BY <1>0, <3>1 DEF Expected
    <3>3. ~Available(u)'
      BY <1>0, <2>2 DEF Available, Published, Audience
    <3> QED
      BY <3>2, <3>3 DEF Matches, Nothing
  <2> QED
    BY <2>1, <2>2
<1>7. ASSUME MarkDelivered(u)
      PROVE  Matches(Expected(u), u)' \/ Informed(u)'
  <2>1. rpc[u] = "deliver" /\ rpc'[u] = "idle"
    BY <1>0, <1>7 DEF MarkDelivered, GoReader
  <2>2. CASE u \in told'
    BY <2>2 DEF Informed
  <2>3. CASE u \notin told'
    <3>1. screen' = [screen EXCEPT ![u] = read[u]] /\ told' = told /\ silent' = silent
      BY <1>7, <2>3 DEF MarkDelivered
    <3>2. screen'[u] = read[u]
      BY <1>0, <3>1
    <3>3. Expected(u)' = Expected(u)
      BY <2>1, <3>2 DEF Expected
    <3> QED
      BY <1>5, <3>1, <3>3
  <2> QED
    BY <2>2, <2>3
<1>8. ASSUME NEW mark \in Asked, ReceiptCheck(u, mark) \/ ReceiptRevision(u, mark)
      PROVE  Matches(Expected(u), u)' \/ Informed(u)'
  <2>1. mark # "deliver"
    BY ConstantsAssumption
  <2>2. rpc[u] # "deliver" /\ rpc'[u] # "deliver"
    <3>1. CASE ReceiptCheck(u, mark)
      <4>1. /\ rpc[u] = "idle"
            /\ rpc' = [rpc EXCEPT ![u] = IF Available(u) THEN mark ELSE "idle"]
        BY <3>1 DEF ReceiptCheck, GoReader
      <4>2. rpc'[u] = IF Available(u) THEN mark ELSE "idle"
        BY <1>0, <4>1
      <4> QED
        BY <2>1, <4>1, <4>2
    <3>2. CASE ReceiptRevision(u, mark)
      <4> DEFINE to == IF Deleted THEN "idle"
                       ELSE IF mark = "read" THEN "insertRead" ELSE "insertAcknowledged"
      <4>1. rpc[u] = mark /\ rpc' = [rpc EXCEPT ![u] = to]
        BY <3>2 DEF ReceiptRevision, GoReader
      <4>2. to # "deliver"
        OBVIOUS
      <4> HIDE DEF to
      <4>3. rpc'[u] = to
        BY <1>0, <4>1
      <4> QED
        BY <2>1, <4>1, <4>2, <4>3
    <3> QED
      BY <1>8, <3>1, <3>2
  <2>3. UNCHANGED <<screen, told, silent>>
    BY <1>8 DEF ReceiptCheck, ReceiptRevision
  <2>4. Expected(u)' = Expected(u)
    BY <2>2, <2>3 DEF Expected
  <2> QED
    BY <1>5, <2>3, <2>4
<1>9. ASSUME ReceiptInsert(u)
      PROVE  Matches(Expected(u), u)' \/ Informed(u)'
  <2>1. rpc[u] # "deliver" /\ rpc'[u] = "idle" /\ UNCHANGED <<screen, told, silent>>
    BY <1>0, <1>9 DEF ReceiptInsert
  <2>2. Expected(u)' = Expected(u)
    BY <2>1 DEF Expected
  <2> QED
    BY <1>5, <2>1, <2>2
<1>10. \A v \in Reader : Matches(Expected(v), v)' \/ Informed(v)'
  BY <1>4, <1>6, <1>7, <1>8, <1>9 DEF ReaderStep
<1>11. ChangesAreNotified'
  BY <1>10 DEF ChangesAreNotified, Informed
<1>12. WithdrawalsAreBroadcast'
  BY <1>0 DEF IInv, WithdrawalsAreBroadcast
<1> QED
  BY <1>11, <1>12

-----------------------------------------------------------------------------
(* The invariant and the theorems. *)

LEMMA InvariantStep == IInv /\ [Next]_vars => IInv'
<1> SUFFICES ASSUME IInv, [Next]_vars PROVE IInv'
  OBVIOUS
<1>1. TypeOK'
  BY TypeStep DEF IInv
<1>2. ASSUME NEW e \in Editor, EditorStep(e) PROVE IInv'
  <2>1. NotYetCreated'
    BY <1>2, EditorsMoveTheRow DEF IInv
  <2> QED
    BY <1>1, <1>2, <2>1, RevisionsEditorStep, ChangesEditorStep, WithdrawalsStep DEF IInv
<1>3. ASSUME NEW u \in Reader, ReaderStep(u) PROVE IInv'
  <2>1. NotYetCreated'
    BY <1>3, ReaderTypeStep DEF IInv, NotYetCreated, editorVars
  <2> QED
    BY <1>1, <1>3, <2>1, RevisionsReaderStep, ChangesReaderStep DEF IInv
<1>4. CASE UNCHANGED vars
  <2>1. NotYetCreated' /\ SeenIsOfTheRow' /\ SeenAgrees' /\ ReceiptsAreOfTheRow'
    BY <1>4 DEF vars, IInv, NotYetCreated, SeenIsOfTheRow, SeenAgrees, IsOf, Seen, ReceiptsAreOfTheRow
  <2>2. ChangesAreNotified' /\ WithdrawalsAreBroadcast'
    BY <1>4 DEF vars, IInv, ChangesAreNotified, Matches, Expected, Covers, Available, Published,
       Audience, WithdrawalsAreBroadcast
  <2> QED
    BY <1>1, <2>1, <2>2 DEF IInv
<1> QED
  BY <1>2, <1>3, <1>4 DEF Next

THEOREM AnnouncementsInvariant == Spec => []IInv
BY InitInvariant, InvariantStep, PTL DEF Spec

(* Every variable keeps its type, and an announcement to everybody has no  *)
(* rows of targets: Create and Update replace them together with the row.  *)
THEOREM AnnouncementsTypeCorrect == Spec => []TypeOK
<1>1. IInv => TypeOK
  BY DEF IInv
<1> QED
  BY <1>1, AnnouncementsInvariant, PTL

(* Two clients that were shown the same revision were shown the same       *)
(* content, however edits, withdrawals and publications interleave with    *)
(* the lists that the clients fetch.                                       *)
THEOREM RevisionsFixContent == Spec => []RevisionFixesContent
<1>1. IInv => RevisionFixesContent
  BY DEF IInv, SeenAgrees, Seen, RevisionFixesContent
<1> QED
  BY <1>1, AnnouncementsInvariant, PTL

(* No receipt exists for a revision before Publish or Update makes it, not *)
(* even one that a request under way had looked up an earlier revision for.*)
THEOREM PublishedAnew == Spec => NewRevisionsAreUnread
<1>1. IInv /\ [Next]_vars =>
        [ann'.rev # ann.rev => \A u \in Reader : receipts'[u][ann'.rev] = {}]_vars
  <2> SUFFICES ASSUME IInv, [Next]_vars, ann'.rev # ann.rev, NEW u \in Reader
               PROVE  receipts'[u][ann'.rev] = {}
    OBVIOUS
  <2>0. TypeOK /\ NotYetCreated
    BY DEF IInv
  <2>1. PICK e \in Editor : EditorStep(e)
    BY <2>0, ReaderTypeStep DEF Next, vars, editorVars
  <2>2. EditorsFrame
    BY <2>0, <2>1, EditorsMoveTheRow
  <2>3. ann.rev \in Nat /\ ann'.rev = ann.rev + 1 /\ ann'.rev \in Revision
    <3>1. TypeOK'
      BY <2>0, TypeStep
    <3> QED
      BY <2>0, <2>2, <3>1, FieldTypes DEF EditorsFrame, RowMoves, TypeOK
  <2>4. receipts[u][ann'.rev] = {}
    BY <2>3 DEF IInv, ReceiptsAreOfTheRow
  <2> QED
    BY <2>2, <2>3, <2>4 DEF EditorsFrame
<1> QED
  BY <1>1, AnnouncementsInvariant, PTL DEF Spec, NewRevisionsAreUnread

(* A client whose list is out of date has an event under way, is fetching, *)
(* or some request that changed the announcement has yet to notify; unless *)
(* that request failed, or Delete had read the row as a draft.             *)
THEOREM StaleListsAreCovered == Spec => []StaleListsAreNotified
<1>1. IInv => StaleListsAreNotified
  BY DEF IInv, ChangesAreNotified, StaleListsAreNotified, Covers, Matches, Expected, UpToDate
<1> QED
  BY <1>1, AnnouncementsInvariant, PTL

=============================================================================
