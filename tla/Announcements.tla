---------------------------- MODULE Announcements ---------------------------
(***************************************************************************)
(* One announcement: drafts, publication, revisions, targets and receipts  *)
(* (handler/announcement.go, service/announcement.go,                      *)
(* repository/announcement.go).  A statement or a transaction is atomic;   *)
(* administrators' and users' requests interleave between them.  Ids are   *)
(* never used again, so a deleted announcement stays deleted.  Clients     *)
(* list all of their announcements at once; what holds of each one holds   *)
(* of the list.                                                            *)
(***************************************************************************)
EXTENDS Naturals

CONSTANTS
  User,     \* accounts
  Reader,   \* the accounts whose clients are running
  Body,     \* what title, content and the rest of the configuration say
  Editor,   \* slots for administrator requests in flight
  None,     \* a field a request leaves out; nothing displayed
  Asked,    \* the receipts clients ask for: reading, acknowledging, or both
  MaxRev    \* bound: revisions

ASSUME ConstantsAssumption ==
  /\ Reader \subseteq User
  /\ Body # {}
  /\ None \notin Body
  /\ Asked \subseteq {"read", "acknowledged"}
  /\ MaxRev \in Nat

VARIABLES
  ann,       \* the row of announcements and its rows of announcement_targets
  receipts,  \* announcement_receipts, by user and revision
  pc, job,   \* editors: the next statement, and what was read before
  rpc, read, \* readers: the same
  screen,    \* what each client displays: a revision (0 for none) and body
  shown,     \* history: everything each client has displayed
  told,      \* clients with an announcement event under way
  silent     \* history: clients that some change was never going to reach

editorVars == <<ann, pc, job>>
readerVars == <<receipts, rpc, read, screen, shown>>
vars == <<ann, receipts, pc, job, rpc, read, screen, shown, told, silent>>

Revision == 0 .. MaxRev
Mark == {"delivered", "read", "acknowledged"}
Display == [rev : Revision, body : Body \cup {None}]

Published == ann.state = "published"
Deleted == ann.state = "deleted"
Exists == ann.state \in {"draft", "published"}
Audience == IF ann.type = "all" THEN User ELSE ann.targets

(* The WHERE clauses of ListForUser and AvailableForUser.  The platform,   *)
(* version and time filters are taken to hold: what they hide changes      *)
(* without any request, and only the poll of the client finds out.         *)
Available(u) == Published /\ u \in Audience

Nothing == [rev |-> 0, body |-> None]
NoJob == [body |-> None, type |-> "all", targets |-> {}, published |-> FALSE]

(* Nobody has created the announcement yet. *)
Init ==
  /\ ann = [state |-> "absent", rev |-> 0, body |-> None, type |-> "all", targets |-> {}]
  /\ receipts = [u \in Reader |-> [r \in Revision |-> {}]]
  /\ pc = [e \in Editor |-> "idle"]
  /\ job = [e \in Editor |-> NoJob]
  /\ rpc = [u \in Reader |-> "idle"]
  /\ read = [u \in Reader |-> Nothing]
  /\ screen = [u \in Reader |-> Nothing]
  /\ shown = [u \in Reader |-> {}]
  /\ told = {}
  /\ silent = {}

-----------------------------------------------------------------------------
(* Administrators. *)

Go(e, from, to) == pc[e] = from /\ pc' = [pc EXCEPT ![e] = to]

(* The request goes on with j read, or ends and forgets it. *)
Carry(e, from, to, j) ==
  /\ Go(e, from, to)
  /\ job' = [job EXCEPT ![e] = IF to = "idle" THEN NoJob ELSE j]

(* FindByID at the start of each operation: one statement for the row.     *)
FindRow(e, to) ==
  /\ Exists
  /\ Carry(e, "idle", to,
           CASE to = "findTargets" -> [NoJob EXCEPT !.body = ann.body, !.type = ann.type]
             [] to = "delete" -> [NoJob EXCEPT !.published = Published]
             [] OTHER -> NoJob)
  /\ UNCHANGED <<ann, readerVars, told, silent>>

(* FindByID's second statement, targetUserIDs. *)
FindTargets(e, from, to) ==
  /\ Carry(e, from, to, [job[e] EXCEPT !.targets = ann.targets])
  /\ UNCHANGED <<ann, readerVars, told, silent>>

(* What validateAnnouncementConfig lets through: it looks at the request,  *)
(* not at the configuration the request will be merged into.               *)
ValidRequest(type, targets) == type = "users" => targets \notin {None, {}}

(* Mutant of EditedRevision: an edit keeps the revision. *)
SameRevision == ann.rev

EditedRevision == IF Published THEN ann.rev + 1 ELSE ann.rev

(* Mutant of StoredTargets: the rows stay when the audience widens. *)
KeepTargets(type, targets) == targets

(* replaceAnnouncementTargets. *)
StoredTargets(type, targets) == IF type = "users" THEN targets ELSE {}

(* AnnouncementRepo.Create: the row and its targets, in one transaction.   *)
(* The handler fills in what the request leaves out, so every field is     *)
(* there.  Nobody is notified of a draft.                                  *)
Create(e, body, type, targets) ==
  /\ ann.state = "absent"
  /\ pc[e] = "idle"
  /\ ValidRequest(type, targets)
  /\ ann' = [state |-> "draft", rev |-> 0, body |-> body, type |-> type,
             targets |-> StoredTargets(type, targets)]
  /\ UNCHANGED <<pc, job, readerVars, told, silent>>

(* AnnouncementRepo.Update: the row read before, with the fields of the    *)
(* request over it, replaces the row and the targets in one transaction.   *)
(* On a deleted row it changes nothing, and nothing is read back.          *)
UpdateWrite(e, body, type, targets) ==
  LET old == job[e]
      newType == IF type = None THEN old.type ELSE type
      newTargets == IF targets = None THEN old.targets ELSE targets
  IN
  /\ ValidRequest(type, targets)
  /\ Published => ann.rev < MaxRev
  /\ \/ /\ Deleted
        /\ Carry(e, "write", "idle", NoJob)
        /\ UNCHANGED ann
     \/ /\ ~Deleted
        /\ Carry(e, "write", "reread", NoJob)
        /\ ann' = [ann EXCEPT !.body = IF body = None THEN old.body ELSE body,
                              !.rev = EditedRevision,
                              !.type = newType,
                              !.targets = StoredTargets(newType, newTargets)]
  /\ UNCHANGED <<readerVars, told, silent>>

(* The second FindByID of Update: a published announcement is broadcast.   *)
UpdateReread(e) ==
  /\ Carry(e, "reread", IF Published THEN "notify" ELSE "idle", NoJob)
  /\ UNCHANGED <<ann, readerVars, told, silent>>

(* AnnouncementRepo.Publish, also of what is already published. *)
PublishWrite(e) ==
  /\ ann.rev < MaxRev
  /\ \/ /\ Deleted
        /\ Go(e, "publish", "idle")
        /\ UNCHANGED ann
     \/ /\ ~Deleted
        /\ Go(e, "publish", "published")
        /\ ann' = [ann EXCEPT !.state = "published", !.rev = @ + 1]
  /\ UNCHANGED <<job, readerVars, told, silent>>

(* Publish reads the row again to know whom to notify. *)
PublishReread(e) ==
  /\ Carry(e, "published", IF Deleted THEN "idle" ELSE "publishedTargets",
           [NoJob EXCEPT !.type = ann.type])
  /\ UNCHANGED <<ann, readerVars, told, silent>>

(* Mutant of UnpublishWrite: a withdrawn announcement is a new draft. *)
ForgetRevision(e) ==
  /\ Go(e, "unpublish", "notify")
  /\ ann' = IF Deleted THEN ann ELSE [ann EXCEPT !.state = "draft", !.rev = 0]
  /\ UNCHANGED <<job, readerVars, told, silent>>

(* Mutant of UnpublishWrite: nobody is notified. *)
UnpublishQuietly(e) ==
  /\ Go(e, "unpublish", "idle")
  /\ ann' = IF Deleted THEN ann ELSE [ann EXCEPT !.state = "draft"]
  /\ UNCHANGED <<job, readerVars, told, silent>>

UnpublishWrite(e) ==
  /\ Go(e, "unpublish", "notify")
  /\ ann' = IF Deleted THEN ann ELSE [ann EXCEPT !.state = "draft"]
  /\ UNCHANGED <<job, readerVars, told, silent>>

(* Delete broadcasts if the row read at the start was published.  Receipts *)
(* go with the row only where foreign keys are enforced, which is a        *)
(* setting of the connection: 001_init.sql makes it when it runs, and the  *)
(* options that Open appends to the path are not those of this driver.     *)
DeleteWrite(e) ==
  /\ Carry(e, "delete", IF job[e].published THEN "notify" ELSE "idle", NoJob)
  /\ ann' = [ann EXCEPT !.state = "deleted"]
  /\ receipts' \in {receipts, [u \in Reader |-> [r \in Revision |-> {}]]}
  /\ silent' = IF Published /\ ~job[e].published THEN silent \cup Reader ELSE silent
  /\ UNCHANGED <<rpc, read, screen, shown, told>>

(* notify, or Broadcast. *)
Notify(e) ==
  /\ Carry(e, "notify", "idle", NoJob)
  /\ told' = told \cup (IF job[e].type = "all" THEN Reader
                                                ELSE job[e].targets \cap Reader)
  /\ UNCHANGED <<ann, readerVars, silent>>

(* A statement fails or the process stops; whoever had committed a change  *)
(* does not notify.                                                        *)
EditorAbort(e) ==
  /\ pc[e] # "idle"
  /\ Carry(e, pc[e], "idle", NoJob)
  /\ silent' = IF pc[e] \in {"reread", "published", "publishedTargets", "notify"}
               THEN silent \cup Reader ELSE silent
  /\ UNCHANGED <<ann, readerVars, told>>

-----------------------------------------------------------------------------
(* Users. *)

GoReader(u, from, to) == rpc[u] = from /\ rpc' = [rpc EXCEPT ![u] = to]

(* ListForUser: the query.  The client asks because of an event or a poll. *)
ListQuery(u) ==
  /\ GoReader(u, "idle", IF Available(u) THEN "deliver" ELSE "idle")
  /\ told' = told \ {u}
  /\ IF Available(u)
     THEN /\ read' = [read EXCEPT ![u] = [rev |-> ann.rev, body |-> ann.body]]
          /\ UNCHANGED screen
     ELSE /\ screen' = [screen EXCEPT ![u] = Nothing]
          /\ UNCHANGED read
  /\ silent' = silent \ {u}
  /\ UNCHANGED <<editorVars, receipts, shown>>

(* ListForUser: markDelivered, then the response.  Where foreign keys are  *)
(* enforced an announcement deleted in between is an error, and a response *)
(* may get lost: the client asks again.                                    *)
MarkDelivered(u) ==
  /\ GoReader(u, "deliver", "idle")
  /\ read' = [read EXCEPT ![u] = Nothing]
  /\ \/ /\ receipts' = [receipts EXCEPT ![u][read[u].rev] = @ \cup {"delivered"}]
        /\ \/ /\ screen' = [screen EXCEPT ![u] = read[u]]
              /\ shown' = [shown EXCEPT ![u] = @ \cup {read[u]}]
              /\ UNCHANGED told
           \/ /\ told' = told \cup {u}
              /\ UNCHANGED <<screen, shown>>
     \/ /\ Deleted
        /\ told' = told \cup {u}
        /\ UNCHANGED <<receipts, screen, shown>>
  /\ UNCHANGED <<editorVars, silent>>

(* MarkRead and Acknowledge of what the client displays: AvailableForUser, *)
(* which refuses an announcement that is no longer there for the user.     *)
ReceiptCheck(u, mark) ==
  /\ screen[u].rev # 0
  /\ GoReader(u, "idle", IF Available(u) THEN mark ELSE "idle")
  /\ UNCHANGED <<editorVars, receipts, read, screen, shown, told, silent>>

(* markReceipt reads the revision the receipt will be for. *)
ReceiptRevision(u, mark) ==
  /\ GoReader(u, mark, IF Deleted THEN "idle"
                       ELSE IF mark = "read" THEN "insertRead" ELSE "insertAcknowledged")
  /\ read' = IF Deleted THEN read ELSE [read EXCEPT ![u].rev = ann.rev]
  /\ UNCHANGED <<editorVars, receipts, screen, shown, told, silent>>

ReceiptInsert(u) ==
  /\ rpc[u] \in {"insertRead", "insertAcknowledged"}
  /\ rpc' = [rpc EXCEPT ![u] = "idle"]
  /\ read' = [read EXCEPT ![u] = Nothing]
  /\ \/ receipts' = [receipts EXCEPT ![u][read[u].rev] =
                       IF rpc[u] = "insertRead" THEN @ \cup {"delivered", "read"} ELSE Mark]
     \/ Deleted /\ UNCHANGED receipts
  /\ UNCHANGED <<editorVars, screen, shown, told, silent>>

-----------------------------------------------------------------------------

EditorStep(e) ==
  \/ \E body \in Body, type \in {"all", "users"}, targets \in SUBSET User :
       Create(e, body, type, targets)
  \/ \E to \in {"findTargets", "publish", "unpublish", "delete"} : FindRow(e, to)
  \/ FindTargets(e, "findTargets", "write")
  \/ \E body \in Body \cup {None}, type \in {None, "all", "users"},
        targets \in {None} \cup SUBSET User : UpdateWrite(e, body, type, targets)
  \/ UpdateReread(e)
  \/ PublishWrite(e)
  \/ PublishReread(e)
  \/ FindTargets(e, "publishedTargets", "notify")
  \/ UnpublishWrite(e)
  \/ DeleteWrite(e)
  \/ Notify(e)
  \/ EditorAbort(e)

ReaderStep(u) ==
  \/ ListQuery(u)
  \/ MarkDelivered(u)
  \/ \E mark \in Asked : ReceiptCheck(u, mark) \/ ReceiptRevision(u, mark)
  \/ ReceiptInsert(u)

Next ==
  \/ \E e \in Editor : EditorStep(e)
  \/ \E u \in Reader : ReaderStep(u)

Spec == Init /\ [][Next]_vars

-----------------------------------------------------------------------------
(* Properties. *)

(* Every variable keeps its type; the targets table of an announcement to  *)
(* everybody is empty.                                                     *)
TypeOK ==
  /\ ann \in [state : {"absent", "draft", "published", "deleted"}, rev : Revision,
              body : Body \cup {None}, type : {"all", "users"}, targets : SUBSET User]
  /\ ann.type = "all" => ann.targets = {}
  /\ receipts \in [Reader -> [Revision -> SUBSET Mark]]
  /\ pc \in [Editor -> {"idle", "findTargets", "write", "reread", "publish", "published",
                        "publishedTargets", "unpublish", "delete", "notify"}]
  /\ job \in [Editor -> [body : Body \cup {None}, type : {"all", "users"},
                         targets : SUBSET User, published : BOOLEAN]]
  /\ rpc \in [Reader -> {"idle", "deliver", "read", "acknowledged", "insertRead",
                         "insertAcknowledged"}]
  /\ read \in [Reader -> Display]
  /\ screen \in [Reader -> Display]
  /\ shown \in [Reader -> SUBSET Display]
  /\ told \subseteq Reader
  /\ silent \subseteq Reader

(* A revision number identifies what users saw: no two displays of one     *)
(* revision differ, whatever was edited, withdrawn and published again in  *)
(* between.  Receipts are kept per revision and mean nothing otherwise.    *)
RevisionFixesContent ==
  \A u, v \in Reader : \A d \in shown[u], f \in shown[v] : d.rev = f.rev => d.body = f.body

(* announcement-delivery.md: a revision published later is unread again.   *)
(* No receipt exists beforehand for a revision that is yet to come, not    *)
(* even one written late by a request that checked an earlier revision.    *)
NewRevisionsAreUnread ==
  [][ann'.rev # ann.rev => \A u \in Reader : receipts'[u][ann'.rev] = {}]_vars

(* What the client of u would be answered now. *)
UpToDate(u) ==
  IF Available(u) THEN screen[u] = [rev |-> ann.rev, body |-> ann.body]
                  ELSE screen[u].rev = 0

(* A client whose list is out of date has an event under way or is         *)
(* fetching, or a request that changed the announcement has yet to notify. *)
(* The exceptions: that request failed, or Delete had read the row while   *)
(* it was a draft.                                                         *)
StaleListsAreNotified ==
  \A u \in Reader :
    UpToDate(u) \/ u \in told \/ u \in silent \/ rpc[u] = "deliver"
      \/ \E e \in Editor : pc[e] \in {"reread", "published", "publishedTargets", "notify"}

(* announcement-delivery.md: receipts are kept per revision, so that       *)
(* having read an old revision never skips a new one.  Whoever is on       *)
(* record as having acknowledged a revision should have been shown it.     *)
AcknowledgedRevisionWasShown ==
  \A u \in Reader, r \in Revision :
    "acknowledged" \in receipts[u][r] => \E d \in shown[u] : d.rev = r

=============================================================================
