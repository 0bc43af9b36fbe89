----------------------------- MODULE AppVersions ----------------------------
(***************************************************************************)
(* Client versions and the flag is_latest (repository/version.go,          *)
(* service/version.go).  Administrators' requests interleave between a     *)
(* statement that reads and the transaction that acts on what it read.     *)
(* Ids are never used again.                                               *)
(***************************************************************************)
EXTENDS Naturals

CONSTANTS
  Platform,
  VersionCode,  \* version codes: Go integers, so there is a greatest
  Id,           \* rows of app_versions that may ever be created
  NoId,         \* the absence of a row
  Handler       \* slots for requests in flight

ASSUME ConstantsAssumption ==
  /\ Platform # {}
  /\ VersionCode \subseteq Nat /\ \E m \in VersionCode : \A c \in VersionCode : c <= m
  /\ NoId \notin Id

VARIABLES
  rows,       \* app_versions
  pc, job,    \* requests: the next transaction, and what was read before it
  doubled,    \* history: platforms where a Delete acted on an outdated flag
  unflagged   \* history: platforms whose latest was taken away and not replaced

vars == <<rows, pc, job, doubled, unflagged>>

Row == [state : {"absent", "present", "deleted"}, platform : Platform, code : VersionCode,
        latest : BOOLEAN]

NoJob == [id |-> NoId, wasLatest |-> FALSE]

Init ==
  /\ rows = [i \in Id |-> [state |-> "absent", platform |-> CHOOSE p \in Platform : TRUE,
                           code |-> CHOOSE c \in VersionCode : TRUE, latest |-> FALSE]]
  /\ pc = [h \in Handler |-> "idle"]
  /\ job = [h \in Handler |-> NoJob]
  /\ doubled = {}
  /\ unflagged = {}

-----------------------------------------------------------------------------

Present(i) == rows[i].state = "present"
Of(p) == {i \in Id : Present(i) /\ rows[i].platform = p}
Flagged(p) == {i \in Of(p) : rows[i].latest}

(* ORDER BY version_code DESC LIMIT 1, as a set of at most one id. *)
Highest(S) == {i \in S : \A j \in S : rows[j].code <= rows[i].code}

Begin(h, to, j) ==
  /\ pc[h] = "idle"
  /\ pc' = [pc EXCEPT ![h] = to]
  /\ job' = [job EXCEPT ![h] = j]

Finish(h, from) ==
  /\ pc[h] = from
  /\ pc' = [pc EXCEPT ![h] = "idle"]
  /\ job' = [job EXCEPT ![h] = NoJob]

(* The statements that clear the flag of a platform and set that of row i. *)
MakeLatest(i, p) ==
  [j \in Id |-> IF j = i THEN [rows[j] EXCEPT !.latest = TRUE]
                ELSE IF j \in Of(p) THEN [rows[j] EXCEPT !.latest = FALSE]
                ELSE rows[j]]

(* Mutant of Create: the other versions keep their flag.                   *)
InsertOnly(i, p, c) ==
  /\ rows[i].state = "absent"
  /\ \A j \in Of(p) : rows[j].code # c
  /\ rows' = [rows EXCEPT ![i] = [state |-> "present", platform |-> p, code |-> c,
                                  latest |-> TRUE]]
  /\ doubled' = doubled \ {p}
  /\ unflagged' = unflagged \ {p}
  /\ UNCHANGED <<pc, job>>

(* Create, one transaction; UNIQUE(platform, version_code) refuses a code  *)
(* that the platform already has.                                          *)
Create(i, p, c) ==
  /\ rows[i].state = "absent"
  /\ \A j \in Of(p) : rows[j].code # c
  /\ rows' = [MakeLatest(i, p) EXCEPT ![i] = [state |-> "present", platform |-> p,
                                              code |-> c, latest |-> TRUE]]
  /\ doubled' = doubled \ {p}
  /\ unflagged' = unflagged \ {p}
  /\ UNCHANGED <<pc, job>>

(* Update with is_latest = 1: the platform is read, then a transaction     *)
(* clears the flags of the platform and sets that of the row, which may    *)
(* have been deleted meanwhile.                                            *)
UpdateLatestFind(h, i) ==
  /\ Present(i)
  /\ Begin(h, "setLatest", [NoJob EXCEPT !.id = i])
  /\ UNCHANGED <<rows, doubled, unflagged>>

UpdateLatestWrite(h) ==
  LET i == job[h].id
      p == rows[i].platform
  IN
  /\ Finish(h, "setLatest")
  /\ rows' = IF Present(i) THEN MakeLatest(i, p)
             ELSE [j \in Id |-> IF j \in Of(p) THEN [rows[j] EXCEPT !.latest = FALSE]
                                               ELSE rows[j]]
  /\ doubled' = doubled \ {p}
  /\ unflagged' = IF Present(i) THEN unflagged \ {p} ELSE unflagged \cup {p}

(* Update with is_latest = 0, one statement. *)
UpdateNotLatest(i) ==
  /\ Present(i)
  /\ rows' = [rows EXCEPT ![i].latest = FALSE]
  /\ unflagged' = IF rows[i].latest THEN unflagged \cup {rows[i].platform} ELSE unflagged
  /\ UNCHANGED <<pc, job, doubled>>

(* Delete: the flag is read before the transaction. *)
DeleteFind(h, i) ==
  /\ Present(i)
  /\ Begin(h, "delete", [id |-> i, wasLatest |-> rows[i].latest])
  /\ UNCHANGED <<rows, doubled, unflagged>>

(* Mutant of DeleteWrite: the version that takes over is not flagged. *)
DeleteOnly(h) ==
  LET i == job[h].id
      p == rows[i].platform
  IN
  /\ Finish(h, "delete")
  /\ rows' = [rows EXCEPT ![i].state = "deleted", ![i].latest = FALSE]
  /\ doubled' = IF job[h].wasLatest /\ ~rows[i].latest THEN doubled \cup {p} ELSE doubled
  /\ unflagged' = IF rows[i].latest /\ ~job[h].wasLatest THEN unflagged \cup {p}
                  ELSE unflagged

(* If the row was the latest, the highest version code left takes over. *)
DeleteWrite(h) ==
  LET i == job[h].id
      p == rows[i].platform
      heir == IF job[h].wasLatest THEN Highest(Of(p) \ {i}) ELSE {}
  IN
  /\ Finish(h, "delete")
  /\ rows' = [j \in Id |-> IF j = i THEN [rows[j] EXCEPT !.state = "deleted", !.latest = FALSE]
                           ELSE IF j \in heir THEN [rows[j] EXCEPT !.latest = TRUE]
                           ELSE rows[j]]
  /\ doubled' = IF job[h].wasLatest /\ ~rows[i].latest THEN doubled \cup {p} ELSE doubled
  /\ unflagged' = IF rows[i].latest /\ ~job[h].wasLatest THEN unflagged \cup {p}
                  ELSE unflagged

(* A statement fails, and with it the request. *)
Abort(h) ==
  /\ pc[h] # "idle"
  /\ Finish(h, pc[h])
  /\ UNCHANGED <<rows, doubled, unflagged>>

Next ==
  \/ \E i \in Id, p \in Platform, c \in VersionCode : Create(i, p, c)
  \/ \E i \in Id : UpdateNotLatest(i)
  \/ \E h \in Handler :
       \/ \E i \in Id : UpdateLatestFind(h, i) \/ DeleteFind(h, i)
       \/ UpdateLatestWrite(h)
       \/ DeleteWrite(h)
       \/ Abort(h)

Spec == Init /\ [][Next]_vars

-----------------------------------------------------------------------------
(* Properties. *)

(* Every variable keeps its type, a version code names one version of a    *)
(* platform, and what is absent or deleted has no flag.                    *)
TypeOK ==
  /\ rows \in [Id -> Row]
  /\ pc \in [Handler -> {"idle", "setLatest", "delete"}]
  /\ job \in [Handler -> [id : Id \cup {NoId}, wasLatest : BOOLEAN]]
  /\ doubled \subseteq Platform
  /\ unflagged \subseteq Platform
  /\ \A p \in Platform : \A i, j \in Of(p) : rows[i].code = rows[j].code => i = j
  /\ \A i \in Id : rows[i].latest => Present(i)
  /\ \A h \in Handler : pc[h] # "idle" => job[h].id \in Id

(* database-schema.md: "a platform has only one latest".  Creating,        *)
(* editing and deleting versions concurrently never leaves two, unless a   *)
(* Delete found the row flagged, lost the flag to another request, and     *)
(* promoted a successor all the same.                                      *)
OneLatestUnlessDeleteRaced ==
  \A p \in Platform \ doubled : \A i, j \in Flagged(p) : i = j

(* A platform that has versions offers one, unless an administrator took   *)
(* the flag away, flagged a version that was being deleted, or deleted one *)
(* that was being flagged.                                                 *)
ALatestRemains ==
  \A p \in Platform \ unflagged : Of(p) # {} => Flagged(p) # {}

=============================================================================
