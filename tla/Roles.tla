-------------------------------- MODULE Roles -------------------------------
(***************************************************************************)
(* Roles, who holds them and what they permit (service/admin.go,           *)
(* repository/role.go, UserRepo.AssignRoles).  An administrator's request  *)
(* looks a role up and changes it in a later statement; any two requests   *)
(* may interleave there.                                                   *)
(* Ids of roles are AUTOINCREMENT: none is used twice.  An id that no role *)
(* has yet may be assigned unless foreign keys are enforced.               *)
(***************************************************************************)
EXTENDS Naturals, Directory

CONSTANTS
  Seeded,               \* the account of 001_init.sql, which holds the role "admin"
  Super,                \* the account of SuperAdminUsername: Seeded, unless overridden
  Role,                 \* ids of roles that may ever be created
  AdminRole, UserRole,  \* the ids 1 and 2 of 001_init.sql
  Name,
  AdminName, UserName,
  Permission,           \* the permissions of 001_init.sql, which stay
  Basic                 \* those it grants to the role "user"

ASSUME RolesAssumption ==
  /\ Seeded \in Account /\ Super \in Account
  /\ AdminRole \in Role /\ UserRole \in Role /\ AdminRole # UserRole
  /\ AdminName \in Name /\ UserName \in Name /\ AdminName # UserName
  /\ None \notin Name
  /\ Basic \subseteq Permission

VARIABLES
  name,         \* roles.name; None: no such row
  spent,        \* sqlite_sequence: the ids of roles used so far
  held,         \* user_roles
  granted,      \* role_permissions
  joined,       \* users: no such row, inserted, or past the end of Register
  fk,           \* whether the connection enforces foreign keys
  stage, task   \* the next statement and the local variables of each request

rolesVars == <<name, spent, held, granted, joined, fk, stage, task>>

Task == [account : Account, wanted : SUBSET Role, unchecked : SUBSET Role,
         role : Role, name : Name \cup {None},
         regrant : BOOLEAN, grants : SUBSET Permission]
NoTask == [account |-> Super, wanted |-> {}, unchecked |-> {},
           role |-> UserRole, name |-> None, regrant |-> FALSE, grants |-> {}]

(* Foreign keys are enforced on the connection on which 001_init.sql ran.  *)
RolesInit ==
  /\ name = [r \in Role |-> IF r = AdminRole THEN AdminName
                            ELSE IF r = UserRole THEN UserName ELSE None]
  /\ spent = {AdminRole, UserRole}
  /\ held = [u \in Account |-> IF u = Seeded THEN {AdminRole} ELSE {}]
  /\ granted = [r \in Role |-> IF r = AdminRole THEN Permission
                               ELSE IF r = UserRole THEN Basic ELSE {}]
  /\ joined = [u \in Account |-> IF u = Seeded THEN "registered" ELSE "absent"]
  /\ fk \in BOOLEAN
  /\ stage = [h \in Handler |-> "idle"]
  /\ task = [h \in Handler |-> NoTask]

-----------------------------------------------------------------------------

Live == {r \in Role : name[r] # None}
RolesNamed(n) == {r \in Role : name[r] = n}

Begin(h, to, j) ==
  /\ stage[h] = "idle"
  /\ stage' = [stage EXCEPT ![h] = to]
  /\ task' = [task EXCEPT ![h] = j]

Conclude(h) ==
  /\ stage' = [stage EXCEPT ![h] = "idle"]
  /\ task' = [task EXCEPT ![h] = NoTask]

(* UserRepo.AssignRoles: one transaction, rolled back if a row it inserts  *)
(* refers to no role and foreign keys are enforced.                        *)
AssignRoles(u, W) ==
  held' = IF fk /\ ~(W \subseteq Live) THEN held ELSE [held EXCEPT ![u] = W]

(* Register inserts the account, and then gives it the role "user",        *)
(* whatever administrators assigned to it in the meantime; or it ends with *)
(* an error before that.                                                   *)
RegisterInserts(u) ==
  /\ joined[u] = "absent"
  /\ joined' = [joined EXCEPT ![u] = "registering"]
  /\ UNCHANGED <<name, spent, held, granted, fk, stage, task>>

RegisterAssigns(u) ==
  /\ joined[u] = "registering"
  /\ joined' = [joined EXCEPT ![u] = "registered"]
  /\ AssignRoles(u, {UserRole})
  /\ UNCHANGED <<name, spent, granted, fk, stage, task>>

RegisterFails(u) ==
  /\ joined[u] = "registering"
  /\ joined' = [joined EXCEPT ![u] = "registered"]
  /\ UNCHANGED <<name, spent, held, granted, fk, stage, task>>

(* Mutant of AssignFind: the super admin's roles may be assigned as well.  *)
AssignToAnyone(h, u, W) ==
  /\ joined[u] # "absent"
  /\ Begin(h, "check", [NoTask EXCEPT !.account = u, !.wanted = W, !.unchecked = W])
  /\ UNCHANGED <<name, spent, held, granted, joined, fk>>

(* AssignUserRoles: FindByID. *)
AssignFind(h, u, W) ==
  /\ joined[u] # "absent"
  /\ u # Super
  /\ Begin(h, "check", [NoTask EXCEPT !.account = u, !.wanted = W, !.unchecked = W])
  /\ UNCHANGED <<name, spent, held, granted, joined, fk>>

(* AssignUserRoles: the next turn of the loop.  A role that does not exist *)
(* passes.                                                                 *)
AssignCheck(h, r) ==
  /\ stage[h] = "check"
  /\ r \in task[h].unchecked
  /\ \/ /\ name[r] = AdminName
        /\ Conclude(h)
     \/ /\ name[r] # AdminName
        /\ task' = [task EXCEPT ![h].unchecked = @ \ {r}]
        /\ UNCHANGED stage
  /\ UNCHANGED <<name, spent, held, granted, joined, fk>>

(* AssignUserRoles: userRepo.AssignRoles. *)
AssignWrite(h) ==
  /\ stage[h] = "check"
  /\ task[h].unchecked = {}
  /\ AssignRoles(task[h].account, task[h].wanted)
  /\ Conclude(h)
  /\ UNCHANGED <<name, spent, granted, joined, fk>>

(* Mutant of CreateRole: the id is not taken from a sequence.              *)
CreateRoleOffSequence(h, r, n, P) ==
  /\ r \notin Live
  /\ RolesNamed(n) = {}
  /\ name' = [name EXCEPT ![r] = n]
  /\ IF P = {} THEN stage[h] = "idle" /\ UNCHANGED <<stage, task>>
               ELSE Begin(h, "grant", [NoTask EXCEPT !.role = r, !.regrant = TRUE, !.grants = P])
  /\ UNCHANGED <<spent, held, granted, joined, fk>>

(* CreateRole: RoleRepo.Create; a name in use is refused by UNIQUE.  The   *)
(* permissions the request lists, if any, are a statement of their own.    *)
CreateRole(h, r, n, P) ==
  /\ r \notin spent
  /\ RolesNamed(n) = {}
  /\ name' = [name EXCEPT ![r] = n]
  /\ spent' = spent \cup {r}
  /\ IF P = {} THEN stage[h] = "idle" /\ UNCHANGED <<stage, task>>
               ELSE Begin(h, "grant", [NoTask EXCEPT !.role = r, !.regrant = TRUE, !.grants = P])
  /\ UNCHANGED <<held, granted, joined, fk>>

(* UpdateRole and DeleteRole: FindByID. *)
UpdateFind(h, r, n, regrant, P) ==
  /\ name[r] \notin {None, AdminName}
  /\ Begin(h, "update", [NoTask EXCEPT !.role = r, !.name = n,
                                     !.regrant = regrant, !.grants = P])
  /\ UNCHANGED <<name, spent, held, granted, joined, fk>>

DeleteFind(h, r) ==
  /\ name[r] \notin {None, AdminName}
  /\ Begin(h, "delete", [NoTask EXCEPT !.role = r])
  /\ UNCHANGED <<name, spent, held, granted, joined, fk>>

(* The request goes on to the permissions it names, or is over.            *)
GrantNext(h) ==
  IF task[h].regrant THEN stage' = [stage EXCEPT ![h] = "grant"] /\ UNCHANGED task
                    ELSE Conclude(h)

(* Mutant of UpdateWrite: roles.name is not UNIQUE.                        *)
RenameToAnyName(h) ==
  LET r == task[h].role IN
  /\ stage[h] = "update"
  /\ name' = IF r \in Live /\ task[h].name # None THEN [name EXCEPT ![r] = task[h].name] ELSE name
  /\ GrantNext(h)
  /\ UNCHANGED <<spent, held, granted, joined, fk>>

(* RoleRepo.Update: a violation of UNIQUE ends the request; a role that is *)
(* gone, or keeps its name, does not.                                      *)
UpdateWrite(h) ==
  LET r == task[h].role
      n == task[h].name
  IN
  /\ stage[h] = "update"
  /\ \/ /\ r \notin Live \/ n = None
        /\ GrantNext(h)
        /\ UNCHANGED name
     \/ /\ r \in Live /\ n # None /\ RolesNamed(n) \subseteq {r}
        /\ name' = [name EXCEPT ![r] = n]
        /\ GrantNext(h)
     \/ /\ r \in Live /\ n # None /\ ~(RolesNamed(n) \subseteq {r})
        /\ Conclude(h)
        /\ UNCHANGED name
  /\ UNCHANGED <<spent, held, granted, joined, fk>>

(* RoleRepo.SetPermissions: one transaction, rolled back if foreign keys   *)
(* are enforced and the role has been deleted; its error is dropped.       *)
SetPermissions(h) ==
  LET r == task[h].role IN
  /\ stage[h] = "grant"
  /\ granted' = IF fk /\ r \notin Live /\ task[h].grants # {} THEN granted
                ELSE [granted EXCEPT ![r] = task[h].grants]
  /\ Conclude(h)
  /\ UNCHANGED <<name, spent, held, joined, fk>>

(* ON DELETE CASCADE of user_roles.role_id and role_permissions.role_id.   *)
Release(r) ==
  /\ held' = IF fk THEN [u \in Account |-> held[u] \ {r}] ELSE held
  /\ granted' = IF fk THEN [granted EXCEPT ![r] = {}] ELSE granted

(* RoleRepo.Delete. *)
DeleteWrite(h) ==
  /\ stage[h] = "delete"
  /\ name' = [name EXCEPT ![task[h].role] = None]
  /\ Release(task[h].role)
  /\ Conclude(h)
  /\ UNCHANGED <<spent, joined, fk>>

(* An error or a panic between two statements.                             *)
GiveUp(h) ==
  /\ stage[h] # "idle"
  /\ Conclude(h)
  /\ UNCHANGED <<name, spent, held, granted, joined, fk>>

(* A restarted process has a new connection, and no request survives.      *)
Restart ==
  /\ fk' = FALSE
  /\ joined' = [u \in Account |-> IF joined[u] = "registering" THEN "registered" ELSE joined[u]]
  /\ stage' = [h \in Handler |-> "idle"]
  /\ task' = [h \in Handler |-> NoTask]
  /\ UNCHANGED <<name, spent, held, granted>>

RolesNext ==
  \/ \E h \in Handler :
       \/ \E u \in Account, W \in SUBSET Role : AssignFind(h, u, W)
       \/ \E r \in Role : AssignCheck(h, r)
       \/ AssignWrite(h)
       \/ \E r \in Role, n \in Name, P \in SUBSET Permission : CreateRole(h, r, n, P)
       \/ \E r \in Role, n \in Name \cup {None}, P \in SUBSET Permission :
            UpdateFind(h, r, n, TRUE, P) \/ UpdateFind(h, r, n, FALSE, {})
       \/ UpdateWrite(h)
       \/ SetPermissions(h)
       \/ \E r \in Role : DeleteFind(h, r)
       \/ DeleteWrite(h)
       \/ GiveUp(h)
  \/ \E u \in Account : RegisterInserts(u) \/ RegisterAssigns(u) \/ RegisterFails(u)
  \/ Restart

RolesSpec == RolesInit /\ [][RolesNext]_rolesVars

-----------------------------------------------------------------------------

Joined == {"absent", "registering", "registered"}
Stage == {"idle", "check", "update", "grant", "delete"}

(* Every variable has its type, and every role an id of the sequence.      *)
RolesTypeOK ==
  /\ name \in [Role -> Name \cup {None}]
  /\ Live \subseteq spent /\ spent \subseteq Role
  /\ held \in [Account -> SUBSET Role]
  /\ granted \in [Role -> SUBSET Permission]
  /\ joined \in [Account -> Joined]
  /\ fk \in BOOLEAN
  /\ stage \in [Handler -> Stage]
  /\ task \in [Handler -> Task]

(* Whatever is created, renamed, deleted, assigned and granted between the *)
(* lookups and the writes of other requests: only the seeded administrator *)
(* ever holds a role named "admin", who keeps it as long as he is the      *)
(* super admin as well, and that role permits everything.                  *)
AdminRoleIsReserved ==
  /\ \A u \in Account : (\E r \in held[u] : name[r] = AdminName) => u = Seeded
  /\ Super = Seeded => \E r \in held[Super] : name[r] = AdminName
  /\ \A r \in RolesNamed(AdminName) : granted[r] = Permission

(* Without foreign keys, which no process after the first enforces, a role *)
(* deleted while another request creates or edits it leaves permissions    *)
(* behind under its id, and a deleted role may be edited.  None of that    *)
(* ever counts: a role that comes into being permits nothing until a       *)
(* request grants it something.                                            *)
NewRolesPermitNothing ==
  [][\A r \in Role : r \notin Live /\ r \in Live' => granted'[r] = {}]_rolesVars

(* Strengthening: the role "admin" keeps its id, its name and its          *)
(* permissions, and no request is about to assign, edit or delete it.      *)
NoRequestTouchesAdmin ==
  \A h \in Handler :
    /\ stage[h] = "check" =>
         /\ task[h].account # Super
         /\ AdminRole \notin task[h].wanted \ task[h].unchecked
    /\ stage[h] \in {"update", "grant", "delete"} => task[h].role # AdminRole

AdminRoleStands ==
  /\ RolesNamed(AdminName) = {AdminRole}
  /\ AdminRole \in spent
  /\ granted[AdminRole] = Permission
  /\ joined[Seeded] = "registered"
  /\ \A u \in Account : AdminRole \in held[u] => u = Seeded
  /\ Super = Seeded => AdminRole \in held[Super]

(* Permissions are only ever set for ids that have been used.              *)
UnusedIdsAreBlank ==
  /\ UserRole \in spent
  /\ \A r \in Role \ spent : granted[r] = {}
  /\ \A h \in Handler : task[h].role \in spent

RolesIInv == RolesTypeOK /\ NoRequestTouchesAdmin /\ AdminRoleStands /\ UnusedIdsAreBlank

=============================================================================
