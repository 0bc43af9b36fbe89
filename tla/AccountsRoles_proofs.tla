------------------------ MODULE AccountsRoles_proofs ------------------------
(***************************************************************************)
(* Machine-checked proofs about Accounts, for any sets of phones, accounts *)
(* and requests and any number of editions of the template, and about      *)
(* Roles, for any sets of accounts, roles, names, permissions and requests.*)
(***************************************************************************)
EXTENDS Accounts, Roles, TLAPS

USE AccountsAssumption DEF Step, Edition

(* A request's variables stay typed whatever it is about. *)
LEMMA JobTypes ==
  /\ NoJob \in Job
  /\ \A p \in Phone : [NoJob EXCEPT !.phone = p, !.registering = TRUE] \in Job
  /\ \A u \in Account : [NoJob EXCEPT !.account = u] \in Job
  /\ NoPolicy \in Policy
  /\ SetPolicy \in Policy
  /\ \A n \in Edition : [kind |-> "copy", of |-> n] \in Policy
  BY DEF Job, NoJob, Policy, NoPolicy, SetPolicy

(* The fields of a request and of an account have their types. *)
LEMMA FieldTypes ==
  ASSUME TypeOK
  PROVE  /\ template \in 1..MaxTemplate
         /\ \A h \in Handler :
              /\ job[h] \in Job
              /\ job[h].phone \in Phone \cup {None}
              /\ job[h].account \in Account \cup {None}
              /\ job[h].copy \in 0..MaxTemplate
              /\ job[h].registering \in BOOLEAN
              /\ \A u \in Account : [job[h] EXCEPT !.account = u] \in Job
              /\ \A n \in Edition : [job[h] EXCEPT !.copy = n] \in Job
         /\ \A u \in Account :
              /\ born[u] \in 0..MaxTemplate
              /\ settled[u] \in 0..MaxTemplate
              /\ policy[u] \in Policy
              /\ policy[u].of \in 0..MaxTemplate
              /\ phone[u] \in Phone \cup {None}
<1>1. template \in 1..MaxTemplate
  BY DEF TypeOK
<1>2. ASSUME NEW h \in Handler
      PROVE  /\ job[h] \in Job
             /\ job[h].phone \in Phone \cup {None}
             /\ job[h].account \in Account \cup {None}
             /\ job[h].copy \in Edition \cup {0}
             /\ job[h].registering \in BOOLEAN
             /\ \A u \in Account : [job[h] EXCEPT !.account = u] \in Job
             /\ \A n \in Edition : [job[h] EXCEPT !.copy = n] \in Job
  BY DEF TypeOK, Job
<1>3. ASSUME NEW u \in Account
      PROVE  /\ born[u] \in Edition \cup {0}
             /\ settled[u] \in Edition \cup {0}
             /\ policy[u] \in Policy
             /\ policy[u].of \in Edition \cup {0}
             /\ phone[u] \in Phone \cup {None}
  BY DEF TypeOK, Policy, NoPolicy, SetPolicy
<1>4. Edition \cup {0} = 0..MaxTemplate
  OBVIOUS
<1> QED
  BY <1>1, <1>2, <1>3, <1>4

(* The initial state: no account, and nobody in flight. *)
LEMMA InitInvariant == Init => IInv
<1> SUFFICES ASSUME Init PROVE IInv
  OBVIOUS
<1> USE DEF Init
<1>1. TypeOK
  <2>1. NoPolicy \in Policy /\ NoJob \in Job
    BY DEF Policy, NoPolicy, Job, NoJob
  <2> QED
    BY <2>1 DEF TypeOK
<1>3. RequestsFollowAccounts
  BY DEF RequestsFollowAccounts, NoJob
<1>4. EditionsOrdered
  <2>1. ASSUME NEW u \in Account
        PROVE  born[u] = 0 /\ settled[u] = 0 /\ policy[u] = NoPolicy
    OBVIOUS
  <2>2. NoPolicy.of = 0 /\ template = 1
    BY DEF NoPolicy
  <2>3. 0 <= 1
    OBVIOUS
  <2> HIDE DEF Init
  <2> QED
    BY <2>1, <2>2, <2>3 DEF EditionsOrdered
<1>5. CopiesDateFromRegistration
  <2> SUFFICES ASSUME NEW u \in Account
               PROVE  policy[u].kind # "copy" /\ settled[u] = 0
    BY DEF CopiesDateFromRegistration
  <2> QED
    BY DEF CopiesDateFromRegistration, NoPolicy
<1> QED
  BY <1>1, <1>3, <1>4, <1>5 DEF IInv

(* No step takes a variable out of its type. *)
LEMMA TypeStep == IInv /\ [Next]_vars => TypeOK'
<1> SUFFICES ASSUME IInv, [Next]_vars PROVE TypeOK'
  OBVIOUS
<1> TypeOK
  BY DEF IInv
<1>0. NoJob \in Job
  BY JobTypes
<1> USE <1>0, FieldTypes DEF TypeOK
<1>1. ASSUME NEW h \in Handler, NEW p \in Phone, RegisterFindPhone(h, p) PROVE TypeOK'
  <2>1. [NoJob EXCEPT !.phone = p, !.registering = TRUE] \in Job
    BY DEF Job, NoJob
  <2> QED
    BY <1>1, <2>1 DEF RegisterFindPhone, Continue
<1>2. ASSUME NEW h \in Handler, RegisterFindUsername(h) PROVE TypeOK'
  <2>1. CASE Continue(h, "findUsername", "create") /\ UNCHANGED job
    BY <1>2, <2>1 DEF RegisterFindUsername, Continue
  <2>2. CASE Finish(h)
    BY <1>2, <2>2 DEF RegisterFindUsername, Finish
  <2> QED
    BY <1>2, <2>1, <2>2 DEF RegisterFindUsername
<1>3. ASSUME NEW h \in Handler, NEW u \in Account, InsertUser(h, u) PROVE TypeOK'
  <2>1. job' \in [Handler -> Job] /\ pc' \in [Handler -> Step]
    BY <1>3 DEF InsertUser, Continue
  <2> QED
    BY <1>3, <2>1 DEF InsertUser
<1>4. ASSUME NEW h \in Handler, RegisterAssignRole(h) PROVE TypeOK'
  BY <1>4 DEF RegisterAssignRole, Continue
<1>5. ASSUME NEW h \in Handler, NEW u \in Account, EvaluateFindNone(h, u) PROVE TypeOK'
  <2>1. [NoJob EXCEPT !.account = u] \in Job
    BY DEF Job, NoJob
  <2> QED
    BY <1>5, <2>1 DEF EvaluateFindNone, Continue
<1>6. ASSUME NEW h \in Handler, ReadDefaults(h) PROVE TypeOK'
  BY <1>6 DEF ReadDefaults, Continue
<1>7. ASSUME NEW h \in Handler, InsertDefaults(h) PROVE TypeOK'
  <2>1. job[h].account \in Account /\ job[h].copy \in Edition
    <3>1. job[h].account # None /\ job[h].copy \in 1..template
      BY <1>7 DEF InsertDefaults, IInv, RequestsFollowAccounts
    <3>2. job[h].account \in Account \cup {None} /\ template \in 1..MaxTemplate
      BY FieldTypes
    <3> QED
      BY <3>1, <3>2
  <2>2. policy' \in [Account -> Policy]
    <3>1. [kind |-> "copy", of |-> job[h].copy] \in Policy
      BY <2>1 DEF Policy
    <3> QED
      BY <1>7, <2>1, <3>1 DEF InsertDefaults
  <2>3. settled' \in [Account -> Edition \cup {0}]
    BY <1>7, <2>1 DEF InsertDefaults, EndOfCreateDefault
  <2> QED
    BY <1>7, <2>2, <2>3 DEF InsertDefaults, EndOfCreateDefault, Finish
<1>8. ASSUME NEW h \in Handler, Abort(h) PROVE TypeOK'
  <2>1. settled' \in [Account -> Edition \cup {0}]
    BY <1>8 DEF Abort
  <2>2. cutShort' \subseteq Account
    BY <1>8 DEF Abort
  <2>3. job' \in [Handler -> Job] /\ pc' \in [Handler -> Step]
    BY <1>8 DEF Abort, Finish
  <2> QED
    BY <1>8, <2>1, <2>2, <2>3 DEF Abort
<1>9. ASSUME NEW u \in Account, UpdateAccess(u) PROVE TypeOK'
  <2>1. SetPolicy \in Policy
    BY DEF Policy
  <2> QED
    BY <1>9, <2>1 DEF UpdateAccess
<1>10. CASE UpdateRegistrationDefaults
  BY <1>10 DEF UpdateRegistrationDefaults
<1>11. CASE UNCHANGED vars
  BY <1>11 DEF vars
<1> QED
  BY <1>1, <1>2, <1>3, <1>4, <1>5, <1>6, <1>7, <1>8, <1>9, <1>10, <1>11 DEF Next

(* Steps that leave accounts, policies and history alone disturb nothing   *)
(* but what is said of the request that takes them.                        *)
LEMMA OnlyRequests ==
  ASSUME IInv, UNCHANGED <<phone, policy, template, born, settled, cutShort>>
  PROVE  EditionsOrdered' /\ CopiesDateFromRegistration'
  BY DEF IInv, EditionsOrdered, CopiesDateFromRegistration, Exists

(* A request that finishes is about nothing any more. *)
LEMMA FinishFollows ==
  ASSUME IInv, NEW h \in Handler, Finish(h), UNCHANGED <<phone, template, born>>
  PROVE  RequestsFollowAccounts'
<1> SUFFICES ASSUME NEW g \in Handler
             PROVE  /\ pc'[g] \in {"findUsername", "create"} => job'[g].phone # None
                    /\ pc'[g] \in {"assignRole", "readDefaults", "insertDefaults"}
                         => job'[g].account # None
                    /\ job'[g].account # None => Exists(job'[g].account)
                    /\ pc'[g] = "insertDefaults" =>
                         born[job'[g].account] <= job'[g].copy /\ job'[g].copy \in 1..template
  BY DEF RequestsFollowAccounts, Exists
<1>1. CASE g = h
  BY <1>1 DEF Finish, IInv, TypeOK, NoJob
<1>2. CASE g # h
  BY <1>2 DEF Finish, IInv, TypeOK, RequestsFollowAccounts
<1> QED
  BY <1>1, <1>2

(* Every action preserves the inductive invariant. *)
LEMMA IInvStep == IInv /\ [Next]_vars => IInv'
<1> SUFFICES ASSUME IInv, [Next]_vars
             PROVE  /\ EditionsOrdered' /\ CopiesDateFromRegistration'
                    /\ RequestsFollowAccounts'
  BY TypeStep DEF IInv
<1> DEFINE Kept == /\ EditionsOrdered' /\ CopiesDateFromRegistration'
                   /\ RequestsFollowAccounts'
<1>0. TypeOK /\ TypeOK'
  BY TypeStep DEF IInv
<1>1. ASSUME NEW h \in Handler, NEW p \in Phone, RegisterFindPhone(h, p) PROVE Kept
  <2>1. RequestsFollowAccounts'
    BY <1>1 DEF RegisterFindPhone, Continue, IInv, TypeOK, RequestsFollowAccounts, NoJob,
                Exists
  <2> QED
    BY <1>1, <2>1, OnlyRequests DEF RegisterFindPhone
<1>2. ASSUME NEW h \in Handler, RegisterFindUsername(h) PROVE Kept
  <2>1. CASE Continue(h, "findUsername", "create") /\ UNCHANGED job
    <3>1. RequestsFollowAccounts'
      BY <1>2, <2>1 DEF RegisterFindUsername, Continue, IInv, TypeOK,
                        RequestsFollowAccounts, Exists
    <3> QED
      BY <1>2, <3>1, OnlyRequests DEF RegisterFindUsername
  <2>2. CASE Finish(h)
    BY <1>2, <2>2, OnlyRequests, FinishFollows DEF RegisterFindUsername
  <2> QED
    BY <1>2, <2>1, <2>2 DEF RegisterFindUsername
<1>3. ASSUME NEW h \in Handler, NEW u \in Account, InsertUser(h, u) PROVE Kept
  <2>1. job[h].phone # None /\ job[h].phone \in Phone \cup {None}
    BY <1>3, FieldTypes DEF InsertUser, Continue, IInv, RequestsFollowAccounts
  <2>2. phone' = [phone EXCEPT ![u] = job[h].phone] /\ ~Exists(u)
    BY <1>3 DEF InsertUser
  <2>4. \A v \in Account : Exists(v)' <=> Exists(v) \/ v = u
    BY <2>1, <2>2, <1>0 DEF Exists, TypeOK
  <2>5. \A v \in Account : born'[v] = IF v = u THEN template ELSE born[v]
    BY <1>3, <1>0 DEF InsertUser, TypeOK
  <2>6. policy[u] = NoPolicy
    BY <2>2 DEF IInv, EditionsOrdered
  <2>7. EditionsOrdered'
    <3>1. template <= template
      BY FieldTypes, <1>0
    <3> QED
      BY <1>3, <2>4, <2>5, <3>1 DEF InsertUser, EditionsOrdered, IInv
  <2>8. CopiesDateFromRegistration'
    BY <1>3, <2>5, <2>6 DEF InsertUser, CopiesDateFromRegistration, IInv, NoPolicy
  <2>9. RequestsFollowAccounts'
    <3>1. ASSUME NEW g \in Handler, g # h
          PROVE  job'[g] = job[g] /\ pc'[g] = pc[g] /\ job[g].account # u
      BY <1>3, <3>1, <1>0, <2>2 DEF InsertUser, Continue, TypeOK, IInv, RequestsFollowAccounts
    <3>2. job'[h].account = u /\ pc'[h] = "assignRole"
      BY <1>3, <1>0 DEF InsertUser, Continue, TypeOK, Job
    <3>3. u # None
      OBVIOUS
    <3>4. \A g \in Handler : job[g].account \in Account \cup {None}
      BY FieldTypes, <1>0
    <3> QED
      BY <1>3, <2>4, <2>5, <3>1, <3>2, <3>3, <3>4
      DEF InsertUser, IInv, RequestsFollowAccounts
  <2> QED
    BY <2>7, <2>8, <2>9
<1>4. ASSUME NEW h \in Handler, RegisterAssignRole(h) PROVE Kept
  <2>1. RequestsFollowAccounts'
    BY <1>4 DEF RegisterAssignRole, Continue, IInv, TypeOK, RequestsFollowAccounts, Exists
  <2> QED
    BY <1>4, <2>1, OnlyRequests DEF RegisterAssignRole
<1>5. ASSUME NEW h \in Handler, NEW u \in Account, EvaluateFindNone(h, u) PROVE Kept
  <2>1. RequestsFollowAccounts'
    BY <1>5 DEF EvaluateFindNone, Continue, IInv, TypeOK, RequestsFollowAccounts, NoJob,
                Exists
  <2> QED
    BY <1>5, <2>1, OnlyRequests DEF EvaluateFindNone
<1>6. ASSUME NEW h \in Handler, ReadDefaults(h) PROVE Kept
  <2>1. RequestsFollowAccounts'
    <3>1. job'[h].account = job[h].account /\ job'[h].copy = template
      BY <1>6, <1>0 DEF ReadDefaults, TypeOK, Job
    <3>2. job[h].account \in Account /\ Exists(job[h].account)
      BY <1>6, <1>0, FieldTypes DEF ReadDefaults, Continue, IInv, RequestsFollowAccounts
    <3>3. born[job[h].account] <= template /\ template \in 1..template
      BY <3>2, <1>0, FieldTypes DEF IInv, EditionsOrdered
    <3>4. ASSUME NEW g \in Handler, g # h PROVE job'[g] = job[g] /\ pc'[g] = pc[g]
      BY <1>6, <3>4, <1>0 DEF ReadDefaults, Continue, TypeOK
    <3>5. pc'[h] = "insertDefaults"
      BY <1>6, <1>0 DEF ReadDefaults, Continue, TypeOK
    <3> QED
      BY <1>6, <3>1, <3>2, <3>3, <3>4, <3>5
      DEF ReadDefaults, IInv, RequestsFollowAccounts, Exists
  <2> QED
    BY <1>6, <2>1, OnlyRequests DEF ReadDefaults
<1>7. ASSUME NEW h \in Handler, InsertDefaults(h) PROVE Kept
  <2> DEFINE u == job[h].account
  <2>1. /\ u \in Account /\ Exists(u)
        /\ born[u] <= job[h].copy /\ job[h].copy \in 1..template
    BY <1>7, <1>0, FieldTypes DEF InsertDefaults, IInv, RequestsFollowAccounts
  <2>2. UNCHANGED <<phone, template, born, cutShort>> /\ Finish(h)
    BY <1>7 DEF InsertDefaults, EndOfCreateDefault
  <2>4. ASSUME NEW v \in Account, v # u PROVE policy'[v] = policy[v] /\ settled'[v] = settled[v]
    BY <1>7, <2>1, <2>4, <1>0 DEF InsertDefaults, EndOfCreateDefault, TypeOK
  <2>5. \/ policy[u] # NoPolicy /\ policy'[u] = policy[u]
        \/ policy[u] = NoPolicy /\ policy'[u] = [kind |-> "copy", of |-> job[h].copy]
    BY <1>7, <2>1, <1>0 DEF InsertDefaults, TypeOK
  <2>6. settled'[u] = template \/ settled'[u] = settled[u]
    BY <1>7, <2>1, <1>0 DEF InsertDefaults, EndOfCreateDefault, TypeOK
  <2>7. policy'[u] # NoPolicy /\ policy'[u].of <= template
    BY <2>1, <2>5, <1>0, FieldTypes DEF NoPolicy, IInv, EditionsOrdered
  <2>8. EditionsOrdered'
    <3>1. settled'[u] <= template
      BY <2>1, <2>6, <1>0, FieldTypes DEF IInv, EditionsOrdered
    <3> QED
      BY <2>1, <2>2, <2>4, <2>7, <3>1 DEF IInv, EditionsOrdered, Exists
  <2>9. CopiesDateFromRegistration'
    <3>1. policy'[u].kind = "copy" => born[u] <= policy'[u].of
      BY <2>1, <2>5 DEF IInv, CopiesDateFromRegistration
    <3>2. settled'[u] # 0 /\ u \notin cutShort => policy'[u].of <= settled'[u]
      BY <2>1, <2>5, <2>6, <2>7 DEF IInv, CopiesDateFromRegistration
    <3> QED
      BY <2>2, <2>4, <2>7, <3>1, <3>2 DEF IInv, CopiesDateFromRegistration
  <2> QED
    BY <2>2, <2>8, <2>9, FinishFollows
<1>8. ASSUME NEW h \in Handler, Abort(h) PROVE Kept
  <2>1. UNCHANGED <<phone, policy, template, born>> /\ Finish(h)
    BY <1>8 DEF Abort
  <2>3. cutShort \subseteq cutShort'
    BY <1>8 DEF Abort
  <2>4. ASSUME NEW v \in Account
        PROVE  \/ settled'[v] = settled[v]
               \/ settled'[v] = template /\ v \in cutShort'
    BY <1>8, <1>0 DEF Abort, TypeOK
  <2>5. EditionsOrdered'
    BY <2>1, <2>4, <1>0, FieldTypes DEF IInv, EditionsOrdered, Exists
  <2>6. CopiesDateFromRegistration'
    BY <2>1, <2>3, <2>4 DEF IInv, CopiesDateFromRegistration
  <2> QED
    BY <2>1, <2>5, <2>6, FinishFollows
<1>9. ASSUME NEW u \in Account, UpdateAccess(u) PROVE Kept
  <2>1. \A v \in Account : policy'[v] = IF v = u THEN SetPolicy ELSE policy[v]
    BY <1>9, <1>0 DEF UpdateAccess, TypeOK
  <2>2. RequestsFollowAccounts'
    BY <1>9 DEF UpdateAccess, IInv, RequestsFollowAccounts, Exists
  <2>3. EditionsOrdered'
    BY <1>9, <2>1, <1>0, FieldTypes DEF UpdateAccess, IInv, EditionsOrdered, Exists,
                                        SetPolicy
  <2>4. CopiesDateFromRegistration'
    BY <1>9, <2>1, <1>0, FieldTypes DEF UpdateAccess, IInv, CopiesDateFromRegistration,
                                        NoPolicy, SetPolicy
  <2> QED
    BY <2>2, <2>3, <2>4
<1>10. CASE UpdateRegistrationDefaults
  <2>1. CopiesDateFromRegistration'
    BY <1>10 DEF UpdateRegistrationDefaults, IInv, CopiesDateFromRegistration, Exists
  <2>2. EditionsOrdered'
    BY <1>10, <1>0, FieldTypes DEF UpdateRegistrationDefaults, IInv, EditionsOrdered, Exists
  <2>3. RequestsFollowAccounts'
    BY <1>10, <1>0, FieldTypes DEF UpdateRegistrationDefaults, IInv, RequestsFollowAccounts,
                                   Exists
  <2> QED
    BY <2>1, <2>2, <2>3
<1>11. CASE UNCHANGED vars
  BY <1>11 DEF vars, IInv, EditionsOrdered, CopiesDateFromRegistration,
               RequestsFollowAccounts, Exists
<1> QED
  BY <1>1, <1>2, <1>3, <1>4, <1>5, <1>6, <1>7, <1>8, <1>9, <1>10, <1>11 DEF Next

-----------------------------------------------------------------------------

(* Every reachable state satisfies the inductive invariant, which ties the *)
(* copy that a request carries to the account it is for.                   *)
THEOREM AccountsInvariant == Spec => []IInv
<1> QED
  BY InitInvariant, IInvStep, PTL DEF Spec

(* Every variable keeps its type. *)
THEOREM AccountsTypeCorrect == Spec => []TypeOK
<1>1. IInv => TypeOK
  BY DEF IInv
<1> QED
  BY <1>1, AccountsInvariant, PTL

(* A default policy is a copy of a template in force during registration,  *)
(* unless the registration was cut short.                                  *)
THEOREM DefaultsOfRegistration == Spec => []CopiesDateFromRegistration
<1>1. IInv => CopiesDateFromRegistration
  BY DEF IInv
<1> QED
  BY <1>1, AccountsInvariant, PTL

(* Once an account has a policy, only an administrator's update changes    *)
(* it, whatever requests found it missing before.                          *)
THEOREM NoDefaultReplacesAPolicy == Spec => SettingsStay
<1> DEFINE Stay == \A u \in Account :
      policy[u] # NoPolicy /\ policy'[u] # policy[u] => policy'[u] = SetPolicy
<1>1. IInv /\ [Next]_vars => [Stay]_vars
  <2> SUFFICES ASSUME IInv, Next PROVE Stay
    OBVIOUS
  <2>1. ASSUME NEW h \in Handler, InsertDefaults(h) PROVE Stay
    BY <2>1 DEF InsertDefaults, IInv, TypeOK
  <2>2. ASSUME NEW u \in Account, UpdateAccess(u) PROVE Stay
    BY <2>2 DEF UpdateAccess, IInv, TypeOK
  <2>3. CASE UNCHANGED policy
    BY <2>3
  <2> QED
    BY <2>1, <2>2, <2>3 DEF Next, RegisterFindPhone, RegisterFindUsername, InsertUser,
         RegisterAssignRole, EvaluateFindNone, ReadDefaults, Abort, UpdateRegistrationDefaults
<1> QED
  BY <1>1, AccountsInvariant, PTL DEF Spec, SettingsStay

HIDE AccountsAssumption DEF Step, Edition

-----------------------------------------------------------------------------

USE RolesAssumption DEF Stage, Live

(* A request's variables stay typed whichever role or account it is about. *)
LEMMA TaskTypes ==
  /\ NoTask \in Task
  /\ \A u \in Account, W \in SUBSET Role :
       [NoTask EXCEPT !.account = u, !.wanted = W, !.unchecked = W] \in Task
  /\ \A r \in Role, n \in Name \cup {None}, b \in BOOLEAN, P \in SUBSET Permission :
       [NoTask EXCEPT !.role = r, !.name = n, !.regrant = b, !.grants = P] \in Task
  /\ \A r \in Role, P \in SUBSET Permission :
       [NoTask EXCEPT !.role = r, !.regrant = TRUE, !.grants = P] \in Task
  /\ \A r \in Role : [NoTask EXCEPT !.role = r] \in Task
  BY DEF Task, NoTask

(* The fields of a request in flight have their types. *)
LEMMA TaskFields ==
  ASSUME RolesTypeOK, NEW h \in Handler
  PROVE  /\ task[h] \in Task
         /\ task[h].account \in Account
         /\ task[h].wanted \in SUBSET Role
         /\ task[h].unchecked \in SUBSET Role
         /\ task[h].role \in Role
         /\ task[h].name \in Name \cup {None}
         /\ task[h].grants \in SUBSET Permission
         /\ \A r : [task[h] EXCEPT !.unchecked = @ \ {r}] \in Task
  BY DEF RolesTypeOK, Task

(* The initial state: the seeded roles, and nobody in flight. *)
LEMMA RolesInitInvariant == RolesInit => RolesIInv
<1> SUFFICES ASSUME RolesInit PROVE RolesIInv
  OBVIOUS
<1>1. RolesTypeOK
  <2>1. Live \subseteq spent /\ spent \subseteq Role
    BY DEF RolesInit
  <2>2. name \in [Role -> Name \cup {None}] /\ granted \in [Role -> SUBSET Permission]
    BY DEF RolesInit
  <2>3. held \in [Account -> SUBSET Role] /\ joined \in [Account -> Joined]
    BY DEF RolesInit, Joined
  <2> QED
    BY TaskTypes, <2>1, <2>2, <2>3 DEF RolesInit, RolesTypeOK
<1>2. NoRequestTouchesAdmin
  BY DEF RolesInit, NoRequestTouchesAdmin
<1>3. AdminRoleStands
  BY DEF RolesInit, AdminRoleStands, RolesNamed
<1>4. UnusedIdsAreBlank
  BY DEF RolesInit, UnusedIdsAreBlank, NoTask
<1> QED
  BY <1>1, <1>2, <1>3, <1>4 DEF RolesIInv

(* The part of the invariant that is about the administrator's role.       *)
RolesCore == RolesTypeOK /\ NoRequestTouchesAdmin /\ AdminRoleStands

(* No step of any request, of a registration or of a restart touches the   *)
(* administrator's role.                                                   *)
LEMMA RolesCoreStep == RolesCore /\ [RolesNext]_rolesVars => RolesCore'
<1> SUFFICES ASSUME RolesCore, [RolesNext]_rolesVars PROVE RolesCore'
  OBVIOUS
<1> USE TaskTypes, TaskFields DEF RolesCore
<1>1. ASSUME NEW h \in Handler, NEW u \in Account, NEW W \in SUBSET Role, AssignFind(h, u, W)
      PROVE  RolesCore'
  <2>1. RolesTypeOK'
    BY <1>1 DEF AssignFind, Begin, RolesTypeOK
  <2>2. NoRequestTouchesAdmin'
    BY <1>1 DEF AssignFind, Begin, RolesTypeOK, NoRequestTouchesAdmin, NoTask
  <2>3. AdminRoleStands'
    BY <1>1 DEF AssignFind, AdminRoleStands, RolesNamed
  <2> QED
    BY <2>1, <2>2, <2>3
<1>2. ASSUME NEW h \in Handler, NEW r \in Role, AssignCheck(h, r) PROVE RolesCore'
  <2>1. RolesTypeOK'
    <3>1. [task[h] EXCEPT !.unchecked = @ \ {r}] \in Task
      BY DEF Task
    <3>2. task' \in [Handler -> Task]
      <4>1. CASE Conclude(h)
        BY <4>1 DEF Conclude, RolesTypeOK
      <4>2. CASE task' = [task EXCEPT ![h].unchecked = @ \ {r}]
        BY <3>1, <4>2 DEF RolesTypeOK
      <4> QED
        BY <1>2, <4>1, <4>2 DEF AssignCheck
    <3>3. stage' \in [Handler -> Stage]
      BY <1>2 DEF AssignCheck, Conclude, RolesTypeOK
    <3> QED
      BY <1>2, <3>2, <3>3 DEF AssignCheck, RolesTypeOK
  <2>2. NoRequestTouchesAdmin'
    <3>1. r = AdminRole => name[r] = AdminName
      BY DEF AdminRoleStands, RolesNamed
    <3>2. CASE Conclude(h)
      BY <1>2, <3>2 DEF Conclude, RolesTypeOK, NoRequestTouchesAdmin
    <3>3. CASE /\ name[r] # AdminName
               /\ task' = [task EXCEPT ![h].unchecked = @ \ {r}]
               /\ UNCHANGED stage
      <4>1. /\ task'[h].account = task[h].account
            /\ task'[h].wanted = task[h].wanted
            /\ task'[h].unchecked = task[h].unchecked \ {r}
        <5>1. task'[h] = [task[h] EXCEPT !.unchecked = @ \ {r}]
          BY <3>3 DEF RolesTypeOK
        <5> QED
          BY <5>1 DEF Task
      <4>2. AdminRole \notin task'[h].wanted \ task'[h].unchecked /\ task'[h].account # Super
        BY <1>2, <3>1, <3>3, <4>1 DEF AssignCheck, NoRequestTouchesAdmin
      <4>3. \A g \in Handler : g # h => task'[g] = task[g]
        BY <3>3 DEF RolesTypeOK
      <4>4. stage' = stage /\ stage[h] = "check"
        BY <1>2, <3>3 DEF AssignCheck
      <4> QED
        BY <4>2, <4>3, <4>4 DEF NoRequestTouchesAdmin
    <3> QED
      BY <1>2, <3>2, <3>3 DEF AssignCheck
  <2>3. AdminRoleStands'
    BY <1>2 DEF AssignCheck, AdminRoleStands, RolesNamed
  <2> QED
    BY <2>1, <2>2, <2>3
<1>3. ASSUME NEW h \in Handler, AssignWrite(h) PROVE RolesCore'
  <2>1. RolesTypeOK'
    BY <1>3 DEF AssignWrite, AssignRoles, Conclude, RolesTypeOK
  <2>2. NoRequestTouchesAdmin'
    BY <1>3 DEF AssignWrite, Conclude, RolesTypeOK, NoRequestTouchesAdmin
  <2>3. AdminRoleStands'
    <3>1. task[h].account # Super /\ AdminRole \notin task[h].wanted
      BY <1>3 DEF AssignWrite, NoRequestTouchesAdmin
    <3> QED
      BY <1>3, <3>1 DEF AssignWrite, AssignRoles, AdminRoleStands, RolesNamed, RolesTypeOK
  <2> QED
    BY <2>1, <2>2, <2>3
<1>4. ASSUME NEW h \in Handler, NEW r \in Role, NEW n \in Name \cup {None},
             NEW b \in BOOLEAN, NEW P \in SUBSET Permission, UpdateFind(h, r, n, b, P)
      PROVE  RolesCore'
  <2>1. RolesTypeOK'
    BY <1>4 DEF UpdateFind, Begin, RolesTypeOK
  <2>2. NoRequestTouchesAdmin'
    <3>1. r # AdminRole
      BY <1>4 DEF UpdateFind, AdminRoleStands, RolesNamed
    <3> QED
      BY <1>4, <3>1 DEF UpdateFind, Begin, RolesTypeOK, NoRequestTouchesAdmin, NoTask
  <2>3. AdminRoleStands'
    BY <1>4 DEF UpdateFind, AdminRoleStands, RolesNamed
  <2> QED
    BY <2>1, <2>2, <2>3
<1>5. ASSUME NEW h \in Handler, UpdateWrite(h) PROVE RolesCore'
  <2>0. \/ name' = name
        \/ task[h].name \in Name /\ name' = [name EXCEPT ![task[h].role] = task[h].name]
             /\ RolesNamed(task[h].name) \subseteq {task[h].role}
    BY <1>5 DEF UpdateWrite
  <2>a. Conclude(h) \/ (stage' = [stage EXCEPT ![h] = "grant"] /\ task' = task)
    BY <1>5 DEF UpdateWrite, GrantNext
  <2>1. RolesTypeOK'
    <3>1. stage' \in [Handler -> Stage] /\ task' \in [Handler -> Task]
      BY <2>a DEF Conclude, RolesTypeOK
    <3>2. Live' \subseteq spent' /\ name' \in [Role -> Name \cup {None}]
      BY <1>5, <2>0 DEF UpdateWrite, RolesTypeOK
    <3> QED
      BY <1>5, <3>1, <3>2 DEF UpdateWrite, RolesTypeOK
  <2>2. NoRequestTouchesAdmin'
    BY <1>5, <2>a DEF UpdateWrite, Conclude, RolesTypeOK, NoRequestTouchesAdmin
  <2>3. AdminRoleStands'
    <3>1. task[h].role # AdminRole
      BY <1>5 DEF UpdateWrite, NoRequestTouchesAdmin
    <3>2. name'[AdminRole] = name[AdminRole]
      BY <2>0, <3>1 DEF RolesTypeOK
    <3>3. \A r \in Role : name'[r] = AdminName => name[r] = AdminName
      BY <2>0, <3>1 DEF RolesTypeOK, AdminRoleStands, RolesNamed
    <3>4. RolesNamed(AdminName)' = {AdminRole}
      BY <3>2, <3>3 DEF AdminRoleStands, RolesNamed
    <3> QED
      BY <1>5, <3>4 DEF UpdateWrite, AdminRoleStands
  <2> QED
    BY <2>1, <2>2, <2>3
<1>6. ASSUME NEW h \in Handler, NEW r \in Role, DeleteFind(h, r) PROVE RolesCore'
  <2>1. RolesTypeOK'
    BY <1>6 DEF DeleteFind, Begin, RolesTypeOK
  <2>2. NoRequestTouchesAdmin'
    <3>1. r # AdminRole
      BY <1>6 DEF DeleteFind, AdminRoleStands, RolesNamed
    <3> QED
      BY <1>6, <3>1 DEF DeleteFind, Begin, RolesTypeOK, NoRequestTouchesAdmin, NoTask
  <2>3. AdminRoleStands'
    BY <1>6 DEF DeleteFind, AdminRoleStands, RolesNamed
  <2> QED
    BY <2>1, <2>2, <2>3
<1>7. ASSUME NEW h \in Handler, DeleteWrite(h) PROVE RolesCore'
  <2>1. RolesTypeOK'
    <3>1. held' \in [Account -> SUBSET Role] /\ granted' \in [Role -> SUBSET Permission]
      BY <1>7 DEF DeleteWrite, Release, RolesTypeOK
    <3>2. stage' \in [Handler -> Stage] /\ task' \in [Handler -> Task]
      BY <1>7 DEF DeleteWrite, Conclude, RolesTypeOK
    <3>3. name' \in [Role -> Name \cup {None}] /\ Live' \subseteq spent'
      BY <1>7 DEF DeleteWrite, RolesTypeOK
    <3> QED
      BY <1>7, <3>1, <3>2, <3>3 DEF DeleteWrite, RolesTypeOK
  <2>2. NoRequestTouchesAdmin'
    BY <1>7 DEF DeleteWrite, Conclude, RolesTypeOK, NoRequestTouchesAdmin
  <2>3. AdminRoleStands'
    <3>1. task[h].role # AdminRole
      BY <1>7 DEF DeleteWrite, NoRequestTouchesAdmin
    <3>2. RolesNamed(AdminName)' = {AdminRole}
      BY <1>7, <3>1 DEF DeleteWrite, RolesTypeOK, AdminRoleStands, RolesNamed
    <3>3. \A u \in Account : AdminRole \in held'[u] <=> AdminRole \in held[u]
      BY <1>7, <3>1 DEF DeleteWrite, Release
    <3>4. granted'[AdminRole] = granted[AdminRole]
      BY <1>7, <3>1 DEF DeleteWrite, Release, RolesTypeOK
    <3> QED
      BY <1>7, <3>2, <3>3, <3>4 DEF DeleteWrite, AdminRoleStands
  <2> QED
    BY <2>1, <2>2, <2>3
<1>8. ASSUME NEW h \in Handler, GiveUp(h) PROVE RolesCore'
  <2>1. RolesTypeOK'
    BY <1>8 DEF GiveUp, Conclude, RolesTypeOK
  <2>2. NoRequestTouchesAdmin'
    BY <1>8 DEF GiveUp, Conclude, RolesTypeOK, NoRequestTouchesAdmin
  <2>3. AdminRoleStands'
    BY <1>8 DEF GiveUp, AdminRoleStands, RolesNamed
  <2> QED
    BY <2>1, <2>2, <2>3
<1>9. ASSUME NEW u \in Account, RegisterInserts(u) \/ RegisterAssigns(u) \/ RegisterFails(u)
      PROVE  RolesCore'
  <2>0. u # Seeded
    BY <1>9 DEF RegisterInserts, RegisterAssigns, RegisterFails, AdminRoleStands
  <2>a. /\ held' = held \/ held' = [held EXCEPT ![u] = {UserRole}]
        /\ \/ joined' = [joined EXCEPT ![u] = "registering"]
           \/ joined' = [joined EXCEPT ![u] = "registered"]
        /\ UNCHANGED <<name, spent, granted, fk, stage, task>>
    BY <1>9 DEF RegisterInserts, RegisterAssigns, RegisterFails, AssignRoles
  <2>b. held' \in [Account -> SUBSET Role]
    <3>1. held \in [Account -> SUBSET Role] /\ {UserRole} \in SUBSET Role
      BY DEF RolesTypeOK
    <3>2. CASE held' = held
      BY <3>1, <3>2
    <3>3. CASE held' = [held EXCEPT ![u] = {UserRole}]
      BY <3>1, <3>3
    <3> QED
      BY <2>a, <3>2, <3>3
  <2>c. joined' \in [Account -> Joined]
    BY <2>a DEF RolesTypeOK, Joined
  <2>1. RolesTypeOK'
    BY <2>a, <2>b, <2>c DEF RolesTypeOK
  <2>2. NoRequestTouchesAdmin'
    BY <1>9 DEF RegisterInserts, RegisterAssigns, RegisterFails, NoRequestTouchesAdmin
  <2>3. AdminRoleStands'
    <3>1. joined'[Seeded] = joined[Seeded] /\ held'[Seeded] = held[Seeded]
      BY <2>0, <2>a DEF RolesTypeOK
    <3>2. ASSUME NEW w \in Account, AdminRole \in held'[w] PROVE AdminRole \in held[w]
      <4>1. held \in [Account -> SUBSET Role]
        BY DEF RolesTypeOK
      <4>2. held'[w] = held[w] \/ held'[w] = {UserRole}
        BY <2>a, <4>1, Zenon
      <4> QED
        BY <3>2, <4>2
    <3>3. RolesNamed(AdminName)' = RolesNamed(AdminName)
      BY <2>a DEF RolesNamed
    <3> QED
      BY <2>a, <3>1, <3>2, <3>3 DEF AdminRoleStands
  <2> QED
    BY <2>1, <2>2, <2>3
<1>10. ASSUME NEW h \in Handler, NEW r \in Role, NEW n \in Name, NEW P \in SUBSET Permission,
              CreateRole(h, r, n, P)
       PROVE  RolesCore'
  <2>0. \/ stage' = stage /\ task' = task
        \/ Begin(h, "grant", [NoTask EXCEPT !.role = r, !.regrant = TRUE, !.grants = P])
    BY <1>10 DEF CreateRole
  <2>1. RolesTypeOK'
    <3>0. [NoTask EXCEPT !.role = r, !.regrant = TRUE, !.grants = P] \in Task
      BY Zenon
    <3>1. stage' \in [Handler -> Stage] /\ task' \in [Handler -> Task]
      BY <2>0, <3>0 DEF Begin, RolesTypeOK
    <3>2. name' \in [Role -> Name \cup {None}] /\ Live' \subseteq spent' /\ spent' \subseteq Role
      BY <1>10 DEF CreateRole, RolesTypeOK
    <3> QED
      BY <1>10, <3>1, <3>2 DEF CreateRole, RolesTypeOK
  <2>2. NoRequestTouchesAdmin'
    <3>1. r # AdminRole
      BY <1>10 DEF CreateRole, AdminRoleStands
    <3>2. CASE stage' = stage /\ task' = task
      BY <3>2 DEF NoRequestTouchesAdmin
    <3>3. CASE Begin(h, "grant", [NoTask EXCEPT !.role = r, !.regrant = TRUE, !.grants = P])
      BY <3>1, <3>3 DEF Begin, RolesTypeOK, NoRequestTouchesAdmin, NoTask
    <3> QED
      BY <2>0, <3>2, <3>3
  <2>3. AdminRoleStands'
    BY <1>10 DEF CreateRole, AdminRoleStands, RolesNamed, RolesTypeOK
  <2> QED
    BY <2>1, <2>2, <2>3
<1>11. CASE Restart
  <2>1. RolesTypeOK'
    BY <1>11 DEF Restart, RolesTypeOK, Joined
  <2>2. NoRequestTouchesAdmin'
    BY <1>11 DEF Restart, NoRequestTouchesAdmin
  <2>3. AdminRoleStands'
    BY <1>11 DEF Restart, AdminRoleStands, RolesNamed, RolesTypeOK
  <2> QED
    BY <2>1, <2>2, <2>3
<1>12. ASSUME NEW h \in Handler, SetPermissions(h) PROVE RolesCore'
  <2>1. RolesTypeOK'
    BY <1>12 DEF SetPermissions, Conclude, RolesTypeOK
  <2>2. NoRequestTouchesAdmin'
    BY <1>12 DEF SetPermissions, Conclude, RolesTypeOK, NoRequestTouchesAdmin
  <2>3. AdminRoleStands'
    <3>1. task[h].role # AdminRole
      BY <1>12 DEF SetPermissions, NoRequestTouchesAdmin
    <3> QED
      BY <1>12, <3>1 DEF SetPermissions, AdminRoleStands, RolesNamed, RolesTypeOK
  <2> QED
    BY <2>1, <2>2, <2>3
<1>13. CASE UNCHANGED rolesVars
  BY <1>13 DEF rolesVars, RolesTypeOK, NoRequestTouchesAdmin, AdminRoleStands, RolesNamed
<1>14. ASSUME NEW h \in Handler, NEW r \in Role, NEW n \in Name \cup {None},
              NEW P \in SUBSET Permission,
              UpdateFind(h, r, n, TRUE, P) \/ UpdateFind(h, r, n, FALSE, {})
       PROVE  RolesCore'
  <2>1. TRUE \in BOOLEAN /\ FALSE \in BOOLEAN /\ {} \in SUBSET Permission
    OBVIOUS
  <2>2. CASE UpdateFind(h, r, n, TRUE, P)
    BY <1>4, <2>1, <2>2, Zenon
  <2>3. CASE UpdateFind(h, r, n, FALSE, {})
    BY <1>4, <2>1, <2>3, Zenon
  <2> QED
    BY <1>14, <2>2, <2>3
<1> QED
  BY <1>1, <1>2, <1>3, <1>14, <1>5, <1>6, <1>7, <1>8, <1>9, <1>10, <1>11, <1>12, <1>13 DEF RolesNext

(* Requests set permissions only for roles they found or created, so the   *)
(* ids nobody has used stay without.                                       *)
LEMMA UnusedStep ==
  RolesTypeOK /\ UnusedIdsAreBlank /\ [RolesNext]_rolesVars => UnusedIdsAreBlank'
<1> SUFFICES ASSUME RolesTypeOK, UnusedIdsAreBlank, [RolesNext]_rolesVars
             PROVE  UnusedIdsAreBlank'
  OBVIOUS
<1>0. /\ Live \subseteq spent
      /\ granted \in [Role -> SUBSET Permission] /\ task \in [Handler -> Task]
      /\ \A r \in Role \ spent : granted[r] = {}
      /\ \A h \in Handler : task[h].role \in spent
      /\ UserRole \in spent /\ NoTask.role \in spent
  <2>1. NoTask.role = UserRole
    BY DEF NoTask
  <2> QED
    BY <2>1 DEF RolesTypeOK, UnusedIdsAreBlank
(* The task of one request at most is replaced, by one about a used id.    *)
<1>a. ASSUME spent \subseteq spent', UNCHANGED granted, NEW h \in Handler,
             NEW j, j.role \in spent', task' = task \/ task' = [task EXCEPT ![h] = j]
      PROVE  UnusedIdsAreBlank'
  BY <1>0, <1>a DEF UnusedIdsAreBlank
<1>1. ASSUME NEW h \in Handler, NEW u \in Account, NEW W \in SUBSET Role, AssignFind(h, u, W)
      PROVE  UnusedIdsAreBlank'
  <2>1. [NoTask EXCEPT !.account = u, !.wanted = W, !.unchecked = W].role = NoTask.role
    BY DEF NoTask
  <2>2. PICK j : j.role \in spent /\ task' = [task EXCEPT ![h] = j]
    BY <1>0, <1>1, <2>1 DEF AssignFind, Begin
  <2> QED
    BY <1>1, <1>a, <2>2 DEF AssignFind
<1>2. ASSUME NEW h \in Handler, NEW r \in Role, AssignCheck(h, r) PROVE UnusedIdsAreBlank'
  <2>1. [task[h] EXCEPT !.unchecked = @ \ {r}].role = task[h].role
    BY <1>0 DEF Task
  <2>2. PICK j : j.role \in spent /\ task' = [task EXCEPT ![h] = j]
    BY <1>0, <1>2, <2>1 DEF AssignCheck, Conclude
  <2> QED
    BY <1>2, <1>a, <2>2 DEF AssignCheck
<1>3. ASSUME NEW h \in Handler, AssignWrite(h) \/ GiveUp(h) PROVE UnusedIdsAreBlank'
  BY <1>0, <1>3, <1>a DEF AssignWrite, GiveUp, Conclude
<1>4. ASSUME NEW h \in Handler, NEW r \in Role, NEW n \in Name, NEW P \in SUBSET Permission,
             CreateRole(h, r, n, P)
      PROVE  UnusedIdsAreBlank'
  <2>1. [NoTask EXCEPT !.role = r, !.regrant = TRUE, !.grants = P].role = r
    BY DEF NoTask
  <2>2. /\ spent' = spent \cup {r} /\ UNCHANGED granted
        /\ \/ task' = task
           \/ task' = [task EXCEPT ![h] =
                         [NoTask EXCEPT !.role = r, !.regrant = TRUE, !.grants = P]]
    BY <1>4 DEF CreateRole, Begin
  <2>3. CASE task' = task
    BY <1>0, <2>2, <2>3 DEF UnusedIdsAreBlank
  <2>4. CASE task' # task
    <3>1. PICK j : j.role = r /\ task' = [task EXCEPT ![h] = j]
      BY <2>1, <2>2, <2>4
    <3> QED
      BY <1>a, <2>2, <3>1
  <2> QED
    BY <2>3, <2>4
<1>5. ASSUME NEW h \in Handler, NEW r \in Role, NEW n, NEW b, NEW P, UpdateFind(h, r, n, b, P)
      PROVE  UnusedIdsAreBlank'
  <2>1. [NoTask EXCEPT !.role = r, !.name = n, !.regrant = b, !.grants = P].role = r
    BY DEF NoTask
  <2>2. r \in spent
    BY <1>0, <1>5 DEF UpdateFind
  <2>3. PICK j : j.role \in spent /\ task' = [task EXCEPT ![h] = j]
    BY <1>5, <2>1, <2>2 DEF UpdateFind, Begin
  <2> QED
    BY <1>5, <1>a, <2>3 DEF UpdateFind
<1>6. ASSUME NEW h \in Handler, NEW r \in Role, DeleteFind(h, r) PROVE UnusedIdsAreBlank'
  <2>1. [NoTask EXCEPT !.role = r].role = r
    BY DEF NoTask
  <2>2. r \in spent
    BY <1>0, <1>6 DEF DeleteFind
  <2>3. PICK j : j.role \in spent /\ task' = [task EXCEPT ![h] = j]
    BY <1>6, <2>1, <2>2 DEF DeleteFind, Begin
  <2> QED
    BY <1>6, <1>a, <2>3 DEF DeleteFind
<1>7. ASSUME NEW h \in Handler, UpdateWrite(h) PROVE UnusedIdsAreBlank'
  BY <1>0, <1>7, <1>a DEF UpdateWrite, GrantNext, Conclude
(* The permissions of the role that a request is about are replaced.       *)
<1>8. ASSUME NEW h \in Handler, SetPermissions(h) \/ DeleteWrite(h) PROVE UnusedIdsAreBlank'
  <2>1. /\ \A r \in Role : r # task[h].role => granted'[r] = granted[r]
        /\ spent' = spent /\ Conclude(h)
    BY <1>0, <1>8 DEF SetPermissions, DeleteWrite, Release
  <2>2. \A g \in Handler : task'[g] \in {task[g], NoTask}
    BY <1>0, <2>1 DEF Conclude
  <2> QED
    BY <1>0, <2>1, <2>2 DEF UnusedIdsAreBlank
<1>9. ASSUME NEW u \in Account, RegisterInserts(u) \/ RegisterAssigns(u) \/ RegisterFails(u)
      PROVE  UnusedIdsAreBlank'
  BY <1>0, <1>9 DEF RegisterInserts, RegisterAssigns, RegisterFails, UnusedIdsAreBlank
<1>10. CASE Restart
  BY <1>0, <1>10 DEF Restart, UnusedIdsAreBlank
<1>11. CASE UNCHANGED rolesVars
  BY <1>0, <1>11 DEF rolesVars, UnusedIdsAreBlank
<1> QED
  BY <1>1, <1>2, <1>3, <1>4, <1>5, <1>6, <1>7, <1>8, <1>9, <1>10, <1>11 DEF RolesNext

(* Every action preserves the inductive invariant. *)
LEMMA RolesIInvStep == RolesIInv /\ [RolesNext]_rolesVars => RolesIInv'
  BY RolesCoreStep, UnusedStep DEF RolesIInv, RolesCore

(* Every reachable state satisfies the inductive invariant: the role       *)
(* "admin" keeps its id, its name, its permissions and its only holder, and *)
(* no request in flight is about to change that.                           *)
THEOREM RolesInvariant == RolesSpec => []RolesIInv
<1> QED
  BY RolesInitInvariant, RolesIInvStep, PTL DEF RolesSpec

(* Every variable keeps its type, and every role has an id of the sequence. *)
THEOREM RolesTypeCorrect == RolesSpec => []RolesTypeOK
<1>1. RolesIInv => RolesTypeOK
  BY DEF RolesIInv
<1> QED
  BY <1>1, RolesInvariant, PTL

(* However lookups and writes of administrators' requests interleave, the  *)
(* seeded administrator alone holds a role named "admin", which permits    *)
(* everything, and keeps it as the super admin.                            *)
THEOREM OnlySuperHoldsAdmin == RolesSpec => []AdminRoleIsReserved
<1>1. ASSUME RolesIInv, NEW u \in Account
      PROVE  (\E r \in held[u] : name[r] = AdminName) <=> AdminRole \in held[u]
  BY <1>1 DEF RolesIInv, RolesTypeOK, AdminRoleStands, RolesNamed
<1>2. RolesIInv => AdminRoleIsReserved
  BY <1>1 DEF RolesIInv, AdminRoleStands, AdminRoleIsReserved
<1> QED
  BY <1>2, RolesInvariant, PTL

(* A role that is created permits nothing yet, with and without foreign    *)
(* keys, since no id is used twice and no edit creates a role.             *)
THEOREM NewRolesAreBlank == RolesSpec => NewRolesPermitNothing
<1>1. ASSUME RolesIInv, [RolesNext]_rolesVars, NEW r \in Role, r \notin Live, r \in Live'
      PROVE  granted'[r] = {}
  <2>0. name \in [Role -> Name \cup {None}] /\ name'[r] # name[r]
    BY <1>1 DEF RolesIInv, RolesTypeOK
  <2>1. ASSUME NEW h \in Handler, NEW k \in Role, NEW n \in Name,
               NEW P \in SUBSET Permission, CreateRole(h, k, n, P)
        PROVE  granted'[r] = {}
    <3>1. k = r
      BY <2>0, <2>1 DEF CreateRole
    <3> QED
      BY <1>1, <2>1, <3>1 DEF CreateRole, RolesIInv, UnusedIdsAreBlank
  <2>2. ASSUME NEW h \in Handler, UpdateWrite(h) \/ DeleteWrite(h) PROVE FALSE
    BY <1>1, <2>0, <2>2 DEF UpdateWrite, DeleteWrite
  <2>3. CASE UNCHANGED name
    BY <2>0, <2>3
  <2> QED
    BY <1>1, <2>1, <2>2, <2>3
    DEF RolesNext, rolesVars, AssignFind, AssignCheck, AssignWrite, UpdateFind, SetPermissions,
        DeleteFind, GiveUp, RegisterInserts, RegisterAssigns, RegisterFails, Restart
<1>2. RolesIInv /\ [RolesNext]_rolesVars =>
        [\A r \in Role : r \notin Live /\ r \in Live' => granted'[r] = {}]_rolesVars
  BY <1>1
<1> QED
  BY <1>2, RolesInvariant, PTL DEF RolesSpec, NewRolesPermitNothing

=============================================================================
