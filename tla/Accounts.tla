------------------------------- MODULE Accounts -----------------------------
(***************************************************************************)
(* Registration and the usage policy of an account (service/auth.go        *)
(* Register, service/access.go).  Register looks a phone up, consumes an   *)
(* SMS code, and then creates the account, its role and its policy in      *)
(* three transactions; Evaluate, which every login, refresh, heartbeat and *)
(* listing of accounts calls, creates a policy that is missing.  The       *)
(* default policy is a copy of registration_defaults; what counts here is  *)
(* which edition of that template was copied.                              *)
(***************************************************************************)
EXTENDS Naturals, Directory

CONSTANTS
  Phone,
  MaxTemplate   \* bound: editions of registration_defaults

ASSUME AccountsAssumption ==
  /\ None \notin Phone \cup Account
  /\ MaxTemplate \in Nat \ {0}

VARIABLES
  phone,      \* users.phone, which is also users.username; None: no such row
  policy,     \* user_access_control
  template,   \* the edition of registration_defaults
  born,       \* history: the edition when the account was created
  settled,    \* history: the edition when its Register ended; 0 before that
  cutShort,   \* history: accounts whose Register ended with an error
  pc, job     \* the next statement and the local variables of each request

vars == <<phone, policy, template, born, settled, cutShort, pc, job>>

Edition == 1..MaxTemplate

(* No row, a copy of an edition of the template, or what an administrator  *)
(* set.                                                                    *)
NoPolicy == [kind |-> "none", of |-> 0]
SetPolicy == [kind |-> "set", of |-> 0]
Policy == {NoPolicy, SetPolicy} \cup [kind : {"copy"}, of : Edition]

(* account is None as long as Register has not created it.                 *)
Job == [phone : Phone \cup {None}, account : Account \cup {None}, copy : Edition \cup {0},
        registering : BOOLEAN]
NoJob == [phone |-> None, account |-> None, copy |-> 0, registering |-> FALSE]

Init ==
  /\ phone = [u \in Account |-> None]
  /\ policy = [u \in Account |-> NoPolicy]
  /\ template = 1
  /\ born = [u \in Account |-> 0]
  /\ settled = [u \in Account |-> 0]
  /\ cutShort = {}
  /\ pc = [h \in Handler |-> "idle"]
  /\ job = [h \in Handler |-> NoJob]

-----------------------------------------------------------------------------

Exists(u) == phone[u] # None
Taken(p) == \E u \in Account : phone[u] = p

Continue(h, from, to) ==
  /\ pc[h] = from
  /\ pc' = [pc EXCEPT ![h] = to]

Finish(h) ==
  /\ pc' = [pc EXCEPT ![h] = "idle"]
  /\ job' = [job EXCEPT ![h] = NoJob]

(* Register: FindByPhone, and VerifyCode, whose outcome is free here (see  *)
(* SMSVerification); a refusal ends the request without a trace.           *)
RegisterFindPhone(h, p) ==
  /\ Continue(h, "idle", "findUsername")
  /\ ~Taken(p)
  /\ job' = [job EXCEPT ![h] = [NoJob EXCEPT !.phone = p, !.registering = TRUE]]
  /\ UNCHANGED <<phone, policy, template, born, settled, cutShort>>

(* Register: FindByUsername, with the phone as the user name.              *)
RegisterFindUsername(h) ==
  /\ \/ /\ ~Taken(job[h].phone)
        /\ Continue(h, "findUsername", "create")
        /\ UNCHANGED job
     \/ /\ Taken(job[h].phone)
        /\ pc[h] = "findUsername"
        /\ Finish(h)
  /\ UNCHANGED <<phone, policy, template, born, settled, cutShort>>

(* UserRepo.Create.  The UNIQUE indexes on phone and username are what     *)
(* stops the second of two registrations that both passed the lookups.     *)
InsertUser(h, u) ==
  /\ Continue(h, "create", "assignRole")
  /\ ~Exists(u)
  /\ ~Taken(job[h].phone)
  /\ phone' = [phone EXCEPT ![u] = job[h].phone]
  /\ born' = [born EXCEPT ![u] = template]
  /\ job' = [job EXCEPT ![h].account = u]
  /\ UNCHANGED <<policy, template, settled, cutShort>>

(* UserRepo.AssignRoles with the role "user"; what becomes of roles is in  *)
(* Roles, and a failure is an Abort.                                       *)
RegisterAssignRole(h) ==
  /\ Continue(h, "assignRole", "readDefaults")
  /\ UNCHANGED <<phone, policy, template, born, settled, cutShort, job>>

(* Evaluate: FindByUserID finds no policy.  If it finds one, Evaluate      *)
(* changes nothing.                                                        *)
EvaluateFindNone(h, u) ==
  /\ Exists(u)
  /\ policy[u] = NoPolicy
  /\ Continue(h, "idle", "readDefaults")
  /\ job' = [job EXCEPT ![h] = [NoJob EXCEPT !.account = u]]
  /\ UNCHANGED <<phone, policy, template, born, settled, cutShort>>

(* Mutants of ReadDefaults: an error of Get leaves the zero value, and the *)
(* defaults are read once, at the start of the process.                    *)
ReadDefaultsOrZero(h) ==
  /\ Continue(h, "readDefaults", "insertDefaults")
  /\ \E n \in {0, template} : job' = [job EXCEPT ![h].copy = n]
  /\ UNCHANGED <<phone, policy, template, born, settled, cutShort>>

ReadDefaultsOfStartup(h) ==
  /\ Continue(h, "readDefaults", "insertDefaults")
  /\ job' = [job EXCEPT ![h].copy = 1]
  /\ UNCHANGED <<phone, policy, template, born, settled, cutShort>>

(* AccessService.CreateDefault: registrationDefaultsRepo.Get.              *)
ReadDefaults(h) ==
  /\ Continue(h, "readDefaults", "insertDefaults")
  /\ job' = [job EXCEPT ![h].copy = template]
  /\ UNCHANGED <<phone, policy, template, born, settled, cutShort>>

(* What InsertDefaults leaves but for the row: Register returns the user.  *)
EndOfCreateDefault(h) ==
  LET u == job[h].account IN
  /\ settled' = IF job[h].registering THEN [settled EXCEPT ![u] = template] ELSE settled
  /\ Finish(h)
  /\ UNCHANGED <<phone, template, born, cutShort>>

(* Mutant of InsertDefaults: INSERT OR REPLACE.                            *)
ReplaceDefaults(h) ==
  /\ pc[h] = "insertDefaults"
  /\ policy' = [policy EXCEPT ![job[h].account] = [kind |-> "copy", of |-> job[h].copy]]
  /\ EndOfCreateDefault(h)

(* AccessRepo.CreateDefault: INSERT OR IGNORE.  Evaluate then reads the    *)
(* row that is there.                                                      *)
InsertDefaults(h) ==
  LET u == job[h].account IN
  /\ pc[h] = "insertDefaults"
  /\ policy' = IF policy[u] = NoPolicy
                 THEN [policy EXCEPT ![u] = [kind |-> "copy", of |-> job[h].copy]]
                 ELSE policy
  /\ EndOfCreateDefault(h)

(* An error between two statements, UNIQUE refusing the user included, a   *)
(* panic, or the end of the process: what was committed stays.             *)
Abort(h) ==
  LET u == job[h].account
      created == job[h].registering /\ u # None
  IN
  /\ pc[h] # "idle"
  /\ settled' = IF created THEN [settled EXCEPT ![u] = template] ELSE settled
  /\ cutShort' = IF created THEN cutShort \cup {u} ELSE cutShort
  /\ Finish(h)
  /\ UNCHANGED <<phone, policy, template, born>>

(* UpdateUserAccess: FindByID reads only what never changes, the upsert is *)
(* one statement, and Evaluate then finds the policy.                      *)
UpdateAccess(u) ==
  /\ Exists(u)
  /\ policy' = [policy EXCEPT ![u] = SetPolicy]
  /\ UNCHANGED <<phone, template, born, settled, cutShort, pc, job>>

(* RegistrationDefaultsRepo.Update. *)
UpdateRegistrationDefaults ==
  /\ template < MaxTemplate
  /\ template' = template + 1
  /\ UNCHANGED <<phone, policy, born, settled, cutShort, pc, job>>

Next ==
  \/ \E h \in Handler :
       \/ \E p \in Phone : RegisterFindPhone(h, p)
       \/ RegisterFindUsername(h)
       \/ \E u \in Account : InsertUser(h, u)
       \/ RegisterAssignRole(h)
       \/ \E u \in Account : EvaluateFindNone(h, u)
       \/ ReadDefaults(h)
       \/ InsertDefaults(h)
       \/ Abort(h)
  \/ \E u \in Account : UpdateAccess(u)
  \/ UpdateRegistrationDefaults

Spec == Init /\ [][Next]_vars

-----------------------------------------------------------------------------

Step == {"idle", "findUsername", "create", "assignRole", "readDefaults", "insertDefaults"}

(* Every variable has its type. *)
TypeOK ==
  /\ phone \in [Account -> Phone \cup {None}]
  /\ policy \in [Account -> Policy]
  /\ template \in Edition
  /\ born \in [Account -> Edition \cup {0}]
  /\ settled \in [Account -> Edition \cup {0}]
  /\ cutShort \subseteq Account
  /\ pc \in [Handler -> Step]
  /\ job \in [Handler -> Job]

(* However registrations, lazy creations of a policy and changes of the    *)
(* template interleave, a default policy is a copy of a template in force  *)
(* between the creation of the account and the end of its Register, which  *)
(* leaves no account without one.  Only an account whose Register was cut  *)
(* short may get its policy later, with the template of that day.          *)
CopiesDateFromRegistration ==
  \A u \in Account :
    /\ policy[u].kind = "copy" => born[u] <= policy[u].of
    /\ settled[u] # 0 /\ u \notin cutShort =>
         /\ policy[u] # NoPolicy
         /\ policy[u].of <= settled[u]

(* A request that found no policy may insert one after an administrator    *)
(* set it or another request created it: nothing but an administrator's    *)
(* update replaces a policy, and never by defaults.                        *)
SettingsStay ==
  [][\A u \in Account :
       policy[u] # NoPolicy /\ policy'[u] # policy[u] => policy'[u] = SetPolicy]_vars

(* Strengthening: a request works on an account that exists, and carries a *)
(* copy that it read after the account was created.                        *)
RequestsFollowAccounts ==
  \A h \in Handler :
    /\ pc[h] \in {"findUsername", "create"} => job[h].phone # None
    /\ pc[h] \in {"assignRole", "readDefaults", "insertDefaults"} => job[h].account # None
    /\ job[h].account # None => Exists(job[h].account)
    /\ pc[h] = "insertDefaults" =>
         born[job[h].account] <= job[h].copy /\ job[h].copy \in 1..template

(* Nothing was created or settled under an edition that has not appeared,  *)
(* and only an account has a policy.                                       *)
EditionsOrdered ==
  \A u \in Account :
    /\ born[u] <= template
    /\ settled[u] <= template
    /\ policy[u].of <= template
    /\ ~Exists(u) => policy[u] = NoPolicy

IInv ==
  /\ TypeOK
  /\ RequestsFollowAccounts
  /\ EditionsOrdered
  /\ CopiesDateFromRegistration

=============================================================================
