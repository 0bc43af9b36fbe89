---------------------------- MODULE LoginThrottle ----------------------------
(***************************************************************************)
(* The throttle of AuthService.Login (service/auth.go) on the login log    *)
(* (repository/login_log.go): failures of a name or of an address are      *)
(* counted before the password is compared, and the attempt is logged      *)
(* afterwards.  Two attempts interleave between the two.                   *)
(*                                                                         *)
(* created_at is written by SQLite as "YYYY-MM-DD HH:MM:SS" and compared,  *)
(* as text, with the RFC 3339 form of now minus LockMinutes, in which a    *)
(* "T" stands where the other has a blank.  A blank sorts before a "T", so *)
(* of two moments of one day the stored one is always the smaller: the     *)
(* comparison is one of dates.  Both are UTC.                              *)
(***************************************************************************)
EXTENDS Integers, Sequences, FiniteSets

CONSTANTS
  Name,         \* identifiers: phones and user names
  IP,
  Login,        \* slots for attempts in flight
  MaxAttempts,  \* cfg.LoginMaxAttempts
  LockMinutes,  \* cfg.LoginLockMinutes, in ticks
  Day,          \* length of a day, in ticks
  MaxTime,      \* bound: the clock stops there
  MaxRows       \* bound: rows of the log

ASSUME ThrottleAssumption ==
  /\ Name # {} /\ IP # {} /\ IsFiniteSet(Login)
  /\ MaxAttempts \in Nat \ {0} /\ LockMinutes \in Nat \ {0} /\ Day \in Nat \ {0}
  /\ LockMinutes < Day
  /\ MaxTime \in Nat /\ MaxRows \in Nat

VARIABLES
  now,          \* the clock, in ticks since a midnight
  logged,       \* login_logs, in the order of insertion; rows of success
                \* are left out, since no query looks for them
  stage, login  \* the next step and the local variables of each attempt

throttleVars == <<now, logged, stage, login>>

Result == {"failed", "locked", "success"}
LogRow == [name : Name, ip : IP, result : {"failed", "locked"}, at : Nat]
LoginRecord == [name : Name, ip : IP, result : Result, asOf : Nat]

Date(t) == t \div Day

(* The local variables of an idle slot; any name and address will do.      *)
NoAttempt == [name |-> CHOOSE n \in Name : TRUE, ip |-> CHOOSE a \in IP : TRUE,
              result |-> "success", asOf |-> 0]

ThrottleInit ==
  /\ now = 0
  /\ logged = << >>
  /\ stage = [h \in Login |-> "idle"]
  /\ login = [h \in Login |-> NoAttempt]

-----------------------------------------------------------------------------

(* Failures of n or from a. *)
Failures(n, a) ==
  {i \in DOMAIN logged : /\ logged[i].name = n \/ logged[i].ip = a
                         /\ logged[i].result = "failed"}

(* Mutants of Counted: any row counts, and name and address must both agree. *)
CountedAnyResult(n, a) ==
  {i \in DOMAIN logged : /\ logged[i].name = n \/ logged[i].ip = a
                         /\ Date(logged[i].at) > Date(now - LockMinutes)}

CountedBoth(n, a) ==
  {i \in Failures(n, a) : /\ logged[i].name = n /\ logged[i].ip = a
                          /\ Date(logged[i].at) > Date(now - LockMinutes)}

(* CountFailures: the rows its query counts. *)
Counted(n, a) == {i \in Failures(n, a) : Date(logged[i].at) > Date(now - LockMinutes)}

Go(h, from, to, r) ==
  /\ stage[h] = from
  /\ stage' = [stage EXCEPT ![h] = to]
  /\ login' = [login EXCEPT ![h] = r]

(* Login looks the user up and counts.  The account is not needed to       *)
(* refuse an attempt, nor do its rows count less if it does not exist.     *)
Attempt(h, n, a) ==
  /\ LET locked == Cardinality(Counted(n, a)) >= MaxAttempts
     IN Go(h, "idle", IF locked THEN "log" ELSE "compare",
           [name |-> n, ip |-> a, result |-> IF locked THEN "locked" ELSE "success",
            asOf |-> now])
  /\ UNCHANGED <<now, logged>>

(* The password is compared and the period evaluated.  An unknown user, a  *)
(* disabled account, a wrong password and an expired period all fail.      *)
Compare(h, result) ==
  /\ Go(h, "compare", "log", [login[h] EXCEPT !.result = result])
  /\ UNCHANGED <<now, logged>>

(* logLogin.  The error of the insertion is dropped (stored = FALSE), and  *)
(* so is the row when the process ends before it.                          *)
LogLogin(h, stored) ==
  /\ Go(h, "log", "idle", NoAttempt)
  /\ IF stored /\ login[h].result # "success"
     THEN /\ Len(logged) < MaxRows
          /\ logged' = Append(logged, [name |-> login[h].name, ip |-> login[h].ip,
                                       result |-> login[h].result, at |-> now])
     ELSE UNCHANGED logged
  /\ UNCHANGED now

Tick ==
  /\ now < MaxTime
  /\ now' = now + 1
  /\ UNCHANGED <<logged, stage, login>>

ThrottleNext ==
  \/ \E h \in Login, n \in Name, a \in IP : Attempt(h, n, a)
  \/ \E h \in Login, r \in {"failed", "success"} : Compare(h, r)
  \/ \E h \in Login, stored \in BOOLEAN : LogLogin(h, stored)
  \/ Tick

ThrottleSpec == ThrottleInit /\ [][ThrottleNext]_throttleVars

-----------------------------------------------------------------------------

(* Every variable has its type, and no row is of a time to come.           *)
ThrottleTypeOK ==
  /\ now \in Nat
  /\ logged \in Seq(LogRow)
  /\ \A i \in DOMAIN logged : logged[i].at <= now
  /\ stage \in [Login -> {"idle", "compare", "log"}]
  /\ login \in [Login -> LoginRecord]

(* Whoever is refused for too many attempts has failed that often within   *)
(* the last LockMinutes, under that name or from that address.  So a lock  *)
(* ends by itself, and attempts made while it lasts do not prolong it.     *)
LockedForCause ==
  \A h \in Login :
    stage[h] = "log" /\ login[h].result = "locked"
      => Cardinality({i \in Failures(login[h].name, login[h].ip) :
                        logged[i].at > login[h].asOf - LockMinutes}) >= MaxAttempts

FailedToday(n) ==
  {i \in DOMAIN logged : /\ logged[i].name = n /\ logged[i].result = "failed"
                         /\ Date(logged[i].at) = Date(now)}

(* In the first LockMinutes of a day, where the comparison of dates counts *)
(* as the documents say, a name cannot fail more often than the limit and  *)
(* the attempts in flight, from however many addresses.                    *)
GuessesEarlyInTheDay ==
  \A n \in Name :
    now % Day < LockMinutes
      => Cardinality(FailedToday(n)) <= MaxAttempts - 1 + Cardinality(Login)

(* Strengthening: an attempt that was let through may still fail.          *)
MayFail(n) ==
  {h \in Login : /\ login[h].name = n
                 /\ stage[h] = "compare" \/ (stage[h] = "log" /\ login[h].result = "failed")}

FailuresAccountedFor ==
  \A n \in Name :
    now % Day < LockMinutes
      => Cardinality(FailedToday(n)) + Cardinality(MayFail(n))
           <= MaxAttempts - 1 + Cardinality(Login)

ThrottleInv == ThrottleTypeOK /\ LockedForCause /\ FailuresAccountedFor

=============================================================================
