--------------------------- MODULE SMSVerification ---------------------------
(***************************************************************************)
(* SMS codes: the one-time captcha, SMSService.Send with its rate limits   *)
(* and its call to the SMS provider, and SMSService.VerifyCode             *)
(* (service/sms.go, repository/sms_verification.go).                       *)
(*                                                                         *)
(* VerifyCaptcha runs under mu and Send, from its first check to the       *)
(* insertion of the row, under sendMu.  Every other pair of statements of  *)
(* two requests may interleave.                                            *)
(***************************************************************************)
EXTENDS Naturals, Sequences, FiniteSets

CONSTANTS
  Phone, Purpose, IP,
  Code,          \* the codes randomDigits may draw
  Captcha,       \* the captcha ids that may ever be issued
  Handler,       \* slots for requests in flight
  None,          \* no handler holds sendMu, no captcha, no code
  SMSInterval, SMSCodeTTL, Hour, Day,   \* durations, in clock ticks
  SMSDailyLimit, SMSIPHourlyLimit, SMSMaxAttempts,
  MaxTime,       \* bound: the clock stops there
  MaxFaults      \* bound: failed increments of one row's attempts

ASSUME LimitsAssumption ==
  /\ None \notin Handler \cup Captcha \cup Code
  /\ IsFiniteSet(Handler)
  /\ Phone # {} /\ Purpose # {} /\ IP # {}
  /\ \A n \in {SMSInterval, SMSCodeTTL, Hour, Day, SMSDailyLimit, SMSIPHourlyLimit,
               SMSMaxAttempts} : n \in Nat \ {0}
  /\ MaxTime \in Nat /\ MaxFaults \in Nat

VARIABLES
  now,        \* the clock
  captchas,   \* the in-memory captchas still unanswered
  issued,     \* history: the captchas ever issued
  rows,       \* sms_verifications, in id order
  sendMu,     \* the handler inside Send's critical section, or None
  delivered,  \* history: messages the provider sent, by the captcha they cost
  pc, req     \* the next step and the local variables of each handler

vars == <<now, captchas, issued, rows, sendMu, delivered, pc, req>>

(* A row; guesses, uncounted and accepted are history: the codes compared  *)
(* with it and found wrong, those whose increment was never stored, and    *)
(* the calls of VerifyCode it made succeed.                                *)
NewRow(r) == [phone |-> r.phone, purpose |-> r.purpose, code |-> r.code,
              sentAt |-> r.at, expiresAt |-> r.at + SMSCodeTTL, ip |-> r.ip,
              attempts |-> 0, consumed |-> FALSE,
              guesses |-> 0, uncounted |-> 0, accepted |-> 0]

(* The local variables of an idle handler; any phone will do.              *)
NoRequest == [phone |-> CHOOSE p \in Phone : TRUE, purpose |-> CHOOSE p \in Purpose : TRUE,
              ip |-> CHOOSE i \in IP : TRUE, captcha |-> None, code |-> None, at |-> 0,
              id |-> 0, consume |-> FALSE]

Init ==
  /\ now = 0
  /\ captchas = {} /\ issued = {}
  /\ rows = <<>> /\ delivered = [c \in Captcha |-> 0]
  /\ sendMu = None
  /\ pc = [h \in Handler |-> "idle"]
  /\ req = [h \in Handler |-> NoRequest]

-----------------------------------------------------------------------------
(* The queries of the repository. *)

Ids == DOMAIN rows

(* ORDER BY id DESC LIMIT 1, as a set of at most one id. *)
Newest(S) == {i \in S : \A j \in S : j <= i}

RowsOf(p) == {i \in Ids : rows[i].phone = p}
LastOf(p) == Newest(RowsOf(p))
LatestFor(p, u) == Newest({i \in RowsOf(p) : rows[i].purpose = u})
SentSince(p, t) == {i \in RowsOf(p) : rows[i].sentAt >= t}
SentByIPSince(a, t) == {i \in Ids : rows[i].ip = a /\ rows[i].sentAt >= t}

DayStart(t) == t - (t % Day)
AnHourBefore(t) == IF t < Hour THEN 0 ELSE t - Hour

-----------------------------------------------------------------------------

Go(h, from, to, r) ==
  /\ pc[h] = from
  /\ pc' = [pc EXCEPT ![h] = to]
  /\ req' = [req EXCEPT ![h] = r]

Finish(h, from) == Go(h, from, "idle", NoRequest)

IssueCaptcha(c) ==
  /\ c \notin issued
  /\ captchas' = captchas \cup {c}
  /\ issued' = issued \cup {c}
  /\ UNCHANGED <<now, rows, sendMu, delivered, pc, req>>

(* Mutant of AnswerCaptcha: only a wrong answer destroys the captcha. *)
KeepRightCaptcha(h, p, u, a, c, ok) ==
  /\ c \in captchas
  /\ IF ok
     THEN /\ Go(h, "idle", "check", [NoRequest EXCEPT !.phone = p, !.purpose = u,
                                                      !.ip = a, !.captcha = c])
          /\ UNCHANGED captchas
     ELSE /\ pc[h] = "idle"
          /\ captchas' = captchas \ {c}
          /\ UNCHANGED <<pc, req>>
  /\ UNCHANGED <<now, issued, rows, sendMu, delivered>>

(* VerifyCaptcha, the first thing Send does: the captcha is destroyed      *)
(* whatever the answer.  ok: the answer was right and in time.             *)
AnswerCaptcha(h, p, u, a, c, ok) ==
  /\ c \in captchas
  /\ captchas' = captchas \ {c}
  /\ IF ok
     THEN Go(h, "idle", "check", [NoRequest EXCEPT !.phone = p, !.purpose = u,
                                                   !.ip = a, !.captcha = c])
     ELSE pc[h] = "idle" /\ UNCHANGED <<pc, req>>
  /\ UNCHANGED <<now, issued, rows, sendMu, delivered>>

(* The rate limits of Send, for a request that read the clock at t. *)
MaySend(r, t) ==
  /\ \A i \in LastOf(r.phone) : t - rows[i].sentAt >= SMSInterval
  /\ Cardinality(SentSince(r.phone, DayStart(t))) < SMSDailyLimit
  /\ Cardinality(SentByIPSince(r.ip, AnHourBefore(t))) < SMSIPHourlyLimit

(* The last code sent to the phone of r is not c. *)
FreshCode(r, c) == \A i \in LastOf(r.phone) : rows[i].code # c

(* Mutants of Check: sendMu is not taken, and the code is not compared with *)
(* the last one.                                                           *)
CheckUnlocked(h, c) ==
  /\ pc[h] = "check"
  /\ MaySend(req[h], now)
  /\ FreshCode(req[h], c)
  /\ Go(h, "check", "provider", [req[h] EXCEPT !.code = c, !.at = now])
  /\ UNCHANGED <<now, captchas, issued, rows, sendMu, delivered>>

CheckAnyCode(h, c) ==
  /\ pc[h] = "check"
  /\ sendMu = None
  /\ MaySend(req[h], now)
  /\ sendMu' = h
  /\ Go(h, "check", "provider", [req[h] EXCEPT !.code = c, !.at = now])
  /\ UNCHANGED <<now, captchas, issued, rows, delivered>>

(* Send takes sendMu, reads the clock once, checks the limits against the  *)
(* rows and draws a code other than the last one sent to the phone.  Only  *)
(* Send inserts rows, so its queries see one table.                        *)
Check(h, c) ==
  /\ pc[h] = "check"
  /\ sendMu = None
  /\ MaySend(req[h], now)
  /\ FreshCode(req[h], c)
  /\ sendMu' = h
  /\ Go(h, "check", "provider", [req[h] EXCEPT !.code = c, !.at = now])
  /\ UNCHANGED <<now, captchas, issued, rows, delivered>>

(* A limit refuses the request, or the service is not configured: sendMu   *)
(* is taken and released again.                                            *)
Refuse(h) ==
  /\ sendMu = None
  /\ Finish(h, "check")
  /\ UNCHANGED <<now, captchas, issued, rows, sendMu, delivered>>

(* The GET to the provider.  sent: the message goes out; answered: the     *)
(* service reads the "0" that says so.  No answer, or another one, ends    *)
(* Send with ErrSMSProvider.                                               *)
CallProvider(h, sent, answered) ==
  /\ pc[h] = "provider"
  /\ answered => sent
  /\ delivered' = IF sent
                  THEN [delivered EXCEPT ![req[h].captcha] = @ + 1]
                  ELSE delivered
  /\ IF answered
     THEN Go(h, "provider", "record", req[h]) /\ UNCHANGED sendMu
     ELSE Finish(h, "provider") /\ sendMu' = None
  /\ UNCHANGED <<now, captchas, issued, rows>>

(* repo.Create stores the moment the limits were checked at, not the moment *)
(* the provider answered.                                                  *)
Record(h) ==
  /\ pc[h] = "record"
  /\ rows' = Append(rows, NewRow(req[h]))
  /\ Finish(h, "record")
  /\ sendMu' = None
  /\ UNCHANGED <<now, captchas, issued, delivered>>

-----------------------------------------------------------------------------
(* VerifyCode, called by Register and ChangePassword. *)

(* Row i, just read, is compared with the code unless its attempts are     *)
(* used up; what the request does next was decided by this read.           *)
Compare(h, i, c) ==
  LET wrong == rows[i].attempts < SMSMaxAttempts /\ rows[i].code # c
      right == rows[i].attempts < SMSMaxAttempts /\ rows[i].code = c
  IN  /\ Go(h, "idle", IF right THEN "consume" ELSE "increment",
            [NoRequest EXCEPT !.id = i,
                              !.consume = rows[i].attempts + 1 >= SMSMaxAttempts])
      /\ rows' = IF wrong THEN [rows EXCEPT ![i].guesses = @ + 1] ELSE rows
      /\ UNCHANGED <<now, captchas, issued, sendMu, delivered>>

(* The newest row of the phone and the purpose, if it is neither consumed  *)
(* nor expired.                                                            *)
ReadLatest(h, p, u, c) ==
  \E i \in LatestFor(p, u) :
    /\ ~rows[i].consumed
    /\ now <= rows[i].expiresAt
    /\ Compare(h, i, c)

(* Mutant of IncrementAttempts: only the last allowed attempt is stored. *)
StoreLastAttemptOnly(h) ==
  /\ pc[h] = "increment"
  /\ rows' = IF req[h].consume
             THEN [rows EXCEPT ![req[h].id].attempts = @ + 1,
                               ![req[h].id].consumed = TRUE]
             ELSE rows
  /\ Finish(h, "increment")
  /\ UNCHANGED <<now, captchas, issued, sendMu, delivered>>

(* Mutant of IncrementAttempts: consumed is overwritten by what the request *)
(* worked out from its read, without the CASE that keeps a 1.              *)
OverwriteConsumed(h) ==
  /\ pc[h] = "increment"
  /\ rows' = [rows EXCEPT ![req[h].id].attempts = @ + 1,
                          ![req[h].id].consumed = req[h].consume]
  /\ Finish(h, "increment")
  /\ UNCHANGED <<now, captchas, issued, sendMu, delivered>>

(* The CASE of the statement never turns a consumed row back.              *)
IncrementAttempts(h) ==
  /\ pc[h] = "increment"
  /\ rows' = [rows EXCEPT ![req[h].id].attempts = @ + 1,
                          ![req[h].id].consumed = @ \/ req[h].consume]
  /\ Finish(h, "increment")
  /\ UNCHANGED <<now, captchas, issued, sendMu, delivered>>

Consume(h) ==
  /\ pc[h] = "consume"
  /\ rows' = [rows EXCEPT ![req[h].id].consumed = TRUE,
                          ![req[h].id].accepted = @ + 1]
  /\ Finish(h, "consume")
  /\ UNCHANGED <<now, captchas, issued, sendMu, delivered>>

-----------------------------------------------------------------------------

(* A statement fails or the handler panics; sendMu is released by defer. *)
Abort(h) ==
  /\ pc[h] # "idle"
  /\ sendMu' = IF sendMu = h THEN None ELSE sendMu
  /\ pc[h] = "increment" => rows[req[h].id].uncounted < MaxFaults
  /\ rows' = IF pc[h] = "increment"
             THEN [rows EXCEPT ![req[h].id].uncounted = @ + 1] ELSE rows
  /\ Finish(h, pc[h])
  /\ UNCHANGED <<now, captchas, issued, delivered>>

(* The process restarts: the captchas, kept in memory only, are gone. *)
Restart ==
  /\ \A h \in Handler : pc[h] = "idle"
  /\ captchas' = {}
  /\ UNCHANGED <<now, issued, rows, sendMu, delivered, pc, req>>

Tick ==
  /\ now < MaxTime
  /\ now' = now + 1
  /\ UNCHANGED <<captchas, issued, rows, sendMu, delivered, pc, req>>

SendStep(h) ==
  \/ \E p \in Phone, u \in Purpose, a \in IP, c \in Captcha, ok \in BOOLEAN :
       AnswerCaptcha(h, p, u, a, c, ok)
  \/ \E c \in Code : Check(h, c)
  \/ Refuse(h)
  \/ \E sent, answered \in BOOLEAN : CallProvider(h, sent, answered)
  \/ Record(h)

VerifyStep(h) ==
  \/ \E p \in Phone, u \in Purpose, c \in Code : ReadLatest(h, p, u, c)
  \/ IncrementAttempts(h)
  \/ Consume(h)

Next ==
  \/ \E c \in Captcha : IssueCaptcha(c)
  \/ \E h \in Handler : SendStep(h) \/ VerifyStep(h) \/ Abort(h)
  \/ Restart
  \/ Tick

Spec == Init /\ [][Next]_vars

-----------------------------------------------------------------------------
(* Properties. *)

Row == [phone : Phone, purpose : Purpose, code : Code, sentAt : Nat, expiresAt : Nat,
        ip : IP, attempts : Nat, consumed : BOOLEAN, guesses : Nat, uncounted : Nat,
        accepted : Nat]

Request == [phone : Phone, purpose : Purpose, ip : IP, captcha : Captcha \cup {None},
            code : Code \cup {None}, at : Nat, id : Nat, consume : BOOLEAN]

(* Every variable keeps its type; sendMu is held exactly by the request    *)
(* that is between its checks and its insertion, and a request that is     *)
(* about to write a row has read one.                                      *)
TypeOK ==
  /\ now \in 0 .. MaxTime
  /\ captchas \subseteq issued /\ issued \subseteq Captcha
  /\ rows \in Seq(Row)
  /\ delivered \in [Captcha -> Nat]
  /\ sendMu \in Handler \cup {None}
  /\ pc \in [Handler -> {"idle", "check", "provider", "record", "increment", "consume"}]
  /\ req \in [Handler -> Request]
  /\ \A h \in Handler : (pc[h] \in {"provider", "record"}) <=> (sendMu = h)
  /\ \A h \in Handler : pc[h] \in {"increment", "consume"} => req[h].id \in Ids

(* The messages recorded for phone p on the calendar day of t, and those   *)
(* that a client at address a had in the hour that ends at t.              *)
SentOnDayOf(p, t) == {j \in RowsOf(p) : DayStart(rows[j].sentAt) = DayStart(t)}
SentInHourTo(a, t) == {j \in SentByIPSince(a, AnHourBefore(t)) : rows[j].sentAt <= t}

(* The comment above sendMu.Lock: concurrent requests with valid captchas  *)
(* cannot all pass the same checks.  Recorded messages to a phone are an   *)
(* interval apart whatever their purpose, no calendar day holds more than  *)
(* the daily limit, and no hour more than the limit of an IP.              *)
RecordedSendsKeepTheLimits ==
  /\ \A p \in Phone : \A i, j \in RowsOf(p) :
       i < j => rows[j].sentAt - rows[i].sentAt >= SMSInterval
  /\ \A p \in Phone : \A i \in RowsOf(p) :
       Cardinality(SentOnDayOf(p, rows[i].sentAt)) <= SMSDailyLimit
  /\ \A i \in Ids :
       Cardinality(SentInHourTo(rows[i].ip, rows[i].sentAt)) <= SMSIPHourlyLimit

(* auth-design.md: a phone never gets the same code twice in a row.  The   *)
(* rows of the phone are compared, since an unrecorded message left none.  *)
ConsecutiveCodesDiffer ==
  \A p \in Phone : \A i, j \in RowsOf(p) :
    i < j /\ (\A k \in RowsOf(p) : ~(i < k /\ k < j)) => rows[i].code # rows[j].code

(* Every message the provider sent, recorded or not, has used up a captcha *)
(* of its own, whatever crashed or was retried.                            *)
EverySMSCostsACaptcha == \A c \in Captcha : delivered[c] <= 1

(* auth-design.md allows five wrong codes.  Checks that overlap read the   *)
(* same count, so each request in flight may add one, and so may each      *)
(* increment that was never stored; nothing else does.                     *)
GuessBudget ==
  \A i \in Ids :
    rows[i].guesses <= SMSMaxAttempts + (Cardinality(Handler) - 1) + rows[i].uncounted

(* The requests that read row i and are at the step. *)
AtStep(i, step) == {h \in Handler : pc[h] = step /\ req[h].id = i}

(* VerifyCode reads, compares and consumes in separate statements, so that *)
(* requests that overlap may all have one code accepted.  Once a code has  *)
(* been accepted, though, it can be accepted only by requests that were    *)
(* past the comparison by then: no request joins them, neither one that    *)
(* starts later nor one whose row a late IncrementAttempts writes back.    *)
AcceptedOnlyByOverlap ==
  [][\A i \in Ids : rows[i].accepted > 0 =>
       AtStep(i, "consume")' \subseteq AtStep(i, "consume")]_vars

-----------------------------------------------------------------------------
(* What makes these properties inductive. *)

(* A captcha that can still be answered, or has not been issued, has cost  *)
(* no message; nor has the one of a request that has not called the        *)
(* provider yet, and no two such requests have the same.                   *)
CaptchasUnspent ==
  /\ \A c \in Captcha : c \in captchas \/ c \notin issued => delivered[c] = 0
  /\ \A h \in Handler : pc[h] \in {"check", "provider"} =>
       /\ req[h].captcha \in issued \ captchas
       /\ delivered[req[h].captcha] = 0
       /\ \A g \in Handler \ {h} :
            pc[g] \in {"check", "provider"} => req[g].captcha # req[h].captcha

(* What the holder of sendMu checked still holds when it inserts its row,  *)
(* however late the provider answers.                                      *)
ChecksStillHold ==
  /\ \A i \in Ids : rows[i].sentAt <= now
  /\ \A h \in Handler : pc[h] \in {"provider", "record"} =>
       /\ req[h].code \in Code
       /\ req[h].at <= now /\ \A i \in Ids : rows[i].sentAt <= req[h].at
       /\ MaySend(req[h], req[h].at)
       /\ FreshCode(req[h], req[h].code)

(* Every wrong guess has been counted, was lost, or is about to be counted; *)
(* a row that accepted its code is consumed.                               *)
GuessesAccountedFor ==
  \A i \in Ids :
    /\ rows[i].guesses
         <= rows[i].attempts + rows[i].uncounted + Cardinality(AtStep(i, "increment"))
    /\ ~rows[i].consumed => rows[i].accepted = 0

IInv ==
  /\ TypeOK
  /\ CaptchasUnspent /\ EverySMSCostsACaptcha
  /\ ChecksStillHold /\ RecordedSendsKeepTheLimits /\ ConsecutiveCodesDiffer
  /\ GuessesAccountedFor /\ GuessBudget

=============================================================================
