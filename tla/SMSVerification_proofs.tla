----------------------- MODULE SMSVerification_proofs -----------------------
(***************************************************************************)
(* Machine-checked proofs about SMSVerification, for any sets of phones,   *)
(* codes, captchas and requests and any limits.                            *)
(***************************************************************************)
EXTENDS SMSVerification, SequenceTheorems, FiniteSetTheorems, TLAPS

(* What the assumption says of each constant. *)
LEMMA Parameters ==
  /\ \A h \in Handler : h # None
  /\ \A c \in Captcha \cup Code : c # None
  /\ IsFiniteSet(Handler)
  /\ SMSInterval \in Nat /\ SMSInterval > 0 /\ SMSCodeTTL \in Nat /\ Hour \in Nat
  /\ Day \in Nat /\ Day > 0
  /\ SMSDailyLimit \in Nat /\ SMSIPHourlyLimit \in Nat
  /\ SMSMaxAttempts \in Nat /\ SMSMaxAttempts > 0
  /\ MaxTime \in Nat /\ MaxFaults \in Nat
<1>1. /\ SMSInterval \in Nat \ {0} /\ SMSCodeTTL \in Nat \ {0} /\ Hour \in Nat \ {0}
      /\ Day \in Nat \ {0} /\ SMSDailyLimit \in Nat \ {0} /\ SMSIPHourlyLimit \in Nat \ {0}
      /\ SMSMaxAttempts \in Nat \ {0}
  BY LimitsAssumption
<1>2. \A n \in Nat \ {0} : n \in Nat /\ n > 0
  OBVIOUS
<1>3. (\A h \in Handler : h # None) /\ (\A c \in Captcha \cup Code : c # None)
  BY LimitsAssumption
<1>4. IsFiniteSet(Handler) /\ MaxTime \in Nat /\ MaxFaults \in Nat
  BY LimitsAssumption
<1> QED
  BY <1>1, <1>2, <1>3, <1>4

-----------------------------------------------------------------------------
(* Rows and requests. *)

(* Every request that a step builds has the fields of a request. *)
LEMMA RequestTypes ==
  /\ NoRequest \in Request
  /\ NoRequest.captcha = None /\ NoRequest.id = 0
  /\ \A p \in Phone, u \in Purpose, a \in IP, c \in Captcha :
       LET r == [NoRequest EXCEPT !.phone = p, !.purpose = u, !.ip = a, !.captcha = c]
       IN  r \in Request /\ r.captcha = c
  /\ \A i \in Nat, b \in BOOLEAN :
       LET r == [NoRequest EXCEPT !.id = i, !.consume = b]
       IN  r \in Request /\ r.id = i /\ r.consume = b
  BY LimitsAssumption DEF NoRequest, Request

(* Row numbers are natural numbers, and every row has its type. *)
LEMMA IdsInNat ==
  ASSUME TypeOK
  PROVE  /\ Len(rows) \in Nat /\ Ids = 1..Len(rows) /\ Ids \subseteq Nat
         /\ \A i \in Ids : rows[i] \in Row
         /\ IsFiniteSet(Ids)
<1>1. rows \in Seq(Row)
  BY DEF TypeOK
<1>2. Len(rows) \in Nat /\ Ids = 1..Len(rows) /\ \A i \in Ids : rows[i] \in Row
  BY <1>1, LenProperties, ElementOfSeq DEF Ids
<1>3. 1 \in Int /\ Len(rows) \in Int
  BY <1>2
<1>4. IsFiniteSet(1..Len(rows))
  BY <1>3, FS_Interval
<1> QED
  BY <1>2, <1>4

(* One row is rewritten. *)
LEMMA RowRewritten ==
  ASSUME TypeOK, NEW i \in Ids, NEW r \in Row, rows' = [rows EXCEPT ![i] = r]
  PROVE  /\ rows' \in Seq(Row) /\ Ids' = Ids
         /\ rows'[i] = r
         /\ \A j \in Ids : j # i => rows'[j] = rows[j]
<1>1. rows \in Seq(Row) /\ Ids = 1..Len(rows)
  BY IdsInNat DEF TypeOK
<1>2. /\ rows' \in Seq(Row) /\ Len(rows') = Len(rows)
      /\ \A j \in 1..Len(rows) : rows'[j] = IF j = i THEN r ELSE rows[j]
  BY <1>1, ExceptSeq
<1>3. DOMAIN rows' = 1..Len(rows')
  BY <1>2, LenProperties
<1> QED
  BY <1>1, <1>2, <1>3 DEF Ids

(* A row is inserted. *)
LEMMA RowInserted ==
  ASSUME TypeOK, NEW r \in Row, rows' = Append(rows, r)
  PROVE  LET n == Len(rows) + 1
         IN  /\ rows' \in Seq(Row) /\ Ids' = Ids \cup {n}
             /\ n \notin Ids /\ n \in Nat /\ \A i \in Ids : i < n
             /\ rows'[n] = r
             /\ \A j \in Ids : rows'[j] = rows[j]
<1>1. rows \in Seq(Row) /\ Len(rows) \in Nat /\ Ids = 1..Len(rows)
  BY IdsInNat DEF TypeOK
<1>2. /\ rows' \in Seq(Row) /\ Len(rows') = Len(rows) + 1
      /\ \A i \in 1..Len(rows) : rows'[i] = rows[i]
      /\ rows'[Len(rows) + 1] = r
  BY <1>1, AppendProperties
<1>3. DOMAIN rows' = 1..(Len(rows) + 1)
  BY <1>2, LenProperties
<1> QED
  BY <1>1, <1>2, <1>3 DEF Ids

(* What a request read, and the row it read, have their types. *)
LEMMA RequestFields ==
  ASSUME TypeOK, NEW h \in Handler
  PROVE  /\ req[h] \in Request
         /\ req[h].phone \in Phone /\ req[h].ip \in IP /\ req[h].at \in Nat
         /\ req[h].consume \in BOOLEAN
         /\ pc[h] \in {"idle", "check", "provider", "record", "increment", "consume"}
  BY DEF TypeOK, Request

(* A stored row has the fields of a row. *)
LEMMA RowFields ==
  ASSUME TypeOK, NEW i \in Ids
  PROVE  /\ rows[i] \in Row
         /\ rows[i].attempts \in Nat /\ rows[i].guesses \in Nat
         /\ rows[i].uncounted \in Nat /\ rows[i].accepted \in Nat
         /\ rows[i].sentAt \in Nat /\ rows[i].consumed \in BOOLEAN
         /\ i \in Nat
  BY IdsInNat DEF Row

-----------------------------------------------------------------------------
(* Type correctness. *)

Steps == {"idle", "check", "provider", "record", "increment", "consume"}

(* One request moves on; the others keep their place. *)
Moved(h, from, to, r) ==
  /\ pc' \in [Handler -> Steps] /\ req' \in [Handler -> Request]
  /\ pc[h] = from /\ pc'[h] = to /\ req'[h] = r
  /\ \A g \in Handler \ {h} : pc'[g] = pc[g] /\ req'[g] = req[g]

(* A request that goes on leaves the other requests where they are. *)
LEMMA OneMoves ==
  ASSUME TypeOK, NEW h \in Handler, NEW from, NEW to \in Steps, NEW r \in Request,
         Go(h, from, to, r)
  PROVE  Moved(h, from, to, r)
  BY DEF Go, TypeOK, Steps, Moved

(* So does a request that ends. *)
LEMMA OneEnds ==
  ASSUME TypeOK, NEW h \in Handler, NEW from, Finish(h, from)
  PROVE  Moved(h, from, "idle", NoRequest)
  BY OneMoves, RequestTypes DEF Finish, Steps

(* Before the first request the invariant holds: nothing is stored, issued *)
(* or in flight.                                                           *)
LEMMA InitInvariant == Init => IInv
<1> SUFFICES ASSUME Init PROVE IInv
  OBVIOUS
<1>0. Ids = {}
  BY DEF Init, Ids
<1>1. TypeOK
  <2>1. rows \in Seq(Row)
    BY EmptySeq DEF Init
  <2>2. now \in 0..MaxTime
    BY Parameters DEF Init
  <2>3. req \in [Handler -> Request] /\ delivered \in [Captcha -> Nat]
    BY RequestTypes DEF Init
  <2>4. \A h \in Handler : pc[h] = "idle" /\ sendMu # h
    BY Parameters DEF Init
  <2> QED
    BY <2>1, <2>2, <2>3, <2>4 DEF Init, TypeOK
<1>2. CaptchasUnspent /\ EverySMSCostsACaptcha
  BY DEF Init, CaptchasUnspent, EverySMSCostsACaptcha
<1>3. ChecksStillHold
  BY <1>0 DEF Init, ChecksStillHold
<1>4. RecordedSendsKeepTheLimits /\ ConsecutiveCodesDiffer
  BY <1>0 DEF RecordedSendsKeepTheLimits, ConsecutiveCodesDiffer, RowsOf
<1>5. GuessesAccountedFor /\ GuessBudget
  BY <1>0 DEF GuessesAccountedFor, GuessBudget
<1> QED
  BY <1>1, <1>2, <1>3, <1>4, <1>5 DEF IInv

(* What a step must show to keep the types: the mutex goes with the        *)
(* critical section, and a row that was read is still there.               *)
LEMMA TypesKept ==
  ASSUME TypeOK, NEW h \in Handler, NEW from, NEW to, NEW r, Moved(h, from, to, r),
         now' = now, captchas' \subseteq issued', issued' \subseteq Captcha,
         rows' \in Seq(Row), Ids \subseteq Ids', delivered' \in [Captcha -> Nat],
         \/ from \notin {"provider", "record"} /\ to \notin {"provider", "record"}
            /\ sendMu' = sendMu
         \/ to \in {"provider", "record"} /\ sendMu \in {None, h} /\ sendMu' = h
         \/ from \in {"provider", "record"} /\ to \notin {"provider", "record"}
            /\ sendMu' = None,
         to \in {"increment", "consume"} => r.id \in Ids'
  PROVE  TypeOK'
<1>1. sendMu' \in Handler \cup {None}
  BY DEF TypeOK
<1>2. \A g \in Handler : (pc'[g] \in {"provider", "record"}) <=> (sendMu' = g)
  BY Parameters DEF TypeOK, Moved
<1>3. \A g \in Handler : pc'[g] \in {"increment", "consume"} => req'[g].id \in Ids'
  BY DEF TypeOK, Moved
<1> QED
  BY <1>1, <1>2, <1>3 DEF TypeOK, Moved, Steps

(* Every operation of the service keeps the types. *)
LEMMA TypeOKStep == TypeOK /\ ChecksStillHold /\ [Next]_vars => TypeOK'
<1> SUFFICES ASSUME TypeOK, ChecksStillHold, [Next]_vars PROVE TypeOK'
  OBVIOUS
<1>0. /\ captchas \subseteq issued /\ issued \subseteq Captcha
      /\ rows \in Seq(Row) /\ delivered \in [Captcha -> Nat] /\ now \in Nat
  BY Parameters DEF TypeOK
<1>1. ASSUME NEW c \in Captcha, IssueCaptcha(c) PROVE TypeOK'
  BY <1>1 DEF IssueCaptcha, TypeOK, Ids
<1>2. ASSUME NEW h \in Handler, NEW p \in Phone, NEW u \in Purpose, NEW a \in IP,
             NEW c \in Captcha, NEW ok \in BOOLEAN, AnswerCaptcha(h, p, u, a, c, ok)
      PROVE  TypeOK'
  <2> DEFINE r == [NoRequest EXCEPT !.phone = p, !.purpose = u, !.ip = a, !.captcha = c]
  <2>0. r \in Request
    BY RequestTypes
  <2> HIDE DEF r
  <2>1. CASE ok
    <3>1. Go(h, "idle", "check", r)
      BY <1>2, <2>1 DEF AnswerCaptcha, r
    <3>2. Moved(h, "idle", "check", r)
      BY <2>0, <3>1, OneMoves DEF Steps
    <3>3. UNCHANGED <<now, issued, rows, sendMu, delivered>> /\ captchas' \subseteq issued
      BY <1>0, <1>2 DEF AnswerCaptcha
    <3> QED
      BY <1>0, <3>2, <3>3, TypesKept DEF Ids
  <2>2. CASE ~ok
    BY <1>2, <2>2 DEF AnswerCaptcha, TypeOK, Ids
  <2> QED
    BY <2>1, <2>2
<1>3. ASSUME NEW h \in Handler, NEW c \in Code, Check(h, c) PROVE TypeOK'
  <2> DEFINE r == [req[h] EXCEPT !.code = c, !.at = now]
  <2>0. r \in Request
    BY <1>0, RequestFields DEF Request
  <2> HIDE DEF r
  <2>1. Go(h, "check", "provider", r)
    BY <1>3 DEF Check, r
  <2>2. Moved(h, "check", "provider", r)
    BY <2>0, <2>1, OneMoves DEF Steps
  <2>3. UNCHANGED <<now, captchas, issued, rows, delivered>> /\ sendMu = None /\ sendMu' = h
    BY <1>3 DEF Check
  <2> QED
    BY <1>0, <2>2, <2>3, TypesKept DEF Ids
<1>4. ASSUME NEW h \in Handler, Refuse(h) PROVE TypeOK'
  <2>1. Moved(h, "check", "idle", NoRequest)
    BY <1>4, OneEnds DEF Refuse
  <2>2. UNCHANGED <<now, captchas, issued, rows, sendMu, delivered>>
    BY <1>4 DEF Refuse
  <2> QED
    BY <1>0, <2>1, <2>2, TypesKept DEF Ids
<1>5. ASSUME NEW h \in Handler, NEW sent \in BOOLEAN, NEW answered \in BOOLEAN,
             CallProvider(h, sent, answered)
      PROVE  TypeOK'
  <2>1. delivered' \in [Captcha -> Nat]
    <3> DEFINE k == req[h].captcha
    <3>1. delivered' = delivered \/ delivered' = [delivered EXCEPT ![k] = @ + 1]
      BY <1>5 DEF CallProvider
    <3> HIDE DEF k
    <3>2. k \in Captcha => delivered[k] + 1 \in Nat
      BY <1>0
    <3> QED
      BY <1>0, <3>1, <3>2
  <2>2. UNCHANGED <<now, captchas, issued, rows>>
    BY <1>5 DEF CallProvider
  <2>3. CASE answered
    <3>1. Go(h, "provider", "record", req[h]) /\ sendMu' = sendMu
      BY <1>5, <2>3 DEF CallProvider
    <3>2. Moved(h, "provider", "record", req[h])
      BY <3>1, OneMoves, RequestFields DEF Steps
    <3>3. sendMu = h
      BY <3>2 DEF TypeOK, Moved
    <3> QED
      BY <1>0, <2>1, <2>2, <3>1, <3>2, <3>3, TypesKept DEF Ids
  <2>4. CASE ~answered
    <3>1. Finish(h, "provider") /\ sendMu' = None
      BY <1>5, <2>4 DEF CallProvider
    <3>2. Moved(h, "provider", "idle", NoRequest)
      BY <3>1, OneEnds
    <3> QED
      BY <1>0, <2>1, <2>2, <3>1, <3>2, TypesKept DEF Ids
  <2> QED
    BY <2>3, <2>4
<1>6. ASSUME NEW h \in Handler, Record(h) PROVE TypeOK'
  <2>0. rows' = Append(rows, NewRow(req[h])) /\ Finish(h, "record") /\ sendMu' = None
    BY <1>6 DEF Record
  <2>1. NewRow(req[h]) \in Row
    <3>1. req[h].at + SMSCodeTTL \in Nat
      BY Parameters, RequestFields
    <3>2. req[h].code \in Code
      BY <1>6 DEF Record, Finish, Go, ChecksStillHold
    <3> QED
      BY <3>1, <3>2, RequestFields DEF NewRow, Row, Request
  <2>2. rows' \in Seq(Row) /\ Ids \subseteq Ids'
    BY <2>0, <2>1, RowInserted
  <2>3. Moved(h, "record", "idle", NoRequest)
    BY <2>0, OneEnds
  <2>4. UNCHANGED <<now, captchas, issued, delivered>>
    BY <1>6 DEF Record
  <2> QED
    BY <1>0, <2>0, <2>2, <2>3, <2>4, TypesKept
<1>7. ASSUME NEW h \in Handler, NEW p \in Phone, NEW u \in Purpose, NEW c \in Code,
             ReadLatest(h, p, u, c)
      PROVE  TypeOK'
  <2>1. PICK i \in Ids : Compare(h, i, c)
    BY <1>7 DEF ReadLatest, LatestFor, Newest, RowsOf
  <2>2. rows' \in Seq(Row) /\ Ids' = Ids
    <3>1. [rows[i] EXCEPT !.guesses = @ + 1] \in Row
      BY RowFields DEF Row
    <3>2. \/ rows' = rows
          \/ rows' = [rows EXCEPT ![i] = [rows[i] EXCEPT !.guesses = @ + 1]]
      BY <2>1 DEF Compare
    <3> QED
      BY <1>0, <3>1, <3>2, RowRewritten DEF Ids
  <2>3. PICK to \in {"increment", "consume"}, r \in Request :
          Go(h, "idle", to, r) /\ r.id = i
    <3> DEFINE last == rows[i].attempts + 1 >= SMSMaxAttempts
    <3>1. i \in Nat /\ last \in BOOLEAN
      BY RowFields
    <3>2. LET r == [NoRequest EXCEPT !.id = i, !.consume = last]
          IN  r \in Request /\ r.id = i
      BY <3>1, RequestTypes
    <3> QED
      BY <2>1, <3>2 DEF Compare
  <2>4. Moved(h, "idle", to, r)
    BY <2>3, OneMoves DEF Steps
  <2>5. UNCHANGED <<now, captchas, issued, sendMu, delivered>>
    BY <2>1 DEF Compare
  <2> QED
    BY <1>0, <2>2, <2>3, <2>4, <2>5, TypesKept
<1>8. ASSUME NEW h \in Handler, IncrementAttempts(h) PROVE TypeOK'
  <2> DEFINE i == req[h].id
             r == [rows[i] EXCEPT !.attempts = @ + 1, !.consumed = @ \/ req[h].consume]
  <2>1. i \in Ids
    BY <1>8 DEF IncrementAttempts, TypeOK
  <2>2. r \in Row
    <3>1. /\ rows[i] \in Row /\ rows[i].attempts + 1 \in Nat
          /\ (rows[i].consumed \/ req[h].consume) \in BOOLEAN
      BY <2>1, RowFields
    <3> QED
      BY <3>1 DEF Row
  <2>3. rows' = [rows EXCEPT ![i] = r]
    BY <1>8 DEF IncrementAttempts
  <2> HIDE DEF i, r
  <2>4. rows' \in Seq(Row) /\ Ids' = Ids
    BY <2>1, <2>2, <2>3, RowRewritten
  <2>5. Moved(h, "increment", "idle", NoRequest)
    BY <1>8, OneEnds DEF IncrementAttempts
  <2>6. UNCHANGED <<now, captchas, issued, sendMu, delivered>>
    BY <1>8 DEF IncrementAttempts
  <2> QED
    BY <1>0, <2>4, <2>5, <2>6, TypesKept
<1>9. ASSUME NEW h \in Handler, Consume(h) PROVE TypeOK'
  <2> DEFINE i == req[h].id
             r == [rows[i] EXCEPT !.consumed = TRUE, !.accepted = @ + 1]
  <2>1. i \in Ids
    BY <1>9 DEF Consume, TypeOK
  <2>2. r \in Row
    <3>1. rows[i] \in Row /\ rows[i].accepted + 1 \in Nat
      BY <2>1, RowFields
    <3> QED
      BY <3>1 DEF Row
  <2>3. rows' = [rows EXCEPT ![i] = r]
    BY <1>9 DEF Consume
  <2> HIDE DEF i, r
  <2>4. rows' \in Seq(Row) /\ Ids' = Ids
    BY <2>1, <2>2, <2>3, RowRewritten
  <2>5. Moved(h, "consume", "idle", NoRequest)
    BY <1>9, OneEnds DEF Consume
  <2>6. UNCHANGED <<now, captchas, issued, sendMu, delivered>>
    BY <1>9 DEF Consume
  <2> QED
    BY <1>0, <2>4, <2>5, <2>6, TypesKept
<1>10. ASSUME NEW h \in Handler, Abort(h) PROVE TypeOK'
  <2> DEFINE i == req[h].id
             r == [rows[i] EXCEPT !.uncounted = @ + 1]
  <2>1. rows' \in Seq(Row) /\ Ids' = Ids
    <3>1. CASE pc[h] = "increment"
      <4>1. i \in Ids
        BY <3>1 DEF TypeOK
      <4>2. r \in Row
        BY <4>1, RowFields DEF Row
      <4>3. rows' = [rows EXCEPT ![i] = r]
        BY <1>10, <3>1 DEF Abort
      <4> HIDE DEF i, r
      <4> QED
        BY <4>1, <4>2, <4>3, RowRewritten
    <3>2. CASE pc[h] # "increment"
      BY <1>0, <1>10, <3>2 DEF Abort, Ids
    <3> QED
      BY <3>1, <3>2
  <2> HIDE DEF i, r
  <2>2. Moved(h, pc[h], "idle", NoRequest)
    BY <1>10, OneEnds DEF Abort
  <2>3. UNCHANGED <<now, captchas, issued, delivered>>
    BY <1>10 DEF Abort
  <2>4. /\ pc[h] \in {"provider", "record"} => sendMu' = None
        /\ pc[h] \notin {"provider", "record"} => sendMu' = sendMu
    BY <1>10 DEF Abort, TypeOK
  <2> QED
    BY <1>0, <2>1, <2>2, <2>3, <2>4, TypesKept
<1>11. CASE Restart
  BY <1>11 DEF Restart, TypeOK, Ids
<1>12. CASE Tick
  BY <1>12, Parameters DEF Tick, TypeOK, Ids
<1>13. CASE UNCHANGED vars
  BY <1>13 DEF vars, TypeOK, Ids
<1> QED
  BY <1>1, <1>2, <1>3, <1>4, <1>5, <1>6, <1>7, <1>8, <1>9, <1>10, <1>11, <1>12, <1>13
  DEF Next, SendStep, VerifyStep

-----------------------------------------------------------------------------
(* Captchas: every message costs one. *)

Spending == {"check", "provider"}

(* A request that does not reach the provider, or leaves it, spends none.  *)
LEMMA CaptchasKept ==
  ASSUME CaptchasUnspent, EverySMSCostsACaptcha, UNCHANGED <<issued, delivered>>,
         captchas' \subseteq captchas,
         \A h \in Handler : pc'[h] \in Spending =>
           pc[h] \in Spending /\ req'[h].captcha = req[h].captcha
  PROVE  CaptchasUnspent' /\ EverySMSCostsACaptcha'
  BY DEF CaptchasUnspent, EverySMSCostsACaptcha, Spending

(* Every operation of the service keeps the account of captchas: one that  *)
(* is spent is spent once.                                                 *)
LEMMA CaptchasStep ==
  TypeOK /\ CaptchasUnspent /\ EverySMSCostsACaptcha /\ [Next]_vars
    => CaptchasUnspent' /\ EverySMSCostsACaptcha'
<1> DEFINE Kept == CaptchasUnspent' /\ EverySMSCostsACaptcha'
<1> SUFFICES ASSUME TypeOK, CaptchasUnspent, EverySMSCostsACaptcha, [Next]_vars PROVE Kept
  OBVIOUS
<1>0. ASSUME NEW h \in Handler, NEW from, NEW to, to \notin Spending, NEW r,
             Moved(h, from, to, r), UNCHANGED <<captchas, issued, delivered>>
      PROVE  Kept
  BY <1>0, CaptchasKept DEF Moved
<1>1. ASSUME NEW c \in Captcha, IssueCaptcha(c) PROVE Kept
  BY <1>1 DEF IssueCaptcha, CaptchasUnspent, EverySMSCostsACaptcha
<1>2. ASSUME NEW h \in Handler, NEW p \in Phone, NEW u \in Purpose, NEW a \in IP,
             NEW c \in Captcha, NEW ok \in BOOLEAN, AnswerCaptcha(h, p, u, a, c, ok)
      PROVE  Kept
  <2>1. c \in captchas /\ captchas' = captchas \ {c} /\ UNCHANGED <<issued, delivered>>
    BY <1>2 DEF AnswerCaptcha
  <2>2. CASE ok
    <3> DEFINE r == [NoRequest EXCEPT !.phone = p, !.purpose = u, !.ip = a, !.captcha = c]
    <3>1. r \in Request /\ r.captcha = c
      <4>1. r \in Request
        BY RequestTypes
      <4>2. r.captcha = c
        BY RequestTypes DEF Request
      <4> QED
        BY <4>1, <4>2
    <3> HIDE DEF r
    <3>2. Go(h, "idle", "check", r)
      BY <1>2, <2>2 DEF AnswerCaptcha, r
    <3>3. Moved(h, "idle", "check", r)
      BY <3>1, <3>2, OneMoves DEF Steps
    <3>4. /\ delivered[c] = 0 /\ c \in issued
          /\ \A g \in Handler : pc[g] \in Spending => req[g].captcha # c
      BY <2>1 DEF CaptchasUnspent, Spending, TypeOK
    <3>5. EverySMSCostsACaptcha'
      BY <2>1 DEF EverySMSCostsACaptcha
    <3>6. CaptchasUnspent'
      <4>1. \A k \in Captcha : k \in captchas' \/ k \notin issued' => delivered'[k] = 0
        BY <2>1 DEF CaptchasUnspent
      <4>2. ASSUME NEW g \in Handler, pc'[g] \in Spending
            PROVE  /\ req'[g].captcha \in issued' \ captchas'
                   /\ delivered'[req'[g].captcha] = 0
                   /\ \A f \in Handler \ {g} :
                        pc'[f] \in Spending => req'[f].captcha # req'[g].captcha
        BY <2>1, <3>1, <3>3, <3>4, <4>2 DEF CaptchasUnspent, Moved, Spending
      <4> QED
        BY <4>1, <4>2 DEF CaptchasUnspent, Spending
    <3> QED
      BY <3>5, <3>6
  <2>3. CASE ~ok
    BY <1>2, <2>1, <2>3, CaptchasKept DEF AnswerCaptcha
  <2> QED
    BY <2>2, <2>3
<1>3. ASSUME NEW h \in Handler, NEW c \in Code, Check(h, c) PROVE Kept
  <2> DEFINE r == [req[h] EXCEPT !.code = c, !.at = now]
  <2>1. r \in Request /\ r.captcha = req[h].captcha
    <3>1. now \in Nat /\ req[h] \in Request
      BY Parameters, RequestFields DEF TypeOK
    <3> QED
      BY <3>1 DEF Request
  <2> HIDE DEF r
  <2>2. Go(h, "check", "provider", r) /\ UNCHANGED <<captchas, issued, delivered>>
    BY <1>3 DEF Check, r
  <2>3. Moved(h, "check", "provider", r)
    BY <2>1, <2>2, OneMoves DEF Steps
  <2> QED
    BY <2>1, <2>2, <2>3, CaptchasKept DEF Moved, Spending
<1>4. ASSUME NEW h \in Handler, Refuse(h) PROVE Kept
  BY <1>0, <1>4, OneEnds DEF Refuse, Spending
<1>5. ASSUME NEW h \in Handler, NEW sent \in BOOLEAN, NEW answered \in BOOLEAN,
             CallProvider(h, sent, answered)
      PROVE  Kept
  <2>1. UNCHANGED <<captchas, issued>> /\ pc[h] = "provider"
    BY <1>5 DEF CallProvider
  <2>2. PICK to \in {"record", "idle"}, r \in Request : Moved(h, "provider", to, r)
    <3>1. Go(h, "provider", "record", req[h]) \/ Finish(h, "provider")
      BY <1>5 DEF CallProvider
    <3>2. Go(h, "provider", "record", req[h]) => Moved(h, "provider", "record", req[h])
      BY OneMoves, RequestFields DEF Steps
    <3>3. Finish(h, "provider") => Moved(h, "provider", "idle", NoRequest)
      BY OneEnds
    <3>4. req[h] \in Request /\ NoRequest \in Request
      BY RequestFields, RequestTypes
    <3> QED
      BY <3>1, <3>2, <3>3, <3>4
  <2> DEFINE k == req[h].captcha
  <2>3. delivered' = delivered \/ delivered' = [delivered EXCEPT ![k] = @ + 1]
    BY <1>5 DEF CallProvider
  <2>4. k \in Captcha /\ k \in issued \ captchas /\ delivered[k] = 0
    BY <2>1 DEF CaptchasUnspent, TypeOK
  <2>5. \A g \in Handler \ {h} : pc[g] \in Spending => req[g].captcha # k
    BY <2>1 DEF CaptchasUnspent, Spending
  <2> HIDE DEF k
  <2>6. delivered'[k] \in {0, 1} /\ \A c \in Captcha \ {k} : delivered'[c] = delivered[c]
    BY <2>3, <2>4 DEF TypeOK
  <2>7. EverySMSCostsACaptcha'
    BY <2>4, <2>6 DEF EverySMSCostsACaptcha
  <2>8. CaptchasUnspent'
    <3>1. \A c \in Captcha : c \in captchas' \/ c \notin issued' => delivered'[c] = 0
      BY <2>1, <2>4, <2>6 DEF CaptchasUnspent
    <3>2. ASSUME NEW g \in Handler, pc'[g] \in Spending
          PROVE  /\ req'[g].captcha \in issued' \ captchas'
                 /\ delivered'[req'[g].captcha] = 0
                 /\ \A f \in Handler \ {g} :
                      pc'[f] \in Spending => req'[f].captcha # req'[g].captcha
      <4>1. g # h /\ pc[g] \in Spending /\ req'[g] = req[g]
        BY <2>2, <3>2 DEF Moved, Spending
      <4>2. req[g].captcha \in Captcha \ {k} /\ req[g].captcha \in issued \ captchas
        BY <2>5, <4>1 DEF CaptchasUnspent, Spending, TypeOK
      <4>3. delivered'[req[g].captcha] = 0
        BY <2>6, <4>1, <4>2 DEF CaptchasUnspent, Spending
      <4>4. \A f \in Handler : pc'[f] \in Spending =>
              pc[f] \in Spending /\ req'[f] = req[f]
        BY <2>2 DEF Moved, Spending
      <4> QED
        BY <2>1, <4>1, <4>2, <4>3, <4>4 DEF CaptchasUnspent, Spending
    <3> QED
      BY <3>1, <3>2 DEF CaptchasUnspent, Spending
  <2> QED
    BY <2>7, <2>8
<1>6. ASSUME NEW h \in Handler, Record(h) PROVE Kept
  BY <1>0, <1>6, OneEnds DEF Record, Spending
<1>7. ASSUME NEW h \in Handler, NEW p \in Phone, NEW u \in Purpose, NEW c \in Code,
             ReadLatest(h, p, u, c)
      PROVE  Kept
  <2>1. PICK i : Compare(h, i, c)
    BY <1>7 DEF ReadLatest
  <2>2. /\ UNCHANGED <<captchas, issued, delivered>>
        /\ \A g \in Handler : pc'[g] \in Spending => pc[g] \in Spending /\ req'[g] = req[g]
    BY <2>1 DEF Compare, Go, TypeOK, Spending
  <2> QED
    BY <2>2, CaptchasKept
<1>8. ASSUME NEW h \in Handler, IncrementAttempts(h) PROVE Kept
  BY <1>0, <1>8, OneEnds DEF IncrementAttempts, Spending
<1>9. ASSUME NEW h \in Handler, Consume(h) PROVE Kept
  BY <1>0, <1>9, OneEnds DEF Consume, Spending
<1>10. ASSUME NEW h \in Handler, Abort(h) PROVE Kept
  BY <1>0, <1>10, OneEnds DEF Abort, Spending
<1>11. CASE Restart
  BY <1>11, CaptchasKept DEF Restart
<1>12. CASE Tick
  BY <1>12, CaptchasKept DEF Tick
<1>13. CASE UNCHANGED vars
  BY <1>13, CaptchasKept DEF vars
<1> QED
  BY <1>1, <1>2, <1>3, <1>4, <1>5, <1>6, <1>7, <1>8, <1>9, <1>10, <1>11, <1>12, <1>13
  DEF Next, SendStep, VerifyStep

-----------------------------------------------------------------------------
(* Sends: what was checked under sendMu still holds at the insertion. *)

Sending == {"provider", "record"}

(* A set of natural numbers that is not empty has a least element.         *)
LEMMA LeastElement ==
  ASSUME NEW T, T \subseteq Nat, T # {}
  PROVE  \E x \in T : \A y \in T : x <= y
<1>1. PICK x \in T : \A y \in T : ~(<<y, x>> \in OpToRel(<, Nat))
  BY NatLessThanWellFounded, WFMin, Zenon
<1>2. ASSUME NEW y \in T, y < x PROVE FALSE
  <2>1. <<y, x>> \in Nat \X Nat
    OBVIOUS
  <2>2. <<y, x>> \in OpToRel(<, Nat)
    BY <1>2, <2>1, Zenon DEF OpToRel
  <2> QED
    BY <1>1, <2>2, Zenon
<1> QED
  BY <1>2

(* A query that finds any row finds a newest one. *)
LEMMA NewestExists ==
  ASSUME TypeOK, NEW S, S \subseteq Ids, S # {}
  PROVE  \E i \in Newest(S) : i \in S /\ \A j \in S : j <= i
<1> DEFINE T == {Len(rows) - i : i \in S}
<1>1. Len(rows) \in Nat /\ S \subseteq 1..Len(rows)
  BY IdsInNat
<1>2. T \subseteq Nat /\ T # {}
  <2>1. \A i \in S : Len(rows) - i \in Nat
    BY <1>1
  <2>2. \E i \in S : Len(rows) - i \in T
    OBVIOUS
  <2> QED
    BY <2>1, <2>2
<1>3. PICK x \in T : \A y \in T : x <= y
  BY <1>2, LeastElement
<1>4. PICK i \in S : x = Len(rows) - i
  OBVIOUS
<1>5. \A j \in S : j \in Nat /\ x <= Len(rows) - j
  <2>1. \A j \in S : Len(rows) - j \in T
    OBVIOUS
  <2> QED
    BY <1>1, <1>3, <2>1
<1>6. \A j \in S : j <= i
  BY <1>1, <1>4, <1>5
<1> QED
  BY <1>6 DEF Newest

(* The results of the queries are finite, and so are their parts. *)
LEMMA QueriesFinite ==
  ASSUME TypeOK, NEW S, S \subseteq Ids, NEW R, R \subseteq S
  PROVE  /\ IsFiniteSet(S) /\ IsFiniteSet(R)
         /\ Cardinality(S) \in Nat /\ Cardinality(R) \in Nat
         /\ Cardinality(R) <= Cardinality(S)
<1>1. IsFiniteSet(Ids) /\ S \in SUBSET Ids /\ R \in SUBSET S
  BY IdsInNat
<1>2. IsFiniteSet(S)
  BY <1>1, FS_Subset
<1>3. IsFiniteSet(R) /\ Cardinality(R) <= Cardinality(S)
  BY <1>1, <1>2, FS_Subset
<1> QED
  BY <1>2, <1>3, FS_CardinalityType

(* A query that finds at most one row more counts at most one more. *)
LEMMA OneMore ==
  ASSUME TypeOK, NEW S, S \subseteq Ids, NEW R, R \subseteq S, NEW n,
         NEW limit \in Nat, Cardinality(S) < limit
  PROVE  Cardinality(R \cup {n}) <= limit
<1>1. /\ IsFiniteSet(R) /\ Cardinality(R) \in Nat /\ Cardinality(S) \in Nat
      /\ Cardinality(R) <= Cardinality(S)
  BY QueriesFinite
<1>2. Cardinality(R \cup {n}) \in {Cardinality(R), Cardinality(R) + 1}
  BY <1>1, FS_AddElement
<1> QED
  BY <1>1, <1>2

(* A day starts before any moment of it; the hour before one is a number.  *)
LEMMA Times ==
  ASSUME NEW t \in Nat
  PROVE  DayStart(t) \in Int /\ DayStart(t) <= t /\ AnHourBefore(t) \in Nat
<1>1. t % Day \in Nat
  BY Parameters
<1>2. t < Hour \/ t - Hour \in Nat
  BY Parameters
<1> QED
  BY <1>1, <1>2 DEF DayStart, AnHourBefore

(* The messages are the same; only what was guessed of them may differ. *)
MessagesKept ==
  /\ Ids' = Ids
  /\ \A i \in Ids : /\ rows'[i].phone = rows[i].phone /\ rows'[i].ip = rows[i].ip
                    /\ rows'[i].code = rows[i].code /\ rows'[i].sentAt = rows[i].sentAt

(* Rows that keep what Send reads answer its queries as before. *)
LEMMA QueriesKept ==
  ASSUME MessagesKept
  PROVE  /\ \A p : RowsOf(p)' = RowsOf(p)
         /\ \A p : LastOf(p)' = LastOf(p)
         /\ \A p, t : SentSince(p, t)' = SentSince(p, t)
         /\ \A a, t : SentByIPSince(a, t)' = SentByIPSince(a, t)
         /\ \A p, t : SentOnDayOf(p, t)' = SentOnDayOf(p, t)
         /\ \A a, t : SentInHourTo(a, t)' = SentInHourTo(a, t)
<1>1. \A p : RowsOf(p)' = RowsOf(p)
  BY DEF MessagesKept, RowsOf
<1>2. \A p : LastOf(p)' = LastOf(p)
  BY <1>1 DEF LastOf, Newest
<1>3. \A p, t : SentSince(p, t)' = SentSince(p, t)
  BY <1>1 DEF SentSince, MessagesKept, RowsOf
<1>4. \A a, t : SentByIPSince(a, t)' = SentByIPSince(a, t)
  BY DEF SentByIPSince, MessagesKept
<1>5. \A p, t : SentOnDayOf(p, t)' = SentOnDayOf(p, t)
  BY <1>1 DEF SentOnDayOf, MessagesKept, RowsOf, DayStart
<1>6. \A a, t : SentInHourTo(a, t)' = SentInHourTo(a, t)
  BY <1>4 DEF SentInHourTo, MessagesKept, SentByIPSince, AnHourBefore
<1> QED
  BY <1>1, <1>2, <1>3, <1>4, <1>5, <1>6

SendsOK == ChecksStillHold /\ RecordedSendsKeepTheLimits /\ ConsecutiveCodesDiffer

(* A step that neither checks nor inserts. *)
LEMMA SendsKept ==
  ASSUME TypeOK, SendsOK, MessagesKept, now <= now', now' \in Nat,
         \A h \in Handler : pc'[h] \in Sending => pc[h] \in Sending /\ req'[h] = req[h]
  PROVE  SendsOK'
<1> USE DEF SendsOK
<1>0. now \in Nat
  BY Parameters DEF TypeOK
<1>1. ChecksStillHold'
  <2>1. \A i \in Ids' : rows'[i].sentAt <= now'
    BY <1>0, RowFields DEF MessagesKept, ChecksStillHold
  <2>2. ASSUME NEW h \in Handler, pc'[h] \in Sending
        PROVE  /\ req'[h].code \in Code
               /\ req'[h].at <= now' /\ \A i \in Ids' : rows'[i].sentAt <= req'[h].at
               /\ MaySend(req[h], req[h].at)' /\ FreshCode(req[h], req[h].code)'
    <3>1. pc[h] \in Sending /\ req'[h] = req[h]
      BY <2>2
    <3>2. req[h].code \in Code /\ req[h].at <= now /\ req[h].at \in Nat
      BY <3>1, RequestFields DEF ChecksStillHold, Sending
    <3>3. \A i \in Ids' : rows'[i].sentAt <= req[h].at
      BY <3>1 DEF ChecksStillHold, Sending, MessagesKept
    <3>4. \A i \in LastOf(req[h].phone) :
            rows'[i].sentAt = rows[i].sentAt /\ rows'[i].code = rows[i].code
      BY DEF LastOf, Newest, RowsOf, MessagesKept
    <3>5. MaySend(req[h], req[h].at) /\ FreshCode(req[h], req[h].code)
      BY <3>1 DEF ChecksStillHold, Sending
    <3>6. MaySend(req[h], req[h].at)'
      BY <3>1, <3>4, <3>5, QueriesKept DEF MaySend, DayStart, AnHourBefore
    <3>7. FreshCode(req[h], req[h].code)'
      BY <3>1, <3>4, <3>5, QueriesKept DEF FreshCode
    <3> QED
      BY <1>0, <3>1, <3>2, <3>3, <3>6, <3>7
  <2> QED
    BY <2>1, <2>2 DEF ChecksStillHold, Sending
<1>2. RecordedSendsKeepTheLimits'
  <2>1. \A p : RowsOf(p) \subseteq Ids
    BY DEF RowsOf
  <2> QED
    BY <2>1, QueriesKept DEF RecordedSendsKeepTheLimits, MessagesKept
<1>3. ConsecutiveCodesDiffer'
  <2>1. \A p : RowsOf(p) \subseteq Ids
    BY DEF RowsOf
  <2> QED
    BY <2>1, QueriesKept DEF ConsecutiveCodesDiffer, MessagesKept
<1> QED
  BY <1>1, <1>2, <1>3

(* The insertion. *)
LEMMA RecordKeepsTheLimits ==
  ASSUME TypeOK, SendsOK, NEW h \in Handler, Record(h)
  PROVE  SendsOK'
<1> USE DEF SendsOK
<1> DEFINE r == req[h]
           n == Len(rows) + 1
<1>0. pc[h] = "record" /\ rows' = Append(rows, NewRow(r)) /\ now' = now
  BY DEF Record
<1>1. /\ r.code \in Code /\ r.at \in Nat /\ r.at <= now
      /\ \A i \in Ids : rows[i].sentAt <= r.at
      /\ MaySend(r, r.at) /\ FreshCode(r, r.code)
      /\ r.phone \in Phone /\ r.ip \in IP /\ r \in Request
  BY <1>0, RequestFields DEF ChecksStillHold
<1>2. NewRow(r) \in Row /\ NewRow(r).phone = r.phone /\ NewRow(r).ip = r.ip
      /\ NewRow(r).code = r.code /\ NewRow(r).sentAt = r.at
  <2>1. r.at + SMSCodeTTL \in Nat
    BY <1>1, Parameters
  <2> QED
    BY <1>1, <2>1 DEF NewRow, Row, Request
<1>3. /\ Ids' = Ids \cup {n} /\ n \notin Ids /\ n \in Nat /\ \A i \in Ids : i < n
      /\ rows'[n] = NewRow(r) /\ \A i \in Ids : rows'[i] = rows[i]
  BY <1>0, <1>2, RowInserted
<1>4. \A i \in Ids : i \in Nat /\ rows[i].sentAt \in Nat
  BY RowFields
<1> HIDE DEF r, n
<1>5. \A p : RowsOf(p)' = IF p = r.phone THEN RowsOf(p) \cup {n} ELSE RowsOf(p)
  BY <1>2, <1>3 DEF RowsOf
<1>6. \A p : RowsOf(p) \subseteq Ids
  BY DEF RowsOf
<1>7. ChecksStillHold'
  <2>1. \A g \in Handler : pc'[g] \notin Sending
    <3>1. Moved(h, "record", "idle", NoRequest)
      BY OneEnds DEF Record
    <3> QED
      BY <1>0, <3>1 DEF Moved, TypeOK, Sending
  <2>2. \A i \in Ids' : rows'[i].sentAt <= now'
    BY <1>0, <1>1, <1>2, <1>3 DEF ChecksStillHold
  <2> QED
    BY <2>1, <2>2 DEF ChecksStillHold, Sending
<1>8. ASSUME NEW p \in Phone, NEW i \in RowsOf(p)', NEW j \in RowsOf(p)', i < j
      PROVE  rows'[j].sentAt - rows'[i].sentAt >= SMSInterval
  <2>0. i \in RowsOf(p)
    BY <1>3, <1>4, <1>5, <1>6, <1>8
  <2>1. CASE j \in RowsOf(p)
    BY <1>3, <1>6, <1>8, <2>0, <2>1 DEF RecordedSendsKeepTheLimits
  <2>2. CASE j = n /\ p = r.phone
    <3>1. PICK l \in LastOf(p) : l \in RowsOf(p) /\ i <= l
      BY <1>6, <2>0, NewestExists DEF LastOf
    <3>2. r.at - rows[l].sentAt >= SMSInterval
      BY <1>1, <2>2, <3>1 DEF MaySend
    <3>3. l = i \/ rows[l].sentAt - rows[i].sentAt >= SMSInterval
      BY <1>4, <1>6, <2>0, <3>1 DEF RecordedSendsKeepTheLimits
    <3>4. r.at - rows[i].sentAt >= SMSInterval
      BY <1>1, <1>4, <1>6, <2>0, <3>1, <3>2, <3>3, Parameters
    <3> QED
      BY <1>2, <1>3, <1>6, <2>0, <2>2, <3>4
  <2> QED
    BY <1>5, <1>8, <2>1, <2>2
<1>9. ASSUME NEW p \in Phone, NEW i \in RowsOf(p)'
      PROVE  Cardinality(SentOnDayOf(p, rows[i].sentAt)') <= SMSDailyLimit
  <2> DEFINE N == {j \in RowsOf(p)' : DayStart(rows'[j].sentAt) = DayStart(rows'[i].sentAt)}
  <2>1. SentOnDayOf(p, rows[i].sentAt)' = N
    BY DEF SentOnDayOf, DayStart
  <2>2. CASE p = r.phone /\ DayStart(rows'[i].sentAt) = DayStart(r.at)
    <3>1. N = SentOnDayOf(p, r.at) \cup {n}
      BY <1>2, <1>3, <1>5, <1>6, <2>2 DEF SentOnDayOf
    <3>2. SentOnDayOf(p, r.at) \subseteq SentSince(p, DayStart(r.at))
      BY <1>4, <1>6, Times DEF SentOnDayOf, SentSince
    <3>3. SentSince(p, DayStart(r.at)) \subseteq Ids
      BY <1>6 DEF SentSince
    <3>4. Cardinality(SentSince(p, DayStart(r.at))) < SMSDailyLimit
      BY <1>1, <2>2 DEF MaySend
    <3>5. Cardinality(N) <= SMSDailyLimit
      BY <3>1, <3>2, <3>3, <3>4, OneMore, Parameters
    <3> QED
      BY <2>1, <3>5
  <2>3. CASE ~(p = r.phone /\ DayStart(rows'[i].sentAt) = DayStart(r.at))
    <3>1. i \in RowsOf(p)
      BY <1>2, <1>3, <1>5, <2>3
    <3>2. N = SentOnDayOf(p, rows[i].sentAt)
      BY <1>2, <1>3, <1>5, <1>6, <2>3, <3>1 DEF SentOnDayOf
    <3> QED
      BY <2>1, <3>1, <3>2 DEF RecordedSendsKeepTheLimits
  <2> QED
    BY <2>2, <2>3
<1>10. ASSUME NEW i \in Ids'
       PROVE  Cardinality(SentInHourTo(rows[i].ip, rows[i].sentAt)') <= SMSIPHourlyLimit
  <2> DEFINE a == rows'[i].ip
             t == rows'[i].sentAt
             N == {j \in Ids' : /\ rows'[j].ip = a
                                /\ rows'[j].sentAt >= AnHourBefore(t) /\ rows'[j].sentAt <= t}
  <2>1. SentInHourTo(rows[i].ip, rows[i].sentAt)' = N
    BY DEF SentInHourTo, SentByIPSince, AnHourBefore
  <2>0. t \in Nat /\ t <= r.at
    BY <1>1, <1>2, <1>3, <1>4
  <2>2. CASE a = r.ip /\ t = r.at
    <3>1. N \subseteq SentByIPSince(a, AnHourBefore(t)) \cup {n}
      BY <1>3 DEF SentByIPSince
    <3>2. n \in N
      BY <1>1, <1>2, <1>3, <2>2, Parameters DEF AnHourBefore
    <3>3. N = (N \ {n}) \cup {n} /\ N \ {n} \subseteq SentByIPSince(a, AnHourBefore(t))
      BY <3>1, <3>2
    <3>4. SentByIPSince(a, AnHourBefore(t)) \subseteq Ids
      BY DEF SentByIPSince
    <3>5. Cardinality(SentByIPSince(a, AnHourBefore(t))) < SMSIPHourlyLimit
      BY <1>1, <2>2 DEF MaySend
    <3> HIDE DEF N, a, t
    <3>6. Cardinality(N) <= SMSIPHourlyLimit
      BY <3>3, <3>4, <3>5, OneMore, Parameters
    <3> QED
      BY <2>1, <3>6
  <2>3. CASE ~(a = r.ip /\ t = r.at)
    <3>1. i \in Ids
      BY <1>2, <1>3, <2>3
    <3>2. a = rows[i].ip /\ t = rows[i].sentAt
      BY <1>3, <3>1
    <3>3. n \notin N
      BY <1>1, <1>2, <1>3, <2>0, <2>3
    <3>4. N = {j \in Ids : /\ rows[j].ip = a
                           /\ rows[j].sentAt >= AnHourBefore(t) /\ rows[j].sentAt <= t}
      BY <1>3, <3>3
    <3>5. N = SentInHourTo(rows[i].ip, rows[i].sentAt)
      BY <3>2, <3>4 DEF SentInHourTo, SentByIPSince
    <3> QED
      BY <2>1, <3>1, <3>5 DEF RecordedSendsKeepTheLimits
  <2> QED
    BY <2>2, <2>3
<1>11. RecordedSendsKeepTheLimits'
  BY <1>8, <1>9, <1>10 DEF RecordedSendsKeepTheLimits
<1>12. ConsecutiveCodesDiffer'
  <2> SUFFICES ASSUME NEW p \in Phone, NEW i \in RowsOf(p)', NEW j \in RowsOf(p)', i < j,
                      \A k \in RowsOf(p)' : ~(i < k /\ k < j)
               PROVE  rows'[i].code # rows'[j].code
    BY DEF ConsecutiveCodesDiffer
  <2>0. i \in RowsOf(p)
    BY <1>3, <1>4, <1>5, <1>6
  <2>1. CASE j \in RowsOf(p)
    BY <1>3, <1>5, <1>6, <2>0, <2>1 DEF ConsecutiveCodesDiffer
  <2>2. CASE j = n /\ p = r.phone
    <3>1. \A k \in RowsOf(p) : k < n /\ k \in Nat /\ k <= i
      BY <1>3, <1>4, <1>5, <1>6, <2>0, <2>2
    <3>2. i \in LastOf(r.phone)
      BY <2>0, <2>2, <3>1 DEF LastOf, Newest
    <3>3. rows[i].code # r.code
      BY <1>1, <3>2 DEF FreshCode
    <3> QED
      BY <1>2, <1>3, <1>6, <2>0, <2>2, <3>3
  <2> QED
    BY <1>5, <2>1, <2>2
<1> QED
  BY <1>7, <1>11, <1>12

(* What VerifyCode and a failure do to the row that was read: the message  *)
(* stays, and so does every other row.                                     *)
OnlyTouches(i) ==
  /\ i \in Ids /\ MessagesKept
  /\ \A j \in Ids : j # i => rows'[j] = rows[j]

(* Rewriting the counters of one row touches that row only. *)
LEMMA RowTouched ==
  ASSUME TypeOK, NEW i \in Ids, NEW r \in Row, rows' = [rows EXCEPT ![i] = r],
         r.phone = rows[i].phone, r.ip = rows[i].ip, r.code = rows[i].code,
         r.sentAt = rows[i].sentAt
  PROVE  OnlyTouches(i) /\ rows'[i] = r
  BY RowRewritten DEF OnlyTouches, MessagesKept

(* What Compare does to the row it read. *)
LEMMA CompareEffect ==
  ASSUME TypeOK, NEW h \in Handler, NEW i \in Ids, NEW c, Compare(h, i, c)
  PROVE  /\ OnlyTouches(i)
         /\ rows'[i].attempts = rows[i].attempts /\ rows'[i].uncounted = rows[i].uncounted
         /\ rows'[i].accepted = rows[i].accepted /\ rows'[i].consumed = rows[i].consumed
         /\ \E to \in {"increment", "consume"}, r \in Request :
              /\ Moved(h, "idle", to, r) /\ r.id = i
              /\ \/ rows'[i].guesses = rows[i].guesses
                 \/ /\ rows'[i].guesses = rows[i].guesses + 1
                    /\ to = "increment" /\ rows[i].attempts < SMSMaxAttempts
<1> DEFINE wrong == rows[i].attempts < SMSMaxAttempts /\ rows[i].code # c
           right == rows[i].attempts < SMSMaxAttempts /\ rows[i].code = c
           to == IF right THEN "consume" ELSE "increment"
           last == rows[i].attempts + 1 >= SMSMaxAttempts
           r == [NoRequest EXCEPT !.id = i, !.consume = last]
           w == [rows[i] EXCEPT !.guesses = @ + 1]
<1>1. Go(h, "idle", to, r)
  BY DEF Compare
<1>2. r \in Request /\ r.id = i
  <2>1. i \in Nat /\ last \in BOOLEAN
    BY RowFields
  <2> QED
    BY <2>1, RequestTypes
<1>3. to \in {"increment", "consume"} /\ (wrong => to = "increment")
  OBVIOUS
<1>4. (wrong /\ rows' = [rows EXCEPT ![i] = w]) \/ rows' = rows
  BY DEF Compare
<1>5. /\ w \in Row /\ w.phone = rows[i].phone /\ w.ip = rows[i].ip /\ w.code = rows[i].code
      /\ w.sentAt = rows[i].sentAt /\ w.attempts = rows[i].attempts
      /\ w.uncounted = rows[i].uncounted /\ w.accepted = rows[i].accepted
      /\ w.consumed = rows[i].consumed /\ w.guesses = rows[i].guesses + 1
  <2>1. rows[i] \in Row /\ rows[i].guesses + 1 \in Nat
    BY RowFields
  <2> QED
    BY <2>1 DEF Row
<1> HIDE DEF r, to, w, last
<1>6. Moved(h, "idle", to, r)
  BY <1>1, <1>2, <1>3, OneMoves DEF Steps
<1>7. CASE wrong /\ rows' = [rows EXCEPT ![i] = w]
  <2>1. OnlyTouches(i) /\ rows'[i] = w
    BY <1>5, <1>7, RowTouched
  <2> QED
    BY <1>2, <1>3, <1>5, <1>6, <1>7, <2>1
<1>8. CASE rows' = rows
  <2>1. OnlyTouches(i)
    BY <1>8 DEF OnlyTouches, MessagesKept, Ids
  <2> QED
    BY <1>2, <1>3, <1>6, <1>8, <2>1
<1> QED
  BY <1>4, <1>7, <1>8

(* What IncrementAttempts does to the row its request read. *)
LEMMA IncrementEffect ==
  ASSUME TypeOK, NEW h \in Handler, IncrementAttempts(h)
  PROVE  LET i == req[h].id
         IN  /\ OnlyTouches(i) /\ Moved(h, "increment", "idle", NoRequest)
             /\ rows'[i].attempts = rows[i].attempts + 1
             /\ rows'[i].guesses = rows[i].guesses
             /\ rows'[i].uncounted = rows[i].uncounted
             /\ rows'[i].accepted = rows[i].accepted
             /\ rows[i].consumed => rows'[i].consumed
<1> DEFINE i == req[h].id
           r == [rows[i] EXCEPT !.attempts = @ + 1, !.consumed = @ \/ req[h].consume]
<1>1. i \in Ids
  BY DEF IncrementAttempts, TypeOK
<1>2. rows' = [rows EXCEPT ![i] = r]
  BY DEF IncrementAttempts
<1>3. /\ r \in Row /\ r.phone = rows[i].phone /\ r.ip = rows[i].ip /\ r.code = rows[i].code
      /\ r.sentAt = rows[i].sentAt /\ r.attempts = rows[i].attempts + 1
      /\ r.uncounted = rows[i].uncounted /\ r.accepted = rows[i].accepted
      /\ r.guesses = rows[i].guesses /\ (rows[i].consumed => r.consumed)
  <2>1. /\ rows[i] \in Row /\ rows[i].attempts + 1 \in Nat
        /\ (rows[i].consumed \/ req[h].consume) \in BOOLEAN
    BY <1>1, RowFields
  <2> QED
    BY <2>1 DEF Row
<1>4. Moved(h, "increment", "idle", NoRequest)
  BY OneEnds DEF IncrementAttempts
<1> HIDE DEF i, r
<1>5. OnlyTouches(i) /\ rows'[i] = r
  BY <1>1, <1>2, <1>3, RowTouched
<1>6. /\ OnlyTouches(i) /\ Moved(h, "increment", "idle", NoRequest)
      /\ rows'[i].attempts = rows[i].attempts + 1
      /\ rows'[i].guesses = rows[i].guesses /\ rows'[i].uncounted = rows[i].uncounted
      /\ rows'[i].accepted = rows[i].accepted /\ (rows[i].consumed => rows'[i].consumed)
  BY <1>3, <1>4, <1>5
<1> QED
  BY <1>6 DEF i

(* What Consume does to the row its request read. *)
LEMMA ConsumeEffect ==
  ASSUME TypeOK, NEW h \in Handler, Consume(h)
  PROVE  LET i == req[h].id
         IN  /\ OnlyTouches(i) /\ Moved(h, "consume", "idle", NoRequest)
             /\ rows'[i].attempts = rows[i].attempts
             /\ rows'[i].guesses = rows[i].guesses
             /\ rows'[i].uncounted = rows[i].uncounted
             /\ rows'[i].accepted = rows[i].accepted + 1
             /\ rows'[i].consumed
<1> DEFINE i == req[h].id
           r == [rows[i] EXCEPT !.consumed = TRUE, !.accepted = @ + 1]
<1>1. i \in Ids
  BY DEF Consume, TypeOK
<1>2. rows' = [rows EXCEPT ![i] = r]
  BY DEF Consume
<1>3. /\ r \in Row /\ r.phone = rows[i].phone /\ r.ip = rows[i].ip /\ r.code = rows[i].code
      /\ r.sentAt = rows[i].sentAt /\ r.attempts = rows[i].attempts
      /\ r.uncounted = rows[i].uncounted /\ r.accepted = rows[i].accepted + 1
      /\ r.guesses = rows[i].guesses /\ r.consumed
  <2>1. rows[i] \in Row /\ rows[i].accepted + 1 \in Nat
    BY <1>1, RowFields
  <2> QED
    BY <2>1 DEF Row
<1>4. Moved(h, "consume", "idle", NoRequest)
  BY OneEnds DEF Consume
<1> HIDE DEF i, r
<1>5. OnlyTouches(i) /\ rows'[i] = r
  BY <1>1, <1>2, <1>3, RowTouched
<1>6. /\ OnlyTouches(i) /\ Moved(h, "consume", "idle", NoRequest)
      /\ rows'[i].attempts = rows[i].attempts
      /\ rows'[i].guesses = rows[i].guesses /\ rows'[i].uncounted = rows[i].uncounted
      /\ rows'[i].accepted = rows[i].accepted + 1 /\ rows'[i].consumed
  BY <1>3, <1>4, <1>5
<1> QED
  BY <1>6 DEF i

(* A request that fails before it counted its guess leaves the guess       *)
(* uncounted; any other leaves the rows alone.                             *)
LEMMA AbortEffect ==
  ASSUME TypeOK, NEW h \in Handler, Abort(h)
  PROVE  /\ Moved(h, pc[h], "idle", NoRequest)
         /\ pc[h] # "increment" => rows' = rows
         /\ pc[h] = "increment" =>
              LET i == req[h].id
              IN  /\ OnlyTouches(i)
                  /\ rows'[i].attempts = rows[i].attempts
                  /\ rows'[i].guesses = rows[i].guesses
                  /\ rows'[i].uncounted = rows[i].uncounted + 1
                  /\ rows'[i].accepted = rows[i].accepted
                  /\ rows'[i].consumed = rows[i].consumed
<1> DEFINE i == req[h].id
           r == [rows[i] EXCEPT !.uncounted = @ + 1]
<1>1. Moved(h, pc[h], "idle", NoRequest) /\ (pc[h] # "increment" => rows' = rows)
  BY OneEnds DEF Abort
<1>2. ASSUME pc[h] = "increment"
      PROVE  /\ OnlyTouches(i)
             /\ rows'[i].attempts = rows[i].attempts
             /\ rows'[i].guesses = rows[i].guesses
             /\ rows'[i].uncounted = rows[i].uncounted + 1
             /\ rows'[i].accepted = rows[i].accepted
             /\ rows'[i].consumed = rows[i].consumed
  <2>1. i \in Ids
    BY <1>2 DEF TypeOK
  <2>2. rows' = [rows EXCEPT ![i] = r]
    BY <1>2 DEF Abort
  <2>3. /\ r \in Row /\ r.phone = rows[i].phone /\ r.ip = rows[i].ip /\ r.code = rows[i].code
        /\ r.sentAt = rows[i].sentAt /\ r.attempts = rows[i].attempts
        /\ r.uncounted = rows[i].uncounted + 1 /\ r.accepted = rows[i].accepted
        /\ r.guesses = rows[i].guesses /\ r.consumed = rows[i].consumed
    <3>1. rows[i] \in Row /\ rows[i].uncounted + 1 \in Nat
      BY <2>1, RowFields
    <3> QED
      BY <3>1 DEF Row
  <2> HIDE DEF i, r
  <2>4. OnlyTouches(i) /\ rows'[i] = r
    BY <2>1, <2>2, <2>3, RowTouched
  <2> QED
    BY <2>3, <2>4
<1> QED
  BY <1>1, <1>2

(* Every operation of the service keeps the limits of Send: those of the   *)
(* rows, and those that the request inside the critical section has        *)
(* checked.                                                                *)
LEMMA SendsStep == TypeOK /\ SendsOK /\ TypeOK' /\ [Next]_vars => SendsOK'
<1> SUFFICES ASSUME TypeOK, SendsOK, TypeOK', [Next]_vars PROVE SendsOK'
  OBVIOUS
<1>0. now \in Nat /\ now' \in Nat
  BY Parameters DEF TypeOK
<1>a. ASSUME UNCHANGED rows PROVE MessagesKept
  BY <1>a DEF MessagesKept, Ids
<1>b. ASSUME NEW h \in Handler, NEW from, NEW to, to \notin Sending, NEW r,
             Moved(h, from, to, r), now' = now, MessagesKept
      PROVE  SendsOK'
  BY <1>0, <1>b, SendsKept DEF Moved
<1>1. ASSUME NEW c \in Captcha, IssueCaptcha(c) PROVE SendsOK'
  BY <1>0, <1>1, <1>a, SendsKept DEF IssueCaptcha
<1>2. ASSUME NEW h \in Handler, NEW p \in Phone, NEW u \in Purpose, NEW a \in IP,
             NEW c \in Captcha, NEW ok \in BOOLEAN, AnswerCaptcha(h, p, u, a, c, ok)
      PROVE  SendsOK'
  <2>1. \A g \in Handler : pc'[g] \in Sending => pc[g] \in Sending /\ req'[g] = req[g]
    BY <1>2 DEF AnswerCaptcha, Go, TypeOK, Sending
  <2> QED
    BY <1>0, <1>2, <1>a, <2>1, SendsKept DEF AnswerCaptcha
<1>3. ASSUME NEW h \in Handler, NEW c \in Code, Check(h, c) PROVE SendsOK'
  <2>1. PICK r \in Request : /\ r = [req[h] EXCEPT !.code = c, !.at = now]
                              /\ r.phone = req[h].phone /\ r.ip = req[h].ip
                              /\ r.code = c /\ r.at = now
    <3> DEFINE x == [req[h] EXCEPT !.code = c, !.at = now]
    <3>1. req[h] \in Request
      BY RequestFields
    <3>2. x \in Request /\ x.phone = req[h].phone /\ x.ip = req[h].ip
          /\ x.code = c /\ x.at = now
      BY <1>0, <3>1 DEF Request
    <3> QED
      BY <3>2
  <2>2. Go(h, "check", "provider", r) /\ UNCHANGED <<now, rows>> /\ sendMu = None
    BY <1>3, <2>1 DEF Check
  <2>3. Moved(h, "check", "provider", r)
    BY <2>1, <2>2, OneMoves DEF Steps
  <2>4. MaySend(req[h], now) /\ FreshCode(req[h], c)
    BY <1>3 DEF Check
  <2>5. MaySend(r, r.at) /\ FreshCode(r, r.code)
    BY <2>1, <2>4 DEF MaySend, FreshCode
  <2>6. \A g \in Handler : pc'[g] \in Sending => g = h
    BY <2>2, <2>3, Parameters DEF Moved, TypeOK, Sending
  <2>7. ChecksStillHold'
    <3>1. MaySend(r, r.at)' /\ FreshCode(r, r.code)'
      BY <2>2, <2>5 DEF MaySend, FreshCode, LastOf, Newest, SentSince, SentByIPSince,
                        RowsOf, Ids, DayStart, AnHourBefore
    <3>2. req'[h] = r
      BY <2>3 DEF Moved
    <3>3. \A i \in Ids' : rows'[i].sentAt <= now'
      BY <2>2 DEF SendsOK, ChecksStillHold, Ids
    <3>4. MaySend(req[h], req[h].at)' /\ FreshCode(req[h], req[h].code)'
      BY <3>1, <3>2 DEF MaySend, FreshCode
    <3>5. /\ req'[h].code \in Code /\ req'[h].at <= now'
          /\ \A i \in Ids' : rows'[i].sentAt <= req'[h].at
      BY <1>0, <2>1, <2>2, <3>2, <3>3
    <3> QED
      BY <2>6, <3>3, <3>4, <3>5 DEF ChecksStillHold, Sending
  <2>8. RecordedSendsKeepTheLimits' /\ ConsecutiveCodesDiffer'
    BY <2>2 DEF SendsOK, RecordedSendsKeepTheLimits, ConsecutiveCodesDiffer, SentOnDayOf,
                SentInHourTo, SentByIPSince, RowsOf, Ids, DayStart, AnHourBefore
  <2> QED
    BY <2>7, <2>8 DEF SendsOK
<1>4. ASSUME NEW h \in Handler, Refuse(h) PROVE SendsOK'
  BY <1>4, <1>a, <1>b, OneEnds DEF Refuse, Sending
<1>5. ASSUME NEW h \in Handler, NEW sent \in BOOLEAN, NEW answered \in BOOLEAN,
             CallProvider(h, sent, answered)
      PROVE  SendsOK'
  <2>1. \A g \in Handler : pc'[g] \in Sending => pc[g] \in Sending /\ req'[g] = req[g]
    BY <1>5 DEF CallProvider, Finish, Go, TypeOK, Sending
  <2> QED
    BY <1>0, <1>5, <1>a, <2>1, SendsKept DEF CallProvider
<1>6. ASSUME NEW h \in Handler, Record(h) PROVE SendsOK'
  BY <1>6, RecordKeepsTheLimits
<1>7. ASSUME NEW h \in Handler, NEW p \in Phone, NEW u \in Purpose, NEW c \in Code,
             ReadLatest(h, p, u, c)
      PROVE  SendsOK'
  <2>1. PICK i \in Ids : Compare(h, i, c)
    BY <1>7 DEF ReadLatest, LatestFor, Newest, RowsOf
  <2>2. PICK to \in {"increment", "consume"}, r \in Request :
          Moved(h, "idle", to, r) /\ MessagesKept
    BY <2>1, CompareEffect DEF OnlyTouches
  <2>3. now' = now
    BY <2>1 DEF Compare
  <2> QED
    BY <1>b, <2>2, <2>3 DEF Sending
<1>8. ASSUME NEW h \in Handler, IncrementAttempts(h) PROVE SendsOK'
  <2>1. MessagesKept /\ Moved(h, "increment", "idle", NoRequest) /\ now' = now
    BY <1>8, IncrementEffect DEF OnlyTouches, IncrementAttempts
  <2> QED
    BY <1>b, <2>1 DEF Sending
<1>9. ASSUME NEW h \in Handler, Consume(h) PROVE SendsOK'
  <2>1. MessagesKept /\ Moved(h, "consume", "idle", NoRequest) /\ now' = now
    BY <1>9, ConsumeEffect DEF OnlyTouches, Consume
  <2> QED
    BY <1>b, <2>1 DEF Sending
<1>10. ASSUME NEW h \in Handler, Abort(h) PROVE SendsOK'
  <2>1. MessagesKept /\ Moved(h, pc[h], "idle", NoRequest) /\ now' = now
    BY <1>10, <1>a, AbortEffect DEF OnlyTouches, Abort
  <2> QED
    BY <1>b, <2>1 DEF Sending
<1>11. CASE Restart
  BY <1>0, <1>11, <1>a, SendsKept DEF Restart
<1>12. CASE Tick
  BY <1>0, <1>12, <1>a, SendsKept DEF Tick
<1>13. CASE UNCHANGED vars
  BY <1>0, <1>13, <1>a, SendsKept DEF vars
<1> QED
  BY <1>1, <1>2, <1>3, <1>4, <1>5, <1>6, <1>7, <1>8, <1>9, <1>10, <1>11, <1>12, <1>13
  DEF Next, SendStep, VerifyStep

-----------------------------------------------------------------------------
(* Guesses: at most one more for each request in flight. *)

(* How many requests read row i and are at a step.                         *)
Count(i, step) == Cardinality(AtStep(i, step))

(* At most every handler is at a step on a row. *)
LEMMA CountBounded ==
  ASSUME NEW i, NEW step
  PROVE  /\ IsFiniteSet(AtStep(i, step)) /\ Count(i, step) \in Nat
         /\ Count(i, step) <= Cardinality(Handler) /\ Cardinality(Handler) \in Nat
<1>1. IsFiniteSet(Handler) /\ AtStep(i, step) \in SUBSET Handler
  BY Parameters DEF AtStep
<1>2. IsFiniteSet(AtStep(i, step)) /\ Count(i, step) <= Cardinality(Handler)
  BY <1>1, FS_Subset DEF Count
<1> QED
  BY <1>1, <1>2, FS_CardinalityType DEF Count

(* The same in the next state. *)
LEMMA CountBoundedNext ==
  ASSUME NEW i, NEW step
  PROVE  Count(i, step)' \in Nat /\ Count(i, step)' <= Cardinality(Handler)
<1>1. IsFiniteSet(Handler) /\ AtStep(i, step)' \in SUBSET Handler
  BY Parameters DEF AtStep
<1>2. IsFiniteSet(AtStep(i, step)') /\ Cardinality(AtStep(i, step)') <= Cardinality(Handler)
  BY <1>1, FS_Subset
<1> QED
  BY <1>1, <1>2, FS_CardinalityType DEF Count

(* The count goes up by one when a request arrives at the step, down by    *)
(* one when it leaves, and does not change otherwise.                      *)
LEMMA CountMoves ==
  ASSUME TypeOK, NEW h \in Handler, NEW from, NEW to, from # to, NEW r, Moved(h, from, to, r),
         NEW i, NEW step
  PROVE  Count(i, step)' = IF to = step /\ r.id = i THEN Count(i, step) + 1
                           ELSE IF from = step /\ req[h].id = i THEN Count(i, step) - 1
                           ELSE Count(i, step)
<1>0. IsFiniteSet(AtStep(i, step)) /\ Count(i, step) \in Nat
  BY CountBounded
<1>1. CASE to = step /\ r.id = i
  <2>1. AtStep(i, step)' = AtStep(i, step) \cup {h} /\ h \notin AtStep(i, step)
    BY <1>1 DEF AtStep, Moved
  <2> QED
    BY <1>0, <1>1, <2>1, FS_AddElement DEF Count
<1>2. CASE ~(to = step /\ r.id = i) /\ from = step /\ req[h].id = i
  <2>1. AtStep(i, step)' = AtStep(i, step) \ {h} /\ h \in AtStep(i, step)
    BY <1>2 DEF AtStep, Moved
  <2> QED
    BY <1>0, <1>2, <2>1, FS_RemoveElement DEF Count
<1>3. CASE ~(to = step /\ r.id = i) /\ ~(from = step /\ req[h].id = i)
  <2>1. AtStep(i, step)' = AtStep(i, step)
    BY <1>3 DEF AtStep, Moved
  <2> QED
    BY <1>3, <2>1 DEF Count
<1> QED
  BY <1>1, <1>2, <1>3

(* What the two properties say of one row.                                 *)
RowOK(i) ==
  /\ rows[i].guesses <= rows[i].attempts + rows[i].uncounted + Count(i, "increment")
  /\ ~rows[i].consumed => rows[i].accepted = 0
  /\ rows[i].guesses <= SMSMaxAttempts + (Cardinality(Handler) - 1) + rows[i].uncounted

GuessesOK == GuessesAccountedFor /\ GuessBudget

(* The bounds on guesses hold row by row. *)
LEMMA GuessesOKByRow == GuessesOK <=> \A i \in Ids : RowOK(i)
<1>1. GuessesAccountedFor <=> \A i \in Ids :
        /\ rows[i].guesses <= rows[i].attempts + rows[i].uncounted + Count(i, "increment")
        /\ ~rows[i].consumed => rows[i].accepted = 0
  BY DEF GuessesAccountedFor, Count
<1> QED
  BY <1>1 DEF GuessesOK, GuessBudget, RowOK

(* A row that a step leaves alone, while no request arrives at a step on   *)
(* it that it was not at before, stays as it should be.                    *)
LEMMA RowKept ==
  ASSUME TypeOK, NEW i \in Ids, RowOK(i), rows'[i] = rows[i],
         Count(i, "increment")' = Count(i, "increment")
  PROVE  RowOK(i)'
  BY DEF RowOK

(* The same in the next state. *)
LEMMA GuessesOKByRowNext == (GuessesOK <=> \A i \in Ids : RowOK(i))'
  BY GuessesOKByRow, PTL

(* Every operation of the service keeps the account of guesses. *)
LEMMA GuessesStep == TypeOK /\ GuessesOK /\ ChecksStillHold /\ [Next]_vars => GuessesOK'
<1> SUFFICES ASSUME TypeOK, GuessesOK, ChecksStillHold, [Next]_vars PROVE GuessesOK'
  OBVIOUS
<1>r. \A i \in Ids : RowOK(i)
  BY GuessesOKByRow
<1>p. (\A i \in Ids' : RowOK(i)') => GuessesOK'
  BY GuessesOKByRowNext
<1>n. /\ Cardinality(Handler) \in Nat /\ Cardinality(Handler) >= 0
      /\ SMSMaxAttempts \in Nat /\ SMSMaxAttempts > 0
  BY CountBounded, Parameters
(* Nobody moves to or from the increment, and the rows stay. *)
<1>a. ASSUME NEW h \in Handler, NEW from, NEW to, from # to, NEW r, Moved(h, from, to, r),
             from # "increment", to # "increment", rows' = rows
      PROVE  GuessesOK'
  <2> SUFFICES ASSUME NEW i \in Ids PROVE RowOK(i)'
    BY <1>a, <1>p DEF Ids
  <2>1. Count(i, "increment")' = Count(i, "increment")
    BY <1>a, CountMoves
  <2> QED
    BY <1>a, <1>r, <2>1, RowKept
<1>b. ASSUME UNCHANGED <<rows, pc, req>> PROVE GuessesOK'
  BY <1>b DEF GuessesOK, GuessesAccountedFor, GuessBudget, AtStep, Ids
<1>1. ASSUME NEW c \in Captcha, IssueCaptcha(c) PROVE GuessesOK'
  BY <1>1, <1>b DEF IssueCaptcha
<1>2. ASSUME NEW h \in Handler, NEW p \in Phone, NEW u \in Purpose, NEW a \in IP,
             NEW c \in Captcha, NEW ok \in BOOLEAN, AnswerCaptcha(h, p, u, a, c, ok)
      PROVE  GuessesOK'
  <2>1. CASE ok
    <3> DEFINE r == [NoRequest EXCEPT !.phone = p, !.purpose = u, !.ip = a, !.captcha = c]
    <3>1. r \in Request
      BY RequestTypes
    <3>2. Go(h, "idle", "check", r)
      BY <1>2, <2>1 DEF AnswerCaptcha
    <3> HIDE DEF r
    <3>3. Moved(h, "idle", "check", r)
      BY <3>1, <3>2, OneMoves DEF Steps
    <3>4. rows' = rows
      BY <1>2 DEF AnswerCaptcha
    <3> QED
      BY <1>a, <3>3, <3>4
  <2>2. CASE ~ok
    BY <1>2, <1>b, <2>2 DEF AnswerCaptcha
  <2> QED
    BY <2>1, <2>2
<1>3. ASSUME NEW h \in Handler, NEW c \in Code, Check(h, c) PROVE GuessesOK'
  <2> DEFINE r == [req[h] EXCEPT !.code = c, !.at = now]
  <2>1. r \in Request
    <3>1. now \in Nat /\ req[h] \in Request
      BY Parameters, RequestFields DEF TypeOK
    <3> QED
      BY <3>1 DEF Request
  <2>2. Go(h, "check", "provider", r) /\ rows' = rows
    BY <1>3 DEF Check
  <2> HIDE DEF r
  <2>3. Moved(h, "check", "provider", r)
    BY <2>1, <2>2, OneMoves DEF Steps
  <2> QED
    BY <1>a, <2>2, <2>3
<1>4. ASSUME NEW h \in Handler, Refuse(h) PROVE GuessesOK'
  <2>1. Moved(h, "check", "idle", NoRequest) /\ rows' = rows
    BY <1>4, OneEnds DEF Refuse
  <2> QED
    BY <1>a, <2>1
<1>5. ASSUME NEW h \in Handler, NEW sent \in BOOLEAN, NEW answered \in BOOLEAN,
             CallProvider(h, sent, answered)
      PROVE  GuessesOK'
  <2>1. rows' = rows /\ (Go(h, "provider", "record", req[h]) \/ Finish(h, "provider"))
    BY <1>5 DEF CallProvider
  <2>2. CASE Go(h, "provider", "record", req[h])
    <3>1. Moved(h, "provider", "record", req[h])
      BY <2>2, OneMoves, RequestFields DEF Steps
    <3> QED
      BY <1>a, <2>1, <3>1
  <2>3. CASE Finish(h, "provider")
    <3>1. Moved(h, "provider", "idle", NoRequest)
      BY <2>3, OneEnds
    <3> QED
      BY <1>a, <2>1, <3>1
  <2> QED
    BY <2>1, <2>2, <2>3
<1>6. ASSUME NEW h \in Handler, Record(h) PROVE GuessesOK'
  <2>1. Moved(h, "record", "idle", NoRequest) /\ rows' = Append(rows, NewRow(req[h]))
    BY <1>6, OneEnds DEF Record
  <2>0. PICK n : n = Len(rows) + 1
    OBVIOUS
  <2> DEFINE new == NewRow(req[h])
  <2>2. new \in Row
    <3>1. req[h].at + SMSCodeTTL \in Nat /\ req[h].code \in Code
      BY <1>6, Parameters, RequestFields DEF Record, Finish, Go, ChecksStillHold
    <3> QED
      BY <3>1, RequestFields DEF NewRow, Row, Request
  <2>3. /\ new.guesses = 0 /\ new.attempts = 0 /\ new.uncounted = 0 /\ new.accepted = 0
    BY DEF NewRow
  <2> HIDE DEF new
  <2>4. /\ Ids' = Ids \cup {n} /\ n \notin Ids
        /\ rows'[n] = new /\ \A i \in Ids : rows'[i] = rows[i]
    BY <2>0, <2>1, <2>2, RowInserted DEF new
  <2>5. \A i : Count(i, "increment")' = Count(i, "increment")
    BY <2>1, CountMoves
  <2>6. ASSUME NEW i \in Ids PROVE RowOK(i)'
    BY <1>r, <2>4, <2>5, RowKept
  <2>7. RowOK(n)'
    <3>1. AtStep(n, "increment") = {}
      <4>1. \A g \in Handler : pc[g] \in {"increment", "consume"} => req[g].id # n
        BY <2>4 DEF TypeOK
      <4> QED
        BY <4>1 DEF AtStep
    <3>2. Count(n, "increment")' = 0
      <4>1. Count(n, "increment") = 0
        BY <3>1, FS_EmptySet DEF Count
      <4> QED
        BY <2>5, <4>1
    <3>3. Cardinality(Handler) # 0
      <4>1. Handler # {} /\ IsFiniteSet(Handler)
        BY Parameters
      <4> QED
        BY <4>1, FS_EmptySet
    <3>4. /\ rows'[n].guesses = 0 /\ rows'[n].attempts = 0
          /\ rows'[n].uncounted = 0 /\ rows'[n].accepted = 0
      BY <2>3, <2>4
    <3> QED
      BY <1>n, <3>2, <3>3, <3>4 DEF RowOK
  <2> QED
    BY <1>p, <2>4, <2>6, <2>7
<1>7. ASSUME NEW h \in Handler, NEW p \in Phone, NEW u \in Purpose, NEW c \in Code,
             ReadLatest(h, p, u, c)
      PROVE  GuessesOK'
  <2>1. PICK i \in Ids : Compare(h, i, c) /\ ~rows[i].consumed
    BY <1>7 DEF ReadLatest, LatestFor, Newest, RowsOf
  <2>2. PICK to \in {"increment", "consume"}, r \in Request :
          /\ Moved(h, "idle", to, r) /\ r.id = i
          /\ \/ rows'[i].guesses = rows[i].guesses
             \/ /\ rows'[i].guesses = rows[i].guesses + 1
                /\ to = "increment" /\ rows[i].attempts < SMSMaxAttempts
    BY <2>1, CompareEffect
  <2>3. /\ OnlyTouches(i)
        /\ rows'[i].attempts = rows[i].attempts /\ rows'[i].uncounted = rows[i].uncounted
        /\ rows'[i].accepted = rows[i].accepted /\ rows'[i].consumed = rows[i].consumed
    BY <2>1, CompareEffect
  <2>4. ASSUME NEW j \in Ids, j # i PROVE RowOK(j)'
    <3>1. Count(j, "increment")' = Count(j, "increment")
      BY <2>2, <2>4, CountMoves
    <3> QED
      BY <1>r, <2>3, <2>4, <3>1, RowKept DEF OnlyTouches
  <2>5. RowOK(i)'
    <3>1. /\ to = "increment" => Count(i, "increment")' = Count(i, "increment") + 1
          /\ to = "consume" => Count(i, "increment")' = Count(i, "increment")
      BY <2>2, CountMoves
    <3>2. /\ Count(i, "increment") \in Nat /\ Count(i, "increment")' \in Nat
          /\ Count(i, "increment")' <= Cardinality(Handler)
      BY CountBounded, CountBoundedNext
    <3>3. /\ rows[i].guesses \in Nat /\ rows[i].attempts \in Nat
          /\ rows[i].uncounted \in Nat /\ rows[i].accepted = 0
      BY <1>r, <2>1, RowFields DEF RowOK
    <3>4. RowOK(i)
      BY <1>r
    <3>5. rows'[i].guesses <= rows'[i].attempts + rows'[i].uncounted + Count(i, "increment")'
      BY <2>2, <2>3, <3>1, <3>2, <3>3, <3>4 DEF RowOK
    <3>6. rows'[i].guesses <= SMSMaxAttempts + (Cardinality(Handler) - 1) + rows'[i].uncounted
      BY <1>n, <2>2, <2>3, <3>2, <3>3, <3>4, <3>5 DEF RowOK
    <3> QED
      BY <1>n, <2>3, <3>2, <3>3, <3>5, <3>6 DEF RowOK
  <2> QED
    BY <1>p, <2>3, <2>4, <2>5 DEF OnlyTouches, MessagesKept
<1>8. ASSUME NEW h \in Handler, IncrementAttempts(h) PROVE GuessesOK'
  <2>0. PICK i : i = req[h].id
    OBVIOUS
  <2>1. /\ OnlyTouches(i) /\ Moved(h, "increment", "idle", NoRequest)
        /\ rows'[i].attempts = rows[i].attempts + 1
        /\ rows'[i].guesses = rows[i].guesses /\ rows'[i].uncounted = rows[i].uncounted
        /\ rows'[i].accepted = rows[i].accepted /\ (rows[i].consumed => rows'[i].consumed)
    BY <1>8, <2>0, IncrementEffect
  <2>2. /\ \A j : j # i => Count(j, "increment")' = Count(j, "increment")
        /\ Count(i, "increment")' = Count(i, "increment") - 1
    BY <2>0, <2>1, CountMoves
  <2>3. ASSUME NEW j \in Ids, j # i PROVE RowOK(j)'
    BY <1>r, <2>1, <2>2, <2>3, RowKept DEF OnlyTouches
  <2>4. RowOK(i)'
    <3>1. /\ rows[i].guesses \in Nat /\ rows[i].attempts \in Nat
          /\ rows[i].uncounted \in Nat /\ Count(i, "increment") \in Nat
      BY <2>1, RowFields, CountBounded DEF OnlyTouches
    <3> QED
      BY <1>n, <1>r, <2>1, <2>2, <3>1 DEF RowOK, OnlyTouches
  <2> QED
    BY <1>p, <2>1, <2>3, <2>4 DEF OnlyTouches, MessagesKept
<1>9. ASSUME NEW h \in Handler, Consume(h) PROVE GuessesOK'
  <2>0. PICK i : i = req[h].id
    OBVIOUS
  <2>1. /\ OnlyTouches(i) /\ Moved(h, "consume", "idle", NoRequest)
        /\ rows'[i].attempts = rows[i].attempts /\ rows'[i].guesses = rows[i].guesses
        /\ rows'[i].uncounted = rows[i].uncounted
        /\ rows'[i].accepted = rows[i].accepted + 1 /\ rows'[i].consumed
    BY <1>9, <2>0, ConsumeEffect
  <2>2. \A j : Count(j, "increment")' = Count(j, "increment")
    BY <2>0, <2>1, CountMoves
  <2>3. ASSUME NEW j \in Ids, j # i PROVE RowOK(j)'
    BY <1>r, <2>1, <2>2, <2>3, RowKept DEF OnlyTouches
  <2>4. RowOK(i)'
    <3>1. /\ rows[i].guesses \in Nat /\ rows[i].attempts \in Nat
          /\ rows[i].uncounted \in Nat /\ Count(i, "increment") \in Nat
      BY <2>1, RowFields, CountBounded DEF OnlyTouches
    <3> QED
      BY <1>n, <1>r, <2>1, <2>2, <3>1 DEF RowOK, OnlyTouches
  <2> QED
    BY <1>p, <2>1, <2>3, <2>4 DEF OnlyTouches, MessagesKept
<1>10. ASSUME NEW h \in Handler, Abort(h) PROVE GuessesOK'
  <2>1. Moved(h, pc[h], "idle", NoRequest) /\ pc[h] # "idle"
    BY <1>10, AbortEffect DEF Abort
  <2>2. CASE pc[h] # "increment"
    BY <1>10, <1>a, <2>1, <2>2, AbortEffect
  <2>3. CASE pc[h] = "increment"
    <3>0. PICK i : i = req[h].id
      OBVIOUS
    <3>1. /\ OnlyTouches(i) /\ rows'[i].attempts = rows[i].attempts
          /\ rows'[i].guesses = rows[i].guesses
          /\ rows'[i].uncounted = rows[i].uncounted + 1
          /\ rows'[i].accepted = rows[i].accepted /\ rows'[i].consumed = rows[i].consumed
      BY <1>10, <2>3, <3>0, AbortEffect
    <3>2. /\ \A j : j # i => Count(j, "increment")' = Count(j, "increment")
          /\ Count(i, "increment")' = Count(i, "increment") - 1
      BY <2>1, <2>3, <3>0, CountMoves
    <3>3. ASSUME NEW j \in Ids, j # i PROVE RowOK(j)'
      BY <1>r, <3>1, <3>2, <3>3, RowKept DEF OnlyTouches
    <3>4. RowOK(i)'
      <4>1. /\ rows[i].guesses \in Nat /\ rows[i].attempts \in Nat
            /\ rows[i].uncounted \in Nat /\ Count(i, "increment") \in Nat
        BY <3>1, RowFields, CountBounded DEF OnlyTouches
      <4> QED
        BY <1>n, <1>r, <3>1, <3>2, <4>1 DEF RowOK, OnlyTouches
    <3> QED
      BY <1>p, <3>1, <3>3, <3>4 DEF OnlyTouches, MessagesKept
  <2> QED
    BY <2>2, <2>3
<1>11. CASE Restart
  BY <1>11, <1>b DEF Restart
<1>12. CASE Tick
  BY <1>12, <1>b DEF Tick
<1>13. CASE UNCHANGED vars
  BY <1>13, <1>b DEF vars
<1> QED
  BY <1>1, <1>2, <1>3, <1>4, <1>5, <1>6, <1>7, <1>8, <1>9, <1>10, <1>11, <1>12, <1>13
  DEF Next, SendStep, VerifyStep

-----------------------------------------------------------------------------
(* Acceptances: who may still have a code accepted that was accepted once. *)

(* The requests about to consume row i.                                    *)
Accepting(i) == AtStep(i, "consume")

(* A request that moves on, and does not come to consume row i, adds       *)
(* nobody.                                                                 *)
LEMMA NobodyJoins ==
  ASSUME TypeOK, NEW h \in Handler, NEW from, NEW to, NEW r, Moved(h, from, to, r),
         NEW i, ~(to = "consume" /\ r.id = i)
  PROVE  Accepting(i)' \subseteq Accepting(i)
  BY DEF Accepting, AtStep, Moved

(* Only a request that finds the row unconsumed joins, and such a row has  *)
(* accepted nothing.                                                       *)
LEMMA AcceptingShrinks ==
  TypeOK /\ GuessesAccountedFor /\ [Next]_vars =>
    \A i \in Ids : rows[i].accepted > 0 => Accepting(i)' \subseteq Accepting(i)
<1> SUFFICES ASSUME TypeOK, GuessesAccountedFor, [Next]_vars,
                    NEW i \in Ids, rows[i].accepted > 0
             PROVE  Accepting(i)' \subseteq Accepting(i)
  OBVIOUS
<1>a. ASSUME UNCHANGED <<pc, req>> PROVE Accepting(i)' \subseteq Accepting(i)
  BY <1>a DEF Accepting, AtStep
<1>b. ASSUME NEW h \in Handler, NEW from, Finish(h, from)
      PROVE  Accepting(i)' \subseteq Accepting(i)
  <2>1. Moved(h, from, "idle", NoRequest)
    BY <1>b, OneEnds
  <2> QED
    BY <2>1, NobodyJoins
<1>1. ASSUME NEW c \in Captcha, IssueCaptcha(c) PROVE Accepting(i)' \subseteq Accepting(i)
  BY <1>1, <1>a DEF IssueCaptcha
<1>2. ASSUME NEW h \in Handler, NEW p \in Phone, NEW u \in Purpose, NEW a \in IP,
             NEW c \in Captcha, NEW ok \in BOOLEAN, AnswerCaptcha(h, p, u, a, c, ok)
      PROVE  Accepting(i)' \subseteq Accepting(i)
  BY <1>2 DEF AnswerCaptcha, Go, Accepting, AtStep, TypeOK
<1>3. ASSUME NEW h \in Handler, NEW c \in Code, Check(h, c)
      PROVE  Accepting(i)' \subseteq Accepting(i)
  BY <1>3 DEF Check, Go, Accepting, AtStep, TypeOK
<1>4. ASSUME NEW h \in Handler, Refuse(h) PROVE Accepting(i)' \subseteq Accepting(i)
  BY <1>4, <1>b DEF Refuse
<1>5. ASSUME NEW h \in Handler, NEW sent \in BOOLEAN, NEW answered \in BOOLEAN,
             CallProvider(h, sent, answered)
      PROVE  Accepting(i)' \subseteq Accepting(i)
  <2>1. Go(h, "provider", "record", req[h]) \/ Finish(h, "provider")
    BY <1>5 DEF CallProvider
  <2>2. CASE Go(h, "provider", "record", req[h])
    BY <2>2 DEF Go, Accepting, AtStep, TypeOK
  <2> QED
    BY <1>b, <2>1, <2>2
<1>6. ASSUME NEW h \in Handler, Record(h) PROVE Accepting(i)' \subseteq Accepting(i)
  BY <1>6, <1>b DEF Record
<1>7. ASSUME NEW h \in Handler, NEW p \in Phone, NEW u \in Purpose, NEW c \in Code,
             ReadLatest(h, p, u, c)
      PROVE  Accepting(i)' \subseteq Accepting(i)
  <2>1. PICK j \in Ids : Compare(h, j, c) /\ ~rows[j].consumed
    BY <1>7 DEF ReadLatest, LatestFor, Newest, RowsOf
  <2>2. j # i
    <3>1. rows[j].accepted = 0
      BY <2>1 DEF GuessesAccountedFor
    <3> QED
      BY <3>1
  <2>3. PICK to \in {"increment", "consume"}, r \in Request :
          Moved(h, "idle", to, r) /\ r.id = j
    BY <2>1, CompareEffect
  <2> QED
    BY <2>2, <2>3, NobodyJoins
<1>8. ASSUME NEW h \in Handler, IncrementAttempts(h)
      PROVE  Accepting(i)' \subseteq Accepting(i)
  BY <1>8, <1>b DEF IncrementAttempts
<1>9. ASSUME NEW h \in Handler, Consume(h) PROVE Accepting(i)' \subseteq Accepting(i)
  BY <1>9, <1>b DEF Consume
<1>10. ASSUME NEW h \in Handler, Abort(h) PROVE Accepting(i)' \subseteq Accepting(i)
  BY <1>10, <1>b DEF Abort
<1>11. CASE Restart
  BY <1>11, <1>a DEF Restart
<1>12. CASE Tick
  BY <1>12, <1>a DEF Tick
<1>13. CASE UNCHANGED vars
  BY <1>13, <1>a DEF vars
<1> QED
  BY <1>1, <1>2, <1>3, <1>4, <1>5, <1>6, <1>7, <1>8, <1>9, <1>10, <1>11, <1>12, <1>13
  DEF Next, SendStep, VerifyStep

-----------------------------------------------------------------------------
(* The theorems. *)

(* Every reachable state satisfies the inductive invariant: each property  *)
(* below needs the types, and the insertion needs what was checked before. *)
THEOREM InductiveInvariant == Spec => []IInv
<1>1. IInv /\ [Next]_vars => IInv'
  <2> SUFFICES ASSUME IInv, [Next]_vars PROVE IInv'
    OBVIOUS
  <2>1. TypeOK'
    BY TypeOKStep DEF IInv
  <2>2. CaptchasUnspent' /\ EverySMSCostsACaptcha'
    BY CaptchasStep DEF IInv
  <2>3. SendsOK'
    BY <2>1, SendsStep DEF IInv, SendsOK
  <2>4. GuessesOK'
    BY GuessesStep DEF IInv, GuessesOK
  <2> QED
    BY <2>1, <2>2, <2>3, <2>4 DEF IInv, SendsOK, GuessesOK
<1> QED
  BY <1>1, InitInvariant, PTL DEF Spec

(* The table and the requests keep their types, sendMu is held exactly     *)
(* between the checks of Send and its insertion, and a request in flight   *)
(* refers to a row that exists.                                            *)
THEOREM TypeCorrect == Spec => []TypeOK
  BY InductiveInvariant, PTL DEF IInv

(* Send's limits hold of the rows it recorded, for any limits and however  *)
(* late the provider answers: messages to one phone keep the interval, no  *)
(* day exceeds the daily limit and no hour the limit of an address.        *)
THEOREM LimitsKept == Spec => []RecordedSendsKeepTheLimits
  BY InductiveInvariant, PTL DEF IInv

(* Two messages recorded one after the other for a phone carry different   *)
(* codes, so that an old message never passes for the new one.             *)
THEOREM CodesDiffer == Spec => []ConsecutiveCodesDiffer
  BY InductiveInvariant, PTL DEF IInv

(* The provider sends at most one message for each captcha, recorded or    *)
(* not, since VerifyCaptcha destroys the captcha before Send goes on.      *)
THEOREM OneSMSPerCaptcha == Spec => []EverySMSCostsACaptcha
  BY InductiveInvariant, PTL DEF IInv

(* VerifyCode compares at most SMSMaxAttempts wrong codes with a row, plus *)
(* one for each other request in flight and each increment that was lost.  *)
THEOREM GuessesBounded == Spec => []GuessBudget
  BY InductiveInvariant, PTL DEF IInv

(* After VerifyCode accepted a code, only requests that were past their    *)
(* comparison by then may still have it accepted; no later one can.        *)
THEOREM AcceptedByOverlap == Spec => AcceptedOnlyByOverlap
<1>1. IInv /\ [Next]_vars =>
        [\A i \in Ids : rows[i].accepted > 0 =>
           AtStep(i, "consume")' \subseteq AtStep(i, "consume")]_vars
  BY AcceptingShrinks DEF IInv, Accepting
<1> QED
  BY <1>1, InductiveInvariant, PTL DEF Spec, AcceptedOnlyByOverlap

=============================================================================
