------------------------- MODULE RequestGate_proofs -------------------------
(***************************************************************************)
(* Machine-checked proofs about RequestGate: its type, that a process      *)
(* accepts a request id once, and that the limiter neither lets bursts     *)
(* through nor refuses without cause, for any number of addresses, ids,    *)
(* handlers, copies and restarts and any limit and windows.                *)
(***************************************************************************)
EXTENDS RequestGate, SequenceTheorems, FiniteSetTheorems, TLAPS

(* A mark of id i: an acceptance, or a handler about to open the envelope. *)
Waiting(h, i) == pc[h] = "open" /\ req[h].id = i

(* A request past its check belongs to an envelope that was sent, and the  *)
(* clock it read was at most a window past the stamp.                      *)
RequestsAreInWindow ==
  \A h \in Handler :
    /\ pc[h] # "idle" => req[h].id \in Id /\ sent[req[h].id] # None
    /\ pc[h] \in {"mark", "open"} =>
         /\ req[h].received <= now
         /\ req[h].received - sent[req[h].id] <= EnvelopeWindow

AcceptedWasSent == \A i \in Id : accepted[i] # <<>> => sent[i] # None

(* What was marked is remembered until a window after it was received.     *)
Remembered(time, deadline, received) ==
  \/ time > received + EnvelopeWindow
  \/ deadline # None /\ deadline >= received + EnvelopeWindow

MarksAreRemembered ==
  /\ \A i \in Id : \A m \in DOMAIN accepted[i] :
       Remembered(now, seen[i], accepted[i][m].received)
  /\ \A h \in Handler : pc[h] = "open" =>
       Remembered(now, seen[req[h].id], req[h].received)

(* One of the two cases in which an id may be marked again.                *)
Excused(stamp, received, marked) == stamp > received \/ marked > received

(* Of any two marks of an id, one is excused.                              *)
MarksDiffer ==
  /\ \A i \in Id : \A m, n \in DOMAIN accepted[i] : m # n =>
       \/ Excused(sent[i], accepted[i][m].received, accepted[i][m].marked)
       \/ Excused(sent[i], accepted[i][n].received, accepted[i][n].marked)
  /\ \A i \in Id, h \in Handler : Waiting(h, i) =>
       \A m \in DOMAIN accepted[i] :
         \/ Excused(sent[i], accepted[i][m].received, accepted[i][m].marked)
         \/ Excused(sent[i], req[h].received, req[h].marked)
  /\ \A i \in Id, g, h \in Handler : Waiting(g, i) /\ Waiting(h, i) /\ g # h =>
       \/ Excused(sent[i], req[g].received, req[g].marked)
       \/ Excused(sent[i], req[h].received, req[h].marked)

IInv ==
  /\ TypeOK
  /\ RequestsAreInWindow
  /\ AcceptedWasSent
  /\ MarksAreRemembered
  /\ MarksDiffer

-----------------------------------------------------------------------------
(* The types of the limiter. *)

(* At first there is neither an entry nor a history. *)
LEMMA LimiterInit == ASSUME Limiter!Init PROVE Limiter!TypeOK
<1>1. visitors \in [Address -> [count : 1..MaxCount, lastSeen : Limiter!Time] \cup {None}]
  BY DEF Limiter!Init
<1>2. passed \in [Address -> Seq(Limiter!Time)]
  BY DEF Limiter!Init
<1> QED
  BY <1>1, <1>2 DEF Limiter!TypeOK

(* The entry of a request that arrives stays below the bound. *)
LEMMA LimiterHandle ==
  ASSUME TypeOK, NEW a \in Address, Limiter!Handle(a)
  PROVE  Limiter!TypeOK'
<1>1. now \in Nat /\ now \in Limiter!Time /\ MaxCount \in Nat /\ Limit \in Nat /\ Window \in Nat
  BY GateAssumption DEF Limiter!Assumption, TypeOK, Limiter!Time
<1>2. visitors[a] # None =>
        visitors[a] \in [count : 1..MaxCount, lastSeen : Limiter!Time]
  BY DEF TypeOK, Limiter!TypeOK
<1>3. Limiter!Visit(a) \in [count : 1..MaxCount, lastSeen : Limiter!Time]
  <2>1. Limiter!Visit(a).count <= MaxCount
    BY DEF Limiter!Handle
  <2>2. CASE visitors[a] = None \/ Limiter!Over(a)
    <3>1. Limiter!Visit(a) = [count |-> 1, lastSeen |-> now]
      BY <2>2 DEF Limiter!Visit
    <3> QED
      BY <1>1, <2>1, <3>1
  <2>3. CASE ~(visitors[a] = None \/ Limiter!Over(a))
    <3>1. Limiter!Visit(a) = [visitors[a] EXCEPT !.count = @ + 1]
      BY <2>3 DEF Limiter!Visit
    <3> QED
      BY <1>1, <1>2, <2>1, <2>3, <3>1
  <2> QED
    BY <2>2, <2>3
<1>4. visitors' = [visitors EXCEPT ![a] = Limiter!Visit(a)]
  BY DEF Limiter!Handle
<1>5. passed' = passed \/ passed' = [passed EXCEPT ![a] = Append(@, now)]
  BY DEF Limiter!Handle
<1>6. passed' \in [Address -> Seq(Limiter!Time)]
  <2>1. passed \in [Address -> Seq(Limiter!Time)]
    BY DEF TypeOK, Limiter!TypeOK
  <2>2. Append(passed[a], now) \in Seq(Limiter!Time)
    BY <1>1, <2>1, AppendProperties
  <2> QED
    BY <1>5, <2>1, <2>2
<1>7. visitors' \in [Address -> [count : 1..MaxCount, lastSeen : Limiter!Time] \cup {None}]
  BY <1>3, <1>4 DEF TypeOK, Limiter!TypeOK
<1> QED
  BY <1>6, <1>7 DEF Limiter!TypeOK

(* Neither the clean-up nor anything else disturbs the types. *)
LEMMA LimiterOther ==
  ASSUME TypeOK, Limiter!Cleanup \/ Limiter!Restart \/ UNCHANGED limiter
  PROVE  Limiter!TypeOK'
<1>1. CASE Limiter!Cleanup
  BY <1>1 DEF TypeOK, Limiter!TypeOK, Limiter!Cleanup
<1>2. CASE Limiter!Restart
  BY <1>2 DEF TypeOK, Limiter!TypeOK, Limiter!Restart
<1>3. CASE UNCHANGED limiter
  BY <1>3 DEF TypeOK, Limiter!TypeOK, limiter
<1> QED
  BY <1>1, <1>2, <1>3

-----------------------------------------------------------------------------
(* The envelope. *)

LEMMA Numbers ==
  /\ EnvelopeWindow \in Nat /\ MaxSkew \in Nat /\ MaxTime \in Nat /\ MaxOpened \in Nat
  /\ None \notin Id /\ None \notin Int
BY GateAssumption DEF Envelope!Assumption

LEMMA ElementsOfASequence ==
  ASSUME NEW S, NEW q \in Seq(S), NEW k \in DOMAIN q
  PROVE  q[k] \in S
OBVIOUS

(* What requests and acceptances read from the clock are natural numbers.  *)
LEMMA Readings ==
  ASSUME TypeOK
  PROVE  /\ \A i \in Id : \A m \in DOMAIN accepted[i] :
              accepted[i][m].received \in Nat /\ accepted[i][m].marked \in Nat
         /\ \A h \in Handler : req[h].received \in Nat /\ req[h].marked \in Nat
<1>1. Envelope!Time \subseteq Nat
  BY Numbers DEF Envelope!Time
<1>2. ASSUME NEW i \in Id, NEW m \in DOMAIN accepted[i]
      PROVE  accepted[i][m].received \in Nat /\ accepted[i][m].marked \in Nat
  <2> DEFINE Reading == [received : Envelope!Time, marked : Envelope!Time]
  <2>1. accepted[i] \in Seq(Reading)
    BY DEF TypeOK, Envelope!TypeOK
  <2>2. accepted[i][m] \in Reading
    BY <2>1, ElementsOfASequence
  <2> QED
    BY <1>1, <2>2
<1>3. ASSUME NEW h \in Handler PROVE req[h].received \in Nat /\ req[h].marked \in Nat
  BY <1>1 DEF TypeOK, Envelope!TypeOK
<1> QED
  BY <1>2, <1>3

(* Steps of the clock, the limiter, and clients: the requests and what was *)
(* accepted stay as they are, sent stamps stay, and the clock moves on.    *)
LEMMA OutsideStep ==
  ASSUME IInv, UNCHANGED <<seen, pc, req, accepted>>,
         now' \in 0..MaxTime, now' >= now,
         sent' \in [Id -> Envelope!Stamp \cup {None}],
         \A i \in Id : sent[i] # None => sent'[i] = sent[i]
  PROVE  /\ Envelope!TypeOK' /\ RequestsAreInWindow' /\ AcceptedWasSent'
         /\ MarksAreRemembered' /\ MarksDiffer'
<1>1. Envelope!TypeOK'
  BY DEF IInv, TypeOK, Envelope!TypeOK, Envelope!Time, Envelope!Stamp
<1>2. now \in Nat /\ now' \in Nat
  BY Numbers DEF IInv, TypeOK
<1>3. RequestsAreInWindow'
  <2> SUFFICES ASSUME NEW h \in Handler, pc[h] # "idle"
               PROVE  /\ req[h].id \in Id /\ sent'[req[h].id] # None
                      /\ pc[h] \in {"mark", "open"} =>
                           /\ req[h].received <= now'
                           /\ req[h].received - sent'[req[h].id] <= EnvelopeWindow
    BY DEF RequestsAreInWindow
  <2>1. req[h].id \in Id /\ sent[req[h].id] # None
    BY DEF IInv, RequestsAreInWindow
  <2>2. sent'[req[h].id] = sent[req[h].id]
    BY <2>1
  <2>3. req[h].received \in Nat
    BY Numbers DEF IInv, TypeOK, Envelope!TypeOK, Envelope!Time
  <2> QED
    BY <1>2, <2>1, <2>2, <2>3 DEF IInv, RequestsAreInWindow
<1>4. AcceptedWasSent'
  BY DEF IInv, AcceptedWasSent
<1>5. \A i \in Id : \A m \in DOMAIN accepted[i] : accepted[i][m].received \in Nat
  BY Readings DEF IInv
<1>6. \A h \in Handler : req[h].received \in Nat
  BY Readings DEF IInv
<1>7. MarksAreRemembered'
  <2>1. \A d, r : r \in Nat /\ Remembered(now, d, r) => Remembered(now', d, r)
    BY <1>2, Numbers DEF Remembered
  <2> QED
    BY <1>5, <1>6, <2>1 DEF IInv, MarksAreRemembered
<1>8. MarksDiffer'
  <2>1. \A i \in Id : accepted[i] # <<>> => sent'[i] = sent[i]
    BY DEF IInv, AcceptedWasSent
  <2>2. \A i \in Id, h \in Handler : Waiting(h, i) => sent'[i] = sent[i]
    BY DEF IInv, RequestsAreInWindow, Waiting
  <2>3. \A i \in Id : DOMAIN accepted[i] # {} => accepted[i] # <<>>
    OBVIOUS
  <2>4. \A h, i : Waiting(h, i)' <=> Waiting(h, i)
    BY DEF Waiting
  <2> QED
    BY <2>1, <2>2, <2>3, <2>4 DEF IInv, MarksDiffer
<1> QED
  BY <1>1, <1>3, <1>4, <1>7, <1>8

(* A step of handler h after which it has no mark, and what is remembered  *)
(* stays so.                                                               *)
LEMMA HandlerWithoutMark ==
  ASSUME IInv, NEW h \in Handler, UNCHANGED <<now, sent, accepted>>,
         \A g \in Handler : g # h => pc'[g] = pc[g] /\ req'[g] = req[g],
         pc'[h] # "open",
         \A i \in Id, r \in Nat : Remembered(now, seen[i], r) => Remembered(now, seen'[i], r)
  PROVE  AcceptedWasSent' /\ MarksAreRemembered' /\ MarksDiffer'
<1>1. AcceptedWasSent'
  BY DEF IInv, AcceptedWasSent
<1>2. MarksAreRemembered'
  <2>1. \A i \in Id : \A m \in DOMAIN accepted[i] :
          Remembered(now, seen'[i], accepted[i][m].received)
    BY Readings DEF IInv, MarksAreRemembered
  <2>2. ASSUME NEW g \in Handler, pc'[g] = "open"
        PROVE  Remembered(now, seen'[req'[g].id], req'[g].received)
    <3>1. g # h /\ pc[g] = "open" /\ req'[g] = req[g]
      BY <2>2
    <3>2. req[g].id \in Id /\ req[g].received \in Nat
      BY <3>1, Readings DEF IInv, RequestsAreInWindow
    <3>3. Remembered(now, seen[req[g].id], req[g].received)
      BY <3>1 DEF IInv, MarksAreRemembered
    <3> QED
      BY <3>1, <3>2, <3>3
  <2> QED
    BY <2>1, <2>2 DEF MarksAreRemembered
<1>3. MarksDiffer'
  <2>1. \A g \in Handler : \A i : Waiting(g, i)' => g # h /\ Waiting(g, i) /\ req'[g] = req[g]
    BY DEF Waiting
  <2> QED
    BY <2>1 DEF IInv, MarksDiffer
<1> QED
  BY <1>1, <1>2, <1>3

EnvelopeInv ==
  /\ Envelope!TypeOK /\ RequestsAreInWindow /\ AcceptedWasSent
  /\ MarksAreRemembered /\ MarksDiffer

(* The types a step of handler h keeps, and what it leaves to the others.  *)
LEMMA HandlerTypes ==
  ASSUME IInv, NEW h \in Handler, NEW to \in {"idle", "check", "mark", "open"},
         NEW r \in [id : Id \cup {None}, received : Envelope!Time, marked : Envelope!Time],
         pc' = [pc EXCEPT ![h] = to], req' = [req EXCEPT ![h] = r],
         UNCHANGED <<now, sent>>,
         to # "idle" => r.id \in Id /\ sent[r.id] # None,
         to \in {"mark", "open"} => /\ r.received <= now
                                    /\ r.received - sent[r.id] <= EnvelopeWindow
  PROVE  /\ pc' \in [Handler -> {"idle", "check", "mark", "open"}]
         /\ req' \in [Handler -> [id : Id \cup {None}, received : Envelope!Time,
                                  marked : Envelope!Time]]
         /\ \A g \in Handler : g # h => pc'[g] = pc[g] /\ req'[g] = req[g]
         /\ pc'[h] = to /\ req'[h] = r
         /\ RequestsAreInWindow'
<1>1. pc \in [Handler -> {"idle", "check", "mark", "open"}] /\ DOMAIN req = Handler
      /\ req \in [Handler -> [id : Id \cup {None}, received : Envelope!Time,
                              marked : Envelope!Time]]
  BY DEF IInv, TypeOK, Envelope!TypeOK
<1>2. /\ \A g \in Handler : g # h => pc'[g] = pc[g] /\ req'[g] = req[g]
      /\ pc'[h] = to /\ req'[h] = r
  BY <1>1
<1>3. RequestsAreInWindow'
  BY <1>2 DEF IInv, RequestsAreInWindow
<1> QED
  BY <1>1, <1>2, <1>3

LEMMA NoRequestType ==
  /\ 0 \in Envelope!Time
  /\ Envelope!NoRequest \in [id : Id \cup {None}, received : Envelope!Time,
                             marked : Envelope!Time]
BY Numbers DEF Envelope!Time, Envelope!NoRequest

LEMMA DeliverStep ==
  ASSUME IInv, NEW h \in Handler, NEW i \in Id, Envelope!Deliver(h, i), now' = now
  PROVE  EnvelopeInv'
<1> DEFINE r == [req[h] EXCEPT !.id = i]
<1>1. r \in [id : Id \cup {None}, received : Envelope!Time, marked : Envelope!Time]
      /\ r.id = i
  BY DEF IInv, TypeOK, Envelope!TypeOK
<1>2. /\ pc' = [pc EXCEPT ![h] = "check"] /\ req' = [req EXCEPT ![h] = r]
      /\ UNCHANGED <<now, sent, seen, accepted>> /\ sent[i] # None
  BY DEF Envelope!Deliver
<1> HIDE DEF r
<1>3. /\ pc' \in [Handler -> {"idle", "check", "mark", "open"}]
      /\ req' \in [Handler -> [id : Id \cup {None}, received : Envelope!Time,
                               marked : Envelope!Time]]
      /\ \A g \in Handler : g # h => pc'[g] = pc[g] /\ req'[g] = req[g]
      /\ pc'[h] = "check"
      /\ RequestsAreInWindow'
  BY <1>1, <1>2, HandlerTypes
<1>4. AcceptedWasSent' /\ MarksAreRemembered' /\ MarksDiffer'
  BY <1>2, <1>3, HandlerWithoutMark
<1>5. Envelope!TypeOK'
  BY <1>2, <1>3 DEF IInv, TypeOK, Envelope!TypeOK, Envelope!Time, Envelope!Stamp
<1> QED
  BY <1>3, <1>4, <1>5 DEF EnvelopeInv

LEMMA CheckStep ==
  ASSUME IInv, NEW h \in Handler, Envelope!CheckStamp(h), now' = now
  PROVE  EnvelopeInv'
<1> DEFINE i == req[h].id
           r == [req[h] EXCEPT !.received = now]
<1>0. i \in Id /\ sent[i] # None
  BY DEF IInv, RequestsAreInWindow, Envelope!CheckStamp
<1>1. UNCHANGED <<now, sent, seen, accepted>>
  BY DEF Envelope!CheckStamp
<1>2. CASE Envelope!InWindow(sent[i])
  <2>1. /\ r \in [id : Id \cup {None}, received : Envelope!Time, marked : Envelope!Time]
        /\ r.id = i /\ r.received = now
    BY DEF IInv, TypeOK, Envelope!TypeOK, Envelope!Time
  <2>2. pc' = [pc EXCEPT ![h] = "mark"] /\ req' = [req EXCEPT ![h] = r]
    BY <1>2 DEF Envelope!CheckStamp
  <2>3. now <= now /\ now - sent[i] <= EnvelopeWindow
    BY <1>2, Numbers DEF Envelope!InWindow, IInv, TypeOK
  <2> HIDE DEF r, i
  <2>4. /\ pc' \in [Handler -> {"idle", "check", "mark", "open"}]
        /\ req' \in [Handler -> [id : Id \cup {None}, received : Envelope!Time,
                                 marked : Envelope!Time]]
        /\ \A g \in Handler : g # h => pc'[g] = pc[g] /\ req'[g] = req[g]
        /\ pc'[h] = "mark"
        /\ RequestsAreInWindow'
    BY <1>0, <1>1, <2>1, <2>2, <2>3, HandlerTypes
  <2>5. AcceptedWasSent' /\ MarksAreRemembered' /\ MarksDiffer'
    BY <1>1, <2>4, HandlerWithoutMark
  <2>6. Envelope!TypeOK'
    BY <1>1, <2>4 DEF IInv, TypeOK, Envelope!TypeOK, Envelope!Time, Envelope!Stamp
  <2> QED
    BY <2>4, <2>5, <2>6 DEF EnvelopeInv
<1>3. CASE ~Envelope!InWindow(sent[i])
  <2>1. pc' = [pc EXCEPT ![h] = "idle"] /\ req' = [req EXCEPT ![h] = Envelope!NoRequest]
    BY <1>3 DEF Envelope!CheckStamp, Envelope!End
  <2>2. /\ pc' \in [Handler -> {"idle", "check", "mark", "open"}]
        /\ req' \in [Handler -> [id : Id \cup {None}, received : Envelope!Time,
                                 marked : Envelope!Time]]
        /\ \A g \in Handler : g # h => pc'[g] = pc[g] /\ req'[g] = req[g]
        /\ pc'[h] = "idle"
        /\ RequestsAreInWindow'
    BY <1>1, <2>1, NoRequestType, HandlerTypes
  <2>3. AcceptedWasSent' /\ MarksAreRemembered' /\ MarksDiffer'
    BY <1>1, <2>2, HandlerWithoutMark
  <2>4. Envelope!TypeOK'
    BY <1>1, <2>2 DEF IInv, TypeOK, Envelope!TypeOK, Envelope!Time, Envelope!Stamp
  <2> QED
    BY <2>2, <2>3, <2>4 DEF EnvelopeInv
<1> QED
  BY <1>2, <1>3

(* markRequestID refuses an id it remembers.  An id it does not remember   *)
(* was marked, if ever, a window and more ago; so unless the stamp was     *)
(* ahead of that reading of the clock, this one is an old reading.         *)
LEMMA MarkStep ==
  ASSUME IInv, NEW h \in Handler, Envelope!MarkRequestID(h), now' = now
  PROVE  EnvelopeInv'
<1> DEFINE i == req[h].id
           kept == [j \in Id |-> IF Envelope!Kept(j) THEN seen[j] ELSE None]
           r == [req[h] EXCEPT !.marked = now]
<1>0. /\ i \in Id /\ sent[i] # None /\ pc[h] = "mark"
      /\ req[h].received <= now /\ req[h].received - sent[i] <= EnvelopeWindow
  BY DEF IInv, RequestsAreInWindow, Envelope!MarkRequestID
<1>1. UNCHANGED <<now, sent, accepted>>
  BY DEF Envelope!MarkRequestID
<1>2. now \in Nat /\ req[h].received \in Nat
      /\ \A j \in Id : seen[j] \in 0..(MaxTime + EnvelopeWindow) \cup {None}
  <2>1. now \in Nat
    BY Numbers DEF IInv, TypeOK
  <2>2. req[h].received \in Nat
    BY Readings DEF IInv
  <2>3. \A j \in Id : seen[j] \in 0..(MaxTime + EnvelopeWindow) \cup {None}
    BY DEF IInv, TypeOK, Envelope!TypeOK
  <2> QED
    BY <2>1, <2>2, <2>3
<1>3. ASSUME NEW j \in Id, NEW t \in Nat, Remembered(now, seen[j], t)
      PROVE  Remembered(now, kept[j], t)
  <2>1. CASE now > t + EnvelopeWindow
    BY <2>1 DEF Remembered
  <2>2. CASE ~(now > t + EnvelopeWindow)
    <3>1. seen[j] # None /\ seen[j] >= t + EnvelopeWindow
      BY <1>3, <2>2 DEF Remembered
    <3>2. Envelope!Kept(j)
      BY <1>2, <2>2, <3>1, Numbers DEF Envelope!Kept
    <3>3. kept[j] = seen[j]
      BY <3>2
    <3> QED
      BY <3>1, <3>3 DEF Remembered
  <2> QED
    BY <2>1, <2>2
<1>4. CASE Envelope!Kept(i)
  <2>1. /\ seen' = kept
        /\ pc' = [pc EXCEPT ![h] = "idle"] /\ req' = [req EXCEPT ![h] = Envelope!NoRequest]
    BY <1>4 DEF Envelope!MarkRequestID, Envelope!End
  <2>2. /\ pc' \in [Handler -> {"idle", "check", "mark", "open"}]
        /\ req' \in [Handler -> [id : Id \cup {None}, received : Envelope!Time,
                                 marked : Envelope!Time]]
        /\ \A g \in Handler : g # h => pc'[g] = pc[g] /\ req'[g] = req[g]
        /\ pc'[h] = "idle"
        /\ RequestsAreInWindow'
    BY <1>1, <2>1, NoRequestType, HandlerTypes
  <2>3. AcceptedWasSent' /\ MarksAreRemembered' /\ MarksDiffer'
    BY <1>1, <1>3, <2>1, <2>2, HandlerWithoutMark
  <2>4. seen' \in [Id -> 0..(MaxTime + EnvelopeWindow) \cup {None}]
    BY <1>2, <2>1
  <2>5. Envelope!TypeOK'
    BY <1>1, <2>2, <2>4 DEF IInv, TypeOK, Envelope!TypeOK, Envelope!Time, Envelope!Stamp
  <2> QED
    BY <2>2, <2>3, <2>5 DEF EnvelopeInv
<1>5. CASE ~Envelope!Kept(i)
  <2>1. /\ seen' = [kept EXCEPT ![i] = req[h].received + EnvelopeWindow]
        /\ pc' = [pc EXCEPT ![h] = "open"] /\ req' = [req EXCEPT ![h] = r]
    BY <1>5 DEF Envelope!MarkRequestID
  <2>2. /\ r \in [id : Id \cup {None}, received : Envelope!Time, marked : Envelope!Time]
        /\ r.id = i /\ r.received = req[h].received /\ r.marked = now
    BY DEF IInv, TypeOK, Envelope!TypeOK, Envelope!Time
  <2>3. i \in Id /\ i = req[h].id
    BY <1>0
  <2>4. /\ pc' \in [Handler -> {"idle", "check", "mark", "open"}]
        /\ req' \in [Handler -> [id : Id \cup {None}, received : Envelope!Time,
                                 marked : Envelope!Time]]
        /\ \A g \in Handler : g # h => pc'[g] = pc[g] /\ req'[g] = req[g]
        /\ pc'[h] = "open" /\ req'[h] = r
        /\ RequestsAreInWindow'
    <3> HIDE DEF r, i
    <3> QED
      BY <1>0, <1>1, <2>1, <2>2, HandlerTypes
  <2>5. /\ \A j \in Id \ {i} : seen'[j] = kept[j]
        /\ seen'[i] = req[h].received + EnvelopeWindow
    BY <1>0, <2>1
  <2>6. req[h].received + EnvelopeWindow \in 0..(MaxTime + EnvelopeWindow)
    BY <1>0, <1>2, Numbers DEF IInv, TypeOK
  <2>7. seen' \in [Id -> 0..(MaxTime + EnvelopeWindow) \cup {None}]
    BY <1>2, <2>1, <2>6
  <2>8. Envelope!TypeOK'
    BY <1>1, <2>4, <2>7 DEF IInv, TypeOK, Envelope!TypeOK, Envelope!Time, Envelope!Stamp
  <2>9. \A t \in Nat : Remembered(now, seen[i], t) => now > t + EnvelopeWindow
    BY <1>0, <1>2, <1>5, Numbers DEF Remembered, Envelope!Kept
  <2>10. \A j \in Id, t \in Nat : Remembered(now, seen[j], t) => Remembered(now, seen'[j], t)
    <3> HIDE DEF kept
    <3> QED
      BY <1>0, <1>3, <2>5, <2>9 DEF Remembered
  <2> HIDE DEF kept, r
  <2>11. Remembered(now, seen'[i], req[h].received)
    BY <1>2, <2>5, Numbers DEF Remembered
  <2>12. \A g \in Handler : g # h =>
           /\ \A j : Waiting(g, j)' <=> Waiting(g, j)
           /\ req'[g] = req[g]
    BY <2>4 DEF Waiting
  <2>13. MarksAreRemembered'
    <3>1. \A j \in Id : \A m \in DOMAIN accepted[j] :
            Remembered(now, seen'[j], accepted[j][m].received)
      BY <2>10, Readings DEF IInv, MarksAreRemembered
    <3>2. ASSUME NEW g \in Handler, pc'[g] = "open"
          PROVE  Remembered(now, seen'[req'[g].id], req'[g].received)
      <4>1. CASE g = h
        BY <2>2, <2>4, <2>11, <4>1
      <4>2. CASE g # h
        <5>1. pc[g] = "open" /\ req'[g] = req[g]
          BY <2>4, <3>2, <4>2
        <5>2. req[g].id \in Id /\ req[g].received \in Nat
          BY <5>1, Readings DEF IInv, RequestsAreInWindow
        <5> QED
          BY <2>10, <5>1, <5>2 DEF IInv, MarksAreRemembered
      <4> QED
        BY <4>1, <4>2
    <3> QED
      BY <1>1, <3>1, <3>2 DEF MarksAreRemembered
  <2>14. \A t \in Nat : \A k : Remembered(now, seen[i], t) =>
           Excused(sent[i], t, k) \/ Excused(sent[i], req[h].received, now)
    <3> SUFFICES ASSUME NEW t \in Nat, Remembered(now, seen[i], t),
                        ~(sent[i] > t), ~(now > req[h].received)
                 PROVE  FALSE
      BY DEF Excused
    <3>1. now > t + EnvelopeWindow
      BY <2>9
    <3>2. sent[i] \in Int
      BY <1>0, Numbers DEF IInv, TypeOK, Envelope!TypeOK, Envelope!Stamp
    <3> QED
      BY <1>0, <1>2, <3>1, <3>2, Numbers
  <2>15. MarksDiffer'
    <3>1. ASSUME NEW j \in Id, Waiting(h, j)'
          PROVE  j = i /\ req'[h].received = req[h].received /\ req'[h].marked = now
      BY <2>2, <2>4, <3>1 DEF Waiting
    <3>2. ASSUME NEW j \in Id, NEW g \in Handler, Waiting(g, j)', NEW m \in DOMAIN accepted[j]
          PROVE  \/ Excused(sent[j], accepted[j][m].received, accepted[j][m].marked)
                 \/ Excused(sent[j], req'[g].received, req'[g].marked)
      <4>1. CASE g = h
        <5>1. Remembered(now, seen[j], accepted[j][m].received)
              /\ accepted[j][m].received \in Nat
          BY Readings DEF IInv, MarksAreRemembered
        <5> QED
          BY <2>14, <3>1, <3>2, <4>1, <5>1
      <4>2. CASE g # h
        BY <2>12, <3>2, <4>2 DEF IInv, MarksDiffer
      <4> QED
        BY <4>1, <4>2
    <3>3. ASSUME NEW j \in Id, NEW g \in Handler, g # h, Waiting(g, j)', Waiting(h, j)'
          PROVE  \/ Excused(sent[j], req'[g].received, req'[g].marked)
                 \/ Excused(sent[j], req'[h].received, req'[h].marked)
      <4>1. pc[g] = "open" /\ req[g].id = j /\ req'[g] = req[g]
        BY <2>12, <3>3 DEF Waiting
      <4>2. Remembered(now, seen[j], req[g].received) /\ req[g].received \in Nat
        BY <4>1, Readings DEF IInv, MarksAreRemembered
      <4> QED
        BY <2>14, <3>1, <3>3, <4>1, <4>2
    <3>4. ASSUME NEW j \in Id, NEW g \in Handler, NEW k \in Handler, g # k,
                 Waiting(g, j)', Waiting(k, j)'
          PROVE  \/ Excused(sent[j], req'[g].received, req'[g].marked)
                 \/ Excused(sent[j], req'[k].received, req'[k].marked)
      <4>1. CASE g # h /\ k # h
        BY <2>12, <3>4, <4>1 DEF IInv, MarksDiffer
      <4> QED
        BY <3>3, <3>4, <4>1
    <3> QED
      BY <1>1, <3>2, <3>4 DEF IInv, MarksDiffer
  <2>16. AcceptedWasSent'
    BY <1>1 DEF IInv, AcceptedWasSent
  <2> QED
    BY <2>4, <2>8, <2>13, <2>15, <2>16 DEF EnvelopeInv
<1> QED
  BY <1>4, <1>5

(* What Append leaves and adds. *)
LEMMA AppendElements ==
  ASSUME NEW S, NEW q \in Seq(S), NEW e \in S
  PROVE  /\ Append(q, e) \in Seq(S)
         /\ \A m \in DOMAIN Append(q, e) :
              \/ m \in DOMAIN q /\ Append(q, e)[m] = q[m]
              \/ m = Len(q) + 1 /\ Append(q, e)[m] = e
OBVIOUS

(* The mark of a handler becomes an acceptance, or nothing.                *)
LEMMA OpenStep ==
  ASSUME IInv, NEW h \in Handler, NEW intact \in BOOLEAN, Envelope!Open(h, intact), now' = now
  PROVE  EnvelopeInv'
<1> DEFINE i == req[h].id
           a == [received |-> req[h].received, marked |-> req[h].marked]
           Reading == [received : Envelope!Time, marked : Envelope!Time]
<1>0. /\ i \in Id /\ sent[i] # None /\ pc[h] = "open"
      /\ Remembered(now, seen[i], req[h].received)
  BY DEF IInv, RequestsAreInWindow, MarksAreRemembered, Envelope!Open
<1>1. /\ UNCHANGED <<now, sent, seen>>
      /\ pc' = [pc EXCEPT ![h] = "idle"] /\ req' = [req EXCEPT ![h] = Envelope!NoRequest]
      /\ accepted' = IF intact THEN [accepted EXCEPT ![i] = Append(@, a)] ELSE accepted
  BY DEF Envelope!Open, Envelope!End
<1>2. /\ pc' \in [Handler -> {"idle", "check", "mark", "open"}]
      /\ req' \in [Handler -> [id : Id \cup {None}, received : Envelope!Time,
                               marked : Envelope!Time]]
      /\ \A g \in Handler : g # h => pc'[g] = pc[g] /\ req'[g] = req[g]
      /\ pc'[h] = "idle"
      /\ RequestsAreInWindow'
  BY <1>1, NoRequestType, HandlerTypes
<1>3. accepted \in [Id -> Seq(Reading)]
  BY DEF IInv, TypeOK, Envelope!TypeOK
<1>4. a \in Reading /\ a.received = req[h].received /\ a.marked = req[h].marked
  BY DEF IInv, TypeOK, Envelope!TypeOK
<1>5. CASE ~intact
  <2>1. accepted' = accepted
    BY <1>1, <1>5
  <2>2. AcceptedWasSent' /\ MarksAreRemembered' /\ MarksDiffer'
    BY <1>1, <1>2, <2>1, HandlerWithoutMark
  <2>3. Envelope!TypeOK'
    BY <1>1, <1>2, <2>1 DEF IInv, TypeOK, Envelope!TypeOK, Envelope!Time, Envelope!Stamp
  <2> QED
    BY <1>2, <2>2, <2>3 DEF EnvelopeInv
<1>6. CASE intact
  <2>1. accepted' = [accepted EXCEPT ![i] = Append(@, a)]
    BY <1>1, <1>6
  <2> HIDE DEF a, Reading
  <2>2. /\ \A j \in Id \ {i} : accepted'[j] = accepted[j]
        /\ accepted'[i] = Append(accepted[i], a)
    BY <1>0, <1>3, <2>1
  <2>3. accepted[i] \in Seq(Reading)
    BY <1>0, <1>3
  <2>4. /\ accepted'[i] \in Seq(Reading)
        /\ \A m \in DOMAIN accepted'[i] :
             \/ m \in DOMAIN accepted[i] /\ accepted'[i][m] = accepted[i][m]
             \/ m = Len(accepted[i]) + 1 /\ accepted'[i][m] = a
    BY <1>4, <2>2, <2>3, AppendElements
  <2>5. accepted' \in [Id -> Seq(Reading)]
    BY <1>0, <1>3, <2>1, <2>2, <2>4
  <2>6. Envelope!TypeOK'
    BY <1>1, <1>2, <2>5
       DEF IInv, TypeOK, Envelope!TypeOK, Envelope!Time, Envelope!Stamp, Reading
  <2>7. AcceptedWasSent'
    BY <1>0, <1>1, <2>2 DEF IInv, AcceptedWasSent
  <2>8. MarksAreRemembered'
    <3>1. ASSUME NEW j \in Id, NEW m \in DOMAIN accepted'[j]
          PROVE  Remembered(now, seen[j], accepted'[j][m].received)
      <4>1. CASE j # i
        BY <2>2, <4>1 DEF IInv, MarksAreRemembered
      <4>2. CASE j = i
        BY <1>0, <1>4, <2>4, <4>2 DEF IInv, MarksAreRemembered
      <4> QED
        BY <4>1, <4>2
    <3>2. ASSUME NEW g \in Handler, pc'[g] = "open"
          PROVE  Remembered(now, seen[req'[g].id], req'[g].received)
      BY <1>2, <3>2 DEF IInv, MarksAreRemembered
    <3> QED
      BY <1>1, <3>1, <3>2 DEF MarksAreRemembered
  <2>9. MarksDiffer'
    <3> DEFINE Differ(j, p, q) == \/ Excused(sent[j], p.received, p.marked)
                                  \/ Excused(sent[j], q.received, q.marked)
    <3>1. Waiting(h, i)
      BY <1>0 DEF Waiting
    <3>2. \A g \in Handler : \A j : Waiting(g, j)' => g # h /\ Waiting(g, j) /\ req'[g] = req[g]
      BY <1>2 DEF Waiting
    <3>3. \A m \in DOMAIN accepted[i] : Differ(i, accepted[i][m], a)
      BY <1>0, <1>4, <3>1 DEF IInv, MarksDiffer
    <3>4. ASSUME NEW j \in Id, NEW m \in DOMAIN accepted'[j], NEW n \in DOMAIN accepted'[j],
                 m # n
          PROVE  Differ(j, accepted'[j][m], accepted'[j][n])
      <4>1. CASE j # i
        BY <2>2, <3>4, <4>1 DEF IInv, MarksDiffer
      <4>2. CASE j = i
        <5>1. CASE m \in DOMAIN accepted[i] /\ n \in DOMAIN accepted[i]
                   /\ accepted'[i][m] = accepted[i][m] /\ accepted'[i][n] = accepted[i][n]
          BY <1>0, <3>4, <4>2, <5>1 DEF IInv, MarksDiffer
        <5>2. CASE m \in DOMAIN accepted[i] /\ accepted'[i][m] = accepted[i][m]
                   /\ accepted'[i][n] = a
          BY <3>3, <4>2, <5>2
        <5>3. CASE n \in DOMAIN accepted[i] /\ accepted'[i][n] = accepted[i][n]
                   /\ accepted'[i][m] = a
          BY <3>3, <4>2, <5>3
        <5> QED
          BY <2>4, <3>4, <4>2, <5>1, <5>2, <5>3
      <4> QED
        BY <4>1, <4>2
    <3>5. ASSUME NEW j \in Id, NEW g \in Handler, Waiting(g, j)', NEW m \in DOMAIN accepted'[j]
          PROVE  Differ(j, accepted'[j][m], req'[g])
      <4>1. g # h /\ Waiting(g, j) /\ req'[g] = req[g]
        BY <3>2, <3>5
      <4>2. CASE j = i /\ accepted'[j][m] = a
        BY <1>0, <1>4, <3>1, <4>1, <4>2 DEF IInv, MarksDiffer
      <4>3. CASE m \in DOMAIN accepted[j] /\ accepted'[j][m] = accepted[j][m]
        BY <4>1, <4>3 DEF IInv, MarksDiffer
      <4> QED
        BY <2>2, <2>4, <3>5, <4>2, <4>3
    <3>6. ASSUME NEW j \in Id, NEW g \in Handler, NEW k \in Handler, g # k,
                 Waiting(g, j)', Waiting(k, j)'
          PROVE  Differ(j, req'[g], req'[k])
      BY <3>2, <3>6 DEF IInv, MarksDiffer
    <3> QED
      BY <1>1, <3>4, <3>5, <3>6 DEF MarksDiffer
  <2> QED
    BY <1>2, <2>6, <2>7, <2>8, <2>9 DEF EnvelopeInv
<1> QED
  BY <1>5, <1>6

(* A new process remembers nothing, and its history is empty. *)
LEMMA RestartStep ==
  ASSUME IInv, Envelope!Restart, now' = now
  PROVE  EnvelopeInv'
<1>1. /\ seen' \in [Id -> 0..(MaxTime + EnvelopeWindow) \cup {None}]
      /\ pc' \in [Handler -> {"idle", "check", "mark", "open"}]
      /\ accepted' \in [Id -> Seq([received : Envelope!Time, marked : Envelope!Time])]
      /\ sent' = sent
  BY DEF Envelope!Restart
<1>2. req' \in [Handler -> [id : Id \cup {None}, received : Envelope!Time,
                            marked : Envelope!Time]]
  BY NoRequestType DEF Envelope!Restart
<1>3. Envelope!TypeOK'
  BY <1>1, <1>2 DEF IInv, TypeOK, Envelope!TypeOK, Envelope!Time, Envelope!Stamp
<1>4. (\A h \in Handler : pc'[h] = "idle") /\ (\A i \in Id : accepted'[i] = <<>>)
  BY DEF Envelope!Restart
<1>5. \A i \in Id : DOMAIN accepted'[i] = {}
  BY <1>4
<1> QED
  BY <1>3, <1>4, <1>5 DEF EnvelopeInv, RequestsAreInWindow, AcceptedWasSent,
     MarksAreRemembered, MarksDiffer, Waiting

-----------------------------------------------------------------------------

LEMMA IInvInit == Init => IInv
<1> SUFFICES ASSUME Init PROVE IInv
  OBVIOUS
<1>1. Limiter!TypeOK
  BY LimiterInit DEF Init
<1>2. now \in 0..MaxTime /\ restarts \in 0..MaxRestarts
  BY Numbers, GateAssumption DEF Init
<1>3. /\ sent \in [Id -> Envelope!Stamp \cup {None}]
      /\ seen \in [Id -> 0..(MaxTime + EnvelopeWindow) \cup {None}]
      /\ pc \in [Handler -> {"idle", "check", "mark", "open"}]
      /\ accepted \in [Id -> Seq([received : Envelope!Time, marked : Envelope!Time])]
  BY DEF Init, Envelope!Init
<1>4. req \in [Handler -> [id : Id \cup {None}, received : Envelope!Time,
                           marked : Envelope!Time]]
  BY NoRequestType DEF Init, Envelope!Init
<1>5. (\A h \in Handler : pc[h] = "idle") /\ (\A i \in Id : accepted[i] = <<>>)
  BY DEF Init, Envelope!Init
<1>6. \A i \in Id : DOMAIN accepted[i] = {}
  BY <1>5
<1> QED
  BY <1>1, <1>2, <1>3, <1>4, <1>5, <1>6 DEF IInv, TypeOK, Envelope!TypeOK,
     RequestsAreInWindow, AcceptedWasSent, MarksAreRemembered, MarksDiffer, Waiting

(* Every step keeps the invariant. *)
LEMMA IInvStep == IInv /\ [Next]_vars => IInv'
<1> SUFFICES ASSUME IInv, [Next]_vars PROVE IInv'
  OBVIOUS
<1>0. TypeOK /\ now \in 0..MaxTime /\ restarts \in 0..MaxRestarts
  BY DEF IInv, TypeOK
<1>1. ASSUME EnvelopeInv', Limiter!TypeOK',
             now' \in 0..MaxTime, restarts' \in 0..MaxRestarts
      PROVE  IInv'
  BY <1>1 DEF EnvelopeInv, IInv, TypeOK
<1>2. ASSUME UNCHANGED envelope, now' \in 0..MaxTime, now' >= now PROVE EnvelopeInv'
  <2>1. sent \in [Id -> Envelope!Stamp \cup {None}]
    BY DEF IInv, TypeOK, Envelope!TypeOK
  <2> QED
    BY <1>2, <2>1, OutsideStep DEF envelope, EnvelopeInv
<1>3. ASSUME NEW i \in Id, Seal(i) PROVE IInv'
  <2>1. PICK stamp \in (now - MaxSkew)..(now + MaxSkew) : Envelope!Seal(i, stamp)
    BY <1>3 DEF Seal
  <2>2. UNCHANGED <<now, limiter, restarts>>
    BY <1>3 DEF Seal
  <2>3. stamp \in Envelope!Stamp
    BY <1>0, Numbers DEF Envelope!Stamp
  <2>4. /\ sent[i] = None /\ sent' = [sent EXCEPT ![i] = stamp]
        /\ UNCHANGED <<seen, pc, req, accepted>>
    BY <2>1 DEF Envelope!Seal
  <2>5. /\ sent' \in [Id -> Envelope!Stamp \cup {None}]
        /\ \A j \in Id : sent[j] # None => sent'[j] = sent[j]
    BY <2>3, <2>4 DEF IInv, TypeOK, Envelope!TypeOK
  <2>6. now' \in 0..MaxTime /\ now' >= now
    BY <1>0, <2>2, Numbers
  <2>7. EnvelopeInv'
    BY <2>4, <2>5, <2>6, OutsideStep DEF EnvelopeInv
  <2> QED
    BY <1>0, <1>1, <2>2, <2>7, LimiterOther
<1>4. ASSUME NEW h \in Handler, NEW a \in Address, NEW i \in Id, ArrivePublic(h, a, i)
      PROVE  IInv'
  <2>1. Limiter!Handle(a) /\ UNCHANGED <<now, restarts>>
    BY <1>4 DEF ArrivePublic
  <2>2. EnvelopeInv'
    <3>1. CASE Envelope!Deliver(h, i)
      BY <2>1, <3>1, DeliverStep
    <3>2. CASE UNCHANGED envelope
      BY <1>0, <1>2, <2>1, <3>2, Numbers
    <3> QED
      BY <1>4, <3>1, <3>2 DEF ArrivePublic
  <2> QED
    BY <1>0, <1>1, <2>1, <2>2, LimiterHandle
<1>5. ASSUME NEW h \in Handler, NEW i \in Id, ArriveAuthenticated(h, i) PROVE IInv'
  <2>1. Envelope!Deliver(h, i) /\ UNCHANGED <<now, limiter, restarts>>
    BY <1>5 DEF ArriveAuthenticated
  <2> QED
    BY <1>0, <1>1, <2>1, DeliverStep, LimiterOther
<1>6. ASSUME NEW h \in Handler, Decrypt(h) PROVE IInv'
  <2>1. UNCHANGED <<now, limiter, restarts>>
    BY <1>6 DEF Decrypt
  <2>2. EnvelopeInv'
    BY <1>6, <2>1, CheckStep, MarkStep, OpenStep DEF Decrypt
  <2> QED
    BY <1>0, <1>1, <2>1, <2>2, LimiterOther
<1>7. CASE Cleanup
  <2>1. Limiter!Cleanup /\ UNCHANGED <<now, envelope, restarts>>
    BY <1>7 DEF Cleanup
  <2>2. EnvelopeInv'
    BY <1>0, <1>2, <2>1, Numbers
  <2> QED
    BY <1>0, <1>1, <2>1, <2>2, LimiterOther
<1>8. CASE Tick
  <2>1. now' \in 0..MaxTime /\ now' >= now /\ UNCHANGED <<limiter, envelope, restarts>>
    BY <1>0, <1>8, Numbers DEF Tick
  <2>2. EnvelopeInv'
    BY <1>2, <2>1
  <2> QED
    BY <1>0, <1>1, <2>1, <2>2, LimiterOther
<1>9. CASE Restart
  <2>1. Limiter!Restart /\ Envelope!Restart /\ now' = now
    BY <1>9 DEF Restart
  <2>2. restarts' \in 0..MaxRestarts
    BY <1>0, <1>9, GateAssumption DEF Restart
  <2> QED
    BY <1>0, <1>1, <2>1, <2>2, RestartStep, LimiterOther
<1>10. CASE UNCHANGED vars
  <2>1. UNCHANGED <<now, limiter, envelope, restarts>>
    BY <1>10 DEF vars
  <2>2. EnvelopeInv'
    BY <1>0, <1>2, <2>1, Numbers
  <2> QED
    BY <1>0, <1>1, <2>1, <2>2, LimiterOther
<1> QED
  BY <1>3, <1>4, <1>5, <1>6, <1>7, <1>8, <1>9, <1>10 DEF Next

(* Every variable of the gate keeps its type: the counts stay below their  *)
(* bound, and no handler opens an envelope that nobody sent.               *)
THEOREM GateTypeCorrect == Spec => []TypeOK
<1>1. IInv => TypeOK
  BY DEF IInv
<1> QED
  BY IInvInit, IInvStep, <1>1, PTL DEF Spec

(* However many copies of an envelope arrive, and however their handlers   *)
(* interleave with the deletion of expired ids and with restarts, a        *)
(* process accepts a request id once, but for a clock that is ahead or a   *)
(* handler that stands still between two readings of it.                   *)
THEOREM RequestIdsAreAcceptedOnce == Spec => []AcceptedOncePerProcess
<1>1. IInv => AcceptedOncePerProcess
  BY DEF IInv, MarksDiffer, Excused, AcceptedOncePerProcess, Envelope!AcceptedOncePerProcess
<1> QED
  BY IInvInit, IInvStep, <1>1, PTL DEF Spec

-----------------------------------------------------------------------------
(* Requests let through: p is a sequence of moments.                       *)

At(p, lo, hi) == {k \in DOMAIN p : p[k] \in lo..hi}
Passes(p, lo, hi) == Cardinality(At(p, lo, hi))

(* What WindowsAreCounted says of an address, whose window began at b with *)
(* c requests so far, at moment t.                                         *)
WindowCounted(p, b, c, t) ==
  /\ b <= t
  /\ \A k \in DOMAIN p : p[k] <= t /\ p[k] <= b + Window
  /\ Passes(p, b, t) = IF c <= Limit THEN c ELSE Limit
  /\ Passes(p, b - Window, b - 1) <= Limit

(* No stretch of time as long as a window exceeds twice the limit.         *)
BurstBounded(p) == \A s \in Nat : Passes(p, s, s + Window) <= 2 * Limit

(* What the assumption says of the limiter's constants.                    *)
LEMMA LimiterNumbers ==
  /\ Limit \in Nat /\ Limit >= 1 /\ Window \in Nat /\ MaxTime \in Nat /\ MaxCount \in Nat
  /\ None \notin [count : Nat, lastSeen : Nat]
  BY GateAssumption DEF Limiter!Assumption

(* Passes are finitely many, and more in a longer stretch of time.         *)
LEMMA PassesFinite ==
  ASSUME NEW p \in Seq(Nat), NEW R, NEW S, R \subseteq S, S \subseteq DOMAIN p
  PROVE  /\ IsFiniteSet(S) /\ IsFiniteSet(R)
         /\ Cardinality(S) \in Nat /\ Cardinality(R) \in Nat
         /\ Cardinality(R) <= Cardinality(S)
<1>1. Len(p) \in Nat /\ DOMAIN p = 1..Len(p)
  BY LenProperties
<1>2. 1 \in Int /\ Len(p) \in Int
  BY <1>1
<1>3. IsFiniteSet(DOMAIN p)
  BY <1>1, <1>2, FS_Interval
<1>4. IsFiniteSet(S)
  BY <1>3, FS_Subset
<1>5. IsFiniteSet(R) /\ Cardinality(R) <= Cardinality(S)
  BY <1>4, FS_Subset
<1> QED
  BY <1>4, <1>5, FS_CardinalityType

(* Where one stretch covers another, as far as there are passes.           *)
LEMMA PassesMonotone ==
  ASSUME NEW p \in Seq(Nat), NEW lo \in Int, NEW hi \in Int, NEW lo2 \in Int, NEW hi2 \in Int,
         \A k \in DOMAIN p : p[k] \in lo..hi => p[k] \in lo2..hi2
  PROVE  /\ Passes(p, lo, hi) \in Nat /\ Passes(p, lo2, hi2) \in Nat
         /\ Passes(p, lo, hi) <= Passes(p, lo2, hi2)
<1>1. At(p, lo, hi) \subseteq At(p, lo2, hi2) /\ At(p, lo2, hi2) \subseteq DOMAIN p
  BY DEF At
<1> QED
  BY <1>1, PassesFinite DEF Passes

(* A stretch of time may be cut in two.                                    *)
LEMMA PassesSplit ==
  ASSUME NEW p \in Seq(Nat), NEW lo \in Int, NEW b \in Int, NEW hi \in Int
  PROVE  Passes(p, lo, hi) <= Passes(p, lo, b - 1) + Passes(p, b, hi)
<1>1. /\ At(p, lo, hi) \subseteq At(p, lo, b - 1) \cup At(p, b, hi)
      /\ At(p, lo, b - 1) \subseteq DOMAIN p /\ At(p, b, hi) \subseteq DOMAIN p
  <2>1. \A k \in DOMAIN p : p[k] \in Nat
    BY ElementOfSeq, LenProperties
  <2> QED
    BY <2>1 DEF At
<1>2. /\ IsFiniteSet(At(p, lo, b - 1)) /\ IsFiniteSet(At(p, b, hi))
      /\ Cardinality(At(p, lo, b - 1)) \in Nat /\ Cardinality(At(p, b, hi)) \in Nat
  BY <1>1, PassesFinite
<1>3. /\ IsFiniteSet(At(p, lo, b - 1) \cup At(p, b, hi))
      /\ Cardinality(At(p, lo, b - 1) \cup At(p, b, hi))
           <= Cardinality(At(p, lo, b - 1)) + Cardinality(At(p, b, hi))
  <2>1. /\ IsFiniteSet(At(p, lo, b - 1) \cap At(p, b, hi))
        /\ Cardinality(At(p, lo, b - 1) \cap At(p, b, hi)) \in Nat
    BY <1>2, FS_Intersection, FS_CardinalityType
  <2>2. /\ IsFiniteSet(At(p, lo, b - 1) \cup At(p, b, hi))
        /\ Cardinality(At(p, lo, b - 1) \cup At(p, b, hi))
             = Cardinality(At(p, lo, b - 1)) + Cardinality(At(p, b, hi))
                 - Cardinality(At(p, lo, b - 1) \cap At(p, b, hi))
    BY <1>2, FS_Union
  <2> QED
    BY <1>2, <2>1, <2>2
<1>4. Cardinality(At(p, lo, hi)) <= Cardinality(At(p, lo, b - 1) \cup At(p, b, hi))
      /\ Cardinality(At(p, lo, hi)) \in Nat
      /\ Cardinality(At(p, lo, b - 1) \cup At(p, b, hi)) \in Nat
  <2>1. At(p, lo, b - 1) \cup At(p, b, hi) \subseteq DOMAIN p
    BY <1>1
  <2> QED
    BY <1>1, <2>1, PassesFinite
<1> QED
  BY <1>2, <1>3, <1>4 DEF Passes

(* One more request let through at moment t.                               *)
LEMMA PassesAppend ==
  ASSUME NEW p \in Seq(Nat), NEW t \in Nat, NEW lo \in Int, NEW hi \in Int
  PROVE  /\ Append(p, t) \in Seq(Nat)
         /\ \A k \in DOMAIN Append(p, t) :
              \/ k \in DOMAIN p /\ Append(p, t)[k] = p[k]
              \/ Append(p, t)[k] = t
         /\ t \in lo..hi => Passes(Append(p, t), lo, hi) = Passes(p, lo, hi) + 1
         /\ t \notin lo..hi => Passes(Append(p, t), lo, hi) = Passes(p, lo, hi)
<1> DEFINE q == Append(p, t)
           n == Len(p) + 1
<1>1. /\ q \in Seq(Nat) /\ Len(q) = n
      /\ \A k \in 1..Len(p) : q[k] = p[k]
      /\ q[n] = t
  BY AppendProperties
<1>2. Len(p) \in Nat /\ DOMAIN p = 1..Len(p) /\ DOMAIN q = 1..n
  BY <1>1, LenProperties
<1>3. DOMAIN q = DOMAIN p \cup {n} /\ n \notin DOMAIN p
  BY <1>2
<1> HIDE DEF q, n
<1>a. /\ \A k \in DOMAIN p : q[k] = p[k]
      /\ q[n] = t
  BY <1>1, <1>2
<1>4. t \in lo..hi => At(q, lo, hi) = At(p, lo, hi) \cup {n}
  BY <1>3, <1>a DEF At
<1>5. t \notin lo..hi => At(q, lo, hi) = At(p, lo, hi)
  BY <1>3, <1>a DEF At
<1>6. At(p, lo, hi) \subseteq DOMAIN p /\ n \notin At(p, lo, hi)
  BY <1>3 DEF At
<1>7. Cardinality(At(p, lo, hi) \cup {n}) = Cardinality(At(p, lo, hi)) + 1
  BY <1>6, PassesFinite, FS_AddElement
<1>8. \A k \in DOMAIN q : (k \in DOMAIN p /\ q[k] = p[k]) \/ q[k] = t
  BY <1>1, <1>2, <1>3
<1> QED
  BY <1>1, <1>4, <1>5, <1>7, <1>8 DEF Passes, q

-----------------------------------------------------------------------------
(* What each operation of the limiter does to one address.                 *)

(* The clock moves on while an entry stands. *)
LEMMA ClockMovesOn ==
  ASSUME NEW p \in Seq(Nat), NEW b \in Nat, NEW c \in Nat, NEW t \in Nat,
         WindowCounted(p, b, c, t)
  PROVE  WindowCounted(p, b, c, t + 1)
<1>1. \A k \in DOMAIN p : p[k] <= t /\ p[k] \in Nat
  BY ElementOfSeq, LenProperties DEF WindowCounted
<1>2. At(p, b, t + 1) = At(p, b, t)
  BY <1>1 DEF At
<1> QED
  BY <1>1, <1>2 DEF WindowCounted, Passes

(* A window begins later than anything let through in the one before.      *)
LEMMA WindowBegins ==
  ASSUME NEW p \in Seq(Nat), NEW b \in Nat, NEW c \in Nat, NEW t \in Nat, NEW s \in Nat,
         WindowCounted(p, b, c, t), s >= t, s - b > Window
  PROVE  WindowCounted(p, s, 0, s)
<1>0. \A k \in DOMAIN p : p[k] \in Nat /\ p[k] <= b + Window /\ p[k] <= t
  BY ElementOfSeq, LenProperties DEF WindowCounted
<1>1. \A k \in DOMAIN p : p[k] < s
  BY <1>0, LimiterNumbers
<1>2. At(p, s, s) = {}
  BY <1>0, <1>1 DEF At
<1>3. Passes(p, s, s) = 0
  BY <1>2, FS_EmptySet DEF Passes
<1>4. Passes(p, s - Window, s - 1) <= Passes(p, b, t)
      /\ Passes(p, s - Window, s - 1) \in Nat /\ Passes(p, b, t) \in Nat
  BY <1>0, PassesMonotone, LimiterNumbers
<1>5. Passes(p, b, t) <= Limit
  BY LimiterNumbers DEF WindowCounted
<1> QED
  BY <1>0, <1>1, <1>3, <1>4, <1>5, LimiterNumbers DEF WindowCounted

(* Without an entry, the window to come begins later and later.            *)
LEMMA WindowPutOff ==
  ASSUME NEW p \in Seq(Nat), NEW t \in Nat, WindowCounted(p, t, 0, t)
  PROVE  WindowCounted(p, t + 1, 0, t + 1)
<1>0. \A k \in DOMAIN p : p[k] \in Nat /\ p[k] <= t
  BY ElementOfSeq, LenProperties DEF WindowCounted
<1>1. At(p, t + 1, t + 1) = {}
  BY <1>0 DEF At
<1>2. Passes(p, t + 1, t + 1) = 0
  BY <1>1, FS_EmptySet DEF Passes
<1>3. Passes(p, t, t) = 0 /\ Passes(p, t - Window, t - 1) <= Limit
  BY LimiterNumbers DEF WindowCounted
<1>4. IsFiniteSet(At(p, t, t)) /\ Cardinality(At(p, t, t)) = 0
  BY <1>3, PassesFinite DEF Passes, At
<1>5. At(p, t, t) = {}
  BY <1>4, FS_EmptySet
<1>6. \A k \in DOMAIN p : p[k] # t
  BY <1>0, <1>5 DEF At
<1>7. \A k \in DOMAIN p : p[k] \in (t + 1 - Window)..(t + 1 - 1) => p[k] \in (t - Window)..(t - 1)
  BY <1>0, <1>6, LimiterNumbers
<1>8. Passes(p, t + 1 - Window, t + 1 - 1) <= Passes(p, t - Window, t - 1)
      /\ Passes(p, t + 1 - Window, t + 1 - 1) \in Nat /\ Passes(p, t - Window, t - 1) \in Nat
  <2>1. t + 1 - Window \in Int /\ t + 1 - 1 \in Int /\ t - Window \in Int /\ t - 1 \in Int
    BY LimiterNumbers
  <2> QED
    BY <1>7, <2>1, PassesMonotone
<1> QED
  BY <1>0, <1>2, <1>3, <1>8, LimiterNumbers DEF WindowCounted

(* A request is refused: it counts, and lets nothing through.              *)
LEMMA CountedAndRefused ==
  ASSUME NEW p \in Seq(Nat), NEW b \in Nat, NEW c \in Nat, NEW t \in Nat,
         WindowCounted(p, b, c, t), c + 1 > Limit
  PROVE  WindowCounted(p, b, c + 1, t)
  BY LimiterNumbers DEF WindowCounted

(* A request is let through within the limit.                              *)
LEMMA CountedAndLetThrough ==
  ASSUME NEW p \in Seq(Nat), NEW b \in Nat, NEW c \in Nat, NEW t \in Nat,
         WindowCounted(p, b, c, t), c + 1 <= Limit, t - b <= Window, BurstBounded(p)
  PROVE  WindowCounted(Append(p, t), b, c + 1, t) /\ BurstBounded(Append(p, t))
<1> DEFINE q == Append(p, t)
<1>1. /\ q \in Seq(Nat)
      /\ \A k \in DOMAIN q : (k \in DOMAIN p /\ q[k] = p[k]) \/ q[k] = t
  BY PassesAppend
<1>2. Passes(q, b, t) = Passes(p, b, t) + 1
  BY PassesAppend DEF WindowCounted
<1>3. Passes(q, b - Window, b - 1) = Passes(p, b - Window, b - 1)
  <2>1. t \notin (b - Window)..(b - 1) /\ b - Window \in Int /\ b - 1 \in Int
    BY LimiterNumbers DEF WindowCounted
  <2> QED
    BY <2>1, PassesAppend
<1>4. Passes(p, b, t) = c /\ Passes(p, b - Window, b - 1) <= Limit /\ b <= t
  BY LimiterNumbers DEF WindowCounted
<1>5. \A k \in DOMAIN q : q[k] <= t /\ q[k] <= b + Window
  BY <1>1, LimiterNumbers DEF WindowCounted
<1> HIDE DEF q
<1>6. WindowCounted(q, b, c + 1, t)
  BY <1>2, <1>3, <1>4, <1>5, LimiterNumbers DEF WindowCounted
<1>7. ASSUME NEW s \in Nat PROVE Passes(q, s, s + Window) <= 2 * Limit
  <2>0. s + Window \in Int /\ b - 1 \in Int /\ b - Window \in Int
    BY LimiterNumbers
  <2>1. CASE t \notin s..(s + Window)
    BY <2>0, <2>1, PassesAppend DEF BurstBounded, q
  <2>2. CASE t \in s..(s + Window)
    <3>1. Passes(q, s, s + Window) <= Passes(q, s, b - 1) + Passes(q, b, s + Window)
      BY <1>1, <2>0, PassesSplit
    <3>2. \A k \in DOMAIN q : q[k] \in Nat
      BY <1>1, ElementOfSeq, LenProperties
    <3>3. /\ Passes(q, s, b - 1) \in Nat /\ Passes(q, b - Window, b - 1) \in Nat
          /\ Passes(q, s, b - 1) <= Passes(q, b - Window, b - 1)
      <4>1. \A k \in DOMAIN q : q[k] \in s..(b - 1) => q[k] \in (b - Window)..(b - 1)
        BY <1>4, <2>2, <3>2, LimiterNumbers
      <4>2. s \in Int /\ q \in Seq(Nat)
        BY <1>1
      <4> QED
        BY <2>0, <4>1, <4>2, PassesMonotone
    <3>4. /\ Passes(q, b, s + Window) \in Nat /\ Passes(q, b, t) \in Nat
          /\ Passes(q, b, s + Window) <= Passes(q, b, t)
      <4>1. \A k \in DOMAIN q : q[k] \in b..(s + Window) => q[k] \in b..t
        BY <1>5, <3>2
      <4> QED
        BY <1>1, <2>0, <4>1, PassesMonotone
    <3>5. Passes(q, s, s + Window) \in Nat
      BY <1>1, <2>0, PassesMonotone
    <3> QED
      BY <1>2, <1>3, <1>4, <3>1, <3>3, <3>4, <3>5, LimiterNumbers
  <2> QED
    BY <2>1, <2>2
<1> QED
  BY <1>6, <1>7 DEF BurstBounded, q

-----------------------------------------------------------------------------
(* The limiter.                                                            *)

(* The window a request of a that arrives now or later is counted in: the  *)
(* one of the entry, or one that has yet to begin.                         *)
Begun(a) == IF visitors[a] = None THEN now ELSE visitors[a].lastSeen
CountOf(a) == IF visitors[a] = None THEN 0 ELSE visitors[a].count

(* The entry counts what was let through since its window began, until the *)
(* limit, nothing was let through under it after the window, and the same  *)
(* stretch of time before the window saw at most one other.                *)
WindowsAreCounted ==
  \A a \in Address : /\ WindowCounted(passed[a], Begun(a), CountOf(a), now)
                     /\ BurstBounded(passed[a])

(* The history counted as the properties count it.                         *)
LEMMA PassedInIsPasses ==
  \A a, lo, hi : Limiter!PassedIn(a, lo..hi) = Passes(passed[a], lo, hi)
  BY Zenon DEF Limiter!PassedIn, Limiter!Cardinality, Passes, At, Cardinality

(* The entry of an address, and its history, have their types.             *)
LEMMA EntryTypes ==
  ASSUME TypeOK, NEW a \in Address
  PROVE  /\ now \in Nat /\ passed[a] \in Seq(Nat)
         /\ Begun(a) \in Nat /\ CountOf(a) \in Nat
         /\ visitors[a] # None =>
              /\ visitors[a] \in [count : 1..MaxCount, lastSeen : Limiter!Time]
              /\ visitors[a].count \in Nat /\ visitors[a].lastSeen \in Nat
              /\ [visitors[a] EXCEPT !.count = @ + 1].count = visitors[a].count + 1
              /\ [visitors[a] EXCEPT !.count = @ + 1].lastSeen = visitors[a].lastSeen
<1>1. now \in Nat
  BY LimiterNumbers DEF TypeOK
<1>2. passed[a] \in Seq(Nat)
  <2>1. passed[a] \in Seq(0..MaxTime) /\ 0..MaxTime \subseteq Nat
    BY LimiterNumbers DEF TypeOK, Limiter!TypeOK, Limiter!Time
  <2> QED
    BY <2>1, SeqMonotonic
<1>3. ASSUME visitors[a] # None
      PROVE  /\ visitors[a] \in [count : 1..MaxCount, lastSeen : Limiter!Time]
             /\ visitors[a].count \in Nat /\ visitors[a].lastSeen \in Nat
  BY <1>3, LimiterNumbers DEF TypeOK, Limiter!TypeOK, Limiter!Time
<1>4. ASSUME visitors[a] # None
      PROVE  /\ [visitors[a] EXCEPT !.count = @ + 1].count = visitors[a].count + 1
             /\ [visitors[a] EXCEPT !.count = @ + 1].lastSeen = visitors[a].lastSeen
  BY <1>3, <1>4
<1> QED
  BY <1>1, <1>2, <1>3, <1>4 DEF Begun, CountOf

(* An address without history is within every bound. *)
LEMMA FreshAddress ==
  ASSUME NEW t \in Nat
  PROVE  WindowCounted(<< >>, t, 0, t) /\ BurstBounded(<< >>)
<1>1. DOMAIN << >> = {}
  OBVIOUS
<1>2. \A lo, hi : At(<< >>, lo, hi) = {}
  BY <1>1 DEF At
<1>3. \A lo, hi : Passes(<< >>, lo, hi) = 0
  BY <1>2, FS_EmptySet DEF Passes
<1> QED
  BY <1>1, <1>3, LimiterNumbers DEF WindowCounted, BurstBounded

(* A request is counted in the window of the entry, or begins one.         *)
LEMMA HandleCounts ==
  ASSUME TypeOK, WindowsAreCounted, NEW a \in Address, Limiter!Handle(a), UNCHANGED now
  PROVE  WindowsAreCounted'
<1>1. /\ now \in Nat /\ passed[a] \in Seq(Nat) /\ Begun(a) \in Nat /\ CountOf(a) \in Nat
      /\ WindowCounted(passed[a], Begun(a), CountOf(a), now) /\ BurstBounded(passed[a])
  BY EntryTypes DEF WindowsAreCounted
(* Before it is counted: an entry whose window is over counts for nothing. *)
<1>2. PICK b \in Nat, c \in Nat :
        /\ WindowCounted(passed[a], b, c, now) /\ now - b <= Window
        /\ Limiter!Visit(a).count = c + 1 /\ Limiter!Visit(a).lastSeen = b
  <2>1. CASE visitors[a] = None
    <3>1. Limiter!Visit(a) = [count |-> 1, lastSeen |-> now]
      BY <2>1 DEF Limiter!Visit
    <3>2. WindowCounted(passed[a], now, 0, now)
      BY <1>1, <2>1 DEF Begun, CountOf
    <3>3. now - now <= Window /\ 0 \in Nat
      BY <1>1, LimiterNumbers
    <3> QED
      BY <1>1, <3>1, <3>2, <3>3
  <2>2. CASE visitors[a] # None /\ Limiter!Over(a)
    <3>1. Limiter!Visit(a) = [count |-> 1, lastSeen |-> now]
      BY <2>2 DEF Limiter!Visit
    <3>2. now - Begun(a) > Window
      BY <2>2 DEF Limiter!Over, Begun
    <3>3. WindowCounted(passed[a], now, 0, now)
      BY <1>1, <3>2, WindowBegins
    <3>4. now - now <= Window /\ 0 \in Nat
      BY <1>1, LimiterNumbers
    <3> QED
      BY <1>1, <3>1, <3>3, <3>4
  <2>3. CASE visitors[a] # None /\ ~Limiter!Over(a)
    <3>1. Limiter!Visit(a) = [visitors[a] EXCEPT !.count = @ + 1]
      BY <2>3 DEF Limiter!Visit
    <3>2. Limiter!Visit(a).count = CountOf(a) + 1 /\ Limiter!Visit(a).lastSeen = Begun(a)
      BY <2>3, <3>1, EntryTypes DEF Begun, CountOf
    <3>3. now - Begun(a) <= Window
      BY <1>1, <2>3, LimiterNumbers DEF Limiter!Over, Begun
    <3> QED
      BY <1>1, <3>2, <3>3
  <2> QED
    BY <2>1, <2>2, <2>3
<1>3. /\ visitors' = [visitors EXCEPT ![a] = Limiter!Visit(a)]
      /\ visitors \in [Address -> [count : 1..MaxCount, lastSeen : Limiter!Time] \cup {None}]
      /\ passed \in [Address -> Seq(Limiter!Time)]
  BY DEF Limiter!Handle, TypeOK, Limiter!TypeOK
<1>4. visitors'[a] # None /\ visitors'[a] = Limiter!Visit(a)
  <2>1. CASE visitors[a] = None \/ Limiter!Over(a)
    <3>1. Limiter!Visit(a) = [count |-> 1, lastSeen |-> now]
      BY <2>1 DEF Limiter!Visit
    <3>2. [count |-> 1, lastSeen |-> now] \in [count : Nat, lastSeen : Nat]
      BY <1>1
    <3> QED
      BY <1>3, <3>1, <3>2, LimiterNumbers
  <2>2. CASE ~(visitors[a] = None \/ Limiter!Over(a))
    <3>1. Limiter!Visit(a) = [visitors[a] EXCEPT !.count = @ + 1]
      BY <2>2 DEF Limiter!Visit
    <3>2. visitors[a] \in [count : Nat, lastSeen : Nat]
      BY <2>2, EntryTypes, LimiterNumbers DEF Limiter!Time
    <3>3. [visitors[a] EXCEPT !.count = @ + 1] \in [count : Nat, lastSeen : Nat]
      BY <3>2
    <3> QED
      BY <1>3, <3>1, <3>3, LimiterNumbers
  <2> QED
    BY <2>1, <2>2
<1>5. Begun(a)' = b /\ CountOf(a)' = c + 1
  BY <1>2, <1>4 DEF Begun, CountOf
<1>6. \A d \in Address \ {a} : /\ passed'[d] = passed[d]
                               /\ Begun(d)' = Begun(d) /\ CountOf(d)' = CountOf(d)
  BY <1>3 DEF Limiter!Handle, Begun, CountOf
<1>7. WindowCounted(passed'[a], b, c + 1, now) /\ BurstBounded(passed'[a])
  <2>1. CASE c + 1 <= Limit
    <3>1. passed'[a] = Append(passed[a], now)
      BY <1>2, <1>3, <2>1 DEF Limiter!Handle, Limiter!LetsThrough
    <3> QED
      BY <1>1, <1>2, <2>1, <3>1, CountedAndLetThrough
  <2>2. CASE c + 1 > Limit
    <3>1. passed' = passed
      BY <1>2, <2>2, LimiterNumbers DEF Limiter!Handle, Limiter!LetsThrough
    <3> QED
      BY <1>1, <1>2, <2>2, <3>1, CountedAndRefused
  <2> QED
    BY <2>1, <2>2, LimiterNumbers
<1> QED
  BY <1>5, <1>6, <1>7 DEF WindowsAreCounted

(* Entries are deleted after their window only.                            *)
LEMMA CleanupCounts ==
  ASSUME TypeOK, WindowsAreCounted, Limiter!Cleanup, UNCHANGED now
  PROVE  WindowsAreCounted'
<1> SUFFICES ASSUME NEW a \in Address
             PROVE  /\ WindowCounted(passed[a], Begun(a), CountOf(a), now)'
                    /\ BurstBounded(passed[a])'
  BY DEF WindowsAreCounted
<1>1. /\ now \in Nat /\ passed[a] \in Seq(Nat) /\ Begun(a) \in Nat /\ CountOf(a) \in Nat
      /\ WindowCounted(passed[a], Begun(a), CountOf(a), now) /\ BurstBounded(passed[a])
  BY EntryTypes DEF WindowsAreCounted
<1>2. passed' = passed /\ now' = now
  BY DEF Limiter!Cleanup
<1>3. CASE visitors[a] # None /\ Limiter!Over(a)
  <2>1. Begun(a)' = now /\ CountOf(a)' = 0
    BY <1>2, <1>3 DEF Limiter!Cleanup, Begun, CountOf
  <2>2. now - Begun(a) > Window
    BY <1>3 DEF Limiter!Over, Begun
  <2>3. WindowCounted(passed[a], now, 0, now)
    BY <1>1, <2>2, WindowBegins
  <2> QED
    BY <1>1, <1>2, <2>1, <2>3
<1>4. CASE ~(visitors[a] # None /\ Limiter!Over(a))
  <2>1. Begun(a)' = Begun(a) /\ CountOf(a)' = CountOf(a)
    BY <1>2, <1>4 DEF Limiter!Cleanup, Begun, CountOf
  <2> QED
    BY <1>1, <1>2, <2>1
<1> QED
  BY <1>3, <1>4

(* A new process has counted nobody.                                       *)
LEMMA RestartCounts ==
  ASSUME TypeOK, Limiter!Restart, UNCHANGED now
  PROVE  WindowsAreCounted'
<1> SUFFICES ASSUME NEW a \in Address
             PROVE  /\ WindowCounted(passed[a], Begun(a), CountOf(a), now)'
                    /\ BurstBounded(passed[a])'
  BY DEF WindowsAreCounted
<1>1. passed'[a] = << >> /\ Begun(a)' = now /\ CountOf(a)' = 0 /\ now' = now
  BY DEF Limiter!Restart, Begun, CountOf
<1>2. now \in Nat
  BY EntryTypes
<1> QED
  BY <1>1, <1>2, FreshAddress

(* The clock moves on, with entries or without.                            *)
LEMMA TickCounts ==
  ASSUME TypeOK, WindowsAreCounted, UNCHANGED limiter, now' = now + 1
  PROVE  WindowsAreCounted'
<1> SUFFICES ASSUME NEW a \in Address
             PROVE  /\ WindowCounted(passed[a], Begun(a), CountOf(a), now)'
                    /\ BurstBounded(passed[a])'
  BY DEF WindowsAreCounted
<1>1. /\ now \in Nat /\ passed[a] \in Seq(Nat) /\ Begun(a) \in Nat /\ CountOf(a) \in Nat
      /\ WindowCounted(passed[a], Begun(a), CountOf(a), now) /\ BurstBounded(passed[a])
  BY EntryTypes DEF WindowsAreCounted
<1>2. passed' = passed /\ visitors' = visitors
  BY DEF limiter
<1>3. CASE visitors[a] = None
  <2>1. /\ Begun(a) = now /\ CountOf(a) = 0
        /\ Begun(a)' = now + 1 /\ CountOf(a)' = 0
    BY <1>2, <1>3 DEF Begun, CountOf
  <2> QED
    BY <1>1, <1>2, <2>1, WindowPutOff
<1>4. CASE visitors[a] # None
  <2>1. Begun(a)' = Begun(a) /\ CountOf(a)' = CountOf(a)
    BY <1>2, <1>4 DEF Begun, CountOf
  <2> QED
    BY <1>1, <1>2, <2>1, ClockMovesOn
<1> QED
  BY <1>3, <1>4

(* Every step of the gate keeps the count.                                 *)
LEMMA WindowsStep == TypeOK /\ WindowsAreCounted /\ [Next]_vars => WindowsAreCounted'
<1> SUFFICES ASSUME TypeOK, WindowsAreCounted, [Next]_vars PROVE WindowsAreCounted'
  OBVIOUS
<1>1. ASSUME UNCHANGED <<now, limiter>> PROVE WindowsAreCounted'
  BY <1>1 DEF limiter, WindowsAreCounted, Begun, CountOf
<1>2. CASE \E i \in Id : Seal(i)
  BY <1>1, <1>2 DEF Seal
<1>3. CASE \E h \in Handler, a \in Address, i \in Id : ArrivePublic(h, a, i)
  BY <1>3, HandleCounts DEF ArrivePublic
<1>4. CASE \E h \in Handler, i \in Id : ArriveAuthenticated(h, i)
  BY <1>1, <1>4 DEF ArriveAuthenticated
<1>5. CASE \E h \in Handler : Decrypt(h)
  BY <1>1, <1>5 DEF Decrypt
<1>6. CASE Cleanup
  BY <1>6, CleanupCounts DEF Cleanup
<1>7. CASE Tick
  BY <1>7, TickCounts DEF Tick
<1>8. CASE Restart
  BY <1>8, RestartCounts DEF Restart
<1>9. CASE UNCHANGED vars
  BY <1>1, <1>9 DEF vars
<1> QED
  BY <1>2, <1>3, <1>4, <1>5, <1>6, <1>7, <1>8, <1>9 DEF Next

(* Nobody has been counted at first. *)
LEMMA WindowsInit == Init => WindowsAreCounted
<1> SUFFICES ASSUME Init, NEW a \in Address
             PROVE  /\ WindowCounted(passed[a], Begun(a), CountOf(a), now)
                    /\ BurstBounded(passed[a])
  BY DEF WindowsAreCounted
<1>1. passed[a] = << >> /\ Begun(a) = 0 /\ CountOf(a) = 0 /\ now = 0
  BY DEF Init, Limiter!Init, Begun, CountOf
<1> QED
  BY <1>1, FreshAddress

(* A refused request was preceded by Limit others within its window. *)
LEMMA RefusedForCause ==
  ASSUME TypeOK, WindowsAreCounted, NEW a \in Address, ~Limiter!LetsThrough(a)
  PROVE  Limiter!PassedIn(a, (now - Window)..now) >= Limit
<1>1. /\ now \in Nat /\ passed[a] \in Seq(Nat) /\ Begun(a) \in Nat /\ CountOf(a) \in Nat
      /\ WindowCounted(passed[a], Begun(a), CountOf(a), now)
  BY EntryTypes DEF WindowsAreCounted
<1>2. visitors[a] # None /\ ~Limiter!Over(a)
  <2>1. CASE visitors[a] = None \/ Limiter!Over(a)
    <3>1. Limiter!Visit(a) = [count |-> 1, lastSeen |-> now]
      BY <2>1 DEF Limiter!Visit
    <3> QED
      BY <3>1, LimiterNumbers DEF Limiter!LetsThrough
  <2> QED
    BY <2>1
<1>3. Limiter!Visit(a) = [visitors[a] EXCEPT !.count = @ + 1]
  BY <1>2 DEF Limiter!Visit
<1>4. CountOf(a) + 1 > Limit
  BY <1>1, <1>2, <1>3, EntryTypes, LimiterNumbers DEF Limiter!LetsThrough, CountOf
<1>5. now - Begun(a) <= Window
  BY <1>1, <1>2, LimiterNumbers DEF Limiter!Over, Begun
<1>6. Passes(passed[a], Begun(a), now) = Limit
  BY <1>1, <1>4, LimiterNumbers DEF WindowCounted
<1>7. Passes(passed[a], Begun(a), now) <= Passes(passed[a], now - Window, now)
      /\ Passes(passed[a], now - Window, now) \in Nat
  BY <1>1, <1>5, PassesMonotone, LimiterNumbers
<1> QED
  BY <1>6, <1>7, PassedInIsPasses, LimiterNumbers

(* However windows, clean-ups and restarts fall, no stretch of time as     *)
(* long as a window sees more than twice the limit of requests of one      *)
(* address let through by a process.                                       *)
THEOREM BurstsStayBounded == Spec => []BurstsAreBounded
<1>1. ASSUME TypeOK, WindowsAreCounted, NEW a \in Address, NEW t \in Limiter!Time
      PROVE  Limiter!PassedIn(a, t..(t + Window)) <= 2 * Limit
  <2>1. t \in Nat
    BY LimiterNumbers DEF Limiter!Time
  <2> QED
    BY <1>1, <2>1, PassedInIsPasses DEF WindowsAreCounted, BurstBounded
<1>2. TypeOK /\ WindowsAreCounted => BurstsAreBounded
  BY <1>1 DEF BurstsAreBounded, Limiter!BurstsAreBounded
<1> QED
  BY <1>2, GateTypeCorrect, WindowsInit, WindowsStep, PTL DEF Spec

(* The limiter refuses an address only after letting it through Limit      *)
(* times within the last window: asking while refused changes nothing.     *)
THEOREM RefusalsHaveACause == Spec => []RefusalsAreEarned
<1>1. TypeOK /\ WindowsAreCounted => RefusalsAreEarned
  BY RefusedForCause DEF RefusalsAreEarned, Limiter!RefusalsAreEarned
<1> QED
  BY <1>1, GateTypeCorrect, WindowsInit, WindowsStep, PTL DEF Spec

=============================================================================
