--------------------------- MODULE RequestEnvelope ---------------------------
(***************************************************************************)
(* RequestCipher.Decrypt and markRequestID (service/request_crypto.go): an *)
(* envelope is good for a window around its timestamp, and its request id  *)
(* is remembered so that it is accepted once.                              *)
(*                                                                         *)
(* The clock is read twice, before the mutex for the timestamp and under   *)
(* it for the memory of ids, and the envelope is opened after that, so     *)
(* handlers interleave between the three.  An id is remembered whether or  *)
(* not its envelope turns out to open.  The memory does not survive the    *)
(* process.  The network may deliver an envelope late, damaged, and any    *)
(* number of times.  The clock moves in the module that composes this one. *)
(***************************************************************************)
EXTENDS Integers, Sequences

CONSTANTS
  Id,         \* the request ids clients draw
  Handler,    \* slots for requests in flight
  EnvelopeWindow,  \* encryptedEnvelopeWindow, in ticks of the clock
  MaxSkew,    \* bound: how far a client's clock is off
  MaxTime,    \* bound: the clock stops there
  MaxOpened,  \* bound: acceptances of one id
  None        \* no id, no deadline, not sent

(* What the constants must be; assumed by the module that composes this one. *)
Assumption ==
  /\ EnvelopeWindow \in Nat /\ MaxSkew \in Nat /\ MaxTime \in Nat /\ MaxOpened \in Nat
  /\ None \notin Id \cup Int

VARIABLES
  now,       \* the clock of the server
  sent,      \* the timestamp of the envelope of each id, or None
  seen,      \* the deadline until which each id is remembered, or None
  pc, req,   \* the next step and the local variables of each handler
  accepted   \* history: for each id, when its acceptances by this process
             \* read the clock

NoRequest == [id |-> None, received |-> 0, marked |-> 0]

Init ==
  /\ sent = [i \in Id |-> None]
  /\ seen = [i \in Id |-> None]
  /\ pc = [h \in Handler |-> "idle"]
  /\ req = [h \in Handler |-> NoRequest]
  /\ accepted = [i \in Id |-> <<>>]

(* A client seals an envelope, stamped by its own clock. *)
Seal(i, stamp) ==
  /\ sent[i] = None
  /\ sent' = [sent EXCEPT ![i] = stamp]
  /\ UNCHANGED <<seen, pc, req, accepted>>

(* A copy of the envelope of i reaches handler h. *)
Deliver(h, i) ==
  /\ pc[h] = "idle"
  /\ sent[i] # None
  /\ pc' = [pc EXCEPT ![h] = "check"]
  /\ req' = [req EXCEPT ![h].id = i]
  /\ UNCHANGED <<sent, seen, accepted>>

End(h) ==
  /\ pc' = [pc EXCEPT ![h] = "idle"]
  /\ req' = [req EXCEPT ![h] = NoRequest]

(* The timestamp is at most a window away from the clock, either way.      *)
InWindow(stamp) == now - stamp <= EnvelopeWindow /\ stamp - now <= EnvelopeWindow

(* Decrypt up to markRequestID. *)
CheckStamp(h) ==
  /\ pc[h] = "check"
  /\ IF InWindow(sent[req[h].id])
     THEN /\ pc' = [pc EXCEPT ![h] = "mark"]
          /\ req' = [req EXCEPT ![h].received = now]
     ELSE End(h)
  /\ UNCHANGED <<sent, seen, accepted>>

(* Mutant of Kept: an id is forgotten at its deadline, not after it. *)
KeptBefore(i) == seen[i] # None /\ now < seen[i]

(* The deletion of expired ids leaves i in the map.                        *)
Kept(i) == seen[i] # None /\ now <= seen[i]

(* markRequestID: expired ids are deleted; an id still there is refused,   *)
(* another one remembered until a window after the request was received.   *)
MarkRequestID(h) ==
  /\ pc[h] = "mark"
  /\ LET i == req[h].id
         kept == [j \in Id |-> IF Kept(j) THEN seen[j] ELSE None]
     IN IF Kept(i)
        THEN seen' = kept /\ End(h)
        ELSE /\ seen' = [kept EXCEPT ![i] = req[h].received + EnvelopeWindow]
             /\ pc' = [pc EXCEPT ![h] = "open"]
             /\ req' = [req EXCEPT ![h].marked = now]
  /\ UNCHANGED <<sent, accepted>>

(* The rest of Decrypt; intact: the copy was not damaged.                  *)
Open(h, intact) ==
  /\ pc[h] = "open"
  /\ Len(accepted[req[h].id]) < MaxOpened
  /\ accepted' = IF intact
                 THEN [accepted EXCEPT ![req[h].id] =
                         Append(@, [received |-> req[h].received, marked |-> req[h].marked])]
                 ELSE accepted
  /\ End(h)
  /\ UNCHANGED <<sent, seen>>

(* A new process; the history is of one process. *)
Restart ==
  /\ seen' = [i \in Id |-> None]
  /\ pc' = [h \in Handler |-> "idle"]
  /\ req' = [h \in Handler |-> NoRequest]
  /\ accepted' = [i \in Id |-> <<>>]
  /\ UNCHANGED sent

Time == 0..MaxTime
Stamp == (-MaxSkew)..(MaxTime + MaxSkew)

TypeOK ==
  /\ sent \in [Id -> Stamp \cup {None}]
  /\ seen \in [Id -> 0..(MaxTime + EnvelopeWindow) \cup {None}]
  /\ pc \in [Handler -> {"idle", "check", "mark", "open"}]
  /\ req \in [Handler -> [id : Id \cup {None}, received : Time, marked : Time]]
  /\ accepted \in [Id -> Seq([received : Time, marked : Time])]

-----------------------------------------------------------------------------

(* A process accepts a request id once, however often and in however many  *)
(* copies its envelope arrives, but for two cases the window leaves open:  *)
(* the client's clock was ahead, so the envelope outlives the memory of    *)
(* its id; or a handler stood still between its two readings of the clock. *)
AcceptedOncePerProcess ==
  \A i \in Id : \A m, n \in DOMAIN accepted[i] :
    m # n => \E a \in {accepted[i][m], accepted[i][n]} :
               sent[i] > a.received \/ a.marked > a.received

=============================================================================
