----------------------------- MODULE RequestGate -----------------------------
(***************************************************************************)
(* What a request passes before its handler decodes it (router/router.go): *)
(* the rate limiter, on the public routes only, then, in decodeAuthBody,   *)
(* the request envelope.  Both keep their memory in the process and read   *)
(* the same clock.                                                         *)
(***************************************************************************)
EXTENDS Integers

CONSTANTS
  Address, Id, Handler, None,
  Limit, Window, EnvelopeWindow,   \* see RateLimiter and RequestEnvelope
  MaxSkew, MaxTime, MaxCount, MaxOpened, \* bounds, see there
  MaxRestarts                            \* bound: restarts of the process

VARIABLES now, visitors, passed, sent, seen, pc, req, accepted, restarts

Limiter == INSTANCE RateLimiter
Envelope == INSTANCE RequestEnvelope

ASSUME GateAssumption ==
  Limiter!Assumption /\ Envelope!Assumption /\ MaxRestarts \in Nat

limiter == <<visitors, passed>>
envelope == <<sent, seen, pc, req, accepted>>
vars == <<now, limiter, envelope, restarts>>

Init == now = 0 /\ restarts = 0 /\ Limiter!Init /\ Envelope!Init

(* A client whose clock is off by at most MaxSkew seals an envelope. *)
Seal(i) ==
  /\ \E stamp \in (now - MaxSkew)..(now + MaxSkew) : Envelope!Seal(i, stamp)
  /\ UNCHANGED <<now, limiter, restarts>>

(* A copy arrives on a public route: the limiter counts it and may refuse  *)
(* it, in which case its envelope is not looked at.                        *)
ArrivePublic(h, a, i) ==
  /\ pc[h] = "idle" /\ sent[i] # None
  /\ Limiter!Handle(a)
  /\ IF Limiter!LetsThrough(a) THEN Envelope!Deliver(h, i) ELSE UNCHANGED envelope
  /\ UNCHANGED <<now, restarts>>

(* A copy arrives on the route of ChangePassword, which has no limiter.    *)
ArriveAuthenticated(h, i) ==
  /\ Envelope!Deliver(h, i)
  /\ UNCHANGED <<now, limiter, restarts>>

Decrypt(h) ==
  /\ \/ Envelope!CheckStamp(h)
     \/ Envelope!MarkRequestID(h)
     \/ \E intact \in BOOLEAN : Envelope!Open(h, intact)
  /\ UNCHANGED <<now, limiter, restarts>>

Cleanup ==
  /\ Limiter!Cleanup
  /\ UNCHANGED <<now, envelope, restarts>>

Tick ==
  /\ now < MaxTime
  /\ now' = now + 1
  /\ UNCHANGED <<limiter, envelope, restarts>>

Restart ==
  /\ restarts < MaxRestarts
  /\ restarts' = restarts + 1
  /\ Limiter!Restart /\ Envelope!Restart
  /\ UNCHANGED now

Next ==
  \/ \E i \in Id : Seal(i)
  \/ \E h \in Handler, a \in Address, i \in Id : ArrivePublic(h, a, i)
  \/ \E h \in Handler, i \in Id : ArriveAuthenticated(h, i)
  \/ \E h \in Handler : Decrypt(h)
  \/ Cleanup
  \/ Tick
  \/ Restart

Spec == Init /\ [][Next]_vars

-----------------------------------------------------------------------------

TypeOK ==
  /\ now \in 0..MaxTime /\ restarts \in 0..MaxRestarts
  /\ Limiter!TypeOK /\ Envelope!TypeOK

(* The properties of the two components, for the program that has both.    *)
BurstsAreBounded == Limiter!BurstsAreBounded
RefusalsAreEarned == Limiter!RefusalsAreEarned
AcceptedOncePerProcess == Envelope!AcceptedOncePerProcess

=============================================================================
