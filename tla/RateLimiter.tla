----------------------------- MODULE RateLimiter -----------------------------
(***************************************************************************)
(* The limiter in front of the public routes (middleware/ratelimit.go): a  *)
(* count and the start of its window for each address, under one mutex,    *)
(* and a goroutine that deletes entries whose window is over.  All of it   *)
(* is in memory.  The module has no clock of its own: now moves in the     *)
(* module that composes it.                                                *)
(***************************************************************************)
EXTENDS Integers, Sequences, FiniteSets

CONSTANTS
  Address,   \* the values of RemoteAddr
  Limit,     \* requests let through in a window
  Window,    \* length of a window, in ticks of the clock
  MaxTime,   \* bound: the clock stops there
  MaxCount,  \* bound: requests counted in one window
  None       \* an address without an entry

(* What the constants must be; assumed by the module that composes this one. *)
Assumption ==
  /\ Limit \in Nat \ {0} /\ Window \in Nat /\ MaxTime \in Nat /\ MaxCount \in Nat
  /\ Limit < MaxCount
  /\ None \notin [count : Nat, lastSeen : Nat]

VARIABLES
  now,       \* the clock
  visitors,  \* the entry of each address, or None
  passed     \* history: when the requests of each address were let through

Time == 0..MaxTime

Init ==
  /\ visitors = [a \in Address |-> None]
  /\ passed = [a \in Address |-> << >>]

(* The window of the entry of a is over. *)
Over(a) == now - visitors[a].lastSeen > Window

(* Mutant of Visit: lastSeen is what its name says, so that a client that  *)
(* keeps asking is never let through again.                                *)
VisitRenewing(a) ==
  IF visitors[a] = None \/ Over(a)
  THEN [count |-> 1, lastSeen |-> now]
  ELSE [count |-> visitors[a].count + 1, lastSeen |-> now]

(* The entry of a once one more request is counted. *)
Visit(a) ==
  IF visitors[a] = None \/ Over(a)
  THEN [count |-> 1, lastSeen |-> now]
  ELSE [visitors[a] EXCEPT !.count = @ + 1]

LetsThrough(a) == Visit(a).count <= Limit

(* A request from address a is counted, and let through or refused.        *)
Handle(a) ==
  /\ Visit(a).count <= MaxCount
  /\ visitors' = [visitors EXCEPT ![a] = Visit(a)]
  /\ passed' = IF LetsThrough(a) THEN [passed EXCEPT ![a] = Append(@, now)] ELSE passed

(* Mutant of Cleanup: it deletes entries as soon as they are not of now.   *)
CleanupEarly ==
  /\ visitors' = [a \in Address |->
       IF visitors[a] # None /\ now > visitors[a].lastSeen THEN None ELSE visitors[a]]
  /\ UNCHANGED passed

(* One round of the goroutine.  It sleeps for a minute, but nothing says   *)
(* how long it takes to wake up.                                           *)
Cleanup ==
  /\ visitors' = [a \in Address |->
       IF visitors[a] # None /\ Over(a) THEN None ELSE visitors[a]]
  /\ UNCHANGED passed

(* A new process; the history is of one process. *)
Restart == visitors' = [a \in Address |-> None] /\ passed' = [a \in Address |-> << >>]

TypeOK ==
  /\ visitors \in [Address -> [count : 1..MaxCount, lastSeen : Time] \cup {None}]
  /\ passed \in [Address -> Seq(Time)]

-----------------------------------------------------------------------------

PassedIn(a, S) == Cardinality({k \in DOMAIN passed[a] : passed[a][k] \in S})

(* However windows and clean-ups fall, no stretch of time as long as a     *)
(* window sees more than twice the limit: a burst at the end of one window *)
(* and one at the start of the next.                                       *)
BurstsAreBounded ==
  \A a \in Address, t \in Time : PassedIn(a, t..(t + Window)) <= 2 * Limit

(* A client is refused only if it was let through as often as the limit    *)
(* within the last window: asking while refused does not prolong the       *)
(* refusal.                                                                *)
RefusalsAreEarned ==
  \A a \in Address : ~LetsThrough(a) => PassedIn(a, (now - Window)..now) >= Limit

=============================================================================
