\* One name, two addresses, two attempts in flight, a second day.
CONSTANTS
  Name = {n1}
  IP = {a1, a2}
  Login = {h1, h2}
  MaxAttempts = 2
  LockMinutes = 1
  Day = 2
  MaxTime = 3
  MaxRows = 5
SPECIFICATION ThrottleSpec
SYMMETRY Interchangeable
CHECK_DEADLOCK FALSE
INVARIANTS
  LockedForCause
  GuessesEarlyInTheDay
