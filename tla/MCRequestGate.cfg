\* One address, one envelope in any number of copies, two requests in flight.
CONSTANTS
  Address = {a1}
  Id = {i1}
  Handler = {h1, h2}
  None = None
  Limit = 2
  Window = 1
  EnvelopeWindow = 1
  MaxSkew = 2
  MaxTime = 4
  MaxCount = 3
  MaxOpened = 2
  MaxRestarts = 1
SPECIFICATION Spec
SYMMETRY Interchangeable
CHECK_DEADLOCK FALSE
INVARIANTS
  BurstsAreBounded
  RefusalsAreEarned
  AcceptedOncePerProcess
