\* One client of one account, two requests that publish; a second stream overlaps the first
\* after a break.
CONSTANTS
  u1 = u1
  c1 = c1
  NoId = NoId
  User = {u1}
  Client = {c1}
  UserOf <- OneClient
  Id = {i1, i2}
  Publisher = {p1, p2}
  WireSize = 1
  MaxChanges <- Changes
  MaxBreaks = 2
SPECIFICATION Spec
INVARIANTS
  TypeOK
  NoLostWakeup
  SubscriptionsMatchHandlers
PROPERTIES
  SignalsReachClients
  ImplementsWakeUp
