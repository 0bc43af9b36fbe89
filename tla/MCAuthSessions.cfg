\* Two requests in flight, the super admin and one ordinary account.
CONSTANTS
  admin = admin
  u1 = u1
  NoToken = NoToken
  User = {admin, u1}
  SuperAdmin = admin
  Handler = {h1, h2}
  RToken = {t1, t2, t3}
  MaxVersion <- OneSignOut
SPECIFICATION Spec
SYMMETRY HandlersAndTokens
INVARIANTS
  TypeOK
  LiveTokensAreCurrent
  DisabledAccountsGainNothing
  ExchangedTokenIsRevoked
PROPERTIES
  ReplaysOverlap
  RefusedForEver
  SignOutIsImmediate
  ImplementsLedger
