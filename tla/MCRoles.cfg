\* Two requests in flight, the two seeded roles and one more, one ordinary account,
\* one permission that only administrators have.
CONSTANTS
  Account = {admin, u1}
  Seeded = admin
  Super = admin
  Role = {r1, r2, r3}
  AdminRole = r1
  UserRole = r2
  Name = {nAdmin, nUser, nOther}
  AdminName = nAdmin
  UserName = nUser
  Permission = {edit}
  Basic = {}
  None = None
  Handler = {h1, h2}
SPECIFICATION RolesSpec
SYMMETRY Requests
INVARIANTS
  RolesTypeOK
  AdminRoleIsReserved
PROPERTIES
  NewRolesPermitNothing
