\* Three requests in flight, two phones, two accounts, three editions of the template.
CONSTANTS
  Phone = {p1, p2}
  Account = {u1, u2}
  None = None
  Handler = {h1, h2, h3}
  MaxTemplate = 3
SPECIFICATION Spec
SYMMETRY Interchangeable
INVARIANTS
  TypeOK
  CopiesDateFromRegistration
PROPERTIES
  SettingsStay
