\* Two administrators and one user who lists and acknowledges.
CONSTANTS
  User = {u1}
  Reader = {u1}
  Body = {b1, b2}
  Editor = {e1, e2}
  None = None
  Asked = {"acknowledged"}
  MaxRev = 2
SPECIFICATION Spec
SYMMETRY EditorsAndBodies
INVARIANTS
  TypeOK
  RevisionFixesContent
  StaleListsAreNotified
PROPERTIES
  NewRevisionsAreUnread
