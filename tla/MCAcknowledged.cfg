\* An acknowledgement meets an edit.
CONSTANTS
  User = {u1}
  Reader = {u1}
  Body = {b1, b2}
  Editor = {e1, e2}
  None = None
  Asked = {"acknowledged"}
  MaxRev = 2
SPECIFICATION Spec
SYMMETRY EditorsAndBodies
INVARIANT AcknowledgedRevisionWasShown
