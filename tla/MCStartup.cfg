\* A server and a manual migration, two crashes, two keys.
CONSTANTS
  Key = {k1, k2}
  NoFile = NoFile
  Torn = Torn
  MaxCrashes = 2
  MaxManual = 1
SPECIFICATION Spec
INVARIANTS
  RecordedIsComplete
  ServingIsComplete
  KeyIsStable
PROPERTY
  ServesAgain
