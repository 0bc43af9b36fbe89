\* Two requests in flight, four rows on two platforms.
CONSTANTS
  Platform = {windows, mac}
  VersionCode = {1, 2, 3}
  Id = {i1, i2, i3, i4}
  NoId = NoId
  Handler = {h1, h2}
SPECIFICATION Spec
SYMMETRY HandlersAndRows
INVARIANTS
  OneLatestUnlessDeleteRaced
  ALatestRemains
CHECK_DEADLOCK FALSE
