SPECIFICATION Spec
CONSTANTS
  Uploaders = {u1, u2}
  Lengths = {3, 4, 7}
  PartSize = 2
  MaxParts = 3
  Modes <- AllModes
  MaxOps = 3
  MaxFaults = 2
INVARIANTS OnlyWhole SessionsClosed StoredStaysIntact FailsForCause
SYMMETRY Callers
