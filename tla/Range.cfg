SPECIFICATION Spec
CONSTANTS
  Lengths = {0, 1, 4, 5, 6}
  ChunkSizes = {2, 3}
  MaxRange = 5
  MaxPiece = 4
INVARIANTS DigestsCover RangeIsExact RightIsAccepted
