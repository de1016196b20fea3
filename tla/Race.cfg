SPECIFICATION Spec
CONSTANTS
  Writers = {w1, w2, w3}
  Deleters = {}
  Digests = {1, 2}
  PutRequests <- RacingPuts
  Profiles = {"none", "mutable"}
  Registrable = {"mutable"}
  MultipartDigests = {}
  Versioned = TRUE
  ProviderLock = FALSE
  VerifyAfterWrite = TRUE
  MaxOps = 3
  MaxInFlight = 3
  MaxFaults = 0
INVARIANTS TypeOK BytesAccounted LosersAccounted
PROPERTY FirstCommitWins
SYMMETRY Callers
