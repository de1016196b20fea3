SPECIFICATION Spec
CONSTANTS
  Writers = {w1, w2}
  Deleters = {x1, x2}
  Digests = {1, 2}
  PutRequests <- MixedPuts
  Profiles = {"mutable"}
  Registrable = {}
  MultipartDigests = {2}
  Versioned = TRUE
  ProviderLock = TRUE
  VerifyAfterWrite = FALSE
  MaxOps = 4
  MaxInFlight = 2
  MaxFaults = 1
INVARIANTS EnvelopeComplete DeletedIsGone
PROPERTY RetentionHolds
SYMMETRY Callers
