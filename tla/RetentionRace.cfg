SPECIFICATION Spec
CONSTANTS
  Writers = {w1}
  Deleters = {x1, x2}
  Digests = {1}
  PutRequests <- RetainedPuts
  Profiles = {"mutable"}
  Registrable = {}
  MultipartDigests = {}
  Versioned = TRUE
  ProviderLock = FALSE
  VerifyAfterWrite = TRUE
  MaxOps = 4
  MaxInFlight = 2
  MaxFaults = 0
PROPERTY RetentionHolds
