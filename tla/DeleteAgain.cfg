SPECIFICATION Spec
CONSTANTS
  Writers = {w1}
  Deleters = {x1}
  Digests = {1}
  PutRequests <- PlainPuts
  Profiles = {"mutable"}
  Registrable = {}
  MultipartDigests = {}
  Versioned = TRUE
  ProviderLock = FALSE
  VerifyAfterWrite = TRUE
  MaxOps = 4
  MaxInFlight = 1
  MaxFaults = 0
INVARIANT DeleteReports
