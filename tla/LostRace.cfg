SPECIFICATION Spec
CONSTANTS
  Writers = {w1}
  Deleters = {x1}
  Digests = {1, 2}
  PutRequests <- RacingPuts
  Profiles = {"mutable"}
  Registrable = {}
  MultipartDigests = {}
  Versioned = TRUE
  ProviderLock = FALSE
  VerifyAfterWrite = TRUE
  MaxOps = 5
  MaxInFlight = 1
  MaxFaults = 0
PROPERTY LostRaceHasRival
