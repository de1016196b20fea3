SPECIFICATION ReadSpec
CONSTANTS
  Writers = {w1}
  Deleters = {x1}
  Readers = {r1}
  Digests = {1, 2, 3}
  PutRequests <- PlainPuts
  Profiles = {"mutable"}
  Registrable = {}
  MultipartDigests = {1}
  Versioned = FALSE
  ProviderLock = FALSE
  VerifyAfterWrite = TRUE
  MaxOps = 6
  MaxInFlight = 1
  MaxFaults = 0
  MaxReads = 1
INVARIANTS LatestResolves LatestIsNewest ExactIsFound ReadIsFresh
PROPERTIES KeepsHistory
