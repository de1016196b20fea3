SPECIFICATION Spec
CONSTANTS
  Bindings <- SampleBindings
  Failures <- Answers
  Sessions = {s1}
  MaxOpens = 3
  MaxCalls = 3
  MaxMishaps = 2
  MaxChanges = 1
INVARIANTS TypeOK AdvertisedIsVerified SuccessIsVouched NothingLeftBehind OpenIsSecured MismatchIsReal
