SPECIFICATION Spec
CONSTANTS
  Bindings <- SizedBindings
  Failures <- Answers
  Sessions = {s1}
  MaxOpens = 1
  MaxCalls = 1
  MaxMishaps = 0
  MaxChanges = 0
INVARIANT AdvertisedIsStorable
