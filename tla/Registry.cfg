SPECIFICATION FairSpec
CONSTANTS
  Callers = {c1, c2, c3}
  Documents = {d1, d2}
  None = None
  MaxCalls = 4
  MaxFaults = 2
PROPERTIES Implements Answered
