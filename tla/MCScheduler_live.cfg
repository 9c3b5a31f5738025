SPECIFICATION FairSpec
CONSTANTS
  Job = {j1, j2}
  None = None
PROPERTIES EveryJobSettles GetReturns
CHECK_DEADLOCK FALSE
