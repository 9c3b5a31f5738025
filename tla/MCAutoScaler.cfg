SPECIFICATION FairSpec
CONSTANTS
  MinPoolSize = 1
  MaxPoolSize = 3
  LowerBound = 2
  UpperBound = 4
  UpDelay = 1
  DownDelay = 2
  Work = {3, 11}
  MaxChanges = 1
  MaxSuspends = 1
  MaxFailures = 1
  MaxValues = 2
INVARIANT TypeOK
PROPERTIES ResizeIsSustained SizeFitsWork LastDesireIsServed
