SPECIFICATION WriterFairSpec
CONSTANTS
  Client = {c1, c2}
  Execution = {e1, e2}
  MaxWrites = 2
  MaxFailures = 1
INVARIANTS OneTaskAtATime NewestSurvives
PROPERTIES NeverOlder ImplementsFileStore WriteIsPickedUp DeleteIsCarriedOut
\* clients may stop calling
CHECK_DEADLOCK FALSE
