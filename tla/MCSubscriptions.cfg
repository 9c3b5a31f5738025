SPECIFICATION FairSpec
CONSTANTS
  Publisher = {p1, p2}
  Subscription = {s1, s2}
  Own = {s1}
  MaxEvents = 2
  Manager = Manager
  None = None
INVARIANTS InOrder CaughtUp
PROPERTY EveryEventArrives
\* publishers may stop, and then nothing is left to do
CHECK_DEADLOCK FALSE
