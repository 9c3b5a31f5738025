SPECIFICATION FairSpec
CONSTANTS
  Thread = {t1, t2, t3}
  Object = {o1, o2, o3}
  MaxLeases = 4
  MaxThrows = 1
  None = None
INVARIANT OnePlace
PROPERTIES EverythingCloses ImplementsLifecycle
\* clients may stop leasing, and then nothing is left to do
CHECK_DEADLOCK FALSE
