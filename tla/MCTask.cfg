SPECIFICATION FairSpec
CONSTANTS
  Task = {t1}
  Client = {c1, c2, c3}
  MaxIncomplete = 3
  None = None
INVARIANTS HandedOverOnce TimesInOrder
PROPERTIES CancelIsFinal GetReturns
CHECK_DEADLOCK FALSE
