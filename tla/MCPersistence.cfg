\* The tree with a child, or one entity that changes.
SPECIFICATION Spec
CONSTANTS
  Entity = {app, e1}
  App = app
  MaxChanges = 1
  MaxRuns = 2
  MaxRestarts = 1
  Null = Null
  None = None
INVARIANTS TypeOK EveryChangeIsTracked DeletedFromDisk
PROPERTY ImplementsFileStore
CHECK_DEADLOCK FALSE
