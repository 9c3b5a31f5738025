\* Three tabs, of which a click pauses two, and two selections of an entity.
SPECIFICATION ConsoleFairSpec
CONSTANTS
  Tabs = {"summary", "location", "policies"}
  MaxSelections = 2
  MaxCalls = 5
CONSTRAINT NothingInvoked
INVARIANTS ShownTabListens InvokesOnSelected
PROPERTY ShowsSelected
