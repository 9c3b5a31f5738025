\* A thread of clients and a run of a policy, three nodes, two calls, one trouble.
SPECIFICATION TrackedSpec
CONSTANTS
  Nodes = {n1, n2, n3}
  Threads = {client, scaler}
  Scaler = scaler
  NoThread = NoThread
  NoNode = NoNode
  InitialSize = 1
  MaxSize = 2
  MaxCalls = 2
  MaxTroubles = 1
  MaxResumes = 2
  MaxEvents = 2
SYMMETRY Symmetry
INVARIANTS NoNodeAstray TrackerCatchesUp
PROPERTY SizeIsTarget
CHECK_DEADLOCK FALSE
