CONSTANTS
  h1 = h1
  m1 = m1
  v = v
  o1 = o1
  a = a
  b = b
  NoHook = NoHook
  NoMethod = NoMethod
  Hooks <- MCOneHook
  Methods <- MCMethods
  Phases <- MCPhases
  Callers <- MCCallers
  SlotCount = 1
  ArchiveSize = 1
  MaxEvents = 2
  Ttl = 1
  Lease = 1
  Values <- MCOneValue
  Objects <- MCObjects
  RandomFails = TRUE
  MaxRestarts = 1
  MaxFaults = 1
SPECIFICATION LiveSpec
INVARIANTS HostShowsCaptures
PROPERTIES SessionCatchesUp HooksExpire
CHECK_DEADLOCK FALSE
