CONSTANTS
  h1 = h1
  h2 = h2
  h3 = h3
  m1 = m1
  m2 = m2
  v = v
  NoHook = NoHook
  NoMethod = NoMethod
  Hooks <- MCHooks
  Methods <- MCMethods
  Phases <- MCPhases
  SlotCount = 2
  ArchiveSize = 1
  MaxEvents = 1
  Ttl = 1
  Values <- MCValues
  Objects <- MCNone
  RandomFails = TRUE
  MaxRestarts = 1
SPECIFICATION ManagerSpec
INVARIANTS EventsAreOfTheMethod
 
CHECK_DEADLOCK FALSE
SYMMETRY MCSymmetry
