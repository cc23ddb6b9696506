SPECIFICATION LiveSpec
CONSTANTS
    a1 = a1
    a2 = a2
    None = None
    Addresses <- MCAddresses
    MaxRuns = 1
    FrameLimit = 2
    EventLimit = 1
    CleanupTicks = 3
    MaxCreated = 2
INVARIANTS
    OnlyOwnStateIsDestroyed
    TablesAreSound
PROPERTIES
    SettledIsFinal
    StatesAreReleased
CHECK_DEADLOCK FALSE
