SPECIFICATION LiveSpec
CONSTANTS
    i1 = i1
    i2 = i2
    p1 = p1
    d1 = d1
    d2 = d2
    d3 = d3
    None = None
    Importers <- MCImporters
    Paths <- MCPaths
    Dumps <- MCDumps
    Content <- MCContent
    MaxImports = 3
    MaxRewrites = 1
INVARIANTS
    StoreIsSound
PROPERTIES
    CompleteIsKept
    ActiveIsKept
    
CHECK_DEADLOCK FALSE
