CONSTANTS
    MemSize = 5
    AddressSpace = 4
    PageSize = 2
    Capacity = 3
    MaxCount = 3
    Byte = {0, 1}
    Shape <- OverlappingShapes
SPECIFICATION RSpec
INVARIANT TypeOK
INVARIANT LruMatchesMap
INVARIANT CoverageExact
INVARIANT Coherent
PROPERTY EvictsLeastRecentlyUsed
