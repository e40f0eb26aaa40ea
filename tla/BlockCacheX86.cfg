CONSTANTS
    MemSize = 6
    AddressSpace = 4
    PageSize = 1
    Capacity = 3
    MaxCount = 9
    Byte = {0, 1}
    Shape <- LinearShapes
SPECIFICATION Spec
INVARIANT EveryBlockCurrent
