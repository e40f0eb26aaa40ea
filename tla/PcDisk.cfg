SPECIFICATION Spec
CONSTANTS
    Drives = {0, 1}
    Mounted = {0}
    Cyls = 2
    Spt = 2
    SizeCodes = {0, 2, 5}
    Seeks = {0, 2}
    Radix = 2
    RamSize = 8
INVARIANTS
    TypeOK
    EventHandedOverOnce
    ReportsNextSector
PROPERTIES
    ReadFillsWindow
    BackToIdle
