SPECIFICATION Spec
CONSTANTS
    Visible = 1
    PreRender = 4
    Dots = 7
    TileDots = {2}
    Costs = {1, 3}
    NmiCost = 1
    DmaStall = 2
    MaxStall = 4
INVARIANTS
    FrameShape
    BlankAnnouncedOnce
    NmiPerBlank
    PollerMissesNothing
PROPERTIES
    PollingEnds
