CONSTANTS
    NumKeys = 4
    FifoCap = 2
    MaxTicks = 1
SPECIFICATION FairSpec
INVARIANT TypeOK
INVARIANT KeysInOrder
INVARIANT OnlyThePulseRaces
PROPERTY EveryKeyServed
