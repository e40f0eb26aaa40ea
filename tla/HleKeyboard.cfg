CONSTANTS
    Key = {k1, k2}
    None = None
    RingSize = 4
SPECIFICATION FairSpec
INVARIANT TypeOK
INVARIANT ReadReturnsKey
PROPERTY ImplementsQueue
PROPERTY WaitEnds
