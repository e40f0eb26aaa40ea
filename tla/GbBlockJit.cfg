SPECIFICATION JitSpec
CONSTANTS
    ProgSize = 4
    Cap = 4
    Vector = 2
    Follow = TRUE
    MaxBlocks = 6
INVARIANT EnginesAgree
CHECK_DEADLOCK FALSE
