SPECIFICATION Spec
CONSTANTS
    PrgBanks = 4
    FreeBits = {0, 3}
    RomBanks = 3
    LoValues = {0, 2, 35}
    HiValues = {0, 1}
    Values = {0, 1}
    ProgramSize = 2
INVARIANTS
    TypeOK
    CartridgeBlocksFresh
    StaleOnlyBySilentChange
    Mmc1RegistersExact
