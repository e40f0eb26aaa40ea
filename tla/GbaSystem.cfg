CONSTANTS
    HDraw = 2
    Line = 3
    Visible = 1
    Lines = 2
    Cost = {2}
    Quota = {3}
    NumChannels = 1
    Enables = {{"VBlank", "HBlank", "VCount"}}
    Targets = {1}
    IeWords = {{}, {"VBlank", "HBlank", "VCount", "Dma"}}
    IfWords = {{"VBlank", "HBlank", "VCount", "Dma"}}
    Transfers <- MCTransfers
    Copies <- MCCopies
    MaxCalls = 3
SPECIFICATION FairSpec
INVARIANT TypeOK
INVARIANT CatchUpExact
INVARIANT PromptInterrupt
PROPERTY WakesUp
PROPERTY ArmedDmaServed
