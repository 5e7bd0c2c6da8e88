SPECIFICATION FairSpec
CONSTANTS
    NoOwner = NoOwner
    ToolCount = 2
    MaxCalls = 2
    Messages <- AllMessages
    MaxLines = 2
INVARIANTS
    TypeOK
    OnlyIdsLeak
    NoHeapFault
    ToolErrorTold
    LossEndsLoop
    EveryRequestAnswered
    InitializeGates
PROPERTIES
    KeepsPromise
    NoStepRepeats
    LineIsFinished
