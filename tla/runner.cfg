SPECIFICATION LiveSpec
CONSTANTS
    Settle = 2
    FollowUpIdle = 3
    Options <- MCOptions
    MaxWrites = 2
    MaxSaves = 2
    ReadMax = 2
    Horizon = 3
INVARIANTS
    TypeOK
PROPERTIES
    CallKept
    ExecReturns
