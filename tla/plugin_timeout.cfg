SPECIFICATION FairSpec
CONSTANT MaxLines = 2
PROPERTY EveryCallReturns
CHECK_DEADLOCK FALSE
