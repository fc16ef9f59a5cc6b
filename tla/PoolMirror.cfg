\* Four blocks, spans of two, one reorganisation, one fault, then quiet.
SPECIFICATION MirrorFairSpec
CONSTANTS
    d1 = d1
    d2 = d2
    c1 = c1
    DepositLeaves = {d1, d2}
    ChangeLeaves = {c1}
    Other = Other
    Bodies <- MCBodies
    StartBlock = 1
    Confirmations = 1
    BatchBlocks = 2
    MaxHead = 4
    MaxReorgs = 1
    MaxTickFaults = 1
INVARIANTS MirrorIsExact ServedIsPrefix
PROPERTIES TreesAppend CatchesUp
CHECK_DEADLOCK FALSE
