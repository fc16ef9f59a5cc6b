\* A replayed Bought lands its increments twice.
SPECIFICATION Spec
CONSTANTS
    m1 = m1
    m2 = m2
    Markets = {m1}
    BlockBodies <- MCOneTrade
    StartBlock = 1
    Confirmations = 1
    BatchBlocks = 1
    MaxLogRequests = 14
    Streams = 3
    MaxHead = 4
    MaxReorgs = 1
    MaxFaults = 2
INVARIANTS NeverDoubled
CHECK_DEADLOCK FALSE
