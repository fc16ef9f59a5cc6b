\* A chain of five blocks read from block 2 on, one reorganisation, two failures, then quiet;
\* 6 \div 3 = 2 ranges of one block a tick.
SPECIFICATION FairSpec
CONSTANTS
    m1 = m1
    m2 = m2
    Markets = {m1, m2}
    BlockBodies <- MCBodies
    StartBlock = 2
    Confirmations = 1
    BatchBlocks = 1
    MaxLogRequests = 6
    Streams = 3
    MaxHead = 5
    MaxReorgs = 1
    MaxFaults = 2
INVARIANTS TypeOK CursorSound PrefixApplied AppliedCanonical NothingDropped PricesFollowTrades
PROPERTIES CatchesUp
CHECK_DEADLOCK FALSE
