\* Three withdrawals, three deposits, a history of two roots; any update given up on or never mined, one refusal.
SPECIFICATION FairSpec
CONSTANTS
    w1 = w1
    w2 = w2
    w3 = w3
    Withdrawals = {w1, w2, w3}
    AspDepth = 2
    MaxDeposits = 3
    MaxFaults = 1
INVARIANTS PairIsAtomic OnlyOwnRoots
PROPERTIES EveryoneAnswered
CHECK_DEADLOCK FALSE
