\* Three proposals, the oldest stuck, two a pass, one fault; minutes 0 to 2.
SPECIFICATION KeeperFairSpec
CONSTANTS
    p1 = p1
    p2 = p2
    p3 = p3
    Proposals = {p1, p2, p3}
    Deadline <- MCDeadline
    Stuck = {p1}
    Doomed = {}
    Batch = 2
    Cooldown = 1
    BaseBackoff = 1
    MaxBackoff = 2
    Horizon = 3
    MaxKeeperFaults = 1
PROPERTIES AttemptsSpaced EventuallySettled
CHECK_DEADLOCK FALSE
