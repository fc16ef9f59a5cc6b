\* A client and another reader, two logs, one failed tick or lost subscription; a read is over within a tick.
SPECIFICATION Spec
CONSTANTS
    c1 = c1
    r1 = r1
    Nothing = Nothing
    Readers = {c1, r1}
    Clients = {c1}
    Keys <- MCKeys
    TTL <- MCTTL
    MaxLag = 0
    MaxWrites = 2
    MaxFaults = 1
INVARIANTS StaleOnlyIfOvertaken StaleForAtMost NoStatusMissed
CHECK_DEADLOCK FALSE
