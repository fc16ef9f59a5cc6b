\* One request at a time, one role change, two markets, any number of runs of the script, one failure.
SPECIFICATION Spec
CONSTANTS
    r1 = r1
    k1 = k1
    c1 = c1
    c2 = c2
    x1 = x1
    Nothing = Nothing
    Readers = {r1}
    Keys = {k1}
    TTL <- MCTTL
    MaxLag = 0
    Copies = {c1, c2}
    Foreign = {x1}
    Seeds <- MCSeeds
    Contracts <- MCContracts
    Initially <- MCInitially
    MaxRoleChanges = 1
    MaxMarkets = 2
    MaxFaults = 1
INVARIANTS RoleStaleForAtMost SeededOnce
PROPERTIES CopyIsServed
CHECK_DEADLOCK FALSE
