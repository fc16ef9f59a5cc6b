\* Every wiring of both forwarders, and more failed reads than either check retries.
SPECIFICATION BootFairSpec
CONSTANTS
    p1 = p1
    p2 = p2
    Null = Null
    Selectors = 2
    Retries = 1
    Pollers = {p1, p2}
    Balances = {"low", "enough"}
    TTL = 2
    MaxLag = 1
    MaxFailures = 3
INVARIANTS BootDecides
PROPERTIES GaugeIsCheapAndRecent BootEndsAndPollsAreAnswered
