\* Two requests at a time over two wallets: two nonces, three sessions, two registrations.
SPECIFICATION Spec
CONSTANTS
    r1 = r1
    r2 = r2
    w1 = w1
    w2 = w2
    a1 = a1
    a2 = a2
    None = None
    Requests = {r1, r2}
    Wallets = {w1, w2}
    Addresses = {a1, a2}
    MaxNonces = 2
    MaxSessions = 3
    MaxExpiries = 1
    MaxRequests = 6
SYMMETRY Symmetry
INVARIANTS OneHeir EndedStaysEnded OneReaderPerAddress
PROPERTIES NonceSpentOnce RebindsOnlyRaced
CHECK_DEADLOCK FALSE
