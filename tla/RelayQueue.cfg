\* Four submissions, one an account and window, a cap of two, two days, one fault.
SPECIFICATION FairSpec
CONSTANTS
    s1 = s1
    s2 = s2
    s3 = s3
    s4 = s4
    approval = approval
    alice = alice
    platform = platform
    trade = trade
    finalize = finalize
    Submissions = {s1, s2, s3, s4}
    Kind <- MCKind
    Request <- MCRequest
    Account <- MCAccount
    AccountLimit = 1
    DailyCap = 2
    MaxDays = 2
    MaxFaults = 1
INVARIANTS NoNonceRace ChargesAccounted ReplaysRaced WindowsEnd
PROPERTIES QueueAnswers
CHECK_DEADLOCK FALSE
