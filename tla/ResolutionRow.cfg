\* Six logs (two unwound attempts and a ruling) and two replays.
SPECIFICATION Spec
CONSTANTS
    Parties = {p1, p2}
    Answers = {yes}
    Void = Void
    Null = Null
    MaxLogs = 6
    MaxReplays = 2
INVARIANTS RowIsCurrent AnnouncedIsStored
CHECK_DEADLOCK FALSE
