SPECIFICATION FairSpec
CONSTANTS
    c1 = c1
    c2 = c2
    c3 = c3
    Carrier = {c1, c2, c3}
    Plans <- MCPlans
    Key = {1, 2}
    HsMax = 2
    MaxSessions = 1
    Backlog = 1
    MaxCarriers = 2
    SlMax = 1
    None = None
CHECK_DEADLOCK FALSE
INVARIANTS SlotsExact CloseMissesNone
PROPERTIES OpenIsOnce Answered
