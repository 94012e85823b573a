SPECIFICATION MCSpec
CONSTANTS
    Factory = {f1, f2}
    Inst = {i1, i2}
    None = None
    MaxAttempts = 1
    MaxRunning = 2
    Plans <- MCPlans
    Shapes <- MCShapes
    GuardPlans <- MCGuardPlans
    HealthPlans <- MCHealthPlans
    MaxRuns = 2
CHECK_DEADLOCK FALSE
INVARIANTS NoOrphan DialAgrees WithdrawalFollows  ProbingExact
