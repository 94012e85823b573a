SPECIFICATION Spec
CONSTANTS
    c1 = c1
    c2 = c2
    Carrier = {c1, c2}
    First = c1
    Plans <- SafetyPlans
    NetMax = 1
    None = None
CHECK_DEADLOCK FALSE
INVARIANTS CleanEnd RemoteHasCause
PROPERTIES NoRedial
