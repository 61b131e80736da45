SPECIFICATION Spec
CONSTANTS
    Ticks = {t1, t2}
    Scripts = {}
    MaxAttempts = 5
    MaxFees = 3
    Faults = {}
    MaxFaults = 0
    MaxRuns = 0
INVARIANTS
    FeesPayForFaults
CHECK_DEADLOCK FALSE
