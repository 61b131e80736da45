SPECIFICATION Spec
CONSTANTS
    Ticks = {t1}
    Scripts = {}
    MaxAttempts = 5
    MaxFees = 1
    Faults = {"lag", "error"}
    MaxFaults = 6
    MaxRuns = 0
INVARIANTS
    GivesUpAfterFiveErrors
CHECK_DEADLOCK FALSE
