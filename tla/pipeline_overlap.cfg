SPECIFICATION Spec
CONSTANTS
    Ticks = {t1, t2}
    Scripts = {}
    MaxAttempts = 2
    MaxFees = 2
    Faults = {"error", "receipt", "revert", "read", "disk", "crash", "rival"}
    MaxFaults = 1
    MaxRuns = 0
INVARIANTS
    TypeOK
    ExecutedMeansConsumed
    FieldsBeforeUse
SYMMETRY TickSymmetry
CHECK_DEADLOCK FALSE
