SPECIFICATION FairSpec
CONSTANTS
    Ticks = {t1}
    Scripts = {}
    MaxAttempts = 5
    MaxFees = 2
    Faults = {"crash"}
    MaxFaults = 1
    MaxRuns = 0
PROPERTIES
    TakenOnIsFinished
CHECK_DEADLOCK FALSE
