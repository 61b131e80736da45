SPECIFICATION FairSpec
CONSTANTS
    Ticks = {t1}
    Scripts = {s1}
    MaxAttempts = 2
    MaxFees = 4
    Faults = {"lag", "error", "receipt", "crash"}
    MaxFaults = 1
    MaxRuns = 1
INVARIANTS
    ExecutedMeansConsumed
    FeesPayForFaults
    RoundIsFinal
    PersistedBeforeReturn
PROPERTIES
    NeverStepsBack
    FinishedUnlessKilled
CHECK_DEADLOCK FALSE
