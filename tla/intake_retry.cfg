SPECIFICATION FairSpec
CONSTANTS
    Payments = {11, 12}
    FeeLimit = 4
    NonceLimit = 4
    Garbage = Garbage
    Memos <- TwoUsers
    Commitment <- TheirCommitments
    Clients = {"c1", "c2"}
    Ticks = {t1}
    Limit = 2
    Faults = {"disk"}
    MaxFaults = 1
    MaxLedger = 2
PROPERTY ErrorsAreRetried
