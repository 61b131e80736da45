SPECIFICATION FairSpec
CONSTANTS
    Payments = {11, 12, 13}
    FeeLimit = 4
    NonceLimit = 4
    Garbage = Garbage
    Memos <- PaidAgain
    Commitment <- ItsCommitment
    Clients = {"c1"}
    Ticks = {t1}
    Limit = 2
    Faults = {"rpc", "disk", "crash"}
    MaxFaults = 1
    MaxLedger = 3
INVARIANTS IntakeTypeOK CursorPassesNothing BegunOnce
PROPERTY OwedIsTakenOn
