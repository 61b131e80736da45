SPECIFICATION Spec
CONSTANTS
    FeeLimit = 4
    NonceLimit = 4
    Garbage = Garbage
    Accounts = {"alice", "bob"}
    s1 = s1
    s2 = s2
    s3 = s3
    Sessions = {s1, s2, s3}
    Casts <- Believers
    OwnFees = {0, 5}
    Raises = 1
    Schedules <- Rises
    Pins = {"0x0", "rival"}
    NewNonces = {2, 4}
INVARIANT ToldIsTrue
CHECK_DEADLOCK FALSE
