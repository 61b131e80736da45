SPECIFICATION FairSpec
CONSTANTS
    Ops <- TwoOps
    Commitments <- Hashes
    Keccak <- Hash
    Triggers <- Rises
    Prices = {1, 2}
    Tickers = {t1, t2}
    MaxDeadline = 1
    MaxArms = 2
    MaxClock = 3
    MaxRevocations = 1
INVARIANTS LatchTypeOK OpenOnlyIfMet ReleasedMatchesCommitment
PROPERTIES PassSettles ImplementsEscrow NothingStaysArmed
