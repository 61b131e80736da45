SPECIFICATION Spec
CONSTANTS
    Ops <- OneOp
    Commitments <- Hashes
    Keccak <- Hash
    Triggers <- Falls
    Prices = {1, 2}
    Tickers = {t1, t2}
    MaxDeadline = 1
    MaxArms = 1
    MaxClock = 3
    MaxRevocations = 0
PROPERTY ExpiredNeverFires
