SPECIFICATION Spec
CONSTANTS
    Ops <- OneOp
    Commitments <- Hashes
    Keccak <- Hash
    Triggers <- Due1
    Prices = {1, 2}
    Tickers = {t1}
    MaxDeadline = 2
    MaxArms = 1
    MaxClock = 3
    MaxRevocations = 1
INVARIANT RevocationStops
