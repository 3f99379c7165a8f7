CONSTANTS
    LastDay = 2
    Equity = {1, 2}
    MaxOpen = 1
    MaxTrades = 2
    LossLimit = 1
    Drawdown = 1
    MaxCandidates = 2
    MaxPositions = 3
    Result <- Losses
    MaxUnbooked = 1
    MaxLost = 1
    Hardship = {"account changes", "abort", "answer lost", "unlisted"}
SPECIFICATION Spec
INVARIANTS TypeOK LockStands DailyLimit
PROPERTIES DrawdownStops ScanOvershoot
