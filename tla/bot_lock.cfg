CONSTANTS
    Caller = {c1, c2}
    Thread = {t1, t2}
    Nobody = Nobody
    Hardship = {"store fails", "join times out", "account changes", "drawdown"}
SPECIFICATION FairSpec
INVARIANTS TypeOK AtMostOneLateOrder
PROPERTY LockEndsRunning
