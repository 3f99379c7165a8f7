CONSTANTS
    Proc = {p1}
    Thread = {t1, t2}
    Nobody = Nobody
    TTL = 1
    MaxPeriod = 1
    Hardship = {"store fails", "join times out", "calls overlap"}
SPECIFICATION FairSpec
INVARIANT OneCyclePerProcess
PROPERTY LeaseRecovered
