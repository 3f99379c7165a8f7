CONSTANTS
    Proc = {p1, p2}
    Thread = {t1}
    Nobody = Nobody
    TTL = 3
    MaxPeriod = 1
    Hardship = {}
SPECIFICATION FairSpec
INVARIANT TypeOK
PROPERTIES StaleMeansCrashed LeaseRecovered
