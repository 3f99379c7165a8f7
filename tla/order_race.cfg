CONSTANTS
    Proc = {p1, p2}
    Signal = {s1, s2}
    NoSignal = NoSignal
    Live = TRUE
    MaxGrants = 2
SPECIFICATION Spec
SYMMETRY Interchangeable
INVARIANTS TypeOK AtMostOneSend OneSendPerGrant NoInventedTrade
PROPERTY LedgerSpec
