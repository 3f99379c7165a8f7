CONSTANTS
    Proc = {p1}
    Signal = {s1, s2}
    NoSignal = NoSignal
    Live = FALSE
    MaxGrants = 1
SPECIFICATION FairSpec
INVARIANTS SignalReflectsOutcome OwnRefusalsUnsent
PROPERTIES OnlyOpenSignalsSent PendingResolved
