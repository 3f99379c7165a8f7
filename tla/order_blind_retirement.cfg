CONSTANTS
    Proc = {p1}
    Signal = {s1}
    NoSignal = NoSignal
    Live = FALSE
    MaxGrants = 1
SPECIFICATION Spec
INVARIANT RetiredOnlyIfUnsent
