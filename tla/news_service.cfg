CONSTANTS
    Symbol <- Pairs
    KnownCurrency <- Codes
    Currency <- Codes
    Blank = "blank"
    Country <- Countries
    CountryCurrency <- Euro
    Schedule <- Releases
    Settings <- Every
    Window = 2
    FailClosed = TRUE
    Never = Never
    RefreshEvery = 2
    RetryEvery = 1
    MaxAge = 2
    Hardship = {"no key", "no answer", "store fails"}
    MaxCycle = 1
    Horizon = 6
SPECIFICATION Spec
INVARIANTS TypeOK ClearedIsSafe
PROPERTY KeepsPromise
