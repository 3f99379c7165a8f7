CONSTANTS
    Symbol <- Pairs
    KnownCurrency <- Codes
    Currency <- Euro
    Unknown = "unknown"
    Schedule <- Releases
    Standing <- Surveys
    Opaque <- Surveys
    Skew <- Errors
    Window = 2
    FailClosed = TRUE
    Never = Never
    Refresh = 1
    MaxAge = 1
    Tolerance = 1
    ReadEvery = 2
    RetryEvery = 1
    Hardship = {"history fails", "no description", "no country", "file lost", "file spoiled", "store fails"}
    MaxCycle = 1
    Horizon = 5
SPECIFICATION Spec
INVARIANTS TypeOK ClearedIsSafe RecoversPromptly
PROPERTY KeepsPromise
