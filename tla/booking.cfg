CONSTANTS
    Positions = 2
    Rows = 2
    Horizon = 3
    LastDay = 2
    Date <- Dates
    Lookback = 1
    MatchWindow = 1
    Volume = 2
    Commission = 1
    Profit <- Profits
    ByHand = {2}
    Hardship = {"crash", "row missing"}
SPECIFICATION Spec
INVARIANTS TypeOK Balanced OncePerPosition BooksAgree
PROPERTIES Idempotent
