CONSTANTS
    Grid = 2
    Signals <- MCSignals
    Ticks <- MCTicks
    Specs <- MCSpecs
    Ratio <- MCRatio
    Budget = 25
    Cap = 5
    Margins = {10, 100}
    Capital = 90
    Leverage = 2
    Deviation = 1
    Hardship = {"answer lost", "placed", "cut short", "unreadable", "unlisted", "levels lost", "refused", "price moves"}
SPECIFICATION Spec
INVARIANTS TypeOK RiskBounded 
PROPERTY OtherLeftAlone
