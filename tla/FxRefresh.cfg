\* Three currencies; two failures of any kind, one move of the market.
SPECIFICATION Spec
CONSTANTS
    Bases <- Supported
    MaxMoves = 1
    MaxFaults = 2
INVARIANTS TypeOK RateIsNewestSnapshot
PROPERTIES EventuallyRated
CHECK_DEADLOCK FALSE
