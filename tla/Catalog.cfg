\* Two or three requests over a pool of two connections.
SPECIFICATION CatalogSpec
CONSTANTS
    Callers = {"r1", "r2", "r3"}
    ByName <- Names
    Mixes <- ChosenMixes
    Pool = 2
    Values <- Lists
    Empty = {}
    Nothing = Nothing
    Failure = Failure
    TTL = 1
INVARIANTS CatalogTypeOK LedgerOfHeld
PROPERTIES RequestEnds
CHECK_DEADLOCK FALSE
