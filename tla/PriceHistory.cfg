\* The job, a back-fill, stops and starts.
SPECIFICATION Spec
CONSTANTS
    Symbols = {"a", "k"}
    Kind <- TwoKinds
    Id <- IdsAK
    FirstTrade <- DayOne
    Mapped = {"a", "k"}
    Prices = {1, 2}
    Fillers = {"f"}
    LastDay = 2
    Moving = {"k"}
    Flaky = {"a"}
INVARIANTS TypeOK CacheIsNewestTick
PROPERTIES FillCovers EventuallyShown
CHECK_DEADLOCK FALSE
