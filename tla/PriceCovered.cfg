\* A first tick during a back-fill.
SPECIFICATION Spec
CONSTANTS
    Symbols = {"a", "k"}
    Kind <- TwoKinds
    Id <- IdsAK
    FirstTrade <- DayOne
    Mapped = {"a", "k"}
    Prices = {1, 2}
    Fillers = {"f"}
    LastDay = 2
    Moving = {"k"}
    Flaky = {"a"}
PROPERTY TicksKept
CHECK_DEADLOCK FALSE
