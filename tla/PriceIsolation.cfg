\* One US ticker has no source any more.
SPECIFICATION Spec
CONSTANTS
    Symbols = {"a", "b"}
    Kind <- TwoUs
    Id <- IdsAB
    FirstTrade <- DayOneUs
    Mapped = {"a", "b"}
    Prices = {1, 2}
    Fillers = {"f"}
    LastDay = 1
    Moving = {}
    Flaky = {"a"}
PROPERTY FailureIsolated
CHECK_DEADLOCK FALSE
