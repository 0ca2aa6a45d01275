\* A trade in dollars on a day that has no rate.
SPECIFICATION Spec
CONSTANTS
    Symbols <- TwoSymbols
    Currency <- TwoCurrencies
    AssetType <- TwoTypes
    Home = "KRW"
    Window <- Windows
    MonthEnd <- Months
    Orders <- FiveOrders
    Quotes <- ThreeQuotes
    Rates = {1, 3}
    Instants <- ThreeTimes
    HourLength = 2
    DayLength = 4
    Span = 4
    MaxRows = 4
    MaxLate = 3
    YearOf <- Years
    CashCases <- CashInHand
    Targets <- TwoTargets
INVARIANT PerformanceAnswers
CHECK_DEADLOCK FALSE
