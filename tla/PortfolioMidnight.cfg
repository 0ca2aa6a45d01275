\* Bought since the last midnight: in the summary, not in the daily series.
SPECIFICATION Spec
CONSTANTS
    Symbols <- TwoSymbols
    Currency <- TwoCurrencies
    AssetType <- TwoTypes
    Home = "KRW"
    Window <- Windows
    MonthEnd <- Months
    Orders <- FiveOrders
    Quotes <- ThreeQuotes
    Rates = {1, 3}
    Instants <- ThreeTimes
    HourLength = 2
    DayLength = 4
    Span = 4
    MaxRows = 4
    MaxLate = 3
    YearOf <- Years
    CashCases <- CashInHand
    Targets <- TwoTargets
INVARIANT DailyEndsNow
CHECK_DEADLOCK FALSE
