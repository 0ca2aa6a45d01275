\* Histories of a dollar stock and a coin.
SPECIFICATION Spec
CONSTANTS
    Symbols <- TwoSymbols
    Currency <- TwoCurrencies
    AssetType <- TwoTypes
    Home = "KRW"
    Window <- Windows
    MonthEnd <- Months
    Orders <- FiveOrders
    Quotes <- ThreeQuotes
    Rates = {1, 3}
    Instants <- ThreeTimes
    HourLength = 2
    DayLength = 4
    Span = 4
    MaxRows = 4
    MaxLate = 3
    YearOf <- Years
    CashCases <- CashInHand
    Targets <- TwoTargets
INVARIANTS TypeOK CostConserved TaxBasisExhausted ChartIsPointwise ReadersAgree TwrIgnoresFlows MwrBalances SplitAgrees RebalanceReachesTarget RiskAndMonths
CHECK_DEADLOCK FALSE
