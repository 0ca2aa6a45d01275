\* Two overlapping requests, a sync or a statement each.
SPECIFICATION FairSpec
CONSTANTS
    r1 = r1
    r2 = r2
    Coins = {"BTC"}
    Events <- AccountEvents
    Opening <- Funded
    Fee = 1
    MaxEvents = 3
    Slots = {r1, r2}
    MaxServed = 2
    ManualRows <- OneManualRow
    UnitsPerWon = 2
INVARIANTS TypeOK
PROPERTIES HoldingsAsRead CashPinned ManualRowsKept RequestEnds
CHECK_DEADLOCK FALSE
