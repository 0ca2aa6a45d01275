\* What one request at a time can show: one property at a time, the others
\* behind a comment sign.
SPECIFICATION Spec
CONSTANTS
    r1 = r1
    r2 = r2
    Coins = {"BTC"}
    Events <- AccountEvents
    Opening <- Funded
    Fee = 1
    MaxEvents = 3
    Slots = {r1}
    MaxServed = 2
    ManualRows <- OneManualRow
    UnitsPerWon = 2
PROPERTY ShownAsRead
\* PROPERTY CashFailureKeepsTrades
\* INVARIANT OrderOnce
CHECK_DEADLOCK FALSE
