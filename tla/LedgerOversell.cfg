\* Two SELLs of the same holding overlap.
SPECIFICATION Spec
CONSTANTS
    a1 = a1
    a2 = a2
    a3 = a3
    r1 = r1
    r2 = r2
    Assets = {a1, a2, a3}
    Declared = {a1, a2}
    Qtys = {1, 2}
    Instants = {1, 2}
    MaxRows = 3
    Requests = {r1, r2}
    Payloads <- SellPayloads
    MaxServed = 3
INVARIANTS NoNegativeHolding
CHECK_DEADLOCK FALSE
