\* One request at a time.
SPECIFICATION Spec
CONSTANTS
    a1 = a1
    a2 = a2
    a3 = a3
    r1 = r1
    r2 = r2
    Assets = {a1, a2, a3}
    Declared = {a1, a2}
    Qtys = {1, 2}
    Instants = {1, 2, 3}
    MaxRows = 3
    Requests = {r1}
    Payloads <- SerialPayloads
    MaxServed = 4
PROPERTIES OnlyRemoveOversells ImportLeavesFeasible ImplementsSerial
CHECK_DEADLOCK FALSE
