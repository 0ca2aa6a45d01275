\* Two overlapping requests of every kind on one asset.
SPECIFICATION FairSpec
CONSTANTS
    a1 = a1
    a2 = a2
    a3 = a3
    r1 = r1
    r2 = r2
    Assets = {a1}
    Declared = {a1}
    Qtys = {1, 2}
    Instants = {1, 2}
    MaxRows = 3
    Requests = {r1, r2}
    Payloads <- ConcurrentPayloads
    MaxServed = 3
INVARIANTS TypeOK
PROPERTIES DeletedStaysDeleted OverlapFreeIsSerial RequestEnds
CHECK_DEADLOCK FALSE
