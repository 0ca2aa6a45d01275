\* Three callers, every cache, failing and slow loads.
SPECIFICATION Spec
CONSTANTS
    Callers = {c1, c2, c3}
    Values = {empty, listA, listB}
    Empty = empty
    Nothing = Nothing
    Failure = Failure
    TTL = 2
INVARIANTS TypeOK
PROPERTIES ImplementsSingleFlight SearchAnswered
CHECK_DEADLOCK FALSE
