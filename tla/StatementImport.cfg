\* Four brokers, two uploads at a time, the dividend job.
SPECIFICATION Spec
CONSTANTS
    Book <- Books
    Start <- Money
    Windows <- Files
    Requests = {r, q}
    Declared <- Known
    Together <- Pairs
SYMMETRY Uploads
INVARIANTS TypeOK CashMatchesBroker SharesMatchBroker NothingLost RetrySucceeds
