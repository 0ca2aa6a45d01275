\* One broker: an exchange is cancelled and its won are booked as money in.
SPECIFICATION Spec
CONSTANTS
    Book <- JustCancel
    Start <- SomeMoney
    Windows <- CancelFiles
    Requests = {r}
    Declared <- NoneKnown
    Together <- Alone
INVARIANT OneOpening
