\* One broker, two fills of a day that are alike.
SPECIFICATION Spec
CONSTANTS
    Book <- JustTwins
    Start <- UpbitMoney
    Windows <- UpbitFiles
    Requests = {r}
    Declared <- NoneKnown
    Together <- Upbit
INVARIANT EveryLineKept
