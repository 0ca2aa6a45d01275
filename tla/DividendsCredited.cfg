\* One broker and the dividend job.
SPECIFICATION Spec
CONSTANTS
    Book <- JustToss
    Start <- TossMoney
    Windows <- TossFiles
    Requests = {r}
    Declared <- Known
    Together <- Alone
INVARIANT DividendsCredited
