\* One broker whose account starts empty, one upload at a time.
SPECIFICATION Spec
CONSTANTS
    Book <- JustToss
    Start <- TossMoney
    Windows <- TossFiles
    Requests = {r}
    Declared <- NoneKnown
    Together <- Alone
INVARIANT OneOpening
