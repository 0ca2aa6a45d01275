\* What one upload at a time can show: one property at a time, the other
\* behind a comment sign.
SPECIFICATION Spec
CONSTANTS
    Book <- Books
    Start <- Money
    Windows <- Files
    Requests = {r}
    Declared <- Known
    Together <- Pairs
INVARIANT NoneSkipped
\* PROPERTY RepliesKept
