SPECIFICATION Spec
CONSTANTS
    Users = {u1, u2}
    Handlers = {h1, h2}
    Amounts = {1}
    Services = {}
    MaxAttempts = 2
    Stored = {0, 1}
    MaxTaps = 2
INVARIANT
    TotalsNonNegative
CHECK_DEADLOCK FALSE
