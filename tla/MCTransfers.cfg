SPECIFICATION Spec
CONSTANTS
    Users = {u1, u2}
    Handlers = {h1, h2}
    Amounts = {1}
    Services = {}
    MaxAttempts = 2
    Stored = {0, 1}
    MaxTaps = 3
SYMMETRY Symmetry
INVARIANTS
    TypeOK
    ReadsCurrent
PROPERTY
    LedgerSpec
CHECK_DEADLOCK FALSE
