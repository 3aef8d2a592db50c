SPECIFICATION FairSpec
CONSTANTS
    Users = {u1}
    Handlers = {h1, h2}
    Amounts = {1}
    Services = {"boost", "message", "meetup"}
    MaxAttempts = 2
    Stored = {0, 1}
    MaxTaps = 3
INVARIANTS
    DebtBounded
    PaidFor
PROPERTY
    HandlersFinish
CHECK_DEADLOCK FALSE
