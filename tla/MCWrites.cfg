SPECIFICATION FairSpec
CONSTANTS
    Users = {u1, u2}
    FirstUser = u1
    MaxPending = 3
    MaxWrites = 4
    MaxEvents = 2
INVARIANTS
    TypeOK
    NothingLost
    OutcomeTold
    Asserts
PROPERTIES
    AppliedInOrder
    Drains
CHECK_DEADLOCK FALSE
