SPECIFICATION Spec
CONSTANTS
    Users = {u1, u2, u3}
    Calls = {c1, c2}
    NoCall = NoCall
    MaxEvents = 6
SYMMETRY Symmetry
INVARIANTS
    TypeOK
    RingIsLive
    OngoingIsOnScreen
    RingsUntilSettled
CHECK_DEADLOCK FALSE
