SPECIFICATION FairSpec
CONSTANTS
    Users = {u1, u2}
    Calls = {c1, c2}
    NoCall = NoCall
    MaxEvents = 5
PROPERTY
    HangUpSilences
CHECK_DEADLOCK FALSE
