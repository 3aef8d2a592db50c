SPECIFICATION FairSpec
CONSTANT MaxEvents = 2
INVARIANT TypeOK
INVARIANT OverIsRecorded
PROPERTY RejectionIsTold
PROPERTY KilledIsRecorded
CHECK_DEADLOCK FALSE
