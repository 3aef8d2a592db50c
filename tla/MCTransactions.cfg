SPECIFICATION FairSpec
CONSTANT Docs = {d1, d2}
CONSTANT Runners = {r1}
CONSTANT MaxAttempts = 2
CONSTANT MaxOps = 2
CONSTANT MaxClock = 3
INVARIANT TypeOK
INVARIANT OutcomeKnown
PROPERTY ReadsHold
PROPERTY Terminates
CHECK_DEADLOCK FALSE
