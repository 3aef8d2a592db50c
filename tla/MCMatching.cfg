SPECIFICATION FairSpec
CONSTANT Users = {u1, u2}
CONSTANT Handlers = {h1, h2}
CONSTANT MaxTaps = 5
INVARIANT TypeOK
INVARIANT MutualLikes
INVARIANT MatchedOnlyIfBothActed
PROPERTY LikeIsTold
CHECK_DEADLOCK FALSE
