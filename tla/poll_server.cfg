CONSTANT Conns = {c1, c2, c3}
CONSTANT MayReset = {c1}
CONSTANT MaxFds = 3
CONSTANT MaxUnread = 1
SPECIFICATION FairSpec
INVARIANT TypeOK
INVARIANT TableMatches
INVARIANT PrintedAsSent
INVARIANT ClosedWhenDone
PROPERTY Served
