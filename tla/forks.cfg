CONSTANT Clients = {c1, c2}
CONSTANT Limits = {1, 2}
CONSTANT Questions = 2
CONSTANT Leavers = {c1}
SPECIFICATION FairSpec
INVARIANT TypeOK
INVARIANT Told
PROPERTY Reaped
PROPERTY Answered
