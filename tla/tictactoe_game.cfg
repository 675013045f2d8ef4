CONSTANT Size = 3
CONSTANT MayCrash = {}
SPECIFICATION FairSpec
INVARIANT TypeOK
INVARIANT ViewsFollowBoard
INVARIANT VerdictsOpposite
PROPERTY PlaysGame
PROPERTY BothHearVerdict
