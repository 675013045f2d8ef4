CONSTANT Conns = {c1, c2, c3, c4}
CONSTANT MaxSize = 4
CONSTANT MaxSends = 2
CONSTANT Listeners = {c3, c4}
SPECIFICATION FairSpec
INVARIANT TypeOK
INVARIANT TableMatches
INVARIANT HeardByAll
PROPERTY Read
