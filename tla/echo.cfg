CONSTANT c1 = c1
CONSTANT c2 = c2
CONSTANT Clients <- MCClients
CONSTANT Lines <- MCLines
CONSTANT Size = 6
SPECIFICATION FairSpec
INVARIANT TypeOK
INVARIANT TableSound
INVARIANT CompleteEcho
INVARIANT DiesOfKilled
PROPERTY InputEndsClient
