CONSTANT Clients = {c1, c2}
CONSTANT MaxClient = 2
CONSTANT Timeout = 2
CONSTANT Patience = 1
CONSTANT MayCopy = {}
CONSTANT Regulars = {c2}
CONSTANT MaxPending = 1
SPECIFICATION FairSpec
PROPERTY TableDrains
PROPERTY WaitsEnd
