CONSTANT Clients = {c1, c2, c3}
CONSTANT MaxClient = 2
CONSTANT Timeout = 1
CONSTANT Patience = 1
CONSTANT MayCopy = {c1}
CONSTANT Regulars = {c1}
CONSTANT MaxPending = 1
SPECIFICATION Spec
INVARIANT TypeOK
INVARIANT TableSound
INVARIANT PromptGoodbye
PROPERTY KeepsSessions
