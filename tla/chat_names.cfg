CONSTANT Conns = {c1, c2}
CONSTANT MaxSize = 3
CONSTANT MaxSends = 2
CONSTANT Listeners = {}
SPECIFICATION Spec
INVARIANT OwnName
