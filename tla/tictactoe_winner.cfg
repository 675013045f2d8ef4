CONSTANT Size = 3
CONSTANT MayCrash = {}
SPECIFICATION Spec
INVARIANT WinnerOwnsLine
