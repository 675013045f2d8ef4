CONSTANT Size = 3
CONSTANT MayCrash = {1, 2}
SPECIFICATION CrashSpec
CONSTRAINT NotTheThirdMark
INVARIANT OneMover
INVARIANT NoSilentEnd
INVARIANT SafetyInv
PROPERTY NoOverwrite
PROPERTY SurvivorReleased
