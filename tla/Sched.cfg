SPECIFICATION Spec
CONSTANTS
    NSlots = 4
    MaxCreates = 3
INVARIANT RunsOn
INVARIANT BoundedWait
INVARIANT FreshIsWhole
INVARIANT OnlyClockMixes
PROPERTY SwitchKeepsRegisters
PROPERTY EveryoneRuns
