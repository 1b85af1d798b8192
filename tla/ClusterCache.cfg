SPECIFICATION Spec
CONSTANTS
    Size = 2
    Sectors = {0, 1, 2}
    Base = 0
    Values = {zero, one}
    Zero = zero
    NoBlock = none
    Faults = TRUE
INVARIANTS Coherent NothingLost
PROPERTY SparesUseful
