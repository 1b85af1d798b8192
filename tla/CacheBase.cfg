SPECIFICATION Spec
CONSTANTS
    Size = 2
    Sectors = {0, 1, 2}
    Base = 1
    Values = {zero, one}
    Zero = zero
    NoBlock = none
    Faults = FALSE
PROPERTY NewBlockIsCached
