SPECIFICATION Spec
CONSTANTS
    MaxOrder = 2
    NPages = 4
    BlockSize <- MCBlockSize
    CounterMod = 5
INVARIANT ListedRunsFree
