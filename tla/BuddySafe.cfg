SPECIFICATION SafeSpec
CONSTANTS
    MaxOrder = 2
    NPages = 12
    BlockSize <- MCBlockSize
    CounterMod = 13
INVARIANT EachPageOnce
INVARIANT CountsRight
INVARIANT Coalesced
INVARIANT OrderRemembered
PROPERTY KeepsPromise
