SPECIFICATION AnySpec
CONSTANTS
    MaxPfn = 12
    KernelPages = 2
    MaxInfo = 3
    Types = {"kernel", "dynamic"}
    StructPages = 2
    Requests <- MCRequests
    PageSize = 4096
    CacheSizes <- MCCacheSizes
    MaxOrder = 2
    BlockSize <- MCBlockSize
    NPages = 12
    Sizes = {8, 100, 1000, 1500, 2000, 4096, 8192}
    FileSizes = {0, 4096, 8191, 8192}
    MaxLive = 3
INVARIANT CountsLive
