SPECIFICATION RuntimeSpec
CONSTANTS
    k1 = k1
    k2 = k2
    t1 = t1
    t2 = t2
    c1 = c1
    w1 = w1
    w2 = w2
    Threads = {t1}
    Keys = {k1, k2}
    LogicalOp <- MCSharedOp
    NoThread = NoThread
    NoKey = NoKey
    PersistenceEnabled = TRUE
    MaxCounter = 4
    MaxGen = 2
    Clients = {c1}
    LeaseLimit = 1
    LeasedIds = {2}
    MaxLeases = 2
    MaxRestarts = 1
    CudaThreads = {w1, w2}
    CudaRequests <- MCCudaRequests
    Libraries <- MCLibraries
    Seeds = {0, 5, 7, 9}
    MaxBlock = 4
    MaxArtifacts = 1
    MaxModules = 1
    Base = 12
    MaxTag = 3
    MaxCount = 4
    DefaultShape = 2
    FloatBits = 8
PROPERTY IdentityIsImmutable
CHECK_DEADLOCK FALSE
