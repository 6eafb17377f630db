SPECIFICATION FairSpec
CONSTANTS
    k1 = k1
    k2 = k2
    t1 = t1
    t2 = t2
    t3 = t3
    Threads = {t1, t2}
    Keys = {k1}
    LogicalOp <- MCSharedOp
    NoThread = NoThread
    NoKey = NoKey
    PersistenceEnabled = TRUE
    MaxCounter = 4
    MaxGen = 2
INVARIANT IdentityInv
PROPERTIES ImplementsCompileService CallsReturn
