SPECIFICATION DistributedSpec
CONSTANTS
    Mantissa = 6
    Int64Limit = 128
    PrintedDigits = 1
    MaxNumber = 249
    CudaAvailable = FALSE
    AllowCuda = TRUE
    Environment <- MCEnvironment
    Base = 12
    MaxTag = 3
    MaxCount = 4
    DefaultShape = 2
    FloatBits = 2
    Requests <- MCRequests
    MaxRestarts = 1
    Written <- MCWritten
    Noise <- MCNoise
    MaxDamage = 2
    c1 = c1
    c2 = c2
    r1 = r1
    r2 = r2
    b1 = b1
    b2 = b2
    b3 = b3
    q1 = q1
    q2 = q2
    NoClient = NoClient
    NoBody = NoBody
    NoBoot = NoBoot
    NoRequest = NoRequest
    Clients = {c1}
    RequestIds = {r1, r2}
    BodyKeys = {q1, q2}
    Boots = {b1, b3}
    WorkerOf <- MCWorkerOf
    Events = {"invalidate"}
    MaxDispatch = 4
    MaxBumps = 1
INVARIANTS AnswerComputesSource ReuseNeedsEqualMembers CacheKeepsDescriptors KeyIsOfWhatIsCompiled
    DecodingIsExact MetadataIsWhatWasWritten
PROPERTY LoneClientAnswered
CHECK_DEADLOCK FALSE
