SPECIFICATION CoordSpec
CONSTANTS
    c1 = c1
    c2 = c2
    r1 = r1
    r2 = r2
    b1 = b1
    b2 = b2
    b3 = b3
    q1 = q1
    q2 = q2
    NoClient = NoClient
    NoBody = NoBody
    NoBoot = NoBoot
    NoRequest = NoRequest
    Clients = {c1, c2}
    RequestIds = {r1, r2}
    BodyKeys = {q1, q2}
    Boots = {b1}
    WorkerOf <- MCWorkerOf
    Events = {}
    MaxDispatch = 2
    MaxBumps = 1
SYMMETRY Symmetry
CHECK_DEADLOCK FALSE
INVARIANT FramesIntact
