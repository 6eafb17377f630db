SPECIFICATION WireSpec
CONSTANTS
    Mantissa = 6
    Int64Limit = 128
    PrintedDigits = 1
    MaxNumber = 249
    CudaAvailable = FALSE
    AllowCuda = TRUE
    Environment <- MCEnvironment
    Base = 12
    MaxTag = 3
    MaxCount = 4
    DefaultShape = 2
    FloatBits = 2
    Requests <- MCDatatypeRequests
    MaxRestarts = 1
    Written <- MCWritten
    Noise <- MCNoise
    MaxDamage = 2
INVARIANT DistinctSpecializations
CHECK_DEADLOCK FALSE
