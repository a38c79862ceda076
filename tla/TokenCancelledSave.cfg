CONSTANTS
    NoTask = NoTask
    Process = {"host"}
    ProcessOf <- OneProcess
    Client = {"A"}
    Task = {"r1", "m"}
    ClientOf <- SameClient
    Jobs <- Work
    Loaded = {"A"}
    MaxPair = 4
    MaxAcct = 3
    MaxCalls = 1
    MaxFaults = 0
    MaxCancels = 1
    MaxLost = 0
    Lapsing = {1}
    Outdating = {}
    Ending = {}
    EndingAccts = {}
    AccountLapse = TRUE
SPECIFICATION Spec
INVARIANT RotatedPairKept
CHECK_DEADLOCK FALSE
