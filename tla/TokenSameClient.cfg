CONSTANTS
    NoTask = NoTask
    Process = {"host"}
    ProcessOf <- OneProcess
    Client = {"A"}
    Task = {"r1", "s"}
    ClientOf <- SameClient
    Jobs <- Work
    Loaded = {"A"}
    MaxPair = 3
    MaxAcct = 3
    MaxCalls = 1
    MaxFaults = 0
    MaxCancels = 0
    MaxLost = 0
    Lapsing = {1}
    Outdating = {}
    Ending = {}
    EndingAccts = {}
    AccountLapse = FALSE
SPECIFICATION Spec
PROPERTY SignInKept
CHECK_DEADLOCK FALSE
