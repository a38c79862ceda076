CONSTANTS
    NoTask = NoTask
    Process = {"host"}
    ProcessOf <- OneProcess
    Client = {"A", "B"}
    Task = {"r1", "s"}
    ClientOf <- OtherClient
    Jobs <- Work
    Loaded = {"A"}
    MaxPair = 4
    MaxAcct = 3
    MaxCalls = 1
    MaxFaults = 0
    MaxCancels = 0
    MaxLost = 0
    Lapsing = {1}
    Outdating = {}
    Ending = {1}
    EndingAccts = {}
    AccountLapse = TRUE
SPECIFICATION Spec
PROPERTY SignInKept
CHECK_DEADLOCK FALSE
