CONSTANTS
    NoTask = NoTask
    Process = {"host"}
    ProcessOf <- OneProcess
    Client = {"A", "B"}
    Task = {"r1", "r2"}
    ClientOf <- OnePerClient
    Jobs <- Reads
    Loaded = {"A", "B"}
    MaxPair = 4
    MaxAcct = 3
    MaxCalls = 1
    MaxFaults = 0
    MaxCancels = 0
    MaxLost = 0
    Lapsing = {1, 2}
    Outdating = {}
    Ending = {}
    EndingAccts = {}
    AccountLapse = FALSE
SPECIFICATION Spec
INVARIANT NeverSpentTwice
CHECK_DEADLOCK FALSE
