CONSTANTS
    NoTask = NoTask
    Process = {"host"}
    ProcessOf <- OneProcess
    Client = {"A", "B"}
    Task = {"r1", "r2", "s"}
    ClientOf <- OtherClient
    Jobs <- Work
    Loaded = {"A"}
    MaxPair = 4
    MaxAcct = 3
    MaxCalls = 2
    MaxFaults = 0
    MaxCancels = 0
    MaxLost = 0
    Lapsing = {1}
    Outdating = {}
    Ending = {1}
    EndingAccts = {1}
    AccountLapse = FALSE
SPECIFICATION Spec
INVARIANTS TypeOK SavedBeforeUse RotatedPairKept
PROPERTY SignInKept
CHECK_DEADLOCK FALSE
