CONSTANTS
    NoTask = NoTask
    Process = {"host"}
    ProcessOf <- OneProcess
    Client = {"A"}
    Task = {"r1", "m"}
    ClientOf <- SameClient
    Jobs <- Mixed
    Loaded = {"A"}
    MaxPair = 3
    MaxAcct = 3
    MaxCalls = 2
    MaxFaults = 1
    MaxCancels = 1
    MaxLost = 1
    Lapsing = {1}
    Outdating = {1}
    Ending = {}
    EndingAccts = {1}
    AccountLapse = TRUE
SPECIFICATION FairSpec
INVARIANTS GateHeld ChangingHeld AccountTokenKept SpentOnce
PROPERTIES DeadSendsNothing CallsEnd
CHECK_DEADLOCK FALSE
