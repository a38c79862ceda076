\* Three slots of two processes, one failure and one crash: every slot ends.
SPECIFICATION FairSpec
CONSTANTS
    t1 = t1
    t2 = t2
    u = u
    NoTask = NoTask
    Task = {t1, t2, u}
    Process = {"p", "q"}
    ProcessOf <- TwoProcesses
    RequestBudgets <- Requests
    CommandBudgets <- Commands
    Gap = 1
    Timeout = 2
    Pauses = {2}
    MaxPause = 4
    Recovery = 4
    MaxTime = 4
    MaxSlots = 1
    MaxFails = 1
    MaxCrashes = 1
    MaxDamage = 0
PROPERTY SlotsEnd
CHECK_DEADLOCK FALSE
