\* Two processes, three slots, one failed save, one crash and one corrupt record.
SPECIFICATION Spec
CONSTANTS
    t1 = t1
    t2 = t2
    u = u
    NoTask = NoTask
    Task = {t1, t2, u}
    Process = {"p", "q"}
    ProcessOf <- TwoProcesses
    RequestBudgets <- Requests
    CommandBudgets <- Commands
    Gap = 1
    Timeout = 2
    Pauses = {2}
    MaxPause = 4
    Recovery = 4
    MaxTime = 6
    MaxSlots = 1
    MaxFails = 1
    MaxCrashes = 1
    MaxDamage = 1
INVARIANTS TypeOK OneAtATime GapKept Recorded BudgetKept PauseKept
SYMMETRY Interchangeable
CHECK_DEADLOCK FALSE
