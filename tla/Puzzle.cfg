SPECIFICATION FairSpec
CONSTANTS
    t1 = t1
    t2 = t2
    Tabs <- TwoTabs
    MaxPresses = 2
    MaxPuzzles = 2
    MaxNotices = 2
    MaxPolls = 1
    MaxFaults = 1
INVARIANTS TypeOK SmsOnce RejectedNotReused SlideFits
PROPERTIES ButtonReturns
CHECK_DEADLOCK FALSE
