SPECIFICATION Spec
CONSTANTS
    Day = 4
    Week = 2
    Offset = 1
    Asked <- SomeAsked
    AppWindows <- SomeAppWindows
    Start = 24
    MaxTime = 36
    MaxOrders = 2
    MaxApp = 2
INVARIANTS TypeOK NextOccurrence StartsInTime ResumeFaithful ClocksAgree
CHECK_DEADLOCK FALSE
