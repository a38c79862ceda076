CONSTANTS
    a = a
    b = b
    c = c
    NoOne = NoOne
    Caller <- Callers
    Ops <- Calls
    Object = {"own", "other"}
    Process = {"host", "cli"}
    StoreOf <- Stores
    HomeOf <- Homes
    Pair = {"old", "new"}
    Rest = {"rest"}
SPECIFICATION FairSpec
INVARIANTS TypeOK Inv
PROPERTIES ImplementsStore CallsReturn
