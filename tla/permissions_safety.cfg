SPECIFICATION FairSpec
CONSTANTS
    MaxCalls = 3
    MaxRequests = 3
INVARIANTS
    HeadInFlight
    ReservedIsOwned
    OneDispatcher
    ShownIsKept
PROPERTIES
    SupersededNeverBinds
    RequestsAreServed
CHECK_DEADLOCK FALSE
