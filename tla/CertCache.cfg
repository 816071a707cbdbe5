SPECIFICATION FairSpec
CONSTANTS
    Caller = {c1, c2, c3, c4}
    Spelling = {"api.x", "API.x:443", "other.x"}
    Host = {"api.x", "other.x"}
    Normalize <- MCNormalize
    c1 = c1
    c2 = c2
    c3 = c3
    c4 = c4
    Asks <- MCAsks
    NoCaller = NoCaller
    NoCert = NoCert
    Failed = Failed
    Pending = Pending
INVARIANTS
    SingleFlight
    WaiterHasWaker
PROPERTIES
    EveryCallReturns
    MemoImplemented
