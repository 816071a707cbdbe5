SPECIFICATION StopSpec
CONSTANTS
    Fn = {"stopProxy", "stopControl", "closeAudit", "writeHAR", "closeLog", "removeCA", "report"}
    NoFn = "none"
    Main = main
    Caller = {main, second}
    ControlCall = {k1}
    PlainRequest = {p1}
    TunnelRequest = {t1}
CHECK_DEADLOCK FALSE
INVARIANTS
    StopInv
    ServedKept
    CleanStopCutsNobody
PROPERTIES
    ShutdownReturns
