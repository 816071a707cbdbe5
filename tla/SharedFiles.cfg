SPECIFICATION FilesSpec
CONSTANTS
    Daemon = {d1, d2, d3, d4}
    NoFile = NoFile
    Process = {p1, p2, p3}
    Absent = Absent
    Torn = Torn
SYMMETRY Interchangeable
INVARIANTS
    SocketInv
    ResidueNeverBlocks
    StoreInv
    FailsOnTornCert
    FreshAfterShutdown
PROPERTIES
    EstablishedSurvives
