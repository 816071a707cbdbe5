SPECIFICATION Spec
CONSTANTS
    Segment <- MCSegment
    Lower <- MCLower
    RequestPath <- MCRequestPath
    PatternText <- MCPatternText
    Method = {"GET", "POST"}
    ByteCount <- MCByteCount
    DefaultMaxBodyBytes = 2
    Label <- MCLabel
    LowerLabel <- MCLowerLabel
    HostPattern <- MCHostPattern
    RequestHost <- MCRequestHost
    NoPort = NoPort
    Credential = {"env:a", "env:b", "env:k"}
    HeaderName = {"authorization", "x-api-key", "x-debug", ""}
    NoName = NoName
    Token = {"chap_a", "chap_k", "own"}
    DropText <- MCDropText
    NoService = NoService
    Configured <- MCConfigured
    Grantable <- MCGrantable
    GrantRequest <- MCGrantRequest
    Conn = {c1}
    ClientRequest <- MCClientRequest
    KnownAuthHeader = {"authorization", "x-api-key"}
    NoMeta = NoMeta
    MaxRequests = 2
    MaxChanges = 2
CHECK_DEADLOCK FALSE
INVARIANTS
    RecordedPaired
