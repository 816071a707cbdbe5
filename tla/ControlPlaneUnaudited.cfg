SPECIFICATION ClientSpec
CONSTANTS
    Segment <- MCSegment
    Lower <- MCLower
    RequestPath <- MCRequestPath
    PatternText <- MCPatternText
    Method = {"DELETE", "GET", "POST"}
    ByteCount <- MCByteCount
    DefaultMaxBodyBytes = 2
    Label <- MCLabel
    LowerLabel <- MCLowerLabel
    HostPattern <- MCHostPattern
    RequestHost <- MCRequestHost
    NoPort = NoPort
    Credential = {"env:a", "env:b", "file:static"}
    HeaderName = {"x-api-key"}
    NoName = NoName
    Token = {"chap_static"}
    DropText = {"drop_rule"}
    NoService = NoService
    Configured <- MCConfigured
    Grantable <- MCGrantable
    GrantRequest <- MCGrantRequest
    Call = {c1, c2}
    MaxGivenUp = 1
INVARIANTS
    EveryOutcomeAudited
