SPECIFICATION Spec
CONSTANTS
    Segment <- MCSegment
    Lower <- MCLower
    RequestPath <- MCRequestPath
    PatternText <- MCPatternText
    Method = {"GET", "POST"}
    ByteCount <- MCByteCount
    DefaultMaxBodyBytes = 2
    NoRequest = NoRequest
    Letter <- MCLetter
    Redacted = "*"
    RecordedName <- MCRecordedName
    LowerName <- MCLowerName
    CredentialPosition = {"authorization"}
    Label <- MCLabel
    LowerLabel <- MCLowerLabel
    HostPattern <- MCHostPattern
    RequestHost <- MCHostPattern
    NoPort = NoPort
    Credential = {"env:a", "env:b", "vault:x", "none"}
    HeaderName = {"", "x-api-key"}
    NoName = NoName
    Token = {"short"}
    DropText <- MCDropText
    NoService = NoService
    ServiceName = {"a", "b"}
    KnownScheme = {"env:a", "env:b"}
    NoCredential = "none"
    ShortToken = {"short"}
    NameChar = {"a"}
    Character <- MCCharacter
    Name <- MCName
    Exported <- MCExported
    Variable <- MCVariable
    DefaultCA <- MCDefaultCA
    ProxyVar = {"HTTPS_PROXY"}
\* An input is judged, or has grown to its bound, or startup has ended.
CHECK_DEADLOCK FALSE
INVARIANTS
    NarrowedWithinBound
    ContainsExact
    SpellingBlind
    RedactedExactly
    ServesAssumption
    StrategiesReady
    ExpandExact
    ChildConsistent
