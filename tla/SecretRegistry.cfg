SPECIFICATION Spec
CONSTANTS
    Ref = {"config", "grant"}
    Preloaded = {"config"}
    Value = {v1, v2}
    Nothing = Nothing
    Request = {r1, r2, r3}
SYMMETRY Interchangeable
CHECK_DEADLOCK FALSE
INVARIANTS
    SecretInv
    RecordedClean
PROPERTY SecretsStay
