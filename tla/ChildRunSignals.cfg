SPECIFICATION ChildSpec
CONSTANTS
    Request = {q1, q2}
    Header = {authorization, trace}
    Standard = {authorization}
    ExitCode = {3}
    Killed = Killed
    None = None
\* chaperone has exited or was killed.
CHECK_DEADLOCK FALSE
INVARIANTS
    SignalsForwarded
