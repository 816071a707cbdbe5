SPECIFICATION Spec
CONSTANTS
    Daemon = {d1, d2, d3}
    NoFile = NoFile
PROPERTIES
    LiveNeverStomped
