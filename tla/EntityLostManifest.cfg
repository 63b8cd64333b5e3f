CONSTANTS
    NoParent = NoParent
    GetFails = TRUE
    Stamps = {1, 2}
    MaxLives = 1
    MaxCommands = 3
SPECIFICATION Spec
CHECK_DEADLOCK FALSE
PROPERTIES ManifestAppendOnly
