CONSTANTS
    NoParent = NoParent
    GetFails = FALSE
    Stamps = {1, 2}
    MaxLives = 2
    MaxCommands = 4
SPECIFICATION Spec
CHECK_DEADLOCK FALSE
INVARIANTS TypeOK NoOrphanRecords MemoryBacked
PROPERTIES KeepsPromise
