CONSTANTS
    h1 = h1
    h2 = h2
    h3 = h3
    w1 = w1
    w2 = w2
    w3 = w3
    Strand = Strand
    Exiter = Exiter
    NoThread = NoThread
    Remote = Remote
    Hosts <- TwoHosts
    Senders <- NoHosts
    Editors <- OneHost
    Closers <- SecondHost
    Workers <- TwoWorkers
    Address <- SameAddress
    ProcessExits = TRUE
    MaxSessions = 1
    MaxCommands = 1
    MaxArrivals = 2
    MaxDerived = 1
SPECIFICATION ExitSpec
CHECK_DEADLOCK FALSE
INVARIANTS NoUseAfterDestroy ArchiveWritesLand
PROPERTIES ExitHookEnds
