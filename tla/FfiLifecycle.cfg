CONSTANTS
    h1 = h1
    h2 = h2
    h3 = h3
    w1 = w1
    w2 = w2
    w3 = w3
    Strand = Strand
    Exiter = Exiter
    NoThread = NoThread
    Remote = Remote
    Hosts <- TwoHosts
    Senders <- TwoHosts
    Editors <- NoHosts
    Closers <- OneHost
    Workers <- OneWorker
    Address <- SameAddress
    ProcessExits = FALSE
    MaxSessions = 2
    MaxCommands = 2
    MaxArrivals = 1
    MaxDerived = 1
SPECIFICATION FairSpec
INVARIANTS TypeOK NoUseAfterDestroy TeardownExcludesInit ArchiveWritesLand NoLostWakeup
PROPERTIES CallsReturn SessionsLive
