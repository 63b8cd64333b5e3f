CONSTANTS
    h1 = h1
    h2 = h2
    h3 = h3
    w1 = w1
    w2 = w2
    w3 = w3
    Strand = Strand
    Exiter = Exiter
    NoThread = NoThread
    Remote = Remote
    Hosts <- ThreeHosts
    Senders <- ThirdHost
    Editors <- NoHosts
    Closers <- TwoHosts
    Workers <- OneWorker
    Address <- OwnAddress
    ProcessExits = FALSE
    MaxSessions = 2
    MaxCommands = 1
    MaxArrivals = 0
    MaxDerived = 0
SPECIFICATION Spec
INVARIANTS TeardownExcludesInit
