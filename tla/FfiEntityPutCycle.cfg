CONSTANTS
    h1 = h1
    h2 = h2
    h3 = h3
    w1 = w1
    w2 = w2
    w3 = w3
    Strand = Strand
    Exiter = Exiter
    NoThread = NoThread
    Remote = Remote
    Hosts <- TwoHosts
    Senders <- NoHosts
    Editors <- OneHost
    Closers <- NoHosts
    Workers <- OneWorker
    Address <- OwnAddress
    ProcessExits = FALSE
    MaxSessions = 1
    MaxCommands = 1
    MaxArrivals = 1
    MaxDerived = 0
SPECIFICATION Spec
INVARIANTS NoCircularWait
