CONSTANTS
    Nodes = {a}
    Senders = {a}
    Joiners = {a}
    Crashers = {a}
    MaxSeen = 2
    MaxLives = 2
    MaxSending = 2
    MaxSends = 2
    MaxPushes = 2
SPECIFICATION FairSpec
CHECK_DEADLOCK FALSE
PROPERTIES ShowsOnce EchoEnds
INVARIANTS DurableHistory Recoverable
