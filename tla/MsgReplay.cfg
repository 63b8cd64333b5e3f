CONSTANTS
    Nodes = {a, b}
    Senders = {a}
    Joiners = {b}
    Crashers = {}
    MaxSeen = 2
    MaxLives = 1
    MaxSending = 1
    MaxSends = 1
    MaxPushes = 1
SPECIFICATION Spec
CHECK_DEADLOCK FALSE
INVARIANTS ReplayIsComplete
