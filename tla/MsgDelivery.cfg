CONSTANTS
    Nodes = {a, b}
    Senders = {a}
    Joiners = {b}
    Crashers = {}
    MaxSeen = 1
    MaxLives = 1
    MaxSending = 1
    MaxSends = 2
    MaxPushes = 2
    Segment = {"", "gcs", "chat", "messages", "crdt", "k", "v", "p", "smoke-test", "room-1", "msg-1", "msg-2"}
    Id = {"msg-1", "msg-2"}
    Nonce = {1}
    Sender = {"self", "peer"}
    IdBefore <- AscendingIds
    MaxTime = 1
SPECIFICATION Spec
CHECK_DEADLOCK FALSE
INVARIANTS TypeOK Recoverable
PROPERTIES ShowsOnce
