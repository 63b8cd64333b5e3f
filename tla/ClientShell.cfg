CONSTANTS
    Room = {r1, r2}
    Peer = {p1}
    Own = {o1}
    Nowhere = Nowhere
    NoRoom = NoRoom
    MaxTaps = 3
    MaxDialogs = 2
    MaxActs = 4
    MaxPort = 2
SPECIFICATION Spec
CHECK_DEADLOCK FALSE
INVARIANTS TypeOK RoomsApart FlowComplete OneBubble RailMirrorsCore RowBeforeMembership OneCommandPerDialog PendingAnswered
PROPERTIES EditKeepsSettings PendingSettles
