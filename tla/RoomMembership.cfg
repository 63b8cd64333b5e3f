CONSTANTS
    Smoke = {lobby}
    Room = {r1, r2}
    Thread = {t1, t2}
    Space = {team}
    NoThread = NoThread
    NoTopic = NoTopic
    NotCreated = NotCreated
    Standalone = Standalone
    MaxSessions = 2
    MaxCommands = 5
SPECIFICATION Spec
CHECK_DEADLOCK FALSE
INVARIANTS TypeOK MembershipUnion JoinedBothWays ToldCurrent DerivedCurrent LiveOrNoticed
