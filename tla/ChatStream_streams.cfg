SPECIFICATION FairSpec
CONSTANTS
    Streams = {s1, s2}
    Callers = {c1}
    Window = 1
    MaxRows = 2
INVARIANTS
    SameOrder
    SenderOrder
    NoMissedBroadcast
PROPERTIES
    CallsReturn
