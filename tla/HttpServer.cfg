SPECIFICATION FairSpec
CONSTANTS
    Conns = {c1, c2, c3}
    Workers = {w1, w2}
    MaxCount = 2
    None = None
    Requests <- ClientRequests
    ReadBuffer = 3
    RecvBuffer = 4
    MaxLine = 22
    MaxHeaders = 4
INVARIANTS
    NoLostWakeup
    OnePlace
    RequestsAsSent
PROPERTIES
    LostOnlyByTimeout
    RequestsEnd
    ServerEnds
