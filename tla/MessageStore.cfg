SPECIFICATION Spec
CONSTANTS
    Users = {u1}
    Far = Far
    Nobody = Nobody
    Keys <- PairAndRoom
    Senders = {s1}
    Readers = {r1}
    Admins = {a1}
    MaxConvs = 2
    MaxMsgs = 2
    Limit = 1
    Payloads <- ShortPayloads
SYMMETRY Symmetry
INVARIANTS
    MembersListed
    HistoryHasAcked
    AckedReadable
    ReadAsSent
    DeletedForGood
PROPERTIES
    ImplementsLog
