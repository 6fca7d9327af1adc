SPECIFICATION Spec
CONSTANTS
    Users = {u1, u2}
    Far = Far
    Nobody = Nobody
    Keys <- PairAndRoom
    Senders = {s1}
    Readers = {}
    Admins = {a1}
    MaxConvs = 2
    MaxMsgs = 1
    Limit = 1
    Payloads <- NoPayloads
PROPERTIES
    DeletionErases
