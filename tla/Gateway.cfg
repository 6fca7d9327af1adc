SPECIFICATION Spec
CONSTANTS
    Calls = {c1, c2}
    Emails = {first, other}
    First = first
    NoMail = NoMail
    Jti = {j1, j2}
    NoJti = NoJti
    MaxId = 3
    MaxRoom = 1
    Limit = 1
    Named <- OneAddress
    Peers = {1}
SYMMETRY Symmetry
INVARIANTS
    NamedAreMembers
PROPERTIES
    TrueAnswers
    RoomsListed
