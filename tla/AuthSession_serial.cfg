SPECIFICATION SerialSpec
CONSTANTS
    Users = {admin, user}
    Admins = {admin}
    Legacy = {user}
    Threads = {t1, t2}
    Jti = {j1, j2, j3}
    NoJti = NoJti
    NoUser = NoUser
SYMMETRY Symmetry
CHECK_DEADLOCK FALSE
INVARIANTS
    SessionsAccountedFor
    NoAcceptAfterLogout
PROPERTIES
    ImplementsAuthority
