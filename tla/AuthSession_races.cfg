SPECIFICATION Spec
CONSTANTS
    Users = {admin, user}
    Admins = {admin}
    Legacy = {}
    Threads = {t1, t2}
    Jti = {j1, j2}
    NoJti = NoJti
    NoUser = NoUser
SYMMETRY Symmetry
CHECK_DEADLOCK FALSE
INVARIANTS
    StuckOnlyWhenCut
    NoRefreshAfterLogout
PROPERTIES
    RefreshNeverResurrects
