SPECIFICATION HealthySpec
CONSTANTS
    Users = {admin, user}
    Admins = {admin}
    Legacy = {user}
    Threads = {t1, t2}
    Jti = {j1, j2}
    NoJti = NoJti
    NoUser = NoUser
CHECK_DEADLOCK FALSE
INVARIANT
    LogoutRevokesTokens
