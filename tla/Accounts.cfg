SPECIFICATION AccountsSpec
CONSTANTS
    Emails = {first, other}
    First = first
    Roles = {admin, user, extra}
    Admin = admin
    User = user
    Perms = {read, write}
    Read = read
    NoRole = NoRole
    Handlers = {t1, t2}
    MaxId = 2
    Wanted = {user, extra}
    Given = {admin, extra}
    Creations <- EveryPermission
    extra = extra
SYMMETRY Symmetry
CHECK_DEADLOCK FALSE
INVARIANTS
    RoleComplete
    RegisteredAsAsked
    RightsMeant
