SPECIFICATION Spec
CONSTANTS
    Users = {admin, user}
    Admins = {admin}
    Convs = {c1}
    Sends = {m1}
    None = None
    MaxLogins = 2
    MaxNet = 3
    Dialogs = {"deleteRoom"}
CHECK_DEADLOCK FALSE
INVARIANTS
    SentOnce
    UsersApart
    RefreshIsOwn
PROPERTIES
    LeftOnlyWhenRefused
