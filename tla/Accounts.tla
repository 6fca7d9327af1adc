------------------------------ MODULE Accounts ------------------------------
(***************************************************************************)
(* The administrative half of auth_service: accounts, roles and their      *)
(* permissions (AuthServiceImpl.cpp, db/Database.cpp), and the claims that *)
(* Login and RefreshToken copy from them into access tokens.  Sessions are *)
(* AuthSession's subject.                                                  *)
(*                                                                         *)
(* A method of Database is one transaction under the mutex of Database; a  *)
(* lost connection is answered by one more try under the same mutex, or by *)
(* an error after a commit that went through.  Roles and permissions are   *)
(* never deleted, so a role stands for its id and the lookup that follows  *)
(* the creation of one finds it or fails.  An administrator is whoever     *)
(* holds a token that says so: RegisterUser, AssignRole, CreateRole and    *)
(* DeleteUser ask nothing else.                                            *)
(***************************************************************************)
EXTENDS Naturals, FiniteSets

CONSTANTS
    Emails,     \* e-mail addresses
    First,      \* the address of the account that bootstrap_admin.sql creates
    Roles,      \* names of roles
    Admin,      \* "admin"
    User,       \* "user", the default
    Perms,      \* names of permissions
    Read,       \* "user.read"
    NoRole,     \* SQL NULL
    Handlers,   \* handler threads
    Wanted,     \* the roles that administrators register accounts with
    Given,      \* the roles that administrators assign
    Creations,  \* the requests to CreateRole: a role and a set of permissions
    MaxId       \* bound: ids of accounts

ASSUME NamesAssumption ==
    /\ First \in Emails /\ Read \in Perms
    /\ {Admin, User} \subseteq Roles /\ NoRole \notin Roles
    /\ Wanted \subseteq Roles /\ Given \subseteq Roles
    /\ Creations \subseteq Roles \X SUBSET Perms
ASSUME BoundsAssumption == MaxId \in Nat \ {0}

VARIABLES
    users,      \* the users table
    lastId,     \* the sequence of id_users
    roles,      \* the roles table
    grants,     \* role_permission
    admins,     \* the subjects of access tokens that say "admin" and have not expired
    call,       \* the calls of the handler threads
    registered, \* history: the accounts made, and what their call asked for
    asked,      \* history: the roles somebody wanted to give to an account
    completed   \* history: what an acknowledged CreateRole put into a role

tables == <<users, lastId, roles, grants>>
told == <<registered, asked, completed>>
accountsVars == <<tables, admins, call, told>>

-----------------------------------------------------------------------------
Ids == 1 .. MaxId

Row == [id : Ids, email : Emails, role : Roles \union {NoRole}]

Registration == [id : Ids, role : Roles, sure : BOOLEAN]

Ops == {"none", "register", "lookup", "assign", "create", "grant", "claims", "signed"}

Request == [op : Ops, email : Emails, id : 0 .. MaxId, role : Roles \union {NoRole},
            all : SUBSET Perms, todo : SUBSET Perms, known : BOOLEAN]

NoRequest == [op |-> "none", email |-> First, id |-> 0, role |-> NoRole,
              all |-> {}, todo |-> {}, known |-> FALSE]

Taken(e) == \E u \in users : u.email = e

\* getUserPermissions; a failing query is answered with no permission.
PermsOf(id) == {p \in Perms : \E u \in users : u.id = id /\ <<u.role, p>> \in grants}

\* Database::listRoles, and the answer to ListRoles.
ListedRoles == {[name |-> r, permissions |-> {p \in Perms : <<r, p>> \in grants}] : r \in roles}

\* Database::getRoleIdByName
RoleFound(r) == r \in roles

\* validateAdminToken: the token says "admin", whatever the tables say by now.
AdminToken == admins # {}

(* Rows refer to rows that exist, addresses and ids are unique.            *)
AccountsTypeOK ==
    /\ users \subseteq Row
    /\ \A u, v \in users : u.id = v.id \/ u.email = v.email => u = v
    /\ lastId \in Ids /\ \A u \in users : u.id <= lastId
    /\ roles \subseteq Roles /\ {u.role : u \in users} \subseteq roles \union {NoRole}
    /\ grants \subseteq roles \X Perms
    /\ admins \subseteq Ids
    /\ call \in [Handlers -> Request]
    /\ registered \subseteq Registration
    /\ asked \subseteq Ids \X Roles
    /\ completed \subseteq Roles \X Perms

\* What bootstrap_admin.sql leaves.
AccountsInit ==
    /\ users = {[id |-> 1, email |-> First, role |-> Admin]}
    /\ lastId = 1
    /\ roles = {Admin, User}
    /\ grants = ({Admin} \X Perms) \union {<<User, Read>>}
    /\ admins = {}
    /\ call = [t \in Handlers |-> NoRequest]
    /\ registered = {[id |-> 1, role |-> Admin, sure |-> TRUE]}
    /\ asked = {} /\ completed = {}

BeginRequest(t, c) == call[t].op \in {"none", "signed"} /\ call' = [call EXCEPT ![t] = c]

EndRequest(t) == call' = [call EXCEPT ![t] = NoRequest]

\* A query fails: the call answers an error.
Fail(t) ==
    /\ call[t].op \in {"register", "lookup", "assign", "create", "grant"}
    /\ EndRequest(t)
    /\ UNCHANGED <<tables, admins, told>>

-----------------------------------------------------------------------------
(***************************************************************************)
(* RegisterUser: userExists, then the insertion.                           *)
(***************************************************************************)
RegisterBegin(t, e, r) ==
    /\ AdminToken /\ ~Taken(e)
    /\ BeginRequest(t, [NoRequest EXCEPT !.op = "register", !.email = e, !.role = r,
                                        !.known = r \in roles])
    /\ UNCHANGED <<tables, admins, told>>

\* Mutant: the second try does not look for the role.
RoleForFirstTry(r, retry) == IF ~retry /\ r \in roles \union {User} THEN r ELSE NoRole

\* The first try creates the role "user" when it is missing, the second does not.
RoleFor(r, retry) == IF r \in roles \/ (r = User /\ ~retry) THEN r ELSE NoRole

Insert(e, r) ==
    /\ ~Taken(e) /\ lastId < MaxId
    /\ users' = users \union {[id |-> lastId + 1, email |-> e, role |-> r]}
    /\ lastId' = lastId + 1
    /\ roles' = IF r = User THEN roles \union {User} ELSE roles
    /\ UNCHANGED grants

RegisterUser(t) ==
    LET c == call[t] IN
    /\ c.op = "register"
    /\ \E retry \in BOOLEAN : Insert(c.email, RoleFor(c.role, retry))
    /\ \E acked \in BOOLEAN :    \* committed and answered, or the connection lost
           registered' = registered \union
               {[id |-> lastId + 1, role |-> c.role, sure |-> c.known /\ acked]}
    /\ EndRequest(t)
    /\ UNCHANGED <<admins, asked, completed>>

-----------------------------------------------------------------------------
(***************************************************************************)
(* AssignRole: the account by its address, the role by its name, then the  *)
(* update of the id, which succeeds when there is no such row any more.    *)
(***************************************************************************)
AssignBegin(t, u, r) ==
    /\ AdminToken
    /\ BeginRequest(t, [NoRequest EXCEPT !.op = "lookup", !.email = u.email, !.id = u.id, !.role = r])
    /\ asked' = asked \union {<<u.id, r>>}
    /\ UNCHANGED <<tables, admins, registered, completed>>

AssignLookup(t) ==
    /\ call[t].op = "lookup" /\ RoleFound(call[t].role)
    /\ call' = [call EXCEPT ![t].op = "assign"]
    /\ UNCHANGED <<tables, admins, told>>

\* Mutant: the row is updated by its address.
UpdateByEmail(c) == users' = {IF u.email = c.email THEN [u EXCEPT !.role = c.role] ELSE u : u \in users}

Update(c) == users' = {IF u.id = c.id THEN [u EXCEPT !.role = c.role] ELSE u : u \in users}

AssignRole(t) ==
    /\ call[t].op = "assign"
    /\ Update(call[t])
    /\ EndRequest(t)
    /\ UNCHANGED <<lastId, roles, grants, admins, told>>

-----------------------------------------------------------------------------
(***************************************************************************)
(* CreateRole: the role, which may exist, then each permission in a        *)
(* transaction of its own, up to the first that fails.                     *)
(***************************************************************************)
CreateBegin(t, r, S) ==
    /\ AdminToken
    /\ BeginRequest(t, [NoRequest EXCEPT !.op = "create", !.role = r, !.all = S, !.todo = S])
    /\ UNCHANGED <<tables, admins, told>>

\* The call goes on with what is left, or is acknowledged.
Granted(t, left) ==
    LET c == call[t] IN
    /\ IF left = {}
       THEN EndRequest(t) /\ completed' = completed \union ({c.role} \X c.all)
       ELSE call' = [call EXCEPT ![t].op = "grant", ![t].todo = left] /\ UNCHANGED completed
    /\ UNCHANGED <<registered, asked>>

InsertRole(r) == roles' = roles \union {r}

CreateRole(t) ==
    /\ call[t].op = "create"
    /\ InsertRole(call[t].role)
    /\ \/ Granted(t, call[t].todo)
       \/ EndRequest(t) /\ UNCHANGED told
    /\ UNCHANGED <<users, lastId, grants, admins>>

\* Mutant: a permission that could not be added is passed over.
GrantIgnoreFailure(t, p) ==
    /\ call[t].op = "grant" /\ p \in call[t].todo
    /\ grants' \in {grants, grants \union {<<call[t].role, p>>}}
    /\ \/ Granted(t, call[t].todo \ {p})
       \/ EndRequest(t) /\ UNCHANGED told
    /\ UNCHANGED <<users, lastId, roles, admins>>

Grant(t, p) ==
    /\ call[t].op = "grant" /\ p \in call[t].todo
    /\ grants' = grants \union {<<call[t].role, p>>}
    /\ \/ Granted(t, call[t].todo \ {p})
       \/ EndRequest(t) /\ UNCHANGED told
    /\ UNCHANGED <<users, lastId, roles, admins>>

-----------------------------------------------------------------------------
(***************************************************************************)
(* DeleteUser compares the text of the id with the subject of the token    *)
(* and deletes the number: a text with leading zeros names another subject *)
(* and the same number.                                                    *)
(***************************************************************************)
DeleteUser(a, u, zeros) ==
    /\ a = u.id => zeros
    /\ users' = users \ {u}
    /\ UNCHANGED <<lastId, roles, grants, admins, call, told>>

-----------------------------------------------------------------------------
(***************************************************************************)
(* Login finds the account by its address, RefreshToken by the subject of  *)
(* its token; both read the permissions in a second query.                 *)
(***************************************************************************)
ReadAccount(t, u) ==
    /\ BeginRequest(t, [NoRequest EXCEPT !.op = "claims", !.id = u.id, !.role = u.role])
    /\ UNCHANGED <<tables, admins, told>>

SignToken(t) ==
    LET c == call[t] IN
    /\ c.op = "claims"
    /\ \E S \in {PermsOf(c.id), {}} :
           call' = [call EXCEPT ![t] = [NoRequest EXCEPT !.op = "signed", !.id = c.id, !.all = S]]
    /\ admins' = IF c.role = Admin THEN admins \union {c.id} ELSE admins
    /\ UNCHANGED <<tables, told>>

\* The last token of a subject that says "admin" expires.
TokensExpire(a) ==
    /\ admins' = admins \ {a}
    /\ UNCHANGED <<tables, call, told>>

AccountsNext ==
    \/ \E t \in Handlers :
           \/ \E e \in Emails, r \in Wanted : RegisterBegin(t, e, r)
           \/ \E u \in users, r \in Given : AssignBegin(t, u, r)
           \/ \E c \in Creations : CreateBegin(t, c[1], c[2])
           \/ \E p \in Perms : Grant(t, p)
           \/ \E u \in users : ReadAccount(t, u)
           \/ RegisterUser(t) \/ AssignLookup(t) \/ AssignRole(t) \/ CreateRole(t)
           \/ SignToken(t) \/ Fail(t)
    \/ \E a \in admins, u \in users, zeros \in BOOLEAN : DeleteUser(a, u, zeros)
    \/ \E a \in admins : TokensExpire(a)

AccountsSpec == AccountsInit /\ [][AccountsNext]_accountsVars

-----------------------------------------------------------------------------
(* An acknowledged CreateRole is complete: whatever calls fail or run at   *)
(* the same time, ListRoles has the role with every permission that the    *)
(* administrator named.                                                    *)
RoleComplete ==
    \A x \in completed : \E l \in ListedRoles : l.name = x[1] /\ x[2] \in l.permissions

(* An acknowledged registration gave the account the role it asked for, if *)
(* the role was there when the call began, and only an administrator's     *)
(* call changes it since; a retry after a lost connection must not lose    *)
(* the role.                                                               *)
RegisteredAsAsked ==
    \A x \in registered, u \in users :
        u.id = x.id /\ x.sure => u.role = x.role \/ <<u.id, u.role>> \in asked

\* The roles that somebody wanted for an account.
Meant(id) ==
    {r \in Roles : <<id, r>> \in asked \/ \E x \in registered : x.id = id /\ x.role = r}

(* Nobody has a role, and no token says so or names a permission, that was *)
(* not asked for this very account: a call that found an account before it *)
(* was deleted does not reach the one registered with its address          *)
(* afterwards.                                                             *)
RightsMeant ==
    /\ \A u \in users : u.role \in Meant(u.id) \union {NoRole}
    /\ \A a \in admins : Admin \in Meant(a)
    /\ \A t \in Handlers :
           call[t].op = "signed" =>
               \A p \in call[t].all : \E r \in Meant(call[t].id) : <<r, p>> \in grants

=============================================================================
