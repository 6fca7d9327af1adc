------------------------- MODULE AuthServiceProofs -------------------------
(***************************************************************************)
(* Proofs about the two halves of auth_service: Accounts, for any          *)
(* addresses, roles, permissions, handler threads and requests, then       *)
(* AuthSession, for any users, threads and session ids.                    *)
(***************************************************************************)
EXTENDS Accounts, AuthSession, TLAPS

-----------------------------------------------------------------------------
\* What a call under way has read, asked for and done.
Sound(c) ==
    /\ c.op = "register" /\ c.known => c.role \in roles
    /\ c.op \in {"register", "lookup", "assign", "create", "grant"} => c.role \in Roles
    /\ c.op \in {"lookup", "assign"} => <<c.id, c.role>> \in asked
    /\ c.op = "assign" => c.role \in roles
    /\ c.op = "create" => c.todo = c.all
    /\ c.op = "grant" => c.role \in roles /\ {c.role} \X (c.all \ c.todo) \subseteq grants
    /\ c.op \in {"claims", "signed"} => c.id \in Ids
    /\ c.op = "claims" => c.role \in Meant(c.id) \union {NoRole}
    /\ c.op = "signed" => \A p \in c.all : \E r \in Meant(c.id) : <<r, p>> \in grants

Carried == \A t \in Handlers : Sound(call[t])

\* What an acknowledged CreateRole was asked for is in role_permission.
AllGranted == completed \subseteq grants

\* Ids are handed out in order.
Fresh == \A x \in registered : x.id <= lastId

AInv ==
    /\ AccountsTypeOK
    /\ Carried /\ Fresh
    /\ AllGranted /\ RegisteredAsAsked /\ RightsMeant

LEMMA AccountsConstants ==
    /\ First \in Emails /\ Read \in Perms
    /\ Admin \in Roles /\ User \in Roles /\ NoRole \notin Roles
    /\ Wanted \subseteq Roles /\ Given \subseteq Roles
    /\ \A c \in Creations : c[1] \in Roles /\ c[2] \subseteq Perms
    /\ MaxId \in Nat /\ 1 \in Ids
<1>1. \A c \in Creations : c \in Roles \X SUBSET Perms
    BY NamesAssumption
<1> QED
    BY <1>1, NamesAssumption, BoundsAssumption DEF Ids

LEMMA NoRequestIsRequest == NoRequest \in Request /\ NoRequest.op = "none"
BY AccountsConstants DEF NoRequest, Request, Ops

\* The calls that handlers begin with.
LEMMA NewCall ==
    ASSUME NEW e \in Emails, NEW id \in Ids, NEW r \in Roles \union {NoRole},
           NEW S \in SUBSET Perms, NEW known \in BOOLEAN
    PROVE  /\ [NoRequest EXCEPT !.op = "register", !.email = e, !.role = r, !.known = known] \in Request
           /\ [NoRequest EXCEPT !.op = "lookup", !.email = e, !.id = id, !.role = r] \in Request
           /\ [NoRequest EXCEPT !.op = "create", !.role = r, !.all = S, !.todo = S] \in Request
           /\ [NoRequest EXCEPT !.op = "claims", !.id = id, !.role = r] \in Request
           /\ [NoRequest EXCEPT !.op = "signed", !.id = id, !.all = S] \in Request
<1>1. id \in 0 .. MaxId /\ 0 \in 0 .. MaxId
    BY AccountsConstants DEF Ids
<1> QED
    BY <1>1, AccountsConstants DEF Request, Ops, NoRequest

LEMMA BeginType ==
    ASSUME AccountsTypeOK, NEW t \in Handlers, NEW c \in Request, BeginRequest(t, c)
    PROVE  call' \in [Handlers -> Request]
BY DEF AccountsTypeOK, BeginRequest

LEMMA TablesKept ==
    ASSUME AccountsTypeOK, UNCHANGED <<tables, registered, completed>>, admins' \subseteq Ids,
           asked' \subseteq Ids \X Roles, call' \in [Handlers -> Request]
    PROVE  AccountsTypeOK'
BY DEF AccountsTypeOK, tables

LEMMA AccountsInitial == AccountsInit => AInv
<1> SUFFICES ASSUME AccountsInit PROVE AInv
    OBVIOUS
<1> USE AccountsConstants
<1>1. AccountsTypeOK
    BY NoRequestIsRequest DEF AccountsInit, AccountsTypeOK, Row, Registration, Ids
<1>2. Carried
    BY NoRequestIsRequest DEF AccountsInit, Carried, Sound
<1>3. Fresh /\ AllGranted /\ RegisteredAsAsked
    BY DEF AccountsInit, Fresh, AllGranted, RegisteredAsAsked
<1>4. Admin \in Meant(1)
    BY DEF AccountsInit, Meant
<1>5. RightsMeant
    BY <1>4, NoRequestIsRequest DEF AccountsInit, RightsMeant
<1> QED
    BY <1>1, <1>2, <1>3, <1>5 DEF AInv

-----------------------------------------------------------------------------
LEMMA AccountsTypeStep == AInv /\ [AccountsNext]_accountsVars => AccountsTypeOK'
<1> SUFFICES ASSUME AInv, [AccountsNext]_accountsVars PROVE AccountsTypeOK'
    OBVIOUS
<1> USE AccountsConstants, NoRequestIsRequest
<1>0. AccountsTypeOK /\ Carried /\ Fresh
    BY DEF AInv
<1>1. CASE UNCHANGED accountsVars
    BY <1>0, <1>1 DEF AccountsTypeOK, accountsVars, tables, told
<1>2. ASSUME NEW t \in Handlers, NEW e \in Emails, NEW r \in Wanted, RegisterBegin(t, e, r)
      PROVE  AccountsTypeOK'
    <2>1. [NoRequest EXCEPT !.op = "register", !.email = e, !.role = r, !.known = r \in roles] \in Request
        <3> DEFINE known == r \in roles
        <3>1. known \in BOOLEAN /\ r \in Roles
            OBVIOUS
        <3> HIDE DEF known
        <3>2. [NoRequest EXCEPT !.op = "register", !.email = e, !.role = r, !.known = known] \in Request
            BY <3>1, NewCall
        <3> QED
            BY <3>2 DEF known
    <2>2. call' \in [Handlers -> Request]
        BY <1>0, <1>2, <2>1, BeginType DEF RegisterBegin
    <2> QED
        BY <1>0, <1>2, <2>2, TablesKept DEF RegisterBegin, AccountsTypeOK, told
<1>3. ASSUME NEW t \in Handlers, NEW u \in users, NEW r \in Given, AssignBegin(t, u, r)
      PROVE  AccountsTypeOK'
    <2>1. u.id \in Ids /\ u.email \in Emails /\ r \in Roles
        BY <1>0 DEF AccountsTypeOK, Row
    <2>2. [NoRequest EXCEPT !.op = "lookup", !.email = u.email, !.id = u.id, !.role = r] \in Request
        BY <2>1, NewCall
    <2>3. call' \in [Handlers -> Request]
        BY <1>0, <1>3, <2>2, BeginType DEF AssignBegin
    <2>4. asked' \subseteq Ids \X Roles
        BY <1>0, <1>3, <2>1 DEF AssignBegin, AccountsTypeOK
    <2> QED
        BY <1>0, <1>3, <2>3, <2>4, TablesKept DEF AssignBegin, AccountsTypeOK
<1>4. ASSUME NEW t \in Handlers, NEW c \in Creations, CreateBegin(t, c[1], c[2])
      PROVE  AccountsTypeOK'
    <2>1. [NoRequest EXCEPT !.op = "create", !.role = c[1], !.all = c[2], !.todo = c[2]] \in Request
        BY NewCall
    <2>2. call' \in [Handlers -> Request]
        BY <1>0, <1>4, <2>1, BeginType DEF CreateBegin
    <2> QED
        BY <1>0, <1>4, <2>2, TablesKept DEF CreateBegin, AccountsTypeOK, told
<1>5. ASSUME NEW t \in Handlers, NEW p \in Perms, Grant(t, p)
      PROVE  AccountsTypeOK'
    <2>1. call[t] \in Request /\ call[t].role \in roles
        BY <1>0, <1>5 DEF AccountsTypeOK, Carried, Sound, Grant
    <2>2. call' \in [Handlers -> Request]
        BY <1>0, <1>5, <2>1 DEF AccountsTypeOK, Grant, Granted, EndRequest, Request, Ops
    <2>3. completed' \subseteq Roles \X Perms
        BY <1>0, <1>5, <2>1 DEF AccountsTypeOK, Grant, Granted, Request, told
    <2> QED
        BY <1>0, <1>5, <2>1, <2>2, <2>3 DEF AccountsTypeOK, Grant, Granted, told
<1>6. ASSUME NEW t \in Handlers, NEW u \in users, ReadAccount(t, u)
      PROVE  AccountsTypeOK'
    <2>1. u.id \in Ids /\ u.role \in Roles \union {NoRole}
        BY <1>0 DEF AccountsTypeOK, Row
    <2>2. [NoRequest EXCEPT !.op = "claims", !.id = u.id, !.role = u.role] \in Request
        BY <2>1, NewCall
    <2>3. call' \in [Handlers -> Request]
        BY <1>0, <1>6, <2>2, BeginType DEF ReadAccount
    <2> QED
        BY <1>0, <1>6, <2>3, TablesKept DEF ReadAccount, AccountsTypeOK, told
<1>7. ASSUME NEW t \in Handlers, RegisterUser(t)
      PROVE  AccountsTypeOK'
    <2> DEFINE c == call[t]
    <2>1. c \in Request /\ c.role \in Roles /\ c.known \in BOOLEAN /\ c.email \in Emails
        BY <1>0, <1>7 DEF AccountsTypeOK, Carried, Sound, RegisterUser, Request
    <2>2. PICK retry \in BOOLEAN : Insert(c.email, RoleFor(c.role, retry))
        BY <1>7 DEF RegisterUser
    <2> DEFINE r == RoleFor(c.role, retry)
               n == [id |-> lastId + 1, email |-> c.email, role |-> r]
    <2>3. lastId + 1 \in Ids /\ lastId \in Nat /\ lastId' = lastId + 1
        BY <1>0, <2>2 DEF AccountsTypeOK, Insert, Ids
    <2>4. r \in roles' \union {NoRole} /\ r \in Roles \union {NoRole}
        BY <1>0, <2>1, <2>2 DEF AccountsTypeOK, Insert, RoleFor
    <2>5. users' = users \union {n} /\ n \in Row
        BY <2>1, <2>2, <2>3, <2>4 DEF Insert, Row
    <2>6. \A u \in users : u.id # n.id /\ u.email # n.email
        BY <1>0, <2>2, <2>3 DEF AccountsTypeOK, Insert, Taken, Row, Ids
    <2>7. /\ users' \subseteq Row
          /\ \A u, v \in users' : u.id = v.id \/ u.email = v.email => u = v
          /\ \A u \in users' : u.id <= lastId'
        BY <1>0, <2>3, <2>5, <2>6 DEF AccountsTypeOK, Row, Ids
    <2>8. roles \subseteq roles' /\ roles' \subseteq Roles /\ grants' = grants
        BY <1>0, <2>2 DEF AccountsTypeOK, Insert
    <2>9. {u.role : u \in users'} \subseteq roles' \union {NoRole}
        BY <1>0, <2>4, <2>5, <2>8 DEF AccountsTypeOK
    <2>10. registered' \subseteq Registration
        BY <1>0, <1>7, <2>1, <2>3 DEF AccountsTypeOK, RegisterUser, Registration
    <2>11. call' \in [Handlers -> Request]
        BY <1>0, <1>7 DEF AccountsTypeOK, RegisterUser, EndRequest
    <2> QED
        BY <1>0, <1>7, <2>3, <2>7, <2>8, <2>9, <2>10, <2>11 DEF AccountsTypeOK, RegisterUser
<1>8. ASSUME NEW t \in Handlers, AssignLookup(t)
      PROVE  AccountsTypeOK'
    BY <1>0, <1>8 DEF AccountsTypeOK, AssignLookup, RoleFound, Request, Ops, tables, told
<1>9. ASSUME NEW t \in Handlers, AssignRole(t)
      PROVE  AccountsTypeOK'
    <2> DEFINE c == call[t]
               f(u) == IF u.id = c.id THEN [u EXCEPT !.role = c.role] ELSE u
    <2>1. c.role \in roles /\ c.role \in Roles
        BY <1>0, <1>9 DEF AccountsTypeOK, Carried, Sound, AssignRole
    <2>2. \A v \in users' : \E u \in users : v = f(u)
        BY <1>9, Zenon DEF AssignRole, Update
    <2>3. \A u \in users : /\ f(u) \in Row /\ f(u).id = u.id /\ f(u).email = u.email
                           /\ f(u).role \in {u.role, c.role}
        BY <1>0, <2>1 DEF AccountsTypeOK, Row
    <2> HIDE DEF f
    <2>4. users' \subseteq Row /\ \A u \in users' : u.id <= lastId
        BY <1>0, <2>2, <2>3 DEF AccountsTypeOK
    <2>5. \A u, v \in users' : u.id = v.id \/ u.email = v.email => u = v
        BY <1>0, <2>2, <2>3 DEF AccountsTypeOK
    <2>6. {u.role : u \in users'} \subseteq roles \union {NoRole}
        <3>1. \A u \in users : u.role \in roles \union {NoRole}
            BY <1>0 DEF AccountsTypeOK
        <3> QED
            BY <3>1, <2>1, <2>2, <2>3
    <2> QED
        BY <1>0, <1>9, <2>4, <2>5, <2>6 DEF AccountsTypeOK, AssignRole, EndRequest, told
<1>10. ASSUME NEW t \in Handlers, CreateRole(t)
       PROVE  AccountsTypeOK'
    <2>1. call[t] \in Request /\ call[t].role \in Roles
        BY <1>0, <1>10 DEF AccountsTypeOK, Carried, Sound, CreateRole, InsertRole
    <2>2. call' \in [Handlers -> Request]
        BY <1>0, <1>10, <2>1 DEF AccountsTypeOK, CreateRole, InsertRole, Granted, EndRequest, Request, Ops
    <2>3. completed' \subseteq Roles \X Perms
        BY <1>0, <1>10, <2>1 DEF AccountsTypeOK, CreateRole, InsertRole, Granted, Request, told
    <2> QED
        BY <1>0, <1>10, <2>1, <2>2, <2>3 DEF AccountsTypeOK, CreateRole, InsertRole, Granted, told
<1>11. ASSUME NEW t \in Handlers, SignToken(t)
       PROVE  AccountsTypeOK'
    <2>1. call[t].id \in Ids
        BY <1>0, <1>11, Zenon DEF Carried, Sound, SignToken
    <2>2. \A S \in {PermsOf(call[t].id), {}} : S \subseteq Perms
        BY DEF PermsOf
    <2>3. \A S \in SUBSET Perms :
              [NoRequest EXCEPT !.op = "signed", !.id = call[t].id, !.all = S] \in Request
        BY <2>1, NewCall
    <2>4. call' \in [Handlers -> Request]
        <3>1. PICK S \in {PermsOf(call[t].id), {}} :
                  call' = [call EXCEPT ![t] =
                             [NoRequest EXCEPT !.op = "signed", !.id = call[t].id, !.all = S]]
            BY <1>11 DEF SignToken
        <3>2. [NoRequest EXCEPT !.op = "signed", !.id = call[t].id, !.all = S] \in Request
            BY <2>2, <2>3, <3>1
        <3> QED
            BY <1>0, <3>1, <3>2 DEF AccountsTypeOK
    <2>5. admins' \subseteq Ids
        BY <1>0, <1>11, <2>1 DEF AccountsTypeOK, SignToken
    <2> QED
        BY <1>0, <1>11, <2>4, <2>5, TablesKept DEF AccountsTypeOK, SignToken, told
<1>12. ASSUME NEW t \in Handlers, Fail(t)
       PROVE  AccountsTypeOK'
    BY <1>0, <1>12 DEF AccountsTypeOK, Fail, EndRequest, tables, told
<1>13. ASSUME NEW a \in admins, NEW u \in users, NEW zeros \in BOOLEAN, DeleteUser(a, u, zeros)
       PROVE  AccountsTypeOK'
    BY <1>0, <1>13 DEF AccountsTypeOK, DeleteUser, told
<1>14. ASSUME NEW a \in admins, TokensExpire(a)
       PROVE  AccountsTypeOK'
    BY <1>0, <1>14 DEF AccountsTypeOK, TokensExpire, tables, told
<1> QED
    BY <1>1, <1>2, <1>3, <1>4, <1>5, <1>6, <1>7, <1>8, <1>9, <1>10, <1>11, <1>12, <1>13, <1>14
       DEF AccountsNext

-----------------------------------------------------------------------------
\* Nothing is taken back but accounts and tokens.
Growth ==
    /\ roles \subseteq roles' /\ grants \subseteq grants'
    /\ registered \subseteq registered' /\ asked \subseteq asked'

LEMMA Grows == AInv /\ [AccountsNext]_accountsVars => Growth
<1> SUFFICES ASSUME AInv, [AccountsNext]_accountsVars PROVE Growth
    OBVIOUS
<1>1. CASE UNCHANGED accountsVars
    BY <1>1 DEF accountsVars, tables, told, Growth
<1>2. ASSUME NEW t \in Handlers, NEW e \in Emails, NEW r \in Wanted, RegisterBegin(t, e, r)
      PROVE  Growth
    BY <1>2 DEF RegisterBegin, tables, told, Growth
<1>3. ASSUME NEW t \in Handlers, NEW u \in users, NEW r \in Given, AssignBegin(t, u, r)
      PROVE  Growth
    BY <1>3 DEF AssignBegin, tables, Growth
<1>4. ASSUME NEW t \in Handlers, NEW c \in Creations, CreateBegin(t, c[1], c[2])
      PROVE  Growth
    BY <1>4 DEF CreateBegin, tables, told, Growth
<1>5. ASSUME NEW t \in Handlers, NEW p \in Perms, Grant(t, p)
      PROVE  Growth
    BY <1>5 DEF Grant, Granted, told, Growth
<1>6. ASSUME NEW t \in Handlers, NEW u \in users, ReadAccount(t, u)
      PROVE  Growth
    BY <1>6 DEF ReadAccount, tables, told, Growth
<1>7. ASSUME NEW t \in Handlers, RegisterUser(t)
      PROVE  Growth
    BY <1>7 DEF RegisterUser, Insert, Growth
<1>8. ASSUME NEW t \in Handlers,
             AssignLookup(t) \/ AssignRole(t) \/ SignToken(t) \/ Fail(t)
      PROVE  Growth
    BY <1>8 DEF AssignLookup, RoleFound, AssignRole, SignToken, Fail, tables, told, Growth
<1>9. ASSUME NEW t \in Handlers, CreateRole(t)
      PROVE  Growth
    BY <1>9 DEF CreateRole, InsertRole, Granted, told, Growth
<1>10. ASSUME NEW a \in admins, NEW u \in users, NEW zeros \in BOOLEAN, DeleteUser(a, u, zeros)
       PROVE  Growth
    BY <1>10 DEF DeleteUser, told, Growth
<1>11. ASSUME NEW a \in admins, TokensExpire(a)
       PROVE  Growth
    BY <1>11 DEF TokensExpire, tables, told, Growth
<1> QED
    BY <1>1, <1>2, <1>3, <1>4, <1>5, <1>6, <1>7, <1>8, <1>9, <1>10, <1>11 DEF AccountsNext

LEMMA MeantKept ==
    ASSUME Growth, NEW id
    PROVE  Meant(id) \subseteq Meant(id)'
BY DEF Growth, Meant

LEMMA SoundKept ==
    ASSUME Growth, NEW c, Sound(c)
    PROVE  Sound(c)'
<1>1. Meant(c.id) \subseteq Meant(c.id)'
    BY MeantKept
<1> QED
    BY <1>1 DEF Growth, Sound

LEMMA CarriedStep ==
    ASSUME AccountsTypeOK, Carried, Growth, NEW t \in Handlers, NEW c,
           call' = [call EXCEPT ![t] = c], Sound(c)'
    PROVE  Carried'
<1> SUFFICES ASSUME NEW s \in Handlers PROVE Sound(call[s])'
    BY DEF Carried
<1>1. CASE s = t
    <2>1. call'[s] = c
        BY <1>1 DEF AccountsTypeOK
    <2> QED
        BY <2>1 DEF Sound, Meant
<1>2. CASE s # t
    <2>1. PICK b : b = call[s]
        OBVIOUS
    <2>2. Sound(b)
        BY <2>1 DEF Carried
    <2>3. Sound(b)'
        BY <2>2, SoundKept
    <2>4. call'[s] = b
        BY <1>2, <2>1 DEF AccountsTypeOK
    <2> QED
        BY <2>3, <2>4 DEF Sound, Meant
<1> QED
    BY <1>1, <1>2

LEMMA NewCarried == AInv /\ [AccountsNext]_accountsVars => Carried'
<1> SUFFICES ASSUME AInv, [AccountsNext]_accountsVars PROVE Carried'
    OBVIOUS
<1> USE AccountsConstants, NoRequestIsRequest
<1>0. AccountsTypeOK /\ Carried /\ Growth
    BY Grows DEF AInv
<1>n. Sound(NoRequest)'
    BY DEF Sound, NoRequest
<1>r. ASSUME NEW t \in Handlers, EndRequest(t) PROVE Carried'
    BY <1>0, <1>n, <1>r, CarriedStep DEF EndRequest
<1>k. ASSUME call' = call PROVE Carried'
    <2> SUFFICES ASSUME NEW t \in Handlers PROVE Sound(call[t])'
        BY DEF Carried
    <2>1. PICK b : b = call[t]
        OBVIOUS
    <2>2. Sound(b)'
        BY <1>0, <2>1, SoundKept DEF Carried
    <2> QED
        BY <1>k, <2>1, <2>2 DEF Sound, Meant
<1>1. CASE UNCHANGED accountsVars
    BY <1>1, <1>k DEF accountsVars
<1>2. ASSUME NEW t \in Handlers, NEW e \in Emails, NEW r \in Wanted, RegisterBegin(t, e, r)
      PROVE  Carried'
    <2>1. PICK c : c = [NoRequest EXCEPT !.op = "register", !.email = e, !.role = r,
                                      !.known = r \in roles]
        OBVIOUS
    <2>2. c.op = "register" /\ c.role = r /\ (c.known => r \in roles)
        BY <2>1 DEF NoRequest
    <2>3. Sound(c)'
        BY <2>2, <1>0 DEF Sound, Growth
    <2> QED
        BY <1>0, <1>2, <2>1, <2>3, CarriedStep DEF RegisterBegin, BeginRequest
<1>3. ASSUME NEW t \in Handlers, NEW u \in users, NEW r \in Given, AssignBegin(t, u, r)
      PROVE  Carried'
    <2>1. PICK c : c = [NoRequest EXCEPT !.op = "lookup", !.email = u.email, !.id = u.id, !.role = r]
        OBVIOUS
    <2>2. c.op = "lookup" /\ c.role = r /\ c.id = u.id
        BY <2>1 DEF NoRequest
    <2>3. Sound(c)'
        BY <2>2, <1>3 DEF Sound, AssignBegin
    <2> QED
        BY <1>0, <1>3, <2>1, <2>3, CarriedStep DEF AssignBegin, BeginRequest
<1>4. ASSUME NEW t \in Handlers, NEW b \in Creations, CreateBegin(t, b[1], b[2])
      PROVE  Carried'
    <2>1. PICK c : c = [NoRequest EXCEPT !.op = "create", !.role = b[1], !.all = b[2], !.todo = b[2]]
        OBVIOUS
    <2>2. c.op = "create" /\ c.role = b[1] /\ c.todo = c.all
        BY <2>1 DEF NoRequest
    <2>3. Sound(c)'
        BY <2>2 DEF Sound
    <2> QED
        BY <1>0, <1>4, <2>1, <2>3, CarriedStep DEF CreateBegin, BeginRequest
<1>5. ASSUME NEW t \in Handlers, NEW p \in Perms, Grant(t, p)
      PROVE  Carried'
    <2>1. PICK b : b = call[t]
        OBVIOUS
    <2>2. b \in Request /\ b.op = "grant" /\ b.role \in roles /\ b.role \in Roles
          /\ {b.role} \X (b.all \ b.todo) \subseteq grants
        BY <1>0, <1>5, <2>1 DEF Grant, AccountsTypeOK, Carried, Sound
    <2>3. PICK c : c = [b EXCEPT !.op = "grant", !.todo = b.todo \ {p}]
        OBVIOUS
    <2>4. c.op = "grant" /\ c.role = b.role /\ c.all = b.all /\ c.todo = b.todo \ {p}
        BY <2>2, <2>3 DEF Request
    <2>5. {b.role} \X (c.all \ c.todo) \subseteq grants' /\ roles' = roles
        BY <2>1, <2>2, <2>4, <1>5 DEF Grant
    <2>6. Sound(c)'
        BY <2>2, <2>4, <2>5 DEF Sound
    <2>7. EndRequest(t) \/ call' = [call EXCEPT ![t] = c]
        BY <1>0, <1>5, <2>1, <2>3 DEF Grant, Granted, AccountsTypeOK
    <2> QED
        BY <1>0, <1>r, <2>6, <2>7, CarriedStep
<1>6. ASSUME NEW t \in Handlers, NEW u \in users, ReadAccount(t, u)
      PROVE  Carried'
    <2>1. PICK c : c = [NoRequest EXCEPT !.op = "claims", !.id = u.id, !.role = u.role]
        OBVIOUS
    <2>2. c.op = "claims" /\ c.id = u.id /\ c.role = u.role /\ u.id \in Ids
        BY <1>0, <2>1 DEF NoRequest, AccountsTypeOK, Row
    <2>3. u.role \in Meant(u.id) \union {NoRole}
        BY DEF AInv, RightsMeant
    <2>4. u.role \in Meant(u.id)' \union {NoRole}
        BY <2>3, <1>0, MeantKept
    <2>5. Sound(c)'
        BY <2>2, <2>4 DEF Sound
    <2> QED
        BY <1>0, <1>6, <2>1, <2>5, CarriedStep DEF ReadAccount, BeginRequest
<1>7. ASSUME NEW t \in Handlers, RegisterUser(t) \/ AssignRole(t) \/ Fail(t)
      PROVE  Carried'
    BY <1>7, <1>r DEF RegisterUser, AssignRole, Fail
<1>8. ASSUME NEW t \in Handlers, AssignLookup(t)
      PROVE  Carried'
    <2>1. PICK b : b = call[t]
        OBVIOUS
    <2>2. b \in Request /\ b.op = "lookup" /\ b.role \in roles /\ b.role \in Roles
          /\ <<b.id, b.role>> \in asked
        BY <1>0, <1>8, <2>1 DEF AssignLookup, RoleFound, AccountsTypeOK, Carried, Sound
    <2>3. PICK c : c = [b EXCEPT !.op = "assign"]
        OBVIOUS
    <2>4. c.op = "assign" /\ c.role = b.role /\ c.id = b.id
        BY <2>2, <2>3 DEF Request
    <2>5. Sound(c)'
        BY <1>0, <2>2, <2>4 DEF Sound, Growth
    <2>6. call' = [call EXCEPT ![t] = c]
        BY <1>0, <1>8, <2>1, <2>3 DEF AssignLookup, RoleFound, AccountsTypeOK
    <2> QED
        BY <1>0, <2>5, <2>6, CarriedStep
<1>9. ASSUME NEW t \in Handlers, CreateRole(t)
      PROVE  Carried'
    <2>1. PICK b : b = call[t]
        OBVIOUS
    <2>2. b \in Request /\ b.op = "create" /\ b.role \in Roles /\ b.todo = b.all
        BY <1>0, <1>9, <2>1 DEF CreateRole, InsertRole, AccountsTypeOK, Carried, Sound
    <2>3. PICK c : c = [b EXCEPT !.op = "grant", !.todo = b.todo]
        OBVIOUS
    <2>4. c.op = "grant" /\ c.role = b.role /\ c.all = c.todo
        BY <2>2, <2>3 DEF Request
    <2>5. Sound(c)'
        BY <1>9, <2>1, <2>2, <2>4 DEF Sound, CreateRole, InsertRole
    <2>6. EndRequest(t) \/ call' = [call EXCEPT ![t] = c]
        BY <1>0, <1>9, <2>1, <2>3 DEF CreateRole, InsertRole, Granted, AccountsTypeOK
    <2> QED
        BY <1>0, <1>r, <2>5, <2>6, CarriedStep
<1>10. ASSUME NEW t \in Handlers, SignToken(t)
       PROVE  Carried'
    <2>1. PICK b : b = call[t]
        OBVIOUS
    <2>2. b \in Request /\ b.op = "claims" /\ b.id \in Ids
        BY <1>0, <1>10, <2>1, Zenon DEF SignToken, AccountsTypeOK, Carried, Sound
    <2>3. PICK S \in {PermsOf(b.id), {}} :
              call' = [call EXCEPT ![t] = [NoRequest EXCEPT !.op = "signed", !.id = b.id, !.all = S]]
        BY <1>10, <2>1 DEF SignToken
    <2>4. \A u \in users : u.role \in Meant(u.id) \/ u.role = NoRole
        BY DEF AInv, RightsMeant
    <2>5. \A p \in S : \E r \in Meant(b.id) : <<r, p>> \in grants
        <3> SUFFICES ASSUME NEW p \in PermsOf(b.id)
                     PROVE  \E r \in Meant(b.id) : <<r, p>> \in grants
            BY <2>3
        <3>1. PICK u \in users : u.id = b.id /\ <<u.role, p>> \in grants
            BY DEF PermsOf
        <3>2. u.role # NoRole
            BY <1>0, <3>1 DEF AccountsTypeOK
        <3> QED
            BY <2>4, <3>1, <3>2
    <2>6. PICK c : c = [NoRequest EXCEPT !.op = "signed", !.id = b.id, !.all = S]
        OBVIOUS
    <2>7. c.op = "signed" /\ c.id = b.id /\ c.all = S
        BY <2>6 DEF NoRequest
    <2>8. Sound(c)
        BY <2>2, <2>5, <2>7 DEF Sound
    <2>9. Sound(c)'
        BY <2>8, <1>0, SoundKept
    <2> QED
        BY <1>0, <2>3, <2>6, <2>9, CarriedStep
<1>11. ASSUME NEW a \in admins, NEW u \in users, NEW zeros \in BOOLEAN, DeleteUser(a, u, zeros)
       PROVE  Carried'
    BY <1>11, <1>k DEF DeleteUser
<1>12. ASSUME NEW a \in admins, TokensExpire(a)
       PROVE  Carried'
    BY <1>12, <1>k DEF TokensExpire
<1> QED
    BY <1>1, <1>2, <1>3, <1>4, <1>5, <1>6, <1>7, <1>8, <1>9, <1>10, <1>11, <1>12 DEF AccountsNext

-----------------------------------------------------------------------------
\* What the history says of accounts.
Told == Fresh /\ RegisteredAsAsked /\ \A u \in users : u.role \in Meant(u.id) \union {NoRole}

LEMMA AccountsKept ==
    ASSUME AInv, Growth, users' \subseteq users,
           UNCHANGED <<lastId, registered>>
    PROVE  Told'
<1>1. \A u \in users : u.role \in Meant(u.id) \/ u.role = NoRole
    BY DEF AInv, RightsMeant
<1>2. \A u \in users : u.role \in Meant(u.id)' \union {NoRole}
    BY <1>1, MeantKept
<1>3. Fresh' /\ RegisteredAsAsked'
    BY DEF AInv, Fresh, RegisteredAsAsked, Growth
<1> QED
    BY <1>2, <1>3 DEF Told

LEMMA ToldStep == AInv /\ [AccountsNext]_accountsVars => Told'
<1> SUFFICES ASSUME AInv, [AccountsNext]_accountsVars PROVE Told'
    OBVIOUS
<1> USE AccountsConstants
<1>0. AccountsTypeOK /\ Carried /\ Fresh /\ RegisteredAsAsked /\ Growth
    BY Grows DEF AInv
<1>m. \A u \in users : u.role \in Meant(u.id)' \union {NoRole}
    <2>1. \A u \in users : u.role \in Meant(u.id) \/ u.role = NoRole
        BY DEF AInv, RightsMeant
    <2> QED
        BY <2>1, <1>0, MeantKept
<1>1. CASE UNCHANGED accountsVars
    BY <1>0, <1>1, AccountsKept DEF accountsVars, tables, told
<1>2. ASSUME NEW t \in Handlers, NEW e \in Emails, NEW r \in Wanted, RegisterBegin(t, e, r)
      PROVE  Told'
    BY <1>0, <1>2, AccountsKept DEF RegisterBegin, tables, told
<1>3. ASSUME NEW t \in Handlers, NEW u \in users, NEW r \in Given, AssignBegin(t, u, r)
      PROVE  Told'
    BY <1>0, <1>3, AccountsKept DEF AssignBegin, tables
<1>4. ASSUME NEW t \in Handlers, NEW b \in Creations, CreateBegin(t, b[1], b[2])
      PROVE  Told'
    BY <1>0, <1>4, AccountsKept DEF CreateBegin, tables, told
<1>5. ASSUME NEW t \in Handlers, NEW p \in Perms, Grant(t, p)
      PROVE  Told'
    BY <1>0, <1>5, AccountsKept DEF Grant, Granted, told
<1>6. ASSUME NEW t \in Handlers, NEW u \in users, ReadAccount(t, u)
      PROVE  Told'
    BY <1>0, <1>6, AccountsKept DEF ReadAccount, tables, told
<1>7. ASSUME NEW t \in Handlers, RegisterUser(t)
      PROVE  Told'
    <2>1. PICK c : c = call[t]
        OBVIOUS
    <2>2. c.role \in Roles /\ (c.known => c.role \in roles)
        BY <1>0, <1>7, <2>1 DEF RegisterUser, Carried, Sound
    <2>3. PICK retry \in BOOLEAN : Insert(c.email, RoleFor(c.role, retry))
        BY <1>7, <2>1 DEF RegisterUser
    <2>4. PICK acked \in BOOLEAN :
              registered' = registered \union
                  {[id |-> lastId + 1, role |-> c.role, sure |-> c.known /\ acked]}
        BY <1>7, <2>1 DEF RegisterUser
    <2>5. PICK n : n = lastId + 1
        OBVIOUS
    <2>6. n \in Nat /\ lastId \in Nat /\ n > lastId /\ lastId' = n
        BY <1>0, <2>3, <2>5 DEF AccountsTypeOK, Insert, Ids
    <2>7. PICK u \in users' : /\ users' = users \union {u}
                             /\ u = [id |-> n, email |-> c.email, role |-> RoleFor(c.role, retry)]
        BY <2>3, <2>5 DEF Insert
    <2>8. PICK x \in registered' : /\ registered' = registered \union {x}
                                  /\ x = [id |-> n, role |-> c.role, sure |-> c.known /\ acked]
        BY <2>4, <2>5
    <2>9. \A y \in registered : y.id <= lastId /\ y.id \in Nat
        BY <1>0 DEF Fresh, AccountsTypeOK, Registration, Ids
    <2>10. \A v \in users : v.id <= lastId /\ v.id \in Nat
        BY <1>0 DEF AccountsTypeOK, Row, Ids
    <2>11. Fresh'
        BY <2>6, <2>8, <2>9 DEF Fresh
    <2>12. u.role \in {c.role, NoRole} /\ (c.known => u.role = c.role)
        BY <2>2, <2>7 DEF RoleFor
    <2>13. (\A v \in users : v.id # x.id) /\ \A y \in registered : u.id # y.id
        BY <2>6, <2>7, <2>8, <2>9, <2>10
    <2>14. asked' = asked
        BY <1>7 DEF RegisterUser
    <2>15. \A v \in users, y \in registered :
               v.id = y.id /\ y.sure => v.role = y.role \/ <<v.id, v.role>> \in asked'
        BY <1>0, <2>14 DEF RegisteredAsAsked
    <2>16. x.sure => u.role = x.role
        <3>1. x.role = c.role
            BY <2>8
        <3>2. x.sure => c.known
            BY <2>8
        <3> QED
            BY <3>1, <3>2, <2>12
    <2>17. RegisteredAsAsked'
        <3>1. registered' = registered \union {x} /\ users' = users \union {u}
            BY <2>7, <2>8
        <3> SUFFICES ASSUME NEW y \in registered', NEW v \in users', v.id = y.id, y.sure
                     PROVE  v.role = y.role \/ <<v.id, v.role>> \in asked'
            BY DEF RegisteredAsAsked
        <3>2. CASE y \in registered /\ v \in users
            BY <2>15, <3>2
        <3>3. CASE y = x /\ v = u
            BY <2>16, <3>3
        <3> QED
            BY <3>1, <3>2, <3>3, <2>13
    <2>18. x.role \in Meant(u.id)' /\ x.role = c.role
        BY <2>2, <2>7, <2>8 DEF Meant
    <2>19. \A v \in users' : v.role \in Meant(v.id)' \union {NoRole}
        BY <1>m, <2>7, <2>12, <2>18
    <2> QED
        BY <2>11, <2>17, <2>19 DEF Told
<1>8. ASSUME NEW t \in Handlers, AssignLookup(t) \/ SignToken(t) \/ Fail(t)
      PROVE  Told'
    BY <1>0, <1>8, AccountsKept DEF AssignLookup, RoleFound, SignToken, Fail, tables, told
<1>9. ASSUME NEW t \in Handlers, AssignRole(t)
      PROVE  Told'
    <2>1. PICK c : c = call[t]
        OBVIOUS
    <2>2. <<c.id, c.role>> \in asked /\ c.role \in Roles
        BY <1>0, <1>9, <2>1 DEF AssignRole, Carried, Sound
    <2>3. UNCHANGED <<registered, asked, lastId>>
        BY <1>9 DEF AssignRole, told
    <2> DEFINE f(u) == IF u.id = c.id THEN [u EXCEPT !.role = c.role] ELSE u
    <2>4. \A v \in users' : \E u \in users : v = f(u)
        BY <1>9, <2>1, Zenon DEF AssignRole, Update
    <2>5. \A u \in users : /\ f(u).id = u.id
                           /\ f(u) = u \/ (u.id = c.id /\ f(u).role = c.role)
        BY <1>0 DEF AccountsTypeOK, Row
    <2> HIDE DEF f
    <2>6. \A v \in users' : v \in users \/ (v.id = c.id /\ v.role = c.role)
        BY <2>4, <2>5
    <2>7. c.role \in Meant(c.id)'
        BY <2>2, <2>3 DEF Meant
    <2>8. \A v \in users' : v.role \in Meant(v.id)' \union {NoRole}
        BY <1>m, <2>6, <2>7
    <2>9. RegisteredAsAsked' /\ Fresh'
        BY <1>0, <2>2, <2>3, <2>6 DEF RegisteredAsAsked, Fresh
    <2> QED
        BY <2>8, <2>9 DEF Told
<1>10. ASSUME NEW t \in Handlers, CreateRole(t)
       PROVE  Told'
    BY <1>0, <1>10, AccountsKept DEF CreateRole, InsertRole, Granted, told
<1>11. ASSUME NEW a \in admins, NEW u \in users, NEW zeros \in BOOLEAN, DeleteUser(a, u, zeros)
       PROVE  Told'
    BY <1>0, <1>11, AccountsKept DEF DeleteUser, told
<1>12. ASSUME NEW a \in admins, TokensExpire(a)
       PROVE  Told'
    BY <1>0, <1>12, AccountsKept DEF TokensExpire, tables, told
<1> QED
    BY <1>1, <1>2, <1>3, <1>4, <1>5, <1>6, <1>7, <1>8, <1>9, <1>10, <1>11, <1>12 DEF AccountsNext

-----------------------------------------------------------------------------
LEMMA CompleteStep == AInv /\ [AccountsNext]_accountsVars => AllGranted'
<1> SUFFICES ASSUME AInv, [AccountsNext]_accountsVars PROVE AllGranted'
    OBVIOUS
<1>0. AccountsTypeOK /\ Carried /\ completed \subseteq grants /\ grants \subseteq grants'
    BY Grows DEF AInv, AllGranted, Growth
<1>1. CASE completed' = completed
    BY <1>0, <1>1 DEF AllGranted
<1>2. ASSUME NEW t \in Handlers, NEW p \in Perms, Grant(t, p)
      PROVE  AllGranted'
    <2>1. PICK b : b = call[t]
        OBVIOUS
    <2>2. {b.role} \X (b.all \ b.todo) \subseteq grants
        BY <1>0, <1>2, <2>1 DEF Grant, Carried, Sound
    <2>3. completed' = completed
          \/ (b.todo \ {p} = {} /\ completed' = completed \union ({b.role} \X b.all))
        BY <1>2, <2>1 DEF Grant, Granted, told
    <2>4. grants' = grants \union {<<b.role, p>>}
        BY <1>2, <2>1 DEF Grant
    <2> QED
        BY <1>0, <2>2, <2>3, <2>4 DEF AllGranted
<1>3. ASSUME NEW t \in Handlers, CreateRole(t)
      PROVE  AllGranted'
    <2>1. PICK b : b = call[t]
        OBVIOUS
    <2>2. b.todo = b.all
        BY <1>0, <1>3, <2>1 DEF CreateRole, InsertRole, Carried, Sound
    <2>3. completed' = completed
          \/ (b.todo = {} /\ completed' = completed \union ({b.role} \X b.all))
        BY <1>3, <2>1 DEF CreateRole, InsertRole, Granted, told
    <2> QED
        BY <1>0, <2>2, <2>3 DEF AllGranted
<1>4. \/ completed' = completed
      \/ \E t \in Handlers : CreateRole(t) \/ \E p \in Perms : Grant(t, p)
    BY DEF AccountsNext, RegisterBegin, AssignBegin, CreateBegin, ReadAccount, RegisterUser, AssignLookup, RoleFound,
           AssignRole, SignToken, Fail, DeleteUser, TokensExpire, accountsVars, told, tables
<1> QED
    BY <1>1, <1>2, <1>3, <1>4

LEMMA RightsStep == AInv /\ [AccountsNext]_accountsVars => RightsMeant'
<1> SUFFICES ASSUME AInv, [AccountsNext]_accountsVars PROVE RightsMeant'
    OBVIOUS
<1>0. AccountsTypeOK /\ Carried /\ Growth /\ RightsMeant
    BY Grows DEF AInv
<1>1. \A u \in users' : u.role \in Meant(u.id)' \union {NoRole}
    BY ToldStep DEF Told
<1>2. \A t \in Handlers :
          call'[t].op = "signed" =>
              \A p \in call'[t].all : \E r \in Meant(call[t].id)' : <<r, p>> \in grants'
    BY NewCarried DEF Carried, Sound
<1>3. \A a \in admins' : a \in admins \/ Admin \in Meant(a)
    <2>1. ASSUME NEW t \in Handlers, SignToken(t)
          PROVE  \A a \in admins' : a \in admins \/ Admin \in Meant(a)
        <3>1. PICK b : b = call[t]
            OBVIOUS
        <3>2. b.op = "claims" /\ b.role \in Meant(b.id) \union {NoRole}
            BY <1>0, <2>1, <3>1 DEF SignToken, Carried, Sound
        <3>3. \A a \in admins' : a \in admins \/ (b.role = Admin /\ a = b.id)
            BY <2>1, <3>1 DEF SignToken
        <3> QED
            BY <3>2, <3>3, AccountsConstants
    <2>2. admins' \subseteq admins \/ \E t \in Handlers : SignToken(t)
        BY DEF AccountsNext, RegisterBegin, AssignBegin, CreateBegin, Grant, ReadAccount, RegisterUser,
               AssignLookup, RoleFound, AssignRole, CreateRole, InsertRole, Fail, DeleteUser, TokensExpire, accountsVars
    <2> QED
        BY <2>1, <2>2
<1>4. \A a \in admins' : Admin \in Meant(a)'
    BY <1>0, <1>3, MeantKept DEF RightsMeant
<1> QED
    BY <1>1, <1>2, <1>4 DEF RightsMeant

LEMMA AccountsStep == AInv /\ [AccountsNext]_accountsVars => AInv'
BY AccountsTypeStep, NewCarried, ToldStep, CompleteStep, RightsStep DEF AInv, Told

(* The invariant that carries the others: what calls hold of accounts and  *)
(* roles that may have changed or gone since.                              *)
THEOREM AccountsInductive == AccountsSpec => []AInv
BY AccountsInitial, AccountsStep, PTL DEF AccountsSpec

-----------------------------------------------------------------------------
(* Rows refer to rows that exist; ids and addresses are unique.            *)
THEOREM AccountsTypeCorrect == AccountsSpec => []AccountsTypeOK
<1>1. AInv => AccountsTypeOK
    BY DEF AInv
<1> QED
    BY <1>1, AccountsInductive, PTL

(* An acknowledged CreateRole is complete, whatever fails and whoever      *)
(* creates the same role at the same time.                                 *)
THEOREM RolesComplete == AccountsSpec => []RoleComplete
<1>1. AInv => RoleComplete
    <2> SUFFICES ASSUME AInv, NEW x \in completed
                 PROVE  \E l \in ListedRoles : l.name = x[1] /\ x[2] \in l.permissions
        BY DEF RoleComplete
    <2>1. x \in grants /\ grants \subseteq roles \X Perms
        BY DEF AInv, AllGranted, AccountsTypeOK
    <2>2. x[1] \in roles /\ x[2] \in Perms /\ <<x[1], x[2]>> \in grants
        BY <2>1
    <2>3. PICK l : l = [name |-> x[1], permissions |-> {p \in Perms : <<x[1], p>> \in grants}]
        OBVIOUS
    <2>4. l \in ListedRoles
        BY <2>2, <2>3 DEF ListedRoles
    <2>5. l.name = x[1] /\ x[2] \in l.permissions
        BY <2>2, <2>3
    <2> QED
        BY <2>4, <2>5
<1> QED
    BY <1>1, AccountsInductive, PTL

(* An acknowledged registration has its role, until somebody assigns       *)
(* another.                                                                *)
THEOREM RegistrationKept == AccountsSpec => []RegisteredAsAsked
<1>1. AInv => RegisteredAsAsked
    BY DEF AInv
<1> QED
    BY <1>1, AccountsInductive, PTL

(* Nobody has a role or a permission that was not meant for the account.   *)
THEOREM NoStrayRights == AccountsSpec => []RightsMeant
<1>1. AInv => RightsMeant
    BY DEF AInv
<1> QED
    BY <1>1, AccountsInductive, PTL

-----------------------------------------------------------------------------
(***************************************************************************)
(* Sessions.                                                               *)
(***************************************************************************)
(* The locals of a handler that is at work have their types.               *)
LEMMA BusyCall ==
    ASSUME TypeOK, NEW t \in Threads, hnd[t].pc # "idle"
    PROVE  hnd[t] \in Call /\ hnd[t].uid \in Users /\ hnd[t].jti \in Jti \union {NoJti}
BY DEF TypeOK, Call, NoCall

(* No step changes the shape of the state.                                 *)
\* The steps of a call, and all steps by the call that takes them.
LoginStep(t) ==
    \/ \E u \in Users : LoginFindUser(t, u)
    \/ LoginUpgradeHash(t) \/ LoginReadPrevious(t)
    \/ LoginRevokePrevious(t) \/ LoginSetJti(t)

RevokeStep(t) ==
    \/ \E tok \in tokens, u \in Users : RevokeBegin(t, tok, u)
    \/ RevokeRead(t) \/ RevokeCurrent(t) \/ RevokeClear(t)

DeleteStep(t) ==
    \/ \E tok \in tokens, u \in Users : DeleteUserBegin(t, tok, u)
    \/ DeleteUserRow(t)

LEMMA StepsByCall ==
    Steps =>
        \/ \E t \in Threads :
               \/ LoginStep(t) \/ ValidateStep(t) \/ RefreshStep(t)
               \/ RevokeStep(t) \/ DeleteStep(t)
        \/ \E tok \in tokens : Expire(tok)
BY DEF Steps, WriterBegins, WriterGoesOn, LoginStep, RevokeStep, DeleteStep

LEMMA SerialSteps == SerialNext => Steps
BY DEF SerialNext, Steps

LEMMA TypeStep == TypeOK /\ [Next]_vars => TypeOK'
<1> SUFFICES ASSUME TypeOK, [Next]_vars PROVE TypeOK'
    OBVIOUS
<1> USE UsersAssumption, NullsAssumption
<1>1. CASE UNCHANGED vars
    BY <1>1 DEF TypeOK, vars
<1>2. ASSUME NEW t \in Threads, LoginStep(t) PROVE TypeOK'
    <2>1. ASSUME NEW u \in Users, LoginFindUser(t, u) PROVE TypeOK'
        BY <2>1 DEF TypeOK, LoginFindUser, Begin, Call, Pc, WriterPc, ReaderPc, LoginPc, db
    <2>2. CASE LoginUpgradeHash(t)
        BY <2>2 DEF TypeOK, LoginUpgradeHash, Goto, Call, NoCall, Pc, WriterPc, ReaderPc, LoginPc
    <2>3. CASE LoginReadPrevious(t)
        <3>1. hnd[t] \in Call /\ hnd[t].uid \in Users
            BY <2>3, BusyCall DEF LoginReadPrevious
        <3>2. tokenJti[hnd[t].uid] \in Jti \union {NoJti}
            BY <3>1 DEF TypeOK
        <3>3. [hnd[t] EXCEPT !.pc = "login_revoke", !.jti = tokenJti[hnd[t].uid]] \in Call
            BY <3>1, <3>2 DEF Call, Pc, WriterPc, ReaderPc, LoginPc
        <3>4. \A s \in Threads : hnd'[s].pc \in ReaderPc => hnd'[s].jti \in Jti
            BY <2>3, <3>1 DEF TypeOK, LoginReadPrevious, ReadJti, ReaderPc, Call
        <3> QED
            BY <2>3, <3>3, <3>4 DEF TypeOK, LoginReadPrevious, ReadJti, db
    <2>4. CASE LoginRevokePrevious(t)
        BY <2>4 DEF TypeOK, LoginRevokePrevious, RevokeJti, Goto, Call, NoCall, Pc, WriterPc, ReaderPc,
                    LoginPc
    <2>5. CASE LoginSetJti(t)
        BY <2>5 DEF ReaderPc, NoCall, TypeOK, LoginSetJti, HandOut, SetJti, Return, Drawn, Token, Call
    <2> QED
        BY <1>2, <2>1, <2>2, <2>3, <2>4, <2>5 DEF LoginStep
<1>3. ASSUME NEW t \in Threads, ValidateStep(t) PROVE TypeOK'
    <2>1. ASSUME NEW tok \in tokens, ValidateRevoked(t, tok) PROVE TypeOK'
        BY <2>1 DEF TypeOK, ValidateRevoked, TokenRevoked, Begin, Token, Call, Pc, ReaderPc, db
    <2>2. CASE ValidateCurrent(t)
        BY <2>2 DEF TypeOK, ValidateCurrent, Goto, Return, Call, NoCall, Pc, ReaderPc, db
    <2> QED
        BY <1>3, <2>1, <2>2 DEF ValidateStep
<1>4. ASSUME NEW t \in Threads, RefreshStep(t) PROVE TypeOK'
    <2>1. ASSUME NEW tok \in tokens, RefreshRevoked(t, tok) PROVE TypeOK'
        BY <2>1 DEF TypeOK, RefreshRevoked, TokenRevoked, Begin, Token, Call, Pc, ReaderPc, db
    <2>2. CASE RefreshCurrent(t)
        BY <2>2 DEF TypeOK, RefreshCurrent, Goto, Return, Call, NoCall, Pc, ReaderPc, db
    <2>3. CASE RefreshReply(t)
        <3>1. hnd' \in [Threads -> Call \union {NoCall}]
            BY <2>3 DEF TypeOK, RefreshReply, Return
        <3>2. tokens' \subseteq Token
            BY <2>3, BusyCall DEF TypeOK, RefreshReply, Token, ReaderPc
        <3>3. \A s \in Threads : hnd'[s].pc \in ReaderPc => hnd'[s].jti \in Jti
            BY <2>3 DEF TypeOK, RefreshReply, Return, ReaderPc, NoCall
        <3> QED
            BY <2>3, <3>1, <3>2, <3>3 DEF TypeOK, RefreshReply, db
    <2> QED
        BY <1>4, <2>1, <2>2, <2>3 DEF RefreshStep
<1>5. ASSUME NEW t \in Threads, RevokeStep(t) PROVE TypeOK'
    <2>1. ASSUME NEW tok \in tokens, NEW u \in Users, RevokeBegin(t, tok, u) PROVE TypeOK'
        BY <2>1 DEF TypeOK, RevokeBegin, Begin, Drawn, Call, Pc, WriterPc, ReaderPc, RevokePc, db
    <2>2. CASE RevokeRead(t)
        <3>1. hnd[t] \in Call /\ hnd[t].uid \in Users
            BY <2>2, BusyCall DEF RevokeRead
        <3>2. tokenJti[hnd[t].uid] \in Jti \union {NoJti}
            BY <3>1 DEF TypeOK
        <3>3. [hnd[t] EXCEPT !.pc = "rev_revoke", !.jti = tokenJti[hnd[t].uid]] \in Call
            BY <3>1, <3>2 DEF Call, Pc, WriterPc, ReaderPc, RevokePc
        <3>4. \A s \in Threads : hnd'[s].pc \in ReaderPc => hnd'[s].jti \in Jti
            BY <2>2, <3>1 DEF TypeOK, RevokeRead, ReadJti, ReaderPc, Call
        <3> QED
            BY <2>2, <3>3, <3>4 DEF TypeOK, RevokeRead, ReadJti, db
    <2>3. CASE RevokeCurrent(t)
        BY <2>3 DEF TypeOK, RevokeCurrent, RevokeJti, Goto, Call, NoCall, Pc, WriterPc, ReaderPc, RevokePc
    <2>4. CASE RevokeClear(t)
        BY <2>4 DEF ReaderPc, NoCall, TypeOK, RevokeClear, ClearJti, SetJti, Return, Call
    <2> QED
        BY <1>5, <2>1, <2>2, <2>3, <2>4 DEF RevokeStep
<1>6. ASSUME NEW t \in Threads, DeleteStep(t) PROVE TypeOK'
    <2>1. ASSUME NEW tok \in tokens, NEW u \in Users, DeleteUserBegin(t, tok, u) PROVE TypeOK'
        BY <2>1 DEF TypeOK, DeleteUserBegin, Begin, Drawn, Call, Pc, WriterPc, ReaderPc, db
    <2>2. CASE DeleteUserRow(t)
        BY <2>2 DEF ReaderPc, NoCall, TypeOK, DeleteUserRow, RemoveRow, RevokeJti, Return, Call
    <2> QED
        BY <1>6, <2>1, <2>2 DEF DeleteStep
<1>7. ASSUME NEW tok \in tokens, Expire(tok) PROVE TypeOK'
    BY <1>7 DEF TypeOK, Expire, db
<1>8. ASSUME NEW t \in Threads, RevokeFails(t) PROVE TypeOK'
    BY <1>8, BusyCall DEF TypeOK, RevokeFails, Goto, Call, NoCall, Pc, WriterPc, ReaderPc, LoginPc, RevokePc, db
<1>9. ASSUME NEW t \in Threads, LoginSetFails(t) PROVE TypeOK'
    BY <1>9, BusyCall DEF TypeOK, LoginSetFails, HandOut, CutShort, Return, Drawn, Token, Call, NoCall, ReaderPc, db
<1>10. ASSUME NEW t \in Threads, RevokeSetFails(t) PROVE TypeOK'
    BY <1>10, BusyCall DEF TypeOK, RevokeSetFails, CutShort, Return, Call, NoCall, ReaderPc, db
<1>11. ASSUME NEW t \in Threads, AnswerLost(t) PROVE TypeOK'
    <2>1. CASE ClearJti(t) /\ UNCHANGED ended
        BY <2>1, BusyCall DEF TypeOK, ClearJti, SetJti, Return, Call, NoCall, ReaderPc
    <2>2. CASE RemoveRow(t) /\ UNCHANGED ended
        BY <2>2, BusyCall DEF TypeOK, RemoveRow, RevokeJti, Return, Call, NoCall, ReaderPc
    <2> QED
        BY <1>11, <2>1, <2>2 DEF AnswerLost
<1>12. ASSUME NEW t \in Threads, Stops(t) PROVE TypeOK'
    BY <1>12, BusyCall DEF TypeOK, Stops, Idle, CutShort, Return, Call, NoCall, ReaderPc, db
<1> QED
    BY <1>1, <1>2, <1>3, <1>4, <1>5, <1>6, <1>7, <1>8, <1>9, <1>10, <1>11, <1>12, StepsByCall DEF Next, Faults

(* The tables, the tokens and the handlers' locals keep their shape: no    *)
(* interleaving stores a NULL jti in tokens_revoked.                       *)
THEOREM TypeCorrect == Spec => []TypeOK
<1>1. Init => TypeOK
    BY UsersAssumption, NullsAssumption DEF ReaderPc, NoCall, Init, TypeOK
<1> QED
    BY <1>1, TypeStep, PTL DEF Spec

-----------------------------------------------------------------------------
(***************************************************************************)
(* Who a session id belongs to: wherever an id is found, it was drawn for  *)
(* the user it is found with.                                              *)
(***************************************************************************)
Owned ==
    /\ \A u \in Users : tokenJti[u] # NoJti => u \in live /\ owner[tokenJti[u]] = u
    /\ \A j \in revoked \union ended : owner[j] # NoUser
    /\ \A tok \in tokens : owner[tok.jti] = tok.uid
    /\ \A t \in Threads :
           /\ hnd[t].jti # NoJti => owner[hnd[t].jti] = hnd[t].uid
           /\ \A j \in hnd[t].before : owner[j] = hnd[t].uid

(* Only Login gives an id to a user, and only an id that has none.         *)
LEMMA OwnerStable ==
    ASSUME TypeOK, [Next]_vars, NEW j \in Jti, owner[j] # NoUser
    PROVE  owner'[j] = owner[j]
<1>1. ASSUME NEW t \in Threads, LoginSetJti(t) PROVE owner'[j] = owner[j]
    BY <1>1 DEF LoginSetJti, HandOut, Drawn, TypeOK
<1>2. ASSUME NEW t \in Threads, LoginStep(t) PROVE owner'[j] = owner[j]
    BY <1>1, <1>2 DEF LoginStep, LoginFindUser, LoginUpgradeHash, LoginReadPrevious,
                      LoginRevokePrevious
<1>3. ASSUME NEW t \in Threads, ValidateStep(t) \/ RefreshStep(t) \/ RevokeStep(t) \/ DeleteStep(t)
      PROVE  owner'[j] = owner[j]
    BY <1>3 DEF ValidateStep, ValidateRevoked, TokenRevoked, ValidateCurrent, RefreshStep, RefreshRevoked,
                RefreshCurrent, RefreshReply, RevokeStep, RevokeBegin, RevokeRead,
                RevokeCurrent, RevokeClear, ClearJti, DeleteStep, DeleteUserBegin, DeleteUserRow,
                RemoveRow
<1>4. ASSUME NEW t \in Threads, LoginSetFails(t) PROVE owner'[j] = owner[j]
    BY <1>4 DEF LoginSetFails, HandOut, Drawn, TypeOK
<1>5. ASSUME NEW t \in Threads, RevokeFails(t) \/ RevokeSetFails(t) \/ AnswerLost(t) \/ Stops(t)
      PROVE  owner'[j] = owner[j]
    BY <1>5 DEF RevokeFails, RevokeSetFails, AnswerLost, ClearJti, RemoveRow, Stops
<1> QED
    BY <1>2, <1>3, <1>4, <1>5, StepsByCall DEF Next, Faults, Expire, vars

LEMMA OwnedStep == TypeOK /\ Owned /\ [Next]_vars => Owned'
<1> SUFFICES ASSUME TypeOK, Owned, [Next]_vars PROVE Owned'
    OBVIOUS
<1> USE UsersAssumption, NullsAssumption
<1>0. TypeOK'
    BY TypeStep
<1>1. CASE UNCHANGED vars
    BY <1>1 DEF Owned, vars
<1>2. ASSUME NEW t \in Threads, LoginStep(t) PROVE Owned'
    <2>1. ASSUME NEW u \in Users, LoginFindUser(t, u) PROVE Owned'
        BY <2>1 DEF TypeOK, Owned, LoginFindUser, Begin, db
    <2>2. CASE LoginUpgradeHash(t)
        BY <2>2 DEF TypeOK, Owned, LoginUpgradeHash, Goto, Call, NoCall
    <2>3. CASE LoginReadPrevious(t)
        BY <2>3, BusyCall DEF TypeOK, Owned, LoginReadPrevious, ReadJti, Call, db
    <2>4. CASE LoginRevokePrevious(t)
        BY <2>4, BusyCall DEF TypeOK, Owned, LoginRevokePrevious, RevokeJti, Goto, Call, NoCall
    <2>5. CASE LoginSetJti(t)
        BY <2>5, BusyCall DEF TypeOK, Owned, LoginSetJti, HandOut, SetJti, Return, Drawn, Token, Call, NoCall
    <2> QED
        BY <1>2, <2>1, <2>2, <2>3, <2>4, <2>5 DEF LoginStep
<1>3. ASSUME NEW t \in Threads, ValidateStep(t) PROVE Owned'
    <2>1. ASSUME NEW tok \in tokens, ValidateRevoked(t, tok) PROVE Owned'
        BY <2>1 DEF TypeOK, Owned, ValidateRevoked, TokenRevoked, Begin, Token, db
    <2>2. CASE ValidateCurrent(t)
        BY <2>2 DEF TypeOK, Owned, ValidateCurrent, Goto, Return, Call, NoCall, db
    <2> QED
        BY <1>3, <2>1, <2>2 DEF ValidateStep
<1>4. ASSUME NEW t \in Threads, RefreshStep(t) PROVE Owned'
    <2>1. ASSUME NEW tok \in tokens, RefreshRevoked(t, tok) PROVE Owned'
        BY <2>1 DEF TypeOK, Owned, RefreshRevoked, TokenRevoked, Begin, Token, db
    <2>2. CASE RefreshCurrent(t)
        BY <2>2 DEF TypeOK, Owned, RefreshCurrent, Goto, Return, Call, NoCall, db
    <2>3. CASE RefreshReply(t)
        BY <2>3 DEF TypeOK, Owned, RefreshReply, Return, ReaderPc, Call, NoCall, db
    <2> QED
        BY <1>4, <2>1, <2>2, <2>3 DEF RefreshStep
<1>5. ASSUME NEW t \in Threads, RevokeStep(t) PROVE Owned'
    <2>1. ASSUME NEW tok \in tokens, NEW u \in Users, RevokeBegin(t, tok, u) PROVE Owned'
        BY <2>1 DEF TypeOK, Owned, RevokeBegin, Begin, Drawn, db
    <2>2. CASE RevokeRead(t)
        BY <2>2, BusyCall DEF TypeOK, Owned, RevokeRead, ReadJti, Call, db
    <2>3. CASE RevokeCurrent(t)
        BY <2>3, BusyCall DEF TypeOK, Owned, RevokeCurrent, RevokeJti, Goto, Call, NoCall
    <2>4. CASE RevokeClear(t)
        BY <2>4, BusyCall DEF TypeOK, Owned, RevokeClear, ClearJti, SetJti, Return, Call, NoCall
    <2> QED
        BY <1>5, <2>1, <2>2, <2>3, <2>4 DEF RevokeStep
<1>6. ASSUME NEW t \in Threads, DeleteStep(t) PROVE Owned'
    <2>1. ASSUME NEW tok \in tokens, NEW u \in Users, DeleteUserBegin(t, tok, u) PROVE Owned'
        BY <2>1 DEF TypeOK, Owned, DeleteUserBegin, Begin, Drawn, db
    <2>2. CASE DeleteUserRow(t)
        BY <2>2, BusyCall DEF TypeOK, Owned, DeleteUserRow, RemoveRow, RevokeJti, Return, Call, NoCall
    <2> QED
        BY <1>6, <2>1, <2>2 DEF DeleteStep
<1>7. ASSUME NEW tok \in tokens, Expire(tok) PROVE Owned'
    BY <1>7 DEF Owned, Expire, db
<1>8. ASSUME NEW t \in Threads, RevokeFails(t) PROVE Owned'
    BY <1>8, BusyCall DEF TypeOK, Owned, RevokeFails, Goto, Call, NoCall, Pc, WriterPc, ReaderPc, LoginPc, RevokePc, db
<1>9. ASSUME NEW t \in Threads, LoginSetFails(t) PROVE Owned'
    BY <1>9, BusyCall DEF TypeOK, Owned, LoginSetFails, HandOut, CutShort, Return, Drawn, Token, Call, NoCall, ReaderPc, db
<1>10. ASSUME NEW t \in Threads, RevokeSetFails(t) PROVE Owned'
    BY <1>10, BusyCall DEF TypeOK, Owned, RevokeSetFails, CutShort, Return, Call, NoCall, ReaderPc, db
<1>11. ASSUME NEW t \in Threads, AnswerLost(t) PROVE Owned'
    <2>1. CASE ClearJti(t) /\ UNCHANGED ended
        BY <2>1, BusyCall DEF TypeOK, Owned, ClearJti, SetJti, Return, Call, NoCall, ReaderPc
    <2>2. CASE RemoveRow(t) /\ UNCHANGED ended
        BY <2>2, BusyCall DEF TypeOK, Owned, RemoveRow, RevokeJti, Return, Call, NoCall, ReaderPc
    <2> QED
        BY <1>11, <2>1, <2>2 DEF AnswerLost
<1>12. ASSUME NEW t \in Threads, Stops(t) PROVE Owned'
    BY <1>12, BusyCall DEF TypeOK, Owned, Stops, Idle, CutShort, Return, Call, NoCall, ReaderPc, db
<1> QED
    BY <1>1, <1>2, <1>3, <1>4, <1>5, <1>6, <1>7, <1>8, <1>9, <1>10, <1>11, <1>12, StepsByCall DEF Next, Faults

-----------------------------------------------------------------------------
(***************************************************************************)
(* The safety of the concurrent service, whatever fails.  An id that is    *)
(* revoked or not its user's current one stays so: only Login stores an id,*)
(* and a fresh one.  A RevokeTokens that revoked what it read has nothing  *)
(* but such ids among those drawn when it began, also if its write of      *)
(* token_jti fails; and a RefreshToken that began late can carry an id     *)
(* that is not revoked only when it is not the current one.                *)
(***************************************************************************)
Dead(j) == j \in revoked \/ tokenJti[owner[j]] # j

EndedDead == \A j \in ended : Dead(j)

InTime(h) ==
    /\ h.pc = "rev_revoke" => \A j \in h.before : Dead(j) \/ j = h.jti
    /\ h.pc = "rev_set" => \A j \in h.before : Dead(j)
    /\ h.pc = "ref_current" /\ h.jti \in h.before => tokenJti[h.uid] # h.jti
    /\ h.pc = "ref_user" => h.jti \notin h.before

HandlersInTime == \A t \in Threads : InTime(hnd[t])

IInv ==
    /\ TypeOK
    /\ Owned
    /\ EndedDead
    /\ HandlersInTime
    /\ StuckOnlyWhenCut

LEMMA InitIInv == Init => IInv
BY UsersAssumption, NullsAssumption
   DEF Init, IInv, TypeOK, Owned, EndedDead, HandlersInTime, InTime, StuckOnlyWhenCut, NoCall, ReaderPc

(* Nothing leaves tokens_revoked, and no drawn id becomes current again.   *)
LEMMA Monotone ==
    ASSUME TypeOK, Owned, [Next]_vars, NEW j \in Jti, owner[j] # NoUser
    PROVE  /\ revoked \subseteq revoked'
           /\ owner'[j] = owner[j]
           /\ tokenJti'[owner[j]] = j => tokenJti[owner[j]] = j
<1> USE UsersAssumption, NullsAssumption
<1>0. owner'[j] = owner[j] /\ owner[j] \in Users
    BY OwnerStable DEF TypeOK
<1> DEFINE Goal == revoked \subseteq revoked' /\ (tokenJti'[owner[j]] = j => tokenJti[owner[j]] = j)
<1>1. CASE UNCHANGED vars
    BY <1>1 DEF vars
<1>2. ASSUME NEW t \in Threads, LoginStep(t) PROVE Goal
    <2>1. ASSUME NEW u \in Users, LoginFindUser(t, u) PROVE Goal
        BY <2>1, <1>0 DEF TypeOK, LoginFindUser, Begin, db
    <2>2. CASE LoginUpgradeHash(t)
        BY <2>2, <1>0, BusyCall DEF TypeOK, LoginUpgradeHash, Goto, Call, NoCall
    <2>3. CASE LoginReadPrevious(t)
        BY <2>3, <1>0, BusyCall DEF TypeOK, LoginReadPrevious, ReadJti, Call, db
    <2>4. CASE LoginRevokePrevious(t)
        BY <2>4, <1>0, BusyCall DEF TypeOK, LoginRevokePrevious, RevokeJti, Goto, Call, NoCall
    <2>5. CASE LoginSetJti(t)
        BY <2>5, <1>0, BusyCall DEF TypeOK, LoginSetJti, HandOut, SetJti, Return, Drawn, Token, Call, NoCall
    <2> QED
        BY <1>2, <2>1, <2>2, <2>3, <2>4, <2>5 DEF LoginStep
<1>3. ASSUME NEW t \in Threads, ValidateStep(t) PROVE Goal
    <2>1. ASSUME NEW tok \in tokens, ValidateRevoked(t, tok) PROVE Goal
        BY <2>1, <1>0 DEF TypeOK, ValidateRevoked, TokenRevoked, Begin, Token, db
    <2>2. CASE ValidateCurrent(t)
        BY <2>2, <1>0, BusyCall DEF TypeOK, ValidateCurrent, Goto, Return, Call, NoCall, db
    <2> QED
        BY <1>3, <2>1, <2>2 DEF ValidateStep
<1>4. ASSUME NEW t \in Threads, RefreshStep(t) PROVE Goal
    <2>1. ASSUME NEW tok \in tokens, RefreshRevoked(t, tok) PROVE Goal
        BY <2>1, <1>0 DEF TypeOK, RefreshRevoked, TokenRevoked, Begin, Token, db
    <2>2. CASE RefreshCurrent(t)
        BY <2>2, <1>0, BusyCall DEF TypeOK, RefreshCurrent, Goto, Return, Call, NoCall, db
    <2>3. CASE RefreshReply(t)
        BY <2>3, <1>0, BusyCall DEF TypeOK, RefreshReply, Return, ReaderPc, Call, NoCall, db
    <2> QED
        BY <1>4, <2>1, <2>2, <2>3 DEF RefreshStep
<1>5. ASSUME NEW t \in Threads, RevokeStep(t) PROVE Goal
    <2>1. ASSUME NEW tok \in tokens, NEW u \in Users, RevokeBegin(t, tok, u) PROVE Goal
        BY <2>1, <1>0 DEF TypeOK, RevokeBegin, Begin, Drawn, db
    <2>2. CASE RevokeRead(t)
        BY <2>2, <1>0, BusyCall DEF TypeOK, RevokeRead, ReadJti, Call, db
    <2>3. CASE RevokeCurrent(t)
        BY <2>3, <1>0, BusyCall DEF TypeOK, RevokeCurrent, RevokeJti, Goto, Call, NoCall
    <2>4. CASE RevokeClear(t)
        BY <2>4, <1>0, BusyCall DEF TypeOK, RevokeClear, ClearJti, SetJti, Return, Call, NoCall
    <2> QED
        BY <1>5, <2>1, <2>2, <2>3, <2>4 DEF RevokeStep
<1>6. ASSUME NEW t \in Threads, DeleteStep(t) PROVE Goal
    <2>1. ASSUME NEW tok \in tokens, NEW u \in Users, DeleteUserBegin(t, tok, u) PROVE Goal
        BY <2>1, <1>0 DEF TypeOK, DeleteUserBegin, Begin, Drawn, db
    <2>2. CASE DeleteUserRow(t)
        BY <2>2, <1>0, BusyCall DEF TypeOK, DeleteUserRow, RemoveRow, RevokeJti, Return, Call, NoCall
    <2> QED
        BY <1>6, <2>1, <2>2 DEF DeleteStep
<1>7. ASSUME NEW tok \in tokens, Expire(tok) PROVE Goal
    BY <1>7, <1>0 DEF TypeOK, Expire, db
<1>8. ASSUME NEW t \in Threads, RevokeFails(t) \/ LoginSetFails(t) \/ RevokeSetFails(t) \/ Stops(t)
      PROVE  Goal
    BY <1>8 DEF RevokeFails, LoginSetFails, RevokeSetFails, Stops, db
<1>9. ASSUME NEW t \in Threads, AnswerLost(t) PROVE Goal
    <2>1. CASE ClearJti(t)
        BY <2>1, <1>0, BusyCall DEF TypeOK, ClearJti, SetJti
    <2>2. CASE RemoveRow(t)
        BY <2>2, <1>0, BusyCall DEF TypeOK, RemoveRow, RevokeJti
    <2> QED
        BY <1>9, <2>1, <2>2 DEF AnswerLost
<1> QED
    BY <1>0, <1>1, <1>2, <1>3, <1>4, <1>5, <1>6, <1>7, <1>8, <1>9, StepsByCall DEF Next, Faults

LEMMA DeadStays ==
    ASSUME TypeOK, Owned, [Next]_vars, NEW j \in Jti, owner[j] # NoUser, Dead(j)
    PROVE  Dead(j)'
BY Monotone DEF Dead

(* What holds of a handler that does not move goes on holding.             *)
LEMMA HandlerKept ==
    ASSUME TypeOK, Owned, [Next]_vars, NEW s \in Threads, InTime(hnd[s]), hnd'[s] = hnd[s]
    PROVE  InTime(hnd[s])'
<1> USE UsersAssumption, NullsAssumption
<1>1. CASE hnd[s].pc = "idle"
    BY <1>1 DEF InTime
<1>2. CASE hnd[s].pc # "idle"
    <2>1. hnd[s] \in Call /\ hnd[s].uid \in Users
        BY <1>2, BusyCall
    <2>2. \A j \in hnd[s].before : j \in Jti /\ owner[j] = hnd[s].uid /\ owner[j] # NoUser
        BY <2>1 DEF Owned, Call
    <2>3. \A j \in hnd[s].before : Dead(j) => Dead(j)'
        BY <2>2, DeadStays
    <2>4. ASSUME hnd[s].jti \in hnd[s].before, tokenJti[hnd[s].uid] # hnd[s].jti
          PROVE  tokenJti'[hnd[s].uid] # hnd[s].jti
        BY <2>2, <2>4, Monotone
    <2> QED
        BY <2>3, <2>4 DEF InTime
<1> QED
    BY <1>1, <1>2

Moves(t) == \A s \in Threads \ {t} : hnd'[s] = hnd[s]

LEMMA OthersInTime ==
    ASSUME IInv, [Next]_vars, NEW t \in Threads, Moves(t), InTime(hnd[t])'
    PROVE  HandlersInTime'
<1> SUFFICES ASSUME NEW s \in Threads PROVE InTime(hnd[s])'
    BY DEF HandlersInTime
<1>1. CASE s = t
    BY <1>1
<1>2. CASE s # t
    <2>1. hnd'[s] = hnd[s] /\ TypeOK /\ Owned /\ InTime(hnd[s])
        BY <1>2 DEF Moves, IInv, HandlersInTime
    <2> QED
        BY <2>1, HandlerKept
<1> QED
    BY <1>1, <1>2

Watched == {"rev_revoke", "rev_set", "ref_current", "ref_user"}

(* A step that brings its handler to none of these needs no more.          *)
LEMMA UnwatchedStep ==
    ASSUME IInv, [Next]_vars, NEW t \in Threads, Moves(t), hnd'[t].pc \notin Watched
    PROVE  HandlersInTime'
<1>1. InTime(hnd[t])'
    BY DEF InTime, Watched
<1> QED
    BY <1>1, OthersInTime

LEMMA BeginMoves ==
    ASSUME TypeOK, NEW t \in Threads, NEW pc, NEW u, NEW j, NEW before, Begin(t, pc, u, j, before)
    PROVE  /\ Moves(t)
           /\ hnd'[t] = [pc |-> pc, uid |-> u, jti |-> j, before |-> before]
BY DEF TypeOK, Begin, Moves

LEMMA ReturnMoves ==
    ASSUME TypeOK, NEW t \in Threads, Return(t)
    PROVE  Moves(t) /\ hnd'[t].pc = "idle"
BY DEF TypeOK, Return, Moves, NoCall

LEMMA GotoMoves ==
    ASSUME TypeOK, NEW t \in Threads, NEW pc, hnd[t].pc # "idle", Goto(t, pc)
    PROVE  /\ Moves(t) /\ hnd'[t].pc = pc
           /\ hnd'[t].uid = hnd[t].uid /\ hnd'[t].jti = hnd[t].jti /\ hnd'[t].before = hnd[t].before
<1>1. hnd[t] \in Call
    BY BusyCall
<1>2. hnd' = [hnd EXCEPT ![t].pc = pc]
    BY DEF Goto
<1> QED
    BY <1>1, <1>2 DEF TypeOK, Moves, Call

LEMMA ReadMoves ==
    ASSUME TypeOK, NEW t \in Threads, NEW pc, hnd[t].pc # "idle", ReadJti(t, pc)
    PROVE  /\ Moves(t) /\ hnd'[t].pc = pc
           /\ hnd'[t].jti = tokenJti[hnd[t].uid] /\ hnd'[t].before = hnd[t].before
<1>1. hnd[t] \in Call
    BY BusyCall
<1>2. hnd' = [hnd EXCEPT ![t] = [hnd[t] EXCEPT !.pc = pc, !.jti = tokenJti[hnd[t].uid]]]
    BY DEF ReadJti
<1> QED
    BY <1>1, <1>2 DEF TypeOK, Moves, Call

LEMMA HandlersStep == IInv /\ [Next]_vars => HandlersInTime'
<1> SUFFICES ASSUME IInv, [Next]_vars PROVE HandlersInTime'
    OBVIOUS
<1> USE UsersAssumption, NullsAssumption
<1>0. TypeOK /\ Owned /\ EndedDead /\ HandlersInTime
    BY DEF IInv
<1>1. CASE UNCHANGED vars
    BY <1>0, <1>1 DEF HandlersInTime, InTime, Dead, vars
<1>2. ASSUME NEW t \in Threads, NEW tok \in tokens, RefreshRevoked(t, tok)
      PROVE  HandlersInTime'
    <2> DEFINE h == [pc |-> "ref_current", uid |-> tok.uid, jti |-> tok.jti,
                     before |-> ended \intersect {tok.jti}]
    <2>1. Moves(t) /\ hnd'[t] = h
        BY <1>0, <1>2, BeginMoves DEF RefreshRevoked
    <2>2. owner[tok.jti] = tok.uid /\ tok.jti \notin revoked /\ UNCHANGED tokenJti
        BY <1>0, <1>2 DEF RefreshRevoked, TokenRevoked, Owned, db
    <2>3. tok.jti \in ended => tokenJti'[tok.uid] # tok.jti
        BY <1>0, <2>2 DEF EndedDead, Dead
    <2>4. InTime(hnd[t])'
        BY <2>1, <2>3 DEF InTime
    <2> QED
        BY <2>1, <2>4, OthersInTime
<1>3. ASSUME NEW t \in Threads, RefreshCurrent(t)
      PROVE  HandlersInTime'
    <2>1. CASE tokenJti[hnd[t].uid] = hnd[t].jti
        <3>1. Moves(t) /\ hnd'[t].pc = "ref_user" /\ hnd'[t].jti = hnd[t].jti
                       /\ hnd'[t].before = hnd[t].before
            BY <1>0, <1>3, <2>1, GotoMoves DEF RefreshCurrent
        <3>2. hnd[t].jti \notin hnd[t].before
            BY <1>0, <1>3, <2>1 DEF HandlersInTime, InTime, RefreshCurrent
        <3>3. InTime(hnd[t])'
            BY <3>1, <3>2 DEF InTime
        <3> QED
            BY <3>1, <3>3, OthersInTime
    <2>2. CASE tokenJti[hnd[t].uid] # hnd[t].jti
        BY <1>0, <1>3, <2>2, ReturnMoves, UnwatchedStep DEF RefreshCurrent, Watched
    <2> QED
        BY <2>1, <2>2
<1>4. ASSUME NEW t \in Threads, RevokeRead(t)
      PROVE  HandlersInTime'
    <2>1. Moves(t) /\ hnd'[t].pc = "rev_revoke" /\ hnd'[t].jti = tokenJti[hnd[t].uid]
                   /\ hnd'[t].before = hnd[t].before
        BY <1>0, <1>4, ReadMoves DEF RevokeRead
    <2>2. \A j \in hnd[t].before : owner[j] = hnd[t].uid
        BY <1>0 DEF Owned
    <2>3. UNCHANGED <<tokenJti, owner, revoked>>
        BY <1>4 DEF RevokeRead, db
    <2>4. InTime(hnd[t])'
        BY <2>1, <2>2, <2>3 DEF InTime, Dead
    <2> QED
        BY <2>1, <2>4, OthersInTime
<1>5. ASSUME NEW t \in Threads, RevokeCurrent(t)
      PROVE  HandlersInTime'
    <2>1. Moves(t) /\ hnd'[t].pc = "rev_set" /\ hnd'[t].before = hnd[t].before
        BY <1>0, <1>5, GotoMoves DEF RevokeCurrent
    <2>2. hnd[t] \in Call /\ hnd[t].uid \in Users
        BY <1>0, <1>5, BusyCall DEF RevokeCurrent
    <2>3. \A j \in hnd[t].before : j \in Jti /\ (Dead(j) \/ j = hnd[t].jti)
        BY <1>0, <1>5, <2>2 DEF HandlersInTime, InTime, RevokeCurrent, Call
    <2>4. UNCHANGED <<tokenJti, owner>> /\ revoked' = revoked \union ({hnd[t].jti} \ {NoJti})
        BY <1>5 DEF RevokeCurrent, RevokeJti
    <2>5. \A j \in hnd[t].before : Dead(j)'
        BY <2>3, <2>4 DEF Dead
    <2>6. InTime(hnd[t])'
        BY <2>1, <2>5 DEF InTime
    <2> QED
        BY <2>1, <2>6, OthersInTime
<1>6. ASSUME NEW t \in Threads,
             \/ \E u \in Users : LoginFindUser(t, u)
             \/ \E tok \in tokens : ValidateRevoked(t, tok)
             \/ \E tok \in tokens, u \in Users : RevokeBegin(t, tok, u) \/ DeleteUserBegin(t, tok, u)
      PROVE  HandlersInTime'
    <2>1. PICK pc \in {"login_hash", "login_read", "val_current", "rev_read", "del_row"} :
              \E u, j, before : Begin(t, pc, u, j, before)
        BY <1>6 DEF LoginFindUser, ValidateRevoked, RevokeBegin, DeleteUserBegin
    <2>2. PICK u, j, before : Begin(t, pc, u, j, before)
        BY <2>1
    <2>3. Moves(t) /\ hnd'[t] = [pc |-> pc, uid |-> u, jti |-> j, before |-> before]
        BY ONLY <1>0, <2>2, BeginMoves, t \in Threads
    <2>4. Moves(t) /\ hnd'[t].pc = pc
        BY <2>3
    <2> QED
        BY <2>1, <2>4, UnwatchedStep DEF Watched
<1>7. ASSUME NEW t \in Threads,
             LoginUpgradeHash(t) \/ LoginRevokePrevious(t) \/ RevokeFails(t)
      PROVE  HandlersInTime'
    <2>1. hnd[t].pc # "idle" /\ \E pc \in {"login_read", "login_set", "rev_only_set"} : Goto(t, pc)
        BY <1>7 DEF LoginUpgradeHash, LoginRevokePrevious, RevokeFails
    <2>2. Moves(t) /\ hnd'[t].pc \in {"login_read", "login_set", "rev_only_set"}
        BY <1>0, <2>1, GotoMoves
    <2> QED
        BY <2>2, UnwatchedStep DEF Watched
<1>8. ASSUME NEW t \in Threads, LoginReadPrevious(t)
      PROVE  HandlersInTime'
    <2>1. Moves(t) /\ hnd'[t].pc = "login_revoke"
        BY <1>0, <1>8, ReadMoves DEF LoginReadPrevious
    <2> QED
        BY <2>1, UnwatchedStep DEF Watched
<1>9. ASSUME NEW t \in Threads, ValidateCurrent(t)
      PROVE  HandlersInTime'
    <2>1. hnd[t].pc # "idle" /\ (Goto(t, "val_ok") \/ Return(t))
        BY <1>9 DEF ValidateCurrent
    <2>2. Moves(t) /\ hnd'[t].pc \in {"val_ok", "idle"}
        BY <1>0, <2>1, GotoMoves, ReturnMoves
    <2> QED
        BY <2>2, UnwatchedStep DEF Watched
<1>10. ASSUME NEW t \in Threads, Return(t)
       PROVE  HandlersInTime'
    BY <1>0, <1>10, ReturnMoves, UnwatchedStep DEF Watched
<1>11. ASSUME NEW tok \in tokens, Expire(tok)
       PROVE  HandlersInTime'
    BY <1>0, <1>11 DEF HandlersInTime, InTime, Dead, Expire, db
<1>12. ASSUME NEW t \in Threads,
              LoginSetJti(t) \/ RefreshReply(t) \/ RevokeClear(t) \/ DeleteUserRow(t)
       PROVE  HandlersInTime'
    BY <1>10, <1>12 DEF LoginSetJti, HandOut, RefreshReply, RevokeClear, ClearJti, DeleteUserRow, RemoveRow
<1>13. ASSUME NEW t \in Threads,
              LoginSetFails(t) \/ RevokeSetFails(t) \/ AnswerLost(t) \/ Stops(t)
       PROVE  HandlersInTime'
    BY <1>10, <1>13 DEF LoginSetFails, HandOut, RevokeSetFails, AnswerLost, ClearJti, RemoveRow, Stops
<1>14. ASSUME NEW t \in Threads, LoginStep(t) \/ ValidateStep(t) \/ RefreshStep(t)
       PROVE  HandlersInTime'
    BY <1>2, <1>3, <1>6, <1>7, <1>8, <1>9, <1>12, <1>14 DEF LoginStep, ValidateStep, RefreshStep
<1>15. ASSUME NEW t \in Threads, RevokeStep(t) \/ DeleteStep(t)
       PROVE  HandlersInTime'
    BY <1>4, <1>5, <1>6, <1>12, <1>15 DEF RevokeStep, DeleteStep
<1> QED
    BY <1>1, <1>7, <1>11, <1>13, <1>14, <1>15, StepsByCall DEF Next, Faults

(* An id is acknowledged as ended when it is dead: its row is gone, its    *)
(* user's token_jti was cleared, or the revocation went through.           *)
LEMMA EndedStep == IInv /\ [Next]_vars => EndedDead'
<1> SUFFICES ASSUME IInv, [Next]_vars PROVE EndedDead'
    OBVIOUS
<1> USE UsersAssumption, NullsAssumption
<1>0. TypeOK /\ Owned /\ EndedDead /\ HandlersInTime
    BY DEF IInv
<1>1. \A j \in ended : Dead(j)'
    <2>1. \A j \in ended : j \in Jti /\ owner[j] # NoUser /\ Dead(j)
        BY <1>0 DEF TypeOK, Owned, EndedDead
    <2> QED
        BY <1>0, <2>1, DeadStays
<1>2. CASE ended' = ended
    BY <1>1, <1>2 DEF EndedDead
<1>3. ASSUME NEW t \in Threads, \A j \in hnd[t].before : Dead(j)',
             ended' \in {ended, ended \union hnd[t].before}
      PROVE  EndedDead'
    BY <1>1, <1>3 DEF EndedDead
<1>4. ASSUME NEW t \in Threads, hnd[t].pc # "idle" PROVE \A j \in hnd[t].before :
          j \in Jti /\ owner[j] = hnd[t].uid /\ owner'[j] = owner[j] /\ owner[j] \in Users
                   /\ (Dead(j) => Dead(j)')
    <2>1. hnd[t] \in Call /\ hnd[t].uid \in Users
        BY <1>0, <1>4, BusyCall
    <2>2. \A j \in hnd[t].before : j \in Jti /\ owner[j] = hnd[t].uid /\ owner[j] # NoUser
        BY <1>0, <2>1 DEF Owned, Call
    <2> QED
        BY <1>0, <2>1, <2>2, DeadStays, Monotone
<1>5. ASSUME NEW t \in Threads, RevokeClear(t) PROVE EndedDead'
    <2>1. hnd[t].pc # "idle" /\ hnd[t].uid \in Users
        BY <1>0, <1>5, BusyCall DEF RevokeClear, ClearJti
    <2>2. tokenJti'[hnd[t].uid] = NoJti
        BY <1>0, <1>5, <2>1 DEF RevokeClear, ClearJti, SetJti, TypeOK, Owned
    <2>3. \A j \in hnd[t].before : Dead(j)'
        BY <1>4, <2>1, <2>2 DEF Dead
    <2> QED
        BY <1>3, <1>5, <2>3 DEF RevokeClear
<1>6. ASSUME NEW t \in Threads, DeleteUserRow(t) PROVE EndedDead'
    <2>1. hnd[t].pc # "idle" /\ hnd[t].uid \in Users
        BY <1>0, <1>6, BusyCall DEF DeleteUserRow, RemoveRow
    <2>2. tokenJti'[hnd[t].uid] = NoJti
        BY <1>0, <1>6, <2>1 DEF DeleteUserRow, RemoveRow, TypeOK
    <2>3. \A j \in hnd[t].before : Dead(j)'
        BY <1>4, <2>1, <2>2 DEF Dead
    <2> QED
        BY <1>3, <1>6, <2>3 DEF DeleteUserRow
<1>7. ASSUME NEW t \in Threads, RevokeSetFails(t) PROVE EndedDead'
    <2>1. CASE hnd[t].pc = "rev_set"
        <3>1. \A j \in hnd[t].before : Dead(j)
            BY <1>0, <2>1 DEF HandlersInTime, InTime
        <3>2. \A j \in hnd[t].before : Dead(j)'
            BY <1>4, <2>1, <3>1
        <3>3. ended' = ended \union hnd[t].before
            BY <1>7, <2>1 DEF RevokeSetFails
        <3> QED
            BY <1>3, <3>2, <3>3
    <2>2. CASE hnd[t].pc # "rev_set"
        BY <1>2, <1>7, <2>2 DEF RevokeSetFails
    <2> QED
        BY <2>1, <2>2
<1>8. ASSUME NEW t \in Threads, LoginStep(t) \/ ValidateStep(t) \/ RefreshStep(t)
      PROVE  EndedDead'
    BY <1>2, <1>8 DEF LoginStep, LoginFindUser, LoginUpgradeHash, LoginReadPrevious, LoginRevokePrevious,
       LoginSetJti, ValidateStep, ValidateRevoked, ValidateCurrent, RefreshStep, RefreshRevoked,
       RefreshCurrent, RefreshReply
<1>9. ASSUME NEW t \in Threads, RevokeStep(t) \/ DeleteStep(t)
      PROVE  EndedDead'
    BY <1>2, <1>5, <1>6, <1>9 DEF RevokeStep, RevokeBegin, RevokeRead, RevokeCurrent, DeleteStep,
       DeleteUserBegin
<1>10. ASSUME NEW t \in Threads, RevokeFails(t) \/ LoginSetFails(t) \/ AnswerLost(t) \/ Stops(t)
       PROVE  EndedDead'
    BY <1>2, <1>10 DEF RevokeFails, LoginSetFails, AnswerLost, Stops
<1> QED
    BY <1>2, <1>7, <1>8, <1>9, <1>10, StepsByCall DEF Next, Faults, Expire, vars

(* The start of a call takes no handler away from its replacement.         *)
LEMMA BeginKeepsExcuse ==
    ASSUME TypeOK, StuckOnlyWhenCut, NEW t \in Threads, NEW pc, NEW u, NEW j,
           NEW before, Begin(t, pc, u, j, before), UNCHANGED <<db, cut>>
    PROVE  StuckOnlyWhenCut'
<1> SUFFICES ASSUME NEW v \in live, tokenJti[v] \in revoked, v \notin cut
             PROVE  \E s \in Threads : /\ hnd'[s].pc \in {"login_set", "rev_set"}
                                       /\ hnd'[s].uid = v
                                       /\ hnd'[s].jti = tokenJti[v]
    BY DEF StuckOnlyWhenCut, db
<1>1. PICK s \in Threads : /\ hnd[s].pc \in {"login_set", "rev_set"}
                           /\ hnd[s].uid = v
                           /\ hnd[s].jti = tokenJti[v]
    BY DEF StuckOnlyWhenCut
<1>2. s # t
    BY <1>1 DEF Begin, Idle
<1>3. hnd'[s] = hnd[s]
    BY <1>2 DEF Begin, TypeOK
<1> QED
    BY <1>1, <1>3

LEMMA ExcuseStep == IInv /\ [Next]_vars => StuckOnlyWhenCut'
<1> SUFFICES ASSUME IInv, [Next]_vars PROVE StuckOnlyWhenCut'
    OBVIOUS
<1> USE UsersAssumption, NullsAssumption
<1>0. TypeOK /\ Owned /\ StuckOnlyWhenCut /\ TypeOK'
    BY TypeStep DEF IInv
<1>1. CASE UNCHANGED vars
    BY <1>0, <1>1 DEF StuckOnlyWhenCut, vars
<1>2. ASSUME NEW t \in Threads, LoginStep(t) PROVE StuckOnlyWhenCut'
    <2>1. ASSUME NEW u \in Users, LoginFindUser(t, u) PROVE StuckOnlyWhenCut'
        BY <2>1, <1>0, BeginKeepsExcuse DEF LoginFindUser
    <2>2. CASE LoginUpgradeHash(t)
        BY <2>2, <1>0, BusyCall DEF TypeOK, Owned, StuckOnlyWhenCut, LoginUpgradeHash, Goto, Call, NoCall
    <2>3. CASE LoginReadPrevious(t)
        BY <2>3, <1>0, BusyCall DEF TypeOK, Owned, StuckOnlyWhenCut, LoginReadPrevious, ReadJti, Call, db
    <2>4. CASE LoginRevokePrevious(t)
        BY <2>4, <1>0, BusyCall DEF TypeOK, Owned, StuckOnlyWhenCut, LoginRevokePrevious, RevokeJti, Goto, Call, NoCall
    <2>5. CASE LoginSetJti(t)
        BY <2>5, <1>0, BusyCall DEF TypeOK, Owned, StuckOnlyWhenCut, LoginSetJti, HandOut, SetJti, Return, Drawn, Token, Call, NoCall
    <2> QED
        BY <1>2, <2>1, <2>2, <2>3, <2>4, <2>5 DEF LoginStep
<1>3. ASSUME NEW t \in Threads, ValidateStep(t) PROVE StuckOnlyWhenCut'
    <2>1. ASSUME NEW tok \in tokens, ValidateRevoked(t, tok) PROVE StuckOnlyWhenCut'
        BY <2>1, <1>0, BeginKeepsExcuse DEF ValidateRevoked, TokenRevoked
    <2>2. CASE ValidateCurrent(t)
        BY <2>2, <1>0, BusyCall DEF TypeOK, Owned, StuckOnlyWhenCut, ValidateCurrent, Goto, Return, Call, NoCall, db
    <2> QED
        BY <1>3, <2>1, <2>2 DEF ValidateStep
<1>4. ASSUME NEW t \in Threads, RefreshStep(t) PROVE StuckOnlyWhenCut'
    <2>1. ASSUME NEW tok \in tokens, RefreshRevoked(t, tok) PROVE StuckOnlyWhenCut'
        BY <2>1, <1>0, BeginKeepsExcuse DEF RefreshRevoked, TokenRevoked
    <2>2. CASE RefreshCurrent(t)
        BY <2>2, <1>0, BusyCall DEF TypeOK, Owned, StuckOnlyWhenCut, RefreshCurrent, Goto, Return, Call, NoCall, db
    <2>3. CASE RefreshReply(t)
        BY <2>3, <1>0, BusyCall DEF TypeOK, Owned, StuckOnlyWhenCut, RefreshReply, Return, ReaderPc, Call, NoCall, db
    <2> QED
        BY <1>4, <2>1, <2>2, <2>3 DEF RefreshStep
<1>5. ASSUME NEW t \in Threads, RevokeStep(t) PROVE StuckOnlyWhenCut'
    <2>1. ASSUME NEW tok \in tokens, NEW u \in Users, RevokeBegin(t, tok, u) PROVE StuckOnlyWhenCut'
        BY <2>1, <1>0, BeginKeepsExcuse DEF RevokeBegin
    <2>2. CASE RevokeRead(t)
        BY <2>2, <1>0, BusyCall DEF TypeOK, Owned, StuckOnlyWhenCut, RevokeRead, ReadJti, Call, db
    <2>3. CASE RevokeCurrent(t)
        BY <2>3, <1>0, BusyCall DEF TypeOK, Owned, StuckOnlyWhenCut, RevokeCurrent, RevokeJti, Goto, Call, NoCall
    <2>4. CASE RevokeClear(t)
        BY <2>4, <1>0, BusyCall DEF TypeOK, Owned, StuckOnlyWhenCut, RevokeClear, ClearJti, SetJti, Return, Call, NoCall
    <2> QED
        BY <1>5, <2>1, <2>2, <2>3, <2>4 DEF RevokeStep
<1>6. ASSUME NEW t \in Threads, DeleteStep(t) PROVE StuckOnlyWhenCut'
    <2>1. ASSUME NEW tok \in tokens, NEW u \in Users, DeleteUserBegin(t, tok, u) PROVE StuckOnlyWhenCut'
        BY <2>1, <1>0, BeginKeepsExcuse DEF DeleteUserBegin
    <2>2. CASE DeleteUserRow(t)
        BY <2>2, <1>0, BusyCall DEF TypeOK, Owned, StuckOnlyWhenCut, DeleteUserRow, RemoveRow, RevokeJti, Return, Call, NoCall
    <2> QED
        BY <1>6, <2>1, <2>2 DEF DeleteStep
<1>7. ASSUME NEW tok \in tokens, Expire(tok) PROVE StuckOnlyWhenCut'
    BY <1>7, <1>0 DEF TypeOK, Owned, StuckOnlyWhenCut, Expire, db
<1>8. ASSUME NEW t \in Threads, RevokeFails(t) PROVE StuckOnlyWhenCut'
    BY <1>8, <1>0, BusyCall DEF TypeOK, StuckOnlyWhenCut, RevokeFails, Goto, Call, NoCall, db
<1>9. ASSUME NEW t \in Threads, LoginSetFails(t) \/ RevokeSetFails(t) PROVE StuckOnlyWhenCut'
    BY <1>9, <1>0, BusyCall DEF TypeOK, StuckOnlyWhenCut, LoginSetFails, RevokeSetFails, HandOut, CutShort,
       Return, NoCall, db
<1>10. ASSUME NEW t \in Threads, AnswerLost(t) PROVE StuckOnlyWhenCut'
    <2>1. CASE ClearJti(t)
        BY <2>1, <1>0, BusyCall DEF TypeOK, Owned, StuckOnlyWhenCut, ClearJti, SetJti, Return, Call, NoCall
    <2>2. CASE RemoveRow(t)
        BY <2>2, <1>0, BusyCall DEF TypeOK, Owned, StuckOnlyWhenCut, RemoveRow, RevokeJti, Return, Call, NoCall
    <2> QED
        BY <1>10, <2>1, <2>2 DEF AnswerLost
<1>11. ASSUME NEW t \in Threads, Stops(t) PROVE StuckOnlyWhenCut'
    BY <1>11, <1>0, BusyCall DEF TypeOK, StuckOnlyWhenCut, Stops, SetPc, CutShort, Return, NoCall, Idle, db
<1> QED
    BY <1>1, <1>2, <1>3, <1>4, <1>5, <1>6, <1>7, <1>8, <1>9, <1>10, <1>11, StepsByCall DEF Next, Faults

LEMMA InvariantStep == IInv /\ [Next]_vars => IInv'
BY TypeStep, OwnedStep, EndedStep, HandlersStep, ExcuseStep DEF IInv

LEMMA Invariant == Spec => []IInv
BY InitIInv, InvariantStep, PTL DEF Spec

(* No refresh that begins after a logout or a deletion was acknowledged    *)
(* passes RefreshToken's checks, whatever calls overlap, fail or stop.     *)
THEOREM RefreshSafe == Spec => []NoRefreshAfterLogout
<1>1. IInv => NoRefreshAfterLogout
    BY DEF IInv, HandlersInTime, InTime, NoRefreshAfterLogout, Late
<1> QED
    BY <1>1, Invariant, PTL

(* A user whose current session is revoked has a Login or RevokeTokens     *)
(* under way that replaces it, or the last such call of the user ended     *)
(* without its write: nothing else, whatever calls overlap, leaves a user  *)
(* with a session that every call refuses.                                 *)
THEOREM CurrentSafe == Spec => []StuckOnlyWhenCut
BY Invariant, PTL DEF IInv

(* No step of any call, complete or failing, makes a drawn session id      *)
(* refreshable that was not.                                               *)
THEOREM NoResurrection == Spec => RefreshNeverResurrects
<1>1. ASSUME TypeOK, Owned, [Next]_vars, NEW j \in Jti, owner[j] # NoUser, ~Refreshable(j)
      PROVE  ~Refreshable(j)'
    BY <1>1, Monotone DEF Refreshable
<1>2. IInv /\ [Next]_vars =>
          [\A j \in Jti : owner[j] # NoUser /\ ~Refreshable(j) => ~Refreshable(j)']_vars
    BY <1>1 DEF IInv
<1> QED
    BY <1>2, Invariant, PTL DEF Spec, RefreshNeverResurrects

-----------------------------------------------------------------------------
(***************************************************************************)
(* The service with one session-changing call per user at a time.  The     *)
(* call finds users.token_jti as it read it, so the id it revokes is the   *)
(* one it replaces, and no id leaves users.token_jti without being in      *)
(* tokens_revoked first.                                                   *)
(***************************************************************************)
WritersCurrent ==
    \A t \in Threads :
        /\ hnd[t].pc # "rev_only_set"
        /\ hnd[t].pc \in LoginPc => hnd[t].uid \in live
        /\ hnd[t].pc \in {"login_revoke", "login_set", "rev_revoke", "rev_set"} =>
               hnd[t].jti = tokenJti[hnd[t].uid]
        /\ hnd[t].pc \in {"login_set", "rev_set"} =>
               hnd[t].jti \in revoked \union {NoJti}

EndedRevoked == ended \subseteq revoked

ReadersInTime ==
    \A t \in Threads : hnd[t].pc \in {"val_current", "val_ok"} => ~Late(t)

SInv ==
    /\ TypeOK
    /\ Owned
    /\ OneWriterPerUser
    /\ WritersCurrent
    /\ SessionsAccountedFor
    /\ EndedRevoked
    /\ ReadersInTime

LEMMA InitSInv == Init => SInv
BY UsersAssumption, NullsAssumption
   DEF Init, SInv, TypeOK, Owned, OneWriterPerUser, WritersCurrent, SessionsAccountedFor,
       EndedRevoked, ReadersInTime, NoCall, ReaderPc, WriterPc, LoginPc, RevokePc

\* A call that began goes on for the same user or returns.
LEMMA OneWriterStep == SInv /\ [SerialNext]_vars => OneWriterPerUser'
<1> SUFFICES ASSUME SInv, [SerialNext]_vars PROVE OneWriterPerUser'
    OBVIOUS
<1>0. TypeOK /\ OneWriterPerUser
    BY DEF SInv
<1> DEFINE Kept(t) ==
        \A s \in Threads :
            hnd'[s].pc \in WriterPc => hnd[s].pc \in WriterPc /\ hnd'[s].uid = hnd[s].uid
<1>1. CASE UNCHANGED vars
    BY <1>0, <1>1 DEF OneWriterPerUser, vars
<1>2. ASSUME NEW t \in Threads, WriterGoesOn(t) PROVE Kept(t)
    <2>1. hnd[t].pc \in WriterPc
        BY <1>2 DEF WriterGoesOn, LoginUpgradeHash, LoginReadPrevious, LoginRevokePrevious,
               LoginSetJti, HandOut, RevokeRead, RevokeCurrent, RevokeClear, ClearJti,
               DeleteUserRow, RemoveRow, WriterPc, LoginPc, RevokePc
    <2>2. CASE \E pc \in Pc : Goto(t, pc)
        BY <1>0, <2>1, <2>2, BusyCall DEF Goto, TypeOK, NoCall, Call
    <2>3. CASE \E pc \in Pc : ReadJti(t, pc)
        BY <1>0, <2>1, <2>3, BusyCall DEF ReadJti, TypeOK, NoCall, Call
    <2>4. CASE Return(t)
        BY <1>0, <2>1, <2>4 DEF Return, TypeOK, NoCall, WriterPc, LoginPc, RevokePc
    <2>5. (\E pc \in Pc : Goto(t, pc) \/ ReadJti(t, pc)) \/ Return(t)
        BY <1>2 DEF WriterGoesOn, LoginUpgradeHash, LoginReadPrevious, LoginRevokePrevious,
               LoginSetJti, HandOut, RevokeRead, RevokeCurrent, RevokeClear, ClearJti,
               DeleteUserRow, RemoveRow, Pc, WriterPc, LoginPc, RevokePc
    <2> QED
        BY <2>2, <2>3, <2>4, <2>5
<1>3. ASSUME NEW t \in Threads, ValidateStep(t) \/ RefreshStep(t) PROVE Kept(t)
    BY <1>0, <1>3, BusyCall DEF ValidateStep, ValidateRevoked, ValidateCurrent, RefreshStep,
           RefreshRevoked, RefreshCurrent, RefreshReply, Begin, Goto, Return, TypeOK, NoCall,
           Call, WriterPc, LoginPc, RevokePc
<1>4. ASSUME NEW tok \in tokens, Expire(tok) PROVE OneWriterPerUser'
    BY <1>0, <1>4 DEF Expire, OneWriterPerUser
<1>5. ASSUME NEW t \in Threads, Kept(t) PROVE OneWriterPerUser'
    BY <1>0, <1>5 DEF OneWriterPerUser
<1> HIDE DEF Kept
<1> QED
    BY <1>1, <1>2, <1>3, <1>4, <1>5 DEF SerialNext

LEMMA WritersStep == SInv /\ [SerialNext]_vars => WritersCurrent'
<1> SUFFICES ASSUME SInv, [SerialNext]_vars PROVE WritersCurrent'
    OBVIOUS
<1> USE UsersAssumption, NullsAssumption
<1>0. TypeOK /\ Owned /\ OneWriterPerUser /\ WritersCurrent /\ TypeOK' /\ [Steps]_vars
    BY TypeStep, SerialSteps DEF SInv, Next
<1>1. CASE UNCHANGED vars
    BY <1>0, <1>1 DEF WritersCurrent, vars
<1>2. ASSUME NEW t \in Threads, LoginStep(t) PROVE WritersCurrent'
    <2>1. ASSUME NEW u \in Users, LoginFindUser(t, u) PROVE WritersCurrent'
        BY <2>1, <1>0 DEF TypeOK, Owned, OneWriterPerUser, WritersCurrent, WriterPc, LoginPc, RevokePc, LoginFindUser, Begin, db
    <2>2. CASE LoginUpgradeHash(t)
        BY <2>2, <1>0, BusyCall DEF TypeOK, Owned, OneWriterPerUser, WritersCurrent, WriterPc, LoginPc, RevokePc, LoginUpgradeHash, Goto, Call, NoCall
    <2>3. CASE LoginReadPrevious(t)
        BY <2>3, <1>0, BusyCall DEF TypeOK, Owned, OneWriterPerUser, WritersCurrent, WriterPc, LoginPc, RevokePc, LoginReadPrevious, ReadJti, Call, db
    <2>4. CASE LoginRevokePrevious(t)
        BY <2>4, <1>0, BusyCall DEF TypeOK, Owned, OneWriterPerUser, WritersCurrent, WriterPc, LoginPc, RevokePc, LoginRevokePrevious, RevokeJti, Goto, Call, NoCall
    <2>5. CASE LoginSetJti(t)
        BY <2>5, <1>0, BusyCall DEF TypeOK, Owned, OneWriterPerUser, WritersCurrent, WriterPc, LoginPc, RevokePc, LoginSetJti, HandOut, SetJti, Return, Drawn, Token, Call, NoCall
    <2> QED
        BY <1>2, <2>1, <2>2, <2>3, <2>4, <2>5 DEF LoginStep
<1>3. ASSUME NEW t \in Threads, ValidateStep(t) PROVE WritersCurrent'
    <2>1. ASSUME NEW tok \in tokens, ValidateRevoked(t, tok) PROVE WritersCurrent'
        BY <2>1, <1>0 DEF TypeOK, Owned, OneWriterPerUser, WritersCurrent, WriterPc, LoginPc, RevokePc, ValidateRevoked, TokenRevoked, Begin, Token, db
    <2>2. CASE ValidateCurrent(t)
        BY <2>2, <1>0, BusyCall DEF TypeOK, Owned, OneWriterPerUser, WritersCurrent, WriterPc, LoginPc, RevokePc, ValidateCurrent, Goto, Return, Call, NoCall, db
    <2> QED
        BY <1>3, <2>1, <2>2 DEF ValidateStep
<1>4. ASSUME NEW t \in Threads, RefreshStep(t) PROVE WritersCurrent'
    <2>1. ASSUME NEW tok \in tokens, RefreshRevoked(t, tok) PROVE WritersCurrent'
        BY <2>1, <1>0 DEF TypeOK, Owned, OneWriterPerUser, WritersCurrent, WriterPc, LoginPc, RevokePc, RefreshRevoked, TokenRevoked, Begin, Token, db
    <2>2. CASE RefreshCurrent(t)
        BY <2>2, <1>0, BusyCall DEF TypeOK, Owned, OneWriterPerUser, WritersCurrent, WriterPc, LoginPc, RevokePc, RefreshCurrent, Goto, Return, Call, NoCall, db
    <2>3. CASE RefreshReply(t)
        BY <2>3, <1>0, BusyCall DEF TypeOK, Owned, OneWriterPerUser, WritersCurrent, WriterPc, LoginPc, RevokePc, RefreshReply, Return, ReaderPc, Call, NoCall, db
    <2> QED
        BY <1>4, <2>1, <2>2, <2>3 DEF RefreshStep
<1>5. ASSUME NEW t \in Threads, RevokeStep(t) PROVE WritersCurrent'
    <2>1. ASSUME NEW tok \in tokens, NEW u \in Users, RevokeBegin(t, tok, u) PROVE WritersCurrent'
        BY <2>1, <1>0 DEF TypeOK, Owned, OneWriterPerUser, WritersCurrent, WriterPc, LoginPc, RevokePc, RevokeBegin, Begin, Drawn, db
    <2>2. CASE RevokeRead(t)
        BY <2>2, <1>0, BusyCall DEF TypeOK, Owned, OneWriterPerUser, WritersCurrent, WriterPc, LoginPc, RevokePc, RevokeRead, ReadJti, Call, db
    <2>3. CASE RevokeCurrent(t)
        BY <2>3, <1>0, BusyCall DEF TypeOK, Owned, OneWriterPerUser, WritersCurrent, WriterPc, LoginPc, RevokePc, RevokeCurrent, RevokeJti, Goto, Call, NoCall
    <2>4. CASE RevokeClear(t)
        BY <2>4, <1>0, BusyCall DEF TypeOK, Owned, OneWriterPerUser, WritersCurrent, WriterPc, LoginPc, RevokePc, RevokeClear, ClearJti, SetJti, Return, Call, NoCall
    <2> QED
        BY <1>5, <2>1, <2>2, <2>3, <2>4 DEF RevokeStep
<1>6. ASSUME NEW t \in Threads, DeleteStep(t) PROVE WritersCurrent'
    <2>1. ASSUME NEW tok \in tokens, NEW u \in Users, DeleteUserBegin(t, tok, u) PROVE WritersCurrent'
        BY <2>1, <1>0 DEF TypeOK, Owned, OneWriterPerUser, WritersCurrent, WriterPc, LoginPc, RevokePc, DeleteUserBegin, Begin, Drawn, db
    <2>2. CASE DeleteUserRow(t)
        BY <2>2, <1>0, BusyCall DEF TypeOK, Owned, OneWriterPerUser, WritersCurrent, WriterPc, LoginPc, RevokePc, DeleteUserRow, RemoveRow, RevokeJti, Return, Call, NoCall
    <2> QED
        BY <1>6, <2>1, <2>2 DEF DeleteStep
<1>7. ASSUME NEW tok \in tokens, Expire(tok) PROVE WritersCurrent'
    BY <1>7, <1>0 DEF TypeOK, Owned, OneWriterPerUser, WritersCurrent, WriterPc, LoginPc, RevokePc, Expire, db
<1> QED
    BY <1>0, <1>1, <1>2, <1>3, <1>4, <1>5, <1>6, <1>7, StepsByCall

LEMMA AccountedStep == SInv /\ [SerialNext]_vars => SessionsAccountedFor'
<1> SUFFICES ASSUME SInv, [SerialNext]_vars PROVE SessionsAccountedFor'
    OBVIOUS
<1> USE UsersAssumption, NullsAssumption
<1>0. TypeOK /\ Owned /\ OneWriterPerUser /\ WritersCurrent /\ SessionsAccountedFor /\ TypeOK' /\ [Steps]_vars
    BY TypeStep, SerialSteps DEF SInv, Next
<1>1. CASE UNCHANGED vars
    BY <1>0, <1>1 DEF SessionsAccountedFor, vars
<1>2. ASSUME NEW t \in Threads, LoginStep(t) PROVE SessionsAccountedFor'
    <2>1. ASSUME NEW u \in Users, LoginFindUser(t, u) PROVE SessionsAccountedFor'
        BY <2>1, <1>0 DEF TypeOK, Owned, OneWriterPerUser, WritersCurrent, SessionsAccountedFor, WriterPc, LoginPc, RevokePc, LoginFindUser, Begin, db
    <2>2. CASE LoginUpgradeHash(t)
        BY <2>2, <1>0, BusyCall DEF TypeOK, Owned, OneWriterPerUser, WritersCurrent, SessionsAccountedFor, WriterPc, LoginPc, RevokePc, LoginUpgradeHash, Goto, Call, NoCall
    <2>3. CASE LoginReadPrevious(t)
        BY <2>3, <1>0, BusyCall DEF TypeOK, Owned, OneWriterPerUser, WritersCurrent, SessionsAccountedFor, WriterPc, LoginPc, RevokePc, LoginReadPrevious, ReadJti, Call, db
    <2>4. CASE LoginRevokePrevious(t)
        BY <2>4, <1>0, BusyCall DEF TypeOK, Owned, OneWriterPerUser, WritersCurrent, SessionsAccountedFor, WriterPc, LoginPc, RevokePc, LoginRevokePrevious, RevokeJti, Goto, Call, NoCall
    <2>5. CASE LoginSetJti(t)
        BY <2>5, <1>0, BusyCall DEF TypeOK, Owned, OneWriterPerUser, WritersCurrent, SessionsAccountedFor, WriterPc, LoginPc, RevokePc, LoginSetJti, HandOut, SetJti, Return, Drawn, Token, Call, NoCall
    <2> QED
        BY <1>2, <2>1, <2>2, <2>3, <2>4, <2>5 DEF LoginStep
<1>3. ASSUME NEW t \in Threads, ValidateStep(t) PROVE SessionsAccountedFor'
    <2>1. ASSUME NEW tok \in tokens, ValidateRevoked(t, tok) PROVE SessionsAccountedFor'
        BY <2>1, <1>0 DEF TypeOK, Owned, OneWriterPerUser, WritersCurrent, SessionsAccountedFor, WriterPc, LoginPc, RevokePc, ValidateRevoked, TokenRevoked, Begin, Token, db
    <2>2. CASE ValidateCurrent(t)
        BY <2>2, <1>0, BusyCall DEF TypeOK, Owned, OneWriterPerUser, WritersCurrent, SessionsAccountedFor, WriterPc, LoginPc, RevokePc, ValidateCurrent, Goto, Return, Call, NoCall, db
    <2> QED
        BY <1>3, <2>1, <2>2 DEF ValidateStep
<1>4. ASSUME NEW t \in Threads, RefreshStep(t) PROVE SessionsAccountedFor'
    <2>1. ASSUME NEW tok \in tokens, RefreshRevoked(t, tok) PROVE SessionsAccountedFor'
        BY <2>1, <1>0 DEF TypeOK, Owned, OneWriterPerUser, WritersCurrent, SessionsAccountedFor, WriterPc, LoginPc, RevokePc, RefreshRevoked, TokenRevoked, Begin, Token, db
    <2>2. CASE RefreshCurrent(t)
        BY <2>2, <1>0, BusyCall DEF TypeOK, Owned, OneWriterPerUser, WritersCurrent, SessionsAccountedFor, WriterPc, LoginPc, RevokePc, RefreshCurrent, Goto, Return, Call, NoCall, db
    <2>3. CASE RefreshReply(t)
        BY <2>3, <1>0, BusyCall DEF TypeOK, Owned, OneWriterPerUser, WritersCurrent, SessionsAccountedFor, WriterPc, LoginPc, RevokePc, RefreshReply, Return, ReaderPc, Call, NoCall, db
    <2> QED
        BY <1>4, <2>1, <2>2, <2>3 DEF RefreshStep
<1>5. ASSUME NEW t \in Threads, RevokeStep(t) PROVE SessionsAccountedFor'
    <2>1. ASSUME NEW tok \in tokens, NEW u \in Users, RevokeBegin(t, tok, u) PROVE SessionsAccountedFor'
        BY <2>1, <1>0 DEF TypeOK, Owned, OneWriterPerUser, WritersCurrent, SessionsAccountedFor, WriterPc, LoginPc, RevokePc, RevokeBegin, Begin, Drawn, db
    <2>2. CASE RevokeRead(t)
        BY <2>2, <1>0, BusyCall DEF TypeOK, Owned, OneWriterPerUser, WritersCurrent, SessionsAccountedFor, WriterPc, LoginPc, RevokePc, RevokeRead, ReadJti, Call, db
    <2>3. CASE RevokeCurrent(t)
        BY <2>3, <1>0, BusyCall DEF TypeOK, Owned, OneWriterPerUser, WritersCurrent, SessionsAccountedFor, WriterPc, LoginPc, RevokePc, RevokeCurrent, RevokeJti, Goto, Call, NoCall
    <2>4. CASE RevokeClear(t)
        BY <2>4, <1>0, BusyCall DEF TypeOK, Owned, OneWriterPerUser, WritersCurrent, SessionsAccountedFor, WriterPc, LoginPc, RevokePc, RevokeClear, ClearJti, SetJti, Return, Call, NoCall
    <2> QED
        BY <1>5, <2>1, <2>2, <2>3, <2>4 DEF RevokeStep
<1>6. ASSUME NEW t \in Threads, DeleteStep(t) PROVE SessionsAccountedFor'
    <2>1. ASSUME NEW tok \in tokens, NEW u \in Users, DeleteUserBegin(t, tok, u) PROVE SessionsAccountedFor'
        BY <2>1, <1>0 DEF TypeOK, Owned, OneWriterPerUser, WritersCurrent, SessionsAccountedFor, WriterPc, LoginPc, RevokePc, DeleteUserBegin, Begin, Drawn, db
    <2>2. CASE DeleteUserRow(t)
        BY <2>2, <1>0, BusyCall DEF TypeOK, Owned, OneWriterPerUser, WritersCurrent, SessionsAccountedFor, WriterPc, LoginPc, RevokePc, DeleteUserRow, RemoveRow, RevokeJti, Return, Call, NoCall
    <2> QED
        BY <1>6, <2>1, <2>2 DEF DeleteStep
<1>7. ASSUME NEW tok \in tokens, Expire(tok) PROVE SessionsAccountedFor'
    BY <1>7, <1>0 DEF TypeOK, Owned, OneWriterPerUser, WritersCurrent, SessionsAccountedFor, WriterPc, LoginPc, RevokePc, Expire, db
<1> QED
    BY <1>0, <1>1, <1>2, <1>3, <1>4, <1>5, <1>6, <1>7, StepsByCall

LEMMA EndedRevokedStep == SInv /\ [SerialNext]_vars => EndedRevoked'
<1> SUFFICES ASSUME SInv, [SerialNext]_vars PROVE EndedRevoked'
    OBVIOUS
<1> USE UsersAssumption, NullsAssumption
<1>0. TypeOK /\ Owned /\ WritersCurrent /\ SessionsAccountedFor /\ EndedRevoked /\ TypeOK' /\ [Steps]_vars
    BY TypeStep, SerialSteps DEF SInv, Next
<1>1. CASE UNCHANGED vars
    BY <1>0, <1>1 DEF EndedRevoked, vars
<1>2. ASSUME NEW t \in Threads, LoginStep(t) PROVE EndedRevoked'
    <2>1. ASSUME NEW u \in Users, LoginFindUser(t, u) PROVE EndedRevoked'
        BY <2>1, <1>0 DEF TypeOK, Owned, WritersCurrent, SessionsAccountedFor, EndedRevoked, LoginFindUser, Begin, db
    <2>2. CASE LoginUpgradeHash(t)
        BY <2>2, <1>0, BusyCall DEF TypeOK, Owned, WritersCurrent, SessionsAccountedFor, EndedRevoked, LoginUpgradeHash, Goto, Call, NoCall
    <2>3. CASE LoginReadPrevious(t)
        BY <2>3, <1>0, BusyCall DEF TypeOK, Owned, WritersCurrent, SessionsAccountedFor, EndedRevoked, LoginReadPrevious, ReadJti, Call, db
    <2>4. CASE LoginRevokePrevious(t)
        BY <2>4, <1>0, BusyCall DEF TypeOK, Owned, WritersCurrent, SessionsAccountedFor, EndedRevoked, LoginRevokePrevious, RevokeJti, Goto, Call, NoCall
    <2>5. CASE LoginSetJti(t)
        BY <2>5, <1>0, BusyCall DEF TypeOK, Owned, WritersCurrent, SessionsAccountedFor, EndedRevoked, LoginSetJti, HandOut, SetJti, Return, Drawn, Token, Call, NoCall
    <2> QED
        BY <1>2, <2>1, <2>2, <2>3, <2>4, <2>5 DEF LoginStep
<1>3. ASSUME NEW t \in Threads, ValidateStep(t) PROVE EndedRevoked'
    <2>1. ASSUME NEW tok \in tokens, ValidateRevoked(t, tok) PROVE EndedRevoked'
        BY <2>1, <1>0 DEF TypeOK, Owned, WritersCurrent, SessionsAccountedFor, EndedRevoked, ValidateRevoked, TokenRevoked, Begin, Token, db
    <2>2. CASE ValidateCurrent(t)
        BY <2>2, <1>0, BusyCall DEF TypeOK, Owned, WritersCurrent, SessionsAccountedFor, EndedRevoked, ValidateCurrent, Goto, Return, Call, NoCall, db
    <2> QED
        BY <1>3, <2>1, <2>2 DEF ValidateStep
<1>4. ASSUME NEW t \in Threads, RefreshStep(t) PROVE EndedRevoked'
    <2>1. ASSUME NEW tok \in tokens, RefreshRevoked(t, tok) PROVE EndedRevoked'
        BY <2>1, <1>0 DEF TypeOK, Owned, WritersCurrent, SessionsAccountedFor, EndedRevoked, RefreshRevoked, TokenRevoked, Begin, Token, db
    <2>2. CASE RefreshCurrent(t)
        BY <2>2, <1>0, BusyCall DEF TypeOK, Owned, WritersCurrent, SessionsAccountedFor, EndedRevoked, RefreshCurrent, Goto, Return, Call, NoCall, db
    <2>3. CASE RefreshReply(t)
        BY <2>3, <1>0, BusyCall DEF TypeOK, Owned, WritersCurrent, SessionsAccountedFor, EndedRevoked, RefreshReply, Return, ReaderPc, Call, NoCall, db
    <2> QED
        BY <1>4, <2>1, <2>2, <2>3 DEF RefreshStep
<1>5. ASSUME NEW t \in Threads, RevokeStep(t) PROVE EndedRevoked'
    <2>1. ASSUME NEW tok \in tokens, NEW u \in Users, RevokeBegin(t, tok, u) PROVE EndedRevoked'
        BY <2>1, <1>0 DEF TypeOK, Owned, WritersCurrent, SessionsAccountedFor, EndedRevoked, RevokeBegin, Begin, Drawn, db
    <2>2. CASE RevokeRead(t)
        BY <2>2, <1>0, BusyCall DEF TypeOK, Owned, WritersCurrent, SessionsAccountedFor, EndedRevoked, RevokeRead, ReadJti, Call, db
    <2>3. CASE RevokeCurrent(t)
        BY <2>3, <1>0, BusyCall DEF TypeOK, Owned, WritersCurrent, SessionsAccountedFor, EndedRevoked, RevokeCurrent, RevokeJti, Goto, Call, NoCall
    <2>4. CASE RevokeClear(t)
        BY <2>4, <1>0, BusyCall DEF TypeOK, Owned, WritersCurrent, SessionsAccountedFor, EndedRevoked, RevokeClear, ClearJti, SetJti, Return, Call, NoCall
    <2> QED
        BY <1>5, <2>1, <2>2, <2>3, <2>4 DEF RevokeStep
<1>6. ASSUME NEW t \in Threads, DeleteStep(t) PROVE EndedRevoked'
    <2>1. ASSUME NEW tok \in tokens, NEW u \in Users, DeleteUserBegin(t, tok, u) PROVE EndedRevoked'
        BY <2>1, <1>0 DEF TypeOK, Owned, WritersCurrent, SessionsAccountedFor, EndedRevoked, DeleteUserBegin, Begin, Drawn, db
    <2>2. CASE DeleteUserRow(t)
        BY <2>2, <1>0, BusyCall DEF TypeOK, Owned, WritersCurrent, SessionsAccountedFor, EndedRevoked, DeleteUserRow, RemoveRow, RevokeJti, Return, Call, NoCall
    <2> QED
        BY <1>6, <2>1, <2>2 DEF DeleteStep
<1>7. ASSUME NEW tok \in tokens, Expire(tok) PROVE EndedRevoked'
    BY <1>7, <1>0 DEF TypeOK, Owned, WritersCurrent, SessionsAccountedFor, EndedRevoked, Expire, db
<1> QED
    BY <1>0, <1>1, <1>2, <1>3, <1>4, <1>5, <1>6, <1>7, StepsByCall

LEMMA ReadersStep == SInv /\ [SerialNext]_vars => ReadersInTime'
<1> SUFFICES ASSUME SInv, [SerialNext]_vars PROVE ReadersInTime'
    OBVIOUS
<1> USE UsersAssumption, NullsAssumption
<1>0. TypeOK /\ Owned /\ EndedRevoked /\ ReadersInTime /\ TypeOK' /\ [Steps]_vars
    BY TypeStep, SerialSteps DEF SInv, Next
<1>1. CASE UNCHANGED vars
    BY <1>0, <1>1 DEF ReadersInTime, Late, vars
<1>2. ASSUME NEW t \in Threads, LoginStep(t) PROVE ReadersInTime'
    <2>1. ASSUME NEW u \in Users, LoginFindUser(t, u) PROVE ReadersInTime'
        BY <2>1, <1>0 DEF TypeOK, Owned, EndedRevoked, ReadersInTime, Late, LoginFindUser, Begin, db
    <2>2. CASE LoginUpgradeHash(t)
        BY <2>2, <1>0, BusyCall DEF TypeOK, Owned, EndedRevoked, ReadersInTime, Late, LoginUpgradeHash, Goto, Call, NoCall
    <2>3. CASE LoginReadPrevious(t)
        BY <2>3, <1>0, BusyCall DEF TypeOK, Owned, EndedRevoked, ReadersInTime, Late, LoginReadPrevious, ReadJti, Call, db
    <2>4. CASE LoginRevokePrevious(t)
        BY <2>4, <1>0, BusyCall DEF TypeOK, Owned, EndedRevoked, ReadersInTime, Late, LoginRevokePrevious, RevokeJti, Goto, Call, NoCall
    <2>5. CASE LoginSetJti(t)
        BY <2>5, <1>0, BusyCall DEF TypeOK, Owned, EndedRevoked, ReadersInTime, Late, LoginSetJti, HandOut, SetJti, Return, Drawn, Token, Call, NoCall
    <2> QED
        BY <1>2, <2>1, <2>2, <2>3, <2>4, <2>5 DEF LoginStep
<1>3. ASSUME NEW t \in Threads, ValidateStep(t) PROVE ReadersInTime'
    <2>1. ASSUME NEW tok \in tokens, ValidateRevoked(t, tok) PROVE ReadersInTime'
        BY <2>1, <1>0 DEF TypeOK, Owned, EndedRevoked, ReadersInTime, Late, ValidateRevoked, TokenRevoked, Begin, Token, db
    <2>2. CASE ValidateCurrent(t)
        BY <2>2, <1>0, BusyCall DEF TypeOK, Owned, EndedRevoked, ReadersInTime, Late, ValidateCurrent, Goto, Return, Call, NoCall, db
    <2> QED
        BY <1>3, <2>1, <2>2 DEF ValidateStep
<1>4. ASSUME NEW t \in Threads, RefreshStep(t) PROVE ReadersInTime'
    <2>1. ASSUME NEW tok \in tokens, RefreshRevoked(t, tok) PROVE ReadersInTime'
        BY <2>1, <1>0 DEF TypeOK, Owned, EndedRevoked, ReadersInTime, Late, RefreshRevoked, TokenRevoked, Begin, Token, db
    <2>2. CASE RefreshCurrent(t)
        BY <2>2, <1>0, BusyCall DEF TypeOK, Owned, EndedRevoked, ReadersInTime, Late, RefreshCurrent, Goto, Return, Call, NoCall, db
    <2>3. CASE RefreshReply(t)
        BY <2>3, <1>0, BusyCall DEF TypeOK, Owned, EndedRevoked, ReadersInTime, Late, RefreshReply, Return, ReaderPc, Call, NoCall, db
    <2> QED
        BY <1>4, <2>1, <2>2, <2>3 DEF RefreshStep
<1>5. ASSUME NEW t \in Threads, RevokeStep(t) PROVE ReadersInTime'
    <2>1. ASSUME NEW tok \in tokens, NEW u \in Users, RevokeBegin(t, tok, u) PROVE ReadersInTime'
        BY <2>1, <1>0 DEF TypeOK, Owned, EndedRevoked, ReadersInTime, Late, RevokeBegin, Begin, Drawn, db
    <2>2. CASE RevokeRead(t)
        BY <2>2, <1>0, BusyCall DEF TypeOK, Owned, EndedRevoked, ReadersInTime, Late, RevokeRead, ReadJti, Call, db
    <2>3. CASE RevokeCurrent(t)
        BY <2>3, <1>0, BusyCall DEF TypeOK, Owned, EndedRevoked, ReadersInTime, Late, RevokeCurrent, RevokeJti, Goto, Call, NoCall
    <2>4. CASE RevokeClear(t)
        BY <2>4, <1>0, BusyCall DEF TypeOK, Owned, EndedRevoked, ReadersInTime, Late, RevokeClear, ClearJti, SetJti, Return, Call, NoCall
    <2> QED
        BY <1>5, <2>1, <2>2, <2>3, <2>4 DEF RevokeStep
<1>6. ASSUME NEW t \in Threads, DeleteStep(t) PROVE ReadersInTime'
    <2>1. ASSUME NEW tok \in tokens, NEW u \in Users, DeleteUserBegin(t, tok, u) PROVE ReadersInTime'
        BY <2>1, <1>0 DEF TypeOK, Owned, EndedRevoked, ReadersInTime, Late, DeleteUserBegin, Begin, Drawn, db
    <2>2. CASE DeleteUserRow(t)
        BY <2>2, <1>0, BusyCall DEF TypeOK, Owned, EndedRevoked, ReadersInTime, Late, DeleteUserRow, RemoveRow, RevokeJti, Return, Call, NoCall
    <2> QED
        BY <1>6, <2>1, <2>2 DEF DeleteStep
<1>7. ASSUME NEW tok \in tokens, Expire(tok) PROVE ReadersInTime'
    BY <1>7, <1>0 DEF TypeOK, Owned, EndedRevoked, ReadersInTime, Late, Expire, db
<1> QED
    BY <1>0, <1>1, <1>2, <1>3, <1>4, <1>5, <1>6, <1>7, StepsByCall

LEMMA SerialInvariantStep == SInv /\ [SerialNext]_vars => SInv'
<1> SUFFICES ASSUME SInv, [SerialNext]_vars PROVE SInv'
    OBVIOUS
<1>1. TypeOK' /\ Owned'
    BY TypeStep, OwnedStep, SerialSteps DEF SInv, Next
<1>2. OneWriterPerUser'
    BY OneWriterStep DEF SInv
<1> QED
    BY <1>1, <1>2, WritersStep, AccountedStep, EndedRevokedStep, ReadersStep DEF SInv

LEMMA SerialInvariant == SerialSpec => []SInv
BY InitSInv, SerialInvariantStep, PTL DEF SerialSpec

(* One session-changing call per user at a time: every id ever drawn is    *)
(* revoked or the current one of a user who has a row.                     *)
THEOREM AllSessionsAccountedFor == SerialSpec => []SessionsAccountedFor
BY SerialInvariant, PTL DEF SInv

(* One session-changing call per user at a time: no validation that begins *)
(* after the end of a session was acknowledged accepts it.                 *)
THEOREM LogoutSafe == SerialSpec => []NoAcceptAfterLogout
<1>1. SInv => NoAcceptAfterLogout
    BY DEF SInv, ReadersInTime, NoAcceptAfterLogout
<1> QED
    BY <1>1, SerialInvariant, PTL

-----------------------------------------------------------------------------
(***************************************************************************)
(* Refinement: the accepted ids are those drawn and not revoked, so a step *)
(* that draws an id opens it, a step that revokes one closes it, and every *)
(* other step changes nothing the abstract authority can see.              *)
(***************************************************************************)
LEMMA AcceptedIsUnrevoked ==
    ASSUME SInv, NEW j \in Jti
    PROVE  Accepts(j) <=> owner[j] # NoUser /\ j \notin revoked
BY DEF SInv, SessionsAccountedFor, Accepts, CurrentAllows

Draws(u, j) ==
    /\ owner[j] = NoUser
    /\ \A k \in Jti : owner[k] = u => k \in revoked
    /\ owner' = [owner EXCEPT ![j] = u]
    /\ revoked' = revoked

Revokes(j) == revoked' = revoked \union {j} /\ owner' = owner

LEMMA SerialEffect ==
    SInv /\ [SerialNext]_vars =>
        \/ UNCHANGED <<owner, revoked>>
        \/ \E j \in Jti : Revokes(j)
        \/ \E u \in Users, j \in Jti : Draws(u, j)
<1> DEFINE Goal == \/ UNCHANGED <<owner, revoked>>
                   \/ \E j \in Jti : Revokes(j)
                   \/ \E u \in Users, j \in Jti : Draws(u, j)
<1> SUFFICES ASSUME SInv, [SerialNext]_vars PROVE Goal
    OBVIOUS
<1> USE UsersAssumption, NullsAssumption
<1>1. CASE UNCHANGED vars
    BY <1>1 DEF vars
<1>2. ASSUME NEW j \in Jti \union {NoJti}, RevokeJti(j), UNCHANGED owner PROVE Goal
    <2>1. CASE j = NoJti
        BY <1>2, <2>1 DEF RevokeJti
    <2>2. CASE j \in Jti
        <3>1. Revokes(j)
            BY <1>2, <2>2 DEF RevokeJti, Revokes
        <3> QED
            BY <2>2, <3>1
    <2> QED
        BY <2>1, <2>2
<1>3. ASSUME NEW t \in Threads, LoginRevokePrevious(t) \/ RevokeCurrent(t) PROVE Goal
    BY <1>2, <1>3, BusyCall DEF LoginRevokePrevious, RevokeCurrent, SInv
<1>4. ASSUME NEW t \in Threads, DeleteUserRow(t) PROVE Goal
    <2>1. tokenJti[hnd[t].uid] \in Jti \union {NoJti}
        BY <1>4, BusyCall DEF DeleteUserRow, RemoveRow, SInv, TypeOK
    <2> QED
        BY <1>2, <1>4, <2>1 DEF DeleteUserRow, RemoveRow
<1>5. ASSUME NEW t \in Threads, LoginSetJti(t) PROVE Goal
    <2>1. PICK j \in Drawn(NoUser) : owner' = [owner EXCEPT ![j] = hnd[t].uid]
        BY <1>5 DEF LoginSetJti, HandOut
    <2>2. hnd[t].uid \in Users /\ hnd[t].jti = tokenJti[hnd[t].uid]
        BY <1>5, BusyCall DEF LoginSetJti, HandOut, SInv, WritersCurrent
    <2>3. hnd[t].jti \in revoked \union {NoJti}
        BY <1>5 DEF LoginSetJti, HandOut, SInv, WritersCurrent
    <2>4. \A k \in Jti : owner[k] = hnd[t].uid => k \in revoked
        BY <2>2, <2>3 DEF SInv, SessionsAccountedFor
    <2>5. Draws(hnd[t].uid, j)
        BY <1>5, <2>1, <2>4 DEF LoginSetJti, HandOut, Draws, Drawn
    <2> QED
        BY <2>1, <2>2, <2>5 DEF Drawn
<1>6. ASSUME NEW t \in Threads, LoginStep(t) PROVE Goal
    BY <1>3, <1>5, <1>6 DEF LoginStep, LoginFindUser, LoginUpgradeHash, LoginReadPrevious, db
<1>7. ASSUME NEW t \in Threads, ValidateStep(t) \/ RefreshStep(t) PROVE Goal
    BY <1>7 DEF ValidateStep, ValidateRevoked, TokenRevoked, ValidateCurrent, RefreshStep, RefreshRevoked,
                RefreshCurrent, RefreshReply, db
<1>8. ASSUME NEW t \in Threads, RevokeStep(t) \/ DeleteStep(t) PROVE Goal
    BY <1>3, <1>4, <1>8 DEF RevokeStep, RevokeBegin, RevokeRead, RevokeClear, ClearJti, DeleteStep,
                            DeleteUserBegin, db
<1> QED
    BY <1>1, <1>6, <1>7, <1>8, SerialSteps, StepsByCall DEF Expire, db

LEMMA AuthorityStep == SInv /\ SInv' /\ [SerialNext]_vars => [Authority!Next]_(Authority!vars)
<1> SUFFICES ASSUME SInv, SInv', [SerialNext]_vars PROVE [Authority!Next]_(Authority!vars)
    OBVIOUS
<1> USE NullsAssumption
<1> DEFINE open == {j \in Jti : Accepts(j)}
<1> DEFINE closed == {j \in Jti : owner[j] # NoUser /\ ~Accepts(j)}
<1>1. open = {j \in Jti : owner[j] # NoUser /\ j \notin revoked}
    BY AcceptedIsUnrevoked
<1>2. closed = revoked
    BY AcceptedIsUnrevoked DEF SInv, TypeOK, Owned
<1>3. open' = {j \in Jti : owner'[j] # NoUser /\ j \notin revoked'}
    BY DEF SInv, SessionsAccountedFor, Accepts, CurrentAllows
<1>4. closed' = revoked'
    BY DEF SInv, TypeOK, Owned, SessionsAccountedFor, Accepts, CurrentAllows
<1> HIDE DEF open, closed
<1>5. CASE UNCHANGED <<owner, revoked>>
    <2>1. open' = open /\ closed' = closed
        BY <1>1, <1>2, <1>3, <1>4, <1>5
    <2> QED
        BY <1>5, <2>1 DEF Authority!vars, open, closed
<1>6. ASSUME NEW j \in Jti, Revokes(j) PROVE [Authority!Next]_(Authority!vars)
    <2>1. CASE j \in revoked
        <3>1. UNCHANGED <<owner, revoked>>
            BY <1>6, <2>1 DEF Revokes
        <3> QED
            BY <1>5, <3>1
    <2>2. CASE j \notin revoked
        <3>1. owner[j] # NoUser
            BY <1>6 DEF Revokes, SInv, Owned
        <3>2. j \in open /\ open' = open \ {j} /\ closed' = closed \union {j} /\ owner' = owner
            BY <1>1, <1>2, <1>3, <1>4, <1>6, <2>2, <3>1 DEF Revokes
        <3>3. Authority!Close(j)
            BY <3>2 DEF Authority!Close, open, closed
        <3> QED
            BY <3>3 DEF Authority!Next
    <2> QED
        BY <2>1, <2>2
<1>7. ASSUME NEW u \in Users, NEW j \in Jti, Draws(u, j)
      PROVE  [Authority!Next]_(Authority!vars)
    <2>1. \A k \in open : owner[k] # u
        BY <1>1, <1>7 DEF Draws
    <2>2. j \notin revoked
        BY <1>7 DEF Draws, SInv, Owned
    <2>3. open' = open \union {j}
        BY <1>1, <1>3, <1>7, <2>2 DEF Draws, SInv, TypeOK
    <2>4. closed' = closed
        BY <1>2, <1>4, <1>7 DEF Draws
    <2>5. Authority!Open(u, j)
        BY <1>7, <2>1, <2>3, <2>4 DEF Draws, Authority!Open, open, closed
    <2> QED
        BY <2>5 DEF Authority!Next
<1> QED
    BY <1>5, <1>6, <1>7, SerialEffect

(* One session-changing call per user at a time: what the service accepts  *)
(* is what an authority with one session per user accepts, opened once and *)
(* closed for good.                                                        *)
THEOREM Refinement == SerialSpec => ImplementsAuthority
<1>1. Init => Authority!Init
    BY DEF Init, Authority!Init, Accepts
<1> QED
    BY <1>1, AuthorityStep, SerialInvariant, PTL DEF SerialSpec, ImplementsAuthority, Authority!Spec

=============================================================================
