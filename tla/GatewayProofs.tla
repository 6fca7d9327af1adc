--------------------------- MODULE GatewayProofs ---------------------------
(***************************************************************************)
(* Proofs about Gateway for any handlers, addresses, sessions and bounds.  *)
(***************************************************************************)
EXTENDS Gateway, FiniteSetTheorems, TLAPS

-----------------------------------------------------------------------------
\* A session has one holder, and ends once.
Sessions ==
    /\ \A j, k \in open : holder[j] = holder[k] => j = k
    /\ open \intersect closed = {}
    /\ \A j \in open \union closed : holder[j] # 0

\* The ids of a request stand for its addresses, for ever.
Stands(c) ==
    /\ \A e \in call[c].named : \E u \in call[c].ids : mail[u] = e
    /\ \A u \in call[c].ids : mail[u] \in call[c].named

Resolved == \A c \in Calls : At(c, "create", "act") => Stands(c)

\* Ids of rooms and accounts are handed out once.
Known == \A m \in made : m.room <= lastRoom /\ mail[m.by] # NoMail

GInv == TypeOK /\ Sessions /\ Resolved /\ Known /\ NamedAreMembers

\* The list of users has the accounts of an address.
LEMMA AddressHolders == \A e : \A u : u \in With(e) <=> u \in alive /\ mail[u] = e
<1> SUFFICES ASSUME NEW e, NEW u PROVE u \in With(e) <=> u \in alive /\ mail[u] = e
    OBVIOUS
<1>1. ASSUME u \in With(e) PROVE u \in alive /\ mail[u] = e
    <2>1. PICK y \in Directory : y.email = e /\ u = y.id
        BY <1>1 DEF With
    <2>2. PICK v \in alive : y = [id |-> v, email |-> mail[v]]
        BY <2>1 DEF Directory
    <2> QED
        BY <2>1, <2>2
<1>2. ASSUME u \in alive, mail[u] = e PROVE u \in With(e)
    <2>1. PICK y : y = [id |-> u, email |-> mail[u]]
        OBVIOUS
    <2>2. y \in Directory /\ y.email = e /\ y.id = u
        BY <1>2, <2>1 DEF Directory
    <2> QED
        BY <2>2 DEF With
<1> QED
    BY <1>1, <1>2


LEMMA Constants ==
    /\ First \in Emails /\ NoMail \notin Emails
    /\ MaxId \in Nat /\ 1 \in Ids /\ MaxRoom \in Nat
    /\ Named \subseteq SUBSET Emails /\ Peers \subseteq Ids
    /\ 0 \in 0 .. MaxId /\ 0 \in 0 .. MaxRoom /\ Ids \subseteq 0 .. MaxId
BY MailAssumption, BoundsAssumption, NamedAssumption DEF Ids

LEMMA NoCallIsCall == NoCall \in Call /\ NoAnswer \in Answers
BY Constants DEF NoCall, Call, NoAnswer, Answers

-----------------------------------------------------------------------------
(***************************************************************************)
(* What a step does to the services, and what it does to the calls.        *)
(***************************************************************************)
DropRoom(r) ==
    /\ rooms' = rooms \ {r}
    /\ members' = {m \in members : m[2] # r}
    /\ UNCHANGED <<sessions, accounts, lastRoom, directs, made>>

Acknowledge(c) ==
    LET all == {User(c)} \union call[c].ids IN
    /\ At(c, "create", "act") /\ all \subseteq alive /\ NewRoom(all)
    /\ made' = made \union {[room |-> lastRoom + 1, by |-> User(c), named |-> call[c].named]}

Writes ==
    \/ UNCHANGED <<state, made>>
    \/ \E j \in Jti : Auth!Close(j) /\ UNCHANGED <<accounts, chats, made>>
    \/ \E u \in alive, j \in Jti : Auth!Open(u, j) /\ UNCHANGED <<accounts, chats, made>>
    \/ \E e \in Emails, u \in Ids : With(e) = {} /\ NewAccount(e, u) /\ UNCHANGED made
    \/ \E u \in alive : RemoveAccount(u) /\ UNCHANGED made
    \/ \E d \in SUBSET alive :
           directs' = directs \union {d}
           /\ UNCHANGED <<sessions, accounts, rooms, lastRoom, members, made>>
    \/ \E S \in SUBSET alive : NewRoom(S) /\ UNCHANGED made
    \/ \E c \in Calls : Acknowledge(c)
    \/ \E r \in rooms : DropRoom(r)

LEMMA OneWrite == TypeOK /\ [Next]_vars => Writes
<1> SUFFICES ASSUME TypeOK, [Next]_vars PROVE Writes
    OBVIOUS
<1> USE DEF Writes
<1>1. CASE UNCHANGED vars
    BY <1>1 DEF vars, state
<1>2. CASE Authority
    BY <1>2 DEF Authority
<1>3. ASSUME NEW c \in Calls,
             Validate(c) \/ ListUsers(c) \/ ListRooms(c) \/ \E r \in Requests : Receive(c, r)
      PROVE  Writes
    BY <1>3 DEF Validate, ListUsers, NoDirectory, ListRooms, Receive
<1>4. ASSUME NEW c \in Calls, Logout(c)
      PROVE  Writes
    <2>1. CASE Refuses(c)
        BY <2>1 DEF Refuses, Fails
    <2>2. CASE Close(User(c)) /\ UNCHANGED <<accounts, chats, made>>
        BY <2>2 DEF Close, Auth!Close, sessions, state, TypeOK
    <2> QED
        BY <1>4, <2>1, <2>2 DEF Logout
<1>5. ASSUME NEW c \in Calls, Register(c)
      PROVE  Writes
    <2>1. CASE Refuses(c)
        BY <2>1 DEF Refuses, Fails
    <2>2. call[c].named \subseteq Emails
        BY DEF TypeOK, Call
    <2> QED
        BY <1>5, <2>1, <2>2 DEF Register
<1>6. ASSUME NEW c \in Calls, DeleteUser(c)
      PROVE  Writes
    BY <1>6 DEF DeleteUser, Refuses, Fails
<1>7. ASSUME NEW c \in Calls, SendMessage(c)
      PROVE  Writes
    <2>1. CASE Fails(c, "INTERNAL")
        BY <2>1 DEF Fails
    <2>2. ASSUME NEW d, d \subseteq alive, directs' = directs \union {d},
                 UNCHANGED <<sessions, accounts, rooms, lastRoom, members, made>>
          PROVE  Writes
        BY <2>2
    <2> QED
        BY <1>7, <2>1, <2>2 DEF SendMessage
<1>8. ASSUME NEW c \in Calls, CreateRoom(c)
      PROVE  Writes
    <2>1. CASE Fails(c, "INTERNAL")
        BY <2>1 DEF Fails
    <2>2. CASE Acknowledge(c)
        BY <2>2
    <2>3. ASSUME NEW S \in SUBSET alive, NewRoom(S), UNCHANGED made
          PROVE  Writes
        BY <2>3
    <2> QED
        BY <1>8, <2>1, <2>2, <2>3 DEF CreateRoom, Acknowledge
<1>9. ASSUME NEW c \in Calls, DeleteRoom(c)
      PROVE  Writes
    <2>1. CASE Fails(c, "NOT_FOUND") \/ Fails(c, "INTERNAL")
        BY <2>1 DEF Fails
    <2>2. CASE call[c].room \in rooms /\ DropRoom(call[c].room)
        BY <2>2
    <2> QED
        BY <1>9, <2>1, <2>2 DEF DeleteRoom, DropRoom
<1> QED
    BY <1>1, <1>2, <1>3, <1>4, <1>5, <1>6, <1>7, <1>8, <1>9 DEF Next, Act

Moves ==
    \/ UNCHANGED call
    \/ \E c \in Calls : call' = [call EXCEPT ![c] = NoCall]
    \/ \E c \in Calls, r \in Requests :
           /\ holder[r.tok] # 0
           /\ call' = [call EXCEPT ![c] =
                  [op |-> r.op, tok |-> r.tok, id |-> r.id, room |-> r.room, named |-> r.named,
                   pc |-> "validate", ids |-> {},
                   must |-> IF r.op = "rooms" THEN Promised(holder[r.tok]) ELSE {}]]
    \/ \E c \in Calls :
           /\ call[c].pc = "validate" /\ call[c].tok \in open
           /\ call' = [call EXCEPT ![c].pc = IF call[c].op = "create" THEN "list" ELSE "act"]
    \/ \E c \in Calls :
           /\ At(c, "create", "list") /\ AllKnown(c)
           /\ call' = [call EXCEPT ![c] =
                   [call[c] EXCEPT !.pc = "act", !.ids = UNION {With(e) : e \in call[c].named}]]

LEMMA OneMove == [Next]_vars => Moves
<1> SUFFICES ASSUME [Next]_vars PROVE Moves
    OBVIOUS
<1> USE DEF Moves
<1>1. CASE UNCHANGED vars \/ Authority
    BY <1>1 DEF vars, Authority
<1>2. ASSUME NEW c \in Calls, NEW r \in Requests, Receive(c, r)
      PROVE  Moves
    BY <1>2 DEF Receive
<1>3. ASSUME NEW c \in Calls, Validate(c)
      PROVE  Moves
    <2>1. CASE call' = [call EXCEPT ![c] = NoCall]
        BY <2>1
    <2>2. CASE call[c].tok \in open
               /\ Goto(c, IF call[c].op = "create" THEN "list" ELSE "act")
        <3>1. call[c].pc = "validate"
            BY <1>3 DEF Validate
        <3> QED
            BY <2>2, <3>1 DEF Goto
    <2> QED
        BY <1>3, <2>1, <2>2 DEF Validate, Valid, Answer
<1>4. ASSUME NEW c \in Calls, ListUsers(c)
      PROVE  Moves
    BY <1>4 DEF ListUsers, NoDirectory, Answer
<1>5. ASSUME NEW c \in Calls, Act(c)
      PROVE  Moves
    <2>1. call' = [call EXCEPT ![c] = NoCall]
        BY <1>5 DEF Act, Logout, Register, DeleteUser, SendMessage, CreateRoom, DeleteRoom,
               ListRooms, Refuses, Fails, Reply, Answer
    <2> QED
        BY <2>1
<1> QED
    BY <1>1, <1>2, <1>3, <1>4, <1>5 DEF Next

-----------------------------------------------------------------------------
LEMMA InitEstablishes == Init => GInv
<1> SUFFICES ASSUME Init PROVE GInv
    OBVIOUS
<1> USE Constants, NoCallIsCall
<1>1. TypeOK
    BY DEF Init, TypeOK, Auth!Init, Ids
<1>2. Sessions /\ Known /\ NamedAreMembers
    BY DEF Init, Sessions, Known, NamedAreMembers, Auth!Init
<1>3. Resolved
    BY DEF Init, Resolved, NoCall, At
<1> QED
    BY <1>1, <1>2, <1>3 DEF GInv

\* The part of TypeOK that is about the services.
Services ==
    /\ holder \in [Jti -> 0 .. MaxId] /\ open \subseteq Jti /\ closed \subseteq Jti
    /\ mail \in [Ids -> Emails \union {NoMail}]
    /\ alive \subseteq {u \in Ids : mail[u] # NoMail}
    /\ \A u, v \in alive : mail[u] = mail[v] => u = v
    /\ \A j \in open : holder[j] \in alive
    /\ lastRoom \in 0 .. MaxRoom /\ rooms \subseteq 1 .. lastRoom
    /\ members \subseteq alive \X rooms
    /\ directs \subseteq SUBSET Ids
    /\ made \subseteq [room : Rooms, by : Ids, named : SUBSET Emails]

LEMMA TypeParts == TypeOK <=> Services /\ call \in [Calls -> Call] /\ answer \in Answers
BY DEF TypeOK, Services

LEMMA ServicesStep == GInv /\ Writes => Services'
<1> SUFFICES ASSUME GInv, Writes PROVE Services'
    OBVIOUS
<1> USE Constants
<1>0. Services /\ Sessions /\ call \in [Calls -> Call]
    BY TypeParts DEF GInv
<1>1. CASE UNCHANGED <<state, made>>
    BY <1>0, <1>1 DEF Services, state, sessions, accounts, chats
<1>2. ASSUME NEW j \in Jti, Auth!Close(j), UNCHANGED <<accounts, chats, made>>
      PROVE  Services'
    BY <1>0, <1>2 DEF Services, Auth!Close, accounts, chats
<1>3. ASSUME NEW u \in alive, NEW j \in Jti, Auth!Open(u, j), UNCHANGED <<accounts, chats, made>>
      PROVE  Services'
    <2>1. u \in 0 .. MaxId
        BY <1>0 DEF Services
    <2> QED
        <3>1. holder' = [holder EXCEPT ![j] = u] /\ open' = open \union {j} /\ closed' = closed
            BY <1>3 DEF Auth!Open
        <3>2. holder' \in [Jti -> 0 .. MaxId] /\ \A k \in open' : holder'[k] \in alive
            BY <1>0, <2>1, <3>1 DEF Services
        <3> QED
            BY <1>0, <1>3, <3>1, <3>2 DEF Services, accounts, chats
<1>4. ASSUME NEW e \in Emails, NEW u \in Ids, With(e) = {}, NewAccount(e, u), UNCHANGED made
      PROVE  Services'
    <2>1. mail' = [mail EXCEPT ![u] = e] /\ mail[u] = NoMail /\ alive' = alive \union {u}
          /\ UNCHANGED <<sessions, chats>>
        BY <1>4 DEF NewAccount
    <2>2. u \notin alive /\ \A v \in alive : mail[v] # e /\ mail'[v] = mail[v]
        BY <1>0, <1>4, <2>1, AddressHolders DEF Services
    <2>3. mail' \in [Ids -> Emails \union {NoMail}] /\ mail'[u] = e /\ e # NoMail
        BY <1>0, <2>1 DEF Services
    <2>4. alive' \subseteq {v \in Ids : mail'[v] # NoMail}
        BY <1>0, <2>1, <2>2, <2>3 DEF Services
    <2>5. \A v, w \in alive' : mail'[v] = mail'[w] => v = w
        BY <1>0, <2>1, <2>2, <2>3 DEF Services
    <2> QED
        BY <1>0, <1>4, <2>1, <2>3, <2>4, <2>5 DEF Services, sessions, chats
<1>5. ASSUME NEW u \in alive, RemoveAccount(u), UNCHANGED made
      PROVE  Services'
    <2>1. Close(u) /\ alive' = alive \ {u} /\ members' = {m \in members : m[1] # u}
          /\ UNCHANGED <<mail, rooms, lastRoom, directs, made>>
        BY <1>5 DEF RemoveAccount
    <2>2. holder' = holder /\ open' \subseteq open /\ closed' \subseteq Jti
        BY <1>0, <2>1 DEF Close, Auth!Close, sessions, Services
    <2>3. \A j \in open' : holder[j] # u
        BY <1>0, <2>1 DEF Close, Auth!Close, sessions, Sessions
    <2> QED
        BY <1>0, <2>1, <2>2, <2>3 DEF Services
<1>6. ASSUME NEW d \in SUBSET alive, directs' = directs \union {d},
             UNCHANGED <<sessions, accounts, rooms, lastRoom, members, made>>
      PROVE  Services'
    BY <1>0, <1>6 DEF Services, sessions, accounts
<1>7. ASSUME NEW S \in SUBSET alive, NewRoom(S),
             made' \subseteq [room : Rooms, by : Ids, named : SUBSET Emails]
      PROVE  Services'
    <2>1. lastRoom \in Nat /\ lastRoom + 1 \in 0 .. MaxRoom /\ lastRoom' = lastRoom + 1
        <3>1. lastRoom \in 0 .. MaxRoom
            BY <1>0 DEF Services
        <3>2. lastRoom < MaxRoom /\ lastRoom' = lastRoom + 1
            BY <1>7 DEF NewRoom
        <3> QED
            BY <3>1, <3>2
    <2>2. rooms' = rooms \union {lastRoom'} /\ members' = members \union (S \X {lastRoom'})
        BY <1>7, <2>1 DEF NewRoom
    <2>3. rooms' \subseteq 1 .. lastRoom'
        <3>1. rooms \subseteq 1 .. lastRoom
            BY <1>0 DEF Services
        <3>2. 1 .. lastRoom \subseteq 1 .. lastRoom' /\ lastRoom' \in 1 .. lastRoom'
            BY <2>1
        <3> QED
            BY <2>2, <3>1, <3>2
    <2>4. members' \subseteq alive \X rooms'
        <3>1. members \subseteq alive \X rooms
            BY <1>0 DEF Services
        <3>2. S \subseteq alive
            OBVIOUS
        <3> QED
            BY <2>2, <3>1, <3>2
    <2> QED
        BY <1>0, <1>7, <2>1, <2>3, <2>4 DEF NewRoom, Services, sessions, accounts
<1>8. ASSUME NEW c \in Calls, Acknowledge(c)
      PROVE  Services'
    <2> DEFINE all == {User(c)} \union call[c].ids
    <2>1. all \subseteq alive /\ NewRoom(all)
        BY <1>8 DEF Acknowledge
    <2>2. lastRoom + 1 \in Rooms /\ User(c) \in Ids /\ call[c].named \subseteq Emails
        <3>1. lastRoom \in 0 .. MaxRoom /\ alive \subseteq Ids
            BY <1>0 DEF Services
        <3>2. lastRoom < MaxRoom
            BY <2>1 DEF NewRoom
        <3>3. call[c].named \subseteq Emails
            BY <1>0 DEF Call
        <3>4. lastRoom + 1 \in Rooms
            BY <3>1, <3>2 DEF Rooms
        <3>5. User(c) \in Ids
            BY <2>1, <3>1
        <3> QED
            BY <3>3, <3>4, <3>5
    <2>3. made' \subseteq [room : Rooms, by : Ids, named : SUBSET Emails]
        BY <1>0, <1>8, <2>2 DEF Acknowledge, Services
    <2> QED
        BY <1>7, <2>1, <2>3
<1>9. ASSUME NEW r \in rooms, DropRoom(r)
      PROVE  Services'
    BY <1>0, <1>9 DEF DropRoom, Services, sessions, accounts
<1>10. ASSUME NEW S \in SUBSET alive, NewRoom(S), UNCHANGED made
       PROVE  Services'
    BY <1>0, <1>7, <1>10 DEF Services
<1> QED
    BY <1>1, <1>2, <1>3, <1>4, <1>5, <1>6, <1>8, <1>9, <1>10 DEF Writes

LEMMA CallsStep == GInv /\ Moves => call' \in [Calls -> Call]
<1> SUFFICES ASSUME GInv, Moves PROVE call' \in [Calls -> Call]
    OBVIOUS
<1>0. Services /\ call \in [Calls -> Call]
    BY TypeParts DEF GInv
<1> USE Constants, NoCallIsCall
<1>1. CASE UNCHANGED call
    BY <1>0, <1>1
<1>2. ASSUME NEW c \in Calls, call' = [call EXCEPT ![c] = NoCall]
      PROVE  call' \in [Calls -> Call]
    BY <1>0, <1>2
<1>3. ASSUME NEW c \in Calls, NEW r \in Requests, holder[r.tok] # 0,
             call' = [call EXCEPT ![c] =
                  [op |-> r.op, tok |-> r.tok, id |-> r.id, room |-> r.room, named |-> r.named,
                   pc |-> "validate", ids |-> {},
                   must |-> IF r.op = "rooms" THEN Promised(holder[r.tok]) ELSE {}]]
      PROVE  call' \in [Calls -> Call]
    <2>1. r \in Request
        BY DEF Requests
    <2>3. PICK must : must = IF r.op = "rooms" THEN Promised(holder[r.tok]) ELSE {}
        OBVIOUS
    <2>4. must \subseteq Rooms
        BY <1>0, <2>3 DEF Promised, Services
    <2>5. [op |-> r.op, tok |-> r.tok, id |-> r.id, room |-> r.room, named |-> r.named,
           pc |-> "validate", ids |-> {}, must |-> must] \in Call
        BY <2>1, <2>4 DEF Request, Call, Routes
    <2>6. call' = [call EXCEPT ![c] =
              [op |-> r.op, tok |-> r.tok, id |-> r.id, room |-> r.room, named |-> r.named,
               pc |-> "validate", ids |-> {}, must |-> must]]
        BY <1>3, <2>3, Zenon
    <2> QED
        BY <1>0, <2>5, <2>6
<1>4. ASSUME NEW c \in Calls,
             call' = [call EXCEPT ![c].pc = IF call[c].op = "create" THEN "list" ELSE "act"]
      PROVE  call' \in [Calls -> Call]
    BY <1>0, <1>4 DEF Call
<1>5. ASSUME NEW c \in Calls,
             call' = [call EXCEPT ![c] =
                   [call[c] EXCEPT !.pc = "act", !.ids = UNION {With(e) : e \in call[c].named}]]
      PROVE  call' \in [Calls -> Call]
    <2>1. PICK I : I = UNION {With(e) : e \in call[c].named}
        OBVIOUS
    <2>2. I \subseteq Ids
        <3>1. \A e : With(e) \subseteq Ids
            BY <1>0, AddressHolders DEF Services
        <3> QED
            BY <2>1, <3>1
    <2>3. call' = [call EXCEPT ![c] = [call[c] EXCEPT !.pc = "act", !.ids = I]]
        BY <1>5, <2>1, Zenon
    <2>4. [call[c] EXCEPT !.pc = "act", !.ids = I] \in Call
        <3>1. call[c] \in Call
            BY <1>0
        <3>2. call[c] = [op |-> call[c].op, tok |-> call[c].tok, id |-> call[c].id,
                         room |-> call[c].room, named |-> call[c].named, pc |-> call[c].pc,
                         ids |-> call[c].ids, must |-> call[c].must]
            BY <3>1 DEF Call
        <3> QED
            BY <2>2, <3>1, <3>2 DEF Call
    <2> QED
        BY <1>0, <2>3, <2>4
<1> QED
    BY <1>1, <1>2, <1>3, <1>4, <1>5 DEF Moves

LEMMA AnswerStep == GInv /\ [Next]_vars => answer' \in Answers
<1> SUFFICES ASSUME GInv, [Next]_vars PROVE answer' \in Answers
    OBVIOUS
<1>0. Services /\ answer \in Answers
    BY TypeParts DEF GInv
<1>1. \A status \in {0, 200, 400, 401, 403, 404, 502} : [NoAnswer EXCEPT !.status = status] \in Answers
    BY DEF NoAnswer, Answers
<1>2. \A op, code : StatusOf(op, code) \in {200, 400, 403, 404, 502}
    BY DEF StatusOf
<1>3. ASSUME NEW c \in Calls, NEW status \in {200, 400, 401, 403, 404, 502}, Answer(c, status)
      PROVE  answer' \in Answers
    BY <1>1, <1>3 DEF Answer
<1>4. ASSUME NEW c \in Calls, NEW code, Reply(c, code)
      PROVE  answer' \in Answers
    BY <1>2, <1>3, <1>4 DEF Reply
<1>5. CASE UNCHANGED vars
    BY <1>0, <1>5 DEF vars
<1>6. CASE Authority \/ \E c \in Calls, r \in Requests : Receive(c, r)
    BY <1>6, NoCallIsCall DEF Authority, Receive
<1>7. ASSUME NEW c \in Calls, Validate(c) \/ ListUsers(c)
      PROVE  answer' \in Answers
    BY <1>7, <1>3, NoCallIsCall DEF Validate, ListUsers, NoDirectory, Goto
<1>8. ASSUME NEW c \in Calls, ListRooms(c)
      PROVE  answer' \in Answers
    <2>1. Page(User(c)) \subseteq Rooms
        <3>1. Page(User(c)) \subseteq rooms
            BY DEF Page
        <3>2. rooms \subseteq 1 .. lastRoom /\ lastRoom \in 0 .. MaxRoom
            BY <1>0 DEF Services
        <3>3. 1 .. lastRoom \subseteq Rooms
            BY <3>2, Constants DEF Rooms
        <3> QED
            BY <3>1, <3>2, <3>3
    <2>2. [status |-> 200, rooms |-> Page(User(c))] \in Answers
        BY <2>1 DEF Answers
    <2> QED
        BY <1>8, <1>4, <2>2 DEF ListRooms
<1>9. ASSUME NEW c \in Calls,
             Logout(c) \/ Register(c) \/ DeleteUser(c) \/ SendMessage(c) \/ CreateRoom(c) \/ DeleteRoom(c)
      PROVE  answer' \in Answers
    BY <1>9, <1>4 DEF Logout, Register, DeleteUser, SendMessage, CreateRoom, DeleteRoom, Refuses, Fails
<1> QED
    BY <1>5, <1>6, <1>7, <1>8, <1>9 DEF Next, Act

-----------------------------------------------------------------------------
\* What never goes back: addresses, ids and ended sessions.
LEMMA Growth ==
    GInv /\ Writes =>
        /\ \A u \in Ids : mail[u] # NoMail => mail'[u] = mail[u]
        /\ closed \subseteq closed'
        /\ lastRoom <= lastRoom'
<1> SUFFICES ASSUME GInv, Writes
             PROVE  /\ \A u \in Ids : mail[u] # NoMail => mail'[u] = mail[u]
                    /\ closed \subseteq closed'
                    /\ lastRoom <= lastRoom'
    OBVIOUS
<1>0. Services /\ lastRoom \in Nat
    BY TypeParts DEF GInv, Services
<1>1. closed \subseteq closed'
    BY DEF Writes, Auth!Open, Auth!Close, NewAccount, RemoveAccount, Close, NewRoom, Acknowledge,
           DropRoom, state, sessions
<1>2. UNCHANGED mail \/ \E e \in Emails, u \in Ids : NewAccount(e, u)
    BY DEF Writes, RemoveAccount, NewRoom, Acknowledge, DropRoom, state, accounts
<1>3. UNCHANGED lastRoom \/ lastRoom' = lastRoom + 1
    BY DEF Writes, NewAccount, RemoveAccount, NewRoom, Acknowledge, DropRoom, state, chats
<1>4. \A u \in Ids : mail[u] # NoMail => mail'[u] = mail[u]
    BY <1>0, <1>2 DEF NewAccount, Services
<1>5. lastRoom <= lastRoom'
    BY <1>0, <1>3
<1> QED
    BY <1>1, <1>4, <1>5

LEMMA SessionsStep == GInv /\ Writes => Sessions'
<1> SUFFICES ASSUME GInv, Writes PROVE Sessions'
    OBVIOUS
<1>0. Services /\ Sessions
    BY TypeParts DEF GInv
<1>1. CASE UNCHANGED sessions
    BY <1>0, <1>1 DEF Sessions, sessions
<1>2. ASSUME NEW j \in Jti, Auth!Close(j)
      PROVE  Sessions'
    BY <1>0, <1>2 DEF Sessions, Auth!Close
<1>3. ASSUME NEW u \in alive, NEW j \in Jti, Auth!Open(u, j)
      PROVE  Sessions'
    <2>1. u # 0
        BY <1>0, Constants DEF Services, Ids
    <2>2. holder[j] = 0 /\ \A k \in open : holder[k] # u
        BY <1>3 DEF Auth!Open
    <2>3. holder' = [holder EXCEPT ![j] = u] /\ open' = open \union {j} /\ closed' = closed
        BY <1>3 DEF Auth!Open
    <2>4. j \notin open \union closed /\ holder'[j] = u
        BY <1>0, <2>2, <2>3 DEF Sessions, Services
    <2>5. \A k \in open \union closed : holder'[k] = holder[k]
        BY <1>0, <2>3, <2>4 DEF Services
    <2> QED
        BY <1>0, <2>1, <2>2, <2>3, <2>4, <2>5 DEF Sessions
<1>4. ASSUME NEW u \in alive, RemoveAccount(u)
      PROVE  Sessions'
    BY <1>0, <1>1, <1>2, <1>4 DEF RemoveAccount, Close, Services
<1>5. UNCHANGED sessions
      \/ (\E j \in Jti : Auth!Close(j))
      \/ (\E u \in alive, j \in Jti : Auth!Open(u, j))
      \/ \E u \in alive : RemoveAccount(u)
    BY DEF Writes, NewAccount, NewRoom, Acknowledge, DropRoom, state
<1> QED
    BY <1>1, <1>2, <1>3, <1>4, <1>5

\* The list of users has turned the addresses of a request into ids.
Listed(c, I) ==
    /\ I = UNION {With(e) : e \in call[c].named}
    /\ AllKnown(c) /\ call'[c].named = call[c].named /\ call'[c].ids = I

LEMMA ResolvedStep == GInv /\ Writes /\ Moves => Resolved'
<1> SUFFICES ASSUME GInv, Writes, Moves, NEW c \in Calls, call'[c].op = "create", call'[c].pc = "act"
             PROVE  Stands(c)'
    BY DEF Resolved, At
<1> DEFINE Stand(named, ids) ==
        /\ \A e \in named : \E u \in ids : mail[u] = e
        /\ \A u \in ids : mail[u] \in named
<1>0. Services /\ Resolved /\ call \in [Calls -> Call]
    BY TypeParts DEF GInv
<1>1. ASSUME NEW named, NEW ids, named \subseteq Emails, ids \subseteq Ids, Stand(named, ids),
             call'[c].named = named, call'[c].ids = ids
      PROVE  Stands(c)'
    <2>1. \A u \in ids : mail[u] # NoMail
        BY <1>1, Constants
    <2>2. \A u \in ids : mail'[u] = mail[u]
        BY <1>1, <2>1, Growth
    <2> QED
        BY <1>1, <2>2 DEF Stands
<1>2. call[c].named \subseteq Emails /\ call[c].ids \subseteq Ids
    BY <1>0 DEF Call
<1>3. CASE call'[c] = call[c]
    <2>1. Stand(call[c].named, call[c].ids)
        BY <1>0, <1>3 DEF Resolved, At, Stands
    <2> QED
        BY <1>1, <1>2, <1>3, <2>1
<1>4. ASSUME NEW I, Listed(c, I)
      PROVE  Stands(c)'
    <2>1. I = UNION {With(e) : e \in call[c].named}
        BY <1>4 DEF Listed
    <2>2. \A e : \A u \in With(e) : u \in Ids /\ mail[u] = e
        BY <1>0, AddressHolders DEF Services
    <2>3. I \subseteq Ids /\ \A u \in I : mail[u] \in call[c].named
        BY <2>1, <2>2
    <2>4. ASSUME NEW e \in call[c].named PROVE \E u \in I : mail[u] = e
        <3>1. PICK u : u \in With(e)
            BY <1>4 DEF Listed, AllKnown
        <3>2. u \in I /\ mail[u] = e
            BY <2>1, <2>2, <3>1
        <3> QED
            BY <3>2
    <2>5. Stand(call[c].named, I)
        BY <2>3, <2>4
    <2>6. call'[c].named = call[c].named /\ call'[c].ids = I
        BY <1>4 DEF Listed
    <2> HIDE DEF Stand
    <2> QED
        BY <1>1, <1>2, <2>3, <2>5, <2>6
<1> QED
    <2>0. call'[c] = call[c] => Stands(c)'
        BY <1>3
    <2>1. \A I : Listed(c, I) => Stands(c)'
        BY <1>4
    <2>2. CASE UNCHANGED call
        BY <2>0, <2>2
    <2>3. ASSUME NEW d \in Calls, call' = [call EXCEPT ![d] = NoCall]
          PROVE  Stands(c)'
        BY <1>0, <2>0, <2>3 DEF NoCall
    <2>4. ASSUME NEW d \in Calls, NEW r \in Requests,
                 call' = [call EXCEPT ![d] =
                     [op |-> r.op, tok |-> r.tok, id |-> r.id, room |-> r.room, named |-> r.named,
                      pc |-> "validate", ids |-> {},
                      must |-> IF r.op = "rooms" THEN Promised(holder[r.tok]) ELSE {}]]
          PROVE  Stands(c)'
        <3>1. CASE d = c
            <4>1. call'[c] = [op |-> r.op, tok |-> r.tok, id |-> r.id, room |-> r.room,
                              named |-> r.named, pc |-> "validate", ids |-> {},
                              must |-> IF r.op = "rooms" THEN Promised(holder[r.tok]) ELSE {}]
                BY <1>0, <2>4, <3>1, Zenon
            <4>2. call'[c].pc = "validate"
                BY <4>1
            <4> QED
                BY <4>2
        <3>2. CASE d # c
            BY <1>0, <2>0, <2>4, <3>2, Zenon
        <3> QED
            BY <3>1, <3>2
    <2>5. ASSUME NEW d \in Calls, call[d].pc = "validate",
                 call' = [call EXCEPT ![d].pc = IF call[d].op = "create" THEN "list" ELSE "act"]
          PROVE  Stands(c)'
        <3>1. CASE d = c
            BY <1>0, <2>5, <3>1 DEF Call
        <3>2. CASE d # c
            BY <1>0, <2>0, <2>5, <3>2
        <3> QED
            BY <3>1, <3>2
    <2>6. ASSUME NEW d \in Calls, AllKnown(d),
                 call' = [call EXCEPT ![d] =
                   [call[d] EXCEPT !.pc = "act", !.ids = UNION {With(e) : e \in call[d].named}]]
          PROVE  Stands(c)'
        <3>1. CASE d = c
            <4>1. PICK I : I = UNION {With(e) : e \in call[c].named}
                OBVIOUS
            <4>2. call'[c] = [call[c] EXCEPT !.pc = "act", !.ids = I]
                BY <1>0, <2>6, <3>1, <4>1, Zenon
            <4>3. call'[c].named = call[c].named /\ call'[c].ids = I
                BY <1>0, <4>2 DEF Call
            <4>4. Listed(c, I)
                BY <2>6, <3>1, <4>1, <4>3 DEF Listed
            <4> QED
                BY <2>1, <4>4
        <3>2. CASE d # c
            BY <1>0, <2>0, <2>6, <3>2, Zenon
        <3> QED
            BY <3>1, <3>2
    <2> QED
        BY <2>2, <2>3, <2>4, <2>5, <2>6 DEF Moves

LEMMA KnownStep == GInv /\ Writes => Known'
<1> SUFFICES ASSUME GInv, Writes, NEW m \in made'
             PROVE  m.room <= lastRoom' /\ mail'[m.by] # NoMail
    BY DEF Known
<1>0. Services /\ Known /\ Services'
    BY TypeParts, ServicesStep DEF GInv
<1>1. CASE m \in made
    <2>1. m.room \in Nat /\ m.by \in Ids
        BY <1>0, <1>1 DEF Services, Rooms
    <2>2. lastRoom \in Nat /\ lastRoom' \in Nat
        BY <1>0 DEF Services
    <2> QED
        BY <1>0, <1>1, <2>1, <2>2, Growth DEF Known
<1>2. ASSUME NEW c \in Calls, Acknowledge(c),
             m = [room |-> lastRoom + 1, by |-> User(c), named |-> call[c].named]
      PROVE  m.room <= lastRoom' /\ mail'[m.by] # NoMail
    <2>1. User(c) \in alive /\ lastRoom' = lastRoom + 1 /\ mail' = mail
        BY <1>2 DEF Acknowledge, NewRoom, accounts
    <2>2. lastRoom \in Nat
        BY <1>0 DEF Services
    <2>3. mail[User(c)] # NoMail
        BY <1>0, <2>1 DEF Services
    <2> QED
        BY <1>2, <2>1, <2>2, <2>3
<1>3. m \in made \/ \E c \in Calls :
          Acknowledge(c) /\ m = [room |-> lastRoom + 1, by |-> User(c), named |-> call[c].named]
    BY DEF Writes, Acknowledge, DropRoom
<1> QED
    BY <1>1, <1>2, <1>3

\* NamedAreMembers, for one room.
Peopled(m) ==
    m.room \in rooms =>
        /\ m.by \in alive => <<m.by, m.room>> \in members
        /\ \A e \in m.named :
               \E u \in Ids : mail[u] = e /\ (u \in alive => <<u, m.room>> \in members)
        /\ \A x \in members :
               x[2] = m.room => x[1] = m.by \/ mail[x[1]] \in m.named

\* What became of a room's people says what it was before.
LEMMA Carried ==
    ASSUME GInv, Writes, NEW m \in made,
           m.room \in rooms' => m.room \in rooms,
           \A u \in alive' : u \in alive \/ mail[u] = NoMail,
           \A u \in alive' : <<u, m.room>> \in members /\ m.room \in rooms' =>
                                  <<u, m.room>> \in members',
           \A x \in members' : x[2] = m.room => x \in members
    PROVE  Peopled(m)'
<1> SUFFICES ASSUME m.room \in rooms'
             PROVE  /\ m.by \in alive' => <<m.by, m.room>> \in members'
                    /\ \A e \in m.named :
                           \E u \in Ids : mail'[u] = e
                                         /\ (u \in alive' => <<u, m.room>> \in members')
                    /\ \A x \in members' :
                           x[2] = m.room => x[1] = m.by \/ mail'[x[1]] \in m.named
    BY DEF Peopled
<1>0. Services /\ Known /\ m.room \in rooms
    BY TypeParts DEF GInv
<1>1. /\ m.by \in alive => <<m.by, m.room>> \in members
      /\ \A e \in m.named :
             \E u \in Ids : mail[u] = e /\ (u \in alive => <<u, m.room>> \in members)
      /\ \A x \in members : x[2] = m.room => x[1] = m.by \/ mail[x[1]] \in m.named
    BY <1>0 DEF GInv, NamedAreMembers
<1>2. m.named \subseteq Emails /\ mail[m.by] # NoMail
    BY <1>0 DEF Services, Known
<1>3. m.by \in alive' => <<m.by, m.room>> \in members'
    BY <1>1, <1>2
<1>4. ASSUME NEW e \in m.named
      PROVE  \E u \in Ids : mail'[u] = e /\ (u \in alive' => <<u, m.room>> \in members')
    <2>1. PICK u \in Ids : mail[u] = e /\ (u \in alive => <<u, m.room>> \in members)
        BY <1>1
    <2>2. mail[u] # NoMail
        BY <1>2, <2>1, Constants
    <2>3. mail'[u] = e
        BY <2>1, <2>2, Growth
    <2> QED
        BY <2>1, <2>2, <2>3
<1>5. ASSUME NEW x \in members', x[2] = m.room
      PROVE  x[1] = m.by \/ mail'[x[1]] \in m.named
    <2>1. x \in members
        BY <1>5
    <2>2. x[1] \in Ids /\ mail[x[1]] # NoMail
        BY <1>0, <2>1 DEF Services
    <2> QED
        BY <1>1, <1>5, <2>1, <2>2, Growth
<1> QED
    BY <1>3, <1>4, <1>5

LEMMA NamedStep == GInv /\ Writes => NamedAreMembers'
<1> SUFFICES ASSUME GInv, Writes PROVE \A m \in made' : Peopled(m)'
    BY DEF NamedAreMembers, Peopled
<1>0. Services /\ Known
    BY TypeParts DEF GInv
<1>1. CASE UNCHANGED <<accounts, rooms, members, made>>
    BY <1>0, <1>1, Carried DEF accounts
<1>2. ASSUME NEW e \in Emails, NEW u \in Ids, NewAccount(e, u), UNCHANGED made
      PROVE  \A m \in made' : Peopled(m)'
    <2>1. /\ mail[u] = NoMail /\ alive' = alive \union {u}
          /\ rooms' = rooms /\ members' = members /\ made' = made
        BY <1>2 DEF NewAccount, chats
    <2> QED
        BY <2>1, Carried
<1>3. ASSUME NEW u \in alive, RemoveAccount(u), UNCHANGED made
      PROVE  \A m \in made' : Peopled(m)'
    <2>1. /\ alive' = alive \ {u} /\ members' = {x \in members : x[1] # u}
          /\ rooms' = rooms /\ made' = made
        BY <1>3 DEF RemoveAccount
    <2>2. \A v \in alive' : \A r : <<v, r>> \in members => <<v, r>> \in members'
        BY <2>1
    <2>3. ASSUME NEW m \in made PROVE Peopled(m)'
        BY <2>1, <2>2, Carried
    <2> QED
        BY <2>1, <2>3
<1>4. ASSUME NEW S \in SUBSET alive, NewRoom(S), NEW m \in made
      PROVE  Peopled(m)'
    <2>1. /\ rooms' = rooms \union {lastRoom + 1} /\ members' = members \union (S \X {lastRoom + 1})
          /\ alive' = alive
        BY <1>4 DEF NewRoom, accounts
    <2>2. m.room # lastRoom + 1
        <3>1. m.room \in Nat /\ lastRoom \in Nat /\ m.room <= lastRoom
            BY <1>0 DEF Services, Known, Rooms
        <3> QED
            BY <3>1
    <2>3. m.room \in rooms' => m.room \in rooms
        BY <2>1, <2>2
    <2>4. \A x \in members' : x[2] = m.room => x \in members
        BY <2>1, <2>2
    <2> QED
        BY <2>1, <2>3, <2>4, Carried
<1>5. ASSUME NEW c \in Calls, Acknowledge(c)
      PROVE  \A m \in made' : Peopled(m)'
    <2>1. PICK all : all = {User(c)} \union call[c].ids
        OBVIOUS
    <2>2. /\ all \subseteq alive /\ NewRoom(all) /\ At(c, "create", "act")
          /\ made' = made \union
                 {[room |-> lastRoom + 1, by |-> User(c), named |-> call[c].named]}
        BY <1>5, <2>1 DEF Acknowledge
    <2>3. PICK m : m = [room |-> lastRoom + 1, by |-> User(c), named |-> call[c].named]
        OBVIOUS
    <2>4. /\ m.room = lastRoom + 1 /\ m.by \in all /\ m.named = call[c].named
          /\ all = {m.by} \union call[c].ids
        BY <2>1, <2>3
    <2>5. /\ \A e \in m.named : \E u \in call[c].ids : mail[u] = e
          /\ \A u \in call[c].ids : mail[u] \in m.named
        BY <2>2, <2>4 DEF GInv, Resolved, Stands
    <2>6. members' = members \union (all \X {m.room}) /\ mail' = mail /\ alive \subseteq Ids
        BY <1>0, <2>2, <2>4 DEF NewRoom, accounts, Services
    <2>7. \A x \in members : x[2] # m.room
        <3>1. \A x \in members : x[2] \in 1 .. lastRoom
            BY <1>0 DEF Services
        <3>2. lastRoom \in Nat
            BY <1>0 DEF Services
        <3> QED
            BY <2>4, <3>1, <3>2
    <2>8. \A u \in all : <<u, m.room>> \in members'
        BY <2>6
    <2>9. \A x \in members' : x[2] = m.room => x[1] \in all
        BY <2>6, <2>7
    <2>10. \A e \in m.named :
               \E u \in Ids : mail'[u] = e /\ (u \in alive' => <<u, m.room>> \in members')
        <3>1. call[c].ids \subseteq all /\ all \subseteq Ids
            BY <2>2, <2>4, <2>6
        <3> QED
            BY <2>5, <2>6, <2>8, <3>1
    <2>11. \A x \in members' : x[2] = m.room => x[1] = m.by \/ mail'[x[1]] \in m.named
        BY <2>4, <2>5, <2>6, <2>9
    <2>12. Peopled(m)'
        BY <2>4, <2>8, <2>10, <2>11 DEF Peopled
    <2>13. \A n \in made : Peopled(n)'
        BY <1>4, <2>2
    <2>14. made' = made \union {m}
        BY <2>2, <2>3
    <2> QED
        BY <2>12, <2>13, <2>14
<1>6. ASSUME NEW r \in rooms, DropRoom(r)
      PROVE  \A m \in made' : Peopled(m)'
    <2>1. /\ rooms' = rooms \ {r} /\ members' = {x \in members : x[2] # r}
          /\ alive' = alive /\ made' = made
        BY <1>6 DEF DropRoom, accounts
    <2>2. ASSUME NEW m \in made, m.room \in rooms', NEW u, <<u, m.room>> \in members
          PROVE  <<u, m.room>> \in members'
        BY <2>1, <2>2
    <2>3. ASSUME NEW m \in made PROVE Peopled(m)'
        BY <2>1, <2>2, Carried
    <2> QED
        BY <2>1, <2>3
<1>7. ASSUME NEW S \in SUBSET alive, NewRoom(S), UNCHANGED made
      PROVE  \A m \in made' : Peopled(m)'
    BY <1>4, <1>7
<1>8. \/ UNCHANGED <<accounts, rooms, members, made>>
      \/ \E e \in Emails, u \in Ids : NewAccount(e, u) /\ UNCHANGED made
      \/ \E u \in alive : RemoveAccount(u) /\ UNCHANGED made
      \/ \E S \in SUBSET alive : NewRoom(S) /\ UNCHANGED made
      \/ \E c \in Calls : Acknowledge(c)
      \/ \E r \in rooms : DropRoom(r)
    BY DEF Writes, state, chats
<1> QED
    BY <1>1, <1>2, <1>3, <1>5, <1>6, <1>7, <1>8

-----------------------------------------------------------------------------
LEMMA StepPreserves == GInv /\ [Next]_vars => GInv'
<1> SUFFICES ASSUME GInv, [Next]_vars PROVE GInv'
    OBVIOUS
<1>1. Writes /\ Moves
    BY OneWrite, OneMove DEF GInv
<1>2. Services' /\ call' \in [Calls -> Call] /\ answer' \in Answers
    BY <1>1, ServicesStep, CallsStep, AnswerStep
<1>3. TypeOK'
    BY <1>2 DEF TypeOK, Services
<1>4. Sessions' /\ Resolved' /\ Known' /\ NamedAreMembers'
    BY <1>1, SessionsStep, ResolvedStep, KnownStep, NamedStep
<1> QED
    BY <1>3, <1>4 DEF GInv

(* The inductive invariant: what the handlers know while others run.       *)
THEOREM Inductive == Spec => []GInv
BY InitEstablishes, StepPreserves, PTL DEF Spec

(* References between the tables hold, and an address has one account.     *)
THEOREM TypeCorrect == Spec => []TypeOK
<1>1. GInv => TypeOK
    BY DEF GInv
<1> QED
    BY <1>1, Inductive, PTL

(* POST /rooms makes the people that were named members, and nobody else.  *)
THEOREM PeopleAsNamed == Spec => []NamedAreMembers
<1>1. GInv => NamedAreMembers
    BY DEF GInv
<1> QED
    BY <1>1, Inductive, PTL

\* A request is answered by its own handler.
LEMMA OwnStep ==
    ASSUME GInv, Next, NEW c \in Calls, Ends(c)
    PROVE  Validate(c) \/ ListUsers(c) \/ Act(c)
<1>0. call \in [Calls -> Call]
    BY TypeParts DEF GInv
<1>1. ASSUME NEW d \in Calls, d # c,
             Validate(d) \/ ListUsers(d) \/ Act(d) \/ \E r \in Requests : Receive(d, r)
      PROVE  FALSE
    <2>1. call'[c] = call[c]
        BY <1>0, <1>1 DEF Validate, ListUsers, NoDirectory, Act, Receive, Logout, Register, DeleteUser, SendMessage,
               CreateRoom, DeleteRoom, ListRooms, Refuses, Fails, Reply, Answer, Goto
    <2> QED
        BY <2>1 DEF Ends
<1>2. ~Authority
    BY DEF Authority, Ends
<1>3. ~\E r \in Requests : Receive(c, r)
    BY DEF Receive, Ends
<1> QED
    BY <1>1, <1>2, <1>3 DEF Next

\* Only the last call of a route changes the services.
LEMMA OnlyActs ==
    ASSUME GInv, Next, NEW c \in Calls, Ends(c), state' # state
    PROVE  Act(c)
BY OwnStep DEF Validate, ListUsers, NoDirectory

\* The status of an answer whose request changed something.
LEMMA ChangedStatus ==
    ASSUME GInv, Next, NEW c \in Calls, Ends(c), state' # state
    PROVE  answer'.status \notin {400, 401, 403}
<1>1. Act(c) /\ \A code : ~Fails(c, code)
    BY OnlyActs DEF Fails
<1>2. ASSUME ListRooms(c) PROVE FALSE
    BY <1>2 DEF ListRooms
<1>3. ASSUME NEW code \in {"OK", "NOT_FOUND", "INTERNAL"}, Reply(c, code),
             code = "NOT_FOUND" => call[c].op \in {"delete", "drop"}
      PROVE  answer'.status \notin {400, 401, 403}
    <2>1. answer' = [status |-> StatusOf(call[c].op, code), rooms |-> {}]
        BY <1>3 DEF Reply, Answer, NoAnswer
    <2>2. StatusOf(call[c].op, code) \in {200, 404, 502}
        BY <1>3 DEF StatusOf
    <2> QED
        BY <2>1, <2>2
<1>4. CASE Logout(c) \/ Register(c)
    BY <1>1, <1>3, <1>4 DEF Logout, Register, Refuses
<1>5. CASE SendMessage(c) \/ CreateRoom(c)
    BY <1>1, <1>3, <1>5 DEF SendMessage, CreateRoom
<1>6. CASE DeleteUser(c)
    BY <1>1, <1>3, <1>6 DEF DeleteUser, Refuses, At
<1>7. CASE DeleteRoom(c)
    BY <1>1, <1>3, <1>7 DEF DeleteRoom, At
<1> QED
    BY <1>1, <1>2, <1>4, <1>5, <1>6, <1>7 DEF Act

\* What is reported as gone is gone.
LEMMA GoneIsGone ==
    ASSUME GInv, Next, NEW c \in Calls, Ends(c), answer'.status \in {200, 404}
    PROVE  /\ call[c].op = "delete" => call[c].id \notin alive'
           /\ call[c].op = "drop" => call[c].room \notin rooms'
<1>1. \A status : Answer(c, status) => answer'.status = status
    BY DEF Answer, NoAnswer
<1>2. \A code : Reply(c, code) => answer'.status = StatusOf(call[c].op, code)
    BY <1>1 DEF Reply
<1>3. call[c].op \in {"delete", "drop"} =>
          /\ StatusOf(call[c].op, "DENIED") = 403
          /\ StatusOf(call[c].op, "INVALID") = 400
          /\ StatusOf(call[c].op, "INTERNAL") = 502
    BY DEF StatusOf
<1>4. \A code \in {"DENIED", "INVALID", "INTERNAL"} :
          call[c].op \in {"delete", "drop"} => ~Fails(c, code)
    <2> SUFFICES ASSUME NEW code \in {"DENIED", "INVALID", "INTERNAL"},
                        call[c].op \in {"delete", "drop"}, Reply(c, code)
                 PROVE  FALSE
        BY DEF Fails
    <2>1. answer'.status = StatusOf(call[c].op, code)
        BY <1>2
    <2> QED
        BY <1>3, <2>1
<1>5. call[c].op \in {"delete", "drop"} => Act(c)
    <2>1. ~Validate(c)
        <3>1. call \in [Calls -> Call]
            BY TypeParts DEF GInv
        <3>2. \A pc \in {"list", "act"} : ~Goto(c, pc)
            BY <3>1 DEF Goto, Ends, Call
        <3>3. \A status \in {400, 401, 403} : ~Answer(c, status)
            BY <1>1
        <3> QED
            BY <3>2, <3>3 DEF Validate
    <2>2. call[c].op \in {"delete", "drop"} => ~ListUsers(c)
        BY DEF ListUsers, At
    <2> QED
        BY <2>1, <2>2, OwnStep
<1>6. CASE call[c].op = "delete"
    <2>1. DeleteUser(c)
        BY <1>5, <1>6 DEF Act, Logout, Register, SendMessage, CreateRoom, DeleteRoom, ListRooms, At
    <2>2. \/ RemoveAccount(call[c].id)
          \/ call[c].id \notin alive /\ Fails(c, "NOT_FOUND")
        BY <1>4, <1>6, <2>1 DEF DeleteUser, Refuses
    <2> QED
        BY <1>6, <2>2 DEF RemoveAccount, Fails, state, accounts
<1>7. CASE call[c].op = "drop"
    <2>1. DeleteRoom(c)
        BY <1>5, <1>7 DEF Act, Logout, Register, DeleteUser, SendMessage, CreateRoom, ListRooms, At
    <2> QED
        BY <1>4, <1>7, <2>1 DEF DeleteRoom, Fails, state, chats
<1> QED
    BY <1>6, <1>7

(* Answers are true of the services: a refusal changed nothing, and what   *)
(* is reported as deleted or not found is gone.                            *)
THEOREM AnswersAreTrue == Spec => TrueAnswers
<1>1. GInv /\ [Next]_vars =>
          [\A c \in Calls :
               Ends(c) =>
                   /\ state' # state => answer'.status \notin {400, 401, 403}
                   /\ answer'.status \in {200, 404} =>
                          /\ call[c].op = "delete" => call[c].id \notin alive'
                          /\ call[c].op = "drop" => call[c].room \notin rooms']_vars
    BY ChangedStatus, GoneIsGone DEF vars
<1> QED
    BY <1>1, Inductive, PTL DEF Spec, TrueAnswers

-----------------------------------------------------------------------------
LEMMA Smallest ==
    ASSUME NEW S \in SUBSET Nat, S # {}
    PROVE  \E m \in S : \A n \in S : m <= n
<1>1. PICK m \in S : \A n \in S : ~(<<n, m>> \in OpToRel(<, Nat))
    BY NatLessThanWellFounded, WFMin
<1>2. \A n \in S : ~(n < m)
    BY <1>1 DEF OpToRel
<1> QED
    BY <1>2

LEMMA Greatest ==
    ASSUME NEW b \in Nat, NEW S \in SUBSET (0 .. b), S # {}
    PROVE  \E m \in S : \A n \in S : n <= m
<1> DEFINE T == {n \in Nat : b - n \in S}
<1>1. PICK s \in S : TRUE
    OBVIOUS
<1>2. b - s \in T
    BY <1>1
<1>3. PICK t \in T : \A n \in T : t <= n
    BY <1>2, Smallest
<1>4. ASSUME NEW n \in S PROVE n <= b - t
    <2>1. b - n \in T
        OBVIOUS
    <2>2. t <= b - n
        BY <1>3, <2>1
    <2> QED
        BY <1>3, <2>2
<1> QED
    BY <1>3, <1>4

\* A room that is not on the page is behind as many conversations as fill it: the
\* newest of the rooms that are missing has all that come before it on the page.
LEMMA PageIsFull ==
    ASSUME TypeOK, NEW u, NEW r \in rooms, <<u, r>> \in members, r \notin Page(u)
    PROVE  Cardinality(DirectsOf(u)) + Cardinality(Page(u)) >= Limit
<1> DEFINE Mine == {s \in rooms : <<u, s>> \in members}
<1> DEFINE Missing == Mine \ Page(u)
<1>1. lastRoom \in Nat /\ rooms \subseteq 1 .. lastRoom /\ directs \subseteq SUBSET Ids
    BY DEF TypeOK
<1>2. IsFiniteSet(rooms)
    <2>1. IsFiniteSet(1 .. lastRoom)
        BY <1>1, FS_Interval
    <2> QED
        BY <1>1, <2>1, FS_Subset
<1>3. IsFiniteSet(DirectsOf(u))
    <2>1. IsFiniteSet(Ids)
        BY Constants, FS_Interval DEF Ids
    <2>2. DirectsOf(u) \subseteq SUBSET Ids
        BY <1>1 DEF DirectsOf
    <2> QED
        BY <2>1, <2>2, FS_SUBSET, FS_Subset
<1>4. PICK m \in Missing : \A s \in Missing : s <= m
    <2>1. \A s \in Missing : s \in 0 .. lastRoom
        BY <1>1
    <2>2. Missing \in SUBSET (0 .. lastRoom) /\ Missing # {}
        BY <2>1
    <2> QED
        BY <1>1, <2>2, Greatest
<1> DEFINE Newer == {s \in rooms : <<u, s>> \in members /\ s > m}
<1>5. Cardinality(DirectsOf(u)) + Cardinality(Newer) >= Limit
    <2>1. ~(Before(u, m) < Limit)
        BY <1>4 DEF Page
    <2>2. Cardinality(DirectsOf(u)) \in Nat /\ Cardinality(Newer) \in Nat
        BY <1>2, <1>3, FS_CardinalityType, FS_Subset
    <2> QED
        BY <2>1, <2>2, BoundsAssumption DEF Before
<1>6. Newer \subseteq Page(u)
    <2> SUFFICES ASSUME NEW s \in Newer, s \notin Page(u) PROVE FALSE
        OBVIOUS
    <2>1. s \in Missing /\ s > m
        OBVIOUS
    <2>2. s <= m /\ s \in Nat /\ m \in Nat
        BY <1>1, <1>4, <2>1
    <2> QED
        BY <2>1, <2>2
<1>7. Page(u) \subseteq rooms
    BY DEF Page
<1>8. /\ Cardinality(Newer) <= Cardinality(Page(u))
      /\ Cardinality(Newer) \in Nat /\ Cardinality(Page(u)) \in Nat /\ Cardinality(DirectsOf(u)) \in Nat
    BY <1>2, <1>3, <1>6, <1>7, FS_CardinalityType, FS_Subset
<1> QED
    BY <1>5, <1>8, BoundsAssumption

(* GET /rooms shows every room of the user unless the page of              *)
(* conversations is full.                                                  *)
THEOREM RoomsAreListed == Spec => RoomsListed
<1> DEFINE Shown ==
        \A c \in Calls :
            At(c, "rooms", "act") /\ Ends(c) /\ answer'.status = 200 =>
                \A r \in call[c].must :
                    <<User(c), r>> \in members =>
                        \/ r \in answer'.rooms
                        \/ Cardinality(DirectsOf(User(c))) + Cardinality(answer'.rooms) >= Limit
<1>1. GInv /\ [Next]_vars => [Shown]_vars
    <2> SUFFICES ASSUME GInv, Next, NEW c \in Calls,
                        At(c, "rooms", "act"), Ends(c), answer'.status = 200,
                        NEW r, <<User(c), r>> \in members
                 PROVE  \/ r \in answer'.rooms
                        \/ Cardinality(DirectsOf(User(c))) + Cardinality(answer'.rooms) >= Limit
        BY DEF vars
    <2>1. ListRooms(c)
        BY OwnStep DEF At, Validate, ListUsers, Act, Logout, Register, DeleteUser, SendMessage, CreateRoom, DeleteRoom
    <2>2. ~Reply(c, "INTERNAL")
        BY DEF Reply, Answer, StatusOf, NoAnswer, At
    <2>3. answer' = [status |-> 200, rooms |-> Page(User(c))]
        BY <2>1, <2>2 DEF ListRooms
    <2>4. TypeOK /\ r \in rooms
        BY DEF GInv, TypeOK
    <2> QED
        BY <2>3, <2>4, PageIsFull
<1> QED
    BY <1>1, Inductive, PTL DEF Spec, RoomsListed

=============================================================================
