------------------------------ MODULE Gateway ------------------------------
(***************************************************************************)
(* The HTTP routes of the gateway (gateway_service/src/main.cpp).  Each    *)
(* validates the token in one call to auth_service, some ask for the list  *)
(* of users in a second, and then one call to auth_service or              *)
(* messaging_service does what was asked for.  Nothing is held between the *)
(* calls, and any of them may fail with or without an effect.              *)
(*                                                                         *)
(* auth_service's sessions are those of SessionAuthority, which it         *)
(* implements while no two calls change the sessions of a user at once;    *)
(* the accounts, rooms and direct conversations are what Accounts and      *)
(* MessageStore promise of them, kept as plain sets.  Ids of accounts and  *)
(* rooms are handed out once.  The first account is the administrator.     *)
(*                                                                         *)
(* /health, /me and GET /users change nothing and return one answer as it  *)
(* is; /login and /refresh pass it on, their effect is Authority.  The     *)
(* histories are MessageStore's.                                           *)
(***************************************************************************)
EXTENDS Naturals, FiniteSets

CONSTANTS
    Calls,    \* the handlers that run at once
    Emails,
    First,    \* the administrator's address
    NoMail,
    Jti,      \* session ids
    NoJti,
    MaxId,    \* bound: ids of accounts
    MaxRoom,  \* bound: ids of rooms
    Limit,    \* how many conversations GET /rooms asks for
    Named,    \* the sets of addresses that requests name
    Peers     \* the accounts that messages are sent to

ASSUME MailAssumption == First \in Emails /\ NoMail \notin Emails
ASSUME BoundsAssumption == MaxId \in Nat \ {0} /\ MaxRoom \in Nat /\ Limit \in Nat \ {0}

Ids == 1 .. MaxId
Rooms == 1 .. MaxRoom
Routes == {"logout", "register", "delete", "send", "rooms", "create", "drop"}

ASSUME NamedAssumption == Named \subseteq SUBSET Emails /\ Peers \subseteq Ids

VARIABLES
    holder, open, closed,  \* the sessions, see SessionAuthority
    mail,      \* the address every id was registered with
    alive,     \* the accounts
    rooms,     \* the rooms
    lastRoom,  \* the sequence of their ids
    members,   \* their participants
    directs,   \* the direct conversations: pairs of accounts
    call,      \* the requests
    answer,    \* what a step answers
    made       \* history: the rooms whose creation was acknowledged

Auth == INSTANCE SessionAuthority WITH Users <- Ids, NoUser <- 0

sessions == <<holder, open, closed>>
accounts == <<mail, alive>>
chats == <<rooms, lastRoom, members, directs>>
state == <<sessions, accounts, chats>>
vars == <<state, call, answer, made>>

-----------------------------------------------------------------------------
AdminRoutes == {"delete", "create", "drop"}

IsAdmin(u) == u = 1

\* What a request is about: a session, an account, a room, addresses.
Request == [op : Routes, tok : Jti, id : 0 .. MaxId, room : 0 .. MaxRoom, named : SUBSET Emails]

Call == [op : Routes \union {"none"}, tok : Jti \union {NoJti}, id : 0 .. MaxId, room : 0 .. MaxRoom,
         named : SUBSET Emails, pc : {"none", "validate", "list", "act"},
         ids : SUBSET Ids, must : SUBSET Rooms]

NoCall == [op |-> "none", tok |-> NoJti, id |-> 0, room |-> 0,
           named |-> {}, pc |-> "none", ids |-> {}, must |-> {}]

Answers == [status : {0, 200, 400, 401, 403, 404, 502}, rooms : SUBSET Rooms]

NoAnswer == [status |-> 0, rooms |-> {}]

User(c) == holder[call[c].tok]

At(c, op, pc) == call[c].op = op /\ call[c].pc = pc

\* Database::listUsers: every account, with its address.
Directory == {[id |-> u, email |-> mail[u]] : u \in alive}

\* The account of an address.
With(e) == {x.id : x \in {y \in Directory : y.email = e}}

\* The rooms somebody was told to be in.
Promised(u) == {m.room : m \in {x \in made : u = x.by \/ mail[u] \in x.named}}

(* Rows refer to rows, requests have their shapes, and an address has one  *)
(* account.                                                                *)
TypeOK ==
    /\ holder \in [Jti -> 0 .. MaxId] /\ open \subseteq Jti /\ closed \subseteq Jti
    /\ mail \in [Ids -> Emails \union {NoMail}]
    /\ alive \subseteq {u \in Ids : mail[u] # NoMail}
    /\ \A u, v \in alive : mail[u] = mail[v] => u = v
    /\ {holder[j] : j \in open} \subseteq alive
    /\ lastRoom \in 0 .. MaxRoom /\ rooms \subseteq 1 .. lastRoom
    /\ members \subseteq alive \X rooms
    /\ directs \subseteq SUBSET Ids
    /\ call \in [Calls -> Call] /\ answer \in Answers
    /\ made \subseteq [room : Rooms, by : Ids, named : SUBSET Emails]

Init ==
    /\ Auth!Init
    /\ mail = [u \in Ids |-> IF u = 1 THEN First ELSE NoMail]
    /\ alive = {1}
    /\ rooms = {} /\ lastRoom = 0 /\ members = {} /\ directs = {}
    /\ call = [c \in Calls |-> NoCall] /\ answer = NoAnswer
    /\ made = {}

-----------------------------------------------------------------------------
(***************************************************************************)
(* Answers.                                                                *)
(***************************************************************************)
Answer(c, status) ==
    /\ call' = [call EXCEPT ![c] = NoCall]
    /\ answer' = [NoAnswer EXCEPT !.status = status]

Goto(c, pc) == call' = [call EXCEPT ![c].pc = pc] /\ answer' = NoAnswer

\* Mutant: a service in trouble is taken for a bad request.
StatusOfBad(op, code) ==
    CASE code = "OK" -> 200
      [] code = "DENIED" /\ op \in {"logout", "register", "delete", "drop"} -> 403
      [] code = "NOT_FOUND" /\ op \in {"delete", "drop"} -> 404
      [] OTHER -> IF op \in {"delete", "drop"} THEN 400 ELSE 502

\* The HTTP status of a route for the status of its gRPC call.
StatusOf(op, code) ==
    CASE code = "OK" -> 200
      [] code = "DENIED" /\ op \in {"logout", "register", "delete", "drop"} -> 403
      [] code = "NOT_FOUND" /\ op \in {"delete", "drop"} -> 404
      [] code = "INVALID" /\ op \in {"delete", "drop"} -> 400
      [] OTHER -> 502

Reply(c, code) == Answer(c, StatusOf(call[c].op, code))

\* The service refuses, or fails before it did anything.
Fails(c, code) == Reply(c, code) /\ UNCHANGED <<state, made>>

-----------------------------------------------------------------------------
(***************************************************************************)
(* A request arrives, about ids that were handed out once; its token is    *)
(* validated; its body is read.                                            *)
(***************************************************************************)
Receive(c, r) ==
    /\ call[c].pc = "none"
    /\ holder[r.tok] # 0
    /\ r.id # 0 => mail[r.id] # NoMail
    /\ r.room <= lastRoom
    /\ call' = [call EXCEPT ![c] =
           [op |-> r.op, tok |-> r.tok, id |-> r.id, room |-> r.room, named |-> r.named,
            pc |-> "validate", ids |-> {},
            must |-> IF r.op = "rooms" THEN Promised(holder[r.tok]) ELSE {}]]
    /\ answer' = NoAnswer
    /\ UNCHANGED <<state, made>>

\* ValidateToken's answer; a call that fails is an invalid token.
Valid(c) == {FALSE, call[c].tok \in open}

Validate(c) ==
    /\ call[c].pc = "validate"
    /\ \E valid \in Valid(c) :
           IF ~valid THEN Answer(c, 401)
           ELSE IF call[c].op \in AdminRoutes /\ ~IsAdmin(User(c)) THEN Answer(c, 403)
           ELSE \/ Answer(c, 400)    \* the body or the path
                \/ Goto(c, IF call[c].op = "create" THEN "list" ELSE "act")
    /\ UNCHANGED <<state, made>>

\* Mutant: an address nobody has is passed over.
AllKnownUnchecked(c) == TRUE

\* Every address of the request is in the list.
AllKnown(c) == \A e \in call[c].named : With(e) # {}

\* auth_service decodes the token once more, and refuses it or fails.
NoDirectory(c) == Answer(c, 502)

\* POST /rooms: the addresses become ids by the list of users.
ListUsers(c) ==
    /\ At(c, "create", "list")
    /\ \/ IF AllKnown(c)
          THEN /\ call' = [call EXCEPT ![c] =
                      [call[c] EXCEPT !.pc = "act", !.ids = UNION {With(e) : e \in call[c].named}]]
               /\ answer' = NoAnswer
          ELSE Answer(c, 400)
       \/ NoDirectory(c)
    /\ UNCHANGED <<state, made>>

-----------------------------------------------------------------------------
(***************************************************************************)
(* What the routes ask auth_service to do.                                 *)
(***************************************************************************)
Close(u) ==
    LET J == {j \in open : holder[j] = u} IN
    IF J = {} THEN UNCHANGED sessions ELSE \E j \in J : Auth!Close(j)

\* auth_service decodes the token once more: it may have expired, or not say
\* "admin".  Or it fails.
Refuses(c) == \E code \in {"DENIED", "INTERNAL"} : Fails(c, code)

\* POST /logout: whatever session the user has by then.
Logout(c) ==
    /\ At(c, "logout", "act")
    /\ \/ /\ Close(User(c))
          /\ Reply(c, "OK") \/ Reply(c, "INTERNAL")
          /\ UNCHANGED <<accounts, chats, made>>
       \/ Refuses(c)

NewAccount(e, u) ==
    /\ mail[u] = NoMail /\ \A v \in Ids : mail[v] = NoMail => u <= v
    /\ mail' = [mail EXCEPT ![u] = e]
    /\ alive' = alive \union {u}
    /\ UNCHANGED <<sessions, chats>>

\* POST /register: only auth_service looks at the role.
Register(c) ==
    /\ At(c, "register", "act")
    /\ \/ /\ IsAdmin(User(c))
          /\ \E e \in call[c].named, u \in Ids : With(e) = {} /\ NewAccount(e, u)
          /\ Reply(c, "OK") \/ Reply(c, "INTERNAL")
          /\ UNCHANGED made
       \/ Refuses(c)

RemoveAccount(u) ==
    /\ Close(u)
    /\ alive' = alive \ {u}
    /\ members' = {m \in members : m[1] # u}
    /\ UNCHANGED <<mail, rooms, lastRoom, directs>>

\* DELETE /users/:id; a second try after a lost connection finds nothing.
DeleteUser(c) ==
    LET u == call[c].id IN
    /\ At(c, "delete", "act")
    /\ \/ /\ u \in alive \ {User(c)} /\ RemoveAccount(u)
          /\ \E code \in {"OK", "NOT_FOUND", "INTERNAL"} : Reply(c, code)
          /\ UNCHANGED made
       \/ u = User(c) /\ Fails(c, "INVALID")
       \/ u \notin alive \union {User(c)} /\ Fails(c, "NOT_FOUND")
       \/ Refuses(c)

-----------------------------------------------------------------------------
(***************************************************************************)
(* What they ask messaging_service to do.                                  *)
(***************************************************************************)
\* POST /conversations/:id/messages, to the account of a number.
SendMessage(c) ==
    LET pair == {User(c), call[c].id} IN
    /\ At(c, "send", "act")
    /\ \/ /\ pair \subseteq alive
          /\ directs' = directs \union {pair}
          /\ Reply(c, "OK") \/ Reply(c, "INTERNAL")
          /\ UNCHANGED <<sessions, accounts, rooms, lastRoom, members, made>>
       \/ Fails(c, "INTERNAL")

NewRoom(S) ==
    /\ lastRoom < MaxRoom
    /\ lastRoom' = lastRoom + 1
    /\ rooms' = rooms \union {lastRoom + 1}
    /\ members' = members \union (S \X {lastRoom + 1})
    /\ UNCHANGED <<sessions, accounts, directs>>

\* POST /rooms; a participant that cannot be added is an error, the room stays.
CreateRoom(c) ==
    LET all == {User(c)} \union call[c].ids IN
    /\ At(c, "create", "act")
    /\ \/ /\ all \subseteq alive /\ NewRoom(all)
          /\ Reply(c, "OK")
          /\ made' = made \union
                 {[room |-> lastRoom + 1, by |-> User(c), named |-> call[c].named]}
       \/ /\ \E S \in SUBSET (all \intersect alive) : NewRoom(S)
          /\ Reply(c, "INTERNAL")
          /\ UNCHANGED made
       \/ Fails(c, "INTERNAL")

\* DELETE /rooms/:roomId.
DeleteRoom(c) ==
    /\ At(c, "drop", "act")
    /\ \/ /\ call[c].room \in rooms
          /\ rooms' = rooms \ {call[c].room}
          /\ members' = {m \in members : m[2] # call[c].room}
          /\ \E code \in {"OK", "NOT_FOUND", "INTERNAL"} : Reply(c, code)
          /\ UNCHANGED <<sessions, accounts, lastRoom, directs, made>>
       \/ call[c].room \notin rooms /\ Fails(c, "NOT_FOUND")
       \/ Fails(c, "INTERNAL")

DirectsOf(u) == {d \in directs : u \in d}

\* How many conversations of a user come before a room.
\* listConversationsForUser orders by the last message, then by id: rooms,
\* which have no messages of their own, come after the direct conversations.
Before(u, r) ==
    Cardinality(DirectsOf(u)) + Cardinality({s \in rooms : <<u, s>> \in members /\ s > r})

\* Mutant: one conversation less than was asked for.
PageShort(u) == {r \in rooms : <<u, r>> \in members /\ Before(u, r) < Limit - 1}

\* ListConversations: the rooms among the first conversations of a user.
Page(u) == {r \in rooms : <<u, r>> \in members /\ Before(u, r) < Limit}

\* GET /rooms: the groups on the page.
ListRooms(c) ==
    /\ At(c, "rooms", "act")
    /\ \/ /\ call' = [call EXCEPT ![c] = NoCall]
          /\ answer' = [status |-> 200, rooms |-> Page(User(c))]
       \/ Reply(c, "INTERNAL")
    /\ UNCHANGED <<state, made>>

-----------------------------------------------------------------------------
\* Sign-ins, and ends of sessions without this gateway.
Authority ==
    /\ \/ \E u \in alive, j \in Jti : Auth!Open(u, j)
       \/ \E j \in Jti : Auth!Close(j)
    /\ answer' = NoAnswer
    /\ UNCHANGED <<accounts, chats, call, made>>

Act(c) ==
    \/ Logout(c) \/ Register(c) \/ DeleteUser(c)
    \/ SendMessage(c) \/ CreateRoom(c) \/ DeleteRoom(c) \/ ListRooms(c)

\* The requests of the routes, each with what its path and body name.
Requests ==
    {r \in Request :
        /\ r.id # 0 <=> r.op \in {"delete", "send"}
        /\ r.op = "send" => r.id \in Peers
        /\ r.room # 0 <=> r.op = "drop"
        /\ r.named \in IF r.op \in {"register", "create"} THEN Named ELSE {{}}
        /\ r.op = "register" => Cardinality(r.named) = 1}

Next ==
    \/ Authority
    \/ \E c \in Calls :
           Validate(c) \/ ListUsers(c) \/ Act(c) \/ \E r \in Requests : Receive(c, r)

Spec == Init /\ [][Next]_vars

-----------------------------------------------------------------------------
Ends(c) == call[c].pc # "none" /\ call'[c].pc = "none"

(* An answer is true of the services.  Whoever is told that a request was  *)
(* bad or not allowed may correct it and send it again: it changed nothing *)
(* (a service in trouble, whose effect is in doubt, is never reported that *)
(* way).  What a deletion was told to be gone is gone, "not found" after a *)
(* lost connection included.                                               *)
TrueAnswers ==
    [][\A c \in Calls :
           Ends(c) =>
               /\ state' # state => answer'.status \notin {400, 401, 403}
               /\ answer'.status \in {200, 404} =>
                      /\ call[c].op = "delete" => call[c].id \notin alive'
                      /\ call[c].op = "drop" => call[c].room \notin rooms']_vars

(* A room that was acknowledged has its creator and, for every address     *)
(* that was named, an account that was registered with it, as long as the  *)
(* room and these accounts are there: the list of users may be stale when  *)
(* it is used, but no address is dropped or gets somebody else's account.  *)
NamedAreMembers ==
    \A m \in made :
        m.room \in rooms =>
            /\ m.by \in alive => <<m.by, m.room>> \in members
            /\ \A e \in m.named :
                   \E u \in Ids : mail[u] = e /\ (u \in alive => <<u, m.room>> \in members)
            /\ \A x \in members :
                   x[2] = m.room => x[1] = m.by \/ mail[x[1]] \in m.named

(* GET /rooms shows every room that the user was told to be in before it   *)
(* was asked, unless the page is full.                                     *)
RoomsListed ==
    [][\A c \in Calls :
           At(c, "rooms", "act") /\ Ends(c) /\ answer'.status = 200 =>
               \A r \in call[c].must :
                   <<User(c), r>> \in members =>
                       \/ r \in answer'.rooms
                       \/ Cardinality(DirectsOf(User(c))) + Cardinality(answer'.rooms) >= Limit]_vars

=============================================================================
