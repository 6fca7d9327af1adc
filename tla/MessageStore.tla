---------------------------- MODULE MessageStore ----------------------------
(***************************************************************************)
(* The stored half of messaging_service: conversations, participants and   *)
(* messages in PostgreSQL, and the calls that change or read them          *)
(* (messaging_service.cpp and db/Database.cpp), as the gateway makes them. *)
(*                                                                         *)
(* A method of Database is one transaction under the mutex of Database,    *)
(* tried once more under the same mutex when the connection is lost: the   *)
(* first try may have been committed all the same.  Other failures, the    *)
(* violation of a foreign key among them, are thrown and end the call.     *)
(* auth_service deletes users through a connection of its own.             *)
(*                                                                         *)
(* A conversation is found by its title.  The titles that people type for  *)
(* rooms are taken to be none of the keys dm:<id>:<id> and room:<id>.      *)
(* Participants that are no numbers are left out.                          *)
(***************************************************************************)
EXTENDS Base64

CONSTANTS
    Users,     \* ids of users
    Far,       \* an id that is a number and does not fit an int
    Nobody,    \* SQL NULL
    Keys,      \* the keys that clients use
    Senders,   \* calls of SendMessage
    Readers,   \* calls of GetHistory
    Admins,    \* calls that create, extend and delete rooms
    MaxConvs,  \* bound: ids of conversations
    MaxMsgs,   \* bound: ids of messages
    Limit      \* the limit of a history request

ASSUME BoundsAssumption == MaxConvs \in Nat /\ MaxMsgs \in Nat /\ Limit \in Nat \ {0}
ASSUME IdsAssumption == IsFiniteSet(Users) /\ Far \notin Users /\ Nobody \notin Users

VARIABLES
    users,     \* the users table
    convs,     \* conversations
    parts,     \* conversation_participant
    msgs,      \* messages
    lastConv,  \* the sequence of id_conversations
    lastMsg,   \* the sequence of id_messages
    call,      \* the calls
    acked,     \* history: the messages whose sender was told so
    promised,  \* history: the memberships somebody was told of
    gone       \* history: the conversations somebody was told are deleted

rows == <<convs, parts, msgs, lastConv, lastMsg>>
told == <<acked, promised, gone>>
vars == <<users, rows, call, told>>

-----------------------------------------------------------------------------
ConvIds == 1 .. MaxConvs
MsgIds == 1 .. MaxMsgs

\* dm:<a>:<b> with the smaller id first, room:<id>, and a title somebody typed.
Dm(a, b) == [kind |-> "dm", of |-> {a, b}]
Room(c) == [kind |-> "room", of |-> {c}]
Typed == [kind |-> "typed", of |-> {}]

ASSUME KeysAssumption ==
    Keys \subseteq {Dm(a, b) : a \in Users, b \in Users \union {Far}} \union {Room(c) : c \in ConvIds}

Threads == Senders \union Readers \union Admins

\* parse_dm_key: the ids become participants when both fit an int.
DmMembers(k) == IF k.kind = "dm" /\ Far \notin k.of THEN k.of ELSE {}

Conversation == [id : ConvIds, title : Keys \union {Typed}, type : {"private", "group"}]

Message == [id : MsgIds, conv : ConvIds, sender : Users \union {Nobody}]

Titled(k) == {c \in convs : c.title = k}

Exists(c) == \E r \in convs : r.id = c

\* getHistory: what is stored under a key, and the newest of it.
Stored(k) == {m \in msgs : \E c \in Titled(k) : m.conv = c.id}

\* Mutant: the limit keeps the oldest.
Oldest(S) == {m \in S : Cardinality({x \in S : x.id < m.id}) < Limit}

Newest(S) == {m \in S : Cardinality({x \in S : x.id > m.id}) < Limit}

IsParticipant(u, c) == <<u, c>> \in parts

-----------------------------------------------------------------------------
\* try 2: the connection was lost, the mutex is still held.
Ops == {"none", "send", "create", "add", "delete", "check", "read", "answered"}

NoCall == [op |-> "none", try |-> 1, who |-> Nobody, key |-> Typed, conv |-> 0,
           todo |-> <<>>, all |-> {}, must |-> {}, got |-> {}]

Begin(t, c) ==
    /\ call[t].op \in {"none", "answered"}
    /\ call' = [call EXCEPT ![t] = c]
    /\ UNCHANGED <<users, rows, told>>

(* Rows and calls have their shapes, and participants and messages refer   *)
(* to rows that exist.                                                     *)
TypeOK ==
    /\ users \subseteq Users
    /\ convs \subseteq Conversation
    /\ parts \subseteq users \X {c.id : c \in convs}
    /\ msgs \subseteq Message /\ {m.conv : m \in msgs} \subseteq {c.id : c \in convs}
    /\ lastConv \in Nat /\ lastMsg \in Nat
    /\ call \in [Threads -> [op : Ops, try : {1, 2}, who : Users \union {Nobody},
                             key : Keys \union {Typed}, conv : 0 .. MaxConvs,
                             todo : Seq(Users), all : SUBSET Users,
                             must : SUBSET MsgIds, got : SUBSET MsgIds]]
    /\ acked \subseteq [id : MsgIds, key : Keys, conv : ConvIds]
    /\ promised \subseteq Users \X ConvIds
    /\ gone \subseteq ConvIds

Init ==
    /\ users = Users
    /\ convs = {} /\ parts = {} /\ msgs = {}
    /\ lastConv = 0 /\ lastMsg = 0
    /\ call = [t \in Threads |-> NoCall]
    /\ acked = {} /\ promised = {} /\ gone = {}

\* The mutex of Database.
MutexFor(t) == \A s \in Threads \ {t} : call[s].try = 1

Return(t) == call' = [call EXCEPT ![t] = NoCall]

\* The connection is lost: once more, unless it cannot be opened again.
Lost(t) ==
    /\ UNCHANGED told
    /\ \/ call[t].try = 1 /\ call' = [call EXCEPT ![t].try = 2]
       \/ Return(t)

\* Commit and say so; commit or not, and lose the connection; fail.
Attempt(t, Commit, Done) ==
    /\ MutexFor(t)
    /\ UNCHANGED users
    /\ \/ Commit /\ Done
       \/ Commit /\ Lost(t)
       \/ UNCHANGED rows /\ Lost(t)
       \/ UNCHANGED <<rows, told>> /\ Return(t)

-----------------------------------------------------------------------------
(***************************************************************************)
(* SendMessage.  The gateway has validated the sender's token and turned a *)
(* numeric conversation into the key of the pair.                          *)
(***************************************************************************)
SendBegin(t, u, k) ==
    /\ u \in users
    /\ k.kind = "dm" => u \in k.of
    /\ Begin(t, [NoCall EXCEPT !.op = "send", !.who = u, !.key = k])

\* Mutant: the conversation is not looked for.
RowForNew(k) == {lastConv + 1}

\* The row of a key, or the id of a new one.
RowFor(k) == IF Titled(k) = {} THEN {lastConv + 1} ELSE {r.id : r \in Titled(k)}

InsertMessage(k, u, c) ==
    /\ DmMembers(k) \union {u} \subseteq users
    /\ c \in RowFor(k) /\ c <= MaxConvs /\ lastMsg < MaxMsgs
    /\ convs' = IF Exists(c) THEN convs
                ELSE convs \union {[id |-> c, title |-> k, type |-> "private"]}
    /\ lastConv' = IF Exists(c) THEN lastConv ELSE c
    /\ parts' = parts \union (DmMembers(k) \X {c})
    /\ msgs' = msgs \union {[id |-> lastMsg + 1, conv |-> c, sender |-> u]}
    /\ lastMsg' = lastMsg + 1

Send(t) ==
    /\ call[t].op = "send"
    /\ \E c \in ConvIds :
           Attempt(t, InsertMessage(call[t].key, call[t].who, c),
                   /\ acked' = acked \union
                          {[id |-> lastMsg + 1, key |-> call[t].key, conv |-> c]}
                   /\ UNCHANGED <<promised, gone>>
                   /\ Return(t))

-----------------------------------------------------------------------------
(***************************************************************************)
(* CreateConversation: the row, then the creator and the participants one  *)
(* after the other.  The gateway took their ids from the list of users.    *)
(* AddParticipants adds to a row in the same way.                          *)
(***************************************************************************)
CreateBegin(t, u, S) ==
    /\ {u} \union S \subseteq users
    /\ \E q \in [1 .. Cardinality(S) -> S] :
           /\ S = {q[i] : i \in DOMAIN q}
           /\ Begin(t, [NoCall EXCEPT !.op = "create", !.todo = <<u>> \o q,
                                      !.all = {u} \union S])

InsertGroup ==
    /\ lastConv < MaxConvs
    /\ convs' = convs \union {[id |-> lastConv + 1, title |-> Typed, type |-> "group"]}
    /\ lastConv' = lastConv + 1
    /\ UNCHANGED <<parts, msgs, lastMsg>>

Create(t) ==
    /\ call[t].op = "create"
    /\ Attempt(t, InsertGroup,
               /\ call' = [call EXCEPT ![t] = [@ EXCEPT !.op = "add", !.conv = lastConv + 1,
                                                       !.try = 1]]
               /\ UNCHANGED told)

AddBegin(t, c, u) ==
    Begin(t, [NoCall EXCEPT !.op = "add", !.conv = c, !.todo = <<u>>, !.all = {u}])

InsertParticipant(u, c) ==
    /\ u \in users /\ Exists(c)
    /\ parts' = parts \union {<<u, c>>}
    /\ UNCHANGED <<convs, msgs, lastConv, lastMsg>>

Added(t) ==
    /\ UNCHANGED <<acked, gone>>
    /\ IF Len(call[t].todo) = 1
       THEN /\ promised' = promised \union (call[t].all \X {call[t].conv})
            /\ Return(t)
       ELSE /\ call' = [call EXCEPT ![t] = [@ EXCEPT !.todo = Tail(call[t].todo), !.try = 1]]
            /\ UNCHANGED promised

\* Mutant: a participant that could not be added is passed over.
AddIgnoreFailure(t) ==
    /\ call[t].op = "add"
    /\ \/ Attempt(t, InsertParticipant(Head(call[t].todo), call[t].conv), Added(t))
       \/ MutexFor(t) /\ UNCHANGED <<users, rows>> /\ Added(t)

Add(t) ==
    /\ call[t].op = "add"
    /\ Attempt(t, InsertParticipant(Head(call[t].todo), call[t].conv), Added(t))

-----------------------------------------------------------------------------
(***************************************************************************)
(* DeleteConversation, with the cascades of the schema.  When no row was   *)
(* deleted the answer is NOT_FOUND.                                        *)
(***************************************************************************)
DeleteBegin(t, c) == Begin(t, [NoCall EXCEPT !.op = "delete", !.conv = c])

DeleteRow(c) ==
    /\ convs' = {r \in convs : r.id # c}
    /\ parts' = {p \in parts : p[2] # c}
    /\ msgs' = {m \in msgs : m.conv # c}
    /\ UNCHANGED <<lastConv, lastMsg>>

\* Mutant: the answer does not wait for the commit.
DeleteUncommitted(t) ==
    /\ call[t].op = "delete"
    /\ Attempt(t, DeleteRow(call[t].conv) \/ UNCHANGED rows,
               /\ gone' = gone \union {c \in {call[t].conv} : c <= lastConv}
               /\ UNCHANGED <<acked, promised>>
               /\ Return(t))

Delete(t) ==
    /\ call[t].op = "delete"
    /\ Attempt(t, DeleteRow(call[t].conv),
               /\ gone' = gone \union {c \in {call[t].conv} : c <= lastConv}
               /\ UNCHANGED <<acked, promised>>
               /\ Return(t))

-----------------------------------------------------------------------------
(***************************************************************************)
(* GetHistory with the requester the gateway names: a participant of a     *)
(* room, then the newest messages.                                         *)
(***************************************************************************)
HistoryBegin(t, u, k) ==
    /\ u \in users
    /\ k.kind = "dm" => u \in k.of
    /\ Begin(t, [NoCall EXCEPT !.op = IF k.kind = "room" THEN "check" ELSE "read",
                               !.who = u, !.key = k,
                               !.must = {a.id : a \in {x \in acked : x.key = k}}])

Check(t) ==
    /\ call[t].op = "check"
    /\ Attempt(t, UNCHANGED rows,
               /\ UNCHANGED told
               /\ IF \E c \in call[t].key.of : IsParticipant(call[t].who, c)
                  THEN call' = [call EXCEPT ![t] = [@ EXCEPT !.op = "read", !.try = 1]]
                  ELSE Return(t))

Read(t) ==
    /\ call[t].op = "read"
    /\ Attempt(t, UNCHANGED rows,
               /\ UNCHANGED told
               /\ call' = [call EXCEPT ![t] =
                     [@ EXCEPT !.op = "answered", !.try = 1,
                               !.got = {m.id : m \in Newest(Stored(call[t].key))}]])

-----------------------------------------------------------------------------
\* Mutant: the messages of a user go with the user.
DeleteUserCascade(u) ==
    /\ u \in users
    /\ users' = users \ {u}
    /\ parts' = {p \in parts : p[1] # u}
    /\ msgs' = {m \in msgs : m.sender # u}
    /\ UNCHANGED <<convs, lastConv, lastMsg, call, told>>

\* auth_service: the user's row goes, with the cascades of the schema.
DeleteUser(u) ==
    /\ u \in users
    /\ users' = users \ {u}
    /\ parts' = {p \in parts : p[1] # u}
    /\ msgs' = {IF m.sender = u THEN [m EXCEPT !.sender = Nobody] ELSE m : m \in msgs}
    /\ UNCHANGED <<convs, lastConv, lastMsg, call, told>>

\* The process dies: its calls end, the tables stay.
Crash ==
    /\ call' = [t \in Threads |-> NoCall]
    /\ UNCHANGED <<users, rows, told>>

Next ==
    \/ \E t \in Senders : Send(t) \/ \E u \in Users, k \in Keys : SendBegin(t, u, k)
    \/ \E t \in Readers :
           Check(t) \/ Read(t) \/ \E u \in Users, k \in Keys : HistoryBegin(t, u, k)
    \/ \E t \in Admins :
           \/ \E u \in Users, S \in SUBSET Users : CreateBegin(t, u, S)
           \/ \E c \in ConvIds, u \in Users : AddBegin(t, c, u)
           \/ \E c \in ConvIds : DeleteBegin(t, c)
           \/ Create(t) \/ Add(t) \/ Delete(t)
    \/ \E u \in Users : DeleteUser(u)
    \/ Crash

Spec == Init /\ [][Next]_vars

-----------------------------------------------------------------------------
(* An acknowledged message is stored under its key as long as its          *)
(* conversation is: whatever is created, retried, deleted and restarted in *)
(* between, whoever asks for the key is shown the row it went to.          *)
AckedReadable ==
    \A a \in acked :
        Exists(a.conv) =>
            \A c \in Titled(a.key) : c.id = a.conv /\ \E m \in msgs : m.id = a.id /\ m.conv = c.id

(* A direct conversation is listed for both of its users, from the first   *)
(* message on, as long as they have accounts.                              *)
DmListed ==
    \A c \in convs :
        c.title.kind = "dm" /\ Far \notin c.title.of =>
            (c.title.of \intersect users) \X {c.id} \subseteq parts

(* Who was acknowledged as a member of a room sees it, until the room or   *)
(* the account is deleted.                                                 *)
MembershipKept ==
    \A p \in promised : p[1] \in users /\ Exists(p[2]) => p \in parts

(* Whoever takes part in a conversation is shown it: both users of a       *)
(* direct one, and every acknowledged member of a room.                    *)
MembersListed == DmListed /\ MembershipKept

(* A deletion that was answered, with OK or with "not found", is final:    *)
(* the room is listed for nobody and nobody passes the check of its        *)
(* history again.                                                          *)
DeletedForGood ==
    \A c \in gone : ~Exists(c) /\ \A u \in Users : <<u, c>> \notin parts

(* A history call returns every message that was acknowledged before it    *)
(* began and is still stored, unless the limit is filled with newer ones.  *)
HistoryHasAcked ==
    \A t \in Threads :
        call[t].op = "answered" =>
            \A i \in call[t].must \ call[t].got :
                \/ \A m \in msgs : m.id # i
                \/ Cardinality({j \in call[t].got : j > i}) = Limit

(* What a history call returns is what was sent, byte by byte, whatever    *)
(* the length and the bytes of the messages are.                           *)
ReadAsSent ==
    \A t \in Readers : call[t].op = "answered" /\ call[t].got # {} => RoundTrip

Log == INSTANCE MessageLog
    WITH Ids <- MsgIds,
         log <- [k \in Keys |-> {[id |-> m.id, sender |-> m.sender] : m \in Stored(k)}]

(* The tables implement one log for every key.                             *)
ImplementsLog == Log!Spec

(* What DeleteRoomDialog tells the admin: with the room, all its messages  *)
(* are deleted.                                                            *)
DeletionErases ==
    [][\A c \in ConvIds : Exists(c) /\ ~Exists(c)' => Stored(Room(c))' = {}]_vars

=============================================================================
