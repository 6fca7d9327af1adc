------------------------- MODULE MessageStoreProofs -------------------------
(***************************************************************************)
(* Proofs about MessageStore for any users, keys, calls and bounds.        *)
(***************************************************************************)
EXTENDS MessageStore, FiniteSetTheorems, FunctionTheorems, SequenceTheorems, TLAPS

-----------------------------------------------------------------------------
\* Ids are handed out once, and a key has one conversation.
Tables ==
    /\ \A c, d \in convs : c.id = d.id => c = d
    /\ \A c, d \in convs : c.title = d.title /\ c.title \in Keys => c = d
    /\ \A c \in convs : c.id <= lastConv
    /\ \A m \in msgs : m.id <= lastMsg

\* What was told speaks of ids that were handed out, and of messages that go
\* with their conversation only.
Told ==
    /\ \A a \in acked :
           /\ a.conv <= lastConv
           /\ Exists(a.conv) =>
                  /\ \E c \in convs : c.id = a.conv /\ c.title = a.key
                  /\ \E m \in msgs : m.id = a.id /\ m.conv = a.conv
    /\ \A p \in promised : p[2] <= lastConv
    /\ \A c \in gone : c <= lastConv

\* u is a participant of c already, if both are still there.
Joined(u, c) == c <= lastConv /\ (u \in users /\ Exists(c) => <<u, c>> \in parts)

\* The calls have what their next transaction needs; whom a call is not going
\* to add it has added.
Right(c) ==
    /\ c.op = "send" => c.key \in Keys
    /\ c.op \in {"create", "add"} => c.todo # <<>>
    /\ c.op \in {"add", "delete"} => c.conv \in ConvIds
    /\ c.op = "create" => c.all \subseteq Range(c.todo)
    /\ c.op = "add" => \A u \in c.all \ Range(c.todo) : Joined(u, c.conv)

Ready == \A t \in Threads : Right(call[t])

MInv ==
    /\ TypeOK /\ Tables /\ Told /\ Ready
    /\ DmListed /\ MembershipKept /\ DeletedForGood

LEMMA Constants ==
    /\ MaxConvs \in Nat /\ MaxMsgs \in Nat /\ ConvIds \subseteq Nat /\ MsgIds \subseteq Nat
    /\ IsFiniteSet(Users) /\ Nobody \notin Users
    /\ Typed \notin Keys
    /\ \A k \in Keys : DmMembers(k) \subseteq Users
<1>1. Typed \notin Keys
    BY KeysAssumption DEF Typed, Dm, Room
<1>2. \A k \in Keys : DmMembers(k) \subseteq Users
    BY KeysAssumption DEF DmMembers, Dm, Room
<1> QED
    BY <1>1, <1>2, BoundsAssumption, IdsAssumption DEF ConvIds, MsgIds

-----------------------------------------------------------------------------
(***************************************************************************)
(* What a step does to the tables and to what was told, and what it does   *)
(* to the calls.                                                           *)
(***************************************************************************)
NewMessage(k, u, c) ==
    /\ InsertMessage(k, u, c)
    /\ \/ UNCHANGED acked
       \/ acked' = acked \union {[id |-> lastMsg + 1, key |-> k, conv |-> c]}
    /\ UNCHANGED <<users, promised, gone>>

NewParticipant(u, c) == InsertParticipant(u, c) /\ UNCHANGED <<users, told>>

LastParticipant(t) ==
    /\ call[t].op = "add" /\ Len(call[t].todo) = 1
    /\ InsertParticipant(Head(call[t].todo), call[t].conv)
    /\ promised' = promised \union (call[t].all \X {call[t].conv})
    /\ UNCHANGED <<users, acked, gone>>

DropRow(c) ==
    /\ DeleteRow(c)
    /\ gone' = gone \/ gone' = gone \union {x \in {c} : x <= lastConv}
    /\ UNCHANGED <<users, acked, promised>>

Writes ==
    \/ UNCHANGED <<users, rows, told>>
    \/ \E k \in Keys, u \in users, c \in ConvIds : NewMessage(k, u, c)
    \/ InsertGroup /\ UNCHANGED <<users, told>>
    \/ \E u \in Users, c \in ConvIds : NewParticipant(u, c)
    \/ \E t \in Threads : LastParticipant(t)
    \/ \E c \in ConvIds : DropRow(c)
    \/ \E u \in Users : DeleteUser(u)

LEMMA OneWrite == TypeOK /\ Ready /\ [Next]_vars => Writes
<1> SUFFICES ASSUME TypeOK, Ready, [Next]_vars PROVE Writes
    OBVIOUS
<1> USE DEF Writes
<1>1. CASE UNCHANGED vars \/ Crash
    BY <1>1 DEF vars, Crash
<1>2. ASSUME NEW t \in Threads,
             \/ Check(t) \/ Read(t) \/ \E u \in Users, k \in Keys : SendBegin(t, u, k)
             \/ \E u \in Users, k \in Keys : HistoryBegin(t, u, k)
             \/ \E u \in Users, S \in SUBSET Users : CreateBegin(t, u, S)
             \/ \E c \in ConvIds, u \in Users : AddBegin(t, c, u)
             \/ \E c \in ConvIds : DeleteBegin(t, c)
      PROVE  Writes
    BY <1>2 DEF Check, IsParticipant, Read, SendBegin, HistoryBegin, CreateBegin, AddBegin, DeleteBegin, Begin,
           Attempt, Lost, Return
<1>3. ASSUME NEW t \in Threads, Send(t)
      PROVE  Writes
    <2>1. call[t].key \in Keys
        BY <1>3 DEF Ready, Right, Send
    <2>2. PICK c \in ConvIds :
              Attempt(t, InsertMessage(call[t].key, call[t].who, c),
                      /\ acked' = acked \union
                             {[id |-> lastMsg + 1, key |-> call[t].key, conv |-> c]}
                      /\ UNCHANGED <<promised, gone>>
                      /\ Return(t))
        BY <1>3 DEF Send
    <2>3. CASE InsertMessage(call[t].key, call[t].who, c)
        <3>1. call[t].who \in users
            BY <2>3 DEF InsertMessage
        <3>2. NewMessage(call[t].key, call[t].who, c)
            BY <2>2, <2>3 DEF Attempt, NewMessage, Lost, told
        <3> QED
            BY <2>1, <3>1, <3>2
    <2>4. CASE UNCHANGED <<rows, told>>
        BY <2>2, <2>4 DEF Attempt
    <2> QED
        BY <2>2, <2>3, <2>4 DEF Attempt, Lost
<1>4. ASSUME NEW t \in Threads, Create(t)
      PROVE  Writes
    BY <1>4 DEF Create, Attempt, Lost
<1>5. ASSUME NEW t \in Threads, Add(t)
      PROVE  Writes
    <2>1. call[t].conv \in ConvIds /\ call[t].todo # <<>> /\ call[t].todo \in Seq(Users)
          /\ call[t].op = "add"
        BY <1>5 DEF Ready, Right, Add, TypeOK
    <2>2. Head(call[t].todo) \in Users
        BY <2>1
    <2>3. CASE InsertParticipant(Head(call[t].todo), call[t].conv) /\ UNCHANGED users
        <3>1. CASE UNCHANGED told
            BY <2>1, <2>2, <2>3, <3>1 DEF NewParticipant
        <3>2. CASE Added(t)
            BY <2>1, <2>2, <2>3, <3>2 DEF Added, LastParticipant, NewParticipant, told
        <3> QED
            BY <1>5, <3>1, <3>2 DEF Add, Attempt, Lost
    <2>4. CASE UNCHANGED <<users, rows, told>>
        BY <2>4
    <2> QED
        BY <1>5, <2>3, <2>4 DEF Add, Attempt, Lost
<1>6. ASSUME NEW t \in Threads, Delete(t)
      PROVE  Writes
    <2>1. call[t].conv \in ConvIds
        BY <1>6 DEF Ready, Right, Delete
    <2>2. CASE DeleteRow(call[t].conv)
        BY <1>6, <2>1, <2>2 DEF Delete, Attempt, Lost, DropRow, told
    <2> QED
        BY <1>6, <2>2 DEF Delete, Attempt, Lost
<1> QED
    BY <1>1, <1>2, <1>3, <1>4, <1>5, <1>6 DEF Next, Threads

-----------------------------------------------------------------------------
\* The part of TypeOK that is about the tables and what was told.
Rows ==
    /\ users \subseteq Users
    /\ convs \subseteq Conversation
    /\ parts \subseteq users \X {c.id : c \in convs}
    /\ msgs \subseteq Message /\ \A m \in msgs : Exists(m.conv)
    /\ lastConv \in Nat /\ lastMsg \in Nat
    /\ acked \subseteq [id : MsgIds, key : Keys, conv : ConvIds]
    /\ promised \subseteq Users \X ConvIds
    /\ gone \subseteq ConvIds

Call == [op : Ops, try : {1, 2}, who : Users \union {Nobody}, key : Keys \union {Typed},
         conv : 0 .. MaxConvs, todo : Seq(Users), all : SUBSET Users,
         must : SUBSET MsgIds, got : SUBSET MsgIds]

LEMMA TypeParts == TypeOK <=> Rows /\ call \in [Threads -> Call]
BY DEF TypeOK, Rows, Call, Exists

LEMMA RowsParts ==
    Rows => /\ \A p \in parts : p[1] \in users /\ Exists(p[2])
            /\ \A c \in convs : c.id \in ConvIds /\ c.id \in Nat
            /\ \A m \in msgs : m.id \in Nat
BY Constants DEF Rows, Exists, Conversation, Message

\* Where a message goes: to the row of its key, or to a new one.
LEMMA RowOfKey ==
    ASSUME Rows, Tables, NEW k \in Keys, NEW c \in RowFor(k)
    PROVE  \/ Exists(c) /\ \E r \in convs : r.id = c /\ r.title = k
           \/ ~Exists(c) /\ c = lastConv + 1 /\ \A r \in convs : r.title # k
<1>1. CASE Titled(k) = {}
    <2>1. c = lastConv + 1
        BY <1>1 DEF RowFor
    <2>2. \A r \in convs : r.id <= lastConv /\ r.id \in Nat /\ lastConv \in Nat
        BY RowsParts DEF Tables, Rows
    <2>3. \A r \in convs : r.id # lastConv + 1
        BY <2>2
    <2> QED
        BY <1>1, <2>1, <2>3 DEF Exists, Titled
<1>2. CASE Titled(k) # {}
    BY <1>2 DEF RowFor, Titled, Exists
<1> QED
    BY <1>1, <1>2

\* The two ways in which a message is stored.
LEMMA Inserted ==
    ASSUME Rows, Tables, NEW k \in Keys, NEW u \in users, NEW c \in ConvIds, InsertMessage(k, u, c)
    PROVE  /\ DmMembers(k) \subseteq users
           /\ parts' = parts \union (DmMembers(k) \X {c})
           /\ msgs' = msgs \union {[id |-> lastMsg + 1, conv |-> c, sender |-> u]}
           /\ lastMsg' = lastMsg + 1 /\ lastMsg + 1 \in MsgIds
           /\ \/ /\ convs' = convs /\ lastConv' = lastConv /\ Exists(c)
                 /\ \E r \in convs : r.id = c /\ r.title = k
              \/ /\ convs' = convs \union {[id |-> c, title |-> k, type |-> "private"]}
                 /\ lastConv' = lastConv + 1 /\ c = lastConv + 1 /\ ~Exists(c)
                 /\ \A r \in convs : r.title # k
<1>1. c \in RowFor(k)
    BY DEF InsertMessage
<1>2. lastMsg + 1 \in MsgIds
    BY Constants DEF InsertMessage, Rows, MsgIds
<1> QED
    BY <1>1, <1>2, RowOfKey DEF InsertMessage

\* Ids of conversations are not used again, and users do not come back.
LEMMA Growth ==
    ASSUME Rows, Tables, Writes
    PROVE  /\ lastConv <= lastConv' /\ lastConv' \in Nat /\ users' \subseteq users
           /\ \A c \in Nat : c <= lastConv /\ Exists(c)' => Exists(c)
<1> USE DEF Exists
<1>0. lastConv \in Nat
    BY DEF Rows
<1>1. CASE UNCHANGED <<users, rows, told>>
    BY <1>0, <1>1 DEF rows
<1>2. ASSUME NEW k \in Keys, NEW u \in users, NEW c \in ConvIds, NewMessage(k, u, c)
      PROVE  /\ lastConv <= lastConv' /\ lastConv' \in Nat /\ users' \subseteq users
             /\ \A x \in Nat : x <= lastConv /\ Exists(x)' => Exists(x)
    <2>1. InsertMessage(k, u, c) /\ users' = users
        BY <1>2 DEF NewMessage
    <2>2. CASE convs' = convs /\ lastConv' = lastConv
        BY <1>0, <2>1, <2>2
    <2>3. CASE convs' = convs \union {[id |-> c, title |-> k, type |-> "private"]}
               /\ lastConv' = lastConv + 1 /\ c = lastConv + 1
        BY <1>0, <2>1, <2>3
    <2> QED
        BY <2>1, <2>2, <2>3, Inserted
<1>3. CASE InsertGroup /\ UNCHANGED <<users, told>>
    BY <1>0, <1>3 DEF InsertGroup
<1>4. CASE (\E u \in Users, c \in ConvIds : NewParticipant(u, c)) \/ \E t \in Threads : LastParticipant(t)
    BY <1>0, <1>4 DEF NewParticipant, LastParticipant, InsertParticipant
<1>5. CASE \E c \in ConvIds : DropRow(c)
    BY <1>0, <1>5 DEF DropRow, DeleteRow
<1>6. CASE \E u \in Users : DeleteUser(u)
    BY <1>0, <1>6 DEF DeleteUser
<1> QED
    BY <1>1, <1>2, <1>3, <1>4, <1>5, <1>6 DEF Writes

\* A participant stays one.
LEMMA JoinedStays ==
    ASSUME Rows, Tables, Writes, NEW u \in Users, NEW c \in ConvIds, Joined(u, c)
    PROVE  Joined(u, c)'
<1>0. c \in Nat /\ lastConv \in Nat
    BY Constants DEF Rows
<1>1. c <= lastConv' /\ (u \in users' => u \in users) /\ (Exists(c)' => Exists(c))
    BY <1>0, Growth DEF Joined
<1>2. ASSUME u \in users', Exists(c)', <<u, c>> \in parts
      PROVE  <<u, c>> \in parts'
    <2>1. CASE UNCHANGED <<users, rows, told>>
        BY <1>2, <2>1 DEF rows
    <2>2. ASSUME NEW k \in Keys, NEW v \in users, NEW d \in ConvIds, NewMessage(k, v, d)
          PROVE  <<u, c>> \in parts'
        BY <1>2, <2>2 DEF NewMessage, InsertMessage
    <2>3. CASE InsertGroup
        BY <1>2, <2>3 DEF InsertGroup
    <2>4. CASE (\E v \in Users, d \in ConvIds : NewParticipant(v, d)) \/ \E t \in Threads : LastParticipant(t)
        BY <1>2, <2>4 DEF NewParticipant, LastParticipant, InsertParticipant
    <2>5. ASSUME NEW d \in ConvIds, DropRow(d)
          PROVE  <<u, c>> \in parts'
        BY <1>2, <2>5 DEF DropRow, DeleteRow, Exists
    <2>6. ASSUME NEW v \in Users, DeleteUser(v)
          PROVE  <<u, c>> \in parts'
        BY <1>2, <2>6 DEF DeleteUser
    <2> QED
        BY <2>1, <2>2, <2>3, <2>4, <2>5, <2>6 DEF Writes
<1> QED
    BY <1>1, <1>2 DEF Joined

-----------------------------------------------------------------------------
\* Row by row: what a table holds after a step, in terms of what it held.
LEMMA RowsStep == MInv /\ Writes => Rows'
<1> SUFFICES ASSUME MInv, Writes PROVE Rows'
    OBVIOUS
<1>0. Rows /\ Tables /\ Ready /\ call \in [Threads -> Call]
    BY TypeParts DEF MInv
<1>a. lastConv \in Nat /\ lastMsg \in Nat
    BY <1>0 DEF Rows
<1>1. CASE UNCHANGED <<users, rows, told>>
    BY <1>0, <1>1 DEF Rows, rows, told, Exists
<1>2. ASSUME NEW k \in Keys, NEW u \in users, NEW c \in ConvIds, NewMessage(k, u, c)
      PROVE  Rows'
    <2>0. InsertMessage(k, u, c) /\ UNCHANGED <<users, promised, gone>>
          /\ (acked' = acked \/ acked' = acked \union {[id |-> lastMsg + 1, key |-> k, conv |-> c]})
        BY <1>2 DEF NewMessage
    <2>1. /\ DmMembers(k) \subseteq users /\ parts' = parts \union (DmMembers(k) \X {c})
          /\ msgs' = msgs \union {[id |-> lastMsg + 1, conv |-> c, sender |-> u]}
          /\ lastMsg' = lastMsg + 1 /\ lastMsg + 1 \in MsgIds
        BY <1>0, <2>0, Inserted
    <2>2. /\ convs' \subseteq Conversation /\ convs \subseteq convs' /\ lastConv' \in Nat
          /\ \E r \in convs' : r.id = c
        <3>1. CASE convs' = convs /\ lastConv' = lastConv /\ \E r \in convs : r.id = c
            BY <1>0, <3>1 DEF Rows
        <3>2. CASE convs' = convs \union {[id |-> c, title |-> k, type |-> "private"]}
                   /\ lastConv' = lastConv + 1
            <4>1. PICK r : r = [id |-> c, title |-> k, type |-> "private"]
                OBVIOUS
            <4>2. r \in Conversation /\ r.id = c
                BY <4>1 DEF Conversation
            <4> QED
                BY <1>0, <1>a, <3>2, <4>1, <4>2 DEF Rows
        <3> QED
            BY <1>0, <2>0, <3>1, <3>2, Inserted
    <2>3. parts' \subseteq users' \X {r.id : r \in convs'}
        <3>1. parts \subseteq users \X {r.id : r \in convs}
            BY <1>0 DEF Rows
        <3>2. {r.id : r \in convs} \union {c} \subseteq {r.id : r \in convs'}
            BY <2>2
        <3> QED
            BY <2>0, <2>1, <3>1, <3>2
    <2>4. msgs' \subseteq Message /\ \A m \in msgs' : \E r \in convs' : r.id = m.conv
        BY <1>0, <2>1, <2>2 DEF Rows, Message, Exists
    <2>5. acked' \subseteq [id : MsgIds, key : Keys, conv : ConvIds]
        BY <1>0, <2>0, <2>1 DEF Rows
    <2> QED
        BY <1>0, <1>a, <2>0, <2>1, <2>2, <2>3, <2>4, <2>5 DEF Rows, Exists
<1>3. CASE InsertGroup /\ UNCHANGED <<users, told>>
    <2>1. /\ convs' = convs \union {[id |-> lastConv + 1, title |-> Typed, type |-> "group"]}
          /\ lastConv' = lastConv + 1 /\ parts' = parts /\ msgs' = msgs /\ lastMsg' = lastMsg
          /\ lastConv + 1 \in ConvIds
        BY <1>a, <1>3, Constants DEF InsertGroup, ConvIds
    <2>2. convs' \subseteq Conversation
        BY <1>0, <2>1 DEF Rows, Conversation
    <2>3. {r.id : r \in convs} \subseteq {r.id : r \in convs'}
        BY <2>1
    <2>4. parts' \subseteq users \X {r.id : r \in convs'}
        BY <1>0, <2>1, <2>3 DEF Rows
    <2>5. \A m \in msgs' : \E r \in convs' : r.id = m.conv
        BY <1>0, <2>1 DEF Rows, Exists
    <2> QED
        BY <1>0, <1>a, <1>3, <2>1, <2>2, <2>4, <2>5 DEF Rows, told, Exists
<1>4. ASSUME NEW u \in Users, NEW c \in ConvIds, InsertParticipant(u, c), UNCHANGED <<users, acked, gone>>,
             promised' \subseteq Users \X ConvIds
      PROVE  Rows'
    <2>1. u \in users /\ parts' = parts \union {<<u, c>>} /\ UNCHANGED <<convs, msgs, lastConv, lastMsg>>
          /\ c \in {r.id : r \in convs}
        BY <1>4 DEF InsertParticipant, Exists
    <2>2. parts' \subseteq users \X {r.id : r \in convs}
        BY <1>0, <2>1 DEF Rows
    <2> QED
        BY <1>0, <1>4, <2>1, <2>2 DEF Rows, Exists
<1>5. ASSUME NEW t \in Threads, LastParticipant(t)
      PROVE  Rows'
    <2>1. call[t].conv \in ConvIds /\ call[t].todo \in Seq(Users) /\ call[t].todo # <<>>
          /\ call[t].all \subseteq Users
        BY <1>0, <1>5 DEF LastParticipant, Ready, Right, Call
    <2>2. promised' \subseteq Users \X ConvIds
        BY <1>0, <1>5, <2>1 DEF LastParticipant, Rows
    <2>3. Head(call[t].todo) \in Users
        BY <2>1
    <2> QED
        BY <1>4, <1>5, <2>1, <2>2, <2>3 DEF LastParticipant
<1>6. ASSUME NEW c \in ConvIds, DropRow(c)
      PROVE  Rows'
    <2>1. /\ convs' = {r \in convs : r.id # c} /\ parts' = {p \in parts : p[2] # c}
          /\ msgs' = {m \in msgs : m.conv # c} /\ UNCHANGED <<lastConv, lastMsg, users, acked, promised>>
          /\ gone' \subseteq gone \union {c}
        BY <1>6 DEF DropRow, DeleteRow
    <2>2. parts' \subseteq users' \X {r.id : r \in convs'}
        <3>1. \A p \in parts' : p[1] \in users /\ p = <<p[1], p[2]>> /\ p[2] \in {r.id : r \in convs} /\ p[2] # c
            BY <1>0, <2>1 DEF Rows
        <3>2. \A x \in {r.id : r \in convs} : x # c => x \in {r.id : r \in convs'}
            BY <2>1
        <3> QED
            BY <2>1, <3>1, <3>2
    <2>3. \A m \in msgs' : \E r \in convs' : r.id = m.conv
        BY <1>0, <2>1 DEF Rows, Exists
    <2> QED
        BY <1>0, <2>1, <2>2, <2>3 DEF Rows, Exists
<1>7. ASSUME NEW u \in Users, DeleteUser(u)
      PROVE  Rows'
    <2>1. /\ users' = users \ {u} /\ parts' = {p \in parts : p[1] # u}
          /\ UNCHANGED <<convs, lastConv, lastMsg, told>>
        BY <1>7 DEF DeleteUser
    <2>2. \A m \in msgs' : m \in Message /\ Exists(m.conv)
        <3>1. msgs' = {IF m.sender = u THEN [m EXCEPT !.sender = Nobody] ELSE m : m \in msgs}
            BY <1>7 DEF DeleteUser
        <3>2. \A m \in msgs : m \in Message /\ Exists(m.conv)
            BY <1>0 DEF Rows
        <3>3. \A m \in Message : [m EXCEPT !.sender = Nobody] \in Message
                                /\ [m EXCEPT !.sender = Nobody].conv = m.conv
            BY DEF Message
        <3> QED
            BY <3>1, <3>2, <3>3
    <2>3. parts' \subseteq users' \X {r.id : r \in convs}
        BY <1>0, <2>1 DEF Rows
    <2> QED
        BY <1>0, <2>1, <2>2, <2>3 DEF Rows, told, Exists
<1>8. ASSUME NEW u \in Users, NEW c \in ConvIds, NewParticipant(u, c)
      PROVE  Rows'
    BY <1>0, <1>4, <1>8 DEF NewParticipant, told, Rows
<1> QED
    BY <1>1, <1>2, <1>3, <1>5, <1>6, <1>7, <1>8 DEF Writes

\* As long as its conversation is there, a row stays what it is, and a message
\* stays where it is.
LEMMA RowsStay ==
    ASSUME Rows, Tables, Writes
    PROVE  /\ \A r \in convs : Exists(r.id)' => r \in convs'
           /\ \A m \in msgs : Exists(m.conv)' => \E n \in msgs' : n.id = m.id /\ n.conv = m.conv
<1> DEFINE Stay == /\ \A r \in convs : Exists(r.id)' => r \in convs'
                   /\ \A m \in msgs : Exists(m.conv)' =>
                          \E n \in msgs' : n.id = m.id /\ n.conv = m.conv
<1>1. ASSUME convs \subseteq convs', msgs \subseteq msgs' PROVE Stay
    BY <1>1
<1>2. ASSUME NEW k \in Keys, NEW u \in users, NEW c \in ConvIds, NewMessage(k, u, c)
      PROVE  Stay
    BY <1>1, <1>2, Inserted DEF NewMessage
<1>3. CASE UNCHANGED <<users, rows, told>> \/ InsertGroup
    BY <1>1, <1>3 DEF rows, InsertGroup
<1>4. CASE (\E u \in Users, c \in ConvIds : NewParticipant(u, c)) \/ \E t \in Threads : LastParticipant(t)
    BY <1>1, <1>4 DEF NewParticipant, LastParticipant, InsertParticipant
<1>5. ASSUME NEW c \in ConvIds, DropRow(c)
      PROVE  Stay
    <2>1. convs' = {r \in convs : r.id # c} /\ msgs' = {m \in msgs : m.conv # c}
        BY <1>5 DEF DropRow, DeleteRow
    <2> QED
        BY <2>1 DEF Exists
<1>6. ASSUME NEW u \in Users, DeleteUser(u)
      PROVE  Stay
    <2>1. msgs' = {IF m.sender = u THEN [m EXCEPT !.sender = Nobody] ELSE m : m \in msgs}
          /\ convs' = convs
        BY <1>6 DEF DeleteUser
    <2>2. \A m \in msgs : [m EXCEPT !.sender = Nobody].id = m.id
                         /\ [m EXCEPT !.sender = Nobody].conv = m.conv
        BY DEF Rows, Message
    <2> QED
        BY <2>1, <2>2
<1>7. Stay
    BY <1>2, <1>3, <1>4, <1>5, <1>6 DEF Writes
<1> QED
    BY <1>7

LEMMA TablesStep == MInv /\ Writes => Tables'
<1> SUFFICES ASSUME MInv, Writes PROVE Tables'
    OBVIOUS
<1>0. Rows /\ Tables /\ lastConv \in Nat /\ lastMsg \in Nat
    BY TypeParts DEF MInv, Rows
<1>a. (\A c \in convs : c.id \in Nat) /\ \A m \in msgs : m.id \in Nat
    BY <1>0, RowsParts
<1>1. ASSUME convs' \subseteq convs, lastConv' = lastConv, lastMsg' = lastMsg,
             \A m \in msgs' : m.id <= lastMsg
      PROVE  Tables'
    BY <1>0, <1>1 DEF Tables
<1>2. ASSUME NEW c \in ConvIds, NEW r, r.id = c, c = lastConv + 1,
             \A d \in convs : r.title \in Keys => d.title # r.title,
             convs' = convs \union {r}, lastConv' = lastConv + 1
      PROVE  /\ \A x, y \in convs' : x.id = y.id => x = y
             /\ \A x, y \in convs' : x.title = y.title /\ x.title \in Keys => x = y
             /\ \A x \in convs' : x.id <= lastConv'
    <2>1. \A x \in convs : x.id # r.id /\ x.id <= lastConv'
        BY <1>0, <1>a, <1>2 DEF Tables
    <2>2. r.id <= lastConv'
        BY <1>0, <1>2
    <2> QED
        BY <1>0, <1>2, <2>1, <2>2 DEF Tables
<1>3. ASSUME NEW k \in Keys, NEW u \in users, NEW c \in ConvIds, NewMessage(k, u, c)
      PROVE  Tables'
    <2>1. /\ msgs' = msgs \union {[id |-> lastMsg + 1, conv |-> c, sender |-> u]}
          /\ lastMsg' = lastMsg + 1
        BY <1>0, <1>3, Inserted DEF NewMessage
    <2>2. \A m \in msgs' : m.id <= lastMsg'
        BY <1>0, <1>a, <2>1 DEF Tables
    <2>3. CASE convs' = convs /\ lastConv' = lastConv
        BY <1>0, <2>2, <2>3 DEF Tables
    <2>4. CASE /\ convs' = convs \union {[id |-> c, title |-> k, type |-> "private"]}
               /\ lastConv' = lastConv + 1 /\ c = lastConv + 1
               /\ \A r \in convs : r.title # k
        <3>1. PICK r : r = [id |-> c, title |-> k, type |-> "private"]
            OBVIOUS
        <3>2. r.id = c /\ r.title = k
            BY <3>1
        <3> QED
            BY <1>2, <2>2, <2>4, <3>1, <3>2 DEF Tables
    <2> QED
        BY <1>0, <1>3, <2>3, <2>4, Inserted DEF NewMessage
<1>4. CASE InsertGroup
    <2>1. /\ convs' = convs \union {[id |-> lastConv + 1, title |-> Typed, type |-> "group"]}
          /\ lastConv' = lastConv + 1 /\ msgs' = msgs /\ lastMsg' = lastMsg
          /\ lastConv + 1 \in ConvIds
        BY <1>0, <1>4, Constants DEF InsertGroup, ConvIds
    <2> QED
        <3>1. PICK r : r = [id |-> lastConv + 1, title |-> Typed, type |-> "group"]
            OBVIOUS
        <3>2. r.id = lastConv + 1 /\ r.title \notin Keys
            BY <3>1, Constants
        <3>3. \A m \in msgs' : m.id <= lastMsg'
            BY <1>0, <2>1 DEF Tables
        <3> QED
            BY <1>2, <2>1, <3>1, <3>2, <3>3 DEF Tables
<1>5. CASE \/ UNCHANGED <<users, rows, told>> \/ \E c \in ConvIds : DropRow(c)
           \/ (\E u \in Users, c \in ConvIds : NewParticipant(u, c)) \/ \E t \in Threads : LastParticipant(t)
    <2>1. convs' \subseteq convs /\ lastConv' = lastConv /\ lastMsg' = lastMsg /\ msgs' \subseteq msgs
        BY <1>5 DEF rows, DropRow, DeleteRow, NewParticipant, LastParticipant, InsertParticipant
    <2> QED
        BY <1>0, <1>1, <2>1 DEF Tables
<1>6. ASSUME NEW u \in Users, DeleteUser(u)
      PROVE  Tables'
    <2>1. /\ msgs' = {IF m.sender = u THEN [m EXCEPT !.sender = Nobody] ELSE m : m \in msgs}
          /\ UNCHANGED <<convs, lastConv, lastMsg>>
        BY <1>6 DEF DeleteUser
    <2>2. \A m \in msgs : [m EXCEPT !.sender = Nobody].id = m.id
        BY <1>0 DEF Rows, Message
    <2>3. \A m \in msgs' : m.id <= lastMsg
        BY <1>0, <2>1, <2>2 DEF Tables
    <2> QED
        BY <1>1, <2>1, <2>3
<1> QED
    BY <1>3, <1>4, <1>5, <1>6 DEF Writes

LEMMA ToldStep == MInv /\ Writes => Told'
<1> SUFFICES ASSUME MInv, Writes PROVE Told'
    OBVIOUS
<1>0. Rows /\ Tables /\ Told /\ Ready /\ Rows' /\ call \in [Threads -> Call]
    BY TypeParts, RowsStep DEF MInv
<1>a. lastConv \in Nat /\ lastConv' \in Nat /\ lastConv <= lastConv' /\ lastMsg \in Nat
    BY <1>0, Growth DEF Rows
<1>1. ASSUME NEW a \in acked
      PROVE  /\ a.conv <= lastConv'
             /\ Exists(a.conv)' =>
                    /\ \E c \in convs' : c.id = a.conv /\ c.title = a.key
                    /\ \E m \in msgs' : m.id = a.id /\ m.conv = a.conv
    <2>1. a.conv \in Nat /\ a.conv <= lastConv
        BY <1>0, Constants DEF Rows, Told
    <2>2. ASSUME Exists(a.conv)'
          PROVE  /\ \E c \in convs' : c.id = a.conv /\ c.title = a.key
                 /\ \E m \in msgs' : m.id = a.id /\ m.conv = a.conv
        <3>1. Exists(a.conv)
            BY <1>0, <2>1, <2>2, Growth
        <3>2. PICK c \in convs : c.id = a.conv /\ c.title = a.key
            BY <1>0, <3>1 DEF Told
        <3>3. PICK m \in msgs : m.id = a.id /\ m.conv = a.conv
            BY <1>0, <3>1 DEF Told
        <3>4. c \in convs'
            BY <1>0, <2>2, <3>2, RowsStay
        <3>5. \E n \in msgs' : n.id = m.id /\ n.conv = m.conv
            BY <1>0, <2>2, <3>3, RowsStay
        <3> QED
            BY <3>2, <3>3, <3>4, <3>5
    <2> QED
        BY <1>a, <2>1, <2>2
<1>2. ASSUME NEW k \in Keys, NEW u \in users, NEW c \in ConvIds, InsertMessage(k, u, c)
      PROVE  /\ c <= lastConv'
             /\ \E r \in convs' : r.id = c /\ r.title = k
             /\ \E m \in msgs' : m.id = lastMsg + 1 /\ m.conv = c
    <2>1. \E m \in msgs' : m.id = lastMsg + 1 /\ m.conv = c
        <3>1. PICK m : m = [id |-> lastMsg + 1, conv |-> c, sender |-> u]
            OBVIOUS
        <3>2. m \in msgs' /\ m.id = lastMsg + 1 /\ m.conv = c
            BY <1>0, <1>2, <3>1, Inserted
        <3> QED
            BY <3>2
    <2>2. CASE convs' = convs /\ lastConv' = lastConv /\ \E r \in convs : r.id = c /\ r.title = k
        BY <1>0, <2>1, <2>2 DEF Tables
    <2>3. CASE /\ convs' = convs \union {[id |-> c, title |-> k, type |-> "private"]}
               /\ lastConv' = lastConv + 1 /\ c = lastConv + 1
        <3>1. PICK r : r = [id |-> c, title |-> k, type |-> "private"]
            OBVIOUS
        <3>2. r \in convs' /\ r.id = c /\ r.title = k
            BY <2>3, <3>1
        <3>3. c <= lastConv'
            BY <1>a, <2>3
        <3> QED
            BY <2>1, <3>2, <3>3
    <2> QED
        BY <1>0, <1>2, <2>2, <2>3, Inserted
<1>3. ASSUME NEW a \in acked', a \notin acked
      PROVE  /\ a.conv <= lastConv'
             /\ \E c \in convs' : c.id = a.conv /\ c.title = a.key
             /\ \E m \in msgs' : m.id = a.id /\ m.conv = a.conv
    <2>1. PICK k \in Keys, u \in users, c \in ConvIds :
              InsertMessage(k, u, c) /\ a = [id |-> lastMsg + 1, key |-> k, conv |-> c]
        BY <1>3 DEF Writes, NewMessage, NewParticipant, LastParticipant, DropRow, DeleteUser, told
    <2>2. a.id = lastMsg + 1 /\ a.key = k /\ a.conv = c
        BY <2>1
    <2> QED
        BY <1>2, <2>1, <2>2
<1>4. ASSUME NEW p \in promised'
      PROVE  p[2] <= lastConv'
    <2>1. CASE p \in promised
        <3>1. p[2] \in Nat /\ p[2] <= lastConv
            BY <1>0, <2>1, Constants DEF Rows, Told
        <3> QED
            BY <1>a, <3>1
    <2>2. ASSUME NEW t \in Threads, LastParticipant(t), p \in call[t].all \X {call[t].conv}
          PROVE  p[2] <= lastConv'
        <3>1. Exists(call[t].conv) /\ lastConv' = lastConv /\ p[2] = call[t].conv
            BY <2>2 DEF LastParticipant, InsertParticipant
        <3> QED
            BY <1>0, <3>1 DEF Exists, Tables
    <2>3. p \in promised \/ \E t \in Threads : LastParticipant(t) /\ p \in call[t].all \X {call[t].conv}
        BY DEF Writes, NewMessage, NewParticipant, LastParticipant, DropRow, DeleteUser, told
    <2> QED
        BY <2>1, <2>2, <2>3
<1>5. ASSUME NEW c \in gone'
      PROVE  c <= lastConv'
    <2>1. c \in gone \/ c <= lastConv
        BY DEF Writes, NewMessage, NewParticipant, LastParticipant, DropRow, DeleteUser, told
    <2>2. c \in Nat /\ c <= lastConv
        BY <1>0, <2>1, Constants DEF Told, Rows
    <2> QED
        BY <1>a, <2>2
<1> QED
    BY <1>1, <1>3, <1>4, <1>5 DEF Told

LEMMA DmListedStep == MInv /\ Writes => DmListed'
<1> SUFFICES ASSUME MInv, Writes, NEW c \in convs', c.title.kind = "dm", Far \notin c.title.of,
                    NEW u \in c.title.of \intersect users'
             PROVE  <<u, c.id>> \in parts'
    BY DEF DmListed
<1>0. Rows /\ Tables /\ DmListed
    BY TypeParts DEF MInv
<1>1. CASE c \in convs
    <2>1. u \in users /\ c.id \in ConvIds /\ c.id <= lastConv
        BY <1>0, <1>1, Growth, RowsParts DEF Tables
    <2>2. <<u, c.id>> \in parts
        BY <1>0, <1>1, <2>1 DEF DmListed
    <2>3. u \in Users /\ Joined(u, c.id)
        BY <1>0, <2>1, <2>2 DEF Joined, Rows
    <2>4. Exists(c.id)'
        BY DEF Exists
    <2> QED
        BY <1>0, <2>1, <2>3, <2>4, JoinedStays DEF Joined
<1>2. ASSUME NEW k \in Keys, NEW v \in users, NEW d \in ConvIds, InsertMessage(k, v, d),
             c = [id |-> d, title |-> k, type |-> "private"]
      PROVE  <<u, c.id>> \in parts'
    <2>1. c.id = d /\ c.title = k
        BY <1>2
    <2>2. u \in DmMembers(k)
        BY <2>1 DEF DmMembers
    <2> QED
        BY <1>0, <1>2, <2>1, <2>2, Inserted
<1>3. CASE c = [id |-> lastConv + 1, title |-> Typed, type |-> "group"]
    BY <1>3 DEF Typed
<1>4. \/ c \in convs
      \/ \E k \in Keys, v \in users, d \in ConvIds :
             InsertMessage(k, v, d) /\ c = [id |-> d, title |-> k, type |-> "private"]
      \/ c = [id |-> lastConv + 1, title |-> Typed, type |-> "group"]
    BY <1>0, Inserted DEF Writes, NewMessage, InsertGroup, NewParticipant, LastParticipant, DropRow,
           DeleteUser, InsertParticipant, DeleteRow, rows
<1> QED
    BY <1>1, <1>2, <1>3, <1>4

LEMMA MembershipStep == MInv /\ Writes => MembershipKept'
<1> SUFFICES ASSUME MInv, Writes, NEW p \in promised', p[1] \in users', Exists(p[2])'
             PROVE  p \in parts'
    BY DEF MembershipKept
<1>0. Rows /\ Tables /\ Told /\ Ready /\ MembershipKept /\ call \in [Threads -> Call] /\ Rows'
    BY TypeParts, RowsStep DEF MInv
<1>1. p[1] \in Users /\ p[2] \in ConvIds /\ p = <<p[1], p[2]>>
    BY <1>0 DEF Rows
<1>2. ASSUME Joined(p[1], p[2])
      PROVE  p \in parts'
    BY <1>0, <1>1, <1>2, JoinedStays DEF Joined
<1>3. CASE p \in promised
    <2>1. Joined(p[1], p[2])
        BY <1>0, <1>1, <1>3 DEF Told, MembershipKept, Joined
    <2> QED
        BY <1>2, <2>1
<1>4. ASSUME NEW t \in Threads, LastParticipant(t), p \in call[t].all \X {call[t].conv}
      PROVE  p \in parts'
    <2>1. p[1] \in call[t].all /\ p[2] = call[t].conv
        BY <1>4
    <2>2. CASE p[1] \in Range(call[t].todo)
        <3>1. call[t].todo \in Seq(Users) /\ Len(call[t].todo) = 1
            BY <1>0, <1>4 DEF Call, LastParticipant
        <3>2. Range(call[t].todo) = {Head(call[t].todo)}
            BY <3>1, RangeEquality
        <3>3. <<Head(call[t].todo), call[t].conv>> \in parts'
            BY <1>4 DEF LastParticipant, InsertParticipant
        <3> QED
            BY <1>1, <2>1, <2>2, <3>2, <3>3
    <2>3. CASE p[1] \notin Range(call[t].todo)
        <3>1. Joined(p[1], p[2])
            BY <1>0, <1>4, <2>1, <2>3 DEF Ready, Right, LastParticipant
        <3> QED
            BY <1>2, <3>1
    <2> QED
        BY <2>2, <2>3
<1>5. p \in promised \/ \E t \in Threads : LastParticipant(t) /\ p \in call[t].all \X {call[t].conv}
    BY DEF Writes, NewMessage, NewParticipant, LastParticipant, DropRow, DeleteUser, told
<1> QED
    BY <1>3, <1>4, <1>5

LEMMA GoneStep == MInv /\ Writes => DeletedForGood'
<1> SUFFICES ASSUME MInv, Writes PROVE DeletedForGood'
    OBVIOUS
<1>0. Rows /\ Tables /\ Told /\ DeletedForGood /\ Rows'
    BY TypeParts, RowsStep DEF MInv
<1>1. ASSUME NEW c \in gone'
      PROVE  ~Exists(c)'
    <2>1. CASE c \in gone
        <3>1. c \in Nat /\ c <= lastConv /\ ~Exists(c)
            BY <1>0, <2>1, Constants DEF Rows, Told, DeletedForGood
        <3> QED
            BY <1>0, <3>1, Growth
    <2>2. c \in gone \/ \E d \in ConvIds : DeleteRow(d) /\ c = d
        BY DEF Writes, NewMessage, NewParticipant, LastParticipant, DropRow, DeleteUser, told
    <2> QED
        BY <2>1, <2>2 DEF DeleteRow, Exists
<1>2. \A c : (~Exists(c) => \A u \in Users : <<u, c>> \notin parts)'
    BY <1>0 DEF Rows, Exists
<1> QED
    BY <1>1, <1>2 DEF DeletedForGood

-----------------------------------------------------------------------------
\* What a call of GetHistory looks for was acknowledged under its key.
OfKey(c) == \A i \in c.must : \E a \in acked : a.id = i /\ a.key = c.key

\* What a step does to the calls.
Begins(t, c) ==
    /\ c \in Call
    /\ c.op = "send" => c.key \in Keys
    /\ c.op \in {"create", "add"} => c.todo # <<>> /\ c.all \subseteq Range(c.todo)
    /\ c.op \in {"add", "delete"} => c.conv \in ConvIds
    /\ c.op # "answered" /\ OfKey(c)
    /\ call' = [call EXCEPT ![t] = c]

Creates(t) ==
    /\ call[t].op = "create" /\ InsertGroup
    /\ call' = [call EXCEPT ![t] = [@ EXCEPT !.op = "add", !.conv = lastConv + 1, !.try = 1]]

Adds(t) ==
    /\ call[t].op = "add" /\ Len(call[t].todo) # 1
    /\ InsertParticipant(Head(call[t].todo), call[t].conv)
    /\ call' = [call EXCEPT ![t] = [@ EXCEPT !.todo = Tail(call[t].todo), !.try = 1]]

Checks(t) ==
    /\ call[t].op = "check"
    /\ call' = [call EXCEPT ![t] = [@ EXCEPT !.op = "read", !.try = 1]]

Reads(t) ==
    /\ call[t].op = "read"
    /\ call' = [call EXCEPT ![t] =
                   [@ EXCEPT !.op = "answered", !.try = 1,
                             !.got = {m.id : m \in Newest(Stored(call[t].key))}]]

Moves ==
    \/ UNCHANGED call \/ Crash
    \/ \E t \in Threads : call' = [call EXCEPT ![t].try = 2]
    \/ \E t \in Threads : \E c : Begins(t, c)
    \/ \E t \in Threads : Creates(t) \/ Adds(t) \/ Checks(t) \/ Reads(t)

LEMMA NoCallIsCall == NoCall \in Call /\ NoCall.op = "none" /\ NoCall.must = {}
BY Constants, EmptySeq DEF NoCall, Call, Ops

LEMMA Returns == ASSUME NEW t, Return(t) PROVE \E c : Begins(t, c)
BY NoCallIsCall DEF Return, Begins, OfKey

LEMMA Single ==
    ASSUME NEW x \in Users
    PROVE  <<x>> \in Seq(Users) /\ <<x>> # <<>> /\ Len(<<x>>) = 1 /\ Range(<<x>>) = {x}
<1>1. DOMAIN <<x>> = {1} /\ <<x>>[1] = x
    OBVIOUS
<1>2. Range(<<x>>) = {x}
    BY <1>1, Zenon DEF Range
<1> QED
    BY <1>2

LEMMA HeadAndTail ==
    ASSUME NEW q \in Seq(Users), q # <<>>, Len(q) # 1
    PROVE  /\ Head(q) \in Users /\ Tail(q) \in Seq(Users) /\ Tail(q) # <<>>
           /\ Range(q) = {Head(q)} \union Range(Tail(q))
<1>1. /\ Head(q) \in Users /\ Tail(q) \in Seq(Users) /\ Len(Tail(q)) = Len(q) - 1
      /\ \A i \in 1 .. Len(Tail(q)) : Tail(q)[i] = q[i + 1]
    BY HeadTailProperties
<1>2. Len(q) \in Nat \ {0} /\ Head(q) = q[1] /\ DOMAIN q = 1 .. Len(q)
    BY EmptySeq, LenProperties
<1>3. DOMAIN Tail(q) = 1 .. Len(q) - 1
    BY <1>1, LenProperties
<1>4. Tail(q) # <<>>
    <2>1. Len(Tail(q)) # 0
        BY <1>1, <1>2
    <2>2. Len(<<>>) = 0
        BY EmptySeq
    <2> QED
        BY <2>1, <2>2
<1>5. \A i \in DOMAIN Tail(q) : i + 1 \in DOMAIN q /\ Tail(q)[i] = q[i + 1]
    BY <1>1, <1>2, <1>3
<1>6. \A i \in DOMAIN q : i = 1 \/ (i - 1 \in DOMAIN Tail(q) /\ Tail(q)[i - 1] = q[i])
    <2> SUFFICES ASSUME NEW i \in 1 .. Len(q), i # 1
                 PROVE  i - 1 \in DOMAIN Tail(q) /\ Tail(q)[i - 1] = q[i]
        BY <1>2
    <2>1. i - 1 \in 1 .. Len(q) - 1 /\ (i - 1) + 1 = i
        BY <1>2
    <2> QED
        BY <1>3, <1>5, <2>1
<1>7. ASSUME NEW i \in DOMAIN q PROVE q[i] \in {Head(q)} \union Range(Tail(q))
    BY <1>2, <1>6 DEF Range
<1>8. \A x \in {Head(q)} \union Range(Tail(q)) : x \in Range(q)
    <2>1. 1 \in DOMAIN q
        BY <1>2
    <2> QED
        BY <1>2, <1>5, <2>1 DEF Range
<1> QED
    <2>1. \A x \in Range(q) : x \in {Head(q)} \union Range(Tail(q))
        BY <1>7 DEF Range
    <2> QED
        BY <1>1, <1>4, <1>8, <2>1

\* A list of users for a call that adds them all.
LEMMA Listed ==
    ASSUME NEW u \in Users, NEW S \in SUBSET Users, NEW q \in [1 .. Cardinality(S) -> S],
           S = {q[i] : i \in DOMAIN q}
    PROVE  /\ <<u>> \o q \in Seq(Users) /\ <<u>> \o q # <<>>
           /\ {u} \union S \subseteq Range(<<u>> \o q)
<1>1. Cardinality(S) \in Nat
    BY Constants, FS_Subset, FS_CardinalityType
<1>2. q \in Seq(S)
    <2>1. PICK n \in Nat : n = Cardinality(S)
        BY <1>1
    <2>2. q \in [1 .. n -> S]
        BY <2>1
    <2> QED
        BY <2>2
<1>3. q \in Seq(Users) /\ <<u>> \in Seq(Users) /\ Len(q) \in Nat /\ Len(<<u>>) = 1
    <2>1. q \in Seq(Users)
        BY <1>2, SeqMonotonic
    <2> QED
        BY <1>2, <2>1, Single, LenProperties
<1>4. Range(<<u>> \o q) = Range(<<u>>) \union Range(q)
    <2>1. PICK p : p = <<u>>
        OBVIOUS
    <2>2. p \in Seq(Users)
        BY <1>3, <2>1
    <2>3. Range(p \o q) = Range(p) \union Range(q)
        BY <1>3, <2>2, RangeConcatenation
    <2> QED
        BY <2>1, <2>3
<1>5. Range(<<u>>) = {u}
    BY Single
<1>6. Range(q) = S
    BY DEF Range
<1>7. <<u>> \o q \in Seq(Users) /\ Len(<<u>> \o q) = 1 + Len(q)
    BY <1>3, ConcatProperties
<1>8. <<u>> \o q # <<>>
    BY <1>3, <1>7, EmptySeq
<1> QED
    BY <1>4, <1>5, <1>6, <1>7, <1>8

LEMMA OneMove == TypeOK /\ [Next]_vars => Moves
<1> SUFFICES ASSUME TypeOK, [Next]_vars PROVE Moves
    OBVIOUS
<1> USE DEF Moves
<1>1. CASE UNCHANGED vars \/ Crash \/ \E u \in Users : DeleteUser(u)
    BY <1>1 DEF vars, DeleteUser
<1>2. ASSUME NEW t \in Threads, NEW u \in Users, NEW k \in Keys, SendBegin(t, u, k)
      PROVE  Moves
    <2>1. PICK c : c = [NoCall EXCEPT !.op = "send", !.who = u, !.key = k]
        OBVIOUS
    <2>2. c \in Call /\ c.op = "send" /\ c.key = k /\ c.must = {}
        BY <2>1, NoCallIsCall DEF Call, Ops, NoCall
    <2>3. Begins(t, c)
        BY <1>2, <2>1, <2>2 DEF SendBegin, Begin, Begins, OfKey
    <2> QED
        BY <2>3
<1>3. ASSUME NEW t \in Threads, NEW u \in Users, NEW k \in Keys, HistoryBegin(t, u, k)
      PROVE  Moves
    <2>1. PICK op : op = IF k.kind = "room" THEN "check" ELSE "read"
        OBVIOUS
    <2>2. PICK must : must = {a.id : a \in {x \in acked : x.key = k}}
        OBVIOUS
    <2>3. must \subseteq MsgIds /\ op \in {"check", "read"}
        BY <2>1, <2>2 DEF TypeOK
    <2>4. PICK c : c = [NoCall EXCEPT !.op = op, !.who = u, !.key = k, !.must = must]
        OBVIOUS
    <2>5. c \in Call /\ c.op = op /\ c.key = k /\ c.must = must
        BY <2>3, <2>4, NoCallIsCall DEF Call, Ops, NoCall
    <2>6. Begins(t, c)
        BY <1>3, <2>1, <2>2, <2>3, <2>4, <2>5 DEF HistoryBegin, Begin, Begins, OfKey
    <2> QED
        BY <2>6
<1>4. ASSUME NEW t \in Threads, NEW u \in Users, NEW S \in SUBSET Users, CreateBegin(t, u, S)
      PROVE  Moves
    <2>1. PICK q \in [1 .. Cardinality(S) -> S] :
              /\ S = {q[i] : i \in DOMAIN q}
              /\ Begin(t, [NoCall EXCEPT !.op = "create", !.todo = <<u>> \o q, !.all = {u} \union S])
        BY <1>4 DEF CreateBegin
    <2>2. PICK todo : todo = <<u>> \o q
        OBVIOUS
    <2>3. todo \in Seq(Users) /\ todo # <<>> /\ {u} \union S \subseteq Range(todo)
        BY <2>1, <2>2, Listed
    <2>4. PICK c : c = [NoCall EXCEPT !.op = "create", !.todo = todo, !.all = {u} \union S]
        OBVIOUS
    <2>5. c \in Call /\ c.op = "create" /\ c.todo = todo /\ c.all = {u} \union S /\ c.must = {}
        BY <2>3, <2>4, NoCallIsCall DEF Call, Ops, NoCall
    <2>6. Begins(t, c)
        BY <2>1, <2>2, <2>3, <2>4, <2>5 DEF Begin, Begins, OfKey
    <2> QED
        BY <2>6
<1>5. ASSUME NEW t \in Threads, NEW c \in ConvIds, NEW u \in Users, AddBegin(t, c, u)
      PROVE  Moves
    <2>1. <<u>> \in Seq(Users) /\ <<u>> # <<>> /\ Range(<<u>>) = {u}
        BY Single
    <2>2. PICK x : x = [NoCall EXCEPT !.op = "add", !.conv = c, !.todo = <<u>>, !.all = {u}]
        OBVIOUS
    <2>3. x \in Call /\ x.op = "add" /\ x.conv = c /\ x.todo = <<u>> /\ x.all = {u}
          /\ x.must = {}
        <3>1. PICK todo : todo = <<u>>
            OBVIOUS
        <3>2. x = [NoCall EXCEPT !.op = "add", !.conv = c, !.todo = todo, !.all = {u}]
            BY <2>2, <3>1
        <3>3. todo \in Seq(Users) /\ c \in 0 .. MaxConvs
            BY <2>1, <3>1, Constants DEF ConvIds
        <3> QED
            BY <3>1, <3>2, <3>3, NoCallIsCall DEF Call, Ops, NoCall
    <2>4. Begins(t, x)
        BY <1>5, <2>1, <2>2, <2>3 DEF AddBegin, Begin, Begins, OfKey
    <2> QED
        BY <2>4
<1>6. ASSUME NEW t \in Threads, NEW c \in ConvIds, DeleteBegin(t, c)
      PROVE  Moves
    <2>1. PICK x : x = [NoCall EXCEPT !.op = "delete", !.conv = c]
        OBVIOUS
    <2>2. x \in Call /\ x.op = "delete" /\ x.conv = c /\ x.must = {}
        <3>1. c \in 0 .. MaxConvs
            BY Constants DEF ConvIds
        <3> QED
            BY <2>1, <3>1, NoCallIsCall DEF Call, Ops, NoCall
    <2>3. Begins(t, x)
        BY <1>6, <2>1, <2>2 DEF DeleteBegin, Begin, Begins, OfKey
    <2> QED
        BY <2>3
<1>7. ASSUME NEW t \in Threads, Lost(t) \/ Return(t)
      PROVE  Moves
    BY <1>7, Returns DEF Lost
<1>8. ASSUME NEW t \in Threads, Send(t) \/ Delete(t)
      PROVE  Moves
    BY <1>7, <1>8 DEF Send, Delete, Attempt
<1>9. ASSUME NEW t \in Threads, Check(t)
      PROVE  Moves
    BY <1>7, <1>9 DEF Check, IsParticipant, Attempt, Checks
<1>10. ASSUME NEW t \in Threads, Read(t)
      PROVE  Moves
    BY <1>7, <1>10 DEF Read, Attempt, Reads
<1>11. ASSUME NEW t \in Threads, Create(t)
      PROVE  Moves
    BY <1>7, <1>11 DEF Create, Attempt, Creates
<1>12. ASSUME NEW t \in Threads, Add(t)
      PROVE  Moves
    <2>1. CASE Lost(t) \/ Return(t)
        BY <1>7, <2>1
    <2>2. CASE InsertParticipant(Head(call[t].todo), call[t].conv) /\ Added(t)
        BY <1>7, <1>12, <2>2 DEF Add, Added, Adds
    <2> QED
        BY <1>12, <2>1, <2>2 DEF Add, Attempt
<1> QED
    BY <1>1, <1>2, <1>3, <1>4, <1>5, <1>6, <1>8, <1>9, <1>10, <1>11, <1>12 DEF Next, Threads

\* A call that does nothing is none the worse for what others do.
LEMMA RightStays ==
    ASSUME Rows, Tables, Writes, NEW c \in Call, Right(c)
    PROVE  Right(c)'
<1>1. \A u \in c.all : c.op = "add" => u \in Users /\ c.conv \in ConvIds
    BY DEF Call, Right
<1>2. \A u \in c.all : c.op = "add" /\ Joined(u, c.conv) => Joined(u, c.conv)'
    BY <1>1, JoinedStays
<1> QED
    BY <1>2 DEF Right

LEMMA CallsStep == MInv /\ Writes /\ Moves => call' \in [Threads -> Call] /\ Ready'
<1> SUFFICES ASSUME MInv, Writes, Moves PROVE call' \in [Threads -> Call] /\ Ready'
    OBVIOUS
<1>0. Rows /\ Tables /\ Ready /\ call \in [Threads -> Call] /\ Rows' /\ Tables'
    BY TypeParts, RowsStep, TablesStep DEF MInv
<1>1. ASSUME NEW t \in Threads, NEW c \in Call, Right(c)', call' = [call EXCEPT ![t] = c]
      PROVE  call' \in [Threads -> Call] /\ Ready'
    <2>1. call' \in [Threads -> Call]
        BY <1>0, <1>1
    <2>2. ASSUME NEW s \in Threads PROVE Right(call[s])'
        <3>1. CASE s = t
            <4>1. call'[s] = c
                BY <1>0, <1>1, <3>1
            <4> QED
                BY <1>1, <4>1 DEF Right, Joined, Exists
        <3>2. CASE s # t
            <4>1. PICK d \in Call : d = call[s]
                BY <1>0
            <4>2. call'[s] = d
                BY <1>0, <1>1, <3>2, <4>1
            <4>3. Right(d)
                BY <1>0, <4>1 DEF Ready
            <4>4. Right(d)'
                BY <1>0, <4>3, RightStays
            <4> QED
                BY <4>2, <4>4 DEF Right, Joined, Exists
        <3> QED
            BY <3>1, <3>2
    <2> QED
        BY <2>1, <2>2 DEF Ready
<1>2. CASE UNCHANGED call
    <2>1. ASSUME NEW s \in Threads PROVE Right(call[s])'
        <3>1. PICK d \in Call : d = call[s]
            BY <1>0
        <3>2. call'[s] = d
            BY <1>2, <3>1
        <3>3. Right(d)
            BY <1>0, <3>1 DEF Ready
        <3>4. Right(d)'
            BY <1>0, <3>3, RightStays
        <3> QED
            BY <3>2, <3>4 DEF Right, Joined, Exists
    <2> QED
        BY <1>0, <1>2, <2>1 DEF Ready
<1>3. CASE Crash
    <2>1. call' = [t \in Threads |-> NoCall]
        BY <1>3 DEF Crash
    <2>2. call' \in [Threads -> Call]
        BY <2>1, NoCallIsCall
    <2>3. \A t \in Threads : call'[t].op = "none"
        BY <2>1, NoCallIsCall
    <2> QED
        BY <2>2, <2>3 DEF Ready, Right
<1>4. ASSUME NEW t \in Threads, call' = [call EXCEPT ![t].try = 2]
      PROVE  call' \in [Threads -> Call] /\ Ready'
    <2>1. PICK d \in Call : d = call[t]
        BY <1>0
    <2>2. PICK c : c = [d EXCEPT !.try = 2]
        OBVIOUS
    <2>3. c \in Call /\ c.op = d.op /\ c.key = d.key /\ c.conv = d.conv /\ c.todo = d.todo /\ c.all = d.all
        BY <2>2 DEF Call
    <2>4. Right(d)'
        BY <1>0, <2>1, RightStays DEF Ready
    <2>5. Right(c)'
        BY <2>3, <2>4 DEF Right
    <2>6. call' = [call EXCEPT ![t] = c]
        BY <1>4, <2>1, <2>2
    <2> QED
        BY <1>1, <2>3, <2>5, <2>6
<1>5. ASSUME NEW t \in Threads, NEW c, Begins(t, c)
      PROVE  call' \in [Threads -> Call] /\ Ready'
    <2>1. c \in Call /\ call' = [call EXCEPT ![t] = c]
        BY <1>5 DEF Begins
    <2>2. Right(c)'
        BY <1>5 DEF Begins, Right
    <2> QED
        BY <1>1, <2>1, <2>2
<1>6. ASSUME NEW t \in Threads, Creates(t)
      PROVE  call' \in [Threads -> Call] /\ Ready'
    <2>1. PICK d \in Call : d = call[t]
        BY <1>0
    <2>2. PICK c : c = [d EXCEPT !.op = "add", !.conv = lastConv + 1, !.try = 1]
        OBVIOUS
    <2>3. lastConv + 1 \in ConvIds /\ lastConv + 1 \in 0 .. MaxConvs
        BY <1>0, <1>6, Constants DEF Creates, InsertGroup, Rows, ConvIds
    <2>4. c \in Call /\ c.op = "add" /\ c.conv = lastConv + 1 /\ c.todo = d.todo /\ c.all = d.all
        BY <2>2, <2>3 DEF Call, Ops
    <2>5. d.todo # <<>> /\ d.all \subseteq Range(d.todo)
        BY <1>0, <1>6, <2>1 DEF Ready, Right, Creates
    <2>6. Right(c)'
        BY <2>3, <2>4, <2>5 DEF Right
    <2>7. call' = [call EXCEPT ![t] = c]
        BY <1>6, <2>1, <2>2 DEF Creates
    <2> QED
        BY <1>1, <2>4, <2>6, <2>7
<1>7. ASSUME NEW t \in Threads, Adds(t)
      PROVE  call' \in [Threads -> Call] /\ Ready'
    <2>1. PICK d \in Call : d = call[t]
        BY <1>0
    <2>2. PICK c : c = [d EXCEPT !.todo = Tail(d.todo), !.try = 1]
        OBVIOUS
    <2>3. /\ d.op = "add" /\ d.todo \in Seq(Users) /\ d.todo # <<>> /\ Len(d.todo) # 1
          /\ d.conv \in ConvIds /\ d.all \subseteq Users
          /\ InsertParticipant(Head(d.todo), d.conv)
        BY <1>0, <1>7, <2>1 DEF Adds, Call, Ready, Right
    <2>4. /\ Tail(d.todo) \in Seq(Users) /\ Tail(d.todo) # <<>>
          /\ Range(d.todo) = {Head(d.todo)} \union Range(Tail(d.todo))
        BY <2>3, HeadAndTail
    <2>5. c \in Call /\ c.op = "add" /\ c.conv = d.conv /\ c.todo = Tail(d.todo) /\ c.all = d.all
        BY <2>2, <2>3, <2>4 DEF Call
    <2>6. Right(d)'
        BY <1>0, <2>1, RightStays DEF Ready
    <2>7. Joined(Head(d.todo), d.conv)'
        <3>1. Exists(d.conv) /\ lastConv' = lastConv /\ <<Head(d.todo), d.conv>> \in parts'
            BY <2>3 DEF InsertParticipant
        <3>2. d.conv <= lastConv
            BY <1>0, <3>1 DEF Exists, Tables
        <3> QED
            BY <3>1, <3>2 DEF Joined
    <2>8. Right(c)'
        <3>1. ASSUME NEW u \in c.all \ Range(c.todo)
              PROVE  Joined(u, c.conv)'
            <4>1. CASE u = Head(d.todo)
                BY <2>5, <2>7, <4>1
            <4>2. CASE u # Head(d.todo)
                <5>1. u \in d.all \ Range(d.todo)
                    BY <2>4, <2>5, <3>1, <4>2
                <5> QED
                    BY <2>3, <2>5, <2>6, <5>1 DEF Right
            <4> QED
                BY <4>1, <4>2
        <3> QED
            BY <2>3, <2>4, <2>5, <3>1 DEF Right
    <2>9. call' = [call EXCEPT ![t] = c]
        BY <1>7, <2>1, <2>2 DEF Adds
    <2> QED
        BY <1>1, <2>5, <2>8, <2>9
<1>8. ASSUME NEW t \in Threads, Checks(t)
      PROVE  call' \in [Threads -> Call] /\ Ready'
    <2>1. PICK d \in Call : d = call[t]
        BY <1>0
    <2>2. PICK c : c = [d EXCEPT !.op = "read", !.try = 1]
        OBVIOUS
    <2>3. c \in Call /\ c.op = "read"
        BY <2>2 DEF Call, Ops
    <2>4. Right(c)'
        BY <2>3 DEF Right
    <2>5. call' = [call EXCEPT ![t] = c]
        BY <1>8, <2>1, <2>2 DEF Checks
    <2> QED
        BY <1>1, <2>3, <2>4, <2>5
<1>9. ASSUME NEW t \in Threads, Reads(t)
      PROVE  call' \in [Threads -> Call] /\ Ready'
    <2>1. PICK d \in Call : d = call[t]
        BY <1>0
    <2>2. PICK got : got = {m.id : m \in Newest(Stored(call[t].key))}
        OBVIOUS
    <2>3. got \subseteq MsgIds
        BY <1>0, <2>2 DEF Newest, Stored, Rows, Message
    <2>4. PICK c : c = [d EXCEPT !.op = "answered", !.try = 1, !.got = got]
        OBVIOUS
    <2>5. c \in Call /\ c.op = "answered"
        BY <2>3, <2>4 DEF Call, Ops
    <2>6. Right(c)'
        BY <2>5 DEF Right
    <2>7. call' = [call EXCEPT ![t] = c]
        BY <1>9, <2>1, <2>2, <2>4 DEF Reads
    <2> QED
        BY <1>1, <2>5, <2>6, <2>7
<1> QED
    BY <1>2, <1>3, <1>4, <1>5, <1>6, <1>7, <1>8, <1>9 DEF Moves

-----------------------------------------------------------------------------
LEMMA InitEstablishes == Init => MInv
<1> SUFFICES ASSUME Init PROVE MInv
    OBVIOUS
<1>1. Rows /\ call \in [Threads -> Call]
    BY NoCallIsCall DEF Init, Rows
<1>2. Tables /\ Told /\ DmListed /\ MembershipKept /\ DeletedForGood
    BY DEF Init, Tables, Told, DmListed, MembershipKept, DeletedForGood
<1>3. Ready
    BY NoCallIsCall DEF Init, Ready, Right
<1> QED
    BY <1>1, <1>2, <1>3, TypeParts DEF MInv

LEMMA StepPreserves == MInv /\ [Next]_vars => MInv'
<1> SUFFICES ASSUME MInv, [Next]_vars PROVE MInv'
    OBVIOUS
<1>1. Writes /\ Moves
    BY OneWrite, OneMove DEF MInv
<1>2. Rows' /\ call' \in [Threads -> Call] /\ Ready'
    BY <1>1, RowsStep, CallsStep
<1>3. TypeOK'
    BY <1>2, TypeParts DEF TypeOK, Rows, Call, Exists
<1>4. Tables' /\ Told' /\ DmListed' /\ MembershipKept' /\ DeletedForGood'
    BY <1>1, TablesStep, ToldStep, DmListedStep, MembershipStep, GoneStep
<1> QED
    BY <1>2, <1>3, <1>4 DEF MInv

(* The inductive invariant: the tables, and what was told of them.         *)
THEOREM Inductive == Spec => []MInv
BY InitEstablishes, StepPreserves, PTL DEF Spec

(* Participants and messages refer to rows that exist.                     *)
THEOREM TypeCorrect == Spec => []TypeOK
<1>1. MInv => TypeOK
    BY DEF MInv
<1> QED
    BY <1>1, Inductive, PTL

(* Both users of a direct conversation have it in their lists, and         *)
(* acknowledged members stay members.                                      *)
THEOREM MembersStay == Spec => []MembersListed
<1>1. MInv => MembersListed
    BY DEF MInv, MembersListed
<1> QED
    BY <1>1, Inductive, PTL

(* A deleted room does not come back.                                      *)
THEOREM DeletionsHold == Spec => []DeletedForGood
<1>1. MInv => DeletedForGood
    BY DEF MInv
<1> QED
    BY <1>1, Inductive, PTL

(* An acknowledged message is found under its key.                         *)
THEOREM MessagesStay == Spec => []AckedReadable
<1>1. MInv => AckedReadable
    <2> SUFFICES ASSUME MInv, NEW a \in acked, Exists(a.conv), NEW c \in Titled(a.key)
                 PROVE  c.id = a.conv /\ \E m \in msgs : m.id = a.id /\ m.conv = c.id
        BY DEF AckedReadable
    <2>1. Rows /\ Tables /\ Told
        BY TypeParts DEF MInv
    <2>2. PICK r \in convs : r.id = a.conv /\ r.title = a.key
        BY <2>1 DEF Told
    <2>3. r = c
        BY <2>1, <2>2 DEF Tables, Titled, Rows
    <2> QED
        BY <2>1, <2>2, <2>3 DEF Told
<1> QED
    BY <1>1, Inductive, PTL

-----------------------------------------------------------------------------
(***************************************************************************)
(* The newest of a set of messages.  Numbers first: of a set that has more *)
(* than L of them, exactly L are kept, and they are the greatest.          *)
(***************************************************************************)
LEMMA Smallest ==
    ASSUME NEW S \in SUBSET Nat, S # {}
    PROVE  \E m \in S : \A n \in S : m <= n
<1>1. PICK m \in S : \A n \in S : ~(<<n, m>> \in OpToRel(<, Nat))
    BY NatLessThanWellFounded, WFMin
<1>2. \A n \in S : ~(n < m)
    BY <1>1 DEF OpToRel
<1> QED
    BY <1>2

LEMMA Greatest ==
    ASSUME NEW b \in Nat, NEW S \in SUBSET (0 .. b), S # {}
    PROVE  \E m \in S : \A n \in S : n <= m
<1> DEFINE T == {n \in Nat : b - n \in S}
<1>1. PICK s \in S : TRUE
    OBVIOUS
<1>2. b - s \in T
    BY <1>1
<1>3. PICK t \in T : \A n \in T : t <= n
    BY <1>2, Smallest
<1>4. ASSUME NEW n \in S PROVE n <= b - t
    <2>1. b - n \in T
        OBVIOUS
    <2>2. t <= b - n
        BY <1>3, <2>1
    <2> QED
        BY <1>3, <2>2
<1> QED
    BY <1>3, <1>4

Above(I, i) == {j \in I : j > i}

LEMMA AboveFinite ==
    ASSUME NEW b \in Nat, NEW I \in SUBSET (0 .. b), NEW i
    PROVE  IsFiniteSet(Above(I, i)) /\ Cardinality(Above(I, i)) \in Nat
<1>1. IsFiniteSet(0 .. b)
    BY FS_Interval
<1>2. Above(I, i) \in SUBSET (0 .. b)
    BY DEF Above
<1>3. IsFiniteSet(Above(I, i))
    BY <1>1, <1>2, FS_Subset
<1> QED
    BY <1>3, FS_CardinalityType

LEMMA TopIsFull ==
    ASSUME NEW b \in Nat, NEW I \in SUBSET (0 .. b), NEW L \in Nat \ {0}, NEW T,
           T = {i \in I : Cardinality(Above(I, i)) < L}, NEW i \in I \ T
    PROVE  Cardinality(Above(T, i)) = L
<1>0. T \subseteq I /\ (\A j \in T : j \in Nat) /\ \A j \in I : j \in Nat
    <2>1. \A j \in I : j \in 0 .. b
        OBVIOUS
    <2> QED
        BY <2>1
<1>1. ASSUME NEW p \in I \ T, NEW j \in T PROVE j > p
    <2> SUFFICES ASSUME j <= p PROVE FALSE
        BY <1>0
    <2>1. \A x \in Above(I, p) : x \in Above(I, j)
        <3> SUFFICES ASSUME NEW x \in I, x > p PROVE x > j
            BY DEF Above
        <3> QED
            BY <1>0
    <2>2. Above(I, p) \in SUBSET Above(I, j) /\ IsFiniteSet(Above(I, j))
        BY <2>1, AboveFinite
    <2>3. Cardinality(Above(I, p)) <= Cardinality(Above(I, j))
        BY <2>2, FS_Subset
    <2>4. Cardinality(Above(I, p)) \in Nat /\ Cardinality(Above(I, j)) \in Nat
        BY AboveFinite
    <2>5. Cardinality(Above(I, j)) < L /\ ~(Cardinality(Above(I, p)) < L)
        OBVIOUS
    <2> QED
        BY <2>3, <2>4, <2>5
<1>2. PICK p \in I \ T : \A n \in I \ T : n <= p
    <2>1. I \ T \in SUBSET (0 .. b) /\ I \ T # {}
        OBVIOUS
    <2> QED
        BY <2>1, Greatest
<1>3. Above(T, i) = T
    BY <1>1 DEF Above
<1>4. T = Above(I, p)
    <2>1. \A j \in T : j \in Above(I, p)
        BY <1>1 DEF Above
    <2>2. \A j \in Above(I, p) : j \in T
        <3> SUFFICES ASSUME NEW j \in Above(I, p), j \notin T PROVE FALSE
            OBVIOUS
        <3>1. j \in I \ T /\ j > p
            BY DEF Above
        <3> QED
            BY <1>0, <1>2, <3>1
    <2> QED
        BY <2>1, <2>2
<1>5. Cardinality(T) \in Nat /\ IsFiniteSet(T) /\ Cardinality(T) >= L
    <2>1. IsFiniteSet(T) /\ Cardinality(T) \in Nat
        BY <1>4, AboveFinite
    <2>2. ~(Cardinality(Above(I, p)) < L)
        BY <1>2
    <2> QED
        BY <1>4, <2>1, <2>2
<1>6. T # {}
    BY <1>5, FS_EmptySet
<1>7. PICK q \in T : \A n \in T : q <= n
    <2>1. T \in SUBSET Nat
        BY <1>0
    <2> QED
        BY <1>6, <2>1, Smallest
<1>8. Above(I, q) = T \ {q}
    <2>1. \A j \in Above(I, q) : j \in T /\ j # q
        <3> SUFFICES ASSUME NEW j \in Above(I, q) PROVE j \in T /\ j # q
            OBVIOUS
        <3>1. j \in I /\ j > q /\ q > p
            BY <1>1, <1>2 DEF Above
        <3>2. j > p
            BY <1>0, <3>1
        <3> QED
            BY <1>0, <1>4, <3>1, <3>2 DEF Above
    <2>2. \A j \in T \ {q} : j \in Above(I, q)
        BY <1>0, <1>7 DEF Above
    <2> QED
        BY <2>1, <2>2
<1>9. Cardinality(Above(I, q)) = Cardinality(T) - 1
    <2>1. Cardinality(T \ {q}) = IF q \in T THEN Cardinality(T) - 1 ELSE Cardinality(T)
        BY <1>5, FS_RemoveElement, Zenon
    <2> QED
        BY <1>7, <1>8, <2>1
<1>10. Cardinality(Above(I, q)) < L
    BY <1>7
<1>11. Cardinality(T) = L
    BY <1>5, <1>9, <1>10
<1> QED
    BY <1>3, <1>11

\* Messages are counted by their ids.
LEMMA CountedById ==
    ASSUME NEW M, NEW b \in Nat, \A m \in M : m.id \in 0 .. b,
           \A m, n \in M : m.id = n.id => m = n
    PROVE  Cardinality({m.id : m \in M}) = Cardinality(M)
<1> DEFINE I == {m.id : m \in M}
<1> DEFINE f == [m \in M |-> m.id]
<1>1. f \in Bijection(M, I)
    BY Fun_IsBij
<1>2. ExistsBijection(M, I)
    BY <1>1, Fun_ExistsBij
<1>3. ExistsBijection(I, M)
    BY <1>2, Fun_ExistsBijSymmetric
<1>4. IsFiniteSet(I)
    <2>1. IsFiniteSet(0 .. b) /\ I \in SUBSET (0 .. b)
        BY FS_Interval
    <2> QED
        BY <2>1, FS_Subset
<1> QED
    BY <1>3, <1>4, FS_Bijection

\* A message that is not among the newest has the limit's worth of newer ones.
LEMMA NewestIsFull ==
    ASSUME NEW S, \A m \in S : m.id \in MsgIds, \A m, n \in S : m.id = n.id => m = n,
           NEW got, got = {m.id : m \in Newest(S)}, NEW m \in S, m.id \notin got
    PROVE  Cardinality(Above(got, m.id)) = Limit
<1> DEFINE I == {x.id : x \in S}
<1>0. MaxMsgs \in Nat /\ Limit \in Nat \ {0} /\ MsgIds \subseteq 0 .. MaxMsgs
    BY Constants, BoundsAssumption DEF MsgIds
<1>1. I \in SUBSET (0 .. MaxMsgs)
    BY <1>0
<1>2. ASSUME NEW x \in S
      PROVE  Cardinality({y \in S : y.id > x.id}) = Cardinality(Above(I, x.id))
    <2> DEFINE M == {y \in S : y.id > x.id}
    <2>1. {y.id : y \in M} = Above(I, x.id)
        BY DEF Above
    <2>2. Cardinality({y.id : y \in M}) = Cardinality(M)
        <3>1. (\A y \in M : y.id \in 0 .. MaxMsgs) /\ \A y, z \in M : y.id = z.id => y = z
            BY <1>0
        <3> HIDE DEF M
        <3> QED
            BY <1>0, <3>1, CountedById
    <2> QED
        BY <2>1, <2>2
<1>3. got = {i \in I : Cardinality(Above(I, i)) < Limit}
    <2>1. \A x \in S : x \in Newest(S) <=> Cardinality(Above(I, x.id)) < Limit
        BY <1>2 DEF Newest
    <2>2. Newest(S) \subseteq S
        BY DEF Newest
    <2>3. \A i : i \in got <=> \E x \in S : x.id = i /\ x \in Newest(S)
        BY <2>2
    <2>4. \A i : i \in got <=> \E x \in S : x.id = i /\ Cardinality(Above(I, i)) < Limit
        BY <2>1, <2>3
    <2>5. \A i : i \in got <=> i \in I /\ Cardinality(Above(I, i)) < Limit
        BY <2>4
    <2> HIDE DEF I
    <2> QED
        BY <2>5
<1>4. m.id \in I \ got
    OBVIOUS
<1> HIDE DEF I
<1>5. \A T : T = {i \in I : Cardinality(Above(I, i)) < Limit}
                => \A i \in I \ T : Cardinality(Above(T, i)) = Limit
    BY <1>0, <1>1, TopIsFull
<1> QED
    BY <1>3, <1>4, <1>5, Zenon

-----------------------------------------------------------------------------
(***************************************************************************)
(* What history calls return.                                              *)
(***************************************************************************)
\* Ids of messages are handed out once, and a message stays in its conversation.
RowsOnce ==
    /\ \A m, n \in msgs : m.id = n.id => m = n
    /\ \A a \in acked : a.id <= lastMsg /\ \A m \in msgs : m.id = a.id => m.conv = a.conv

\* What was there when it was asked for is in the answer, is gone, or is behind.
Answers(c) ==
    \A i \in c.must \ c.got :
        (\A m \in msgs : m.id # i) \/ Cardinality(Above(c.got, i)) = Limit

Asked(c) ==
    /\ \A i \in c.must : i <= lastMsg
    /\ IF c.op = "answered" THEN Answers(c) ELSE OfKey(c)

HInv == RowsOnce /\ \A t \in Threads : Asked(call[t])

\* Messages do not come back, and do not move.
LEMMA MessagesOnce ==
    ASSUME Rows, Tables, Writes
    PROVE  /\ lastMsg <= lastMsg'
           /\ \A m \in msgs' : m.id <= lastMsg => \E n \in msgs : n.id = m.id /\ n.conv = m.conv
           /\ acked \subseteq acked'
<1>0. lastMsg \in Nat /\ \A m \in msgs : m.id \in Nat /\ m.id <= lastMsg
    BY RowsParts DEF Tables, Rows
<1>1. ASSUME NEW k \in Keys, NEW u \in users, NEW c \in ConvIds, NewMessage(k, u, c)
      PROVE  /\ lastMsg <= lastMsg'
             /\ \A m \in msgs' : m.id <= lastMsg => \E n \in msgs : n.id = m.id /\ n.conv = m.conv
             /\ acked \subseteq acked'
    <2>1. PICK new : new = [id |-> lastMsg + 1, conv |-> c, sender |-> u]
        OBVIOUS
    <2>2. msgs' = msgs \union {new} /\ lastMsg' = lastMsg + 1 /\ new.id = lastMsg + 1
        BY <1>1, <2>1, Inserted DEF NewMessage
    <2> QED
        BY <1>0, <1>1, <2>2 DEF NewMessage
<1>2. ASSUME NEW u \in Users, DeleteUser(u)
      PROVE  /\ lastMsg <= lastMsg'
             /\ \A m \in msgs' : m.id <= lastMsg => \E n \in msgs : n.id = m.id /\ n.conv = m.conv
             /\ acked \subseteq acked'
    <2> DEFINE Left(m) == IF m.sender = u THEN [m EXCEPT !.sender = Nobody] ELSE m
    <2>1. msgs' = {Left(m) : m \in msgs} /\ UNCHANGED <<lastMsg, acked>>
        BY <1>2 DEF DeleteUser, told
    <2>2. \A m \in msgs : Left(m).id = m.id /\ Left(m).conv = m.conv
        BY DEF Rows, Message
    <2> HIDE DEF Left
    <2> QED
        BY <1>0, <2>1, <2>2
<1> QED
    BY <1>0, <1>1, <1>2 DEF Writes, rows, told, InsertGroup, NewParticipant, LastParticipant,
           InsertParticipant, DropRow, DeleteRow

LEMMA RowsOnceStep == MInv /\ RowsOnce /\ Writes => RowsOnce'
<1> SUFFICES ASSUME MInv, RowsOnce, Writes PROVE RowsOnce'
    OBVIOUS
<1>0. Rows /\ Tables
    BY TypeParts DEF MInv
<1>a. lastMsg \in Nat /\ \A m \in msgs : m.id \in Nat /\ m.id <= lastMsg
    BY <1>0, RowsParts DEF Tables, Rows
<1>b. \A a \in acked : a.id \in Nat
    BY <1>0, Constants DEF Rows
<1>1. ASSUME NEW k \in Keys, NEW u \in users, NEW c \in ConvIds, NewMessage(k, u, c)
      PROVE  RowsOnce'
    <2>1. PICK new : new = [id |-> lastMsg + 1, conv |-> c, sender |-> u]
        OBVIOUS
    <2>2. PICK ack : ack = [id |-> lastMsg + 1, key |-> k, conv |-> c]
        OBVIOUS
    <2>3. /\ msgs' = msgs \union {new} /\ lastMsg' = lastMsg + 1
          /\ new.id = lastMsg + 1 /\ new.conv = c
          /\ ack.id = lastMsg + 1 /\ ack.conv = c /\ acked' \subseteq acked \union {ack}
        BY <1>0, <1>1, <2>1, <2>2, Inserted DEF NewMessage
    <2>4. \A m, n \in msgs' : m.id = n.id => m = n
        BY <1>a, <2>3 DEF RowsOnce
    <2>5. \A a \in acked' : a.id <= lastMsg' /\ \A m \in msgs' : m.id = a.id => m.conv = a.conv
        BY <1>a, <1>b, <2>3 DEF RowsOnce
    <2> QED
        BY <2>4, <2>5 DEF RowsOnce
<1>2. ASSUME NEW u \in Users, DeleteUser(u)
      PROVE  RowsOnce'
    <2> DEFINE Left(m) == IF m.sender = u THEN [m EXCEPT !.sender = Nobody] ELSE m
    <2>1. msgs' = {Left(m) : m \in msgs} /\ UNCHANGED <<lastMsg, acked>>
        BY <1>2 DEF DeleteUser, told
    <2>2. \A m \in msgs : Left(m).id = m.id /\ Left(m).conv = m.conv
        BY <1>0 DEF Rows, Message
    <2> HIDE DEF Left
    <2> QED
        BY <2>1, <2>2 DEF RowsOnce
<1>3. CASE msgs' \subseteq msgs /\ acked' = acked /\ lastMsg' = lastMsg
    BY <1>3 DEF RowsOnce
<1> QED
    BY <1>1, <1>2, <1>3 DEF Writes, rows, told, InsertGroup, NewParticipant, LastParticipant,
           InsertParticipant, DropRow, DeleteRow

\* What a call may count on it may count on after any write.
LEMMA AskedStays ==
    ASSUME Rows, Tables, Writes, NEW c \in Call, Asked(c)
    PROVE  Asked(c)'
<1>0. /\ lastMsg \in Nat /\ lastMsg' >= lastMsg /\ acked \subseteq acked'
      /\ \A m \in msgs' : m.id <= lastMsg => \E n \in msgs : n.id = m.id
    BY MessagesOnce DEF Rows
<1>1. \A i \in c.must : i <= lastMsg /\ i \in Nat
    BY Constants DEF Call, Asked
<1>2. \A i \in c.must : i <= lastMsg'
    <2>1. lastMsg' \in Nat
        BY <1>0, MessagesOnce DEF Writes, rows, NewMessage, InsertMessage, InsertGroup, NewParticipant,
               InsertParticipant, LastParticipant, DropRow, DeleteRow, DeleteUser
    <2> QED
        BY <1>0, <1>1, <2>1
<1>3. OfKey(c) => OfKey(c)'
    BY <1>0 DEF OfKey
<1>4. Answers(c) => Answers(c)'
    <2> SUFFICES ASSUME Answers(c), NEW i \in c.must \ c.got, NEW m \in msgs', m.id = i
                 PROVE  Cardinality(Above(c.got, i)) = Limit
        BY DEF Answers, Above
    <2>1. \E n \in msgs : n.id = i
        BY <1>0, <1>1
    <2> QED
        BY <2>1 DEF Answers
<1> QED
    BY <1>2, <1>3, <1>4 DEF Asked

\* A call that reads a key has all it looks for, or the limit's worth of newer ones.
LEMMA ReadAnswers ==
    ASSUME MInv, RowsOnce, NEW c \in Call, OfKey(c), NEW got,
           got = {m.id : m \in Newest(Stored(c.key))},
           NEW i \in c.must \ got, NEW m \in msgs, m.id = i
    PROVE  Cardinality(Above(got, i)) = Limit
<1>0. Rows /\ Tables /\ Told
    BY TypeParts DEF MInv
<1>1. PICK a \in acked : a.id = i /\ a.key = c.key
    BY DEF OfKey
<1>2. m.conv = a.conv /\ Exists(a.conv)
    BY <1>0, <1>1 DEF RowsOnce, Rows
<1>3. m \in Stored(c.key)
    BY <1>0, <1>1, <1>2 DEF Told, Stored, Titled
<1>4. /\ \A x \in Stored(c.key) : x.id \in MsgIds
      /\ \A x, y \in Stored(c.key) : x.id = y.id => x = y
    BY <1>0 DEF Stored, Rows, Message, RowsOnce
<1> QED
    BY <1>3, <1>4, NewestIsFull

LEMMA AskedStep == MInv /\ HInv /\ Writes /\ Moves => \A t \in Threads : Asked(call[t])'
<1> SUFFICES ASSUME MInv, HInv, Writes, Moves PROVE \A t \in Threads : Asked(call[t])'
    OBVIOUS
<1>0. Rows /\ Tables /\ call \in [Threads -> Call]
    BY TypeParts DEF MInv
<1>1. ASSUME NEW t \in Threads, NEW c \in Call, Asked(c), call' = [call EXCEPT ![t] = c]
      PROVE  \A s \in Threads : Asked(call[s])'
    <2> SUFFICES ASSUME NEW s \in Threads PROVE Asked(call[s])'
        OBVIOUS
    <2>1. PICK d \in Call : d = IF s = t THEN c ELSE call[s]
        BY <1>0
    <2>2. call'[s] = d
        BY <1>0, <1>1, <2>1
    <2>3. Asked(d)
        BY <1>1, <2>1 DEF HInv
    <2>4. Asked(d)'
        BY <1>0, <2>3, AskedStays
    <2> QED
        BY <2>2, <2>4 DEF Asked, Answers, OfKey, Above
<1>2. CASE UNCHANGED call
    <2> SUFFICES ASSUME NEW s \in Threads PROVE Asked(call[s])'
        OBVIOUS
    <2>1. PICK d \in Call : d = call[s]
        BY <1>0
    <2>2. Asked(d)'
        BY <1>0, <2>1, AskedStays DEF HInv
    <2> QED
        BY <1>2, <2>1, <2>2 DEF Asked, Answers, OfKey, Above
<1>3. CASE Crash
    BY <1>3, NoCallIsCall DEF Crash, Asked, OfKey
<1>4. ASSUME NEW t \in Threads, NEW c, Begins(t, c)
      PROVE  \A s \in Threads : Asked(call[s])'
    <2>1. c \in Call /\ call' = [call EXCEPT ![t] = c] /\ c.op # "answered" /\ OfKey(c)
        BY <1>4 DEF Begins
    <2>2. \A i \in c.must : i <= lastMsg
        BY <2>1 DEF OfKey, HInv, RowsOnce
    <2> QED
        BY <1>1, <2>1, <2>2 DEF Asked
<1>5. ASSUME NEW t \in Threads,
             \/ call' = [call EXCEPT ![t].try = 2] \/ Creates(t) \/ Adds(t) \/ Checks(t)
      PROVE  \A s \in Threads : Asked(call[s])'
    <2>1. PICK d \in Call : d = call[t]
        BY <1>0
    <2>2. PICK c : call' = [call EXCEPT ![t] = c]
                   /\ \/ c = [d EXCEPT !.try = 2]
                      \/ d.op = "create" /\ c = [d EXCEPT !.op = "add", !.conv = lastConv + 1, !.try = 1]
                      \/ d.op = "add" /\ c = [d EXCEPT !.todo = Tail(d.todo), !.try = 1]
                      \/ d.op = "check" /\ c = [d EXCEPT !.op = "read", !.try = 1]
        BY <1>0, <1>5, <2>1 DEF Creates, Adds, Checks
    <2>3. c.must = d.must /\ c.key = d.key /\ c.got = d.got /\ (c.op = "answered" <=> d.op = "answered")
        BY <2>2 DEF Call
    <2>4. Asked(c)
        BY <2>1, <2>3 DEF HInv, Asked, Answers, OfKey
    <2>5. c \in Call
        <3>1. call' \in [Threads -> Call]
            BY CallsStep
        <3>2. call'[t] = c
            BY <1>0, <2>2
        <3> QED
            BY <3>1, <3>2
    <2> QED
        BY <1>1, <2>2, <2>4, <2>5
<1>6. ASSUME NEW t \in Threads, Reads(t)
      PROVE  \A s \in Threads : Asked(call[s])'
    <2>1. PICK d \in Call : d = call[t]
        BY <1>0
    <2>2. PICK got : got = {m.id : m \in Newest(Stored(d.key))}
        OBVIOUS
    <2>3. PICK c : c = [d EXCEPT !.op = "answered", !.try = 1, !.got = got]
        OBVIOUS
    <2>4. call' = [call EXCEPT ![t] = c] /\ d.op = "read"
        BY <1>6, <2>1, <2>2, <2>3 DEF Reads
    <2>5. c.must = d.must /\ c.got = got /\ c.op = "answered"
        BY <2>3 DEF Call
    <2>6. OfKey(d) /\ \A i \in d.must : i <= lastMsg
        BY <2>1, <2>4 DEF HInv, Asked
    <2>7. Answers(c)
        BY <2>2, <2>5, <2>6, ReadAnswers DEF HInv, Answers
    <2>8. c \in Call
        <3>1. call' \in [Threads -> Call]
            BY CallsStep
        <3>2. call'[t] = c
            BY <1>0, <2>4
        <3> QED
            BY <3>1, <3>2
    <2> QED
        BY <1>1, <2>4, <2>5, <2>6, <2>7, <2>8 DEF Asked
<1> QED
    BY <1>2, <1>3, <1>4, <1>5, <1>6 DEF Moves

(* History calls return what was acknowledged before they began, newest    *)
(* first, as much as the limit lets through.                               *)
THEOREM HistoryIsComplete == Spec => []HistoryHasAcked
<1>1. Init => HInv
    BY NoCallIsCall DEF Init, HInv, RowsOnce, Asked, OfKey
<1>2. MInv /\ HInv /\ [Next]_vars => HInv'
    BY OneWrite, OneMove, RowsOnceStep, AskedStep DEF HInv, MInv
<1>3. HInv => HistoryHasAcked
    BY DEF HInv, Asked, Answers, Above, HistoryHasAcked
<1> QED
    BY <1>1, <1>2, <1>3, Inductive, PTL DEF Spec

-----------------------------------------------------------------------------
(***************************************************************************)
(* The coding of messages, for messages of any length.                     *)
(***************************************************************************)
Byte == 0 .. 255
Sextet == 0 .. 63

\* The alphabet has no letter twice, and neither padding nor white space.
LEMMA Alphabet ==
    /\ \A v \in Sextet : Letter(v) \in Letters /\ Letter(v) \in Nat
    /\ \A v, w \in Sextet : Letter(v) = Letter(w) => v = w
    /\ Pad \notin Letters /\ \A c \in Letters \union {Pad} : c \notin Spaces
<1>1. ASSUME NEW v \in Sextet
      PROVE  \/ v < 26 /\ Letter(v) = 65 + v
             \/ v \in 26 .. 51 /\ Letter(v) = 71 + v
             \/ v \in 52 .. 61 /\ Letter(v) = v - 4
             \/ v = 62 /\ Letter(v) = 43
             \/ v = 63 /\ Letter(v) = 47
    BY DEF Sextet, Letter
<1>2. \A v \in Sextet : Letter(v) \in Letters /\ Letter(v) \in Nat
    BY <1>1 DEF Letters, Sextet
<1>3. ASSUME NEW v \in Sextet, NEW w \in Sextet, Letter(v) = Letter(w) PROVE v = w
    BY <1>1, <1>3 DEF Sextet
<1>4. \A v \in Sextet : Letter(v) # 61 /\ Letter(v) > 32
    BY <1>1 DEF Sextet
<1>5. \A c \in Letters : c # 61 /\ c > 32
    BY <1>4 DEF Letters, Sextet
<1> QED
    BY <1>2, <1>3, <1>5 DEF Pad, Spaces

LEMMA ValueOfLetter == ASSUME NEW v \in Sextet PROVE Value(Letter(v)) = v
<1>1. Letter(v) # Pad
    BY Alphabet
<1>2. \A w \in Sextet : Letter(w) = Letter(v) => w = v
    BY Alphabet
<1> QED
    BY <1>1, <1>2 DEF Value, Sextet

\* Three bytes come back from their letters, each from the two it is written with.
LEMMA SextetsAndBytes ==
    ASSUME NEW x \in Byte, NEW y \in Byte, NEW z \in Byte
    PROVE  /\ x \div 4 \in Sextet /\ (x % 4) * 16 + (y \div 16) \in Sextet
           /\ (y % 16) * 4 + (z \div 64) \in Sextet /\ z % 64 \in Sextet
           /\ (x \div 4) * 4 + (((x % 4) * 16 + (y \div 16)) \div 16) = x
           /\ (((x % 4) * 16 + (y \div 16)) % 16) * 16 + (((y % 16) * 4 + (z \div 64)) \div 4) = y
           /\ (((y % 16) * 4 + (z \div 64)) % 4) * 64 + (z % 64) = z
<1>1. PICK x1 \in 0 .. 63, x0 \in 0 .. 3 : x = 4 * x1 + x0 /\ x1 = x \div 4 /\ x0 = x % 4
    BY DEF Byte
<1>2. PICK y1 \in 0 .. 15, y0 \in 0 .. 15 : y = 16 * y1 + y0 /\ y1 = y \div 16 /\ y0 = y % 16
    BY DEF Byte
<1>3. PICK z1 \in 0 .. 3, z0 \in 0 .. 63 : z = 64 * z1 + z0 /\ z1 = z \div 64 /\ z0 = z % 64
    BY DEF Byte
<1>4. x0 * 16 + y1 \in Sextet /\ y0 * 4 + z1 \in Sextet
    BY DEF Sextet
<1>5. (x0 * 16 + y1) \div 16 = x0 /\ (x0 * 16 + y1) % 16 = y1
    OBVIOUS
<1>6. (y0 * 4 + z1) \div 4 = y0 /\ (y0 * 4 + z1) % 4 = z1
    OBVIOUS
<1>7. x1 * 4 + x0 = x /\ y1 * 16 + y0 = y /\ z1 * 64 + z0 = z
    BY <1>1, <1>2, <1>3
<1> QED
    BY <1>1, <1>2, <1>3, <1>4, <1>5, <1>6, <1>7 DEF Sextet

\* When all positions up to n are kept, the first n items are.
LEMMA PrefixKept ==
    ASSUME NEW s, NEW n \in Nat
    PROVE  Kept(s, 1 .. n) = [k \in 1 .. n |-> s[k]]
<1>1. Cardinality(1 .. n) = n
    BY FS_Interval
<1> DEFINE Nth(k) == CHOOSE i \in 1 .. n : Cardinality({j \in 1 .. n : j < i}) = k - 1
<1>2. ASSUME NEW k \in 1 .. n PROVE Nth(k) = k
    <2>1. ASSUME NEW i \in 1 .. n PROVE Cardinality({j \in 1 .. n : j < i}) = i - 1
        <3>1. {j \in 1 .. n : j < i} = 1 .. i - 1
            OBVIOUS
        <3>2. Cardinality(1 .. i - 1) = i - 1
            BY FS_Interval
        <3> QED
            BY <3>1, <3>2
    <2>2. \A i \in 1 .. n : Cardinality({j \in 1 .. n : j < i}) = k - 1 <=> i = k
        BY <2>1
    <2> QED
        BY <2>2
<1>3. Kept(s, 1 .. n) = [k \in 1 .. n |-> s[Nth(k)]]
    BY <1>1, Zenon DEF Kept
<1> HIDE DEF Nth
<1> QED
    BY <1>2, <1>3

LEMMA Groups ==
    ASSUME NEW n \in {3, 4}, NEW i \in Nat
    PROVE  /\ Group(i, n) \in Nat /\ Place(i, n) \in 1 .. n
           /\ i = n * (Group(i, n) - 1) + Place(i, n)
<1>1. CASE n = 3
    BY <1>1 DEF Group, Place
<1>2. CASE n = 4
    BY <1>2 DEF Group, Place
<1> QED
    BY <1>1, <1>2

LEMMA OtherLetters == Value(Pad) = 0 /\ \A v \in Sextet : Letter(v) # Pad
BY Alphabet DEF Value

\* The four letters of a group give its bytes back; a byte that is missing at the
\* end of the message is the padding.
LEMMA GroupCoded ==
    ASSUME NEW p \in Seq(Byte), NEW g \in Nat, 3 * g - 2 <= Len(p), g >= 1, NEW q,
           \A j \in 1 .. 4 : q[j] = EncodeGroup(p, g)[j]
    PROVE  /\ GroupOk(q)
           /\ DecodeGroup(q)[1] = p[3 * g - 2]
           /\ IF 3 * g - 1 <= Len(p) THEN q[3] # Pad /\ DecodeGroup(q)[2] = p[3 * g - 1] ELSE q[3] = Pad
           /\ IF 3 * g <= Len(p) THEN q[4] # Pad /\ DecodeGroup(q)[3] = p[3 * g] ELSE q[4] = Pad
<1> DEFINE n == Len(p)
<1> DEFINE ByteAt(i) == IF i <= n THEN p[i] ELSE 0
<1>0. n \in Nat /\ \A i \in 1 .. n : p[i] \in Byte
    OBVIOUS
<1>1. PICK x, y, z : x = ByteAt(3 * g - 2) /\ y = ByteAt(3 * g - 1) /\ z = ByteAt(3 * g)
    OBVIOUS
<1>2. x \in Byte /\ y \in Byte /\ z \in Byte
    <2>1. 3 * g - 2 \in Nat /\ 3 * g - 2 >= 1 /\ 3 * g - 1 \in Nat /\ 3 * g - 1 >= 1
          /\ 3 * g \in Nat /\ 3 * g >= 1
        OBVIOUS
    <2>2. \A i \in Nat : i >= 1 => ByteAt(i) \in Byte
        BY <1>0 DEF Byte
    <2> QED
        BY <1>1, <2>1, <2>2
<1>3. /\ x = p[3 * g - 2] /\ (3 * g - 1 <= n => y = p[3 * g - 1]) /\ (3 * g <= n => z = p[3 * g])
    BY <1>1
<1> DEFINE v == Sextets([j \in 1 .. 3 |-> ByteAt(3 * g - 3 + j)])
<1>4. /\ v[1] = x \div 4 /\ v[2] = (x % 4) * 16 + (y \div 16)
      /\ v[3] = (y % 16) * 4 + (z \div 64) /\ v[4] = z % 64
    <2>1. 3 * g - 3 + 1 = 3 * g - 2 /\ 3 * g - 3 + 2 = 3 * g - 1 /\ 3 * g - 3 + 3 = 3 * g
        OBVIOUS
    <2>2. PICK b : b = [j \in 1 .. 3 |-> ByteAt(3 * g - 3 + j)]
        OBVIOUS
    <2>3. b[1] = x /\ b[2] = y /\ b[3] = z
        <3> HIDE DEF ByteAt
        <3>1. b[1] = ByteAt(3 * g - 3 + 1) /\ b[2] = ByteAt(3 * g - 3 + 2) /\ b[3] = ByteAt(3 * g - 3 + 3)
            BY <2>2
        <3> QED
            BY <1>1, <2>1, <3>1
    <2> QED
        BY <2>2, <2>3 DEF Sextets
<1>5. \A j \in 1 .. 4 : q[j] = IF 3 * g - 4 + j <= n THEN Letter(v[j]) ELSE Pad
    BY DEF EncodeGroup
<1> HIDE DEF v
<1>6. /\ v[1] \in Sextet /\ v[2] \in Sextet /\ v[3] \in Sextet /\ v[4] \in Sextet
      /\ v[1] * 4 + (v[2] \div 16) = x
      /\ (v[2] % 16) * 16 + (v[3] \div 4) = y
      /\ (v[3] % 4) * 64 + v[4] = z
    BY <1>2, <1>4, SextetsAndBytes
<1>7. /\ q[1] = Letter(v[1]) /\ q[2] = Letter(v[2])
      /\ q[3] = IF 3 * g - 1 <= n THEN Letter(v[3]) ELSE Pad
      /\ q[4] = IF 3 * g <= n THEN Letter(v[4]) ELSE Pad
    <2>1. /\ 3 * g - 4 + 1 <= n /\ 3 * g - 4 + 2 <= n
          /\ 3 * g - 4 + 3 = 3 * g - 1 /\ 3 * g - 4 + 4 = 3 * g
        BY <1>0
    <2> QED
        BY <1>5, <2>1
<1>8. GroupOk(q)
    BY <1>6, <1>7, Alphabet DEF GroupOk
<1>9. /\ Value(q[1]) = v[1] /\ Value(q[2]) = v[2]
      /\ Value(q[3]) = IF 3 * g - 1 <= n THEN v[3] ELSE 0
      /\ Value(q[4]) = IF 3 * g <= n THEN v[4] ELSE 0
    BY <1>6, <1>7, ValueOfLetter, OtherLetters
<1>10. /\ DecodeGroup(q)[1] = Value(q[1]) * 4 + (Value(q[2]) \div 16)
       /\ DecodeGroup(q)[2] = (Value(q[2]) % 16) * 16 + (Value(q[3]) \div 4)
       /\ DecodeGroup(q)[3] = (Value(q[3]) % 4) * 64 + Value(q[4])
    <2>1. PICK w : w = [k \in 1 .. 4 |-> Value(q[k])]
        OBVIOUS
    <2>2. /\ w[1] = Value(q[1]) /\ w[2] = Value(q[2]) /\ w[3] = Value(q[3]) /\ w[4] = Value(q[4])
          /\ DecodeGroup(q) = Bytes(w)
        BY <2>1 DEF DecodeGroup
    <2> QED
        BY <2>2 DEF Bytes
<1>11. DecodeGroup(q)[1] = x
    BY <1>6, <1>9, <1>10
<1>12. 3 * g - 1 <= n => DecodeGroup(q)[2] = y
    BY <1>6, <1>9, <1>10
<1>13. 3 * g <= n => DecodeGroup(q)[3] = z
    <2>1. 3 * g <= n => 3 * g - 1 <= n
        BY <1>0
    <2> QED
        BY <1>6, <1>9, <1>10, <2>1
<1> QED
    BY <1>3, <1>6, <1>7, <1>8, <1>11, <1>12, <1>13, OtherLetters

\* What is written into the column is base64, without white space.
LEMMA TextCoded ==
    ASSUME NEW p \in Seq(Byte), NEW t, t = Encode(p), NEW n, n = Group(Len(p), 3)
    PROVE  /\ n \in Nat /\ t = [k \in 1 .. 4 * n |-> t[k]]
           /\ Stripped(t) = t /\ IsBase64(t) /\ Len(t) = 4 * n
           /\ \A g \in 1 .. n : /\ 3 * g - 2 <= Len(p)
                                /\ \A j \in 1 .. 4 : Quad(t, g)[j] = EncodeGroup(p, g)[j]
<1>0. Len(p) \in Nat
    OBVIOUS
<1>1. n \in Nat /\ \A g \in 1 .. n : 3 * g - 2 <= Len(p)
    <2>1. n \in Nat /\ Place(Len(p), 3) \in 1 .. 3 /\ Len(p) = 3 * (n - 1) + Place(Len(p), 3)
        BY <1>0, Groups
    <2> QED
        BY <2>1
<1>2. t = [k \in 1 .. 4 * n |-> EncodeGroup(p, Group(k, 4))[Place(k, 4)]]
    BY DEF Encode
<1>3. ASSUME NEW g \in 1 .. n, NEW j \in 1 .. 4
      PROVE  4 * g - 4 + j \in 1 .. 4 * n /\ Group(4 * g - 4 + j, 4) = g /\ Place(4 * g - 4 + j, 4) = j
    BY <1>1 DEF Group, Place
<1>4. ASSUME NEW g \in 1 .. n, NEW j \in 1 .. 4
      PROVE  Quad(t, g)[j] = EncodeGroup(p, g)[j]
    BY <1>2, <1>3 DEF Quad
<1>5. ASSUME NEW g \in 1 .. n PROVE GroupOk(Quad(t, g))
    <2>1. 3 * g - 2 <= Len(p) /\ g \in Nat /\ g >= 1
        BY <1>1
    <2> QED
        BY <1>4, <2>1, GroupCoded
<1>6. ASSUME NEW k \in 1 .. 4 * n PROVE t[k] \in Letters \union {Pad}
    <2>1. PICK g, j : g = Group(k, 4) /\ j = Place(k, 4)
        OBVIOUS
    <2>2. g \in Nat /\ j \in 1 .. 4 /\ k = 4 * (g - 1) + j
        BY <2>1, Groups
    <2>3. g \in 1 .. n /\ k = 4 * g - 4 + j
        BY <1>1, <2>2
    <2>4. Quad(t, g)[j] = t[k]
        BY <2>2, <2>3 DEF Quad
    <2>5. Quad(t, g)[1] \in Letters /\ Quad(t, g)[2] \in Letters
          /\ Quad(t, g)[3] \in Letters \union {Pad} /\ Quad(t, g)[4] \in Letters \union {Pad}
        BY <1>5, <2>3 DEF GroupOk
    <2>6. j = 1 \/ j = 2 \/ j = 3 \/ j = 4
        BY <2>2
    <2> QED
        BY <2>4, <2>5, <2>6
<1>7. t = [k \in 1 .. 4 * n |-> t[k]]
    BY <1>2
<1>8. DOMAIN t = 1 .. 4 * n /\ 4 * n \in Nat
    BY <1>1, <1>2
<1>9. Len(t) = 4 * n
    BY <1>7, <1>8
<1>10. Stripped(t) = t
    <2>1. {k \in DOMAIN t : t[k] \notin Spaces} = 1 .. 4 * n
        BY <1>6, <1>8, Alphabet
    <2>2. Kept(t, 1 .. 4 * n) = t
        BY <1>7, <1>8, PrefixKept
    <2> QED
        BY <2>1, <2>2 DEF Stripped
<1>11. IsBase64(t)
    <2>1. (4 * n) % 4 = 0 /\ (4 * n) \div 4 = n
        BY <1>1
    <2> QED
        BY <1>5, <1>9, <1>10, <2>1 DEF IsBase64
<1> QED
    BY <1>1, <1>4, <1>7, <1>9, <1>10, <1>11

(* What safe_b64_decode makes of a stored message is the message, of any   *)
(* length and of any bytes.                                                *)
THEOREM CodingIsExact == ASSUME NEW p \in Seq(Byte) PROVE SafeDecode(Encode(p)) = p
<1>1. PICK t, n : t = Encode(p) /\ n = Group(Len(p), 3)
    OBVIOUS
<1>2. /\ n \in Nat /\ Stripped(t) = t /\ IsBase64(t) /\ Len(t) = 4 * n
      /\ \A g \in 1 .. n : /\ 3 * g - 2 <= Len(p)
                           /\ \A j \in 1 .. 4 : Quad(t, g)[j] = EncodeGroup(p, g)[j]
    BY <1>1, TextCoded
<1>3. (4 * n) \div 4 = n
    BY <1>2
<1> DEFINE Decode(i) == DecodeGroup(Quad(t, Group(i, 3)))[Place(i, 3)]
<1> DEFINE There(i) == Quad(t, Group(i, 3))[Place(i, 3) + 1] # Pad
<1>4. ASSUME NEW i \in 1 .. 3 * n
      PROVE  IF i <= Len(p) THEN There(i) /\ Decode(i) = p[i] ELSE ~There(i)
    <2>1. PICK g, j : g = Group(i, 3) /\ j = Place(i, 3)
        OBVIOUS
    <2>2. g \in Nat /\ j \in 1 .. 3 /\ i = 3 * (g - 1) + j
        <3>1. i \in Nat
            BY <1>2
        <3> QED
            BY <2>1, <3>1, Groups
    <2>3. g \in 1 .. n
        BY <1>2, <2>2
    <2>4. g >= 1 /\ 3 * g - 2 <= Len(p) /\ \A m \in 1 .. 4 : Quad(t, g)[m] = EncodeGroup(p, g)[m]
        BY <1>2, <2>3
    <2>5. PICK q : q = Quad(t, g)
        OBVIOUS
    <2>6. /\ GroupOk(q) /\ DecodeGroup(q)[1] = p[3 * g - 2]
          /\ IF 3 * g - 1 <= Len(p) THEN q[3] # Pad /\ DecodeGroup(q)[2] = p[3 * g - 1] ELSE q[3] = Pad
          /\ IF 3 * g <= Len(p) THEN q[4] # Pad /\ DecodeGroup(q)[3] = p[3 * g] ELSE q[4] = Pad
        BY <2>2, <2>4, <2>5, GroupCoded
    <2>7. q[2] # Pad
        BY <2>6, Alphabet DEF GroupOk
    <2>8. There(i) = (q[j + 1] # Pad) /\ Decode(i) = DecodeGroup(q)[j]
        BY <2>1, <2>5
    <2>9. CASE j = 1
        BY <2>2, <2>4, <2>6, <2>7, <2>8, <2>9
    <2>10. CASE j = 2
        <3>1. i = 3 * g - 1 /\ j + 1 = 3
            BY <2>2, <2>10
        <3> QED
            BY <2>6, <2>8, <2>10, <3>1
    <2>11. CASE j = 3
        <3>1. i = 3 * g /\ j + 1 = 4
            BY <2>2, <2>11
        <3> QED
            BY <2>6, <2>8, <2>11, <3>1
    <2> QED
        BY <2>2, <2>9, <2>10, <2>11
<1>5. Len(p) \in Nat /\ Len(p) <= 3 * n
    <2>1. Len(p) \in Nat
        OBVIOUS
    <2>2. n \in Nat /\ Place(Len(p), 3) \in 1 .. 3 /\ Len(p) = 3 * (n - 1) + Place(Len(p), 3)
        BY <1>1, <2>1, Groups
    <2> QED
        BY <2>1, <2>2
<1>6. {i \in 1 .. 3 * n : There(i)} = 1 .. Len(p)
    <2> HIDE DEF There, Decode
    <2> QED
        BY <1>2, <1>4, <1>5
<1> DEFINE bytes == [i \in 1 .. 3 * n |-> Decode(i)]
<1>7. Decoded(t) = Kept(bytes, {i \in 1 .. 3 * n : There(i)})
    BY <1>2, <1>3 DEF Decoded
<1>8. [k \in 1 .. Len(p) |-> bytes[k]] = p
    <2>1. \A k \in 1 .. Len(p) : bytes[k] = p[k]
        <3> HIDE DEF There, Decode
        <3> QED
            BY <1>2, <1>4, <1>5
    <2>2. p = [k \in 1 .. Len(p) |-> p[k]]
        OBVIOUS
    <2> HIDE DEF bytes
    <2> QED
        BY <2>1, <2>2
<1>9. Kept(bytes, 1 .. Len(p)) = [k \in 1 .. Len(p) |-> bytes[k]]
    <2> HIDE DEF bytes
    <2> QED
        BY <1>5, PrefixKept
<1> HIDE DEF bytes, There, Decode
<1>10. Decoded(t) = p
    BY <1>6, <1>7, <1>8, <1>9
<1> QED
    BY <1>1, <1>2, <1>10 DEF SafeDecode

(* What a history call returns is what was sent, byte by byte.             *)
THEOREM ReadsAreExact == Spec => []ReadAsSent
<1>1. RoundTrip
    BY CodingIsExact, PayloadsAssumption DEF RoundTrip, Byte
<1>2. ReadAsSent
    BY <1>1 DEF ReadAsSent
<1> QED
    BY <1>2, PTL

-----------------------------------------------------------------------------
(***************************************************************************)
(* The tables implement the logs.                                          *)
(***************************************************************************)
Entry(m) == [id |-> m.id, sender |-> m.sender]
View(k) == {Entry(m) : m \in Stored(k)}
Views == [k \in Keys |-> View(k)]

LEMMA StoredDef ==
    \A k, m : m \in Stored(k) <=> m \in msgs /\ \E c \in convs : c.title = k /\ m.conv = c.id
BY DEF Stored, Titled

LEMMA StoredDefNext ==
    \A k, m : m \in Stored(k)' <=> m \in msgs' /\ \E c \in convs' : c.title = k /\ m.conv = c.id
BY DEF Stored, Titled

\* A table that holds the same messages under every key.
LEMMA SameViews == ASSUME \A k \in Keys : Stored(k)' = Stored(k) PROVE Views' = Views
<1>1. \A k \in Keys : View(k)' = View(k)
    BY DEF View
<1> QED
    BY <1>1 DEF Views

LEMMA MessagePosts ==
    ASSUME Rows, Tables, NEW k \in Keys, NEW u \in users, NEW c \in ConvIds, InsertMessage(k, u, c)
    PROVE  /\ Views' = [Views EXCEPT ![k] = @ \union {[id |-> lastMsg + 1, sender |-> u]}]
           /\ \A j \in Keys : \A x \in View(j) : x.id < lastMsg + 1
<1>0. PICK new : new = [id |-> lastMsg + 1, conv |-> c, sender |-> u]
    OBVIOUS
<1>1. new.conv = c /\ Entry(new) = [id |-> lastMsg + 1, sender |-> u]
    BY <1>0 DEF Entry
<1>2. msgs' = msgs \union {new} /\ lastMsg \in Nat
    BY <1>0, Inserted DEF Rows
<1>3. \A m \in msgs : m.id \in Nat /\ m.id <= lastMsg
    BY RowsParts DEF Tables
<1>4. /\ \E r \in convs' : r.id = c /\ r.title = k
      /\ \A r \in convs' : r.id = c => r.title = k
      /\ \A m \in msgs : \A r : m.conv = r.id => (r \in convs' <=> r \in convs)
    <2>1. CASE /\ convs' = convs /\ \E r \in convs : r.id = c /\ r.title = k
        BY <2>1 DEF Tables
    <2>2. CASE convs' = convs \union {[id |-> c, title |-> k, type |-> "private"]} /\ ~Exists(c)
        <3>1. \A m \in msgs : m.conv # c
            BY <2>2 DEF Rows
        <3>2. \A r \in convs : r.id # c
            BY <2>2 DEF Exists
        <3>3. PICK r : r = [id |-> c, title |-> k, type |-> "private"]
            OBVIOUS
        <3>4. convs' = convs \union {r} /\ r.id = c /\ r.title = k
            BY <2>2, <3>3
        <3> QED
            BY <3>1, <3>2, <3>4
    <2> QED
        BY <2>1, <2>2, Inserted
<1>5. ASSUME NEW j \in Keys PROVE Stored(j)' = IF j = k THEN Stored(j) \union {new} ELSE Stored(j)
    <2>1. \A m \in msgs : m \in Stored(j)' <=> m \in Stored(j)
        BY <1>2, <1>4, StoredDef, StoredDefNext
    <2>2. new \in Stored(j)' <=> j = k
        BY <1>1, <1>2, <1>4, StoredDefNext
    <2>3. Stored(j)' \subseteq msgs \union {new} /\ Stored(j) \subseteq msgs
        BY <1>2, StoredDef, StoredDefNext
    <2>4. new \notin msgs
        BY <1>0, <1>2, <1>3
    <2> QED
        BY <2>1, <2>2, <2>3, <2>4
<1>6. ASSUME NEW j \in Keys
      PROVE  View(j)' = IF j = k THEN View(j) \union {Entry(new)} ELSE View(j)
    BY <1>5 DEF View
<1>7. Views' = [Views EXCEPT ![k] = @ \union {Entry(new)}]
    BY <1>6 DEF Views
<1>8. \A j \in Keys : \A x \in View(j) : x.id < lastMsg + 1
    <2>1. \A j \in Keys : Stored(j) \subseteq msgs
        BY StoredDef
    <2> QED
        BY <1>2, <1>3, <2>1 DEF View, Entry
<1> QED
    BY <1>1, <1>7, <1>8

LEMMA RowDrops ==
    ASSUME Rows, Tables, NEW c \in ConvIds, DropRow(c)
    PROVE  Views' = Views \/ \E k \in Keys : Views' = [Views EXCEPT ![k] = {}]
<1>1. convs' = {r \in convs : r.id # c} /\ msgs' = {m \in msgs : m.conv # c}
    BY DEF DropRow, DeleteRow
<1>2. ASSUME NEW j \in Keys, \A r \in convs : r.id = c => r.title # j
      PROVE  Stored(j)' = Stored(j)
    <2>1. \A m : m \in Stored(j) => m \in Stored(j)'
        BY <1>1, <1>2, StoredDef, StoredDefNext
    <2>2. \A m : m \in Stored(j)' => m \in Stored(j)
        BY <1>1, StoredDef, StoredDefNext
    <2> QED
        BY <2>1, <2>2
<1>3. CASE \A r \in convs : r.id = c => r.title \notin Keys
    BY <1>2, <1>3, SameViews
<1>4. ASSUME NEW r \in convs, r.id = c, r.title \in Keys
      PROVE  Views' = [Views EXCEPT ![r.title] = {}]
    <2>1. \A m : m \notin Stored(r.title)'
        BY <1>1, <1>4, StoredDefNext DEF Tables
    <2>2. \A j \in Keys : j # r.title => Stored(j)' = Stored(j)
        BY <1>2, <1>4 DEF Tables
    <2>3. View(r.title)' = {} /\ \A j \in Keys : j # r.title => View(j)' = View(j)
        BY <1>4, <2>1, <2>2 DEF View
    <2> QED
        BY <1>4, <2>3 DEF Views
<1> QED
    BY <1>3, <1>4

LEMMA UserForgotten ==
    ASSUME Rows, NEW u \in Users, DeleteUser(u)
    PROVE  Views' = [k \in Keys |-> {Log!Anonymous(x, u) : x \in Views[k]}]
<1> DEFINE Left(m) == IF m.sender = u THEN [m EXCEPT !.sender = Nobody] ELSE m
<1>1. msgs' = {Left(m) : m \in msgs} /\ convs' = convs
    BY DEF DeleteUser
<1>2. ASSUME NEW m \in msgs
      PROVE  Left(m).conv = m.conv /\ Entry(Left(m)) = Log!Anonymous(Entry(m), u)
    <2>1. m \in Message
        BY DEF Rows
    <2>2. CASE m.sender = u
        <3>1. Left(m) = [id |-> m.id, conv |-> m.conv, sender |-> Nobody]
            BY <2>1, <2>2 DEF Message
        <3>2. Log!Anonymous(Entry(m), u) = [id |-> m.id, sender |-> Nobody]
            BY <2>2 DEF Log!Anonymous, Entry
        <3> QED
            BY <3>1, <3>2 DEF Entry
    <2>3. CASE m.sender # u
        BY <2>3 DEF Log!Anonymous, Entry
    <2> QED
        BY <2>2, <2>3
<1> HIDE DEF Left
<1>3. ASSUME NEW k \in Keys PROVE View(k)' = {Log!Anonymous(x, u) : x \in View(k)}
    <2>1. \A m \in msgs : Left(m) \in Stored(k)' <=> m \in Stored(k)
        BY <1>1, <1>2, StoredDef, StoredDefNext
    <2>2. \A n \in Stored(k)' : \E m \in Stored(k) : n = Left(m)
        BY <1>1, <2>1, StoredDefNext
    <2>3. \A m \in Stored(k) : m \in msgs /\ Left(m) \in Stored(k)'
        BY <2>1, StoredDef
    <2>4. Stored(k)' = {Left(m) : m \in Stored(k)}
        BY <2>2, <2>3
    <2>5. View(k)' = {Entry(Left(m)) : m \in Stored(k)}
        BY <2>4 DEF View
    <2>6. \A m \in Stored(k) : Entry(Left(m)) = Log!Anonymous(Entry(m), u)
        BY <1>2, <2>3
    <2> QED
        BY <2>5, <2>6 DEF View
<1> QED
    BY <1>3 DEF Views

LEMMA LogStep == MInv /\ Writes => Views' = Views \/ Log!Next
<1> SUFFICES ASSUME MInv, Writes PROVE Views' = Views \/ Log!Next
    OBVIOUS
<1>0. Rows /\ Tables
    BY TypeParts DEF MInv
<1>1. ASSUME NEW k \in Keys, NEW u \in users, NEW c \in ConvIds, NewMessage(k, u, c)
      PROVE  Log!Next
    <2>1. PICK i : i = lastMsg + 1
        OBVIOUS
    <2>2. InsertMessage(k, u, c) /\ i \in MsgIds /\ u \in Users
        BY <1>0, <1>1, <2>1, Inserted DEF NewMessage, Rows
    <2>3. /\ Views' = [Views EXCEPT ![k] = @ \union {[id |-> i, sender |-> u]}]
          /\ \A j \in Keys : \A x \in View(j) : x.id < i
        BY <1>0, <2>1, <2>2, MessagePosts
    <2>4. \A x \in UNION {Views[j] : j \in Keys} : x.id < i
        BY <2>3 DEF Views
    <2>5. Log!Post(k, [id |-> i, sender |-> u])
        BY <2>3, <2>4 DEF Log!Post, Log!Stored, Views, View, Entry
    <2> QED
        BY <2>2, <2>5 DEF Log!Next
<1>2. ASSUME NEW c \in ConvIds, DropRow(c)
      PROVE  Views' = Views \/ Log!Next
    <2>1. CASE \E k \in Keys : Views' = [Views EXCEPT ![k] = {}]
        BY <2>1 DEF Log!Next, Log!Drop, Views, View, Entry
    <2> QED
        BY <1>0, <1>2, <2>1, RowDrops
<1>3. ASSUME NEW u \in Users, DeleteUser(u)
      PROVE  Log!Next
    <2>1. Log!Forget(u)
        BY <1>0, <1>3, UserForgotten DEF Log!Forget, Views, View, Entry
    <2> QED
        BY <2>1 DEF Log!Next
<1>4. CASE InsertGroup
    <2>1. convs' = convs \union {[id |-> lastConv + 1, title |-> Typed, type |-> "group"]} /\ msgs' = msgs
        BY <1>4 DEF InsertGroup
    <2>2. PICK r : r = [id |-> lastConv + 1, title |-> Typed, type |-> "group"]
        OBVIOUS
    <2>3. convs' = convs \union {r} /\ msgs' = msgs /\ r.title \notin Keys
        BY <2>1, <2>2, Constants
    <2>4. ASSUME NEW k \in Keys, NEW m PROVE m \in Stored(k)' <=> m \in Stored(k)
        BY <2>3, StoredDef, StoredDefNext
    <2>5. \A k \in Keys : Stored(k)' = Stored(k)
        BY <2>4
    <2> QED
        BY <2>5, SameViews
<1>5. CASE \/ UNCHANGED <<users, rows, told>> \/ \E t \in Threads : LastParticipant(t)
           \/ \E u \in Users, c \in ConvIds : NewParticipant(u, c)
    <2>1. convs' = convs /\ msgs' = msgs
        BY <1>5 DEF rows, NewParticipant, LastParticipant, InsertParticipant
    <2>2. \A k \in Keys : Stored(k)' = Stored(k)
        BY <2>1 DEF Stored, Titled
    <2> QED
        BY <2>2, SameViews
<1> QED
    BY <1>1, <1>2, <1>3, <1>4, <1>5 DEF Writes

(* The tables implement one log for every key: nothing that is created,    *)
(* retried, deleted or lost on the way reorders, repeats under another key *)
(* or brings back a message.                                               *)
THEOREM TablesAreLogs == Spec => ImplementsLog
<1>1. Init => Log!Init
    BY DEF Init, Log!Init, Stored
<1>2. MInv /\ [Next]_vars => Views' = Views \/ Log!Next
    BY OneWrite, LogStep DEF MInv
<1>3. MInv /\ [Next]_vars =>
          [Log!Next]_([k \in Keys |-> {[id |-> m.id, sender |-> m.sender] : m \in Stored(k)}])
    BY <1>2 DEF Views, View, Entry
<1> QED
    BY <1>1, <1>3, Inductive, PTL DEF Spec, ImplementsLog, Log!Spec

=============================================================================
