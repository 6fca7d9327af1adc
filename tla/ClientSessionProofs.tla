------------------------ MODULE ClientSessionProofs ------------------------
(***************************************************************************)
(* ClientSession for any users, conversations, messages and bounds.        *)
(***************************************************************************)
EXTENDS ClientSession, TLAPS

\* What a request is about, and whose token it bears.
Shape(r) ==
    /\ r.op \in {"login", "logout", "rooms"} => r.stage = "first"
    /\ r.op = "login" =>
           r.arg \in Users /\ (r.ans = "ok" => r.tok \in Sessions /\ owner[r.tok] = r.arg)
    /\ r.op = "messages" => r.arg \in Convs
    /\ r.op = "send" => r.arg \in [conv : Convs, id : Sends, by : Users]
    /\ r.op = "rooms" => r.arg \in Users
    /\ r.stage = "refresh" => r.tok \in Sessions
    /\ r.ans = "ok" => r.tok \in Sessions /\ owner[r.tok] # None
    /\ r.ans = "misread" => r.stage = "refresh"

Shapes == \A r \in net : Shape(r)

\* messaging_service has the message of r.
Done(r) == r.ans = "ok" /\ r.stage # "refresh"

IsSend(r) == r.op = "send"

\* One request carries a message, and until it was accepted the message was not
\* handed on.
Once ==
    /\ \A r \in net : IsSend(r) => r.arg.id \in typed
    /\ \A r, q \in net : IsSend(r) /\ IsSend(q) /\ r.arg.id = q.arg.id => r = q
    /\ \A i \in Sends : handled[i] <= 1 /\ (i \notin typed => handled[i] = 0)
    /\ \A r \in net : IsSend(r) /\ ~Done(r) => handled[r.arg.id] = 0

\* Calls that are of the user who is logged in.
Own(r) == r.op \notin {"login", "logout"}

Mine(r) ==
    /\ r.tok \in Sessions /\ owner[r.tok] = who
    /\ r.op = "send" => r.arg.by = who
    /\ r.op = "rooms" => r.arg = who
    /\ r.stage = "refresh" => r.tok = refresh

\* What the client holds is of one user, or there is nothing.
Held ==
    /\ me \in {who, None} /\ contacts \subseteq {who} /\ \A c \in Convs : cache[c] \subseteq {who}
    /\ who = None => access = None /\ refresh = None /\ contacts = {} /\ \A c \in Convs : cache[c] = {}
    /\ who # None => {access, refresh} \subseteq Sessions /\ owner[access] = who /\ owner[refresh] = who

Asked ==
    /\ \A r \in net : r.op = "login" => who = None
    /\ \A r, q \in net : r.op = "login" /\ q.op = "login" => r = q
    /\ \A r \in net : Own(r) => who # None /\ Mine(r)

Apart == ~late => Held /\ Asked

SInv == TypeOK /\ Shapes /\ Once /\ Apart

\* TypeOK but for the requests.
Fields ==
    /\ who \in Users \union {None}
    /\ access \in Sessions \union {None} /\ refresh \in Sessions \union {None}
    /\ me \in Users \union {None}
    /\ pending \in Convs \union {None}
    /\ contacts \subseteq Users /\ cache \in [Convs -> SUBSET Users]
    /\ typed \subseteq Sends
    /\ owner \in [Sessions -> Users \union {None}]
    /\ valid \subseteq {s \in Sessions : owner[s] # None}
    /\ handled \in [Sends -> Nat]
    /\ late \in BOOLEAN
    /\ who # None => refresh # None /\ access # None

\* A request of the user who is logged in, if requests are kept apart.
Fits(q) ==
    /\ q \in Request /\ Shape(q)
    /\ ~late => q.op # "login" /\ (Own(q) => who # None /\ Mine(q))

\* A call that is made after an answer.
Call(q, tok) ==
    /\ q \in Request
    /\ q.op \in {"me", "users", "messages"} /\ (q.op = "messages" => q.arg \in Convs)
    /\ q.stage = "first" /\ q.tok = tok /\ q.ans = "none"

-----------------------------------------------------------------------------
\* An opened session keeps its user.
OwnersKept == \A s \in Sessions : owner[s] # None => owner'[s] = owner[s]

LEMMA ShapeKept == ASSUME OwnersKept, NEW r, Shape(r), UsersAssumption PROVE Shape(r)'
    BY DEF OwnersKept, Shape

-----------------------------------------------------------------------------
LEMMA Asks ==
    ASSUME NEW op \in Ops, NEW tok \in Sessions \union {None},
           NEW arg \in Users \union Convs \union {None}
    PROVE  Ask(op, arg, tok) \in Request
BY DEF Ask, Request

LEMMA MeCall ==
    ASSUME NEW tok \in Sessions \union {None}, NEW known, NEW q \in MeRequest(tok, known)
    PROVE  Call(q, tok) /\ tok # None
<1>1. q = Ask("me", None, tok) /\ tok # None
    BY DEF MeRequest
<1>2. Ask("me", None, tok) \in Request
    BY Asks DEF Ops
<1> QED
    BY <1>1, <1>2 DEF Call, Ask

LEMMA ContactsCall ==
    ASSUME NEW tok \in Sessions \union {None}, NEW q \in Contacts(tok)
    PROVE  Call(q, tok)
<1>1. q = Ask("users", None, tok)
    BY DEF Contacts
<1>2. Ask("users", None, tok) \in Request
    BY Asks DEF Ops, Retried
<1> QED
    BY <1>1, <1>2 DEF Call, Ask

LEMMA MessagesCall ==
    ASSUME NEW tok \in Sessions \union {None}, NEW known, NEW c \in Convs,
           NEW q \in Messages(c, tok, known)
    PROVE  Call(q, tok)
<1>1. CASE q = Ask("messages", c, tok)
    <2>1. Ask("messages", c, tok) \in Request
        BY Asks DEF Ops, Retried
    <2> QED
        BY <1>1, <2>1 DEF Call, Ask
<1>2. CASE q \in MeRequest(tok, known)
    BY <1>2, MeCall
<1> QED
    BY <1>1, <1>2 DEF Messages

\* A call with a token of the user who is logged in fits.
LEMMA CallFits ==
    ASSUME NEW q, NEW tok, Call(q, tok),
           ~late' => who' # None /\ tok \in Sessions /\ owner'[tok] = who'
    PROVE  Fits(q)'
BY DEF Call, Fits, Shape, Mine, Own

-----------------------------------------------------------------------------
LEMMA OnceKept ==
    ASSUME Once, typed' = typed, handled' = handled, \A q \in net' \ net : ~IsSend(q)
    PROVE  Once'
BY DEF Once, IsSend, Done

\* The call r goes on as q.
LEMMA OnceMoved ==
    ASSUME Once, typed' = typed, handled' = handled, NEW r \in net, NEW q,
           \A x \in net' : IsSend(x) => x = q \/ x \in net \ {r},
           q.op = r.op, q.arg = r.arg, ~Done(r)
    PROVE  Once'
BY DEF Once, IsSend, Done

LEMMA HeldKept ==
    ASSUME TypeOK, Held, OwnersKept, UNCHANGED <<who, tokens, caches>>
    PROVE  Held'
BY UsersAssumption DEF TypeOK, Held, OwnersKept, tokens, caches

\* Most steps leave the user who is logged in as he is.
LEMMA Step ==
    ASSUME SInv, OwnersKept, Fields', Once', ~late => Held',
           UNCHANGED <<who, refresh, late>>,
           \A q \in net' \ net : Fits(q)'
    PROVE  SInv'
<1>1. \A r \in net : Shape(r)'
    BY ShapeKept, UsersAssumption DEF SInv, Shapes
<1>2. TypeOK'
    BY DEF SInv, TypeOK, Fields, Fits
<1>3. Shapes'
    BY <1>1 DEF Shapes, Fits
<1>4. ASSUME ~late PROVE Asked'
    <2>1. \A r \in net : Own(r) => who' # None /\ Mine(r)'
        <3> SUFFICES ASSUME NEW r \in net, Own(r) PROVE who' # None /\ Mine(r)'
            OBVIOUS
        <3>1. who # None /\ Mine(r)
            BY <1>4 DEF SInv, Apart, Asked
        <3> QED
            BY <3>1 DEF Mine, OwnersKept
    <2>2. \A r \in net' : Own(r) => who' # None /\ Mine(r)'
        BY <1>4, <2>1 DEF Fits
    <2>3. \A r \in net' : r.op = "login" => r \in net
        BY <1>4 DEF Fits
    <2> QED
        BY <1>4, <2>2, <2>3 DEF SInv, Apart, Asked
<1> QED
    BY <1>2, <1>3, <1>4 DEF SInv, Apart

\* The tokens and the calls of the user who is logged in.
LEMMA Ours ==
    ASSUME SInv, ~late
    PROVE  /\ who # None => {access, refresh} \subseteq Sessions /\ owner[access] = who /\ owner[refresh] = who
           /\ \A r \in net : Own(r) => who # None /\ Mine(r)
BY DEF SInv, Apart, Held, Asked

LEMMA Quiet ==
    ASSUME SInv, UNCHANGED <<client, owner, handled>>, valid' \subseteq valid, Once',
           \A q \in net' \ net : Fits(q)'
    PROVE  SInv'
<1>1. OwnersKept
    BY DEF OwnersKept
<1>2. Fields'
    BY DEF SInv, TypeOK, Fields, client, tokens, caches
<1>3. ~late => Held'
    BY <1>1, HeldKept DEF SInv, Apart, client
<1> QED
    BY <1>1, <1>2, <1>3, Step DEF client, tokens

LEMMA Dropped ==
    ASSUME SInv, UNCHANGED <<client, owner, handled>>, valid' \subseteq valid, net' \subseteq net
    PROVE  SInv'
<1>1. Once'
    BY OnceKept DEF SInv, client
<1> QED
    BY <1>1, Quiet

\* A call that was not accepted goes on as q.
LEMMA Moved ==
    ASSUME SInv, UNCHANGED <<client, owner, handled>>, valid' \subseteq valid,
           NEW r \in net, ~Done(r), NEW q, q.op = r.op, q.arg = r.arg,
           net' \subseteq (net \ {r}) \union {q}, Fits(q)'
    PROVE  SInv'
<1>1. Once'
    BY OnceMoved DEF SInv, client
<1> QED
    BY <1>1, Quiet

LEMMA ServeKeeps == ASSUME SInv, NEW r \in net, Serve(r) PROVE SInv'
<1> USE DEF SInv
<1>1. CASE Lost(r)
    BY <1>1, Dropped DEF Lost, Handled, Becomes, gateway
<1>2. CASE RevokeSessions(r)
    BY <1>2, Dropped DEF RevokeSessions, Handled, Becomes
<1>3. CASE Renew(r)
    <2> PICK q : q = [r EXCEPT !.ans = "ok"]
        OBVIOUS
    <2>1. r \in Request /\ Shape(r) /\ r.tok \in valid /\ r.stage = "refresh"
        BY <1>3 DEF Renew, TypeOK, Shapes
    <2>2. q \in Request /\ q.op = r.op /\ q.arg = r.arg /\ q.tok = r.tok /\ q.stage = r.stage
        BY <2>1 DEF Request
    <2>3. Shape(q)'
        BY <1>3, <2>1, <2>2 DEF Shape, Renew, gateway, TypeOK
    <2>4. ~late => r.op # "login" /\ (Own(r) => who # None /\ Mine(r))
        BY <2>1, Ours DEF Shape
    <2>5. Fits(q)'
        BY <1>3, <2>2, <2>3, <2>4 DEF Fits, Mine, Own, Renew, client, tokens, gateway
    <2> QED
        BY <1>3, <2>1, <2>2, <2>5, Moved DEF Renew, Accepted, gateway, Done
<1>4. CASE Accept(r)
    <2> PICK q : q = [r EXCEPT !.ans = "ok"]
        OBVIOUS
    <2>1. r \in Request /\ Shape(r) /\ r.tok \in valid /\ r.stage # "refresh" /\ r.ans = "none"
        BY <1>4 DEF Accept, Waiting, TypeOK, Shapes
    <2>2. q \in Request /\ q.op = r.op /\ q.arg = r.arg /\ q.tok = r.tok /\ q.stage = r.stage /\ q.ans = "ok"
        BY <2>1 DEF Request
    <2>3. Shape(q)'
        BY <1>4, <2>1, <2>2 DEF Shape, Accept, TypeOK
    <2>4. ~late => r.op # "login" /\ (Own(r) => who # None /\ Mine(r))
        BY <1>4, Ours DEF Accept
    <2>5. Fits(q)'
        BY <1>4, <2>2, <2>3, <2>4 DEF Fits, Mine, Own, Accept, client, tokens
    <2>6. Once' /\ handled' \in [Sends -> Nat]
        <3>1. CASE ~IsSend(r)
            BY <1>4, <2>2, <3>1, OnceKept DEF Accept, Accepted, IsSend, client, TypeOK
        <3>2. CASE IsSend(r)
            <4> PICK i : i = r.arg.id
                OBVIOUS
            <4>1. i \in Sends /\ handled[i] = 0
                BY <2>1, <3>2 DEF Shape, IsSend, Once, Done
            <4>2. handled' = [handled EXCEPT ![i] = handled[i] + 1]
                BY <1>4, <3>2 DEF Accept, IsSend
            <4>3. handled' \in [Sends -> Nat] /\ handled'[i] = 1
                BY <4>1, <4>2 DEF TypeOK
            <4>4. \A j \in Sends \ {i} : handled'[j] = handled[j]
                BY <4>1, <4>2 DEF TypeOK
            <4>5. net' = (net \ {r}) \union {q} /\ typed' = typed
                BY <1>4 DEF Accept, Accepted, client
            <4>6. i \in typed
                BY <3>2 DEF Once
            <4>7. Done(q)
                BY <2>1, <2>2 DEF Done
            <4>8. \A x \in net \ {r} : IsSend(x) => x.arg.id \in Sends \ {i}
                BY <3>2 DEF Once, Shapes, Shape, IsSend
            <4>9. q.arg.id = i /\ IsSend(q)
                BY <2>2, <3>2 DEF IsSend
            <4>10. \A x \in net' : IsSend(x) => x = q \/ (x \in net \ {r} /\ x.arg.id \in Sends \ {i})
                BY <4>5, <4>8
            <4>11. \A x \in net' : IsSend(x) => x.arg.id \in typed'
                BY <4>5, <4>6, <4>9, <4>10 DEF Once
            <4>12. \A x, y \in net' : IsSend(x) /\ IsSend(y) /\ x.arg.id = y.arg.id => x = y
                BY <4>9, <4>10 DEF Once
            <4>13. \A j \in Sends : handled'[j] <= 1 /\ (j \notin typed' => handled'[j] = 0)
                BY <4>1, <4>3, <4>4, <4>5, <4>6 DEF Once
            <4>14. \A x \in net' : IsSend(x) /\ ~Done(x) => handled'[x.arg.id] = 0
                BY <4>4, <4>7, <4>10 DEF Once
            <4> QED
                BY <4>3, <4>11, <4>12, <4>13, <4>14 DEF Once, IsSend, Done
        <3> QED
            BY <3>1, <3>2
    <2>7. OwnersKept /\ UNCHANGED <<who, refresh, late>> /\ (~late => Held')
        BY <1>4, HeldKept DEF Accept, OwnersKept, client, tokens, Apart
    <2>8. Fields'
        BY <1>4, <2>6 DEF Accept, TypeOK, Fields, client, tokens, caches
    <2>9. \A x \in net' \ net : x = q
        BY <1>4 DEF Accept, Accepted
    <2> QED
        BY <2>5, <2>6, <2>7, <2>8, <2>9, Step
<1>5. ASSUME NEW s \in Sessions, OpenSession(r, s) PROVE SInv'
    <2> PICK q : q = [r EXCEPT !.tok = s, !.ans = "ok"]
        OBVIOUS
    <2>1. r \in Request /\ r.op = "login" /\ r.arg \in Users /\ r.stage = "first"
        BY <1>5 DEF OpenSession, TypeOK, Shapes, Shape
    <2>2. q \in Request /\ q.op = "login" /\ q.arg = r.arg /\ q.tok = s /\ q.stage = "first"
        BY <2>1 DEF Request
    <2>3. owner' \in [Sessions -> Users \union {None}] /\ owner'[s] = r.arg /\ OwnersKept
        BY <1>5, <2>1 DEF OpenSession, OwnersKept, TypeOK
    <2>4. Shape(q)'
        BY <2>1, <2>2, <2>3, UsersAssumption DEF Shape
    <2>5. net' = (net \ {r}) \union {q}
        BY <1>5 DEF OpenSession
    <2>6. valid' \subseteq {x \in Sessions : owner'[x] # None}
        BY <1>5, <2>1, <2>3, UsersAssumption DEF OpenSession, TypeOK, OwnersKept
    <2>7. TypeOK'
        BY <1>5, <2>2, <2>3, <2>5, <2>6 DEF OpenSession, TypeOK, client, tokens, caches
    <2>8. Shapes'
        BY <2>3, <2>4, <2>5, ShapeKept, UsersAssumption DEF Shapes
    <2>9. Once'
        BY <1>5, <2>2, <2>5, OnceKept DEF OpenSession, IsSend, client
    <2>10. ASSUME ~late PROVE Held' /\ Asked'
        <3>1. Held'
            BY <1>5, <2>3, <2>10, HeldKept DEF OpenSession, client, Apart
        <3>2. who = None /\ \A x \in net \ {r} : x.op # "login"
            BY <2>1, <2>10 DEF Apart, Asked
        <3>3. \A x \in net : ~Own(x)
            BY <2>10, <3>2 DEF Apart, Asked
        <3>4. who' = None
            BY <1>5, <3>2 DEF OpenSession, client
        <3>5. \A x \in net' : ~Own(x)
            BY <2>2, <2>5, <3>3 DEF Own
        <3> QED
            BY <2>5, <3>1, <3>2, <3>4, <3>5 DEF Asked
    <2> QED
        BY <1>5, <2>7, <2>8, <2>9, <2>10 DEF OpenSession, Apart, client
<1>6. CASE Misread(r)
    <2> PICK q : q = [r EXCEPT !.ans = "misread"]
        OBVIOUS
    <2>1. r \in Request /\ Shape(r) /\ r.stage = "refresh"
        BY <1>6 DEF Misread, TypeOK, Shapes
    <2>2. q \in Request /\ q.op = r.op /\ q.arg = r.arg /\ q.tok = r.tok /\ q.stage = r.stage
                       /\ q.ans = "misread"
        BY <2>1 DEF Request
    <2>3. Shape(q)'
        BY <1>6, <2>1, <2>2 DEF Shape, Misread, gateway
    <2>4. ~late => r.op # "login" /\ (Own(r) => who # None /\ Mine(r))
        BY <2>1, Ours DEF Shape
    <2>5. Fits(q)'
        BY <1>6, <2>2, <2>3, <2>4 DEF Fits, Mine, Own, Misread, client, tokens, gateway
    <2> QED
        BY <1>6, <2>1, <2>2, <2>5, Moved DEF Misread, gateway, Done
<1> QED
    BY <1>1, <1>2, <1>3, <1>4, <1>5, <1>6 DEF Serve

\* A login brings the user and his session.
LEMMA LoggedInKeeps == ASSUME SInv, NEW r \in net, LoggedIn(r) PROVE SInv'
<1> USE DEF SInv
<1>1. r.op = "login" /\ r.arg \in Users /\ r.tok \in Sessions /\ owner[r.tok] = r.arg
    BY DEF LoggedIn, Answered, Shapes, Shape
<1>2. UNCHANGED <<caches, pending, typed, late, gateway>> /\ who' = r.arg /\ access' = r.tok /\ refresh' = r.tok
    BY DEF LoggedIn
<1>3. \A q \in net' \ net : Call(q, r.tok)
    BY <1>1, MeCall, ContactsCall DEF LoggedIn, Handled, Becomes
<1>4. net' \subseteq (net \ {r}) \union (net' \ net)
    BY <1>1, MeCall, ContactsCall DEF LoggedIn, Handled, Becomes, Call
<1>5. TypeOK'
    <2>1. None \notin Sessions /\ None \notin Users
        BY UsersAssumption DEF Sessions
    <2>2. net' \subseteq Request
        BY <1>3 DEF TypeOK, Call
    <2> QED
        BY <1>1, <1>2, <2>1, <2>2 DEF TypeOK, caches, gateway
<1>6. Shapes'
    <2>1. \A q \in net : Shape(q)'
        BY <1>2, ShapeKept, UsersAssumption DEF OwnersKept, Shapes, gateway
    <2> QED
        BY <1>3, <2>1 DEF Shapes, Shape, Call
<1>7. Once'
    BY <1>2, <1>3, OnceKept DEF Call, IsSend, gateway
<1>8. ASSUME ~late PROVE Held' /\ Asked'
    <2>1. who = None /\ \A x \in net \ {r} : x.op # "login"
        BY <1>1, <1>8 DEF Apart, Asked
    <2>2. \A x \in net : ~Own(x)
        BY <1>8, <2>1 DEF Apart, Asked
    <2>3. Held'
        BY <1>1, <1>2, <1>8, <2>1, UsersAssumption DEF Apart, Held, caches, gateway
    <2>4. \A x \in net' : x.op # "login" /\ (Own(x) => Call(x, r.tok))
        BY <1>3, <1>4, <2>1, <2>2 DEF Call
    <2>5. \A x \in net' : Own(x) => who' # None /\ Mine(x)'
        BY <1>1, <1>2, <2>4, UsersAssumption DEF Call, Mine, gateway
    <2> QED
        BY <2>3, <2>4, <2>5 DEF Asked
<1> QED
    BY <1>2, <1>5, <1>6, <1>7, <1>8 DEF Apart

\* The answers that change what is shown.
LEMMA ShownKeeps ==
    ASSUME SInv, NEW r \in net, MeArrives(r) \/ RoomsArrive(r) \/ MessagesArrive(r) \/ SendAnswered(r)
    PROVE  SInv'
<1> USE DEF SInv
<1>1. r \in Request /\ Shape(r)
    BY DEF TypeOK, Shapes
<1>2. UNCHANGED <<who, tokens, typed, late, gateway>> /\ OwnersKept
    BY DEF MeArrives, RoomsArrive, MessagesArrive, SendAnswered, caches, gateway, OwnersKept
<1>3. Own(r)
    BY DEF MeArrives, RoomsArrive, MessagesArrive, SendAnswered, Own
<1>4. ~late => who # None /\ Mine(r) /\ access \in Sessions /\ owner[access] = who /\ who \in Users
    BY <1>3, Ours DEF TypeOK
<1>5. ASSUME r.ans = "ok" PROVE r.tok \in Sessions /\ owner[r.tok] \in Users
    BY <1>1, <1>5 DEF Shape, TypeOK
<1>6. \A q \in net' \ net : Call(q, access)
    <2>0. access \in Sessions \union {None}
        BY DEF TypeOK
    <2>1. CASE MeArrives(r)
        <3> PICK k : k = me'
            OBVIOUS
        <3>1. pending # None => pending \in Convs
            BY DEF TypeOK
        <3> QED
            BY <2>0, <2>1, <3>1, MessagesCall DEF MeArrives, Handled, Becomes
    <2>2. CASE SendAnswered(r)
        <3>1. r.arg.conv \in Convs
            BY <1>1, <2>2 DEF Shape, SendAnswered
        <3> QED
            BY <2>0, <2>2, <3>1, MessagesCall, ContactsCall DEF SendAnswered, Handled, Becomes
    <2> QED
        BY <2>1, <2>2 DEF RoomsArrive, MessagesArrive, Handled, Becomes
<1>7. \A q \in net' \ net : Fits(q)'
    BY <1>2, <1>4, <1>6, CallFits DEF gateway
<1>8. Once'
    BY <1>2, <1>6, OnceKept DEF Call, IsSend, gateway
<1>9. Fields' /\ (~late => Held')
    <2>1. CASE MeArrives(r)
        <3>1. me' = owner[r.tok] /\ UNCHANGED <<contacts, cache, pending>>
            BY <2>1 DEF MeArrives, MeAnswer
        <3>2. owner[r.tok] \in Users
            BY <1>5, <2>1 DEF MeArrives, Answered
        <3>3. Fields'
            BY <1>2, <3>1, <3>2 DEF TypeOK, Fields, tokens, gateway
        <3>4. ~late => Held'
            BY <1>2, <1>4, <3>1 DEF Apart, Held, Mine, tokens, gateway
        <3> QED
            BY <3>3, <3>4
    <2>2. CASE RoomsArrive(r)
        <3>1. UNCHANGED <<me, cache, pending>>
            BY <2>2 DEF RoomsArrive
        <3>2. \A u \in contacts' : u = r.arg \/ (r.ans = "ok" /\ u = owner[r.tok])
            BY <2>2 DEF RoomsArrive
        <3>3. r.arg \in Users
            BY <1>1, <2>2 DEF Shape, RoomsArrive
        <3>4. contacts' \subseteq Users
            BY <1>5, <3>2, <3>3
        <3>5. Fields'
            BY <1>2, <3>1, <3>4 DEF TypeOK, Fields, tokens, gateway
        <3>6. ASSUME ~late PROVE contacts' \subseteq {who}
            BY <1>4, <2>2, <3>2, <3>6 DEF Mine, RoomsArrive
        <3>7. ~late => Held'
            BY <1>2, <1>4, <3>1, <3>6 DEF Apart, Held, tokens, gateway
        <3> QED
            BY <3>5, <3>7
    <2>3. CASE MessagesArrive(r)
        <3>1. UNCHANGED <<me, contacts, pending>> /\ cache' = [cache EXCEPT ![r.arg] = {owner[r.tok], me} \ {None}]
            BY <2>3 DEF MessagesArrive
        <3>2. r.arg \in Convs /\ owner[r.tok] \in Users
            BY <1>1, <1>5, <2>3 DEF Shape, MessagesArrive, Answered
        <3>3. cache' \in [Convs -> SUBSET Users]
            BY <3>1, <3>2 DEF TypeOK
        <3>4. Fields'
            BY <1>2, <3>1, <3>3 DEF TypeOK, Fields, tokens, gateway
        <3>5. ASSUME ~late PROVE \A c \in Convs : cache'[c] \subseteq {who}
            BY <1>4, <3>1, <3>2, <3>5 DEF Apart, Held, Mine, TypeOK
        <3>6. ~late => Held'
            BY <1>2, <1>4, <3>1, <3>5 DEF Apart, Held, tokens, gateway
        <3> QED
            BY <3>4, <3>6
    <2>4. CASE SendAnswered(r)
        <3>1. r.arg.conv \in Convs
            BY <1>1, <2>4 DEF Shape, SendAnswered
        <3>2. Fields'
            BY <2>4, <3>1 DEF SendAnswered, TypeOK, Fields, tokens, caches, gateway
        <3>3. ~late => Held'
            BY <1>2, <2>4, HeldKept DEF SendAnswered, Apart
        <3> QED
            BY <3>2, <3>3
    <2> QED
        BY <2>1, <2>2, <2>3, <2>4
<1> QED
    BY <1>2, <1>7, <1>8, <1>9, Step DEF tokens

\* The answers that only ask for more, and the errors.
LEMMA AskedKeeps ==
    ASSUME SInv, NEW r \in net, UsersArrive(r) \/ AdminAnswered(r) \/ AskRefresh(r) \/ GiveUp(r)
    PROVE  SInv'
<1> USE DEF SInv
<1>1. r \in Request /\ Shape(r)
    BY DEF TypeOK, Shapes
<1>2. UNCHANGED <<client, gateway>>
    BY DEF UsersArrive, AdminAnswered, AskRefresh, GiveUp
<1>3. UNCHANGED <<who, tokens, late, owner, handled>> /\ valid' \subseteq valid /\ typed' = typed
    BY <1>2 DEF client, gateway
<1>4. access \in Sessions \union {None} /\ refresh \in Sessions \union {None}
    BY DEF TypeOK
<1>5. CASE UsersArrive(r)
    <2>1. Own(r) /\ r.tok \in Sessions /\ owner[r.tok] \in Users
        BY <1>1, <1>5 DEF UsersArrive, Answered, Own, Shape, TypeOK
    <2> PICK q : q = Ask("rooms", owner[r.tok], access)
        OBVIOUS
    <2>2. q \in Request
        BY <1>4, <2>1, Asks DEF Ops
    <2>3. q.op = "rooms" /\ q.arg = owner[r.tok] /\ q.stage = "first" /\ q.tok = access /\ q.ans = "none"
        BY DEF Ask
    <2>4. ~late => who # None /\ owner[r.tok] = who /\ access \in Sessions /\ owner[access] = who
        BY <2>1, Ours DEF Mine
    <2>5. Fits(q)'
        BY <1>3, <2>1, <2>2, <2>3, <2>4 DEF Fits, Shape, Mine, tokens
    <2>6. \A x \in net' \ net : x = q
        BY <1>5 DEF UsersArrive, UsersAnswer, Handled, Becomes
    <2>7. Once'
        BY <1>3, <2>3, <2>6, OnceKept DEF IsSend
    <2> QED
        BY <1>2, <1>3, <2>5, <2>6, <2>7, Quiet
<1>6. CASE AdminAnswered(r)
    <2>1. \A q \in net' \ net : q \in Contacts(access)
        BY <1>6 DEF AdminAnswered, Handled, Becomes
    <2>2. Own(r)
        BY <1>6 DEF AdminAnswered, AdminOps, Own
    <2>3. ~late => who # None /\ access \in Sessions /\ owner[access] = who
        BY <2>2, Ours
    <2>4. \A q \in net' \ net : Call(q, access)
        BY <1>4, <2>1, ContactsCall
    <2>5. \A q \in net' \ net : Fits(q)'
        BY <1>3, <2>3, <2>4, CallFits DEF tokens
    <2>6. Once'
        BY <1>3, <2>4, OnceKept DEF Call, IsSend
    <2> QED
        BY <1>2, <1>3, <2>5, <2>6, Quiet
<1>7. CASE AskRefresh(r)
    <2> PICK q : q = [r EXCEPT !.stage = "refresh", !.tok = refresh]
        OBVIOUS
    <2>1. CASE refresh = None
        BY <1>2, <1>3, <1>7, <2>1, Dropped DEF AskRefresh, RefreshAccessToken, Handled, Becomes
    <2>2. CASE refresh # None
        <3>1. refresh \in Sessions
            BY <1>4, <2>2
        <3>2. q \in Request /\ q.op = r.op /\ q.arg = r.arg /\ q.ans = "none" /\ q.tok = refresh /\ q.stage = "refresh"
            BY <1>1, <1>7, <3>1 DEF Request, AskRefresh, Refused, Waiting, MayRetry, Shape
        <3>3. ~Done(r) /\ r.op \notin {"login", "logout", "rooms"}
            BY <1>7 DEF AskRefresh, Refused, Waiting, Done, MayRetry, Retried, AdminOps
        <3>4. ~late => who # None /\ Mine(r) /\ owner[refresh] = who
            BY <3>3, Ours DEF Own
        <3>5. Shape(q)'
            BY <1>1, <3>1, <3>2, <3>3 DEF Shape
        <3>6. Fits(q)'
            BY <1>3, <3>1, <3>2, <3>3, <3>4, <3>5 DEF Fits, Mine, tokens
        <3>7. net' \subseteq (net \ {r}) \union {q}
            BY <1>7, <2>2 DEF AskRefresh, RefreshAccessToken, Handled, Becomes
        <3> QED
            BY <1>2, <1>3, <3>2, <3>3, <3>6, <3>7, Moved
    <2> QED
        BY <2>1, <2>2
<1>8. CASE GiveUp(r)
    BY <1>2, <1>3, <1>8, Dropped DEF GiveUp, Handled, Becomes
<1> QED
    BY <1>5, <1>6, <1>7, <1>8

\* The second try is the call with the token that it had been refreshed with.
LEMMA RefreshedKeeps == ASSUME SInv, NEW r \in net, Refreshed(r) PROVE SInv'
<1> USE DEF SInv
<1> PICK q : q = [r EXCEPT !.stage = "again", !.ans = "none"]
    OBVIOUS
<1>1. r \in Request /\ Shape(r) /\ r.stage = "refresh" /\ r.tok \in Sessions
    BY DEF TypeOK, Shapes, Shape, Refreshed
<1>2. UNCHANGED <<who, refresh, caches, typed, late, gateway>> /\ access' = r.tok
    BY DEF Refreshed
<1>3. Own(r) /\ r.op # "rooms"
    BY <1>1 DEF Shape, Own
<1>4. ~late => who # None /\ Mine(r)
    BY <1>3, Ours
<1>5. q \in Request /\ q.op = r.op /\ q.arg = r.arg /\ q.tok = r.tok /\ q.stage = "again" /\ q.ans = "none"
    BY <1>1 DEF Request
<1>6. Shape(q)'
    BY <1>1, <1>2, <1>3, <1>5 DEF Shape, gateway, Own
<1>7. Fits(q)'
    BY <1>2, <1>3, <1>4, <1>5, <1>6 DEF Fits, Mine, Own, gateway
<1>8. Again(r) \subseteq {q} \union MeRequest(r.tok, me)
    BY DEF Again
<1>9. net' \subseteq (net \ {r}) \union {q} \union MeRequest(r.tok, me)
    BY <1>8 DEF Refreshed, Handled, Becomes
<1>10. \A x \in net' \ (net \union {q}) : Call(x, r.tok)
    BY <1>1, <1>9, MeCall
<1>11. \A x \in net' \ net : Fits(x)'
    <2>1. ASSUME NEW x, Call(x, r.tok) PROVE Fits(x)'
        BY <1>1, <1>2, <1>4, <2>1, CallFits DEF Mine, gateway
    <2> QED
        BY <1>7, <1>10, <2>1
<1>12. Once'
    <2>1. \A x \in MeRequest(r.tok, me) : ~IsSend(x)
        BY <1>1, MeCall DEF Call, IsSend
    <2>2. \A x \in net' : IsSend(x) => x = q \/ x \in net \ {r}
        BY <1>9, <2>1
    <2>3. ~Done(r)
        BY <1>1 DEF Done
    <2> QED
        BY <1>2, <1>5, <2>2, <2>3, OnceMoved DEF gateway
<1>13. Fields'
    <2>1. r.op = "messages" => r.arg \in Convs
        BY <1>1 DEF Shape
    <2>2. pending' \in Convs \union {None}
        BY <2>1 DEF Refreshed, TypeOK
    <2>3. None \notin Sessions
        BY UsersAssumption DEF Sessions
    <2> QED
        BY <1>1, <1>2, <2>2, <2>3 DEF TypeOK, Fields, caches, gateway
<1>14. ~late => Held'
    BY <1>2, <1>4 DEF Apart, Held, Mine, caches, gateway
<1>15. OwnersKept
    BY <1>2 DEF OwnersKept, gateway
<1> QED
    BY <1>2, <1>11, <1>12, <1>13, <1>14, <1>15, Step

\* The session is left: nothing is kept, and what is in flight makes it late.
LEMMA Left ==
    ASSUME SInv, Forget, UNCHANGED <<typed, gateway>>, pending' \in {pending, None},
           late' \in BOOLEAN, NEW q \in Request, Shape(q), ~Own(q), q.op # "login",
           net' \subseteq net \union {q}, ~late' => net' \subseteq {q}
    PROVE  SInv'
<1> USE DEF SInv
<1>1. OwnersKept
    BY DEF OwnersKept, gateway
<1>2. TypeOK'
    BY DEF TypeOK, Forget, gateway
<1>3. Shapes'
    BY <1>1, ShapeKept, UsersAssumption DEF Shapes
<1>4. Once'
    BY OnceKept DEF Own, IsSend, gateway
<1>5. ASSUME ~late' PROVE Held' /\ Asked'
    <2>1. Held'
        BY DEF Held, Forget
    <2>2. \A x \in net' : x.op # "login" /\ ~Own(x)
        BY <1>5
    <2> QED
        BY <2>1, <2>2 DEF Asked
<1> QED
    BY <1>2, <1>3, <1>4, <1>5 DEF Apart

\* A logout, with whatever token.
LEMMA LogoutShape ==
    ASSUME TypeOK, NEW q, q = Ask("logout", None, access)
    PROVE  q \in Request /\ Shape(q) /\ ~Own(q) /\ q.op # "login" /\ ~IsSend(q)
<1>1. q \in Request
    BY Asks DEF Ops, TypeOK
<1> QED
    BY <1>1 DEF Ask, Shape, Own, IsSend

LEMMA LeaveKeeps ==
    ASSUME SInv, Logout \/ Quit \/ \E r \in net : SessionLost(r)
    PROVE  SInv'
<1> USE DEF SInv
<1> PICK q : q = Ask("logout", None, access)
    OBVIOUS
<1>0. q \in Request /\ Shape(q) /\ ~Own(q) /\ q.op # "login"
    BY LogoutShape
<1>1. CASE Logout
    <2>1. Forget /\ UNCHANGED <<pending, typed, gateway>> /\ late' = (late \/ net # {}) /\ net' = net \union {q}
        BY <1>1 DEF Logout, Post, Becomes
    <2>2. late' \in BOOLEAN
        BY <2>1, Zenon
    <2>3. ~late' => net' \subseteq {q}
        BY <2>1
    <2> QED
        BY <1>0, <2>1, <2>2, <2>3, Left
<1>2. CASE Quit
    BY <1>0, <1>2, Left DEF Quit
<1>3. ASSUME NEW r \in net, SessionLost(r) PROVE SInv'
    <2>1. Forget /\ UNCHANGED <<pending, typed, gateway>> /\ late' = (late \/ net # {r}) /\ net' = net \ {r}
        BY <1>3 DEF SessionLost, Handled, Becomes
    <2>2. late' \in BOOLEAN
        BY <2>1, Zenon
    <2>3. ~late' => net' = {}
        BY <2>1
    <2> QED
        BY <1>0, <2>1, <2>2, <2>3, Left
<1> QED
    BY <1>1, <1>2, <1>3

\* What the user starts.
LEMMA StartKeeps ==
    ASSUME SInv, \/ \E u \in Users : Login(u)
                 \/ \E c \in Convs : Select(c) \/ \E i \in Sends : Type(i, c)
                 \/ \E op \in Dialogs : Administer(op)
    PROVE  SInv'
<1> USE DEF SInv
<1>1. ASSUME NEW u \in Users, Login(u) PROVE SInv'
    <2> PICK q : q = Ask("login", u, None)
        OBVIOUS
    <2>1. q \in Request
        BY Asks DEF Ops
    <2>2. q.op = "login" /\ q.arg = u /\ q.stage = "first" /\ q.ans = "none"
        BY DEF Ask
    <2>3. UNCHANGED <<client, gateway>> /\ net' = net \union {q} /\ who = None /\ \A r \in net : r.op # "login"
        BY <1>1 DEF Login, Post, Becomes
    <2>4. UNCHANGED <<who, tokens, caches, pending, typed, late, owner, valid, handled>>
        BY <2>3 DEF client, gateway
    <2>5. OwnersKept
        BY <2>4 DEF OwnersKept
    <2>6. TypeOK'
        BY <2>1, <2>3, <2>4 DEF TypeOK, tokens, caches
    <2>7. Shapes'
        <3>1. Shape(q)'
            BY <2>2 DEF Shape
        <3> QED
            BY <2>3, <2>5, <3>1, ShapeKept, UsersAssumption DEF Shapes
    <2>8. Once'
        BY <2>2, <2>3, <2>4, OnceKept DEF IsSend
    <2>9. ASSUME ~late PROVE Held' /\ Asked'
        <3>1. Held'
            BY <2>4, <2>5, <2>9, HeldKept DEF Apart
        <3>2. \A x \in net : ~Own(x)
            BY <2>3, <2>9 DEF Apart, Asked
        <3>3. \A x \in net' : ~Own(x) /\ (x.op = "login" => x = q)
            BY <2>2, <2>3, <3>2 DEF Own
        <3>4. who' = None
            BY <2>3, <2>4
        <3> QED
            BY <3>1, <3>3, <3>4 DEF Asked
    <2> QED
        BY <2>4, <2>6, <2>7, <2>8, <2>9 DEF Apart
<1>2. access \in Sessions \union {None}
    BY DEF TypeOK
<1>3. ~late /\ who # None => access \in Sessions /\ owner[access] = who
    BY Ours
<1>4. ASSUME NEW c \in Convs, Select(c) PROVE SInv'
    <2>1. who # None /\ UNCHANGED <<who, tokens, caches, typed, late, gateway>> /\ pending' = c
        BY <1>4 DEF Select
    <2>2. \A q \in net' \ net : Call(q, access)
        BY <1>2, <1>4, MessagesCall DEF Select, Post, Becomes
    <2>3. \A q \in net' \ net : Fits(q)'
        BY <1>3, <2>1, <2>2, CallFits DEF gateway
    <2>4. Once'
        BY <2>1, <2>2, OnceKept DEF Call, IsSend, gateway
    <2>5. OwnersKept
        BY <2>1 DEF OwnersKept, gateway
    <2>6. Fields'
        BY <2>1 DEF TypeOK, Fields, tokens, caches, gateway
    <2>7. ~late => Held'
        BY <2>1, <2>5, HeldKept DEF Apart
    <2> QED
        BY <2>1, <2>3, <2>4, <2>5, <2>6, <2>7, Step DEF tokens
<1>5. ASSUME NEW c \in Convs, NEW i \in Sends, Type(i, c) PROVE SInv'
    <2> PICK a : a = [conv |-> c, id |-> i, by |-> who]
        OBVIOUS
    <2> PICK q : q = Ask("send", a, access)
        OBVIOUS
    <2>1. /\ who # None /\ i \notin typed /\ typed' = typed \union {i} /\ net' = net \union {q}
          /\ UNCHANGED <<who, tokens, caches, pending, late, gateway>>
        BY <1>5 DEF Type, Post, Becomes
    <2>2. a \in [conv : Convs, id : Sends, by : Users] /\ a.id = i /\ a.by = who
        BY <2>1 DEF TypeOK
    <2>3. q \in Request
        BY <1>2, <2>2 DEF Ask, Request, Ops, Retried
    <2>4. q.op = "send" /\ q.arg = a /\ q.stage = "first" /\ q.tok = access /\ q.ans = "none"
        BY DEF Ask
    <2>5. Fits(q)'
        BY <1>3, <2>1, <2>2, <2>3, <2>4 DEF Fits, Shape, Mine, gateway
    <2>6. Once'
        <3>1. IsSend(q) /\ q.arg.id = i
            BY <2>2, <2>4 DEF IsSend
        <3>2. \A x \in net : IsSend(x) => x.arg.id # i
            BY <2>1 DEF Once
        <3> QED
            BY <2>1, <3>1, <3>2 DEF Once, IsSend, Done, gateway
    <2>7. OwnersKept
        BY <2>1 DEF OwnersKept, gateway
    <2>8. Fields'
        BY <2>1 DEF TypeOK, Fields, tokens, caches, gateway
    <2>9. ~late => Held'
        BY <2>1, <2>7, HeldKept DEF Apart
    <2>10. \A x \in net' \ net : Fits(x)'
        BY <2>1, <2>5
    <2> QED
        BY <2>1, <2>6, <2>7, <2>8, <2>9, <2>10, Step DEF tokens
<1>6. ASSUME NEW op \in Dialogs, Administer(op) PROVE SInv'
    <2> PICK q : q = Ask(op, None, access)
        OBVIOUS
    <2>1. op \in AdminOps /\ who \in Users /\ who # None
        BY <1>6, DialogsAssumption, UsersAssumption DEF Administer
    <2>2. UNCHANGED <<client, gateway>> /\ net' = net \union {q}
        BY <1>6 DEF Administer, Post, Becomes
    <2>3. q \in Request
        BY <1>2, <2>1, Asks DEF Ops, Retried
    <2>4. q.op = op /\ q.arg = None /\ q.stage = "first" /\ q.tok = access /\ q.ans = "none"
        BY DEF Ask
    <2>5. UNCHANGED <<who, owner, handled, typed, late>>
        BY <2>2 DEF client, gateway
    <2>6. Fits(q)'
        BY <1>3, <2>1, <2>3, <2>4, <2>5 DEF Fits, Shape, Mine, AdminOps
    <2>7. Once'
        BY <2>1, <2>2, <2>4, <2>5, OnceKept DEF IsSend, AdminOps
    <2>8. \A x \in net' \ net : Fits(x)'
        BY <2>2, <2>6
    <2> QED
        BY <2>2, <2>7, <2>8, Quiet DEF gateway
<1> QED
    BY <1>1, <1>4, <1>5, <1>6

-----------------------------------------------------------------------------
LEMMA SInvInit == Init => SInv
<1> SUFFICES ASSUME Init PROVE SInv
    OBVIOUS
<1>1. TypeOK
    BY DEF Init, TypeOK
<1>2. Shapes /\ Once
    BY DEF Init, Shapes, Once
<1>3. Held /\ Asked
    BY DEF Init, Held, Asked
<1> QED
    BY <1>1, <1>2, <1>3 DEF SInv, Apart

LEMMA SInvNext == SInv /\ [Next]_vars => SInv'
<1> SUFFICES ASSUME SInv, [Next]_vars PROVE SInv'
    OBVIOUS
<1>1. ASSUME NEW r \in net, Serve(r) PROVE SInv'
    BY <1>1, ServeKeeps
<1>2. ASSUME NEW r \in net, Reply(r) PROVE SInv'
    <2>1. ASSUME SessionLost(r) PROVE SInv'
        BY <2>1, LeaveKeeps
    <2> QED
        BY <1>2, <2>1, LoggedInKeeps, ShownKeeps, AskedKeeps, RefreshedKeeps DEF Reply
<1>3. ASSUME NEW s \in Sessions, EndSession(s) PROVE SInv'
    BY <1>3, Dropped DEF EndSession
<1>4. ASSUME UNCHANGED vars PROVE SInv'
    BY <1>4, Dropped DEF vars, gateway
<1> QED
    BY <1>1, <1>2, <1>3, <1>4, LeaveKeeps, StartKeeps DEF Next

LEMMA SInvAlways == Spec => []SInv
BY SInvInit, SInvNext, PTL DEF Spec

(* The fields of the two services and the requests keep their shapes.      *)
THEOREM TypeCorrect == Spec => []TypeOK
<1>1. SInv => TypeOK
    BY DEF SInv
<1> QED
    BY <1>1, SInvAlways, PTL

(* A message that was typed is handed to messaging_service at most once,   *)
(* with as many messages and conversations as one likes, and however many  *)
(* requests are in flight: one request carries it, and it is sent again    *)
(* only when it was refused.                                               *)
THEOREM MessagesOnce == Spec => []SentOnce
<1>1. SInv => SentOnce
    BY DEF SInv, Once, SentOnce
<1> QED
    BY <1>1, SInvAlways, PTL

(* As long as no session was left with requests in flight, everything the  *)
(* client holds and asks for is of the user who is logged in.              *)
THEOREM UsersStayApart == Spec => []UsersApart
<1>1. ASSUME SInv, ~late
      PROVE  contacts \union (UNION {cache[c] : c \in Convs}) \union {Of(access), Of(refresh), me}
                 \subseteq {who, None}
    <2>1. Held
        BY <1>1 DEF SInv, Apart
    <2>2. {Of(access), Of(refresh), me} \subseteq {who, None}
        BY <2>1 DEF Held, Of
    <2>3. contacts \subseteq {who} /\ \A c \in Convs : cache[c] \subseteq {who}
        BY <2>1 DEF Held
    <2>4. UNION {cache[c] : c \in Convs} \subseteq {who}
        BY <2>3
    <2> QED
        BY <2>2, <2>3, <2>4
<1>2. ASSUME SInv, ~late, NEW r \in net
      PROVE  /\ r.op \notin {"login", "logout"} => Of(r.tok) = who
             /\ r.op = "send" => r.arg.by = who
    <2>1. Own(r) => r.tok \in Sessions /\ owner[r.tok] = who /\ (r.op = "send" => r.arg.by = who)
        BY <1>2, Ours DEF Mine
    <2>2. None \notin Sessions
        BY UsersAssumption DEF Sessions
    <2> QED
        BY <2>1, <2>2 DEF Own, Of
<1>3. SInv => UsersApart
    BY <1>1, <1>2 DEF UsersApart
<1> QED
    BY <1>3, SInvAlways, PTL

(* The client goes back to the login window by itself only when its        *)
(* session has ended, or when its own refresh token was refused because    *)
(* auth_service could not read its tables: every refresh in flight is for  *)
(* the refresh token that the client holds, and no error but a 401 ends    *)
(* the session.                                                            *)
THEOREM SessionsKept == Spec => LeftOnlyWhenRefused
<1> DEFINE Wrong == \E r \in net \ net' : r.tok = refresh /\ r.ans = "misread"
           Back == who # None /\ who' = None /\ ~late =>
                       \/ Logout \/ Quit \/ refresh \notin valid \/ Wrong
<1>1. ASSUME SInv, NEW r \in net, SessionLost(r) PROVE Back
    <2>1. r.stage = "refresh" /\ (r.tok \notin valid \/ r.ans = "misread")
        BY <1>1 DEF SessionLost, Refused
    <2>2. Own(r) /\ r \notin net'
        BY <1>1, <2>1 DEF SInv, Shapes, Shape, Own, SessionLost, Handled, Becomes
    <2>3. ~late => r.tok = refresh
        BY <1>1, <2>1, <2>2, Ours DEF Mine
    <2> QED
        BY <2>1, <2>2, <2>3
<1>2. ASSUME SInv, NEW r \in net, LoggedIn(r) PROVE Back
    <2>1. r.arg \in Users /\ who' = r.arg
        BY <1>2 DEF SInv, Shapes, Shape, LoggedIn, Answered
    <2> QED
        BY <2>1, UsersAssumption
<1>3. ASSUME who' = who PROVE Back
    BY <1>3
<1>4. SInv /\ [Next]_vars => [Back]_vars
    <2>0. ASSUME Logout \/ Quit PROVE Back
        BY <2>0
    <2> HIDE DEF Back
    <2> SUFFICES ASSUME SInv, Next PROVE Back \/ UNCHANGED vars
        BY DEF vars
    <2>2. ASSUME NEW r \in net, Reply(r) PROVE Back
        BY <1>1, <1>2, <1>3, <2>2
        DEF Reply, client, MeArrives, UsersArrive, RoomsArrive, MessagesArrive, SendAnswered,
            AdminAnswered, AskRefresh, GiveUp, Refreshed
    <2>3. ASSUME NEW r \in net, Serve(r) PROVE Back
        BY <1>3, <2>3 DEF Serve, client, Lost, Renew, Misread, Accept, RevokeSessions, OpenSession
    <2> QED
        BY <1>3, <2>0, <2>2, <2>3 DEF Next, client, Login, Select, Type, Administer, EndSession
<1> QED
    BY <1>4, SInvAlways, PTL DEF Spec, LeftOnlyWhenRefused

\* Whatever is late, only a login sets the refresh token.
LEMMA RefreshStep == SInv /\ RefreshIsOwn /\ [Next]_vars => RefreshIsOwn'
<1> SUFFICES ASSUME SInv, RefreshIsOwn, [Next]_vars PROVE RefreshIsOwn'
    OBVIOUS
<1>1. OwnersKept
    BY DEF OwnersKept, Next, vars, gateway, SInv, TypeOK,
           Login, Logout, Select, Type, Administer, Quit, EndSession, Serve, Reply,
           Lost, Renew, Misread, Accept, RevokeSessions, OpenSession,
           LoggedIn, MeArrives, UsersArrive, RoomsArrive, MessagesArrive, SendAnswered, AdminAnswered,
           AskRefresh, GiveUp, Refreshed, SessionLost
<1>2. CASE who' = who /\ refresh' = refresh
    <2>1. who # None => refresh \in Sessions /\ refresh # None /\ None \notin Sessions
        BY UsersAssumption DEF SInv, TypeOK, Sessions
    <2> QED
        BY <1>1, <1>2, <2>1 DEF RefreshIsOwn, Of, OwnersKept
<1>3. CASE who' = None
    BY <1>3 DEF RefreshIsOwn
<1>4. ASSUME NEW r \in net, LoggedIn(r) PROVE RefreshIsOwn'
    <2>1. r.tok \in Sessions /\ owner[r.tok] = r.arg /\ None \notin Sessions
        BY <1>4, UsersAssumption DEF LoggedIn, Answered, SInv, Shapes, Shape, Sessions
    <2> QED
        BY <1>4, <2>1 DEF LoggedIn, RefreshIsOwn, Of, gateway
<1>5. \/ who' = who /\ refresh' = refresh
      \/ who' = None
      \/ \E r \in net : LoggedIn(r)
    BY DEF Next, vars, client, tokens, Forget,
           Login, Logout, Select, Type, Administer, Quit, EndSession, Serve, Reply,
           Lost, Renew, Misread, Accept, RevokeSessions, OpenSession,
           MeArrives, UsersArrive, RoomsArrive, MessagesArrive, SendAnswered, AdminAnswered,
           AskRefresh, GiveUp, Refreshed, SessionLost
<1> QED
    BY <1>2, <1>3, <1>4, <1>5

(* Whoever is logged in holds a refresh token of his own.                  *)
THEOREM RefreshTokensApart == Spec => []RefreshIsOwn
<1>1. Init => RefreshIsOwn
    BY DEF Init, RefreshIsOwn
<1>2. SInv /\ RefreshIsOwn /\ [Next]_vars => RefreshIsOwn'
    BY RefreshStep
<1> QED
    BY <1>1, <1>2, SInvAlways, PTL DEF Spec

=============================================================================
