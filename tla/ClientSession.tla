--------------------------- MODULE ClientSession ---------------------------
(***************************************************************************)
(* The desktop client: AuthService.h and MessagingService.h with the       *)
(* windows that call them, against a gateway that keeps sessions.          *)
(*                                                                         *)
(* Everything in the client runs on one thread; what interleaves are the   *)
(* user's input and the answers to requests, which come in any order.  A   *)
(* call that is answered with 401 asks for a new access token and is sent  *)
(* once more.  Its continuation is posted to the event loop and is taken   *)
(* to run before the next answer is handled.                               *)
(*                                                                         *)
(* A token is the session it was signed for.  Equal requests in flight are *)
(* one element of net: the window reloads the contacts twice where one     *)
(* reload is in flight here.  The login window is disabled while a login   *)
(* is in flight, so that no answer to a login is stale.                    *)
(***************************************************************************)
EXTENDS Naturals, FiniteSets

CONSTANTS
    Users,
    Admins,    \* the users whose role is "admin"
    Convs,     \* ids of contacts and rooms
    Sends,     \* messages that are typed
    Dialogs,   \* the dialogs of the admin's menu that are used
    None,      \* an empty QString
    MaxLogins, \* bound: sessions that are opened
    MaxNet     \* bound: requests in flight

AdminOps == {"createUser", "deleteUser", "createRoom", "deleteRoom"}

ASSUME DialogsAssumption == Dialogs \subseteq AdminOps
ASSUME UsersAssumption ==
    Admins \subseteq Users /\ None \notin Users \union Convs \union 1 .. MaxLogins
ASSUME BoundsAssumption == MaxLogins \in Nat /\ MaxNet \in Nat

VARIABLES
    who,       \* m_currentUser and m_role; the main window is open unless None
    access,    \* m_accessToken
    refresh,   \* m_refreshToken
    me,        \* m_currentUserId
    pending,   \* m_pendingConversationRefresh
    contacts,  \* m_contacts: for whom the users and the rooms were listed
    cache,     \* m_messagesByConversation: whose history, marked as sent by whom
    typed,     \* the messages that were typed
    net,       \* requests in flight
    owner,     \* gateway: the user each session was opened for
    valid,     \* gateway: the sessions that have not ended
    handled,   \* gateway: how often a message was handed to messaging_service
    late       \* history: a session was left with requests in flight

tokens == <<access, refresh>>
caches == <<me, contacts, cache>>
client == <<who, tokens, caches, pending, typed, late>>
gateway == <<owner, valid, handled>>
vars == <<client, net, gateway>>

-----------------------------------------------------------------------------
Sessions == 1 .. MaxLogins

Of(s) == IF s = None THEN None ELSE owner[s]

\* Calls that are sent once more after a 401; ensureMe, which starts over.
Retried == AdminOps \union {"send", "users", "messages"}
Ops == Retried \union {"me", "rooms", "login", "logout"}

\* arg: what the call is about; stage: the call, POST /refresh on its behalf, its
\* second try; tok: the bearer or refresh token; ans: whether the gateway has accepted
\* it, or answered 401 because auth_service could not read its tables.
Request ==
    [op : Ops, arg : Users \union Convs \union {None} \union [conv : Convs, id : Sends, by : Users],
     stage : {"first", "refresh", "again"}, tok : Sessions \union {None},
     ans : {"none", "ok", "misread"}]

Ask(op, arg, tok) == [op |-> op, arg |-> arg, stage |-> "first", tok |-> tok, ans |-> "none"]

(* The client's fields and the requests have their shapes.                 *)
TypeOK ==
    /\ who \in Users \union {None}
    /\ access \in Sessions \union {None} /\ refresh \in Sessions \union {None}
    /\ me \in Users \union {None}
    /\ pending \in Convs \union {None}
    /\ contacts \subseteq Users /\ cache \in [Convs -> SUBSET Users]
    /\ typed \subseteq Sends
    /\ net \subseteq Request
    /\ owner \in [Sessions -> Users \union {None}]
    /\ valid \subseteq {s \in Sessions : owner[s] # None}
    /\ handled \in [Sends -> Nat]
    /\ late \in BOOLEAN
    /\ who # None => refresh # None /\ access # None

Init ==
    /\ who = None /\ access = None /\ refresh = None
    /\ me = None /\ contacts = {} /\ cache = [c \in Convs |-> {}]
    /\ pending = None /\ typed = {} /\ net = {}
    /\ owner = [s \in Sessions |-> None] /\ valid = {}
    /\ handled = [i \in Sends |-> 0]
    /\ late = FALSE

-----------------------------------------------------------------------------
(***************************************************************************)
(* Requests that a handler starts.                                         *)
(***************************************************************************)
Becomes(S) == Cardinality(S) <= MaxNet /\ net' = S

Post(S) == Cardinality(net) < MaxNet - 1 /\ Becomes(net \union S)

\* The answer r was handled, and S is asked for.
Handled(r, S) == Becomes((net \ {r}) \union S)

\* ensureMe: unless the id is known or asked for.
MeRequest(tok, known) ==
    IF tok = None \/ known # None \/ \E r \in net : r.op = "me" /\ r.stage = "first"
    THEN {} ELSE {Ask("me", None, tok)}

\* refreshMessages begins with ensureMe.
Messages(c, tok, known) == {Ask("messages", c, tok)} \union MeRequest(tok, known)

Contacts(tok) == {Ask("users", None, tok)}

-----------------------------------------------------------------------------
(***************************************************************************)
(* The user.                                                               *)
(***************************************************************************)
Login(u) ==
    /\ who = None /\ \A r \in net : r.op # "login"
    /\ Post({Ask("login", u, None)})
    /\ UNCHANGED <<client, gateway>>

\* Mutant: clearSession forgets all but m_currentUserId.
ForgetKeepsId ==
    /\ who' = None /\ access' = None /\ refresh' = None
    /\ contacts' = {} /\ cache' = [c \in Convs |-> {}]
    /\ UNCHANGED me

\* AuthService::logout and the slots of userLoggedOut.
Forget ==
    /\ who' = None /\ access' = None /\ refresh' = None
    /\ me' = None /\ contacts' = {} /\ cache' = [c \in Convs |-> {}]

\* "Déconnexion": the gateway is told, nobody waits for its answer.
Logout ==
    /\ who # None
    /\ Forget
    /\ Post({Ask("logout", None, access)})
    /\ late' = (late \/ net # {})
    /\ UNCHANGED <<pending, typed, gateway>>

\* selectConversation
Select(c) ==
    /\ who # None /\ contacts # {}
    /\ pending' = c
    /\ Post(Messages(c, access, me))
    /\ UNCHANGED <<who, tokens, caches, typed, late, gateway>>

\* onSendMessage
Type(i, c) ==
    /\ who # None /\ contacts # {} /\ i \notin typed
    /\ typed' = typed \union {i}
    /\ Post({Ask("send", [conv |-> c, id |-> i, by |-> who], access)})
    /\ UNCHANGED <<who, tokens, caches, pending, late, gateway>>

\* One of the dialogs of the admin's menu; one of them is busy at a time.
Administer(op) ==
    /\ who \in Admins /\ \A r \in net : r.op \notin AdminOps
    /\ Post({Ask(op, None, access)})
    /\ UNCHANGED <<client, gateway>>

\* The client ends, or crashes while a menu or a dialog outlives its window.
Quit ==
    /\ Forget
    /\ pending' = None /\ net' = {} /\ late' = FALSE
    /\ UNCHANGED <<typed, gateway>>

-----------------------------------------------------------------------------
(***************************************************************************)
(* The gateway and the services behind it.  A session that has ended is    *)
(* refused later too, so that refusal is decided when the client reads it. *)
(* Anything can be lost on the way; of the rooms the client does not tell  *)
(* that from a refusal.                                                    *)
(***************************************************************************)
Accepted(r) == net' = (net \ {r}) \union {[r EXCEPT !.ans = "ok"]}

Waiting(r) == r \in net /\ r.ans = "none"

\* Mutant: what was lost is sent once more.
LostRetried(r) ==
    /\ r \in net /\ r.op # "rooms"
    /\ Handled(r, IF r.stage # "first" \/ refresh = None THEN {}
                  ELSE {[r EXCEPT !.stage = "refresh", !.tok = refresh, !.ans = "none"]})
    /\ UNCHANGED <<client, gateway>>

\* The connection fails or the gateway is in trouble: an error is shown.
Lost(r) ==
    /\ r \in net /\ r.op # "rooms"
    /\ Handled(r, {})
    /\ UNCHANGED <<client, gateway>>

\* One session for each user: a login ends the one before.
OpenSession(r, s) ==
    /\ Waiting(r) /\ r.op = "login"
    /\ owner[s] = None /\ \A x \in Sessions : x < s => owner[x] # None
    /\ owner' = [owner EXCEPT ![s] = r.arg]
    /\ valid' = {x \in valid : owner[x] # r.arg} \union {s}
    /\ net' = (net \ {r}) \union {[r EXCEPT !.tok = s, !.ans = "ok"]}
    /\ UNCHANGED <<client, handled>>

\* Nobody looks at the answer to a logout.
RevokeSessions(r) ==
    /\ Waiting(r) /\ r.op = "logout" /\ r.tok \in valid
    /\ valid' = {x \in valid : owner[x] # owner[r.tok]}
    /\ Handled(r, {})
    /\ UNCHANGED <<client, owner, handled>>

Renew(r) ==
    /\ Waiting(r) /\ r.stage = "refresh" /\ r.tok \in valid
    /\ Accepted(r)
    /\ UNCHANGED <<client, gateway>>

\* isTokenRevoked says that a token is revoked when the database fails, and the
\* gateway answers 401 to the refresh of a session that goes on.
Misread(r) ==
    /\ Waiting(r) /\ r.stage = "refresh" /\ r.tok \in valid
    /\ net' = (net \ {r}) \union {[r EXCEPT !.ans = "misread"]}
    /\ UNCHANGED <<client, gateway>>

Accept(r) ==
    /\ Waiting(r) /\ r.op \notin {"login", "logout"}
    /\ r.stage # "refresh" /\ r.tok \in valid
    /\ handled' = IF r.op = "send" THEN [handled EXCEPT ![r.arg.id] = @ + 1] ELSE handled
    /\ Accepted(r)
    /\ UNCHANGED <<client, owner, valid>>

\* A login elsewhere, the deletion of the account, the end of a refresh token.
EndSession(s) ==
    /\ valid' = valid \ {s}
    /\ UNCHANGED <<client, net, owner, handled>>

-----------------------------------------------------------------------------
(***************************************************************************)
(* Answers.                                                                *)
(***************************************************************************)
Answered(r) == r \in net /\ r.ans = "ok"

\* Mutant: any failure of a refresh is taken for a 401.
RefusedAnyError(r) == Waiting(r)

\* 401: the session has ended, or the access token has expired, or auth_service
\* could not read its tables.
Refused(r) ==
    \/ Waiting(r) /\ (r.stage = "refresh" => r.tok \notin valid)
    \/ r \in net /\ r.ans = "misread"

\* userLoggedIn: ensureMe, refreshContacts, the main window.
LoggedIn(r) ==
    /\ Answered(r) /\ r.op = "login"
    /\ who' = r.arg /\ access' = r.tok /\ refresh' = r.tok
    /\ Handled(r, MeRequest(r.tok, me) \union Contacts(r.tok))
    /\ UNCHANGED <<caches, pending, typed, late, gateway>>

\* GET /me: the id that the token was validated for.
MeAnswer(r) == owner[r.tok]

MeArrives(r) ==
    /\ Answered(r) /\ r.op = "me" /\ r.stage = "first"
    /\ me' = MeAnswer(r)
    /\ Handled(r, IF pending = None THEN {} ELSE Messages(pending, access, me'))
    /\ UNCHANGED <<who, tokens, contacts, cache, pending, typed, late, gateway>>

\* GET /users: the accounts, but for the one that asks.
UsersAnswer(r) == owner[r.tok]

\* Then the rooms, with the token of now.
UsersArrive(r) ==
    /\ Answered(r) /\ r.op = "users" /\ r.stage # "refresh"
    /\ Handled(r, {Ask("rooms", UsersAnswer(r), access)})
    /\ UNCHANGED <<client, gateway>>

RoomsArrive(r) ==
    /\ r \in net /\ r.op = "rooms"
    /\ contacts' = {r.arg} \union {owner[x] : x \in {x \in {r.tok} : r.ans = "ok"}}
    /\ Handled(r, {})
    /\ UNCHANGED <<who, tokens, me, cache, pending, typed, late, gateway>>

MessagesArrive(r) ==
    /\ Answered(r) /\ r.op = "messages" /\ r.stage # "refresh"
    /\ cache' = [cache EXCEPT ![r.arg] = {owner[r.tok], me} \ {None}]
    /\ Handled(r, {})
    /\ UNCHANGED <<who, tokens, me, contacts, pending, typed, late, gateway>>

SendAnswered(r) ==
    /\ Answered(r) /\ r.op = "send" /\ r.stage # "refresh"
    /\ pending' = r.arg.conv
    /\ Handled(r, Messages(r.arg.conv, access, me) \union Contacts(access))
    /\ UNCHANGED <<who, tokens, caches, typed, late, gateway>>

\* The dialog reloads the contacts, unless it was closed.
AdminAnswered(r) ==
    /\ Answered(r) /\ r.op \in AdminOps /\ r.stage # "refresh"
    /\ \E S \in {{}, Contacts(access)} : Handled(r, S)
    /\ UNCHANGED <<client, gateway>>

MayRetry(r) == r.op \in Retried \union {"me"} /\ r.stage = "first"

\* refreshAccessToken, with the refresh token of now.
RefreshAccessToken(r) ==
    IF refresh = None THEN {} ELSE {[r EXCEPT !.stage = "refresh", !.tok = refresh]}

\* refreshAccessTokenThen: what follows is Refreshed or SessionLost.
AskRefresh(r) ==
    /\ Refused(r) /\ MayRetry(r)
    /\ Handled(r, RefreshAccessToken(r))
    /\ UNCHANGED <<client, gateway>>

\* An error is shown.
GiveUp(r) ==
    /\ Refused(r) /\ r.op # "rooms"
    /\ r.stage # "refresh" /\ ~MayRetry(r)
    /\ Handled(r, {})
    /\ UNCHANGED <<client, gateway>>

\* The second try; three of the dialogs' calls look at the role again.
Again(r) ==
    LET try == [r EXCEPT !.stage = "again", !.ans = "none"]
    IN  CASE r.op = "me" -> MeRequest(r.tok, me)
          [] r.op = "messages" -> {try} \union MeRequest(r.tok, me)
          [] r.op \in AdminOps \ {"createUser"} -> {x \in {try} : who \in Admins}
          [] OTHER -> {try}

\* Mutant: both tokens are renewed.
RefreshedBoth(r) ==
    /\ Answered(r) /\ r.stage = "refresh"
    /\ access' = r.tok /\ refresh' = r.tok
    /\ pending' = IF r.op = "messages" THEN r.arg ELSE pending
    /\ Handled(r, Again(r))
    /\ UNCHANGED <<who, caches, typed, late, gateway>>

Refreshed(r) ==
    /\ Answered(r) /\ r.stage = "refresh"
    /\ access' = r.tok
    /\ pending' = IF r.op = "messages" THEN r.arg ELSE pending
    /\ Handled(r, Again(r))
    /\ UNCHANGED <<who, refresh, caches, typed, late, gateway>>

\* The refresh token is refused: back to the login window.
SessionLost(r) ==
    /\ Refused(r) /\ r.stage = "refresh"
    /\ Forget
    /\ Handled(r, {})
    /\ late' = (late \/ net # {r})
    /\ UNCHANGED <<pending, typed, gateway>>

-----------------------------------------------------------------------------
Serve(r) ==
    \/ Lost(r) \/ Renew(r) \/ Misread(r) \/ Accept(r) \/ RevokeSessions(r)
    \/ \E s \in Sessions : OpenSession(r, s)

Reply(r) ==
    \/ LoggedIn(r) \/ MeArrives(r) \/ UsersArrive(r) \/ RoomsArrive(r)
    \/ MessagesArrive(r) \/ SendAnswered(r) \/ AdminAnswered(r)
    \/ AskRefresh(r) \/ GiveUp(r) \/ Refreshed(r) \/ SessionLost(r)

Next ==
    \/ \E u \in Users : Login(u)
    \/ Logout
    \/ \E c \in Convs : Select(c) \/ \E i \in Sends : Type(i, c)
    \/ \E op \in Dialogs : Administer(op)
    \/ Quit
    \/ \E r \in net : Serve(r) \/ Reply(r)
    \/ \E s \in Sessions : EndSession(s)

Spec == Init /\ [][Next]_vars

-----------------------------------------------------------------------------
(* A message that was typed is handed to messaging_service at most once,   *)
(* however often tokens expire and calls are sent again: only a call that  *)
(* was refused is repeated.                                                *)
SentOnce == \A i \in Sends : handled[i] <= 1

(* As long as no session was left with requests in flight, everything the  *)
(* client holds, shows and asks for is of the user who is logged in, and   *)
(* nothing of the user before is left: tokens, id, contacts, histories,    *)
(* and who is taken for the sender of a message.                           *)
UsersApart ==
    ~late =>
        /\ contacts \union (UNION {cache[c] : c \in Convs}) \union {Of(access), Of(refresh), me}
               \subseteq {who, None}
        /\ \A r \in net :
               /\ r.op \notin {"login", "logout"} => Of(r.tok) = who
               /\ r.op = "send" => r.arg.by = who

(* Even answers that were under way when a session was left, which may put *)
(* its access token, its id or its histories into the next session, leave  *)
(* the refresh token alone: whoever is logged in holds his own, so that    *)
(* the next refusal gives him an access token of his own again.            *)
RefreshIsOwn == who # None => Of(refresh) = who

(* The client goes back to the login window by itself only when its        *)
(* session has ended, or when the refresh token it holds was refused       *)
(* because auth_service could not read its tables: never for an answer     *)
(* that was lost, nor for one about another token.  Answers that were      *)
(* under way when an earlier session was left are the exception.           *)
LeftOnlyWhenRefused ==
    [][who # None /\ who' = None /\ ~late =>
           \/ Logout \/ Quit
           \/ refresh \notin valid
           \/ \E r \in net \ net' : r.tok = refresh /\ r.ans = "misread"]_vars

=============================================================================
