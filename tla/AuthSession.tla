---------------------------- MODULE AuthSession ----------------------------
(***************************************************************************)
(* Sessions of auth_service: Login, ValidateToken, RefreshToken,           *)
(* RevokeTokens and DeleteUser of AuthServiceImpl.cpp over the tables      *)
(* users(token_jti) and tokens_revoked of Database.cpp.  A call that is    *)
(* refused at its first look at the tables changes nothing and is left out.*)
(*                                                                         *)
(* A gRPC handler runs on a thread of its own.  Every Database method      *)
(* holds Database::mutex_ from its first line to its return, so a method   *)
(* is one atomic step; between two methods of one handler any step of      *)
(* another handler may come.  hnd[t] is where the handler on thread t      *)
(* stands and the values it read and still carries.                        *)
(*                                                                         *)
(* A Database method may fail: most then throw, and the handler answers    *)
(* INTERNAL where it stands; the writes of Login and RevokeTokens return a *)
(* false that nobody looks at.  Steps has none of this, Faults is it.      *)
(*                                                                         *)
(* A token is its kind, its user and its session id (jti); AuthManager,    *)
(* which signs and decodes tokens, is not in the repository.               *)
(***************************************************************************)
EXTENDS FiniteSets

CONSTANTS
    Users,     \* values of users.id_users
    Admins,    \* the users whose tokens carry the role "admin"
    Legacy,    \* the users whose password_hash is a SHA-256 at the start
    Threads,   \* gRPC handler threads
    Jti,       \* the values random_hex(16) may draw
    NoJti,     \* users.token_jti IS NULL
    NoUser     \* the owner of a jti that was not drawn yet

ASSUME UsersAssumption == Admins \subseteq Users /\ Legacy \subseteq Users
ASSUME NullsAssumption == NoJti \notin Jti /\ NoUser \notin Users

VARIABLES
    live,      \* the users that have a row
    legacy,    \* the users whose password_hash is still a SHA-256
    tokenJti,  \* users.token_jti; NoJti also when there is no row
    revoked,   \* tokens_revoked
    tokens,    \* the tokens handed out that have not expired
    hnd,       \* the handlers
    owner,     \* history: the user each jti was drawn for
    ended,     \* history: the jtis whose end was acknowledged to a caller
    cut        \* history: the users for whom a Login or RevokeTokens ended
               \* without its write of token_jti, and none went through since

db == <<live, legacy, tokenJti, revoked>>
vars == <<live, legacy, tokenJti, revoked, tokens, hnd, owner, ended, cut>>

-----------------------------------------------------------------------------
Token == [kind : {"access", "refresh"}, uid : Users, jti : Jti]

LoginPc  == {"login_hash", "login_read", "login_revoke", "login_set"}
RevokePc == {"rev_read", "rev_revoke", "rev_set", "rev_only_set"}
SetPc    == {"login_set", "rev_set", "rev_only_set"}
WriterPc == LoginPc \union RevokePc \union {"del_row"}
ReaderPc == {"val_current", "val_ok", "ref_current", "ref_user"}
Pc == ReaderPc \union WriterPc

\* before is history: the sessions the call is about that were drawn (a logout,
\* a deletion) or had ended (a validation, a refresh) when the call began.
Call == [pc : Pc, uid : Users, jti : Jti \union {NoJti}, before : SUBSET Jti]

NoCall == [pc |-> "idle", uid |-> NoUser, jti |-> NoJti, before |-> {}]

Late(t) == hnd[t].jti \in hnd[t].before

(* The state has the shape of the two tables, the bearer tokens and the    *)
(* handlers' locals: no NULL is ever stored in tokens_revoked.             *)
TypeOK ==
    /\ live \subseteq Users
    /\ legacy \subseteq Users
    /\ tokenJti \in [Users -> Jti \union {NoJti}]
    /\ revoked \subseteq Jti
    /\ tokens \subseteq Token
    /\ hnd \in [Threads -> Call \union {NoCall}]
    /\ \A t \in Threads : hnd[t].pc \in ReaderPc => hnd[t].jti \in Jti
    /\ owner \in [Jti -> Users \union {NoUser}]
    /\ ended \subseteq Jti
    /\ cut \subseteq Users

Drawn(u) == {j \in Jti : owner[j] = u}

Idle(t) == hnd[t].pc \in {"idle", "val_ok"}

Goto(t, pc) == hnd' = [hnd EXCEPT ![t].pc = pc]

Return(t) == hnd' = [hnd EXCEPT ![t] = NoCall]

Begin(t, pc, u, j, before) ==
    /\ Idle(t)
    /\ hnd' = [hnd EXCEPT ![t] =
                  [pc |-> pc, uid |-> u, jti |-> j, before |-> before]]

\* Database::getUserTokenJti, remembered by the handler.
ReadJti(t, pc) ==
    hnd' = [hnd EXCEPT ![t] =
               [hnd[t] EXCEPT !.pc = pc, !.jti = tokenJti[hnd[t].uid]]]

\* UPDATE users SET token_jti: no row, nothing happens, and that is a success.
SetJti(u, j) ==
    /\ tokenJti' = IF u \in live THEN [tokenJti EXCEPT ![u] = j] ELSE tokenJti
    /\ cut' = cut \ {u}

\* Database::isTokenRevoked; every token of a login carries a jti.
TokenRevoked(j) == j \in revoked

\* Database::revokeTokenJti under the callers' test that there is a jti.
RevokeJti(j) == revoked' = revoked \union ({j} \ {NoJti})

-----------------------------------------------------------------------------
Init ==
    /\ live = Users
    /\ legacy = Legacy
    /\ tokenJti = [u \in Users |-> NoJti]
    /\ revoked = {}
    /\ tokens = {}
    /\ hnd = [t \in Threads |-> NoCall]
    /\ owner = [j \in Jti |-> NoUser]
    /\ ended = {}
    /\ cut = {}

(***************************************************************************)
(* Login.  An unknown user and a wrong password return before anything is  *)
(* written.                                                                *)
(***************************************************************************)
LoginFindUser(t, u) ==
    /\ u \in live
    /\ Begin(t, IF u \in legacy THEN "login_hash" ELSE "login_read", u, NoJti, {})
    /\ UNCHANGED <<db, tokens, owner, ended, cut>>

\* A hash that could not be stored is only logged.
LoginUpgradeHash(t) ==
    /\ hnd[t].pc = "login_hash"
    /\ legacy' \in {legacy, legacy \ {hnd[t].uid}}
    /\ Goto(t, "login_read")
    /\ UNCHANGED <<live, tokenJti, revoked, tokens, owner, ended, cut>>

\* Mutant: the previous session is not looked up.
LoginSkipPrevious(t) ==
    /\ hnd[t].pc = "login_read"
    /\ Goto(t, "login_set")
    /\ UNCHANGED <<db, tokens, owner, ended, cut>>

LoginReadPrevious(t) ==
    /\ hnd[t].pc = "login_read"
    /\ ReadJti(t, "login_revoke")
    /\ UNCHANGED <<db, tokens, owner, ended, cut>>

\* Mutant: the previous session is not revoked.
LoginKeepPrevious(t) ==
    /\ hnd[t].pc = "login_revoke"
    /\ Goto(t, "login_set")
    /\ UNCHANGED <<db, tokens, owner, ended, cut>>

LoginRevokePrevious(t) ==
    /\ hnd[t].pc = "login_revoke"
    /\ RevokeJti(hnd[t].jti)
    /\ Goto(t, "login_set")
    /\ UNCHANGED <<live, legacy, tokenJti, tokens, owner, ended, cut>>

\* Mutant: the generator may repeat an unrevoked id of the same user.
LoginSetRepeatedJti(t) ==
    LET u == hnd[t].uid IN
    \E j \in Drawn(NoUser) \union (Drawn(u) \ revoked) :
        /\ hnd[t].pc = "login_set"
        /\ SetJti(u, j)
        /\ owner' = [owner EXCEPT ![j] = u]
        /\ tokens' = tokens \union [kind : {"access", "refresh"}, uid : {u}, jti : {j}]
        /\ Return(t)
        /\ UNCHANGED <<live, legacy, revoked, ended>>

\* A new jti is drawn and goes out in an access and a refresh token.
HandOut(t, j) ==
    /\ hnd[t].pc = "login_set"
    /\ owner' = [owner EXCEPT ![j] = hnd[t].uid]
    /\ tokens' = tokens \union
                    [kind : {"access", "refresh"}, uid : {hnd[t].uid}, jti : {j}]
    /\ Return(t)

LoginSetJti(t) ==
    \E j \in Drawn(NoUser) :
        /\ SetJti(hnd[t].uid, j)
        /\ HandOut(t, j)
        /\ UNCHANGED <<live, legacy, revoked, ended>>

(***************************************************************************)
(* ValidateToken: the token is good unless its jti is revoked, or the user *)
(* has a current jti and it is another one.  Any kind of token is taken.   *)
(***************************************************************************)
ValidateRevoked(t, tok) ==
    /\ ~TokenRevoked(tok.jti)
    /\ Begin(t, "val_current", tok.uid, tok.jti, ended \intersect {tok.jti})
    /\ UNCHANGED <<db, tokens, owner, ended, cut>>

CurrentAllows(u, j) == tokenJti[u] \in {NoJti, j}

ValidateCurrent(t) ==
    /\ hnd[t].pc = "val_current"
    /\ IF CurrentAllows(hnd[t].uid, hnd[t].jti) THEN Goto(t, "val_ok") ELSE Return(t)
    /\ UNCHANGED <<db, tokens, owner, ended, cut>>

(***************************************************************************)
(* RefreshToken: stricter, the jti must be the user's current one and the  *)
(* row must still be there; the new access token keeps the jti.            *)
(***************************************************************************)
RefreshRevoked(t, tok) ==
    /\ tok.kind = "refresh"
    /\ ~TokenRevoked(tok.jti)
    /\ Begin(t, "ref_current", tok.uid, tok.jti, ended \intersect {tok.jti})
    /\ UNCHANGED <<db, tokens, owner, ended, cut>>

\* Mutant: a NULL token_jti is let through, as ValidateToken does.
RefreshCurrentOrNull(t) ==
    /\ hnd[t].pc = "ref_current"
    /\ IF CurrentAllows(hnd[t].uid, hnd[t].jti) THEN Goto(t, "ref_user") ELSE Return(t)
    /\ UNCHANGED <<db, tokens, owner, ended, cut>>

RefreshCurrent(t) ==
    /\ hnd[t].pc = "ref_current"
    /\ IF tokenJti[hnd[t].uid] = hnd[t].jti THEN Goto(t, "ref_user") ELSE Return(t)
    /\ UNCHANGED <<db, tokens, owner, ended, cut>>

RefreshReply(t) ==
    LET h == hnd[t] IN
    /\ h.pc = "ref_user"
    /\ tokens' = IF h.uid \in live
                 THEN tokens \union {[kind |-> "access", uid |-> h.uid, jti |-> h.jti]}
                 ELSE tokens
    /\ Return(t)
    /\ UNCHANGED <<db, owner, ended, cut>>

(***************************************************************************)
(* RevokeTokens: the user's own access token or an admin's.                *)
(***************************************************************************)
RevokeBegin(t, tok, u) ==
    /\ tok.kind = "access"
    /\ tok.uid \in Admins \/ tok.uid = u
    /\ Begin(t, "rev_read", u, NoJti, Drawn(u))
    /\ UNCHANGED <<db, tokens, owner, ended, cut>>

RevokeRead(t) ==
    /\ hnd[t].pc = "rev_read"
    /\ ReadJti(t, "rev_revoke")
    /\ UNCHANGED <<db, tokens, owner, ended, cut>>

\* Mutant: the handler returns before it clears users.token_jti.
RevokeWithoutClear(t) ==
    /\ hnd[t].pc = "rev_revoke"
    /\ RevokeJti(hnd[t].jti)
    /\ Return(t)
    /\ UNCHANGED <<live, legacy, tokenJti, tokens, owner, ended, cut>>

\* Mutant: the session is cleared and not put in tokens_revoked.
RevokeOnlyClear(t) ==
    /\ hnd[t].pc = "rev_revoke"
    /\ Goto(t, "rev_set")
    /\ UNCHANGED <<db, tokens, owner, ended, cut>>

RevokeCurrent(t) ==
    /\ hnd[t].pc = "rev_revoke"
    /\ RevokeJti(hnd[t].jti)
    /\ Goto(t, "rev_set")
    /\ UNCHANGED <<live, legacy, tokenJti, tokens, owner, ended, cut>>

ClearJti(t) ==
    /\ hnd[t].pc \in {"rev_set", "rev_only_set"}
    /\ SetJti(hnd[t].uid, NoJti)
    /\ Return(t)
    /\ UNCHANGED <<live, legacy, revoked, tokens, owner>>

\* token_jti is cleared and the caller is told that the tokens are revoked.
RevokeClear(t) == ClearJti(t) /\ ended' = ended \union hnd[t].before

(***************************************************************************)
(* DeleteUser: an admin's access token, never for the admin itself; the    *)
(* current jti is revoked and the row goes in one transaction.             *)
(***************************************************************************)
DeleteUserBegin(t, tok, u) ==
    /\ tok.kind = "access" /\ tok.uid \in Admins /\ tok.uid # u
    /\ Begin(t, "del_row", u, NoJti, Drawn(u))
    /\ UNCHANGED <<db, tokens, owner, ended, cut>>

RemoveRow(t) ==
    LET u == hnd[t].uid IN
    /\ hnd[t].pc = "del_row"
    /\ RevokeJti(tokenJti[u])
    /\ live' = live \ {u}
    /\ legacy' = legacy \ {u}
    /\ tokenJti' = [tokenJti EXCEPT ![u] = NoJti]
    /\ cut' = cut \ {u}
    /\ Return(t)
    /\ UNCHANGED <<tokens, owner>>

DeleteUserRow(t) ==
    /\ RemoveRow(t)
    /\ ended' = IF hnd[t].uid \in live THEN ended \union hnd[t].before ELSE ended

\* The expiry date of a token passes: AuthManager decodes it no more.
Expire(tok) ==
    /\ tokens' = tokens \ {tok}
    /\ UNCHANGED <<db, hnd, owner, ended, cut>>

(***************************************************************************)
(* What the handlers do when Database fails.  A write that was applied and *)
(* then reported as failed is the write followed by the end of the call; a *)
(* login whose answer is lost is one whose tokens are never used.          *)
(***************************************************************************)
CutShort(u) == cut' = cut \union {u}

\* revokeTokenJti is false: the handlers go on to the write of token_jti.
RevokeFails(t) ==
    /\ \/ hnd[t].pc = "login_revoke" /\ Goto(t, "login_set")
       \/ hnd[t].pc = "rev_revoke" /\ Goto(t, "rev_only_set")
    /\ UNCHANGED <<db, tokens, owner, ended, cut>>

\* setUserTokenJti is false: Login hands the tokens of the new jti out.
LoginSetFails(t) ==
    \E j \in Drawn(NoUser) :
        /\ HandOut(t, j)
        /\ CutShort(hnd[t].uid)
        /\ UNCHANGED <<db, ended>>

\* setUserTokenJti is false: RevokeTokens reports success.  Nothing counts as
\* ended when the revocation had failed too.
RevokeSetFails(t) ==
    /\ \/ hnd[t].pc = "rev_set" /\ ended' = ended \union hnd[t].before
       \/ hnd[t].pc = "rev_only_set" /\ UNCHANGED ended
    /\ CutShort(hnd[t].uid)
    /\ Return(t)
    /\ UNCHANGED <<db, tokens, owner>>

\* The write is applied, and the caller gets an error or NOT_FOUND.
AnswerLost(t) == (ClearJti(t) \/ RemoveRow(t)) /\ UNCHANGED ended

\* A Database method throws, or the process ends and is started again.
Stops(t) ==
    /\ ~Idle(t)
    /\ IF hnd[t].pc \in SetPc THEN CutShort(hnd[t].uid) ELSE UNCHANGED cut
    /\ Return(t)
    /\ UNCHANGED <<db, tokens, owner, ended>>

-----------------------------------------------------------------------------
\* Calls that change a session: the first step, and the others.
WriterBegins(t) ==
    \/ \E u \in Users : LoginFindUser(t, u)
    \/ \E tok \in tokens, u \in Users : RevokeBegin(t, tok, u) \/ DeleteUserBegin(t, tok, u)

WriterGoesOn(t) ==
    \/ LoginUpgradeHash(t) \/ LoginReadPrevious(t)
    \/ LoginRevokePrevious(t) \/ LoginSetJti(t)
    \/ RevokeRead(t) \/ RevokeCurrent(t) \/ RevokeClear(t)
    \/ DeleteUserRow(t)

ValidateStep(t) ==
    \/ \E tok \in tokens : ValidateRevoked(t, tok)
    \/ ValidateCurrent(t)

RefreshStep(t) ==
    \/ \E tok \in tokens : RefreshRevoked(t, tok)
    \/ RefreshCurrent(t)
    \/ RefreshReply(t)

Steps ==
    \/ \E t \in Threads :
           WriterBegins(t) \/ WriterGoesOn(t) \/ ValidateStep(t) \/ RefreshStep(t)
    \/ \E tok \in tokens : Expire(tok)

Faults ==
    \E t \in Threads :
        \/ RevokeFails(t) \/ LoginSetFails(t) \/ RevokeSetFails(t)
        \/ AnswerLost(t) \/ Stops(t)

Next == Steps \/ Faults

Spec == Init /\ [][Next]_vars

\* The same while the database answers and no handler stops.
HealthySpec == Init /\ [][Steps]_vars

(***************************************************************************)
(* The healthy service when no user has two session-changing calls at once:*)
(* nobody logs in twice at once or logs in while being logged out or       *)
(* deleted.  Calls of different users and all reads still interleave.      *)
(***************************************************************************)
OneWriterPerUser ==
    \A s, t \in Threads :
        s # t /\ hnd[s].pc \in WriterPc /\ hnd[t].pc \in WriterPc
            => hnd[s].uid # hnd[t].uid

SerialNext ==
    \/ (\E t \in Threads : WriterBegins(t)) /\ OneWriterPerUser'
    \/ \E t \in Threads : WriterGoesOn(t) \/ ValidateStep(t) \/ RefreshStep(t)
    \/ \E tok \in tokens : Expire(tok)

SerialSpec == Init /\ [][SerialNext]_vars

-----------------------------------------------------------------------------
(***************************************************************************)
(* What a call that starts and ends now would answer for a drawn jti.      *)
(***************************************************************************)
Accepts(j) == owner[j] # NoUser /\ j \notin revoked /\ CurrentAllows(owner[j], j)

Refreshable(j) == owner[j] # NoUser /\ j \notin revoked /\ tokenJti[owner[j]] = j

(* A current session that every call refuses, whatever calls overlap and   *)
(* fail: users.token_jti names a revoked id only while the Login or        *)
(* RevokeTokens that revoked it is about to replace it, or after a call of *)
(* the user ended without that write; the first Login or RevokeTokens      *)
(* whose write goes through, also one that began before, repairs it.       *)
StuckOnlyWhenCut ==
    \A u \in live :
        tokenJti[u] \in revoked =>
            \/ u \in cut
            \/ \E t \in Threads :
                   /\ hnd[t].pc \in {"login_set", "rev_set"}
                   /\ hnd[t].uid = u
                   /\ hnd[t].jti = tokenJti[u]

(* Whatever calls overlap and fail, no RefreshToken that begins after      *)
(* RevokeTokens or DeleteUser answered for the user's sessions passes its  *)
(* checks: the refresh token of an ended session buys no access token.  A  *)
(* RevokeTokens that could write only one of its two tables still ends     *)
(* them; one whose two writes failed reports success and ended nothing.    *)
NoRefreshAfterLogout ==
    \A t \in Threads : hnd[t].pc = "ref_user" => ~Late(t)

(* No step makes a session refreshable that was drawn and is not: neither  *)
(* a later login nor a logout, complete or failing half-way, brings a      *)
(* refresh token back to life.                                             *)
RefreshNeverResurrects ==
    [][\A j \in Jti : owner[j] # NoUser /\ ~Refreshable(j) => ~Refreshable(j)']_vars

(* With one session-changing call per user at a time every session id ever *)
(* drawn is either revoked or the current one of a user who has a row.     *)
SessionsAccountedFor ==
    \A j \in Jti :
        owner[j] # NoUser =>
            \/ j \in revoked
            \/ owner[j] \in live /\ tokenJti[owner[j]] = j

(* With one session-changing call per user at a time no ValidateToken that *)
(* begins after a logout or a deletion was acknowledged says yes to one of *)
(* the sessions that ended.                                                *)
NoAcceptAfterLogout ==
    \A t \in Threads : hnd[t].pc = "val_ok" => ~Late(t)

Authority == INSTANCE SessionAuthority WITH
    holder <- owner,
    open   <- {j \in Jti : Accepts(j)},
    closed <- {j \in Jti : owner[j] # NoUser /\ ~Accepts(j)}

(* With one session-changing call per user at a time the service is the    *)
(* abstract authority: what it accepts is one session per user, opened     *)
(* once and closed for good.                                               *)
ImplementsAuthority == Authority!Spec

(* What the gateway says of POST /logout, "Revokes tokens for current      *)
(* user": after it no token of the user is accepted.  Overlapping calls    *)
(* break it, see the run that checks it.                                   *)
LogoutRevokesTokens ==
    \A j \in ended : owner[j] \in live => ~Accepts(j)

=============================================================================
