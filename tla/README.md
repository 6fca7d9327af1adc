# A TLA+ verification project for wizzMania / SecureCloud

The program is a chat system: a Qt desktop client, an HTTP gateway, and three
gRPC services in C++ over one PostgreSQL database. This directory holds TLA+
modules that model its services, its gateway with the HTTP server it runs in,
and its client, TLC configurations that check them on small instances, and
proofs that TLAPS checks for every value of the constants.

    tlc -workers 2 -config AuthSession_races.cfg MCAuthSession
    tlapm AuthServiceProofs.tla

`PROJECT.json` lists the components, the runs, a mutant for each property of a
passing run, the source lines every definition translates (`map`), the findings,
the hazards and the theorems.

## 1. The system

| component | state | operations | talks to |
|---|---|---|---|
| auth_service: sessions | `users.token_jti`, `tokens_revoked`, the signed tokens clients hold | Login, ValidateToken, RefreshToken, RevokeTokens, DeleteUser | database |
| auth_service: accounts, roles | `users`, `roles`, `permissions`, `role_permission` | RegisterUser, AssignRole, CreateRole, ListRoles, ListUsers | database |
| messaging_service: broadcast | `active_streams_`, `m_`, the frames of the handlers | SendMessage, ChatStream | the store, gRPC streams |
| messaging_service: store | `conversations`, `conversation_participant`, `messages` | insert, CreateConversation, AddParticipants, DeleteConversation, GetHistory, ListConversations | database |
| file_service | `files_` in memory, one blob per file on disk | Upload, Download, Delete, GetMetadata | disk |
| gateway_service: routes | none of its own | 14 HTTP routes, most validate a token and forward | auth, messaging |
| gateway_service: HTTP server | the queue of connections, the pool of workers, a stream per request | accept, read, route, answer, close | sockets |
| Qt client: services | tokens, caches of contacts and messages, requests in flight | login, refresh, reloads, sending, admin calls, logout | gateway |
| Qt client: windows | the login window, the main window with list and panel, menus, dialogs | select, search, write, pick, confirm | the services of the client, by signals and futures |
| database | the tables above, foreign keys with cascades | | |

Calls are synchronous gRPC between services. auth_service and messaging_service
share the tables: deleting a user in one cascades to participants and messages
of the other. The gateway keeps nothing between two requests, so a request that
validates a token and then acts on another service acts on what was true before.

What is hard in each part, and what makes it correct:

- **Sessions.** A login is up to five transactions and a logout three; handlers
  run in parallel, every check is two queries, and a write that failed may go
  unnoticed. A session that ended is never accepted or refreshed again, a user has
  one session, and one that every check refuses only after a call that ended
  without its last write, until the next one.
- **Accounts.** Every database call may fail, or be committed and reported as
  lost; roles and permissions are written one by one, accounts are looked up by
  address and updated by id. An acknowledged role is complete, an acknowledged
  account is as asked, nobody gets a right that was not meant for the account.
- **Broadcast.** Writes to all streams under one lock; the frame of a handler
  goes away without it. Streams agree on the order, each sender's messages keep
  theirs, nobody who listens is passed over, every call returns.
- **Store.** Transactions are tried twice although the first may be committed;
  conversations are found by title; a creation is several transactions; users
  vanish at any time. One log per key, what was acknowledged is readable,
  memberships and deletions that were acknowledged hold.
- **Files.** The table is in memory and the lock is not held over disk work.
  What is listed is on disk, what is on disk is listed or accounted for, a
  download is the whole file.
- **Gateway.** Validation, lookup and effect are three calls to two services,
  any of which fails with or without its effect. What is answered is true, a
  room has the people named, and rooms are listed.
- **HTTP server.** Jobs, wakeups and shutdown cross each other; a worker belongs
  to a connection, and connections wait for workers. No wakeup, connection or
  request is lost, requests and the server end, and a request is read as it was
  meant however TCP cuts it.
- **Client services.** Answers arrive in any order, across logouts and logins,
  and a refused call is refreshed and sent again. A message goes out once,
  nothing of one user reaches the next, and the session is left only when its
  refresh is refused.
- **Client windows.** The selection is a position in a list that is rebuilt
  under it, dialogs run event loops in the middle of which everything reloads.
  What is shown is what the next click, message or call is about.

## 2. Modules

| module | models | implements / used by |
|---|---|---|
| `SessionAuthority` | the promise of the session service | abstract |
| `AuthSession` | sessions: `AuthServiceImpl.cpp`, `db/Database.cpp` of auth_service | `SessionAuthority` |
| `Accounts` | accounts, roles, permissions and the claims of tokens, same files | |
| `ChatStream` | broadcast half of `messaging_service.cpp` | |
| `MessageLog` | the promise of the message store | abstract |
| `MessageStore` | store half of `messaging_service.cpp`, `db/Database.cpp` of messaging_service | `MessageLog` |
| `Base64` | `utils/Base64.cpp`: how a message is written into its column | `MessageStore` |
| `FileStore` | `FileServiceImpl.cpp` | |
| `Gateway` | the routes of `gateway_service/src/main.cpp` over the services' promises | composes what `AuthSession`, `Accounts` and `MessageStore` promise |
| `HttpServer` | `httplib.h`: queue, workers, connections, shutdown | |
| `HttpRequest` | `httplib.h`: stream, lines, headers, content, routing | `HttpService` |
| `HttpService` | a worker of `HttpServer` over what it reads with `HttpRequest` | composes the two |
| `ClientSession` | `AuthService.h`, `MessagingService.h` and the windows that call them, against the gateway | composes client and sessions |
| `ClientWindows` | `ui/windows`, `main.cpp` over caches that change at any time | |
| `...Proofs` | theorems: `AuthServiceProofs` about `AuthSession` and `Accounts`, `HttpServerProofs` about `HttpServer` and `HttpRequest`, the others about the module they are named for | |
| `MC...` | symmetry sets and instance values for TLC | |

### AuthSession

One variable per table (`live`, `legacy` and `tokenJti` for `users`, `revoked`
for `tokens_revoked`), the tokens at large, and `hnd`, where each handler thread
stands with the values it read. Every Database method locks `Database::mutex_`
for its whole length, so a method is one step; a handler is a sequence of them:

| code | actions |
|---|---|
| Login | `LoginFindUser`, `LoginUpgradeHash`, `LoginReadPrevious`, `LoginRevokePrevious`, `LoginSetJti` |
| ValidateToken | `ValidateRevoked`, `ValidateCurrent` |
| RefreshToken | `RefreshRevoked`, `RefreshCurrent`, `RefreshReply` |
| RevokeTokens | `RevokeBegin`, `RevokeRead`, `RevokeCurrent`, `RevokeClear` |
| DeleteUser | `DeleteUserBegin`, `DeleteUserRow` |
| a write fails, and Login or RevokeTokens goes on | `RevokeFails`, `LoginSetFails`, `RevokeSetFails` |
| a write is applied and reported as failed | `AnswerLost` |
| a method throws, or the process ends | `Stops` |
| a token expires | `Expire` |

`owner`, `ended` and `cut` are history: whom an id was drawn for, which sessions a
caller was told are over, and for which users a Login or RevokeTokens ended
without its write of `token_jti`, with none since. AuthManager and PasswordHasher
are not in the repository (`.gitignore`); a token is a record, and decoding gives
it back until it expires.

`Spec` lets all calls overlap and anything fail. `HealthySpec` is the same without
the faults, in which `auth_logout` shows what overlapping logins do to a logout.
`SerialSpec` is the healthy service with one session-changing call per user at a
time: the promise of `SessionAuthority` holds only there.

### Accounts

`users`, `roles` and `grants` are the tables (an account is id, address and
role), `call[t]` a handler, `admins` the accounts that hold a token with the
administrator's role, which is all that RegisterUser, AssignRole, CreateRole and
DeleteUser ask for. RegisterUser is `RegisterBegin` (validation, the check of
the address) and `RegisterUser` (the insert with its second try); AssignRole is
`AssignBegin`, `AssignLookup`, `AssignRole`; CreateRole is `CreateBegin`,
`CreateRole` and one `Grant` per permission; `DeleteUser` is the gateway's
request; a login or refresh copies rights into a token with `ReadAccount` and
`SignToken`; `TokensExpire` ends it, and `Fail` is a call that ends with an error
before its effect. `ListedRoles` is what ListRoles answers. A try of a
transaction commits, fails, or commits and is reported as lost.

### ChatStream

`rpc[h]` is where a SendMessage call or ChatStream handler stands; the mutex
`m_` is held exactly by the handler at `write`. Storing (`InsertOk`,
`InsertFail`) is separate from broadcasting (`BeginBroadcast`, one `Visit` per
stream, `EndBroadcast`). A `Write` blocks while the client has `Window` messages
unread and returns at once on a lost connection. `HangUp` and `Leave` are the two
steps at the end of ChatStream: the flag is cleared, then the frame is gone, both
without the lock. Reading `alive` through the pointer into a frame that is gone
is undefined behaviour; it is modelled as either answer, with a write through it
going nowhere, or as a `Crash`, which can come at any time.

### MessageStore, MessageLog and Base64

The three tables are sets of rows, `users` is shared with auth_service, and
`call[t]` is a call of the service with what it still has to do. A method of
Database is one try: committed and told, committed or not with the connection
lost and one more try under the same mutex, or failed. Send is `SendBegin` (the
gateway validated the sender) and `Send`; CreateConversation is `CreateBegin`,
`Create` and one `Add` per participant; then `AddBegin`, `DeleteBegin`/`Delete`,
and `HistoryBegin`, `Check`, `Read`. `DeleteUser` is auth_service's transaction
with the cascades of the schema, `Crash` a restart of the service. Keys are
records `[kind, of]`: a pair of ids for `dm:<a>:<b>`, a row for `room:<id>`;
`Far` is an id the gateway reads as a number and `parse_dm_key` cannot. Titles
that people type are assumed not to look like keys.

`MessageLog` has one append-only log per key; the refinement maps a key to the
messages of the row with that title. `Base64` is the coding of a message
(`Sextets`, `EncodeGroup`, `Encode`) and `safe_b64_decode` (`IsBase64`,
`DecodeGroup`, `SafeDecode`). The loops of the code, which append to a string,
are written position by position: character `k` of the text is place
`Place(k, 4)` of group `Group(k, 4)`. `RoundTrip` compares what is read with what
was sent, byte by byte.

### FileStore

`disk` is the length of each blob, `files` the table. An upload is
`UploadFirst`, `UploadNext`, then `UploadWriteFails`, `UploadRejected`, or
`UploadClose` and `UploadPublish`; what was written reaches the disk with the
close, whole or not, and the result of `close` is not looked at (history `torn`).
A download is `DownloadFind` (under the lock), `DownloadOpen`, `DownloadChunk`
for each round of the loop, `DownloadEmpty`. `Delete` is one step under the lock.
`Crash` empties the table and keeps the blobs. A file whose path cannot be opened
for writing and requests without their required fields change nothing and are
left out.

### Gateway

`call[c]` is a request with what its earlier calls returned. `Receive` reads
request and token, `Validate` asks auth_service, `ListUsers` fetches the
directory with which e-mail addresses become ids, and then one of `Logout`,
`Register`, `DeleteUser`, `SendMessage`, `CreateRoom`, `DeleteRoom`, `ListRooms`
does what was asked; a service answers, fails before its effect, or fails after
it. The sessions behind it are those of `SessionAuthority` (`open`, `closed`,
`holder`; `Authority` opens and ends them at any time), accounts and rooms are
plain sets as `Accounts` and `MessageStore` promise them. A session may end between
the calls of a request, which goes on. `ListRooms` has the
`Page` of conversations that the service returns, newest first, and the filter
that keeps groups. `AuthSession` implements `SessionAuthority` for calls that do
not overlap, which is what this composition builds on.

### HttpServer and HttpRequest

`listener` is the thread in `listen`, `jobs` and `shutdown` the pool's fields,
`worker[w]` where a worker stands and with which connection, `sock` and `req`
what the client sees. The listener does `Accept`, `Notify` (after the lock is
released), or `AcceptFails`, `NotifyAll`, `Exit`. A worker does `Take`, `Sleep`
(and `SpuriousWakeup`), `Leave`, and with a connection `Read`, `ReadEnd`,
`Expire`, `Answer`, `Close`. Clients do `Send` and `Cut`. `Answer` is the whole
handler: Gateway's subject.

`HttpRequest` is what happens in `Read` and before the handler, as operators:
`Recv` is SocketStream's read with its read-ahead, `GetLine`, `ParseRequestLine`,
`ReadHeaders`, `RequestContent` and `Dispatch` are the functions of the same
purpose, `Routes` the gateway's handlers with their patterns in the order of
registration, `Serve` all of it on the pieces in which a request arrives. The
loops over characters, headers and parts of the content are a number of rounds
each (`Loop`) of a step of their own (`ReadCharacter`, `ReadHeader`, `ReadSome`);
the first two are bounded in the code as well (`MaxLine`, `MaxHeaders`).
`Decode` and `Split` go over a text one character at a time (`DecodeNext`,
`PartsNext`). `WireTexts` is what the client's QNetworkAccessManager writes for a
request that is `Sendable`: an operation of the client's, an id where it has one, a
token, and a content with a POST only. `ServedAsMeant` compares the handler's view
with what the client meant; `HttpService` puts it where a worker hands the request
to its handler (`RequestsAsSent`).

### ClientSession

The client's fields (`who`, `access`, `refresh`, `me`, `pending`, `contacts`,
`cache`), the requests in flight (`net`) and what the gateway remembers (`owner`,
`valid`, `handled`). Everything in the client runs on one thread, so a slot or
the handler of an answer is one action; a token is the session it was signed for.

| code | actions |
|---|---|
| the windows | `Login`, `Select`, `Type`, `Administer`, `Logout`, `Quit` |
| handlers of answers | `LoggedIn`, `MeArrives`, `UsersArrive`, `RoomsArrive`, `MessagesArrive`, `SendAnswered`, `AdminAnswered` |
| 401, refresh, second try | `AskRefresh`, `Refreshed`, `SessionLost`, `GiveUp` |
| the gateway | `OpenSession`, `Renew`, `Misread`, `Accept`, `RevokeSessions`, `EndSession` |
| the network | `Lost` |

A request moves through the stages `first`, `refresh`, `again`; which calls are
sent again, and what is looked at before they are, is in `Again`. A refusal is
decided when the client reads it: validation also fails while auth_service is in
trouble, so any first or second try may be refused. A refresh is refused with a 401
when its session has ended, or when auth_service cannot read `tokens_revoked`, which
`isTokenRevoked` reports as a revoked token (`Misread`); any other trouble is an
answer that is no 401 (`Lost`). The continuation after a refresh, which the code posts to the
event loop, is taken to run before the next answer. Equal requests in flight are
one. `Quit` may come at any time. One admin dialog is busy at a time, which is a
little less than the code allows; `ClientWindows` has the rest. `late` is
history: a session was left while requests were in flight. `UsersApart` and
`LeftOnlyWhenRefused` are promises about sessions without that; `SentOnce` and
`RefreshIsOwn` hold with it too.

### ClientWindows

`who`, `contacts` and `cache` are the caches of the services, which answers
change at any time (`ContactsArrive`, `HistoryArrives`, `SessionEnds`);
`login`, `win` and `dialog` are the windows. `win` holds the conversations, the
selected position, the rows of the sidebar (a set: the order in which they are
shown is left out, and so is that of a dialog's items) with the position each was
made for, and the panel with its lines and headers; every handler calls the rebuilds it
calls in the code (`Rebuild`, `UpdateList`, `UpdatePanel`). A menu, dialog or
message box is `dialog` with its own steps (pick, check, confirm, answer) and
runs in the middle of everything else; `calls` are its calls in flight, and
`posted` the conversation a step posts a message to. `Attributed` compares each
header with the account that really sent the message below it, and names the two
cases in which the code shows something else: a sender in a room who is not in the
list of contacts has the room's name, and the user's own messages of a direct
conversation have the peer's name as long as the answer of `/me` is not there. A
history of a direct conversation has messages of its two people (`Between`), since
the gateway makes the key of a conversation from the caller; a history that was
asked for by the user before, and answers after the next login, is left out here
and is in `ClientSession`. A window that is deleted
under its own menu or dialog leaves undefined behaviour behind: the client goes
on as if nothing was, or it dies and is started again (`Restart`).

## 3. Runs

| run | instance | shows |
|---|---|---|
| `auth_races` | 2 users, one admin, 2 threads, 2 ids | with failing writes and stopping handlers: no refresh after an acknowledged end, a stuck user only after a call that was cut, no resurrection |
| `auth_serial` | as above, 3 ids, `SerialSpec` | sessions accounted for, no validation after an acknowledged end, refinement of `SessionAuthority` |
| `auth_logout` | as `auth_races`, `HealthySpec`; violation | finding 1 |
| `accounts` | 2 addresses, the administrator's, the user's and one more role, 2 permissions, 2 threads, 2 ids | complete roles, registrations as asked, no stray rights |
| `chat_streams` | 2 streams, 1 caller, window 1, 2 rows, `FairSpec` | one order, sender order, nobody passed over, every call returns |
| `store` | a user and an id out of range, a sender, a reader, an admin, 2 rows, 2 messages | members are listed, deletions are final, acknowledged messages are in every history, byte by byte, refinement of `MessageLog` |
| `store_erase` | 2 users, a sender, an admin; violation | finding 2 |
| `file_store` | 2 files, owners, uploads, downloads, 4 bytes, chunks of 2 | table against disk, whole downloads |
| `gateway` | 2 requests, 2 addresses, 2 sessions, 3 ids, a room, pages of 1 | members as named, true answers, rooms listed |
| `http` | 3 connections, 2 workers, 2 requests each, `FairSpec`; buffers of 3 and 4 characters | no lost wakeup, connection or request, requests and the server end, requests as sent |
| `client` | an admin, a user, a conversation, a message, 2 sessions, 3 requests in flight | one send per message, users apart, own refresh token, no way out of a session but a logout, its end, or a refused refresh |
| `windows` | 2 people, a room, 3 contact lists, a history, 2 searches, 2 calls in flight | panel, rows, headers and dialogs agree with what is acted on |

States: 4.1 million (`auth_races`), 614,000 (`auth_serial`), 187,000
(`chat_streams`), 232,000 (`file_store`), 4.5 million (`client`), 2.2 million
(`accounts`), 497,000 (`gateway`), 82,000 (`http`), 1.7 million (`store`), 566,000
(`windows`).

**Bounds.** Two handlers that change a session and a third id are enough for
every race between a read and a write of `token_jti` (a handler holds one value
read earlier); a third id lets a lost session meet a later login. In `accounts`
the role that is not there at first is created by two calls at once, and one
address registered, deleted and registered again. Two streams are the least on
which orders can differ, window 1 makes every write block unless its predecessor
was taken, and with both streams and the caller sending three calls compete for
the lock; 2 rows are two messages in one order or the other. In `store` two rows
and two messages let two rows of one title, and a newer message over the limit,
appear; pairs of two users are covered by the theorems `MembersStay`,
`MessagesStay` and `TablesAreLogs`, which hold for any users. Blob sizes 0 to 4
with chunks of 2 hold the empty file, the short last chunk, and exact multiples.
In `gateway` two requests are the least that can act between the calls of each
other, and a page of one conversation lets a direct conversation compete with a
room. In `http` the third connection waits for two busy workers, and two requests
are a first and a last one; `read_buff_size_` (4096) and `CPPHTTPLIB_RECV_BUFSIZ`
(16384) are scaled to 3 and 4 characters, so that every part of a request crosses
their borders, and requests arrive whole, in two or three pieces cut anywhere, and
in pieces of one size, down to single characters; `MaxLine` (32768) and `MaxHeaders`
(100) are what the longest request needs and not one more. Two sessions of the client are
one after the other, of one user or of two, and three requests in flight let one
handler's answers meet another's; user actions leave room for what the handlers
ask for (`MaxNet`), and one dialog stands for the four, which differ in what
`Again` looks at. In `windows` the lists differ in length and order, so that a
position means another conversation after a reload or none.

`MaxRows`, `MaxConvs`, `MaxMsgs`, `Jti`, `Files`, `MaxSize`, `MaxId`, `MaxRoom`,
`MaxCalls`, `MaxLogins` and `MaxNet` only bound the instance. Symmetry is used over
interchangeable threads, ids, users and handlers, never in a liveness run.
Deadlock is not checked where the finite supply of ids ends the behaviour
(`AuthSession`, `Accounts`, `FileStore`, `ClientSession`). `TypeOK` of each module
is proved rather than run.

**Fairness.** `chat_streams`: a handler that can go on does (weak fairness of
storing, visiting, ending: threads are scheduled), the mutex is handed in time to
a waiter that keeps asking (strong fairness of `BeginBroadcast`: it is enabled
again and again), and a client reads what it is sent (weak fairness of `Take`).
The last is an assumption about clients: the code has no deadline on `Write`, so
one client that never reads stops every sender. `http`: threads are scheduled and
get the mutex, the idle time of a quiet connection runs out, and handlers return;
the last is an assumption about the services, since the gateway's gRPC calls have
no deadline. Nothing is assumed of clients.

## 4. Findings

1. `auth_logout`: two overlapping logins leave a session that is neither revoked
   nor current; the logout that follows clears `token_jti`, and ValidateToken
   accepts any unrevoked token of a user without a current one. The gateway
   documents `/logout` as "Revokes tokens for current user."
2. `store_erase`: the delete dialog promises that all messages of a room go; they
   are stored under a row of their own, titled `room:<id>`, and stay.

Seen while modelling and not given a run:

- Sessions: the session of finding 1 also becomes acceptable when the account is
  deleted (no row is left to compare with). RevokeTokens closes whatever session
  the user has by then. Results of `setUserTokenJti` and `revokeTokenJti` are not
  looked at: after a write that failed Login hands out tokens that every check
  refuses, and leaves the previous session current and revoked
  (`AuthServiceImpl.cpp:185`); RevokeTokens reports success although nothing was
  revoked when both of its writes failed (`AuthServiceImpl.cpp:415`).
- Accounts: an administrator's own id with leading zeros passes the check that
  forbids deleting oneself (`AuthServiceImpl.cpp:446`). `auth_service/src/main.cpp:102`
  looks at `boundPort` before BuildAndStart sets it, so the fallback ports are
  always taken.
- Messaging: a handler of ChatStream may return after the purge of dead streams,
  and its frame is visited (`messaging_service.cpp:322`). A room id written as
  `room:05` passes the check of room 5 and stores under a title of its own. Ids out
  of the range of int get conversations without participants
  (`db/Database.cpp:28`). 200 direct conversations hide every room.
- Files: `Delete`, announced as a logical deletion, removes the blob.
- HTTP server: an error of accept other than a lack of descriptors or a signal ends
  the gateway. Each request has a stream of its own, so what was read ahead of a
  pipelined request would be dropped; the Qt client does not pipeline.
- Client services: a refresh that was asked for before a logout and answers after
  the next login replaces the new session's access token by one of the old
  (`AuthService.h:253`), although logins are numbered against the same thing
  (`AuthService.h:46`); answers to `/me`, `/rooms` or a history fill the next
  user's fields in the same way. The refresh token stays the user's own, so the next
  refusal puts the access token right. `/me` is asked for again without end while it
  is refused and refreshes succeed. "If refresh is rejected by server, session is no
  longer recoverable" (`AuthService.h:215`) is not so: a query that fails in
  `isTokenRevoked` (`db/Database.cpp:382`, `AuthServiceImpl.cpp:328`) makes auth_service refuse the token of a session that
  goes on, the gateway answers 401 (`main.cpp:305`), and the client logs out.
- Client windows: the selection is a position, so after a reload a draft typed for
  one conversation goes to another, under the panel's new name; the first
  conversation is selected without asking for its history. A history that comes
  before the answer of `/me` has nothing marked as sent (`MessagingService.h:359`),
  and `/users` leaves the caller out (`main.cpp:174`), so in a direct conversation
  the user's own messages stand under the peer's name (`MainWindow.h:911`), until
  that history is asked for again. A logout through the
  menu, or a session that ends under a dialog, deletes the window whose child is
  still on the stack (`MainWindow.h:1019`, `main.cpp:49`): undefined. The answer of
  a login that is handled after the session ended opens a window without a session
  (`LoginWindow.h:120`); `userLoggedOut` is connected once more with every login;
  a list that gets the focus may make its first item current without marking it,
  and the delete dialogs take it for the choice.

## 5. Proofs

Eight modules hold theorems. Each starts from an invariant that is stronger than
what is wanted, proves it once for `Init` and once for every action, and draws
the theorems from it.

- `AuthServiceProofs`, about `AuthSession`: `TypeCorrect`; `RefreshSafe`, `CurrentSafe` and
  `NoResurrection` for `Spec`; `AllSessionsAccountedFor`, `LogoutSafe` and
  `Refinement` for `SerialSpec`. `IInv` adds what handlers carry: an id that was
  read for a user was drawn for that user (`Owned`), an ended session is revoked or
  not current (`EndedDead`), and a handler that ends sessions, or that began after
  they ended, meets none of them alive (`HandlersInTime`). Faults fit in because
  each of them is a step that leaves out a write or an acknowledgement, and `cut`
  remembers for whom (`ExcuseStep`). `SInv` adds, for the serial case, that a
  writer's local value is still the current jti of its user, which is what makes
  revoking it and then replacing it safe. `Refinement` shows that every step opens
  one id, closes one, or leaves the authority alone.
- `AuthServiceProofs`, about `Accounts`: `AccountsTypeCorrect`, `RolesComplete`,
  `RegistrationKept`, `NoStrayRights`. `AInv` adds that what a call carries is sound (`Carried`: the
  id it found was asked the role for, the permissions it has done are granted),
  that ids are drawn once (`Fresh`), and that grants are never taken back, which
  makes a role complete whoever else creates it.
- `ChatStreamProofs`: `TypeCorrect`, `OneOrder`, `SendersInOrder`, `NobodyMissed`.
  `CInv` adds that the lock has one holder (`Owners`), that a broadcast visits each
  registered stream once (`Visits`), and that what a stream has of a sender is older
  than the message that sender is broadcasting (`Behind`).
- `MessageStoreProofs`: `TypeCorrect`, `MembersStay`, `DeletionsHold`,
  `MessagesStay`, `TablesAreLogs`, `HistoryIsComplete`, `CodingIsExact`,
  `ReadsAreExact`. Steps are first summed up by what they write
  (`Writes`: a message, a row, a participant, a deletion, a cascade), so that the
  parts of `MInv` (keys have one row, ids are drawn once, calls carry what they
  joined) are proved for each kind of write instead of each call.
  `HistoryIsComplete` has an invariant of its own, `HInv`: a row of `messages` has
  an id that no other has (`RowsOnce`), and what a history must bring was stored in
  the conversation it asks for when it was asked (`Asked`). A read takes the newest
  `Limit` rows; a row that it leaves out has `Limit` newer ones before it
  (`TopIsFull`, by the counting theorems of the library). Later sends have higher
  ids and only help, and a deletion takes away what was owed.
  `CodingIsExact` is about `Base64` alone: for every sequence of bytes, encoding has
  no white space to strip, a length that is a multiple of four and only letters
  where letters are due, and group by group the sextets give the bytes back. It is
  a statement about positions and needs no induction, only arithmetic on quotients
  and remainders and one fact about positions that are kept. `ReadsAreExact` is
  what it means for the store.
- `FileStoreProofs`: `TypeCorrect`, `BlobsListed`, `NoLeak`, `DownloadsWhole`,
  `MissingDeleted`. `FInv` adds: an id belongs to one upload or one entry (`Ids`),
  a blob that was closed and not torn has the counted size (`Whole`), a download's
  entry stays in the table with its size (`Found`), and sent plus left is that size
  as long as it reads (`Progress`).
- `GatewayProofs`: `TypeCorrect`, `PeopleAsNamed`, `AnswersAreTrue`,
  `RoomsAreListed`. `GInv` adds that a session has one holder and ends once
  (`Sessions`), and that ids that were looked up stand for the addresses that were
  named (`Resolved`).
  `RoomsAreListed` takes the newest of the rooms that are missing: everything before
  it is on the page, and that is a full one (`PageIsFull`).
- `HttpServerProofs`: `TypeCorrect`, `WakeupsArrive`, `NobodyLeaked`,
  `NobodyLeftBehind`, `LossExplained`. `HInv` adds that a connection is in one place
  (`Places`), why the client of one that is about to end waits for nothing
  (`Waiting`), and that workers leave
  only after the shutdown and with an empty queue (`Ending`). `NoLostWakeup` counts
  jobs against workers that are awake, and needs a finite pool. `CutsDoNotMatter` is
  about `HttpRequest`: two streams that bring the same text in pieces of their own
  are at the same character of it (`SamePlace`) after every line, every header and
  the content, because a line takes one character at a time and the content counts
  what a read really returned (`ReadSoFar`: after as many rounds as characters were
  asked for, either all are read or the text is over). `OnePieceIsEnough` follows:
  what the run compares for each way of cutting a request needs to be compared for
  the whole request only.
  `RequestRead` says what is read: for every request that is `Sendable`, every
  spelling of its id and every way to cut it, `Serve` gives what the client meant.
  The stream holds a text (`Holds`), and each part takes its own text from the front
  and leaves the rest: a line (`LineRead`), the headers one by one, each found under
  its name whichever of the optional ones are there (`HeadRead`, `GivenNext`), the
  content by the length that was written (`SpelledNumber`: the decimal number that is
  written is the one that is read; `BodyRead`). Between them, decoding undoes every
  spelling of an id (`SpellingRun`), a request line falls into its three words
  (`FirstLine`), and the target of an operation fits its route and none of the
  others, with the id in the place that is captured (`TargetAsks`, `Reaches`).
  `RequestsReadAsSent` is this for the worker. The inductions in it are
  over positions and rounds of a loop, and go through one lemma about sets of
  numbers (`Upwards`: a set with 0 and every successor up to a bound has all of
  them), since no theorem with an operator parameter can be used.
- `ClientSessionProofs`: `TypeCorrect`, `MessagesOnce`, `UsersStayApart`,
  `SessionsKept`, `RefreshTokensApart`. `SInv` adds what each kind of request is about and whose token it
  bears (`Shapes`), that one request carries a message and until it is accepted the
  message was not handed on (`Once`), and, as long as no session was left with
  requests in flight, that every request is of the user who is logged in and every
  refresh is for the token that the client holds (`Apart`). Steps that leave the user
  alone share one lemma (`Step`); logout, quit and the lost session another (`Left`).
  `RefreshTokensApart` needs little of this: only a login writes the refresh token,
  and a login that answers is for the one who logs in (`RefreshStep`).
- `ClientWindowsProofs`: `TypeCorrect`, `PanelNamesTarget`, `RowsOpenTheirOwn`,
  `SendersAreNamed`, `CallsAreMeant`. `WInv` has two halves. An open window shows
  the contacts and messages that the services hold (`Shows`: its list is theirs, its
  rows and lines are what drawing them now would give, and there is a selection
  whenever there is a conversation). It holds because each handler redraws all that
  it disturbs; the lemmas follow the functions that draw (`ListUpdated`,
  `PanelUpdated`, `RebuildShows`, `MessagesShow`), and every step is one of nine
  `WinMoves`. A dialog holds what was meant (`Picked`: checked boxes are what the
  user checked and is still listed, a confirmation box has the one id that was
  picked) and only a dialog that waits has a call that is its own (`Fine`).
  `SendersAreNamed` is about who really sent a message, and needs more of the caches:
  a message that is marked as sent is the user's, and a direct conversation has
  messages of its two people (`Owned`), since the caches are emptied before another
  user comes in (`LeftOut`: no window without a session, but for a login that is
  answered). It takes the first of the messages with
  one key that end at the one in question: that one has the header (`HeaderAbove`),
  its name is its sender's (`NameFits`), and messages of one key have one sender
  (`SameKeySameSender`).

The proofs rest on the named assumptions about constants only: nulls are no ids,
`Nothing` is no entry, the client's empty text is no user, conversation or
session, administrators are users, sizes and bounds are natural numbers, a window holds at
least one message, streams and callers are different, users and workers are
finite, keys are pairs and rooms, payloads are sequences of bytes, contact lists
and histories are sequences of what the gateway lists, and "Vous" is nobody's id.
`RequestsAssumption` is what the client guarantees of the requests it sends
(`Sendable`): ids are the server's own, numbers or "room:" and a number, so nothing
in them separates the parts of a target; a token has no line end and no "%" (it is
base64 with dots); the lines fit `MaxLine` and the four headers `MaxHeaders`, which
in the code are 32768 and 100. Nothing is assumed of a content, which may look like
anything. The `http` run evaluates it for its own requests, with the least limits
that let them through.

Only model-checked: liveness under fairness (`CallsReturn`, `RequestsEnd`,
`ServerEnds`), which the prover cannot handle. Every other property of a passing
run is the subject of a theorem.

## 6. Not modelled

- AuthManager and PasswordHasher are not in the repository: tokens are records,
  passwords are not looked at. EnvLoader and the start-up of the processes run
  once, on one thread.
- Of `httplib.h`: the client half, writing answers, chunked, compressed and
  multipart contents, contents without length, ranges, "Expect", limits on the
  length of a header and of a target, mount points; neither the gateway nor the client uses them, except
  for the writing of answers, which is one step of `Answer`.
- Deadlines of gRPC calls: there are none in the code.
- The livelock of `ensureMe`: it needs a model of why a valid token is refused
  over and over.
- Widgets and styling; the client's FileService, a dialog without a connection to
  file_service; the pages and widgets no window opens (ConversationPage,
  ContactsPage, MapPage, ContactRow, MessageBubble); the routes `/health`, `/me`,
  `/users` and `/conversations` beyond the reading of their requests, since they
  pass on what one call returns.
- Tables of the schema that nothing in the code writes; generated protobuf code;
  scripts, smoke tests and deployment.
