--------------------------- MODULE ClientWindows ---------------------------
(***************************************************************************)
(* The windows of the client (ui/windows, main.cpp) over the caches of its *)
(* services: the login window, the main window with its list of            *)
(* conversations and its panel of messages, the menus, and the four        *)
(* dialogs of the administrator.                                           *)
(*                                                                         *)
(* All of it runs on one thread.  A menu, a dialog or a message box runs   *)
(* an event loop of its own and takes the user's input; the answers of the *)
(* services are handled in the middle of it.  Which answers come when is   *)
(* ClientSession's subject: here contact lists, histories and ends of      *)
(* sessions come at any time, but for the histories of direct              *)
(* conversations that were asked for by another user.                      *)
(*                                                                         *)
(* A contact stands for its id, its name and its e-mail address.  Colours, *)
(* sizes and what the buttons without a function print are left out, and   *)
(* so are the button that hides the list and the order in which rows and   *)
(* items are shown.                                                        *)
(***************************************************************************)
EXTENDS Naturals, Sequences, FiniteSets

CONSTANTS
    People,    \* the accounts
    Rooms,
    Admins,    \* those whose role is "admin"
    You,       \* "Vous"
    None,
    Lists,     \* the contact lists that answers bring: people, then rooms
    Histories, \* the histories that answers bring
    Searches,  \* what is typed into the search box: what it matches
    Anything,  \* the empty search
    MaxCalls   \* bound: calls of dialogs in flight

Convs == People \union Rooms

ASSUME ConvsAssumption ==
    /\ Admins \subseteq People /\ People \intersect Rooms = {}
    /\ You \notin Convs /\ None \notin Convs \union {You}
ASSUME ListsAssumption ==
    /\ Lists \subseteq Seq(Convs) /\ <<>> \in Lists
    /\ Anything \in Searches /\ MaxCalls \in Nat
ASSUME HistoriesAssumption ==
    Histories \subseteq Seq([from : People, day : Nat, body : UNION Searches])

VARIABLES
    who,       \* AuthService: the user whose session the client holds
    contacts,  \* MessagingService::m_contacts
    cache,     \* MessagingService::m_messagesByConversation
    login,     \* the login window: idle, busy, or about to hear the answer
    win,       \* the main window
    dialog,    \* the menu, dialog or box that runs
    calls,     \* the calls of dialogs in flight
    posted     \* the conversation that this step posts a message to

caches == <<contacts, cache>>
vars == <<who, caches, login, win, dialog, calls, posted>>

Elements(s) == {s[i] : i \in DOMAIN s}
Empty == [c \in Convs |-> <<>>]

-----------------------------------------------------------------------------
(***************************************************************************)
(* The main window: a sidebar, a panel, and which conversation is          *)
(* selected, by its place in the list (0: none).                           *)
(***************************************************************************)
Sidebar == [rows |-> {}, search |-> Anything, banner |-> FALSE, profile |-> None]

MessagesPanel == [name |-> None, lines |-> <<>>, draft |-> FALSE]

NoWindow ==
    [open |-> FALSE, convs |-> <<>>, selected |-> 0, side |-> Sidebar, panel |-> MessagesPanel]

\* updateConversationsList: what the search does not match is left out.
Found(w, ms, c) ==
    \/ w.side.search = Anything
    \/ c \in w.side.search
    \/ ms[c] # <<>> /\ ms[c][Len(ms[c])].body \in w.side.search

Preview(h) == IF h = <<>> THEN None ELSE h[Len(h)].body

\* createConversationRow: a click selects the place that the row was made for.
Row(w, ms, i) ==
    [name |-> w.convs[i], last |-> Preview(ms[w.convs[i]]), marked |-> w.selected = i, index |-> i]

Rows(w, ms) == {Row(w, ms, i) : i \in {j \in DOMAIN w.convs : Found(w, ms, w.convs[j])}}

UpdateList(w, ms) == [w EXCEPT !.side.rows = Rows(w, ms)]

\* updateMessagesPanel: who a message is from, and where a sender's name is written.
Key(m) == IF m.sent THEN You ELSE m.from

NameOf(m, c, cs) ==
    IF m.sent THEN You ELSE IF m.from \in Elements(cs) THEN m.from ELSE c

\* Mutant: a header where sent and received alternate.
HeaderByType(h, i) == i = 1 \/ h[i].sent # h[i - 1].sent \/ h[i].day # h[i - 1].day

Header(h, i) == i = 1 \/ Key(h[i]) # Key(h[i - 1]) \/ h[i].day # h[i - 1].day

\* createMessageListItem
Line(h, i, c, cs) ==
    [body |-> h[i].body, header |-> IF Header(h, i) THEN NameOf(h[i], c, cs) ELSE None]

Lines(h, c, cs) == [i \in DOMAIN h |-> Line(h, i, c, cs)]

UpdatePanel(w, cs, ms) ==
    IF w.selected \notin DOMAIN w.convs THEN w
    ELSE LET c == w.convs[w.selected]
         IN  [w EXCEPT !.panel.name = c, !.panel.lines = Lines(ms[c], c, cs)]

\* rebuildConversationsFromContacts: the selection keeps its place.
Selected(w, cs) ==
    IF cs = <<>> THEN 0 ELSE IF w.selected \in DOMAIN cs THEN w.selected ELSE 1

Moved(w, cs) == [w EXCEPT !.convs = cs, !.selected = Selected(w, cs)]

\* Mutant: the panel is drawn anew only if another place was selected.
RebuildLazily(w, cs, ms) ==
    LET v == UpdateList(Moved(w, cs), ms)
    IN  IF v.selected = w.selected THEN v ELSE UpdatePanel(v, cs, ms)

Rebuild(w, cs, ms) == UpdatePanel(UpdateList(Moved(w, cs), ms), cs, ms)

UpdateProfileHeader(w, u) == [w EXCEPT !.side.profile = u]

\* The constructor shows what the services hold.
MainWindow(u, cs, ms) ==
    Rebuild(UpdateProfileHeader([NoWindow EXCEPT !.open = TRUE], u), cs, ms)

-----------------------------------------------------------------------------
(***************************************************************************)
(* Menus and dialogs.  pc: a dialog is open for input, asks for            *)
(* confirmation, or waits for its call; at: the current item of the list;  *)
(* ticked: the checked ones; picked: the id that onDeleteClicked holds     *)
(* while the box is open.  meant is history: what the user has picked.     *)
(***************************************************************************)
Menus == {"administration", "options", "emoji", "info"}
Deletions == {"deleteUser", "deleteRoom"}
Dialogs == Deletions \union {"createUser", "createRoom"}

NoDialog ==
    [kind |-> "none", pc |-> "open", list |-> {}, at |-> None, ticked |-> {}, picked |-> None, meant |-> {}]

Menu(k) == [NoDialog EXCEPT !.kind = k]

\* populateFromContacts: the list is cleared, and with it the current item.
UsersListed(cs) == Elements(cs) \intersect People

RoomsListed(cs) == Elements(cs) \intersect Rooms

\* populateUsers: who was checked and is listed again stays checked.
PopulateUsers(d, cs) ==
    [d EXCEPT !.list = UsersListed(cs), !.ticked = @ \intersect UsersListed(cs)]

\* Whoever leaves the list of the boxes is no longer meant.
Remembered(d, cs) ==
    IF d.kind = "createRoom"
    THEN [d EXCEPT !.meant = @ \intersect UsersListed(cs)] ELSE d

Populate(d, cs) ==
    CASE d.kind = "createRoom" -> PopulateUsers(d, cs)
      [] d.kind = "deleteUser" -> [d EXCEPT !.list = UsersListed(cs), !.at = None]
      [] d.kind = "deleteRoom" -> [d EXCEPT !.list = RoomsListed(cs), !.at = None]
      [] OTHER -> d

CreateUserDialog == Menu("createUser")
CreateRoomDialog == PopulateUsers(Menu("createRoom"), contacts)
DeleteUserDialog == Populate(Menu("deleteUser"), contacts)
DeleteRoomDialog == Populate(Menu("deleteRoom"), contacts)

-----------------------------------------------------------------------------
\* The login window, as it is made: its button waits for a click.
LoginWindow == "idle"

Message == [from : People, sent : BOOLEAN, day : Nat, body : UNION Searches]

RowType == [name : Convs, last : (UNION Searches) \union {None}, marked : BOOLEAN, index : Nat]

LineType == [body : UNION Searches, header : Convs \union {You, None}]

(* The windows and the caches have their shapes.                           *)
TypeOK ==
    /\ who \in People \union {None}
    /\ contacts \in Lists /\ cache \in [Convs -> Seq(Message)]
    /\ login \in {"idle", "busy", "answered"}
    /\ win \in [open : BOOLEAN, convs : Lists, selected : Nat,
                side : [rows : SUBSET RowType, search : Searches, banner : BOOLEAN, profile : People \union {None}],
                panel : [name : Convs \union {None}, lines : Seq(LineType), draft : BOOLEAN]]
    /\ dialog \in [kind : {"none"} \union Menus \union Dialogs, pc : {"open", "confirm", "busy"},
                   list : SUBSET Convs, at : Convs \union {None}, ticked : SUBSET People, picked : Convs \union {None},
                   meant : SUBSET Convs]
    /\ calls \subseteq [op : Dialogs, arg : SUBSET Convs, meant : SUBSET Convs, own : BOOLEAN]
    /\ posted \in Convs \union {None}

Init ==
    /\ who = None /\ contacts = <<>> /\ cache = Empty
    /\ login = LoginWindow /\ win = NoWindow /\ dialog = NoDialog
    /\ calls = {} /\ posted = None

-----------------------------------------------------------------------------
(***************************************************************************)
(* Logging in and out.                                                     *)
(***************************************************************************)
\* onLoginClicked, in a window that the main window hides.
SignIn ==
    /\ login = "idle" /\ ~win.open
    /\ login' = "busy"
    /\ UNCHANGED <<who, caches, win, dialog, calls>>

SignInFails ==
    /\ login = "busy" /\ login' = "idle"
    /\ UNCHANGED <<who, caches, win, dialog, calls>>

\* The answer sets the session; the login window hears of it by an event.
LoggedIn(u) ==
    /\ login = "busy" /\ login' = "answered"
    /\ who' = u
    /\ UNCHANGED <<caches, win, dialog, calls>>

OpenWindow ==
    /\ login = "answered" /\ login' = "idle"
    /\ win' = MainWindow(who, contacts, cache)
    /\ UNCHANGED <<who, caches, dialog, calls>>

\* The slots of userLoggedOut: the caches are cleared, the main window is deleted.
LoggedOut ==
    /\ who' = None /\ contacts' = <<>> /\ cache' = Empty
    /\ win' = NoWindow /\ dialog' = NoDialog
    /\ calls' = {[c EXCEPT !.own = FALSE] : c \in calls}
    /\ UNCHANGED login

\* The program ends and is started again.
Restart ==
    /\ who' = None /\ contacts' = <<>> /\ cache' = Empty
    /\ login' = LoginWindow /\ win' = NoWindow /\ dialog' = NoDialog /\ calls' = {}

\* A refresh was refused.  A menu or dialog on the stack is deleted with its
\* parent, which is undefined.
SessionEnds ==
    /\ who # None \/ win.open
    /\ LoggedOut \/ (dialog.kind # "none" /\ Restart)

\* "Déconnexion", with the menu on the stack.
LogOut == dialog.kind = "options" /\ (LoggedOut \/ Restart)

Quit == dialog.kind = "none" /\ Restart

-----------------------------------------------------------------------------
(***************************************************************************)
(* The services' signals.                                                  *)
(***************************************************************************)
ContactsArrive(cs) ==
    /\ contacts' = cs
    /\ win' = IF win.open THEN [Rebuild(win, cs, cache) EXCEPT !.side.banner = FALSE] ELSE win
    /\ dialog' = Remembered(Populate(dialog, cs), cs)
    /\ UNCHANGED <<who, cache, login, calls>>

\* Messages are marked as sent once GET /me has told who the user is.
Marked(h, known) ==
    [i \in DOMAIN h |-> [from |-> h[i].from, day |-> h[i].day, body |-> h[i].body,
                         sent |-> known /\ h[i].from = who]]

\* Mutant: only the panel is brought up to date.
PanelOnMessages(w, c, ms) ==
    IF w.selected \notin DOMAIN w.convs \/ w.convs[w.selected] # c THEN w ELSE UpdatePanel(w, contacts, ms)

OnMessages(w, c, ms) ==
    IF w.selected \notin DOMAIN w.convs THEN w
    ELSE UpdateList(IF w.convs[w.selected] = c THEN UpdatePanel(w, contacts, ms) ELSE w, ms)

\* The messages of a direct conversation are of the user and of its peer.
Between(h, c) == c \in Rooms \/ \A i \in DOMAIN h : h[i].from \in {who, c}

HistoryArrives(c, h, known) ==
    LET ms == [cache EXCEPT ![c] = Marked(h, known)]
    IN  /\ Between(h, c)
        /\ cache' = ms
        /\ win' = OnMessages(win, c, ms)
        /\ UNCHANGED <<who, contacts, login, dialog, calls>>

ErrorOccurs ==
    /\ win.open /\ ~win.side.banner
    /\ win' = [win EXCEPT !.side.banner = TRUE]
    /\ UNCHANGED <<who, caches, login, dialog, calls>>

-----------------------------------------------------------------------------
(***************************************************************************)
(* The user, in the main window.                                           *)
(***************************************************************************)
Reachable == win.open /\ dialog.kind = "none"

\* selectConversation, which asks for the history too.
SelectConversation(i) ==
    LET w == [win EXCEPT !.selected = i]
    IN  win' = IF i \in DOMAIN win.convs THEN UpdatePanel(UpdateList(w, cache), contacts, cache) ELSE win

Click(r) ==
    /\ Reachable /\ r \in win.side.rows
    /\ SelectConversation(r.index)
    /\ UNCHANGED <<who, caches, login, dialog, calls>>

Search(s) ==
    /\ Reachable
    /\ win' = UpdateList([win EXCEPT !.side.search = s], cache)
    /\ UNCHANGED <<who, caches, login, dialog, calls>>

\* Typing, or an emoji of the menu.
Type ==
    /\ win.open /\ dialog.kind \in {"none", "emoji"}
    /\ win' = [win EXCEPT !.panel.draft = TRUE]
    /\ dialog' = NoDialog
    /\ UNCHANGED <<who, caches, login, calls>>

\* onSendMessage; the services are told the selected conversation.
Send ==
    /\ Reachable /\ win.panel.draft /\ win.selected \in DOMAIN win.convs
    /\ win' = [win EXCEPT !.panel.draft = FALSE]
    /\ posted' = win.convs[win.selected]
    /\ UNCHANGED <<who, caches, login, dialog, calls>>

\* onNewChatClicked, onMoreOptionsClicked, onEmojiClicked
OpenMenu ==
    /\ Reachable
    /\ dialog' \in {Menu("options"), Menu("emoji"), Menu(IF who \in Admins THEN "administration" ELSE "info")}
    /\ UNCHANGED <<who, caches, login, win, calls>>

OpenDialog ==
    /\ dialog.kind = "administration"
    /\ dialog' \in {CreateUserDialog, CreateRoomDialog, DeleteUserDialog, DeleteRoomDialog}
    /\ UNCHANGED <<who, caches, login, win, calls>>

-----------------------------------------------------------------------------
(***************************************************************************)
(* The user, in a dialog.                                                  *)
(***************************************************************************)
Open(k) == dialog.kind = k /\ dialog.pc = "open"

OnlyDialog == UNCHANGED <<who, caches, login, win>>

\* A click on an item, or the list gets the focus and takes its first item.
PickItem(c) ==
    /\ \E k \in Deletions : Open(k)
    /\ c \in dialog.list
    /\ dialog' = [dialog EXCEPT !.at = c]
    /\ UNCHANGED calls /\ OnlyDialog

\* Checks a box or clears it.
Tick(u) ==
    /\ Open("createRoom") /\ u \in dialog.list
    /\ dialog' = IF u \in dialog.ticked
                 THEN [dialog EXCEPT !.ticked = @ \ {u}, !.meant = @ \ {u}]
                 ELSE [dialog EXCEPT !.ticked = @ \union {u}, !.meant = @ \union {u}]
    /\ UNCHANGED calls /\ OnlyDialog

\* setUiBusy(true), and the call.
Ask(S) ==
    /\ Cardinality(calls) < MaxCalls
    /\ calls' = calls \union {[op |-> dialog.kind, arg |-> S, meant |-> dialog.meant, own |-> TRUE]}
    /\ dialog' = [dialog EXCEPT !.pc = "busy"]
    /\ OnlyDialog

CreateUser == Open("createUser") /\ Ask({})

CreateRoom == Open("createRoom") /\ dialog.ticked # {} /\ Ask(dialog.ticked)

\* onDeleteClicked up to the confirmation box.
Delete(k) ==
    /\ Open(k) /\ dialog.at \in dialog.list
    /\ dialog' = [dialog EXCEPT !.pc = "confirm", !.picked = dialog.at, !.meant = {dialog.at}]
    /\ UNCHANGED calls /\ OnlyDialog

DeleteUser == Delete("deleteUser")

DeleteRoom == Delete("deleteRoom")

\* Mutant: the item is looked up when the box has been answered.
ConfirmCurrent ==
    /\ dialog.pc = "confirm"
    /\ \E c \in dialog.list : (dialog.at \in {None, c}) /\ Ask({c})

Confirm == dialog.pc = "confirm" /\ Ask({dialog.picked})

\* No, Annuler, Escape, or the window's own button, which works while the dialog waits.
Cancel ==
    /\ dialog.kind # "none"
    /\ IF dialog.pc = "confirm"
       THEN dialog' = [dialog EXCEPT !.pc = "open"] /\ UNCHANGED calls
       ELSE dialog' = NoDialog /\ calls' = {[c EXCEPT !.own = FALSE] : c \in calls}
    /\ OnlyDialog

\* A dialog that is gone has taken its watcher with it.
Answer(c) ==
    /\ calls' = calls \ {c}
    /\ dialog' \in IF c.own THEN {NoDialog, [dialog EXCEPT !.pc = "open"]} ELSE {dialog}
    /\ OnlyDialog

-----------------------------------------------------------------------------
Signals ==
    \/ \E cs \in Lists : ContactsArrive(cs)
    \/ \E c \in Convs, h \in Histories, known \in BOOLEAN : HistoryArrives(c, h, known)
    \/ ErrorOccurs \/ SessionEnds
    \/ \E c \in calls : Answer(c)

Input ==
    \/ \E r \in win.side.rows : Click(r)
    \/ \E s \in Searches : Search(s)
    \/ Type \/ OpenMenu \/ OpenDialog \/ LogOut \/ Quit
    \/ \E c \in dialog.list : PickItem(c)
    \/ \E u \in People : Tick(u)
    \/ CreateUser \/ CreateRoom \/ DeleteUser \/ DeleteRoom \/ Confirm \/ Cancel

Next ==
    \/ Send
    \/ /\ posted' = None
       /\ SignIn \/ SignInFails \/ (\E u \in People : LoggedIn(u)) \/ OpenWindow \/ Signals \/ Input

Spec == Init /\ [][Next]_vars

-----------------------------------------------------------------------------
(* Whatever arrives and wherever the selection moves, the panel names the  *)
(* conversation that the next message goes to, and shows what the client   *)
(* has of it; a message goes to no other conversation than the named one.  *)
PanelIsTarget ==
    /\ win.open /\ win.selected \in DOMAIN win.convs =>
           LET c == win.convs[win.selected]
           IN  /\ win.panel.name = c
               /\ [i \in DOMAIN win.panel.lines |-> win.panel.lines[i].body]
                      = [i \in DOMAIN cache[c] |-> cache[c][i].body]
    /\ posted # None => win.panel.name = posted

(* A row opens the conversation that it names and shows the last message   *)
(* that the client has of it; the marked one is the selected one; and of   *)
(* the contacts nothing that the search matches is missing.                *)
RowsLead ==
    win.open =>
        /\ \A r \in win.side.rows :
               /\ r.index \in DOMAIN win.convs /\ win.convs[r.index] = r.name
               /\ r.last = Preview(cache[r.name])
               /\ r.marked <=> r.index = win.selected
        /\ \A c \in Elements(contacts) :
               Found(win, cache, c) <=> \E r \in win.side.rows : r.name = c

\* Whether the header n may stand above the message m of the conversation c.
IsAbove(n, m, c) ==
    \/ n = You /\ m.from = who
    \/ n = m.from /\ ~m.sent
    \/ n = c /\ c \in Rooms /\ ~m.sent /\ m.from \notin Elements(contacts)
    \/ n = c /\ c \in People /\ ~m.sent /\ m.from = who

(* The nearest header above a message that is shown is of who wrote it,    *)
(* also after the contacts, the history or the selection changed.  Two     *)
(* exceptions are the code's: in a room, its own name stands for a sender  *)
(* who is not among the contacts; and until GET /me has told the client    *)
(* who the user is, his own messages of a direct conversation stand below  *)
(* the peer's name, for GET /users does not list him either.               *)
Attributed ==
    win.open /\ win.selected \in DOMAIN win.convs =>
        LET c == win.convs[win.selected]
        IN  \A i \in DOMAIN win.panel.lines :
                \E j \in 1 .. i :
                    /\ IsAbove(win.panel.lines[j].header, cache[c][i], c)
                    /\ \A k \in j + 1 .. i : win.panel.lines[k].header = None

(* A call of a dialog asks for what the user had picked when the button    *)
(* was pressed, whatever was reloaded while the user picked, or before the *)
(* box was answered; and a dialog waits if and only if it has one call in  *)
(* flight whose answer it will hear.                                       *)
AsksAsMeant ==
    /\ \A c \in calls : c.arg = c.meant
    /\ IF dialog.pc = "busy"
       THEN \E x \in calls : x.op = dialog.kind /\ {c \in calls : c.own} = {x}
       ELSE \A c \in calls : ~c.own

=============================================================================
