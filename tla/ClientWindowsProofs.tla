------------------------ MODULE ClientWindowsProofs ------------------------
(***************************************************************************)
(* Proofs about ClientWindows for any accounts, rooms, contact lists,      *)
(* histories, searches and number of calls.                                *)
(***************************************************************************)
EXTENDS ClientWindows, NaturalsInduction, WellFoundedInduction, TLAPS

-----------------------------------------------------------------------------
SideType == [rows : SUBSET RowType, search : Searches, banner : BOOLEAN, profile : People \union {None}]

PanelType == [name : Convs \union {None}, lines : Seq(LineType), draft : BOOLEAN]

WinType == [open : BOOLEAN, convs : Lists, selected : Nat, side : SideType, panel : PanelType]

DialogType ==
    [kind : {"none"} \union Menus \union Dialogs, pc : {"open", "confirm", "busy"},
     list : SUBSET Convs, at : Convs \union {None}, ticked : SUBSET People, picked : Convs \union {None},
     meant : SUBSET Convs]

CallType == [op : Dialogs, arg : SUBSET Convs, meant : SUBSET Convs, own : BOOLEAN]

Caches == [Convs -> Seq(Message)]

\* The types of what is not a window or a dialog.
Services ==
    /\ who \in People \union {None} /\ contacts \in Lists /\ cache \in Caches
    /\ login \in {"idle", "busy", "answered"} /\ posted \in Convs \union {None}

\* An open window shows the contacts cs and the messages ms.
Shows(w, cs, ms) ==
    /\ w.convs = cs /\ (cs # <<>> => w.selected \in DOMAIN cs)
    /\ w.side.rows = Rows(w, ms)
    /\ w.selected \in DOMAIN cs =>
           /\ w.panel.name = cs[w.selected]
           /\ w.panel.lines = Lines(ms[cs[w.selected]], cs[w.selected], cs)

Windows ==
    /\ win \in WinType
    /\ win.open => Shows(win, contacts, cache)
    /\ posted # None => win.panel.name = posted

\* What a dialog has remembered of the user's choice.
Picked(d) ==
    /\ d.kind \notin Dialogs => d.pc = "open"
    /\ d.pc = "confirm" => d.kind \in Deletions /\ d.meant = {d.picked} /\ d.picked \in Convs
    /\ d.kind = "createRoom" => d.ticked = d.meant
    /\ d.kind = "createUser" => d.meant = {}

Asking == dialog \in DialogType /\ calls \subseteq CallType /\ Picked(dialog) /\ AsksAsMeant

WInv == Services /\ Windows /\ Asking

LEMMA TypeParts ==
    TypeOK <=> Services /\ win \in WinType /\ dialog \in DialogType /\ calls \subseteq CallType
BY DEF TypeOK, Services, WinType, SideType, PanelType, DialogType, CallType, Caches

LEMMA Constants ==
    /\ You \notin Convs /\ None \notin Convs /\ You # None
    /\ <<>> \in Lists /\ Anything \in Searches
    /\ \A cs \in Lists : cs \in Seq(Convs) /\ DOMAIN cs \subseteq Nat /\ (cs # <<>> => 1 \in DOMAIN cs)
    /\ People \subseteq Convs
<1>1. ASSUME NEW cs \in Lists
      PROVE  cs \in Seq(Convs) /\ DOMAIN cs \subseteq Nat /\ (cs # <<>> => 1 \in DOMAIN cs)
    <2>1. cs \in Seq(Convs)
        BY ListsAssumption
    <2>2. DOMAIN cs = 1 .. Len(cs) /\ Len(cs) \in Nat
        BY <2>1
    <2>3. cs # <<>> => Len(cs) # 0
        BY <2>1
    <2> QED
        BY <2>1, <2>2, <2>3
<1> QED
    BY <1>1, ConvsAssumption, ListsAssumption DEF Convs

LEMMA Places ==
    ASSUME NEW cs \in Lists, NEW i \in DOMAIN cs
    PROVE  cs[i] \in Convs /\ i \in Nat
BY Constants

-----------------------------------------------------------------------------
(***************************************************************************)
(* Drawing a window.                                                       *)
(***************************************************************************)
LEMMA RowsTyped ==
    ASSUME NEW w \in WinType, NEW ms \in Caches
    PROVE  Rows(w, ms) \subseteq RowType
<1> SUFFICES ASSUME NEW i \in DOMAIN w.convs PROVE Row(w, ms, i) \in RowType
    BY DEF Rows
<1>1. w.convs \in Lists
    BY DEF WinType
<1>2. w.convs[i] \in Convs /\ i \in Nat
    BY <1>1, Places
<1>3. Preview(ms[w.convs[i]]) \in (UNION Searches) \union {None}
    <2>1. PICK h : h = ms[w.convs[i]]
        OBVIOUS
    <2>2. h \in Seq(Message)
        BY <1>2, <2>1 DEF Caches
    <2>3. CASE h # <<>>
        <3>1. Len(h) \in DOMAIN h
            BY <2>2, <2>3
        <3>2. h[Len(h)] \in Message
            BY <2>2, <3>1
        <3> QED
            BY <2>1, <2>3, <3>2 DEF Preview, Message
    <2>4. CASE h = <<>>
        <3>1. Preview(h) = None
            BY <2>4 DEF Preview
        <3> QED
            BY <2>1, <3>1
    <2> QED
        BY <2>3, <2>4
<1> QED
    BY <1>2, <1>3 DEF Row, RowType

\* The rows depend on the contacts, the selection and the search.
LEMMA SameRows ==
    ASSUME NEW v, NEW w, NEW ms, v.convs = w.convs, v.selected = w.selected,
           v.side.search = w.side.search
    PROVE  Rows(v, ms) = Rows(w, ms)
BY DEF Rows, Row, Found

LEMMA LinesTyped ==
    ASSUME NEW h \in Seq(Message), NEW c \in Convs, NEW cs
    PROVE  Lines(h, c, cs) \in Seq(LineType)
<1>1. ASSUME NEW i \in DOMAIN h PROVE Line(h, i, c, cs) \in LineType
    <2>1. h[i] \in Message
        OBVIOUS
    <2>2. NameOf(h[i], c, cs) \in Convs \union {You}
        BY <2>1, Constants DEF NameOf, Message
    <2> QED
        BY <2>1, <2>2 DEF Line, LineType, Message
<1>2. DOMAIN h = 1 .. Len(h) /\ Len(h) \in Nat
    OBVIOUS
<1> QED
    BY <1>1, <1>2 DEF Lines

LEMMA ListUpdated ==
    ASSUME NEW w \in WinType, NEW ms \in Caches, NEW v, v = UpdateList(w, ms)
    PROVE  /\ v \in WinType /\ v.open = w.open /\ v.convs = w.convs /\ v.selected = w.selected
           /\ v.panel = w.panel /\ v.side.rows = Rows(v, ms)
<1>1. PICK rs : rs = Rows(w, ms)
    OBVIOUS
<1>2. rs \subseteq RowType
    BY <1>1, RowsTyped
<1>3. PICK side : side = [w.side EXCEPT !.rows = rs]
    OBVIOUS
<1>4. side \in SideType /\ side.rows = rs /\ side.search = w.side.search
    BY <1>2, <1>3 DEF WinType, SideType
<1>5. v = [w EXCEPT !.side = side]
    BY <1>1, <1>3 DEF UpdateList
<1>6. /\ v \in WinType /\ v.open = w.open /\ v.convs = w.convs /\ v.selected = w.selected
      /\ v.panel = w.panel /\ v.side = side
    BY <1>4, <1>5 DEF WinType
<1>7. Rows(v, ms) = Rows(w, ms)
    BY <1>4, <1>6, SameRows
<1> QED
    BY <1>1, <1>4, <1>6, <1>7

LEMMA PanelUpdated ==
    ASSUME NEW w \in WinType, NEW cs \in Lists, NEW ms \in Caches, NEW v, v = UpdatePanel(w, cs, ms)
    PROVE  /\ v \in WinType /\ v.open = w.open /\ v.convs = w.convs /\ v.selected = w.selected
           /\ v.side = w.side
           /\ w.selected \in DOMAIN w.convs =>
                  /\ v.panel.name = w.convs[w.selected]
                  /\ v.panel.lines = Lines(ms[w.convs[w.selected]], w.convs[w.selected], cs)
<1>1. CASE w.selected \notin DOMAIN w.convs
    BY <1>1 DEF UpdatePanel
<1>2. CASE w.selected \in DOMAIN w.convs
    <2>1. PICK c : c = w.convs[w.selected]
        OBVIOUS
    <2>2. PICK ls : ls = Lines(ms[c], c, cs)
        OBVIOUS
    <2>3. c \in Convs
        BY <1>2, <2>1, Places DEF WinType
    <2>4. ls \in Seq(LineType)
        BY <2>2, <2>3, LinesTyped DEF Caches
    <2>5. PICK panel : panel = [[w.panel EXCEPT !.name = c] EXCEPT !.lines = ls]
        OBVIOUS
    <2>6. panel \in PanelType /\ panel.name = c /\ panel.lines = ls
        BY <2>3, <2>4, <2>5 DEF WinType, PanelType
    <2>7. v = [w EXCEPT !.panel = panel]
        BY <1>2, <2>1, <2>2, <2>5 DEF UpdatePanel, WinType
    <2>8. /\ v \in WinType /\ v.open = w.open /\ v.convs = w.convs /\ v.selected = w.selected
          /\ v.side = w.side /\ v.panel = panel
        BY <2>6, <2>7 DEF WinType
    <2> QED
        BY <2>1, <2>2, <2>6, <2>8
<1> QED
    BY <1>1, <1>2

LEMMA RebuildShows ==
    ASSUME NEW w \in WinType, NEW cs \in Lists, NEW ms \in Caches, NEW v, v = Rebuild(w, cs, ms)
    PROVE  v \in WinType /\ v.open = w.open /\ Shows(v, cs, ms)
<1>1. PICK m : m = Moved(w, cs)
    OBVIOUS
<1>2. Selected(w, cs) \in Nat /\ (cs # <<>> => Selected(w, cs) \in DOMAIN cs)
    BY Constants DEF Selected
<1>3. /\ m \in WinType /\ m.open = w.open /\ m.convs = cs
      /\ (cs # <<>> => m.selected \in DOMAIN cs)
    BY <1>1, <1>2 DEF Moved, WinType
<1>4. PICK l : l = UpdateList(m, ms)
    OBVIOUS
<1>5. /\ l \in WinType /\ l.open = w.open /\ l.convs = cs /\ l.selected = m.selected
      /\ l.side.rows = Rows(l, ms)
    BY <1>3, <1>4, ListUpdated
<1>6. v = UpdatePanel(l, cs, ms)
    BY <1>1, <1>4 DEF Rebuild
<1>7. /\ v \in WinType /\ v.open = w.open /\ v.convs = cs /\ v.selected = m.selected
      /\ v.side = l.side
      /\ v.selected \in DOMAIN cs =>
             /\ v.panel.name = cs[v.selected]
             /\ v.panel.lines = Lines(ms[cs[v.selected]], cs[v.selected], cs)
    BY <1>5, <1>6, PanelUpdated
<1>8. Rows(v, ms) = Rows(l, ms)
    BY <1>5, <1>7, SameRows
<1> QED
    BY <1>3, <1>5, <1>7, <1>8 DEF Shows

\* A window whose list is drawn anew after a search or a selection.
LEMMA ListShows ==
    ASSUME NEW w \in WinType, NEW cs \in Lists, NEW ms \in Caches, w.convs = cs,
           cs # <<>> => w.selected \in DOMAIN cs,
           w.selected \in DOMAIN cs =>
               /\ w.panel.name = cs[w.selected]
               /\ w.panel.lines = Lines(ms[cs[w.selected]], cs[w.selected], cs),
           NEW v, v = UpdateList(w, ms)
    PROVE  v \in WinType /\ v.open = w.open /\ Shows(v, cs, ms)
BY ListUpdated DEF Shows

LEMMA MessagesShow ==
    ASSUME NEW w \in WinType, NEW cs \in Lists, contacts = cs, NEW ms \in Caches, NEW new \in Caches,
           NEW c \in Convs, \A d \in Convs : d # c => new[d] = ms[d],
           NEW v, v = OnMessages(w, c, new)
    PROVE  v \in WinType /\ v.open = w.open /\ (Shows(w, cs, ms) => Shows(v, cs, new))
<1>0. new \in Caches /\ \A d \in Convs : d # c => new[d] = ms[d]
    OBVIOUS
<1>1. CASE w.selected \notin DOMAIN w.convs
    <2>1. v = w
        BY <1>1 DEF OnMessages
    <2>2. ASSUME Shows(w, cs, ms) PROVE Shows(w, cs, new)
        <3>1. w.convs = <<>>
            BY <1>1, <2>2 DEF Shows
        <3>2. DOMAIN w.convs = {}
            BY <3>1
        <3>3. Rows(w, ms) = {} /\ Rows(w, new) = {}
            BY <3>2 DEF Rows
        <3> QED
            BY <1>1, <2>2, <3>3 DEF Shows
    <2> QED
        BY <2>1, <2>2
<1>2. CASE w.selected \in DOMAIN w.convs
    <2>1. PICK u : u = IF w.convs[w.selected] = c THEN UpdatePanel(w, contacts, new) ELSE w
        OBVIOUS
    <2>2. v = UpdateList(u, new)
        BY <1>2, <2>1 DEF OnMessages
    <2>3. /\ u \in WinType /\ u.open = w.open /\ u.convs = w.convs /\ u.selected = w.selected
          /\ w.convs[w.selected] = c =>
                 u.panel.name = c /\ u.panel.lines = Lines(new[c], c, cs)
          /\ w.convs[w.selected] # c => u = w
        <3>1. CASE w.convs[w.selected] = c
            <4>1. u = UpdatePanel(w, cs, new)
                BY <2>1, <3>1
            <4>2. new \in Caches
                BY <1>0
            <4>3. u \in WinType
                BY <4>1, <4>2, PanelUpdated
            <4>4. u.open = w.open /\ u.convs = w.convs /\ u.selected = w.selected
                BY <4>1, <4>2, PanelUpdated
            <4>5. u.panel.name = c
                BY <1>2, <3>1, <4>1, <4>2, PanelUpdated
            <4>6. u.panel.lines = Lines(new[c], c, cs)
                <5>1. \A n \in Caches : u = UpdatePanel(w, cs, n) => u.panel.lines = Lines(n[c], c, cs)
                    BY <1>2, <3>1, PanelUpdated
                <5> QED
                    BY ONLY <4>1, <4>2, <5>1
            <4> QED
                BY <3>1, <4>3, <4>4, <4>5, <4>6
        <3>2. CASE w.convs[w.selected] # c
            BY <2>1, <3>2
        <3> QED
            BY <3>1, <3>2
    <2>4. w.convs[w.selected] \in Convs
        BY <1>2, Places DEF WinType
    <2>5. ASSUME Shows(w, cs, ms)
          PROVE  /\ u.panel.name = cs[u.selected]
                 /\ u.panel.lines = Lines(new[cs[u.selected]], cs[u.selected], cs)
        BY <1>0, <1>2, <2>3, <2>4, <2>5 DEF Shows
    <2>6. v \in WinType /\ v.open = w.open
        BY <1>0, <2>2, <2>3, ListUpdated
    <2>7. ASSUME Shows(w, cs, ms) PROVE Shows(v, cs, new)
        <3>1. u.convs = cs /\ u.selected \in DOMAIN cs
            BY <1>2, <2>3, <2>7 DEF Shows
        <3> QED
            BY <1>0, <2>2, <2>3, <2>5, <2>7, <3>1, ListShows
    <2> QED
        BY <2>6, <2>7
<1> QED
    BY <1>1, <1>2

-----------------------------------------------------------------------------
(***************************************************************************)
(* The steps, as the services, the windows and the dialogs see them.       *)
(***************************************************************************)
LEMMA NoWindowTyped == NoWindow \in WinType /\ ~NoWindow.open
<1>1. Sidebar \in SideType
    BY Constants DEF Sidebar, SideType
<1>2. MessagesPanel \in PanelType
    BY DEF MessagesPanel, PanelType
<1> QED
    BY <1>1, <1>2, Constants DEF NoWindow, WinType

LEMMA EmptyTyped == Empty \in Caches
BY DEF Empty, Caches

LEMMA MarkedTyped ==
    ASSUME Services, NEW h \in Histories, NEW known \in BOOLEAN
    PROVE  Marked(h, known) \in Seq(Message)
<1>1. h \in Seq([from : People, day : Nat, body : UNION Searches])
    BY HistoriesAssumption
<1>2. DOMAIN h = 1 .. Len(h) /\ Len(h) \in Nat
    BY <1>1
<1>3. ASSUME NEW i \in DOMAIN h
      PROVE  [from |-> h[i].from, day |-> h[i].day, body |-> h[i].body,
              sent |-> known /\ h[i].from = who] \in Message
    <2>1. h[i] \in [from : People, day : Nat, body : UNION Searches]
        <3>1. PICK R : R = [from : People, day : Nat, body : UNION Searches]
            OBVIOUS
        <3>2. h \in Seq(R)
            BY <1>1, <3>1
        <3>3. h[i] \in R
            BY <1>3, <3>2
        <3> QED
            BY <3>1, <3>3
    <2>2. (known /\ h[i].from = who) \in BOOLEAN
        OBVIOUS
    <2> QED
        BY <2>1, <2>2 DEF Message
<1> QED
    BY <1>2, <1>3 DEF Marked

\* What a step does to the services and the windows.
Ended ==
    /\ who' = None /\ contacts' = <<>> /\ cache' = Empty /\ win' = NoWindow

WinMoves ==
    \/ UNCHANGED <<caches, win>>
    \/ UNCHANGED caches /\ win' = MainWindow(who, contacts, cache)
    \/ Ended
    \/ \E cs \in Lists : contacts' = cs /\ UNCHANGED cache
           /\ win' = IF win.open THEN [Rebuild(win, cs, cache) EXCEPT !.side.banner = FALSE] ELSE win
    \/ \E c \in Convs, h \in Seq(Message) :
           LET ms == [cache EXCEPT ![c] = h]
           IN  cache' = ms /\ UNCHANGED contacts /\ win' = OnMessages(win, c, ms)
    \/ UNCHANGED caches /\ win' = [win EXCEPT !.side.banner = TRUE]
    \/ UNCHANGED caches /\ \E i : win.open /\ SelectConversation(i)
    \/ UNCHANGED caches /\ win.open /\ \E s \in Searches :
           win' = UpdateList([win EXCEPT !.side.search = s], cache)
    \/ UNCHANGED caches /\ \E b \in BOOLEAN : win' = [win EXCEPT !.panel.draft = b]

LEMMA OneWinMove ==
    ASSUME WInv, [Next]_vars
    PROVE  /\ WinMoves
           /\ who' \in People \union {None} /\ login' \in {"idle", "busy", "answered"}
           /\ \/ posted' = None \/ UNCHANGED <<posted, win>>
              \/ /\ win.open /\ win.selected \in DOMAIN win.convs
                 /\ posted' = win.convs[win.selected] /\ win' = [win EXCEPT !.panel.draft = FALSE]
<1> DEFINE Goal == WinMoves /\ who' \in People \union {None} /\ login' \in {"idle", "busy", "answered"}
<1>0. Services
    BY DEF WInv
<1>1. ASSUME UNCHANGED vars PROVE Goal
    BY <1>0, <1>1 DEF vars, caches, WinMoves, Services
<1>2. ASSUME Send PROVE Goal
    BY <1>0, <1>2 DEF Send, Reachable, caches, WinMoves, Services
<1>3. ASSUME SignIn \/ SignInFails \/ \E u \in People : LoggedIn(u) PROVE Goal
    BY <1>0, <1>3 DEF SignIn, SignInFails, LoggedIn, caches, WinMoves, Services
<1>4. ASSUME OpenWindow PROVE Goal
    BY <1>0, <1>4 DEF OpenWindow, caches, WinMoves, Services
<1>5. ASSUME LoggedOut PROVE Goal
    BY <1>0, <1>5 DEF LoggedOut, Ended, WinMoves, Services
<1>6. ASSUME Restart PROVE Goal
    BY <1>0, <1>6 DEF Restart, Ended, LoginWindow, WinMoves, Services
<1>7. ASSUME NEW cs \in Lists, ContactsArrive(cs) PROVE Goal
    BY <1>0, <1>7 DEF ContactsArrive, WinMoves, Services
<1>8. ASSUME NEW c \in Convs, NEW h \in Histories, NEW known \in BOOLEAN, HistoryArrives(c, h, known)
      PROVE  Goal
    <2>1. Marked(h, known) \in Seq(Message)
        BY <1>0, MarkedTyped
    <2> QED
        BY <1>0, <1>8, <2>1 DEF HistoryArrives, WinMoves, Services
<1>9. ASSUME ErrorOccurs PROVE Goal
    BY <1>0, <1>9 DEF ErrorOccurs, caches, WinMoves, Services
<1>10. ASSUME NEW r, Click(r) PROVE Goal
    BY <1>0, <1>10 DEF Click, Reachable, caches, WinMoves, Services
<1>11. ASSUME NEW s \in Searches, Search(s) PROVE Goal
    BY <1>0, <1>11 DEF Search, Reachable, caches, WinMoves, Services
<1>12. ASSUME Type PROVE Goal
    BY <1>0, <1>12 DEF Type, caches, WinMoves, Services
<1>13. ASSUME UNCHANGED <<who, caches, login, win>> PROVE Goal
    BY <1>0, <1>13 DEF caches, WinMoves, Services
<1>14. ASSUME OpenMenu \/ OpenDialog \/ CreateUser \/ CreateRoom \/ DeleteUser \/ DeleteRoom \/ Confirm \/ Cancel PROVE Goal
    BY <1>13, <1>14 DEF OpenMenu, OpenDialog, CreateUser, CreateRoom, DeleteUser, DeleteRoom, Delete,
           Confirm, Cancel, Ask, OnlyDialog
<1>15. ASSUME (\E c \in calls : Answer(c)) \/ (\E c \in dialog.list : PickItem(c)) \/ \E u \in People : Tick(u) PROVE Goal
    BY <1>13, <1>15 DEF Answer, PickItem, Tick, OnlyDialog
<1>16. ASSUME SessionEnds \/ LogOut \/ Quit PROVE Goal
    BY <1>5, <1>6, <1>16 DEF SessionEnds, LogOut, Quit
<1>17. Goal
    BY <1>1, <1>2, <1>3, <1>4, <1>7, <1>8, <1>9, <1>10, <1>11, <1>12, <1>14, <1>15, <1>16
       DEF Next, Signals, Input
<1>18. \/ posted' = None \/ UNCHANGED <<posted, win>>
       \/ /\ win.open /\ win.selected \in DOMAIN win.convs
          /\ posted' = win.convs[win.selected] /\ win' = [win EXCEPT !.panel.draft = FALSE]
    BY DEF Next, vars, Send, Reachable
<1> QED
    BY <1>17, <1>18

\* The banner, the draft and the profile are not part of what a window shows.
LEMMA Retouched ==
    ASSUME NEW w, NEW v, NEW cs, NEW ms, Shows(w, cs, ms),
           v.convs = w.convs, v.selected = w.selected,
           v.side.rows = w.side.rows, v.side.search = w.side.search,
           v.panel.name = w.panel.name, v.panel.lines = w.panel.lines
    PROVE  Shows(v, cs, ms)
BY SameRows DEF Shows

LEMMA BannerSet ==
    ASSUME NEW w \in WinType, NEW b \in BOOLEAN, NEW v, v = [w EXCEPT !.side.banner = b]
    PROVE  /\ v \in WinType /\ v.open = w.open /\ v.convs = w.convs /\ v.selected = w.selected
           /\ v.side.rows = w.side.rows /\ v.side.search = w.side.search /\ v.panel = w.panel
<1>1. PICK side : side = [w.side EXCEPT !.banner = b]
    OBVIOUS
<1>2. side \in SideType /\ side.rows = w.side.rows /\ side.search = w.side.search
    BY <1>1 DEF WinType, SideType
<1>3. v = [w EXCEPT !.side = side]
    BY <1>1
<1> QED
    BY <1>2, <1>3 DEF WinType

LEMMA DraftSet ==
    ASSUME NEW w \in WinType, NEW b \in BOOLEAN, NEW v, v = [w EXCEPT !.panel.draft = b]
    PROVE  /\ v \in WinType /\ v.open = w.open /\ v.convs = w.convs /\ v.selected = w.selected
           /\ v.panel.name = w.panel.name /\ v.panel.lines = w.panel.lines /\ v.side = w.side
<1>1. PICK panel : panel = [w.panel EXCEPT !.draft = b]
    OBVIOUS
<1>2. panel \in PanelType /\ panel.name = w.panel.name /\ panel.lines = w.panel.lines
    BY <1>1 DEF WinType, PanelType
<1>3. v = [w EXCEPT !.panel = panel]
    BY <1>1
<1> QED
    BY <1>2, <1>3 DEF WinType

LEMMA MainWindowShows ==
    ASSUME NEW u \in People \union {None}, NEW cs \in Lists, NEW ms \in Caches,
           NEW v, v = MainWindow(u, cs, ms)
    PROVE  v \in WinType /\ Shows(v, cs, ms)
<1>1. PICK side : side = [Sidebar EXCEPT !.profile = u]
    OBVIOUS
<1>2. side \in SideType
    BY <1>1, Constants DEF Sidebar, SideType
<1>3. PICK w : w = [[NoWindow EXCEPT !.open = TRUE] EXCEPT !.side = side]
    OBVIOUS
<1>4. w \in WinType
    BY <1>2, <1>3, NoWindowTyped DEF WinType
<1>5. w = UpdateProfileHeader([NoWindow EXCEPT !.open = TRUE], u)
    BY <1>1, <1>3 DEF UpdateProfileHeader, NoWindow
<1>6. v = Rebuild(w, cs, ms)
    BY <1>5 DEF MainWindow
<1> QED
    BY <1>4, <1>6, RebuildShows

LEMMA SelectionShows ==
    ASSUME NEW w \in WinType, NEW cs \in Lists, NEW ms \in Caches, w.convs = cs, NEW i \in DOMAIN cs,
           NEW v, v = UpdatePanel(UpdateList([w EXCEPT !.selected = i], ms), cs, ms)
    PROVE  v \in WinType /\ v.open = w.open /\ Shows(v, cs, ms)
<1>1. PICK m : m = [w EXCEPT !.selected = i]
    OBVIOUS
<1>2. m \in WinType /\ m.open = w.open /\ m.convs = cs /\ m.selected = i
    BY <1>1, Places DEF WinType
<1>3. PICK l : l = UpdateList(m, ms)
    OBVIOUS
<1>4. /\ l \in WinType /\ l.open = w.open /\ l.convs = cs /\ l.selected = i
      /\ l.side.rows = Rows(l, ms)
    BY <1>2, <1>3, ListUpdated
<1>5. v = UpdatePanel(l, cs, ms)
    BY <1>1, <1>3
<1>6. /\ v \in WinType /\ v.open = w.open /\ v.convs = cs /\ v.selected = i
      /\ v.side = l.side
      /\ v.panel.name = cs[i] /\ v.panel.lines = Lines(ms[cs[i]], cs[i], cs)
    BY <1>4, <1>5, PanelUpdated
<1>7. Rows(v, ms) = Rows(l, ms)
    BY <1>4, <1>6, SameRows
<1> QED
    BY <1>4, <1>6, <1>7 DEF Shows

LEMMA SearchShows ==
    ASSUME NEW w \in WinType, NEW cs \in Lists, NEW ms \in Caches, Shows(w, cs, ms),
           NEW s \in Searches, NEW v, v = UpdateList([w EXCEPT !.side.search = s], ms)
    PROVE  v \in WinType /\ v.open = w.open /\ Shows(v, cs, ms)
<1>1. PICK side : side = [w.side EXCEPT !.search = s]
    OBVIOUS
<1>2. side \in SideType
    BY <1>1 DEF WinType, SideType
<1>3. PICK m : m = [w EXCEPT !.side = side]
    OBVIOUS
<1>4. /\ m \in WinType /\ m.open = w.open /\ m.convs = w.convs /\ m.selected = w.selected
      /\ m.panel = w.panel
    BY <1>2, <1>3 DEF WinType
<1>5. m = [w EXCEPT !.side.search = s]
    BY <1>1, <1>3
<1>6. v = UpdateList(m, ms)
    BY <1>5
<1>7. /\ m.convs = cs /\ (cs # <<>> => m.selected \in DOMAIN cs)
      /\ m.selected \in DOMAIN cs =>
             /\ m.panel.name = cs[m.selected]
             /\ m.panel.lines = Lines(ms[cs[m.selected]], cs[m.selected], cs)
    BY <1>4 DEF Shows
<1> QED
    BY <1>4, <1>6, <1>7, ListShows

-----------------------------------------------------------------------------
LEMMA ServicesAndWindowsStep ==
    ASSUME WInv, [Next]_vars
    PROVE  Services' /\ Windows'
<1> DEFINE Drawn ==
        /\ contacts' \in Lists /\ cache' \in Caches
        /\ win' \in WinType /\ (win'.open => Shows(win', contacts', cache'))
<1>0. /\ Services /\ Windows /\ contacts \in Lists /\ cache \in Caches /\ win \in WinType
      /\ win.open => Shows(win, contacts, cache)
    BY DEF WInv, Services, Windows
<1>1. ASSUME UNCHANGED <<caches, win>> PROVE Drawn
    BY <1>0, <1>1 DEF caches
<1>2. ASSUME UNCHANGED caches, win' = MainWindow(who, contacts, cache) PROVE Drawn
    <2>1. who \in People \union {None} /\ contacts' = contacts /\ cache' = cache
        BY <1>0, <1>2 DEF Services, caches
    <2>2. win' \in WinType /\ Shows(win', contacts, cache)
        BY <1>0, <1>2, <2>1, MainWindowShows
    <2> QED
        BY <1>0, <2>1, <2>2
<1>3. ASSUME Ended PROVE Drawn
    BY <1>3, NoWindowTyped, EmptyTyped, Constants DEF Ended
<1>4. ASSUME NEW cs \in Lists, contacts' = cs, UNCHANGED cache,
             win' = IF win.open THEN [Rebuild(win, cs, cache) EXCEPT !.side.banner = FALSE] ELSE win
      PROVE  Drawn
    <2>1. CASE win.open
        <3>1. PICK w : w = Rebuild(win, cs, cache)
            OBVIOUS
        <3>2. w \in WinType /\ Shows(w, cs, cache)
            BY <1>0, <3>1, RebuildShows
        <3>3. win' = [w EXCEPT !.side.banner = FALSE]
            BY <1>4, <2>1, <3>1
        <3>4. /\ win' \in WinType /\ win'.convs = w.convs /\ win'.selected = w.selected
              /\ win'.side.rows = w.side.rows /\ win'.side.search = w.side.search /\ win'.panel = w.panel
            BY <3>2, <3>3, BannerSet
        <3>5. Shows(win', cs, cache)
            BY <3>2, <3>4, Retouched
        <3> QED
            BY <1>0, <1>4, <3>4, <3>5
    <2>2. CASE ~win.open
        BY <1>0, <1>4, <2>2
    <2> QED
        BY <2>1, <2>2
<1>5. ASSUME NEW c \in Convs, NEW h \in Seq(Message), NEW ms, ms = [cache EXCEPT ![c] = h],
             cache' = ms, UNCHANGED contacts, win' = OnMessages(win, c, ms)
      PROVE  Drawn
    <2>1. ms \in Caches
        BY <1>0, <1>5 DEF Caches
    <2>2. win' \in WinType /\ win'.open = win.open
          /\ (Shows(win, contacts, cache) => Shows(win', contacts, ms))
        <3>1. \A d \in Convs : d # c => ms[d] = cache[d]
            BY <1>0, <1>5 DEF Caches
        <3>2. /\ win \in WinType /\ contacts \in Lists /\ cache \in Caches
              /\ c \in Convs /\ win' = OnMessages(win, c, ms)
            BY <1>0, <1>5
        <3> QED
            BY ONLY <2>1, <3>1, <3>2, MessagesShow
    <2> QED
        BY <1>0, <1>5, <2>1, <2>2
<1>6. ASSUME UNCHANGED caches, win' = [win EXCEPT !.side.banner = TRUE] PROVE Drawn
    <2>1. /\ win' \in WinType /\ win'.open = win.open /\ win'.convs = win.convs /\ win'.selected = win.selected
          /\ win'.side.rows = win.side.rows /\ win'.side.search = win.side.search /\ win'.panel = win.panel
        BY <1>0, <1>6, BannerSet
    <2> QED
        BY <1>0, <1>6, <2>1, Retouched DEF caches
<1>7. ASSUME UNCHANGED caches, win.open, NEW i, SelectConversation(i) PROVE Drawn
    <2>1. contacts' = contacts /\ cache' = cache /\ win.convs = contacts
        BY <1>0, <1>7 DEF caches, Shows
    <2>2. CASE i \in DOMAIN win.convs
        <3>1. win' = UpdatePanel(UpdateList([win EXCEPT !.selected = i], cache), contacts, cache)
            BY <1>7, <2>2 DEF SelectConversation
        <3>2. win' \in WinType /\ Shows(win', contacts, cache)
            BY <1>0, <2>1, <2>2, <3>1, SelectionShows
        <3> QED
            BY <1>0, <2>1, <3>2
    <2>3. CASE i \notin DOMAIN win.convs
        BY <1>0, <1>7, <2>1, <2>3 DEF SelectConversation
    <2> QED
        BY <2>2, <2>3
<1>8. ASSUME UNCHANGED caches, win.open, NEW s \in Searches,
             win' = UpdateList([win EXCEPT !.side.search = s], cache)
      PROVE  Drawn
    <2>1. contacts' = contacts /\ cache' = cache
        BY <1>8 DEF caches
    <2>2. win' \in WinType /\ Shows(win', contacts, cache)
        BY <1>0, <1>8, SearchShows
    <2> QED
        BY <1>0, <2>1, <2>2
<1>9. ASSUME UNCHANGED caches, NEW b \in BOOLEAN, win' = [win EXCEPT !.panel.draft = b] PROVE Drawn
    <2>1. /\ win' \in WinType /\ win'.open = win.open /\ win'.convs = win.convs /\ win'.selected = win.selected
          /\ win'.panel.name = win.panel.name /\ win'.panel.lines = win.panel.lines /\ win'.side = win.side
        BY <1>0, <1>9, DraftSet
    <2> QED
        BY <1>0, <1>9, <2>1, Retouched DEF caches
<1>10. Drawn
    <2>1. WinMoves
        BY OneWinMove
    <2> QED
        BY <1>1, <1>2, <1>3, <1>4, <1>5, <1>6, <1>7, <1>8, <1>9, <2>1 DEF WinMoves
<1>11. posted' \in Convs \union {None} /\ (posted' # None => win'.panel.name = posted')
    <2>1. CASE posted' = None
        BY <2>1
    <2>2. CASE UNCHANGED <<posted, win>>
        BY <1>0, <2>2 DEF Services, Windows
    <2>3. ASSUME win.open, win.selected \in DOMAIN win.convs,
                 posted' = win.convs[win.selected], win' = [win EXCEPT !.panel.draft = FALSE]
          PROVE  posted' \in Convs /\ win'.panel.name = posted'
        <3>1. win'.panel.name = win.panel.name
            BY <1>0, <2>3, DraftSet
        <3>2. win.panel.name = win.convs[win.selected]
            BY <1>0, <2>3 DEF Shows
        <3>3. win.convs[win.selected] \in Convs
            BY <1>0, <2>3, Places DEF WinType
        <3> QED
            BY <2>3, <3>1, <3>2, <3>3
    <2> QED
        BY <2>1, <2>2, <2>3, OneWinMove
<1> QED
    BY <1>10, <1>11, OneWinMove DEF Services, Windows

-----------------------------------------------------------------------------
(***************************************************************************)
(* The dialogs and their calls.                                            *)
(***************************************************************************)
\* AsksAsMeant of any dialog and calls.
Asks(d, C) ==
    /\ \A c \in C : c.arg = c.meant
    /\ IF d.pc = "busy"
       THEN \E x \in C : x.op = d.kind /\ {c \in C : c.own} = {x}
       ELSE \A c \in C : ~c.own

Fine(d, C) == d \in DialogType /\ C \subseteq CallType /\ Picked(d) /\ Asks(d, C)

LEMMA AskingIsFine == (Asking <=> Fine(dialog, calls)) /\ (Asking' <=> Fine(dialog', calls'))
BY DEF Asking, Fine, Asks, AsksAsMeant

LEMMA Closed ==
    /\ NoDialog \in DialogType /\ Picked(NoDialog) /\ NoDialog.pc = "open" /\ NoDialog.kind = "none"
BY DEF NoDialog, DialogType, Picked, Menus, Dialogs, Deletions

LEMMA MenuOpened ==
    ASSUME NEW k \in Menus \union Dialogs
    PROVE  /\ Menu(k) \in DialogType /\ Picked(Menu(k)) /\ Menu(k).pc = "open" /\ Menu(k).kind = k
           /\ Menu(k).ticked = {} /\ Menu(k).meant = {}
<1>1. Menu(k) = [kind |-> k, pc |-> "open", list |-> {}, at |-> None, ticked |-> {}, picked |-> None, meant |-> {}]
    BY DEF Menu, NoDialog
<1> QED
    BY <1>1 DEF DialogType, Picked

\* Without a dialog that waits, no call has one that hears its answer.
LEMMA Reopened ==
    ASSUME NEW d, NEW C, Fine(d, C), d.pc # "busy", NEW e \in DialogType, Picked(e), e.pc # "busy"
    PROVE  Fine(e, C)
BY DEF Fine, Asks

LEMMA Disowned ==
    ASSUME NEW d, NEW C, Fine(d, C)
    PROVE  Fine(NoDialog, {[c EXCEPT !.own = FALSE] : c \in C}) /\ Fine(NoDialog, {})
<1>1. ASSUME NEW c \in C, NEW x, x = [c EXCEPT !.own = FALSE]
      PROVE  x \in CallType /\ x.arg = x.meant /\ ~x.own
    <2>1. c \in CallType /\ c.arg = c.meant
        BY <1>1 DEF Fine, Asks
    <2> QED
        BY <1>1, <2>1 DEF CallType
<1>2. PICK D : D = {[c EXCEPT !.own = FALSE] : c \in C}
    OBVIOUS
<1>3. \A x \in D : x \in CallType /\ x.arg = x.meant /\ ~x.own
    BY <1>1, <1>2
<1>4. Fine(NoDialog, D)
    BY <1>3, Closed DEF Fine, Asks
<1>5. Fine(NoDialog, {})
    BY Closed DEF Fine, Asks
<1> QED
    BY <1>2, <1>4, <1>5

LEMMA ListedConvs ==
    ASSUME NEW cs \in Lists
    PROVE  UsersListed(cs) \subseteq People /\ UsersListed(cs) \subseteq Convs /\ RoomsListed(cs) \subseteq Convs
BY Constants DEF UsersListed, RoomsListed, Convs

LEMMA Populated ==
    ASSUME NEW d \in DialogType, Picked(d), NEW cs \in Lists, NEW e, e = Remembered(Populate(d, cs), cs)
    PROVE  e \in DialogType /\ Picked(e) /\ e.pc = d.pc /\ e.kind = d.kind
<1>0. UsersListed(cs) \subseteq People /\ UsersListed(cs) \subseteq Convs /\ RoomsListed(cs) \subseteq Convs
    BY ListedConvs
<1>1. CASE d.kind = "createRoom"
    <2>1. PICK p : p = PopulateUsers(d, cs)
        OBVIOUS
    <2>2. /\ p \in DialogType /\ p.pc = d.pc /\ p.kind = d.kind
          /\ p.ticked = d.ticked \intersect UsersListed(cs) /\ p.meant = d.meant /\ p.picked = d.picked
        BY <1>0, <2>1 DEF PopulateUsers, DialogType
    <2>3. p = Populate(d, cs)
        BY <1>1, <2>1 DEF Populate
    <2>4. e = [p EXCEPT !.meant = @ \intersect UsersListed(cs)]
        BY <1>1, <2>2, <2>3 DEF Remembered
    <2>5. /\ e \in DialogType /\ e.pc = d.pc /\ e.kind = d.kind
          /\ e.ticked = p.ticked /\ e.meant = p.meant \intersect UsersListed(cs)
        BY <2>2, <2>4 DEF DialogType
    <2>6. d.ticked = d.meant /\ d.pc # "confirm"
        BY <1>1 DEF Picked, Deletions
    <2> QED
        BY <1>1, <2>2, <2>5, <2>6 DEF Picked, Dialogs
<1>2. CASE d.kind \in Deletions
    <2>1. PICK S \in SUBSET Convs : Populate(d, cs) = [d EXCEPT !.list = S, !.at = None]
        BY <1>0, <1>2 DEF Populate, Deletions
    <2>2. PICK p : p = [d EXCEPT !.list = S, !.at = None]
        OBVIOUS
    <2>3. /\ p \in DialogType /\ p.pc = d.pc /\ p.kind = d.kind
          /\ p.meant = d.meant /\ p.picked = d.picked
        BY <2>2 DEF DialogType
    <2>4. e = p
        BY <1>2, <2>1, <2>2, <2>3 DEF Remembered, Deletions
    <2> QED
        BY <1>2, <2>3, <2>4 DEF Picked, Dialogs, Deletions
<1>3. CASE d.kind \notin Deletions \union {"createRoom"}
    <2>1. Populate(d, cs) = d
        BY <1>3 DEF Populate, Deletions
    <2>2. e = d
        BY <1>3, <2>1 DEF Remembered
    <2> QED
        BY <2>2
<1> QED
    BY <1>1, <1>2, <1>3

LEMMA Opened ==
    ASSUME contacts \in Lists,
           NEW e \in {CreateUserDialog, CreateRoomDialog, DeleteUserDialog, DeleteRoomDialog}
    PROVE  e \in DialogType /\ Picked(e) /\ e.pc = "open"
<1>1. CASE e = CreateUserDialog
    BY <1>1, MenuOpened DEF CreateUserDialog, Dialogs
<1>2. CASE e = CreateRoomDialog
    <2>1. PICK d : d = Menu("createRoom")
        OBVIOUS
    <2>2. /\ d \in DialogType /\ Picked(d) /\ d.pc = "open" /\ d.kind = "createRoom"
          /\ d.ticked = {} /\ d.meant = {}
        BY <2>1, MenuOpened DEF Dialogs
    <2>3. e = [d EXCEPT !.list = UsersListed(contacts), !.ticked = @ \intersect UsersListed(contacts)]
        BY <1>2, <2>1 DEF CreateRoomDialog, PopulateUsers
    <2>4. UsersListed(contacts) \subseteq People /\ UsersListed(contacts) \subseteq Convs
        BY ListedConvs
    <2>5. /\ e \in DialogType /\ e.pc = "open" /\ e.kind = "createRoom"
          /\ e.ticked = {} /\ e.meant = {}
        BY <2>2, <2>3, <2>4 DEF DialogType
    <2> QED
        BY <2>5 DEF Picked, Dialogs
<1>3. ASSUME NEW k \in Deletions, e = Populate(Menu(k), contacts)
      PROVE  e \in DialogType /\ Picked(e) /\ e.pc = "open"
    <2>1. PICK d : d = Menu(k)
        OBVIOUS
    <2>2. /\ d \in DialogType /\ Picked(d) /\ d.pc = "open" /\ d.kind = k
        BY <2>1, MenuOpened DEF Dialogs
    <2>3. PICK S \in SUBSET Convs : e = [d EXCEPT !.list = S, !.at = None]
        BY <1>3, <2>1, <2>2, ListedConvs DEF Populate, Deletions
    <2>4. e \in DialogType /\ e.pc = "open" /\ e.kind = k
        BY <2>2, <2>3 DEF DialogType
    <2> QED
        BY <2>4 DEF Picked, Dialogs, Deletions
<1> QED
    BY <1>1, <1>2, <1>3 DEF DeleteUserDialog, DeleteRoomDialog, Deletions

LEMMA Asked ==
    ASSUME NEW d, NEW C, Fine(d, C), d.pc # "busy", d.kind \in Dialogs, NEW S, S = d.meant,
           NEW D, D = C \union {[op |-> d.kind, arg |-> S, meant |-> d.meant, own |-> TRUE]},
           NEW e, e = [d EXCEPT !.pc = "busy"]
    PROVE  Fine(e, D)
<1>1. PICK x : x = [op |-> d.kind, arg |-> S, meant |-> d.meant, own |-> TRUE]
    OBVIOUS
<1>2. x \in CallType /\ x.arg = x.meant /\ x.own /\ x.op = d.kind
    BY <1>1 DEF Fine, DialogType, CallType
<1>3. /\ e \in DialogType /\ e.kind = d.kind /\ e.pc = "busy"
      /\ e.ticked = d.ticked /\ e.meant = d.meant
    BY DEF Fine, DialogType
<1>4. Picked(e)
    BY <1>3 DEF Fine, Picked
<1>5. C \subseteq CallType /\ \A c \in C : c.arg = c.meant /\ ~c.own
    BY DEF Fine, Asks
<1>6. {c \in D : c.own} = {x}
    BY <1>1, <1>2, <1>5
<1> QED
    BY <1>1, <1>2, <1>3, <1>4, <1>5, <1>6 DEF Fine, Asks

LEMMA TickFine ==
    ASSUME NEW d, NEW C, Fine(d, C), d.kind = "createRoom", d.pc = "open", NEW u \in People,
           NEW e, e = IF u \in d.ticked
                      THEN [d EXCEPT !.ticked = @ \ {u}, !.meant = @ \ {u}]
                      ELSE [d EXCEPT !.ticked = @ \union {u}, !.meant = @ \union {u}]
    PROVE  Fine(e, C)
<1>1. d \in DialogType /\ d.ticked = d.meant /\ u \in Convs
    BY Constants DEF Fine, Picked
<1>2. /\ e \in DialogType /\ e.kind = "createRoom" /\ e.pc = "open"
      /\ e.ticked = e.meant
    BY <1>1 DEF DialogType
<1>3. Picked(e)
    BY <1>2 DEF Picked, Dialogs
<1> QED
    BY <1>2, <1>3, Reopened

LEMMA ItemFine ==
    ASSUME NEW d, NEW C, Fine(d, C), d.kind \in Deletions, d.pc = "open", NEW c \in Convs
    PROVE  /\ Fine([d EXCEPT !.at = c], C)
           /\ Fine([d EXCEPT !.pc = "confirm", !.picked = c, !.meant = {c}], C)
<1>1. d \in DialogType
    BY DEF Fine
<1>2. PICK e : e = [d EXCEPT !.at = c]
    OBVIOUS
<1>3. e \in DialogType /\ e.kind = d.kind /\ e.pc = "open"
    BY <1>1, <1>2 DEF DialogType
<1>4. Picked(e)
    BY <1>3 DEF Picked, Dialogs, Deletions
<1>5. Fine(e, C)
    BY <1>3, <1>4, Reopened
<1>6. PICK f : f = [d EXCEPT !.pc = "confirm", !.picked = c, !.meant = {c}]
    OBVIOUS
<1>7. f \in DialogType /\ f.kind = d.kind /\ f.pc = "confirm" /\ f.picked = c /\ f.meant = {c}
    BY <1>1, <1>6 DEF DialogType
<1>8. Picked(f)
    BY <1>7 DEF Picked, Dialogs, Deletions
<1>9. Fine(f, C)
    BY <1>7, <1>8, Reopened
<1> QED
    BY <1>2, <1>5, <1>6, <1>9

LEMMA BackFine ==
    ASSUME NEW d, d \in DialogType, Picked(d), NEW e, e = [d EXCEPT !.pc = "open"]
    PROVE  e \in DialogType /\ Picked(e) /\ e.pc = "open"
<1>1. e \in DialogType /\ e.kind = d.kind /\ e.pc = "open" /\ e.ticked = d.ticked /\ e.meant = d.meant
    BY DEF DialogType
<1> QED
    BY <1>1 DEF Picked

LEMMA AnswerFine ==
    ASSUME NEW d, NEW C, Fine(d, C), NEW c \in C, NEW D, D = C \ {c},
           NEW e, e \in IF c.own THEN {NoDialog, [d EXCEPT !.pc = "open"]} ELSE {d}
    PROVE  Fine(e, D)
<1>1. D \subseteq CallType /\ \A x \in D : x.arg = x.meant
    BY DEF Fine, Asks
<1>2. CASE c.own
    <2>1. e \in DialogType /\ Picked(e) /\ e.pc = "open"
        BY <1>2, Closed, BackFine DEF Fine
    <2>2. PICK x \in C : {y \in C : y.own} = {x}
        BY <1>2 DEF Fine, Asks
    <2>3. \A y \in D : ~y.own
        BY <1>2, <2>2
    <2> QED
        BY <1>1, <2>1, <2>3 DEF Fine, Asks
<1>3. CASE ~c.own
    <2>1. e = d
        BY <1>3
    <2>2. {x \in D : x.own} = {x \in C : x.own}
        BY <1>3
    <2>3. ASSUME d.pc = "busy" PROVE \E x \in D : x.op = d.kind /\ {y \in D : y.own} = {x}
        <3>1. PICK x \in C : x.op = d.kind /\ {y \in C : y.own} = {x}
            BY <2>3 DEF Fine, Asks
        <3>2. x \in D
            BY <1>3, <3>1
        <3> QED
            BY <2>2, <3>1, <3>2
    <2>4. ASSUME d.pc # "busy" PROVE \A x \in D : ~x.own
        BY <2>4 DEF Fine, Asks
    <2>5. Asks(d, D)
        BY <1>1, <2>3, <2>4 DEF Asks
    <2> QED
        BY <1>1, <2>1, <2>5 DEF Fine
<1> QED
    BY <1>2, <1>3

LEMMA AskingStep ==
    ASSUME WInv, [Next]_vars
    PROVE  Asking'
<1> DEFINE Goal == Fine(dialog', calls')
<1>0. /\ Fine(dialog, calls) /\ dialog \in DialogType /\ Picked(dialog) /\ calls \subseteq CallType
      /\ contacts \in Lists
    BY AskingIsFine DEF WInv, Services, Fine
<1>1. ASSUME UNCHANGED <<dialog, calls>> PROVE Goal
    BY <1>0, <1>1
<1>2. ASSUME LoggedOut \/ Restart PROVE Goal
    BY <1>0, <1>2, Disowned DEF LoggedOut, Restart
<1>3. ASSUME NEW cs \in Lists, ContactsArrive(cs) PROVE Goal
    <2>1. /\ dialog' \in DialogType /\ Picked(dialog')
          /\ dialog'.pc = dialog.pc /\ dialog'.kind = dialog.kind
        BY <1>0, <1>3, Populated DEF ContactsArrive
    <2> QED
        BY <1>0, <1>3, <2>1 DEF ContactsArrive, Fine, Asks
<1>4. ASSUME Type PROVE Goal
    <2>1. dialog.pc = "open"
        BY <1>0, <1>4 DEF Type, Picked, Dialogs, Deletions
    <2> QED
        BY <1>0, <1>4, <2>1, Closed, Reopened DEF Type
<1>5. ASSUME OpenMenu PROVE Goal
    <2>1. dialog.pc = "open"
        BY <1>0, <1>5 DEF OpenMenu, Reachable, Picked, Dialogs, Deletions
    <2>2. PICK k \in Menus : dialog' = Menu(k)
        BY <1>5 DEF OpenMenu, Menus
    <2>3. dialog' \in DialogType /\ Picked(dialog') /\ dialog'.pc = "open"
        BY <2>2, MenuOpened
    <2>4. calls' = calls
        BY <1>5 DEF OpenMenu
    <2> QED
        BY <1>0, <2>1, <2>3, <2>4, Reopened
<1>6. ASSUME OpenDialog PROVE Goal
    <2>1. dialog.pc = "open"
        BY <1>0, <1>6 DEF OpenDialog, Picked, Dialogs, Deletions
    <2>2. dialog' \in DialogType /\ Picked(dialog') /\ dialog'.pc = "open"
        BY <1>0, <1>6, Opened DEF OpenDialog
    <2>3. calls' = calls
        BY <1>6 DEF OpenDialog
    <2> QED
        BY <1>0, <2>1, <2>2, <2>3, Reopened
<1>7. ASSUME NEW c \in dialog.list, PickItem(c) PROVE Goal
    <2>1. c \in Convs
        BY <1>0 DEF DialogType
    <2> QED
        BY <1>0, <1>7, <2>1, ItemFine DEF PickItem, Open
<1>8. ASSUME NEW u \in People, Tick(u) PROVE Goal
    <2>1. /\ dialog.kind = "createRoom" /\ dialog.pc = "open" /\ calls' = calls
          /\ dialog' = IF u \in dialog.ticked
                       THEN [dialog EXCEPT !.ticked = @ \ {u}, !.meant = @ \ {u}]
                       ELSE [dialog EXCEPT !.ticked = @ \union {u}, !.meant = @ \union {u}]
        BY <1>8 DEF Tick, Open
    <2> QED
        BY <1>0, <2>1, TickFine
<1>9. ASSUME NEW S, Ask(S), S = dialog.meant, dialog.pc # "busy", dialog.kind \in Dialogs PROVE Goal
    BY <1>0, <1>9, Asked DEF Ask
<1>10. ASSUME CreateUser \/ CreateRoom \/ Confirm PROVE Goal
    BY <1>0, <1>9, <1>10 DEF CreateUser, CreateRoom, Confirm, Open, Picked, Dialogs
<1>11. ASSUME NEW k \in Deletions, Delete(k) PROVE Goal
    <2>1. dialog.at \in Convs
        BY <1>0, <1>11 DEF Delete, DialogType
    <2> QED
        BY <1>0, <1>11, <2>1, ItemFine DEF Delete, Open
<1>12. ASSUME Cancel PROVE Goal
    <2>1. CASE dialog.pc = "confirm"
        <3>1. dialog' \in DialogType /\ Picked(dialog') /\ dialog'.pc = "open"
            BY <1>0, <1>12, <2>1, BackFine DEF Cancel
        <3> QED
            BY <1>0, <1>12, <2>1, <3>1, Reopened DEF Cancel
    <2>2. CASE dialog.pc # "confirm"
        BY <1>0, <1>12, <2>2, Disowned DEF Cancel
    <2> QED
        BY <2>1, <2>2
<1>13. ASSUME NEW c \in calls, Answer(c) PROVE Goal
    BY <1>0, <1>13, AnswerFine DEF Answer
<1>14. ASSUME Send \/ SignIn \/ SignInFails \/ (\E u \in People : LoggedIn(u)) \/ OpenWindow \/ ErrorOccurs
              \/ (\E c \in Convs, h \in Histories, known \in BOOLEAN : HistoryArrives(c, h, known))
              \/ (\E r \in win.side.rows : Click(r)) \/ (\E s \in Searches : Search(s))
       PROVE  Goal
    BY <1>1, <1>14 DEF Send, SignIn, SignInFails, LoggedIn, OpenWindow, ErrorOccurs, HistoryArrives, Click, Search
<1>15. ASSUME SessionEnds \/ LogOut \/ Quit PROVE Goal
    BY <1>2, <1>15 DEF SessionEnds, LogOut, Quit
<1>16. ASSUME DeleteUser \/ DeleteRoom PROVE Goal
    BY <1>11, <1>16 DEF DeleteUser, DeleteRoom, Deletions
<1>17. ASSUME UNCHANGED vars PROVE Goal
    BY <1>1, <1>17 DEF vars
<1>18. Goal
    BY <1>3, <1>4, <1>5, <1>6, <1>7, <1>8, <1>10, <1>12, <1>13, <1>14, <1>15, <1>16, <1>17
       DEF Next, Signals, Input
<1> QED
    BY <1>18, AskingIsFine

-----------------------------------------------------------------------------
(***************************************************************************)
(* The inductive invariant, and what follows from it.                      *)
(***************************************************************************)
LEMMA InitFine == Init => WInv
<1> SUFFICES ASSUME Init PROVE WInv
    OBVIOUS
<1>1. Services
    BY EmptyTyped, Constants DEF Init, Services, LoginWindow
<1>2. Windows
    BY NoWindowTyped DEF Init, Windows
<1>3. Fine(dialog, calls)
    BY Closed DEF Init, Fine, Asks
<1> QED
    BY <1>1, <1>2, <1>3, AskingIsFine DEF WInv

\* The windows show what the services hold, and the dialogs hold what was meant.
THEOREM Inductive == Spec => []WInv
<1>1. WInv /\ [Next]_vars => WInv'
    BY ServicesAndWindowsStep, AskingStep DEF WInv
<1> QED
    BY <1>1, InitFine, PTL DEF Spec

\* The windows and the caches keep their shapes.
THEOREM TypeCorrect == Spec => []TypeOK
<1>1. WInv => TypeOK
    BY TypeParts DEF WInv, Windows, Asking
<1> QED
    BY <1>1, Inductive, PTL

\* The panel names the conversation that the next message goes to, and shows
\* what the client has of it.
THEOREM PanelNamesTarget == Spec => []PanelIsTarget
<1>1. ASSUME WInv PROVE PanelIsTarget
    <2>1. ASSUME win.open, win.selected \in DOMAIN win.convs, NEW c, c = win.convs[win.selected]
          PROVE  /\ win.panel.name = c
                 /\ [i \in DOMAIN win.panel.lines |-> win.panel.lines[i].body]
                        = [i \in DOMAIN cache[c] |-> cache[c][i].body]
        <3>1. win.panel.name = c /\ win.panel.lines = Lines(cache[c], c, contacts)
            BY <1>1, <2>1 DEF WInv, Windows, Shows
        <3>2. /\ DOMAIN Lines(cache[c], c, contacts) = DOMAIN cache[c]
              /\ \A i \in DOMAIN cache[c] : Lines(cache[c], c, contacts)[i].body = cache[c][i].body
            BY DEF Lines, Line
        <3> QED
            BY <3>1, <3>2
    <2>2. posted # None => win.panel.name = posted
        BY <1>1 DEF WInv, Windows
    <2> QED
        BY <2>1, <2>2 DEF PanelIsTarget
<1> QED
    BY <1>1, Inductive, PTL

\* A row opens the conversation that it names and shows its last message, the
\* marked one is the selected one, and no contact that matches is missing.
THEOREM RowsOpenTheirOwn == Spec => []RowsLead
<1>1. ASSUME WInv PROVE RowsLead
    <2> SUFFICES ASSUME win.open PROVE
            /\ \A r \in win.side.rows :
                   /\ r.index \in DOMAIN win.convs /\ win.convs[r.index] = r.name
                   /\ r.last = Preview(cache[r.name])
                   /\ r.marked <=> r.index = win.selected
            /\ \A c \in Elements(contacts) :
                   Found(win, cache, c) <=> \E r \in win.side.rows : r.name = c
        BY DEF RowsLead
    <2>1. win.side.rows = Rows(win, cache) /\ win.convs = contacts
        BY <1>1 DEF WInv, Windows, Shows
    <2>2. \A r \in win.side.rows : \E i \in DOMAIN win.convs :
              Found(win, cache, win.convs[i]) /\ r = Row(win, cache, i)
        BY <2>1 DEF Rows
    <2>3. \A i \in DOMAIN win.convs :
              Found(win, cache, win.convs[i]) => Row(win, cache, i) \in win.side.rows
        BY <2>1 DEF Rows
    <2>4. ASSUME NEW r \in win.side.rows
          PROVE  /\ r.index \in DOMAIN win.convs /\ win.convs[r.index] = r.name
                 /\ r.last = Preview(cache[r.name])
                 /\ r.marked <=> r.index = win.selected
                 /\ Found(win, cache, r.name)
        <3>1. PICK i \in DOMAIN win.convs : Found(win, cache, win.convs[i]) /\ r = Row(win, cache, i)
            BY <2>2
        <3>2. /\ r.name = win.convs[i] /\ r.last = Preview(cache[win.convs[i]])
              /\ r.marked = (win.selected = i) /\ r.index = i
            BY <3>1 DEF Row
        <3> QED
            BY <3>1, <3>2
    <2>5. ASSUME NEW c \in Elements(contacts)
          PROVE  Found(win, cache, c) <=> \E r \in win.side.rows : r.name = c
        <3>1. PICK i \in DOMAIN win.convs : win.convs[i] = c
            BY <2>1 DEF Elements
        <3>2. Row(win, cache, i).name = c
            BY <3>1 DEF Row
        <3>3. Found(win, cache, c) => \E r \in win.side.rows : r.name = c
            BY <2>3, <3>1, <3>2
        <3>4. (\E r \in win.side.rows : r.name = c) => Found(win, cache, c)
            BY <2>4
        <3> QED
            BY <3>3, <3>4
    <2> QED
        BY <2>4, <2>5
<1> QED
    BY <1>1, Inductive, PTL

\* A call of a dialog asks for what the user had picked, and a dialog waits if
\* and only if it has one call in flight.
THEOREM CallsAreMeant == Spec => []AsksAsMeant
<1>1. WInv => AsksAsMeant
    BY DEF WInv, Asking
<1> QED
    BY <1>1, Inductive, PTL

-----------------------------------------------------------------------------
(***************************************************************************)
(* Whose messages the caches hold.                                         *)
(***************************************************************************)
\* Nobody is logged in while the login window waits for the user or for an answer.
LeftOut ==
    /\ login # "idle" => ~win.open
    /\ ~win.open /\ login # "answered" => who = None

\* What is marked as sent is the user's, and a direct conversation is his and its peer's.
OwnMessage(m, c) ==
    /\ m.sent => m.from = who
    /\ c \in Rooms \/ m.from \in {who, c}

Owned == \A c \in Convs : \A i \in DOMAIN cache[c] : OwnMessage(cache[c][i], c)

\* Steps that leave the session, the histories and whether there is a window.
LEMMA Unmoved ==
    ASSUME WInv,
           \/ UNCHANGED vars \/ Send \/ ErrorOccurs \/ Type
           \/ \E cs \in Lists : ContactsArrive(cs)
           \/ \E r \in win.side.rows : Click(r)
           \/ \E t \in Searches : Search(t)
           \/ UNCHANGED <<who, caches, login, win>>
    PROVE  UNCHANGED <<who, cache, login>> /\ win'.open = win.open
<1>0. win \in WinType /\ contacts \in Lists /\ cache \in Caches /\ (win.open => Shows(win, contacts, cache))
    BY DEF WInv, Services, Windows
<1>1. UNCHANGED <<who, cache, login>>
    BY DEF vars, caches, Send, ErrorOccurs, Type, ContactsArrive, Click, Search
<1>2. ASSUME NEW b \in BOOLEAN, win' = [win EXCEPT !.panel.draft = b] PROVE win'.open = win.open
    BY <1>0, <1>2, DraftSet
<1>3. ASSUME ErrorOccurs PROVE win'.open = win.open
    BY <1>0, <1>3, BannerSet DEF ErrorOccurs
<1>4. ASSUME NEW cs \in Lists, ContactsArrive(cs) PROVE win'.open = win.open
    <2>1. CASE ~win.open
        BY <1>4, <2>1 DEF ContactsArrive
    <2>2. CASE win.open
        <3>1. PICK w : w = Rebuild(win, cs, cache)
            OBVIOUS
        <3>2. w \in WinType /\ w.open = win.open
            BY <1>0, <3>1, RebuildShows
        <3>3. win' = [w EXCEPT !.side.banner = FALSE]
            BY <1>4, <2>2, <3>1 DEF ContactsArrive
        <3> QED
            BY <3>2, <3>3, BannerSet
    <2> QED
        BY <2>1, <2>2
<1>5. ASSUME NEW r, Click(r) PROVE win'.open = win.open
    <2>1. win.convs = contacts /\ SelectConversation(r.index)
        BY <1>0, <1>5 DEF Click, Reachable, Shows
    <2>2. CASE r.index \in DOMAIN contacts
        <3>1. win' = UpdatePanel(UpdateList([win EXCEPT !.selected = r.index], cache), contacts, cache)
            BY <2>1, <2>2 DEF SelectConversation
        <3> QED
            BY <1>0, <2>1, <2>2, <3>1, SelectionShows
    <2>3. CASE r.index \notin DOMAIN contacts
        BY <2>1, <2>3 DEF SelectConversation
    <2> QED
        BY <2>2, <2>3
<1>6. ASSUME NEW t \in Searches, Search(t) PROVE win'.open = win.open
    <2>1. Shows(win, contacts, cache) /\ win' = UpdateList([win EXCEPT !.side.search = t], cache)
        BY <1>0, <1>6 DEF Search, Reachable
    <2> QED
        BY <1>0, <2>1, SearchShows
<1>7. win'.open = win.open
    BY <1>2, <1>3, <1>4, <1>5, <1>6 DEF Send, Type, vars
<1> QED
    BY <1>1, <1>7

LEMMA HistoryOwned ==
    ASSUME WInv, Owned, NEW c \in Convs, NEW h \in Histories, NEW known \in BOOLEAN,
           HistoryArrives(c, h, known)
    PROVE  Owned' /\ UNCHANGED <<who, login>> /\ win'.open = win.open
<1>0. win \in WinType /\ contacts \in Lists /\ cache \in Caches /\ Services
    BY DEF WInv, Services, Windows
<1>1. PICK g : g = Marked(h, known)
    OBVIOUS
<1>2. PICK ms : ms = [cache EXCEPT ![c] = g]
    OBVIOUS
<1>3. /\ cache' = ms /\ win' = OnMessages(win, c, ms) /\ UNCHANGED <<who, contacts, login>>
      /\ Between(h, c)
    BY <1>1, <1>2 DEF HistoryArrives
<1>4. g \in Seq(Message)
    BY <1>0, <1>1, MarkedTyped
<1>5. ms \in Caches /\ \A d \in Convs : d # c => ms[d] = cache[d]
    BY <1>0, <1>2, <1>4 DEF Caches
<1>6. win'.open = win.open
    BY ONLY <1>0, <1>3, <1>5, c \in Convs, MessagesShow
<1>7. ASSUME NEW i \in DOMAIN g PROVE OwnMessage(g[i], c)
    <2>1. i \in DOMAIN h /\ g[i].from = h[i].from
        BY <1>1, <1>7 DEF Marked
    <2>2. g[i].sent = (known /\ h[i].from = who)
        BY <1>1, <2>1 DEF Marked
    <2>3. g[i].sent => g[i].from = who
        BY <2>1, <2>2
    <2>4. c \in Rooms \/ g[i].from \in {who, c}
        BY <1>3, <2>1 DEF Between
    <2> QED
        BY <2>3, <2>4 DEF OwnMessage
<1>8. ms[c] = g
    BY <1>0, <1>2 DEF Caches
<1>9. ASSUME NEW d \in Convs, NEW i \in DOMAIN ms[d] PROVE OwnMessage(ms[d][i], d)
    <2>1. CASE d = c
        BY <1>7, <1>8, <1>9, <2>1
    <2>2. CASE d # c
        BY <1>5, <1>9, <2>2 DEF Owned
    <2> QED
        BY <2>1, <2>2
<1> QED
    BY <1>3, <1>6, <1>9 DEF Owned, OwnMessage

\* Nobody becomes somebody: of the messages that are there none is marked as sent.
LEMMA LoggedInOwned ==
    ASSUME Owned, who = None, NEW u \in People, who' = u, UNCHANGED cache, cache \in Caches
    PROVE  Owned'
<1> SUFFICES ASSUME NEW c \in Convs, NEW i \in DOMAIN cache[c] PROVE OwnMessage(cache[c][i], c)'
    BY DEF Owned
<1>1. cache[c][i] \in Message
    BY DEF Caches
<1>2. cache[c][i].from \in Convs /\ cache[c][i].from # None
    BY <1>1, Constants DEF Message
<1>3. OwnMessage(cache[c][i], c)
    BY DEF Owned
<1> QED
    BY <1>2, <1>3 DEF OwnMessage

LEMMA OwnedStep == WInv /\ LeftOut /\ Owned /\ [Next]_vars => LeftOut' /\ Owned'
<1> SUFFICES ASSUME WInv, LeftOut, Owned, [Next]_vars PROVE LeftOut' /\ Owned'
    OBVIOUS
<1> DEFINE Goal == LeftOut' /\ Owned'
<1>0. cache \in Caches /\ who \in People \union {None} /\ login \in {"idle", "busy", "answered"}
    BY DEF WInv, Services
<1>1. ASSUME UNCHANGED <<who, cache, login>>, win'.open = win.open PROVE Goal
    BY <1>1 DEF LeftOut, Owned, OwnMessage
<1>2. ASSUME SignIn \/ SignInFails PROVE Goal
    BY <1>2 DEF SignIn, SignInFails, caches, LeftOut, Owned, OwnMessage
<1>3. ASSUME NEW u \in People, LoggedIn(u) PROVE Goal
    <2>1. login = "busy" /\ ~win.open /\ who = None
        BY <1>3 DEF LoggedIn, LeftOut
    <2>2. Owned'
        BY <1>0, <1>3, <2>1, LoggedInOwned DEF LoggedIn, caches
    <2> QED
        BY <1>3, <2>1, <2>2 DEF LoggedIn, LeftOut
<1>4. ASSUME OpenWindow PROVE Goal
    <2>1. Owned'
        BY <1>4 DEF OpenWindow, caches, Owned, OwnMessage
    <2>2. win'.open
        <3>1. PICK w : w = UpdateProfileHeader([NoWindow EXCEPT !.open = TRUE], who)
            OBVIOUS
        <3>2. w \in WinType /\ w.open
            <4>1. PICK side : side = [Sidebar EXCEPT !.profile = who]
                OBVIOUS
            <4>2. side \in SideType
                BY <1>0, <4>1, Constants DEF Sidebar, SideType
            <4>3. w = [[NoWindow EXCEPT !.open = TRUE] EXCEPT !.side = side]
                BY <3>1, <4>1 DEF UpdateProfileHeader, NoWindow
            <4> QED
                BY <4>2, <4>3, NoWindowTyped DEF WinType
        <3>3. contacts \in Lists /\ win' = Rebuild(w, contacts, cache)
            BY <1>4, <3>1 DEF OpenWindow, MainWindow, WInv, Services
        <3> QED
            BY <1>0, <3>2, <3>3, RebuildShows
    <2> QED
        BY <1>4, <2>1, <2>2 DEF OpenWindow, LeftOut
<1>5. ASSUME who' = None, cache' = Empty, win' = NoWindow PROVE Goal
    BY <1>5, NoWindowTyped DEF LeftOut, Owned, Empty
<1>6. ASSUME SessionEnds \/ LogOut \/ Quit PROVE Goal
    BY <1>5, <1>6 DEF SessionEnds, LogOut, Quit, LoggedOut, Restart
<1>7. ASSUME NEW c \in Convs, NEW h \in Histories, NEW known \in BOOLEAN, HistoryArrives(c, h, known) PROVE Goal
    BY <1>7, HistoryOwned DEF LeftOut
<1>8. ASSUME \/ OpenMenu \/ OpenDialog \/ CreateUser \/ CreateRoom \/ DeleteUser \/ DeleteRoom \/ Confirm \/ Cancel
             \/ (\E c \in calls : Answer(c)) \/ (\E c \in dialog.list : PickItem(c)) \/ \E u \in People : Tick(u)
      PROVE  UNCHANGED <<who, caches, login, win>>
    BY <1>8 DEF OpenMenu, OpenDialog, CreateUser, CreateRoom, DeleteUser, DeleteRoom, Delete,
           Confirm, Cancel, Ask, Answer, PickItem, Tick, OnlyDialog
<1> QED
    BY <1>1, <1>2, <1>3, <1>4, <1>6, <1>7, <1>8, Unmoved DEF Next, Signals, Input

LEMMA OwnedAlways == Spec => [](WInv /\ LeftOut /\ Owned)
<1>1. Init => LeftOut /\ Owned
    BY NoWindowTyped DEF Init, LoginWindow, LeftOut, Owned, Empty
<1> QED
    BY <1>1, OwnedStep, Inductive, PTL DEF Spec

-----------------------------------------------------------------------------
(***************************************************************************)
(* The header above a message.                                             *)
(***************************************************************************)
\* The messages of one sender that end at i begin with a header.
LEMMA HeaderAbove ==
    ASSUME NEW h \in Seq(Message), NEW i \in DOMAIN h
    PROVE  \E j \in 1 .. i : /\ Header(h, j) /\ Key(h[j]) = Key(h[i])
                             /\ \A k \in j + 1 .. i : ~Header(h, k)
<1> DEFINE S == {j \in 1 .. i : Key(h[j]) = Key(h[i]) /\ \A k \in j + 1 .. i : ~Header(h, k)}
<1>1. i \in Nat /\ i >= 1 /\ i \in S /\ S \subseteq Nat
    OBVIOUS
<1>2. PICK j \in S : \A n \in S : ~(<<n, j>> \in OpToRel(<, Nat))
    BY <1>1, NatLessThanWellFounded, WFMin
<1>3. j \in 1 .. i /\ Key(h[j]) = Key(h[i]) /\ \A k \in j + 1 .. i : ~Header(h, k)
    BY <1>2
<1>4. ASSUME ~Header(h, j) PROVE FALSE
    <2>1. j # 1 /\ Key(h[j]) = Key(h[j - 1])
        BY <1>4 DEF Header
    <2>2. j - 1 \in 1 .. i /\ j - 1 < j
        BY <1>1, <1>3, <2>1
    <2>3. \A k \in (j - 1) + 1 .. i : ~Header(h, k)
        BY <1>1, <1>3, <1>4
    <2>4. j - 1 \in S
        BY <1>3, <2>1, <2>2, <2>3
    <2>5. <<j - 1, j>> \in OpToRel(<, Nat)
        BY <1>1, <1>3, <2>2 DEF OpToRel
    <2> QED
        BY <1>2, <2>4, <2>5
<1> QED
    BY <1>3, <1>4

\* Where a header stands, it says who wrote the message, but for the exceptions.
LEMMA NameFits ==
    ASSUME NEW m \in Message, NEW c \in Convs, OwnMessage(m, c)
    PROVE  IsAbove(NameOf(m, c, contacts), m, c)
<1>1. m.sent \in BOOLEAN /\ Convs = People \union Rooms
    BY DEF Message, Convs
<1>2. CASE m.sent
    BY <1>2 DEF NameOf, IsAbove, OwnMessage
<1>3. CASE ~m.sent /\ m.from \in Elements(contacts)
    BY <1>3 DEF NameOf, IsAbove
<1>4. CASE ~m.sent /\ m.from \notin Elements(contacts)
    BY <1>1, <1>4 DEF NameOf, IsAbove, OwnMessage
<1> QED
    BY <1>1, <1>2, <1>3, <1>4

\* Two messages of one sender: what may stand above one may stand above the other.
LEMMA SameKeySameSender ==
    ASSUME NEW m \in Message, NEW n \in Message, Key(m) = Key(n), NEW c,
           OwnMessage(m, c), OwnMessage(n, c), NEW x, IsAbove(x, m, c)
    PROVE  IsAbove(x, n, c)
<1>1. m.from \in Convs /\ n.from \in Convs /\ m.sent \in BOOLEAN /\ n.sent \in BOOLEAN
    BY Constants DEF Message
<1>2. m.sent = n.sent /\ (~m.sent => m.from = n.from)
    BY <1>1, Constants DEF Key
<1>3. m.from = n.from
    BY <1>1, <1>2 DEF OwnMessage
<1> QED
    BY <1>2, <1>3 DEF IsAbove

(* The nearest header above every message that is shown is of who wrote    *)
(* it, but for strangers in rooms and the user's own messages before the   *)
(* client knows who he is.                                                 *)
THEOREM SendersAreNamed == Spec => []Attributed
<1>1. ASSUME WInv, Owned PROVE Attributed
    <2> SUFFICES ASSUME win.open, win.selected \in DOMAIN win.convs,
                        NEW c, c = win.convs[win.selected], NEW i \in DOMAIN win.panel.lines
                 PROVE  \E j \in 1 .. i :
                            /\ IsAbove(win.panel.lines[j].header, cache[c][i], c)
                            /\ \A k \in j + 1 .. i : win.panel.lines[k].header = None
        BY DEF Attributed
    <2>1. PICK h : h = cache[c]
        OBVIOUS
    <2>2. win.panel.lines = Lines(h, c, contacts)
        BY <1>1, <2>1 DEF WInv, Windows, Shows
    <2>3. c \in Convs /\ h \in Seq(Message)
        <3>1. win.convs \in Lists /\ cache \in Caches
            BY <1>1 DEF WInv, Windows, WinType, Services
        <3> QED
            BY <2>1, <3>1, Places DEF Caches
    <2>4. /\ i \in DOMAIN h /\ DOMAIN h = 1 .. Len(h)
          /\ \A k \in DOMAIN h : win.panel.lines[k].header = IF Header(h, k) THEN NameOf(h[k], c, contacts) ELSE None
        BY <2>2, <2>3 DEF Lines, Line
    <2>5. PICK j \in 1 .. i : /\ Header(h, j) /\ Key(h[j]) = Key(h[i])
                              /\ \A k \in j + 1 .. i : ~Header(h, k)
        BY <2>3, <2>4, HeaderAbove
    <2>6. j \in DOMAIN h /\ \A k \in j + 1 .. i : k \in DOMAIN h
        BY <2>3, <2>4
    <2>7. h[i] \in Message /\ h[j] \in Message
        BY <2>3, <2>4, <2>6
    <2>8. OwnMessage(h[i], c) /\ OwnMessage(h[j], c)
        BY <1>1, <2>1, <2>3, <2>4, <2>6 DEF Owned
    <2>9. IsAbove(NameOf(h[j], c, contacts), h[i], c)
        BY <2>3, <2>5, <2>7, <2>8, NameFits, SameKeySameSender
    <2> QED
        BY <2>1, <2>4, <2>5, <2>6, <2>9
<1> QED
    BY <1>1, OwnedAlways, PTL

=============================================================================
