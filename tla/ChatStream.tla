----------------------------- MODULE ChatStream -----------------------------
(***************************************************************************)
(* The live half of messaging_service: SendMessage and ChatStream of       *)
(* messaging_service.cpp store a message and write it to every registered  *)
(* stream.  The mutex m_ guards active_streams_ and is held through the    *)
(* whole of broadcast, writes included; Database has a mutex of its own,   *)
(* released before broadcast, so rows and broadcasts may come in different *)
(* orders.                                                                 *)
(*                                                                         *)
(* active_streams_ holds pointers into the stack frames of the ChatStream  *)
(* handlers and outlives them.  Reading alive through such a pointer is    *)
(* undefined; here it comes out either way and a write through it goes     *)
(* nowhere, or the process dies (Crash may happen at any time).            *)
(***************************************************************************)
EXTENDS Naturals, FiniteSets, SequencesExt

CONSTANTS
    Streams,   \* ChatStream calls
    Callers,   \* threads of clients that call SendMessage
    Window,    \* messages a client may leave unread before a Write blocks
    MaxRows    \* bound: requests are taken while the rows and the inserts under way are fewer

ASSUME WindowAssumption == Window \in Nat \ {0}
ASSUME HandlersAssumption == Streams \intersect Callers = {}

Handlers == Streams \union Callers

VARIABLES
    table,     \* the handler that stored each row of messages, in id order
    reg,       \* active_streams_
    rpc,       \* the handlers
    alive,     \* ActiveStream.alive of each stream
    unread,    \* messages written to a stream and not taken by its client
    broken,    \* the streams whose connection is lost
    got        \* the ids written to each stream

vars == <<table, reg, rpc, alive, unread, broken, got>>

-----------------------------------------------------------------------------
\* off and gone: not called yet, returned.  open: a stream in Read.
\* insert: at insertMessage.  wait: at the lock of m_.  write: in the loop of
\* broadcast, with todo left to visit.  hangup: between alive = false and return.
Pc == {"off", "open", "insert", "wait", "write", "hangup", "gone"}

Gone(s) == rpc[s].pc = "gone"

Locked == \E h \in Handlers : rpc[h].pc = "write"

(* The state has its shape, a stream is registered once and no stream has  *)
(* more unread messages than its window.                                   *)
TypeOK ==
    /\ table \in Seq(Handlers)
    /\ reg \in Seq(Streams) /\ IsInjective(reg)
    /\ rpc \in [Handlers -> [pc : Pc, id : Nat, todo : Seq(Streams)]]
    /\ alive \in [Streams -> BOOLEAN]
    /\ unread \in [Streams -> 0 .. Window]
    /\ broken \subseteq Streams
    /\ got \in [Streams -> Seq(Nat)]

At(h, pc) == rpc[h].pc = pc

Goto(h, pc) == rpc' = [rpc EXCEPT ![h].pc = pc]

\* A unary call answers; a stream reads on.
Done(h) == [pc |-> IF h \in Streams THEN "open" ELSE "off", id |-> 0, todo |-> <<>>]

Init ==
    /\ table = <<>>
    /\ reg = <<>>
    /\ rpc = [h \in Handlers |-> [pc |-> "off", id |-> 0, todo |-> <<>>]]
    /\ alive = [s \in Streams |-> TRUE]
    /\ unread = [s \in Streams |-> 0]
    /\ broken = {}
    /\ got = [s \in Streams |-> <<>>]

-----------------------------------------------------------------------------
\* ChatStream begins: self is pushed under the lock.
Open(s) ==
    /\ At(s, "off") /\ ~Locked
    /\ reg' = Append(reg, s)
    /\ Goto(s, "open")
    /\ UNCHANGED <<table, alive, unread, broken, got>>

\* A message comes in: a SendMessage call, or a Read of ChatStream.
Receive(h) ==
    /\ At(h, IF h \in Streams THEN "open" ELSE "off")
    /\ Len(table) + Cardinality({k \in Handlers : At(k, "insert")}) < MaxRows
    /\ Goto(h, "insert")
    /\ UNCHANGED <<table, reg, alive, unread, broken, got>>

(***************************************************************************)
(* insertMessage.  When the connection is lost the transaction is tried    *)
(* once more, although the first try may have committed.  It throws when   *)
(* the last try fails, and that one may have committed as well.            *)
(***************************************************************************)
Stored(h, n) == table' = table \o [i \in 1 .. n |-> h]

InsertOk(h) ==
    \E n \in 1 .. 2 :
        /\ At(h, "insert")
        /\ Stored(h, n)
        /\ rpc' = [rpc EXCEPT ![h] = [@ EXCEPT !.pc = "wait", !.id = Len(table) + n]]
        /\ UNCHANGED <<reg, alive, unread, broken, got>>

InsertFail(h) ==
    \E n \in 0 .. 2 :
        /\ At(h, "insert")
        /\ Stored(h, n)
        /\ rpc' = [rpc EXCEPT ![h] = Done(h)]
        /\ UNCHANGED <<reg, alive, unread, broken, got>>

(***************************************************************************)
(* broadcast: take the lock, drop the streams that are no longer alive,    *)
(* then write to the others one after the other.                           *)
(***************************************************************************)
SeenAlive(s) == IF Gone(s) THEN BOOLEAN ELSE {alive[s]}

\* What may be left of active_streams_, in its order.
Thinned ==
    {q \in SeqOf(ToSet(reg), Len(reg)) :
        \E f \in [DOMAIN q -> DOMAIN reg] :
            /\ \A i, k \in DOMAIN q : i < k => f[i] < f[k]
            /\ \A i \in DOMAIN q : q[i] = reg[f[i]]}

\* Mutant: the id is asked for after the Database mutex was released.
BeginBroadcastOfLastRow(h) ==
    /\ At(h, "wait") /\ ~Locked
    /\ \E q \in Thinned :
           /\ \A s \in ToSet(reg) : (s \in ToSet(q)) \in SeenAlive(s)
           /\ reg' = q
           /\ rpc' = [rpc EXCEPT ![h] = [@ EXCEPT !.pc = "write", !.id = Len(table), !.todo = q]]
           /\ UNCHANGED <<table, alive, unread, broken, got>>

\* Mutant: broadcast does not take the lock.
BeginBroadcastUnlocked(h) ==
    /\ At(h, "wait")
    /\ \E q \in Thinned :
           /\ \A s \in ToSet(reg) : (s \in ToSet(q)) \in SeenAlive(s)
           /\ reg' = q
           /\ rpc' = [rpc EXCEPT ![h] = [@ EXCEPT !.pc = "write", !.todo = q]]
           /\ UNCHANGED <<table, alive, unread, broken, got>>

BeginBroadcast(h) ==
    /\ At(h, "wait") /\ ~Locked
    /\ \E q \in Thinned :
           /\ \A s \in ToSet(reg) : (s \in ToSet(q)) \in SeenAlive(s)
           /\ reg' = q
           /\ rpc' = [rpc EXCEPT ![h] = [@ EXCEPT !.pc = "write", !.todo = q]]
           /\ UNCHANGED <<table, alive, unread, broken, got>>

\* Mutant: a Write waits for room on a lost connection, too.
CanWriteRoom(s) == unread[s] < Window

\* ServerReaderWriter::Write: blocks while the client leaves too much unread,
\* returns at once when the connection is lost.
CanWrite(s) == s \in broken \/ unread[s] < Window

Write(s, id) ==
    IF s \in broken
    THEN UNCHANGED <<unread, got>>
    ELSE /\ unread' = [unread EXCEPT ![s] = @ + 1]
         /\ got' = [got EXCEPT ![s] = Append(@, id)]

\* Mutant: a stream with no room is passed over.
VisitUnlessFull(h) ==
    /\ At(h, "write") /\ rpc[h].todo # <<>>
    /\ LET s == Head(rpc[h].todo) IN
           \E live \in SeenAlive(s) :
               IF live /\ ~Gone(s) /\ CanWrite(s)
               THEN Write(s, rpc[h].id)
               ELSE UNCHANGED <<unread, got>>
    /\ rpc' = [rpc EXCEPT ![h].todo = Tail(@)]
    /\ UNCHANGED <<table, reg, alive, broken>>

Visit(h) ==
    /\ At(h, "write") /\ rpc[h].todo # <<>>
    /\ LET s == Head(rpc[h].todo) IN
           \E live \in SeenAlive(s) :
               IF live /\ ~Gone(s)
               THEN CanWrite(s) /\ Write(s, rpc[h].id)
               ELSE UNCHANGED <<unread, got>>
    /\ rpc' = [rpc EXCEPT ![h].todo = Tail(@)]
    /\ UNCHANGED <<table, reg, alive, broken>>

\* The lock is released; SendMessage answers, ChatStream reads on.
EndBroadcast(h) ==
    /\ At(h, "write") /\ rpc[h].todo = <<>>
    /\ rpc' = [rpc EXCEPT ![h] = Done(h)]
    /\ UNCHANGED <<table, reg, alive, unread, broken, got>>

-----------------------------------------------------------------------------
\* Read returns false: alive is cleared without the lock, and the call returns.
HangUp(s) ==
    /\ At(s, "open")
    /\ alive' = [alive EXCEPT ![s] = FALSE]
    /\ Goto(s, "hangup")
    /\ UNCHANGED <<table, reg, unread, broken, got>>

\* The call is over, and with it its connection and what it left unread.
Leave(s) ==
    /\ At(s, "hangup")
    /\ Goto(s, "gone")
    /\ unread' = [unread EXCEPT ![s] = 0]
    /\ broken' = broken \ {s}
    /\ UNCHANGED <<table, reg, alive, got>>

\* The process dies and starts again: the table is all that is left.
Crash ==
    /\ \E h \in Handlers : ~At(h, "off")
    /\ reg' = <<>>
    /\ rpc' = [h \in Handlers |->
                  [pc   |-> IF h \in Callers \/ At(h, "off") THEN "off" ELSE "gone",
                   id   |-> 0,
                   todo |-> <<>>]]
    /\ alive' = [s \in Streams |-> At(s, "off")]
    /\ unread' = [s \in Streams |-> 0]
    /\ broken' = {}
    /\ UNCHANGED <<table, got>>

\* The clients.
Take(s) ==
    /\ unread[s] > 0 /\ s \notin broken
    /\ unread' = [unread EXCEPT ![s] = @ - 1]
    /\ UNCHANGED <<table, reg, rpc, alive, broken, got>>

Disconnect(s) ==
    /\ ~At(s, "off") /\ ~Gone(s) /\ s \notin broken
    /\ broken' = broken \union {s}
    /\ UNCHANGED <<table, reg, rpc, alive, unread, got>>

-----------------------------------------------------------------------------
Broadcast(h) == InsertOk(h) \/ InsertFail(h) \/ BeginBroadcast(h) \/ Visit(h) \/ EndBroadcast(h)

Next ==
    \/ \E h \in Handlers : Receive(h) \/ Broadcast(h)
    \/ \E s \in Streams : Open(s) \/ HangUp(s) \/ Leave(s) \/ Take(s) \/ Disconnect(s)
    \/ Crash

Spec == Init /\ [][Next]_vars

(***************************************************************************)
(* A handler runs on: its thread is scheduled and m_ is handed over to a   *)
(* waiter that keeps asking.  A client takes what was written to it; the   *)
(* code has no timeout for one that does not.                              *)
(***************************************************************************)
Fairness ==
    /\ \A h \in Handlers :
           /\ WF_vars(InsertOk(h) \/ InsertFail(h))
           /\ SF_vars(BeginBroadcast(h))
           /\ WF_vars(Visit(h))
           /\ WF_vars(EndBroadcast(h))
    /\ \A s \in Streams : WF_vars(Take(s))

FairSpec == Spec /\ Fairness

-----------------------------------------------------------------------------
(* All streams see the messages they have in common in one order, and none *)
(* of them twice, however the handlers that store and broadcast them       *)
(* interleave.                                                             *)
SameOrder ==
    \A s, r \in Streams :
        \A i, j \in DOMAIN got[s], k, l \in DOMAIN got[r] :
            i < j /\ got[s][i] = got[r][k] /\ got[s][j] = got[r][l] => k < l

(* What one ChatStream or one SendMessage client sends reaches every       *)
(* stream once and in the order of its rows, which is the order GET        *)
(* messages shows: no retried insert is written twice.                     *)
SenderOrder ==
    \A s \in Streams :
        \A i, k \in DOMAIN got[s] :
            i < k /\ table[got[s][i]] = table[got[s][k]] => got[s][i] < got[s][k]

(* While a broadcast runs, every registered stream that is alive and       *)
(* connected has the message or is still to be visited: no message is      *)
(* acknowledged that a listening client missed.                            *)
NoMissedBroadcast ==
    \A h \in Handlers, s \in Streams :
        At(h, "write") /\ s \in ToSet(reg) /\ alive[s] /\ ~Gone(s) /\ s \notin broken =>
            s \in ToSet(rpc[h].todo) \/ rpc[h].id \in ToSet(got[s])

(* Every message taken from a client is done with some day: the call comes *)
(* back, or the process dies.                                              *)
CallsReturn ==
    \A h \in Handlers :
        rpc[h].pc \in {"insert", "wait", "write"} ~> rpc[h].pc \in {"open", "off", "gone"}

=============================================================================
