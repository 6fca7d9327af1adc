-------------------------- MODULE ChatStreamProofs --------------------------
(***************************************************************************)
(* Proofs about ChatStream for any streams, callers, windows and bounds.   *)
(***************************************************************************)
EXTENDS ChatStream, SequenceTheorems, TLAPS

-----------------------------------------------------------------------------
Storing(h) == rpc[h].pc \in {"wait", "write"}

\* m_ has one holder, and who has a message has the row it stored.
Owners ==
    /\ \A h, k \in Handlers : At(h, "write") /\ At(k, "write") => h = k
    /\ \A h \in Handlers : Storing(h) => rpc[h].id \in DOMAIN table /\ table[rpc[h].id] = h

\* A registered stream was opened; broadcast visits each of them once.
Visits ==
    /\ \A s \in ToSet(reg) : ~At(s, "off")
    /\ \A h \in Handlers : At(h, "write") => IsInjective(rpc[h].todo)

\* Streams got rows.  Those of a handler that is under way are older than its
\* message, which comes last where it was written.
Behind ==
    /\ \A s \in Streams : \A i \in DOMAIN got[s] : got[s][i] \in DOMAIN table
    /\ \A h \in Handlers, s \in Streams : \A i \in DOMAIN got[s] :
           Storing(h) /\ table[got[s][i]] = h =>
               \/ got[s][i] < rpc[h].id
               \/ /\ At(h, "write") /\ s \notin ToSet(rpc[h].todo)
                  /\ got[s][i] = rpc[h].id /\ i = Len(got[s])

CInv == TypeOK /\ Owners /\ Visits /\ Behind /\ SameOrder /\ SenderOrder /\ NoMissedBroadcast

Handler == [pc : Pc, id : Nat, todo : Seq(Streams)]

LEMMA HandlerKinds == Streams \subseteq Handlers /\ Callers \subseteq Handlers
BY DEF Handlers

LEMMA DoneIsHandler == \A h : Done(h) \in Handler /\ Done(h).pc \in {"open", "off"}
BY EmptySeq DEF Done, Handler, Pc

-----------------------------------------------------------------------------
LEMMA InitEstablishes == Init => CInv
<1> SUFFICES ASSUME Init PROVE CInv
    OBVIOUS
<1> USE EmptySeq
<1>1. \A s \in Streams : DOMAIN got[s] = {}
    BY DEF Init
<1>2. ToSet(reg) = {} /\ IsInjective(reg)
    BY DEF Init, ToSet, IsInjective
<1>3. \A h \in Handlers : rpc[h].pc = "off"
    BY DEF Init
<1>4. TypeOK
    BY <1>2, WindowAssumption DEF Init, TypeOK, Pc
<1>5. Owners /\ Visits
    BY <1>2, <1>3 DEF Owners, Visits, Storing, At
<1>6. Behind /\ SameOrder /\ SenderOrder
    BY <1>1 DEF Behind, SameOrder, SenderOrder
<1>7. NoMissedBroadcast
    BY <1>3 DEF NoMissedBroadcast, At
<1> QED
    BY <1>4, <1>5, <1>6, <1>7 DEF CInv

-----------------------------------------------------------------------------
(***************************************************************************)
(* Sequences.                                                              *)
(***************************************************************************)
LEMMA MembersOf ==
    ASSUME NEW S, NEW q \in Seq(S)
    PROVE  DOMAIN q = 1 .. Len(q) /\ Len(q) \in Nat /\ ToSet(q) \subseteq S
BY LenProperties, ElementOfSeq DEF ToSet

\* What is left of a list that has nothing twice has nothing twice.
LEMMA ThinnedIsThin ==
    ASSUME reg \in Seq(Streams), IsInjective(reg), NEW q \in Thinned
    PROVE  q \in Seq(Streams) /\ IsInjective(q) /\ ToSet(q) \subseteq ToSet(reg)
<1>1. PICK n \in 0 .. Len(reg) : q \in [1 .. n -> ToSet(reg)]
    BY DEF Thinned, SeqOf
<1>2. n \in Nat /\ ToSet(reg) \subseteq Streams /\ Len(reg) \in Nat /\ DOMAIN reg = 1 .. Len(reg)
    BY <1>1, MembersOf
<1>3. q \in [1 .. n -> Streams]
    BY <1>1, <1>2
<1>4. q \in Seq(Streams) /\ ToSet(q) \subseteq ToSet(reg) /\ DOMAIN q = 1 .. n
    BY <1>1, <1>2, <1>3 DEF ToSet
<1>5. PICK f \in [DOMAIN q -> DOMAIN reg] :
          /\ \A i, k \in DOMAIN q : i < k => f[i] < f[k]
          /\ \A i \in DOMAIN q : q[i] = reg[f[i]]
    BY DEF Thinned
<1>6. ASSUME NEW i \in DOMAIN q, NEW k \in DOMAIN q, q[i] = q[k]
      PROVE  i = k
    <2>1. f[i] \in DOMAIN reg /\ f[k] \in DOMAIN reg /\ reg[f[i]] = reg[f[k]]
        BY <1>5, <1>6
    <2>2. f[i] = f[k]
        BY <2>1 DEF IsInjective
    <2>3. f[i] \in Nat /\ f[k] \in Nat /\ i \in Nat /\ k \in Nat
        BY <1>2, <1>4, <2>1
    <2>4. ~(i < k) /\ ~(k < i)
        BY <1>5, <2>2, <2>3
    <2> QED
        BY <2>3, <2>4
<1> QED
    BY <1>4, <1>6 DEF IsInjective

LEMMA Appended ==
    ASSUME NEW S, NEW q \in Seq(S), NEW x \in S
    PROVE  /\ Append(q, x) \in Seq(S) /\ Len(Append(q, x)) = Len(q) + 1
           /\ DOMAIN Append(q, x) = DOMAIN q \union {Len(q) + 1}
           /\ Append(q, x)[Len(q) + 1] = x
           /\ \A i \in DOMAIN q : Append(q, x)[i] = q[i] /\ i < Len(q) + 1 /\ i \in Nat
<1>1. /\ Append(q, x) \in Seq(S) /\ Len(Append(q, x)) = Len(q) + 1
      /\ \A i \in 1 .. Len(q) : Append(q, x)[i] = q[i]
      /\ Append(q, x)[Len(q) + 1] = x
    BY AppendProperties
<1>2. Len(q) \in Nat /\ DOMAIN q = 1 .. Len(q) /\ DOMAIN Append(q, x) = 1 .. Len(q) + 1
    BY <1>1, MembersOf
<1>3. 1 .. Len(q) + 1 = (1 .. Len(q)) \union {Len(q) + 1}
    BY <1>2
<1> QED
    BY <1>1, <1>2, <1>3

LEMMA HeadAndTail ==
    ASSUME NEW S, NEW q \in Seq(S), q # <<>>
    PROVE  /\ Head(q) \in S /\ Tail(q) \in Seq(S)
           /\ ToSet(q) = {Head(q)} \union ToSet(Tail(q))
           /\ IsInjective(q) => IsInjective(Tail(q)) /\ Head(q) \notin ToSet(Tail(q))
<1>1. /\ Head(q) \in S /\ Tail(q) \in Seq(S) /\ Len(Tail(q)) = Len(q) - 1
      /\ \A i \in 1 .. Len(Tail(q)) : Tail(q)[i] = q[i + 1]
    BY HeadTailProperties
<1>2. Len(q) \in Nat /\ Len(q) > 0 /\ DOMAIN q = 1 .. Len(q) /\ Head(q) = q[1]
    BY MembersOf, EmptySeq
<1>3. DOMAIN Tail(q) = 1 .. Len(q) - 1
    BY <1>1, MembersOf
<1>4. \A i \in DOMAIN Tail(q) : i + 1 \in DOMAIN q /\ Tail(q)[i] = q[i + 1] /\ i + 1 # 1
    BY <1>1, <1>2, <1>3
<1>5. \A i \in DOMAIN q : i = 1 \/ (i - 1 \in DOMAIN Tail(q) /\ Tail(q)[i - 1] = q[i])
    <2> SUFFICES ASSUME NEW i \in 1 .. Len(q), i # 1
                 PROVE  i - 1 \in DOMAIN Tail(q) /\ Tail(q)[i - 1] = q[i]
        BY <1>2
    <2>1. i - 1 \in 1 .. Len(q) - 1 /\ (i - 1) + 1 = i
        BY <1>2
    <2> QED
        BY <1>3, <1>4, <2>1
<1>6. ToSet(q) = {Head(q)} \union ToSet(Tail(q))
    <2>1. \A x \in ToSet(q) : x \in {Head(q)} \union ToSet(Tail(q))
        BY <1>2, <1>5 DEF ToSet
    <2>2. 1 \in DOMAIN q
        BY <1>2
    <2>3. \A x \in {Head(q)} \union ToSet(Tail(q)) : x \in ToSet(q)
        BY <1>2, <1>4, <2>2 DEF ToSet
    <2> QED
        BY <2>1, <2>3
<1>7. ASSUME IsInjective(q) PROVE IsInjective(Tail(q)) /\ Head(q) \notin ToSet(Tail(q))
    <2>1. ASSUME NEW i \in DOMAIN Tail(q), NEW k \in DOMAIN Tail(q), Tail(q)[i] = Tail(q)[k]
          PROVE  i = k
        <3>1. i + 1 = k + 1
            BY <1>4, <1>7, <2>1 DEF IsInjective
        <3> QED
            BY <1>3, <3>1
    <2>2. ASSUME NEW i \in DOMAIN Tail(q), Tail(q)[i] = Head(q) PROVE FALSE
        <3>1. q[i + 1] = q[1] /\ i + 1 \in DOMAIN q /\ 1 \in DOMAIN q /\ i + 1 # 1
            BY <1>2, <1>4, <2>2
        <3> QED
            BY <1>7, <3>1 DEF IsInjective
    <2> QED
        BY <2>1, <2>2 DEF IsInjective, ToSet
<1> QED
    BY <1>1, <1>6, <1>7

\* The table only grows at its end.
LEMMA TableGrows ==
    ASSUME table \in Seq(Handlers), NEW h \in Handlers, NEW n \in Nat, Stored(h, n)
    PROVE  /\ table' \in Seq(Handlers) /\ Len(table') = Len(table) + n /\ Len(table) \in Nat
           /\ DOMAIN table' = 1 .. Len(table) + n
           /\ \A i \in DOMAIN table : i \in DOMAIN table' /\ table'[i] = table[i]
           /\ n > 0 => table'[Len(table) + n] = h
<1>1. PICK new : new = [i \in 1 .. n |-> h]
    OBVIOUS
<1>2. new \in Seq(Handlers) /\ Len(new) = n
    <2>1. new \in [1 .. n -> Handlers]
        BY <1>1
    <2> QED
        BY <2>1, LenProperties
<1>3. table' = table \o new /\ Len(table) \in Nat /\ DOMAIN table = 1 .. Len(table)
    BY <1>1, MembersOf DEF Stored
<1>4. /\ table' \in Seq(Handlers) /\ Len(table') = Len(table) + n
      /\ \A i \in 1 .. Len(table) + n :
             table'[i] = IF i <= Len(table) THEN table[i] ELSE new[i - Len(table)]
    BY <1>2, <1>3, ConcatProperties
<1>5. DOMAIN table' = 1 .. Len(table) + n
    BY <1>4, MembersOf
<1>6. ASSUME n > 0 PROVE table'[Len(table) + n] = h
    <2>1. /\ Len(table) + n \in 1 .. Len(table) + n /\ ~(Len(table) + n <= Len(table))
          /\ (Len(table) + n) - Len(table) = n /\ n \in 1 .. n
        BY <1>3, <1>6
    <2>2. table'[Len(table) + n] = new[n]
        BY <1>4, <2>1
    <2> QED
        BY <1>1, <2>1, <2>2
<1> QED
    BY <1>3, <1>4, <1>5, <1>6

-----------------------------------------------------------------------------
LEMMA TypeStep == TypeOK /\ Visits /\ [Next]_vars => TypeOK'
<1> SUFFICES ASSUME TypeOK, Visits, [Next]_vars PROVE TypeOK'
    OBVIOUS
<1>0. /\ table \in Seq(Handlers) /\ reg \in Seq(Streams) /\ IsInjective(reg)
      /\ rpc \in [Handlers -> Handler] /\ alive \in [Streams -> BOOLEAN]
      /\ unread \in [Streams -> 0 .. Window] /\ broken \subseteq Streams
      /\ got \in [Streams -> Seq(Nat)] /\ Window \in Nat
    BY WindowAssumption DEF TypeOK, Handler
<1> USE HandlerKinds
<1>1. ASSUME NEW h \in Handlers, NEW pc \in Pc, Goto(h, pc)
      PROVE  rpc' \in [Handlers -> Handler]
    BY <1>0, <1>1 DEF Goto, Handler
<1>2. ASSUME NEW h \in Handlers, rpc' = [rpc EXCEPT ![h] = Done(h)]
      PROVE  rpc' \in [Handlers -> Handler]
    BY <1>0, <1>2, DoneIsHandler
<1>3. CASE UNCHANGED vars
    BY <1>0, <1>3 DEF vars, TypeOK, Handler
<1>4. ASSUME NEW s \in Streams, Open(s)
      PROVE  TypeOK'
    <2>1. s \notin ToSet(reg)
        BY <1>4 DEF Open, Visits
    <2>2. reg' \in Seq(Streams) /\ IsInjective(reg')
        <3>1. reg' = Append(reg, s)
            BY <1>4 DEF Open
        <3>2. /\ reg' \in Seq(Streams) /\ DOMAIN reg' = DOMAIN reg \union {Len(reg) + 1}
              /\ reg'[Len(reg) + 1] = s /\ \A i \in DOMAIN reg : reg'[i] = reg[i]
            BY <1>0, <3>1, Appended
        <3>3. \A i \in DOMAIN reg : reg'[i] # s
            BY <2>1, <3>2 DEF ToSet
        <3> QED
            BY <1>0, <3>2, <3>3 DEF IsInjective
    <2>3. rpc' \in [Handlers -> Handler]
        BY <1>1, <1>4 DEF Open, Pc
    <2> QED
        BY <1>0, <1>4, <2>2, <2>3 DEF Open, TypeOK, Handler
<1>5. ASSUME NEW h \in Handlers, Receive(h)
      PROVE  TypeOK'
    <2>1. rpc' \in [Handlers -> Handler]
        BY <1>1, <1>5 DEF Receive, Pc
    <2> QED
        BY <1>0, <1>5, <2>1 DEF Receive, TypeOK, Handler
<1>6. ASSUME NEW h \in Handlers, InsertOk(h)
      PROVE  TypeOK'
    <2>1. PICK n \in 1 .. 2 : /\ Stored(h, n)
                             /\ rpc' = [rpc EXCEPT ![h] = [@ EXCEPT !.pc = "wait", !.id = Len(table) + n]]
                             /\ UNCHANGED <<reg, alive, unread, broken, got>>
        BY <1>6 DEF InsertOk
    <2>2. n \in Nat
        OBVIOUS
    <2>3. table' \in Seq(Handlers) /\ Len(table) \in Nat
        BY <1>0, <2>1, <2>2, TableGrows
    <2>4. rpc' \in [Handlers -> Handler]
        <3>1. Len(table) + n \in Nat
            BY <2>2, <2>3
        <3> QED
            BY <1>0, <2>1, <3>1 DEF Handler, Pc
    <2> QED
        BY <1>0, <2>1, <2>3, <2>4 DEF TypeOK, Handler
<1>7. ASSUME NEW h \in Handlers, InsertFail(h)
      PROVE  TypeOK'
    <2>1. PICK n \in 0 .. 2 : /\ Stored(h, n) /\ rpc' = [rpc EXCEPT ![h] = Done(h)]
                             /\ UNCHANGED <<reg, alive, unread, broken, got>>
        BY <1>7 DEF InsertFail
    <2>2. n \in Nat
        OBVIOUS
    <2>3. table' \in Seq(Handlers)
        BY <1>0, <2>1, <2>2, TableGrows
    <2> QED
        BY <1>0, <1>2, <2>1, <2>3 DEF TypeOK, Handler
<1>8. ASSUME NEW h \in Handlers, BeginBroadcast(h)
      PROVE  TypeOK'
    <2>1. PICK q \in Thinned : /\ reg' = q
                             /\ rpc' = [rpc EXCEPT ![h] = [@ EXCEPT !.pc = "write", !.todo = q]]
                             /\ UNCHANGED <<table, alive, unread, broken, got>>
        BY <1>8 DEF BeginBroadcast
    <2>2. q \in Seq(Streams) /\ IsInjective(q)
        BY <1>0, ThinnedIsThin
    <2>3. rpc' \in [Handlers -> Handler]
        BY <1>0, <2>1, <2>2 DEF Handler, Pc
    <2> QED
        BY <1>0, <2>1, <2>2, <2>3 DEF TypeOK, Handler
<1>9. ASSUME NEW h \in Handlers, Visit(h)
      PROVE  TypeOK'
    <2>1. PICK s : s = Head(rpc[h].todo)
        OBVIOUS
    <2>2. /\ rpc[h].todo \in Seq(Streams) /\ rpc[h].todo # <<>> /\ rpc[h].id \in Nat
          /\ rpc' = [rpc EXCEPT ![h].todo = Tail(@)] /\ UNCHANGED <<table, reg, alive, broken>>
          /\ (CanWrite(s) /\ Write(s, rpc[h].id)) \/ UNCHANGED <<unread, got>>
        BY <1>0, <1>9, <2>1 DEF Visit, Handler
    <2>3. s \in Streams /\ Tail(rpc[h].todo) \in Seq(Streams)
        BY <2>1, <2>2, HeadAndTail
    <2>4. rpc' \in [Handlers -> Handler]
        BY <1>0, <2>2, <2>3 DEF Handler
    <2>5. unread' \in [Streams -> 0 .. Window] /\ got' \in [Streams -> Seq(Nat)]
        <3>1. CASE UNCHANGED <<unread, got>>
            BY <1>0, <3>1
        <3>2. CASE s \notin broken /\ CanWrite(s) /\ Write(s, rpc[h].id)
            <4>1. /\ unread' = [unread EXCEPT ![s] = @ + 1]
                  /\ got' = [got EXCEPT ![s] = Append(@, rpc[h].id)] /\ unread[s] < Window
                BY <3>2 DEF Write, CanWrite
            <4>2. unread[s] + 1 \in 0 .. Window
                BY <1>0, <2>3, <4>1
            <4>3. Append(got[s], rpc[h].id) \in Seq(Nat)
                BY <1>0, <2>2, <2>3, Appended
            <4> QED
                BY <1>0, <2>3, <4>1, <4>2, <4>3
        <3> QED
            BY <2>2, <3>1, <3>2 DEF Write
    <2> QED
        BY <1>0, <2>2, <2>4, <2>5 DEF TypeOK, Handler
<1>10. ASSUME NEW h \in Handlers, EndBroadcast(h)
      PROVE  TypeOK'
    BY <1>0, <1>2, <1>10 DEF EndBroadcast, TypeOK, Handler
<1>11. ASSUME NEW s \in Streams, HangUp(s)
      PROVE  TypeOK'
    <2>1. rpc' \in [Handlers -> Handler]
        BY <1>1, <1>11 DEF HangUp, Pc
    <2> QED
        BY <1>0, <1>11, <2>1 DEF HangUp, TypeOK, Handler
<1>12. ASSUME NEW s \in Streams, Leave(s)
      PROVE  TypeOK'
    <2>1. rpc' \in [Handlers -> Handler]
        BY <1>1, <1>12 DEF Leave, Pc
    <2> QED
        BY <1>0, <1>12, <2>1 DEF Leave, TypeOK, Handler
<1>13. CASE Crash
    <2>1. rpc' \in [Handlers -> Handler]
        BY <1>13, EmptySeq DEF Crash, Handler, Pc
    <2>2. alive' \in [Streams -> BOOLEAN]
        BY <1>13 DEF Crash, At
    <2>3. reg' = <<>> /\ IsInjective(<<>>)
        BY <1>13 DEF Crash, IsInjective
    <2> QED
        BY <1>0, <1>13, <2>1, <2>2, <2>3, EmptySeq DEF Crash, TypeOK, Handler
<1>14. ASSUME NEW s \in Streams, Take(s)
      PROVE  TypeOK'
    <2>1. unread[s] - 1 \in 0 .. Window
        BY <1>0, <1>14 DEF Take
    <2> QED
        BY <1>0, <1>14, <2>1 DEF Take, TypeOK, Handler
<1>15. ASSUME NEW s \in Streams, Disconnect(s)
      PROVE  TypeOK'
    BY <1>0, <1>15 DEF Disconnect, TypeOK, Handler
<1> QED
    BY <1>3, <1>4, <1>5, <1>6, <1>7, <1>8, <1>9, <1>10, <1>11, <1>12, <1>13, <1>14, <1>15
       DEF Next, Broadcast

-----------------------------------------------------------------------------
(***************************************************************************)
(* The four things a step does to messages and to the handlers that store  *)
(* and broadcast them.                                                     *)
(***************************************************************************)
Quiet ==
    /\ UNCHANGED <<table, got>>
    /\ \A h \in Handlers : rpc'[h] = rpc[h] \/ rpc'[h].pc \notin {"wait", "write"}

Others(h) == \A k \in Handlers \ {h} : rpc'[k] = rpc[k]

Stores(h) ==
    /\ got' = got /\ Others(h)
    /\ \E n \in Nat :
           /\ Stored(h, n)
           /\ \/ rpc'[h].pc \notin {"wait", "write"}
              \/ n > 0 /\ rpc'[h].pc = "wait" /\ rpc'[h].id = Len(table) + n

Begins(h) ==
    /\ UNCHANGED <<table, got>> /\ Others(h)
    /\ At(h, "wait") /\ ~Locked
    /\ rpc'[h].pc = "write" /\ rpc'[h].id = rpc[h].id

Delivers(h) ==
    /\ table' = table /\ Others(h)
    /\ At(h, "write") /\ rpc[h].todo # <<>>
    /\ rpc'[h].pc = "write" /\ rpc'[h].id = rpc[h].id /\ rpc'[h].todo = Tail(rpc[h].todo)
    /\ \/ got' = got
       \/ got' = [got EXCEPT ![Head(rpc[h].todo)] = Append(@, rpc[h].id)]

LEMMA OneStep ==
    TypeOK /\ [Next]_vars => Quiet \/ \E h \in Handlers : Stores(h) \/ Begins(h) \/ Delivers(h)
<1> SUFFICES ASSUME TypeOK, [Next]_vars
             PROVE  Quiet \/ \E h \in Handlers : Stores(h) \/ Begins(h) \/ Delivers(h)
    OBVIOUS
<1>0. rpc \in [Handlers -> Handler]
    BY DEF TypeOK, Handler
<1> USE HandlerKinds
<1>1. CASE UNCHANGED vars
    BY <1>1 DEF vars, Quiet
<1>2. ASSUME NEW h \in Handlers, Receive(h) \/ EndBroadcast(h)
      PROVE  Quiet
    <2>1. UNCHANGED <<table, got>> /\ Others(h) /\ rpc'[h].pc \notin {"wait", "write"}
        BY <1>0, <1>2, DoneIsHandler DEF Receive, EndBroadcast, Goto, Handler, Others
    <2> QED
        BY <2>1 DEF Quiet, Others
<1>3. ASSUME NEW s \in Streams, Open(s) \/ HangUp(s) \/ Leave(s)
      PROVE  Quiet
    <2>1. UNCHANGED <<table, got>> /\ Others(s) /\ rpc'[s].pc \notin {"wait", "write"}
        BY <1>0, <1>3 DEF Open, HangUp, Leave, Goto, Handler, Others
    <2> QED
        BY <2>1 DEF Quiet, Others
<1>4. ASSUME NEW s \in Streams, Take(s) \/ Disconnect(s)
      PROVE  Quiet
    BY <1>4 DEF Take, Disconnect, Quiet
<1>5. CASE Crash
    BY <1>5 DEF Crash, Quiet
<1>6. ASSUME NEW h \in Handlers, InsertOk(h)
      PROVE  Stores(h)
    <2>1. PICK n \in 1 .. 2 : /\ Stored(h, n) /\ got' = got
                             /\ rpc' = [rpc EXCEPT ![h] = [@ EXCEPT !.pc = "wait", !.id = Len(table) + n]]
        BY <1>6 DEF InsertOk
    <2>2. n \in Nat /\ n > 0
        OBVIOUS
    <2>3. Others(h) /\ rpc'[h].pc = "wait" /\ rpc'[h].id = Len(table) + n
        BY <1>0, <2>1 DEF Others, Handler
    <2> QED
        BY <2>1, <2>2, <2>3 DEF Stores
<1>7. ASSUME NEW h \in Handlers, InsertFail(h)
      PROVE  Stores(h)
    <2>1. PICK n \in 0 .. 2 : Stored(h, n) /\ got' = got /\ rpc' = [rpc EXCEPT ![h] = Done(h)]
        BY <1>7 DEF InsertFail
    <2>2. n \in Nat
        OBVIOUS
    <2>3. Others(h) /\ rpc'[h].pc \notin {"wait", "write"}
        BY <1>0, <2>1, DoneIsHandler DEF Others
    <2> QED
        BY <2>1, <2>2, <2>3 DEF Stores
<1>8. ASSUME NEW h \in Handlers, BeginBroadcast(h)
      PROVE  Begins(h)
    <2>1. PICK q \in Thinned : rpc' = [rpc EXCEPT ![h] = [@ EXCEPT !.pc = "write", !.todo = q]]
        BY <1>8 DEF BeginBroadcast
    <2>2. Others(h) /\ rpc'[h].pc = "write" /\ rpc'[h].id = rpc[h].id
        BY <1>0, <2>1 DEF Others, Handler
    <2> QED
        BY <1>8, <2>2 DEF BeginBroadcast, Begins
<1>9. ASSUME NEW h \in Handlers, Visit(h)
      PROVE  Delivers(h)
    <2>1. /\ At(h, "write") /\ rpc[h].todo # <<>> /\ table' = table
          /\ rpc' = [rpc EXCEPT ![h].todo = Tail(@)]
        BY <1>9 DEF Visit
    <2>2. got' = got \/ got' = [got EXCEPT ![Head(rpc[h].todo)] = Append(@, rpc[h].id)]
        BY <1>9 DEF Visit, Write
    <2>3. Others(h) /\ rpc'[h].pc = "write" /\ rpc'[h].id = rpc[h].id /\ rpc'[h].todo = Tail(rpc[h].todo)
        BY <1>0, <2>1 DEF Others, Handler, At
    <2> QED
        BY <2>1, <2>2, <2>3 DEF Delivers
<1> QED
    BY <1>1, <1>2, <1>3, <1>4, <1>5, <1>6, <1>7, <1>8, <1>9 DEF Next, Broadcast

Ordered == Owners /\ Behind /\ SameOrder /\ SenderOrder

LEMMA Shapes ==
    TypeOK =>
        /\ table \in Seq(Handlers) /\ Len(table) \in Nat /\ DOMAIN table = 1 .. Len(table)
        /\ \A h \in Handlers : rpc[h].todo \in Seq(Streams) /\ rpc[h].id \in Nat
        /\ got \in [Streams -> Seq(Nat)]
        /\ \A s \in Streams : /\ Len(got[s]) \in Nat /\ DOMAIN got[s] = 1 .. Len(got[s])
                             /\ \A i \in DOMAIN got[s] : got[s][i] \in Nat
<1> SUFFICES ASSUME TypeOK
             PROVE  /\ table \in Seq(Handlers) /\ Len(table) \in Nat /\ DOMAIN table = 1 .. Len(table)
                    /\ \A h \in Handlers : rpc[h].todo \in Seq(Streams) /\ rpc[h].id \in Nat
                    /\ got \in [Streams -> Seq(Nat)]
                    /\ \A s \in Streams : /\ Len(got[s]) \in Nat /\ DOMAIN got[s] = 1 .. Len(got[s])
                                         /\ \A i \in DOMAIN got[s] : got[s][i] \in Nat
    OBVIOUS
<1>1. table \in Seq(Handlers) /\ got \in [Streams -> Seq(Nat)]
    BY DEF TypeOK
<1>2. Len(table) \in Nat /\ DOMAIN table = 1 .. Len(table)
    BY <1>1, MembersOf
<1>3. \A h \in Handlers : rpc[h].todo \in Seq(Streams) /\ rpc[h].id \in Nat
    BY DEF TypeOK
<1>4. ASSUME NEW s \in Streams
      PROVE  /\ Len(got[s]) \in Nat /\ DOMAIN got[s] = 1 .. Len(got[s])
             /\ \A i \in DOMAIN got[s] : got[s][i] \in Nat
    <2>1. got[s] \in Seq(Nat)
        BY <1>1
    <2> QED
        BY <2>1, MembersOf, ElementOfSeq
<1> QED
    BY <1>1, <1>2, <1>3, <1>4

LEMMA QuietStep == TypeOK /\ Ordered /\ Quiet => Ordered'
<1> SUFFICES ASSUME TypeOK, Ordered, Quiet PROVE Ordered'
    OBVIOUS
<1>1. \A h \in Handlers : rpc'[h].pc \in {"wait", "write"} => rpc'[h] = rpc[h]
    BY DEF Quiet
<1>2. Owners'
    BY <1>1 DEF Ordered, Quiet, Owners, Storing, At
<1>3. Behind'
    BY <1>1 DEF Ordered, Quiet, Behind, Storing, At
<1> QED
    BY <1>2, <1>3 DEF Ordered, Quiet, SameOrder, SenderOrder

LEMMA StoresStep == ASSUME NEW h \in Handlers PROVE TypeOK /\ Ordered /\ Stores(h) => Ordered'
<1> SUFFICES ASSUME TypeOK, Ordered, Stores(h) PROVE Ordered'
    OBVIOUS
<1>0. Owners /\ Behind /\ SameOrder /\ SenderOrder /\ got' = got
    BY DEF Ordered, Stores
<1>1. PICK n \in Nat :
          /\ Stored(h, n)
          /\ \/ rpc'[h].pc \notin {"wait", "write"}
             \/ n > 0 /\ rpc'[h].pc = "wait" /\ rpc'[h].id = Len(table) + n
    BY DEF Stores
<1>2. /\ Len(table) \in Nat /\ DOMAIN table = 1 .. Len(table) /\ DOMAIN table' = 1 .. Len(table) + n
      /\ \A i \in DOMAIN table : i \in DOMAIN table' /\ table'[i] = table[i]
      /\ n > 0 => table'[Len(table) + n] = h
    BY <1>1, Shapes, TableGrows
<1>3. \A k \in Handlers : rpc'[k].pc \in {"wait", "write"} /\ k # h => rpc'[k] = rpc[k]
    BY DEF Stores, Others
<1>4. rpc'[h].pc # "write"
    BY <1>1
<1>5. Owners'
    <2>1. ASSUME rpc'[h].pc \in {"wait", "write"}
          PROVE  rpc'[h].id \in DOMAIN table' /\ table'[rpc'[h].id] = h
        BY <1>1, <1>2, <2>1
    <2>2. ASSUME NEW k \in Handlers, k # h, rpc'[k].pc \in {"wait", "write"}
          PROVE  rpc'[k].id \in DOMAIN table' /\ table'[rpc'[k].id] = k
        BY <1>0, <1>2, <1>3, <2>2 DEF Owners, Storing
    <2>3. \A k, j \in Handlers : rpc'[k].pc = "write" /\ rpc'[j].pc = "write" => k = j
        BY <1>0, <1>3, <1>4 DEF Owners, At
    <2> QED
        BY <2>1, <2>2, <2>3 DEF Owners, Storing, At
<1>6. Behind'
    <2>1. \A s \in Streams : \A i \in DOMAIN got[s] :
              got[s][i] \in DOMAIN table /\ got[s][i] \in DOMAIN table' /\ table'[got[s][i]] = table[got[s][i]]
        BY <1>0, <1>2 DEF Behind
    <2>2. ASSUME NEW s \in Streams, NEW i \in DOMAIN got[s], rpc'[h].pc \in {"wait", "write"}
          PROVE  got[s][i] < rpc'[h].id
        BY <1>1, <1>2, <2>1, <2>2
    <2> QED
        BY <1>0, <1>3, <2>1, <2>2 DEF Behind, Storing, At
<1>7. SameOrder'
    BY <1>0 DEF SameOrder
<1>8. SenderOrder'
    <2>1. \A s \in Streams : \A i \in DOMAIN got[s] : table'[got[s][i]] = table[got[s][i]]
        BY <1>0, <1>2 DEF Behind
    <2> QED
        BY <1>0, <2>1 DEF SenderOrder
<1> QED
    BY <1>5, <1>6, <1>7, <1>8 DEF Ordered

LEMMA BeginsStep == ASSUME NEW h \in Handlers PROVE TypeOK /\ Ordered /\ Begins(h) => Ordered'
<1> SUFFICES ASSUME TypeOK, Ordered, Begins(h) PROVE Ordered'
    OBVIOUS
<1>0. Owners /\ Behind /\ SameOrder /\ SenderOrder /\ got' = got /\ table' = table
    BY DEF Ordered, Begins
<1>1. \A k \in Handlers : k # h => rpc'[k] = rpc[k] /\ rpc[k].pc # "write"
    BY DEF Begins, Others, Locked
<1>2. rpc[h].pc = "wait" /\ rpc'[h].id = rpc[h].id /\ rpc'[h].pc = "write"
    BY DEF Begins, At
<1>3. Owners'
    BY <1>0, <1>1, <1>2 DEF Owners, Storing, At
<1>4. Behind'
    <2>1. ASSUME NEW s \in Streams, NEW i \in DOMAIN got[s], table[got[s][i]] = h
          PROVE  got[s][i] < rpc[h].id
        BY <1>0, <1>2, <2>1 DEF Behind, Storing, At
    <2> QED
        BY <1>0, <1>1, <1>2, <2>1 DEF Behind, Storing, At
<1> QED
    BY <1>0, <1>3, <1>4 DEF Ordered, SameOrder, SenderOrder

LEMMA DeliversStep ==
    ASSUME NEW h \in Handlers PROVE TypeOK /\ Visits /\ Ordered /\ Delivers(h) => Ordered'
<1> SUFFICES ASSUME TypeOK, Visits, Ordered, Delivers(h) PROVE Ordered'
    OBVIOUS
<1>0. Owners /\ Behind /\ SameOrder /\ SenderOrder /\ table' = table
    BY DEF Ordered, Delivers
<1>1. PICK s, id : s = Head(rpc[h].todo) /\ id = rpc[h].id
    OBVIOUS
<1>2. /\ s \in Streams /\ s \in ToSet(rpc[h].todo) /\ s \notin ToSet(Tail(rpc[h].todo))
      /\ ToSet(Tail(rpc[h].todo)) \subseteq ToSet(rpc[h].todo)
    <2>1. rpc[h].todo \in Seq(Streams) /\ rpc[h].todo # <<>> /\ IsInjective(rpc[h].todo)
        BY Shapes DEF Delivers, Visits
    <2> QED
        BY <1>1, <2>1, HeadAndTail
<1>3. /\ rpc[h].pc = "write" /\ rpc'[h].pc = "write" /\ rpc'[h].id = id
      /\ rpc'[h].todo = Tail(rpc[h].todo)
      /\ \A k \in Handlers : k # h => rpc'[k] = rpc[k] /\ rpc[k].pc # "write"
    BY <1>0, <1>1 DEF Delivers, Others, Owners, At
<1>4. Owners'
    BY <1>0, <1>1, <1>3 DEF Owners, Storing, At
<1>5. id \in Nat /\ id \in DOMAIN table /\ table[id] = h
    BY <1>0, <1>1, <1>3, Shapes DEF Owners, Storing
<1>6. ASSUME NEW r \in Streams, NEW i \in DOMAIN got[r], table[got[r][i]] = h
      PROVE  \/ got[r][i] < id
             \/ r \notin ToSet(rpc[h].todo) /\ got[r][i] = id /\ i = Len(got[r])
    BY <1>0, <1>1, <1>3, <1>6 DEF Behind, Storing
<1>7. CASE got' = got
    <2>1. Behind'
        BY <1>0, <1>2, <1>3, <1>6, <1>7 DEF Behind, Storing, At
    <2> QED
        BY <1>0, <1>4, <1>7, <2>1 DEF Ordered, SameOrder, SenderOrder
<1>8. CASE got' = [got EXCEPT ![s] = Append(@, id)]
    <2>1. PICK last : last = Len(got[s]) + 1
        OBVIOUS
    <2>2. /\ DOMAIN got'[s] = DOMAIN got[s] \union {last} /\ Len(got'[s]) = last /\ last \in Nat
          /\ got'[s][last] = id
          /\ \A i \in DOMAIN got[s] : got'[s][i] = got[s][i] /\ i < last /\ i \in Nat
        <3>1. got[s] \in Seq(Nat) /\ got'[s] = Append(got[s], id)
            BY <1>2, <1>8, Shapes
        <3> QED
            BY <1>2, <1>5, <2>1, <3>1, Appended, Shapes
    <2>3. \A r \in Streams : r # s => got'[r] = got[r]
        BY <1>8, Shapes
    <2>4. ASSUME NEW i \in DOMAIN got[s], table[got[s][i]] = h PROVE got[s][i] < id
        BY <1>2, <1>6, <2>4
    <2>5. ASSUME NEW i \in DOMAIN got[s] PROVE got[s][i] # id
        BY <1>5, <2>4, <2>5
    <2>6. ASSUME NEW r \in Streams, NEW i \in DOMAIN got'[r], got'[r][i] = id
          PROVE  i = Len(got'[r])
        <3>1. CASE r = s
            BY <2>2, <2>5, <2>6, <3>1
        <3>2. CASE r # s
            BY <1>5, <1>6, <2>3, <2>6, <3>2
        <3> QED
            BY <3>1, <3>2
    <2>7. ASSUME NEW r \in Streams, NEW i \in DOMAIN got'[r], got'[r][i] # id
          PROVE  i \in DOMAIN got[r] /\ got'[r][i] = got[r][i]
        BY <2>2, <2>3, <2>7
    <2>8. \A r \in Streams : Len(got'[r]) \in Nat /\ \A i \in DOMAIN got'[r] : i \in Nat /\ i <= Len(got'[r])
        <3>1. \A i \in DOMAIN got'[s] : i \in Nat /\ i <= Len(got'[s])
            BY <2>2
        <3> QED
            BY <2>2, <2>3, <3>1, Shapes
    <2>9. Behind'
        <3>1. ASSUME NEW r \in Streams, NEW i \in DOMAIN got'[r] PROVE got'[r][i] \in DOMAIN table
            <4>1. CASE got'[r][i] = id
                BY <1>5, <4>1
            <4>2. CASE got'[r][i] # id
                BY <1>0, <2>7, <4>2 DEF Behind
            <4> QED
                BY <4>1, <4>2
        <3>2. ASSUME NEW k \in Handlers, NEW r \in Streams, NEW i \in DOMAIN got'[r],
                     rpc'[k].pc \in {"wait", "write"}, table[got'[r][i]] = k, k # h
              PROVE  got'[r][i] < rpc'[k].id
            <4>1. got'[r][i] # id
                BY <1>5, <3>2
            <4>2. i \in DOMAIN got[r] /\ got'[r][i] = got[r][i]
                BY <2>7, <4>1
            <4> QED
                BY <1>0, <1>3, <3>2, <4>2 DEF Behind, Storing, At
        <3>3. ASSUME NEW r \in Streams, NEW i \in DOMAIN got'[r], table[got'[r][i]] = h
              PROVE  \/ got'[r][i] < id
                     \/ r \notin ToSet(rpc'[h].todo) /\ got'[r][i] = id /\ i = Len(got'[r])
            <4>1. CASE r = s
                <5>1. CASE got'[r][i] = id
                    BY <1>2, <1>3, <2>6, <4>1, <5>1
                <5>2. CASE got'[r][i] # id
                    BY <2>4, <2>7, <3>3, <4>1, <5>2
                <5> QED
                    BY <5>1, <5>2
            <4>2. CASE r # s
                BY <1>2, <1>3, <1>6, <2>3, <3>3, <4>2
            <4> QED
                BY <4>1, <4>2
        <3> QED
            BY <1>0, <1>3, <3>1, <3>2, <3>3 DEF Behind, Storing, At
    <2>10. SameOrder'
        <3> SUFFICES ASSUME NEW p \in Streams, NEW q \in Streams,
                            NEW i \in DOMAIN got'[p], NEW j \in DOMAIN got'[p],
                            NEW k \in DOMAIN got'[q], NEW l \in DOMAIN got'[q],
                            i < j, got'[p][i] = got'[q][k], got'[p][j] = got'[q][l]
                     PROVE  k < l
            BY DEF SameOrder
        <3>1. got'[p][i] # id
            <4>1. i \in Nat /\ j \in Nat /\ j <= Len(got'[p]) /\ Len(got'[p]) \in Nat
                BY <2>8
            <4>2. i # Len(got'[p])
                BY <4>1
            <4> QED
                BY <2>6, <4>2
        <3>2. CASE got'[p][j] = id
            <4>1. l = Len(got'[q]) /\ k # l
                BY <2>6, <3>1, <3>2
            <4>2. k \in Nat /\ k <= Len(got'[q]) /\ Len(got'[q]) \in Nat
                BY <2>8
            <4> QED
                BY <4>1, <4>2
        <3>3. CASE got'[p][j] # id
            <4>1. /\ i \in DOMAIN got[p] /\ got'[p][i] = got[p][i]
                  /\ j \in DOMAIN got[p] /\ got'[p][j] = got[p][j]
                BY <2>7, <3>1, <3>3
            <4>2. /\ k \in DOMAIN got[q] /\ got'[q][k] = got[q][k]
                  /\ l \in DOMAIN got[q] /\ got'[q][l] = got[q][l]
                BY <2>7, <3>1, <3>3
            <4>3. i < j /\ got[p][i] = got[q][k] /\ got[p][j] = got[q][l]
                BY <4>1, <4>2
            <4>4. i < j /\ got[p][i] = got[q][k] /\ got[p][j] = got[q][l] => k < l
                BY <1>0, <4>1, <4>2, Zenon DEF SameOrder
            <4> QED
                BY <4>3, <4>4
        <3> QED
            BY <3>2, <3>3
    <2>11. SenderOrder'
        <3> SUFFICES ASSUME NEW r \in Streams, NEW i \in DOMAIN got'[r], NEW k \in DOMAIN got'[r],
                            i < k, table[got'[r][i]] = table[got'[r][k]]
                     PROVE  got'[r][i] < got'[r][k]
            BY <1>0 DEF SenderOrder
        <3>1. CASE r = s
            <4>1. i # last /\ i \in DOMAIN got[s] /\ got'[s][i] = got[s][i]
                BY <2>2, <3>1
            <4>2. CASE k = last
                BY <1>5, <2>2, <2>4, <3>1, <4>1, <4>2
            <4>3. CASE k # last
                BY <1>0, <2>2, <3>1, <4>1, <4>3 DEF SenderOrder
            <4> QED
                BY <4>2, <4>3
        <3>2. CASE r # s
            BY <1>0, <2>3, <3>2 DEF SenderOrder
        <3> QED
            BY <3>1, <3>2
    <2> QED
        BY <1>4, <2>9, <2>10, <2>11 DEF Ordered
<1> QED
    BY <1>1, <1>7, <1>8 DEF Delivers

LEMMA OrderedStep == TypeOK /\ Visits /\ Ordered /\ [Next]_vars => Ordered'
BY OneStep, QuietStep, StoresStep, BeginsStep, DeliversStep

-----------------------------------------------------------------------------
(***************************************************************************)
(* Who is registered and who is still to be visited.                       *)
(***************************************************************************)
LEMMA VisitsStep == TypeOK /\ Visits /\ [Next]_vars => Visits'
<1> SUFFICES ASSUME TypeOK, Visits, [Next]_vars PROVE Visits'
    OBVIOUS
<1>0. /\ reg \in Seq(Streams) /\ IsInjective(reg) /\ rpc \in [Handlers -> Handler]
      /\ \A s \in ToSet(reg) : s \in Streams /\ s \in Handlers /\ rpc[s].pc # "off"
      /\ \A h \in Handlers : rpc[h].pc = "write" => IsInjective(rpc[h].todo)
    BY MembersOf, HandlerKinds DEF TypeOK, Visits, At, Handler
<1> USE HandlerKinds
<1>1. ASSUME reg' = reg, NEW h \in Handlers, Others(h), rpc'[h].pc # "off" \/ h \notin Streams,
             rpc'[h].pc = "write" => IsInjective(rpc'[h].todo)
      PROVE  Visits'
    BY <1>0, <1>1 DEF Visits, At, Others
<1>2. CASE UNCHANGED <<reg, rpc>>
    BY <1>0, <1>2 DEF Visits, At
<1>3. ASSUME NEW s \in Streams, Open(s)
      PROVE  Visits'
    <2>1. Others(s) /\ rpc'[s].pc = "open" /\ reg' = Append(reg, s)
        BY <1>0, <1>3 DEF Open, Goto, Others, Handler
    <2>2. ToSet(reg') = ToSet(reg) \union {s}
        <3>1. /\ DOMAIN reg' = DOMAIN reg \union {Len(reg) + 1} /\ reg'[Len(reg) + 1] = s
              /\ \A i \in DOMAIN reg : reg'[i] = reg[i]
            BY <1>0, <2>1, Appended
        <3> QED
            BY <3>1 DEF ToSet
    <2> QED
        BY <1>0, <2>1, <2>2 DEF Visits, At, Others
<1>4. ASSUME NEW h \in Handlers, Receive(h)
      PROVE  Visits'
    <2>1. Others(h) /\ rpc'[h].pc = "insert" /\ reg' = reg
        BY <1>0, <1>4 DEF Receive, Goto, Others, Handler
    <2> QED
        BY <1>1, <2>1
<1>5. ASSUME NEW h \in Handlers, InsertOk(h)
      PROVE  Visits'
    <2>1. PICK n : rpc' = [rpc EXCEPT ![h] = [@ EXCEPT !.pc = "wait", !.id = Len(table) + n]] /\ reg' = reg
        BY <1>5 DEF InsertOk
    <2>2. Others(h) /\ rpc'[h].pc = "wait"
        BY <1>0, <2>1 DEF Others, Handler
    <2> QED
        BY <1>1, <2>1, <2>2
<1>6. ASSUME NEW h \in Handlers, InsertFail(h) \/ EndBroadcast(h)
      PROVE  Visits'
    <2>1. rpc' = [rpc EXCEPT ![h] = Done(h)] /\ reg' = reg
        BY <1>6 DEF InsertFail, EndBroadcast
    <2>2. Others(h) /\ rpc'[h].pc = IF h \in Streams THEN "open" ELSE "off"
        BY <1>0, <2>1 DEF Others, Done
    <2> QED
        BY <1>1, <2>1, <2>2
<1>7. ASSUME NEW h \in Handlers, BeginBroadcast(h)
      PROVE  Visits'
    <2>1. PICK q \in Thinned : /\ reg' = q /\ rpc[h].pc = "wait"
                             /\ rpc' = [rpc EXCEPT ![h] = [@ EXCEPT !.pc = "write", !.todo = q]]
        BY <1>7 DEF BeginBroadcast, At
    <2>2. IsInjective(q) /\ ToSet(q) \subseteq ToSet(reg)
        BY <1>0, ThinnedIsThin
    <2>3. Others(h) /\ rpc'[h].pc = "write" /\ rpc'[h].todo = q
        BY <1>0, <2>1 DEF Others, Handler
    <2> QED
        BY <1>0, <2>1, <2>2, <2>3 DEF Visits, At, Others
<1>8. ASSUME NEW h \in Handlers, Visit(h)
      PROVE  Visits'
    <2>1. /\ rpc[h].pc = "write" /\ rpc[h].todo # <<>> /\ reg' = reg
          /\ rpc' = [rpc EXCEPT ![h].todo = Tail(@)]
        BY <1>8 DEF Visit, At
    <2>2. rpc[h].todo \in Seq(Streams) /\ IsInjective(rpc[h].todo)
        BY <1>0, <2>1 DEF Handler
    <2>3. IsInjective(Tail(rpc[h].todo))
        BY <2>1, <2>2, HeadAndTail
    <2>4. Others(h) /\ rpc'[h].pc = "write" /\ rpc'[h].todo = Tail(rpc[h].todo)
        BY <1>0, <2>1 DEF Others, Handler
    <2> QED
        BY <1>1, <2>1, <2>3, <2>4
<1>9. ASSUME NEW s \in Streams, HangUp(s) \/ Leave(s)
      PROVE  Visits'
    <2>1. Others(s) /\ rpc'[s].pc \in {"hangup", "gone"} /\ reg' = reg
        BY <1>0, <1>9 DEF HangUp, Leave, Goto, Others, Handler
    <2> QED
        BY <1>1, <2>1
<1>10. CASE Crash
    <2>1. ToSet(reg') = {}
        BY <1>10 DEF Crash, ToSet
    <2>2. \A h \in Handlers : rpc'[h].pc # "write"
        BY <1>10 DEF Crash
    <2> QED
        BY <2>1, <2>2 DEF Visits, At
<1>11. ASSUME NEW s \in Streams, Take(s) \/ Disconnect(s)
      PROVE  Visits'
    BY <1>2, <1>11 DEF Take, Disconnect
<1> QED
    BY <1>2, <1>3, <1>4, <1>5, <1>6, <1>7, <1>8, <1>9, <1>10, <1>11 DEF Next, Broadcast, vars

-----------------------------------------------------------------------------
\* NoMissedBroadcast for one handler and one stream.
Listening(s) == s \in ToSet(reg) /\ alive[s] /\ ~Gone(s) /\ s \notin broken

Served(h, s) == s \in ToSet(rpc[h].todo) \/ rpc[h].id \in ToSet(got[s])

LEMMA MissedMeans ==
    NoMissedBroadcast <=> \A h \in Handlers, s \in Streams : At(h, "write") /\ Listening(s) => Served(h, s)
BY DEF NoMissedBroadcast, Listening, Served

LEMMA MissedStep == TypeOK /\ Owners /\ Visits /\ NoMissedBroadcast /\ [Next]_vars => NoMissedBroadcast'
<1> SUFFICES ASSUME TypeOK, Owners, Visits, NoMissedBroadcast, [Next]_vars,
                    NEW h \in Handlers, NEW s \in Streams, At(h, "write")', Listening(s)'
             PROVE  Served(h, s)'
    BY DEF NoMissedBroadcast, Listening, Served
<1>0. /\ reg \in Seq(Streams) /\ IsInjective(reg) /\ rpc \in [Handlers -> Handler]
      /\ alive \in [Streams -> BOOLEAN] /\ got \in [Streams -> Seq(Nat)]
      /\ At(h, "write") /\ Listening(s) => Served(h, s)
    BY MissedMeans DEF TypeOK, Handler
<1> USE HandlerKinds
<1>1. rpc'[h].pc = "write" /\ s \in ToSet(reg') /\ alive'[s] /\ rpc'[s].pc # "gone" /\ s \notin broken'
    BY DEF At, Listening, Gone
\* Nothing that matters here has changed.
<1>2. ASSUME rpc'[h] = rpc[h], got' = got, s \in ToSet(reg), alive[s], rpc[s].pc # "gone", s \notin broken
      PROVE  Served(h, s)'
    BY <1>0, <1>1, <1>2 DEF Served, At, Listening, Gone
<1>3. ASSUME NEW k \in Handlers, Others(k), rpc'[k].pc # "write", rpc[k].pc # "gone",
             reg' = reg, got' = got, UNCHANGED <<alive, broken>>
      PROVE  Served(h, s)'
    <2>1. k # h /\ rpc'[h] = rpc[h]
        BY <1>1, <1>3 DEF Others
    <2>2. rpc[s].pc # "gone"
        BY <1>1, <1>3 DEF Others
    <2> QED
        BY <1>1, <1>2, <1>3, <2>1, <2>2
<1>4. CASE UNCHANGED vars
    BY <1>1, <1>2, <1>4 DEF vars
<1>5. ASSUME NEW x \in Streams, Open(x)
      PROVE  FALSE
    <2>1. ~Locked /\ Others(x) /\ rpc'[x].pc = "open"
        BY <1>0, <1>5 DEF Open, Goto, Others, Handler
    <2> QED
        BY <1>1, <2>1 DEF Others, Locked, At
<1>6. ASSUME NEW k \in Handlers, Receive(k)
      PROVE  Served(h, s)'
    <2>1. /\ Others(k) /\ rpc'[k].pc = "insert" /\ rpc[k].pc # "gone" /\ reg' = reg /\ got' = got
          /\ UNCHANGED <<alive, broken>>
        BY <1>0, <1>6 DEF Receive, Goto, Others, Handler, At
    <2> QED
        BY <1>3, <2>1
<1>7. ASSUME NEW k \in Handlers, InsertOk(k)
      PROVE  Served(h, s)'
    <2>1. PICK n : /\ rpc' = [rpc EXCEPT ![k] = [@ EXCEPT !.pc = "wait", !.id = Len(table) + n]]
                   /\ rpc[k].pc = "insert" /\ reg' = reg /\ got' = got /\ UNCHANGED <<alive, broken>>
        BY <1>7 DEF InsertOk, At
    <2>2. Others(k) /\ rpc'[k].pc = "wait"
        BY <1>0, <2>1 DEF Others, Handler
    <2> QED
        BY <1>3, <2>1, <2>2
<1>8. ASSUME NEW k \in Handlers, InsertFail(k) \/ EndBroadcast(k)
      PROVE  Served(h, s)'
    <2>1. /\ rpc' = [rpc EXCEPT ![k] = Done(k)] /\ rpc[k].pc # "gone"
          /\ reg' = reg /\ got' = got /\ UNCHANGED <<alive, broken>>
        BY <1>8 DEF InsertFail, EndBroadcast, At
    <2>2. Others(k) /\ rpc'[k].pc # "write"
        BY <1>0, <2>1, DoneIsHandler DEF Others
    <2> QED
        BY <1>3, <2>1, <2>2
<1>9. ASSUME NEW k \in Handlers, BeginBroadcast(k)
      PROVE  Served(h, s)'
    <2>1. PICK q \in Thinned : /\ reg' = q /\ ~Locked
                             /\ rpc' = [rpc EXCEPT ![k] = [@ EXCEPT !.pc = "write", !.todo = q]]
        BY <1>9 DEF BeginBroadcast
    <2>2. h = k
        BY <1>0, <1>1, <2>1 DEF Locked, At
    <2>3. rpc'[h].todo = q
        BY <1>0, <2>1, <2>2 DEF Handler
    <2> QED
        BY <1>1, <2>1, <2>3 DEF Served
<1>10. ASSUME NEW k \in Handlers, Visit(k)
      PROVE  Served(h, s)'
    <2>1. PICK x, id : x = Head(rpc[k].todo) /\ id = rpc[k].id
        OBVIOUS
    <2>2. /\ rpc[k].pc = "write" /\ rpc[k].todo # <<>> /\ UNCHANGED <<table, reg, alive, broken>>
          /\ rpc' = [rpc EXCEPT ![k].todo = Tail(@)]
        BY <1>10 DEF Visit, At
    <2>3. Others(k) /\ rpc'[k].pc = "write" /\ rpc'[k].id = id /\ rpc'[k].todo = Tail(rpc[k].todo)
        BY <1>0, <2>1, <2>2 DEF Others, Handler
    <2>4. rpc[h].pc = "write" /\ h = k
        BY <1>1, <2>2, <2>3 DEF Owners, Others, At
    <2>5. rpc[s].pc # "gone" /\ alive[s] /\ s \in ToSet(reg) /\ s \notin broken
        BY <1>1, <2>2, <2>3 DEF Others
    <2>6. s \in ToSet(rpc[h].todo) \/ id \in ToSet(got[s])
        BY <1>0, <2>1, <2>4, <2>5 DEF Served, At, Listening, Gone
    <2>7. rpc[h].todo \in Seq(Streams) /\ id \in Nat
        BY <1>0, <2>1, <2>4 DEF Handler
    <2>8. ToSet(rpc[h].todo) = {x} \union ToSet(Tail(rpc[h].todo)) /\ x \in Streams
        BY <2>1, <2>2, <2>4, <2>7, HeadAndTail
    <2>9. CASE s = x
        <3>1. \A live \in SeenAlive(x) : live
            BY <2>5, <2>9 DEF SeenAlive, Gone
        <3>2. Write(x, id)
            BY <1>10, <2>1, <2>5, <2>9, <3>1 DEF Visit, Gone
        <3>3. got'[s] = Append(got[s], id)
            BY <1>0, <2>5, <2>9, <3>2 DEF Write
        <3>4. id \in ToSet(got'[s])
            BY <1>0, <2>7, <3>3, Appended DEF ToSet
        <3> QED
            BY <2>3, <2>4, <3>4 DEF Served
    <2>10. CASE s # x
        <3>1. got' = got \/ got' = [got EXCEPT ![x] = Append(@, id)]
            BY <1>10, <2>1 DEF Visit, Write
        <3>2. got'[s] = got[s]
            BY <1>0, <2>10, <3>1
        <3> QED
            BY <2>3, <2>4, <2>6, <2>8, <2>10, <3>2 DEF Served
    <2> QED
        BY <2>9, <2>10
<1>11. ASSUME NEW x \in Streams, HangUp(x)
      PROVE  Served(h, s)'
    <2>1. /\ Others(x) /\ rpc'[x].pc = "hangup" /\ reg' = reg /\ got' = got /\ broken' = broken
          /\ alive' = [alive EXCEPT ![x] = FALSE] /\ rpc[x].pc = "open"
        BY <1>0, <1>11 DEF HangUp, Goto, Others, Handler, At
    <2>2. s # x /\ h # x
        BY <1>0, <1>1, <2>1
    <2> QED
        BY <1>0, <1>1, <1>2, <2>1, <2>2 DEF Others
<1>12. ASSUME NEW x \in Streams, Leave(x)
      PROVE  Served(h, s)'
    <2>1. /\ Others(x) /\ rpc'[x].pc = "gone" /\ reg' = reg /\ got' = got /\ alive' = alive
          /\ broken' = broken \ {x}
        BY <1>0, <1>12 DEF Leave, Goto, Others, Handler
    <2>2. s # x /\ h # x
        BY <1>1, <2>1
    <2> QED
        BY <1>1, <1>2, <2>1, <2>2 DEF Others
<1>13. CASE Crash
    BY <1>1, <1>13 DEF Crash
<1>14. ASSUME NEW x \in Streams, Take(x) \/ Disconnect(x)
      PROVE  Served(h, s)'
    <2>1. UNCHANGED <<reg, rpc, alive, got>> /\ broken \subseteq broken'
        BY <1>14 DEF Take, Disconnect
    <2> QED
        BY <1>1, <1>2, <2>1
<1> QED
    BY <1>4, <1>5, <1>6, <1>7, <1>8, <1>9, <1>10, <1>11, <1>12, <1>13, <1>14 DEF Next, Broadcast

-----------------------------------------------------------------------------
LEMMA StepPreserves == CInv /\ [Next]_vars => CInv'
BY TypeStep, VisitsStep, OrderedStep, MissedStep DEF CInv, Ordered

(* What holds all the time of the handlers of messages, of the list of     *)
(* streams and of what was written: the invariant that carries the others. *)
THEOREM Inductive == Spec => []CInv
<1>1. Init => CInv
    BY InitEstablishes
<1>2. CInv /\ [Next]_vars => CInv'
    BY StepPreserves
<1> QED
    BY <1>1, <1>2, PTL DEF Spec

(* The list of streams holds nobody twice, and no Write goes past the      *)
(* window of its stream.                                                   *)
THEOREM TypeCorrect == Spec => []TypeOK
BY Inductive, PTL DEF CInv

(* All streams see the messages they have in common in one order, and none *)
(* twice: that of the broadcasts, which hold m_ to their last Write.       *)
THEOREM OneOrder == Spec => []SameOrder
BY Inductive, PTL DEF CInv

(* What one client sends arrives everywhere once and in the order of its   *)
(* rows, although rows are stored before m_ is taken.                      *)
THEOREM SendersInOrder == Spec => []SenderOrder
BY Inductive, PTL DEF CInv

(* No broadcast passes over a stream that listens.                         *)
THEOREM NobodyMissed == Spec => []NoMissedBroadcast
BY Inductive, PTL DEF CInv

=============================================================================
