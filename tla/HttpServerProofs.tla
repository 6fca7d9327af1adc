-------------------------- MODULE HttpServerProofs --------------------------
(***************************************************************************)
(* Proofs about HttpServer for any connections, pool of workers and number *)
(* of requests per connection, and about HttpRequest for any text, pieces  *)
(* and buffers.                                                            *)
(***************************************************************************)
EXTENDS HttpService, FiniteSetTheorems, SequenceTheorems, WellFoundedInduction, TLAPS

-----------------------------------------------------------------------------
(* OnePlace without counting: a connection that is not closed is queued or *)
(* served, one that is closed is neither, none is in two places.           *)
Queued(c) == \E i \in DOMAIN jobs : jobs[i] = c

Busy(c) == \E w \in Workers : worker[w].conn = c

Places ==
    /\ \A c \in Conns : sock[c] = "closed" <=> ~Queued(c) /\ ~Busy(c)
    /\ \A c \in Conns : ~(Queued(c) /\ Busy(c))
    /\ \A i, j \in DOMAIN jobs : jobs[i] = jobs[j] => i = j
    /\ \A v, w \in Workers : worker[v].conn = worker[w].conn /\ worker[v].conn # None => v = w

(* Why the client of a connection that is about to end has no request.     *)
Waiting ==
    /\ \A c \in Conns : sock[c] # "open" => req[c] = "none"
    /\ \A w \in Workers :
           LET c == worker[w].conn IN
           /\ At(w, "handle") => req[c] = "taken" \/ sock[c] = "cut"
           /\ At(w, "over") => req[c] = "none" /\ (sock[c] = "cut" \/ c \in told)

\* Workers leave after the end of accept only, and the last job was taken by then.
Ending ==
    /\ shutdown <=> listener \in {"stop", "join", "exited"}
    /\ \A w \in Workers : At(w, "done") => shutdown /\ jobs = <<>>
    /\ listener = "exited" => \A w \in Workers : At(w, "done")

HInv == TypeOK /\ Places /\ Waiting /\ Ending /\ NoLostWakeup

-----------------------------------------------------------------------------
LEMMA IdleWorker ==
    /\ \A st \in {"check", "sleep", "done"} : Idle(st) \in Worker
    /\ \A st \in STRING : Idle(st).st = st /\ Idle(st).conn = None
BY DEF Idle, Worker

\* The steps of a worker's state.
LEMMA WorkerShape ==
    ASSUME NEW x \in Worker
    PROVE  /\ x.st \in {"check", "sleep", "done"} => x.conn = None
           /\ x.st \in {"wait", "handle", "expired", "over"} => x.conn \in Conns
           /\ x.st \in {"check", "sleep", "done", "wait", "handle", "expired", "over"}
           /\ x.st \in {"wait", "handle"} => x.count \in 1 .. MaxCount
           /\ x.st = "wait" => [x EXCEPT !.st = "handle"] \in Worker
                               /\ [x EXCEPT !.st = "over"] \in Worker
                               /\ [x EXCEPT !.st = "expired"] \in Worker
           /\ x.conn \in Conns => x.st \in {"wait", "handle", "expired", "over"}
<1>1. CASE x \in [st : {"check", "sleep", "done"}, conn : {None}, count : {0}]
    BY <1>1, NoneAssumption
<1>2. CASE x \in [st : {"wait", "handle"}, conn : Conns, count : 1 .. MaxCount]
    BY <1>2, CountAssumption DEF Worker
<1>3. CASE x \in [st : {"expired", "over"}, conn : Conns, count : 0 .. MaxCount]
    BY <1>3
<1> QED
    BY <1>1, <1>2, <1>3 DEF Worker

LEMMA AnsweredShape ==
    ASSUME NEW x \in Worker, x.st = "handle", NEW st \in {"wait", "over"},
           st = "wait" => x.count > 1
    PROVE  /\ [x EXCEPT !.st = st, !.count = x.count - 1] \in Worker
<1>1. x \in [st : {"wait", "handle"}, conn : Conns, count : 1 .. MaxCount]
    <2>1. x \notin [st : {"check", "sleep", "done"}, conn : {None}, count : {0}]
        OBVIOUS
    <2>2. x \notin [st : {"expired", "over"}, conn : Conns, count : 0 .. MaxCount]
        OBVIOUS
    <2> QED
        BY <2>1, <2>2 DEF Worker
<1>2. x.count - 1 \in 0 .. MaxCount /\ (x.count > 1 => x.count - 1 \in 1 .. MaxCount)
    BY <1>1, CountAssumption
<1> QED
    BY <1>1, <1>2 DEF Worker

LEMMA InitEstablishes == Init => HInv
<1> SUFFICES ASSUME Init PROVE HInv
    OBVIOUS
<1>1. \A w \in Workers : worker[w] = Idle("check")
    BY DEF Init
<1>2. \A w \in Workers : worker[w].st = "check" /\ worker[w].conn = None /\ worker[w] \in Worker
    BY <1>1, IdleWorker DEF Idle
<1>3. jobs = <<>> /\ DOMAIN jobs = {} /\ jobs \in Seq(Conns)
    BY EmptySeq DEF Init
<1>4. TypeOK
    BY <1>2, <1>3 DEF Init, TypeOK
<1>5. Places
    BY <1>2, <1>3, NoneAssumption DEF Init, Places, Queued, Busy
<1>6. Waiting /\ Ending
    BY <1>2, <1>3 DEF Init, Waiting, Ending, At
<1>7. Sleepers = {}
    BY <1>2 DEF Sleepers, At
<1> QED
    BY <1>4, <1>5, <1>6, <1>7 DEF HInv, NoLostWakeup

-----------------------------------------------------------------------------
LEMMA TypeStep == HInv /\ [Next]_vars => TypeOK'
<1> SUFFICES ASSUME HInv, [Next]_vars PROVE TypeOK'
    OBVIOUS
<1>0. TypeOK
    BY DEF HInv
<1>i. Idle("check") \in Worker /\ Idle("sleep") \in Worker /\ Idle("done") \in Worker
    BY IdleWorker
<1>1. CASE UNCHANGED vars
    BY <1>0, <1>1 DEF TypeOK, vars, net
<1>2. ASSUME NEW c \in Conns, Send(c) \/ Cut(c)
      PROVE  TypeOK'
    BY <1>0, <1>2 DEF TypeOK, Send, Cut
<1>3. ASSUME NEW c \in Conns, Accept(c)
      PROVE  TypeOK'
    <2>1. jobs' \in Seq(Conns)
        BY <1>0, <1>3 DEF TypeOK, Accept
    <2> QED
        BY <1>0, <1>3, <2>1 DEF TypeOK, Accept
<1>4. CASE Notify \/ NotifyAll \/ Exit \/ AcceptFails
    BY <1>0, <1>4, <1>i DEF TypeOK, Notify, NotifyAll, Exit, AcceptFails, net
<1>5. ASSUME NEW w \in Workers, Take(w)
      PROVE  TypeOK'
    <2>1. Head(jobs) \in Conns /\ Tail(jobs) \in Seq(Conns)
        BY <1>0, <1>5, HeadTailProperties DEF TypeOK, Take
    <2>2. [st |-> "wait", conn |-> Head(jobs), count |-> MaxCount] \in Worker
        BY <2>1, CountAssumption DEF Worker
    <2> QED
        BY <1>0, <1>5, <2>1, <2>2 DEF TypeOK, Take, net
<1>6. ASSUME NEW w \in Workers, Sleep(w) \/ SpuriousWakeup(w) \/ Leave(w)
      PROVE  TypeOK'
    BY <1>0, <1>6, <1>i DEF TypeOK, Sleep, SpuriousWakeup, Leave, net
<1>7. ASSUME NEW w \in Workers, Read(w) \/ ReadEnd(w) \/ Expire(w)
      PROVE  TypeOK'
    <2>1. worker[w] \in Worker /\ worker[w].st = "wait"
        BY <1>0, <1>7 DEF TypeOK, Read, ReadEnd, Expire, At
    <2>2. \A st \in {"handle", "over", "expired"} : [worker[w] EXCEPT !.st = st] \in Worker
        BY <2>1, WorkerShape
    <2>3. \E st \in {"handle", "over", "expired"} :
              worker' = [worker EXCEPT ![w] = [worker[w] EXCEPT !.st = st]]
        BY <1>7 DEF Read, ReadEnd, Expire, Goto
    <2>4. worker' \in [Workers -> Worker]
        BY <1>0, <2>2, <2>3 DEF TypeOK
    <2> QED
        BY <1>0, <1>7, <2>4 DEF TypeOK, Read, ReadEnd, Expire, net
<1>8. ASSUME NEW w \in Workers, Answer(w)
      PROVE  TypeOK'
    <2>1. worker[w] \in Worker /\ worker[w].st = "handle" /\ worker[w].conn \in Conns
          /\ worker[w].count \in 1 .. MaxCount
        BY <1>0, <1>8, WorkerShape DEF TypeOK, Answer, At
    <2>2. PICK st \in {"wait", "over"} :
              /\ worker' = [worker EXCEPT ![w] = [worker[w] EXCEPT !.st = st, !.count = worker[w].count - 1]]
              /\ st = "wait" => worker[w].count - 1 > 0
        <3> DEFINE n == worker[w].count - 1
        <3>1. PICK close \in BOOLEAN :
                  worker' = [worker EXCEPT
                      ![w].st = IF Continues(worker[w].conn, close, n) THEN "wait" ELSE "over",
                      ![w].count = n]
            BY <1>8 DEF Answer, Left
        <3>2. Continues(worker[w].conn, close, n) => n > 0
            BY DEF Continues
        <3>3. CASE Continues(worker[w].conn, close, n)
            BY <1>0, <2>1, <3>1, <3>2, <3>3 DEF TypeOK
        <3>4. CASE ~Continues(worker[w].conn, close, n)
            BY <1>0, <2>1, <3>1, <3>4 DEF TypeOK
        <3> QED
            BY <3>3, <3>4
    <2>3. [worker[w] EXCEPT !.st = st, !.count = worker[w].count - 1] \in Worker
        <3>1. st = "wait" => worker[w].count > 1
            BY <2>1, <2>2
        <3> QED
            BY <2>1, <3>1, AnsweredShape
    <2>4. told' \subseteq Conns
        BY <1>0, <1>8, <2>1 DEF TypeOK, Answer, Announced
    <2> QED
        BY <1>0, <1>8, <2>1, <2>2, <2>3, <2>4 DEF TypeOK, Answer
<1>9. ASSUME NEW w \in Workers, Close(w)
      PROVE  TypeOK'
    BY <1>0, <1>9, <1>i DEF TypeOK, Close
<1>10. CASE Exited
    BY <1>1, <1>10 DEF Exited
<1> QED
    BY <1>1, <1>2, <1>3, <1>4, <1>5, <1>6, <1>7, <1>8, <1>9, <1>10 DEF Next, WorkerStep, ListenerStep

-----------------------------------------------------------------------------
\* Steps that neither move a connection nor open or close one.
LEMMA PlacesKept ==
    ASSUME Places, UNCHANGED jobs,
           \A c \in Conns : sock'[c] = "closed" <=> sock[c] = "closed",
           \A w \in Workers : worker'[w].conn = worker[w].conn
    PROVE  Places'
<1>1. \A c \in Conns : (Queued(c)' <=> Queued(c)) /\ (Busy(c)' <=> Busy(c))
    BY DEF Queued, Busy
<1> QED
    BY <1>1 DEF Places

\* A worker without a connection gets another state without one.
LEMMA IdleConn ==
    ASSUME TypeOK, NEW w \in Workers, NEW st \in {"check", "sleep", "done"},
           At(w, "check") \/ At(w, "sleep"), worker' = [worker EXCEPT ![w] = Idle(st)]
    PROVE  \A v \in Workers : worker'[v].conn = worker[v].conn
<1>1. worker[w].conn = None
    BY WorkerShape DEF TypeOK, At
<1>2. worker'[w].conn = None
    BY IdleWorker DEF TypeOK, Idle
<1> QED
    BY <1>1, <1>2 DEF TypeOK

LEMMA PlacesStep == HInv /\ [Next]_vars => Places'
<1> SUFFICES ASSUME HInv, [Next]_vars PROVE Places'
    OBVIOUS
<1>0. TypeOK /\ Places
    BY DEF HInv
<1>1. CASE UNCHANGED vars
    BY <1>0, <1>1, PlacesKept DEF vars, net
<1>2. ASSUME NEW c \in Conns, Send(c) \/ Cut(c)
      PROVE  Places'
    BY <1>0, <1>2, PlacesKept DEF TypeOK, Send, Cut
<1>3. ASSUME NEW c \in Conns, Accept(c)
      PROVE  Places'
    <2>1. /\ jobs \in Seq(Conns) /\ Len(jobs) \in Nat /\ DOMAIN jobs = 1 .. Len(jobs)
          /\ jobs' \in Seq(Conns) /\ Len(jobs') = Len(jobs) + 1 /\ DOMAIN jobs' = 1 .. Len(jobs) + 1
          /\ \A i \in 1 .. Len(jobs) : jobs'[i] = jobs[i]
          /\ jobs'[Len(jobs) + 1] = c
        BY <1>0, <1>3, AppendProperties, LenProperties DEF TypeOK, Accept
    <2>2. UNCHANGED worker /\ sock' = [sock EXCEPT ![c] = "open"] /\ sock[c] = "closed"
        BY <1>3 DEF Accept
    <2>3. ~Queued(c) /\ ~Busy(c)
        BY <1>0, <2>2 DEF Places
    <2>4. \A d \in Conns : (Queued(d)' <=> Queued(d) \/ d = c) /\ (Busy(d)' <=> Busy(d))
        BY <2>1, <2>2 DEF Queued, Busy
    <2>5. \A d \in Conns : sock'[d] = "closed" <=> sock[d] = "closed" /\ d # c
        BY <1>0, <2>2 DEF TypeOK
    <2>6. \A i, j \in DOMAIN jobs' : jobs'[i] = jobs'[j] => i = j
        BY <1>0, <2>1, <2>3 DEF Places, Queued
    <2> QED
        BY <1>0, <2>2, <2>3, <2>4, <2>5, <2>6 DEF Places
<1>4. CASE Notify \/ NotifyAll
    <2>1. \A w \in Workers : worker'[w].conn = worker[w].conn
        <3>1. CASE Notify
            BY <1>0, <3>1, IdleConn DEF Notify, Sleepers
        <3>2. CASE NotifyAll
            <4> SUFFICES ASSUME NEW w \in Workers PROVE worker'[w].conn = worker[w].conn
                OBVIOUS
            <4>1. At(w, "sleep") => worker[w].conn = None
                BY <1>0, WorkerShape DEF TypeOK, At
            <4>2. Idle("check").conn = None
                BY DEF Idle
            <4> QED
                BY <3>2, <4>1, <4>2 DEF NotifyAll
        <3> QED
            BY <1>4, <3>1, <3>2
    <2> QED
        BY <1>0, <1>4, <2>1, PlacesKept DEF Notify, NotifyAll, net
<1>5. CASE Exit \/ AcceptFails
    BY <1>0, <1>5, PlacesKept DEF Exit, AcceptFails, net
<1>6. ASSUME NEW w \in Workers, Take(w)
      PROVE  Places'
    <2> DEFINE c == Head(jobs)
    <2>1. /\ jobs \in Seq(Conns) /\ Len(jobs) \in Nat /\ DOMAIN jobs = 1 .. Len(jobs) /\ Len(jobs) > 0
          /\ jobs' \in Seq(Conns) /\ Len(jobs') = Len(jobs) - 1 /\ DOMAIN jobs' = 1 .. Len(jobs) - 1
          /\ \A i \in 1 .. Len(jobs) - 1 : jobs'[i] = jobs[i + 1]
          /\ c = jobs[1] /\ c \in Conns
        BY <1>0, <1>6, HeadTailProperties, LenProperties, EmptySeq DEF TypeOK, Take
    <2>2. UNCHANGED sock /\ worker[w].conn = None
          /\ worker' = [worker EXCEPT ![w] = [st |-> "wait", conn |-> c, count |-> MaxCount]]
        BY <1>0, <1>6, WorkerShape DEF Take, At, net, TypeOK
    <2>3. worker'[w].conn = c /\ \A v \in Workers \ {w} : worker'[v].conn = worker[v].conn
        BY <1>0, <2>2 DEF TypeOK
    <2>4. Queued(c) /\ ~Busy(c)
        BY <1>0, <2>1 DEF Places, Queued
    <2>5. \A d \in Conns : Queued(d)' <=> Queued(d) /\ d # c
        <3> SUFFICES ASSUME NEW d \in Conns PROVE Queued(d)' <=> Queued(d) /\ d # c
            OBVIOUS
        <3>1. ASSUME NEW i \in DOMAIN jobs', jobs'[i] = d PROVE Queued(d) /\ d # c
            <4>1. i + 1 \in DOMAIN jobs /\ jobs[i + 1] = d /\ i + 1 # 1
                BY <2>1, <3>1
            <4>2. Queued(d)
                BY <4>1 DEF Queued
            <4>3. ASSUME d = c PROVE FALSE
                <5>1. jobs[i + 1] = jobs[1] /\ 1 \in DOMAIN jobs
                    BY <2>1, <4>1, <4>3
                <5>2. i + 1 = 1
                    BY <1>0, <4>1, <5>1 DEF Places
                <5> QED
                    BY <4>1, <5>2
            <4> QED
                BY <4>2, <4>3
        <3>2. ASSUME NEW i \in DOMAIN jobs, jobs[i] = d, d # c PROVE Queued(d)'
            <4>1. i - 1 \in DOMAIN jobs' /\ jobs'[i - 1] = d
                BY <2>1, <3>2
            <4> QED
                BY <4>1 DEF Queued
        <3> QED
            BY <3>1, <3>2 DEF Queued
    <2>6. \A d \in Conns : Busy(d)' <=> Busy(d) \/ d = c
        BY <2>1, <2>2, <2>3, NoneAssumption DEF Busy
    <2>7. \A i, j \in DOMAIN jobs' : jobs'[i] = jobs'[j] => i = j
        <3> SUFFICES ASSUME NEW i \in DOMAIN jobs', NEW j \in DOMAIN jobs', jobs'[i] = jobs'[j]
                     PROVE  i = j
            OBVIOUS
        <3>1. i + 1 \in DOMAIN jobs /\ j + 1 \in DOMAIN jobs /\ jobs[i + 1] = jobs[j + 1]
            BY <2>1
        <3>2. i + 1 = j + 1
            BY <1>0, <3>1 DEF Places
        <3> QED
            BY <2>1, <3>2
    <2>8. \A u, v \in Workers : worker'[u].conn = worker'[v].conn /\ worker'[u].conn # None => u = v
        BY <1>0, <2>3, <2>4 DEF Places, Busy
    <2> QED
        BY <1>0, <2>2, <2>4, <2>5, <2>6, <2>7, <2>8 DEF Places
<1>7. ASSUME NEW w \in Workers, Sleep(w) \/ SpuriousWakeup(w) \/ Leave(w)
      PROVE  Places'
    <2>1. \A v \in Workers : worker'[v].conn = worker[v].conn
        BY <1>0, <1>7, IdleConn DEF Sleep, SpuriousWakeup, Leave
    <2> QED
        BY <1>0, <1>7, <2>1, PlacesKept DEF Sleep, SpuriousWakeup, Leave, net
<1>8. ASSUME NEW w \in Workers, Read(w) \/ ReadEnd(w) \/ Expire(w)
      PROVE  Places'
    <2>1. worker[w] \in Worker /\ worker[w].st = "wait"
        BY <1>0, <1>8 DEF TypeOK, Read, ReadEnd, Expire, At
    <2>2. PICK st : worker' = [worker EXCEPT ![w].st = st]
        BY <1>8 DEF Read, ReadEnd, Expire, Goto
    <2>3. \A v \in Workers : worker'[v].conn = worker[v].conn
        BY <1>0, <2>1, <2>2 DEF TypeOK, Worker
    <2> QED
        BY <1>0, <1>8, <2>3, PlacesKept DEF Read, ReadEnd, Expire, net
<1>9. ASSUME NEW w \in Workers, Answer(w)
      PROVE  Places'
    <2>1. worker[w] \in Worker /\ worker[w].st = "handle"
        BY <1>0, <1>9 DEF TypeOK, Answer, At
    <2>2. PICK st : worker' = [worker EXCEPT ![w].st = st, ![w].count = Left(worker[w].count)]
        BY <1>9 DEF Answer
    <2>3. \A v \in Workers : worker'[v].conn = worker[v].conn
        BY <1>0, <2>1, <2>2 DEF TypeOK, Worker
    <2> QED
        BY <1>0, <1>9, <2>3, PlacesKept DEF Answer
<1>10. ASSUME NEW w \in Workers, Close(w)
       PROVE  Places'
    <2> DEFINE c == worker[w].conn
    <2>1. c \in Conns /\ UNCHANGED jobs /\ sock' = [sock EXCEPT ![c] = "closed"]
          /\ worker' = [worker EXCEPT ![w] = Idle("check")]
        BY <1>0, <1>10, WorkerShape DEF TypeOK, Close
    <2>2. worker'[w].conn = None /\ \A v \in Workers \ {w} : worker'[v].conn = worker[v].conn
        BY <1>0, <2>1 DEF TypeOK, Idle
    <2>3. Busy(c) /\ ~Queued(c)
        BY <1>0, <2>1 DEF Places, Busy
    <2>4. \A d \in Conns : (Queued(d)' <=> Queued(d)) /\ (Busy(d)' <=> Busy(d) /\ d # c)
        <3>1. \A d \in Conns : Queued(d)' <=> Queued(d)
            BY <2>1 DEF Queued
        <3>2. \A v \in Workers \ {w} : worker[v].conn # c
            BY <1>0, <2>1, NoneAssumption DEF Places
        <3>3. \A d \in Conns : Busy(d)' <=> Busy(d) /\ d # c
            BY <2>1, <2>2, <3>2, NoneAssumption DEF Busy
        <3> QED
            BY <3>1, <3>3
    <2>5. \A d \in Conns : sock'[d] = "closed" <=> sock[d] = "closed" \/ d = c
        BY <1>0, <2>1 DEF TypeOK
    <2>6. \A u, v \in Workers : worker'[u].conn = worker'[v].conn /\ worker'[u].conn # None => u = v
        BY <1>0, <2>2 DEF Places
    <2> QED
        BY <1>0, <2>1, <2>3, <2>4, <2>5, <2>6 DEF Places
<1>11. CASE Exited
    BY <1>1, <1>11 DEF Exited
<1> QED
    BY <1>1, <1>2, <1>3, <1>4, <1>5, <1>6, <1>7, <1>8, <1>9, <1>10, <1>11
       DEF Next, WorkerStep, ListenerStep

-----------------------------------------------------------------------------
\* What a worker says of its client depends on the worker and the connection.
Quiet(x) ==
    /\ x.st = "handle" => req[x.conn] = "taken" \/ sock[x.conn] = "cut"
    /\ x.st = "over" => req[x.conn] = "none" /\ (sock[x.conn] = "cut" \/ x.conn \in told)

LEMMA WaitingDef ==
    Waiting <=> /\ \A c \in Conns : sock[c] # "open" => req[c] = "none"
                /\ \A w \in Workers : Quiet(worker[w])
BY DEF Waiting, Quiet, At

\* Nobody else has the connection of a worker.
LEMMA Alone ==
    ASSUME TypeOK, Places, NEW w \in Workers, worker[w].conn \in Conns,
           NEW v \in Workers, v # w
    PROVE  worker[v].conn # worker[w].conn
BY NoneAssumption DEF Places

LEMMA WaitingStep == HInv /\ [Next]_vars => Waiting'
<1> SUFFICES ASSUME HInv, [Next]_vars PROVE Waiting'
    OBVIOUS
<1>0. TypeOK /\ Places
    BY DEF HInv
<1>q. /\ \A c \in Conns : sock[c] # "open" => req[c] = "none"
      /\ \A w \in Workers : Quiet(worker[w])
    BY WaitingDef DEF HInv
<1>c. \A w \in Workers :
          worker[w].st \in {"wait", "handle", "expired", "over"} => worker[w].conn \in Conns
    BY <1>0, WorkerShape DEF TypeOK
<1>i. \A st \in {"check", "sleep", "done"} : Idle(st).st = st
    BY DEF Idle
<1>k. ASSUME UNCHANGED net,
             \A w \in Workers : \/ worker'[w] = worker[w]
                               \/ worker'[w].st \notin {"handle", "over"}
      PROVE  Waiting'
    <2>1. \A w \in Workers :
              (worker'[w].st \in {"handle", "over"} => worker'[w] = worker[w]) /\ Quiet(worker[w])
        BY <1>k, <1>q
    <2> QED
        BY <1>k, <1>q, <2>1 DEF Waiting, Quiet, At, net
<1>1. CASE UNCHANGED vars
    BY <1>1, <1>k DEF vars, net
<1>2. ASSUME NEW c \in Conns, Send(c)
      PROVE  Waiting'
    BY <1>0, <1>2, <1>q, <1>c DEF Send, Waiting, Quiet, At, TypeOK
<1>3. ASSUME NEW c \in Conns, Cut(c)
      PROVE  Waiting'
    BY <1>0, <1>3, <1>q, <1>c DEF Cut, Waiting, Quiet, At, TypeOK
<1>4. ASSUME NEW c \in Conns, Accept(c)
      PROVE  Waiting'
    <2>1. \A w \in Workers : worker[w].conn # c
        BY <1>0, <1>4 DEF Accept, Places, Busy
    <2> QED
        BY <1>0, <1>4, <1>q, <1>c, <2>1 DEF Accept, Waiting, Quiet, At, TypeOK
<1>5. CASE Notify \/ NotifyAll
    BY <1>0, <1>5, <1>i, <1>k DEF Notify, NotifyAll, TypeOK
<1>6. CASE Exit \/ AcceptFails
    BY <1>6, <1>k DEF Exit, AcceptFails
<1>7. ASSUME NEW w \in Workers, Take(w) \/ Sleep(w) \/ SpuriousWakeup(w) \/ Leave(w)
      PROVE  Waiting'
    BY <1>0, <1>7, <1>i, <1>k DEF Take, Sleep, SpuriousWakeup, Leave, TypeOK
<1>8. ASSUME NEW w \in Workers, Expire(w)
      PROVE  Waiting'
    <2>1. worker[w] \in Worker
        BY <1>0 DEF TypeOK
    <2>2. worker' = [worker EXCEPT ![w] = [worker[w] EXCEPT !.st = "expired"]]
        BY <1>8 DEF Expire, Goto
    <2>3. [worker[w] EXCEPT !.st = "expired"].st = "expired"
        BY <2>1 DEF Worker
    <2>4. \A v \in Workers : worker'[v] = worker[v] \/ worker'[v].st = "expired"
        BY <1>0, <2>2, <2>3 DEF TypeOK
    <2> QED
        BY <1>8, <2>4, <1>k DEF Expire
<1>9. ASSUME NEW w \in Workers, Read(w)
      PROVE  Waiting'
    <2> DEFINE c == worker[w].conn
               x == [worker[w] EXCEPT !.st = "handle"]
    <2>1. worker[w] \in Worker /\ worker[w].st = "wait" /\ c \in Conns /\ req[c] = "sent"
        BY <1>0, <1>9, <1>c DEF Read, At, TypeOK
    <2>2. x.st = "handle" /\ x.conn = c /\ worker' = [worker EXCEPT ![w] = x]
        BY <1>9, <2>1 DEF Read, Goto, Worker
    <2>3. req' = [req EXCEPT ![c] = "taken"] /\ UNCHANGED <<sock, told>>
        BY <1>9 DEF Read
    <2>4. \A v \in Workers \ {w} : worker'[v] = worker[v] /\ worker[v].conn # c
        BY <1>0, <2>1, <2>2, Alone DEF TypeOK
    <2>5. \A v \in Workers \ {w} : Quiet(worker[v])
        BY <1>q
    <2>6. worker'[w] = x
        BY <1>0, <2>2 DEF TypeOK
    <2>7. \A v \in Workers : Quiet(worker[v])'
        <3> SUFFICES ASSUME NEW v \in Workers PROVE Quiet(worker[v])'
            OBVIOUS
        <3>1. CASE v = w
            BY <1>0, <2>1, <2>2, <2>3, <2>6, <3>1 DEF Quiet, TypeOK
        <3>2. CASE v # w
            BY <1>0, <1>c, <2>3, <2>4, <2>5, <3>2 DEF Quiet, TypeOK
        <3> QED
            BY <3>1, <3>2
    <2>8. \A d \in Conns : sock'[d] # "open" => req'[d] = "none"
        BY <1>0, <1>q, <2>1, <2>3 DEF TypeOK
    <2> QED
        BY <2>7, <2>8 DEF Waiting, Quiet, At
<1>10. ASSUME NEW w \in Workers, ReadEnd(w)
       PROVE  Waiting'
    <2> DEFINE c == worker[w].conn
               x == [worker[w] EXCEPT !.st = "over"]
    <2>1. worker[w] \in Worker /\ c \in Conns /\ sock[c] = "cut"
        BY <1>0, <1>10, <1>c DEF ReadEnd, At, TypeOK
    <2>2. x.st = "over" /\ x.conn = c /\ worker' = [worker EXCEPT ![w] = x] /\ UNCHANGED net
        BY <1>10, <2>1 DEF ReadEnd, Goto, Worker
    <2>3. worker'[w] = x /\ \A v \in Workers \ {w} : worker'[v] = worker[v]
        BY <1>0, <2>2 DEF TypeOK
    <2>4. \A v \in Workers : Quiet(worker[v])'
        <3> SUFFICES ASSUME NEW v \in Workers PROVE Quiet(worker[v])'
            OBVIOUS
        <3>1. CASE v = w
            BY <1>q, <2>1, <2>2, <2>3, <3>1 DEF Quiet, net
        <3>2. CASE v # w
            BY <1>q, <2>2, <2>3, <3>2 DEF Quiet, net
        <3> QED
            BY <3>1, <3>2
    <2> QED
        BY <1>q, <2>2, <2>4 DEF Waiting, Quiet, At, net
<1>11. ASSUME NEW w \in Workers, Answer(w)
       PROVE  Waiting'
    <2>1. PICK c : c = worker[w].conn
        OBVIOUS
    <2>2. PICK n : n = worker[w].count
        OBVIOUS
    <2>3. worker[w] \in Worker /\ worker[w].st = "handle" /\ c \in Conns /\ n \in 1 .. MaxCount
        BY <1>0, <1>11, <2>1, <2>2, WorkerShape DEF TypeOK, Answer, At
    <2>4. PICK close \in BOOLEAN :
              /\ told' = Announced(c, close, LastAnswer(n))
              /\ worker' = [worker EXCEPT
                     ![w].st = IF Continues(c, close, Left(n)) THEN "wait" ELSE "over",
                     ![w].count = Left(n)]
        BY <1>11, <2>1, <2>2 DEF Answer
    <2>5. PICK x : x = worker'[w]
        OBVIOUS
    <2>6. /\ x.conn = c /\ x.st = IF Continues(c, close, Left(n)) THEN "wait" ELSE "over"
          /\ \A v \in Workers \ {w} : worker'[v] = worker[v]
        BY <1>0, <2>1, <2>3, <2>4, <2>5 DEF TypeOK, Worker
    <2>7. req' = [req EXCEPT ![c] = "none"] /\ UNCHANGED sock
        BY <1>11, <2>1 DEF Answer
    <2>8. told \subseteq told' /\ (close \/ n = 1 => c \in told')
        BY <2>4 DEF Announced, LastAnswer
    <2>9. x.st = "over" => close \/ sock[c] = "cut" \/ n = 1
        BY <2>3, <2>6 DEF Continues, Left
    <2>10. \A v \in Workers \ {w} : worker[v].conn # c
        BY <1>0, <2>1, <2>3, Alone
    <2>11. \A v \in Workers : Quiet(worker[v])'
        <3> SUFFICES ASSUME NEW v \in Workers PROVE Quiet(worker[v])'
            OBVIOUS
        <3>1. CASE v = w
            BY <1>0, <2>3, <2>5, <2>6, <2>7, <2>8, <2>9, <3>1 DEF Quiet, TypeOK
        <3>2. CASE v # w
            BY <1>0, <1>q, <1>c, <2>6, <2>7, <2>8, <2>10, <3>2 DEF Quiet, TypeOK
        <3> QED
            BY <3>1, <3>2
    <2>12. \A d \in Conns : sock'[d] # "open" => req'[d] = "none"
        BY <1>0, <1>q, <2>7 DEF TypeOK
    <2> QED
        BY <2>11, <2>12 DEF Waiting, Quiet, At
<1>12. ASSUME NEW w \in Workers, Close(w)
       PROVE  Waiting'
    <2>1. PICK c : c = worker[w].conn
        OBVIOUS
    <2>2. c \in Conns /\ sock' = [sock EXCEPT ![c] = "closed"] /\ req' = [req EXCEPT ![c] = "none"]
          /\ UNCHANGED told /\ worker' = [worker EXCEPT ![w] = Idle("check")]
        BY <1>0, <1>12, <1>c, <2>1 DEF Close, TypeOK
    <2>3. \A v \in Workers \ {w} : worker[v].conn # c /\ worker'[v] = worker[v]
        BY <1>0, <2>1, <2>2, Alone DEF TypeOK
    <2>4. worker'[w].st = "check"
        BY <1>0, <1>i, <2>2 DEF TypeOK
    <2>5. \A v \in Workers : Quiet(worker[v])'
        <3> SUFFICES ASSUME NEW v \in Workers PROVE Quiet(worker[v])'
            OBVIOUS
        <3>1. CASE v = w
            BY <2>4, <3>1 DEF Quiet
        <3>2. CASE v # w
            BY <1>0, <1>q, <1>c, <2>2, <2>3, <3>2 DEF Quiet, TypeOK
        <3> QED
            BY <3>1, <3>2
    <2>6. \A d \in Conns : sock'[d] # "open" => req'[d] = "none"
        BY <1>0, <1>q, <2>2 DEF TypeOK
    <2> QED
        BY <2>5, <2>6 DEF Waiting, Quiet, At
<1>13. CASE Exited
    BY <1>1, <1>13 DEF Exited
<1> QED
    BY <1>1, <1>2, <1>3, <1>4, <1>5, <1>6, <1>7, <1>8, <1>9, <1>10, <1>11, <1>12, <1>13
       DEF Next, WorkerStep, ListenerStep

-----------------------------------------------------------------------------
LEMMA EndingStep == HInv /\ [Next]_vars => Ending'
<1> SUFFICES ASSUME HInv, [Next]_vars PROVE Ending'
    OBVIOUS
<1>0. TypeOK /\ Ending
    BY DEF HInv
<1>i. \A st \in {"check", "sleep", "done"} : Idle(st).st = st
    BY DEF Idle
\* Workers that do not leave.
<1>k. ASSUME UNCHANGED <<listener, shutdown>>, jobs' = jobs \/ jobs # <<>>,
             \A w \in Workers : worker'[w].st = "done" <=> worker[w].st = "done"
      PROVE  Ending'
    BY <1>0, <1>k DEF Ending, At
<1>1. CASE UNCHANGED vars
    BY <1>1, <1>k DEF vars, net
<1>2. ASSUME NEW c \in Conns, Send(c) \/ Cut(c)
      PROVE  Ending'
    BY <1>2, <1>k DEF Send, Cut
<1>3. ASSUME NEW c \in Conns, Accept(c)
      PROVE  Ending'
    BY <1>0, <1>3 DEF Accept, Ending, At
<1>4. CASE Notify
    <2>1. \A w \in Workers : ~At(w, "done")
        BY <1>0, <1>4 DEF Notify, Ending
    <2>2. \A w \in Workers : worker'[w].st # "done"
        BY <1>0, <1>4, <1>i, <2>1 DEF Notify, TypeOK, At
    <2> QED
        BY <1>0, <1>4, <2>2 DEF Notify, Ending, At
<1>5. CASE NotifyAll
    <2>1. \A w \in Workers : worker'[w].st = "done" => worker[w].st = "done"
        BY <1>0, <1>5, <1>i DEF NotifyAll, TypeOK, At
    <2> QED
        BY <1>0, <1>5, <2>1 DEF NotifyAll, Ending, At
<1>6. CASE Exit \/ AcceptFails
    BY <1>0, <1>6 DEF Exit, AcceptFails, Ending, At
<1>7. ASSUME NEW w \in Workers, Leave(w)
      PROVE  Ending'
    <2>1. \A v \in Workers : worker'[v].st = "done" => worker[v].st = "done" \/ v = w
        BY <1>0, <1>7 DEF Leave, TypeOK
    <2>2. listener # "exited"
        BY <1>0, <1>7 DEF Leave, Ending, At
    <2> QED
        BY <1>0, <1>7, <2>1, <2>2 DEF Leave, Ending, At
<1>8. ASSUME NEW w \in Workers, Take(w) \/ Sleep(w) \/ SpuriousWakeup(w) \/ Close(w)
      PROVE  Ending'
    <2>1. worker[w].st # "done"
        BY <1>8 DEF Take, Sleep, SpuriousWakeup, Close, At
    <2>2. worker'[w].st # "done" /\ \A v \in Workers \ {w} : worker'[v] = worker[v]
        BY <1>0, <1>8, <1>i DEF Take, Sleep, SpuriousWakeup, Close, TypeOK
    <2>3. \A v \in Workers : worker'[v].st = "done" <=> worker[v].st = "done"
        BY <2>1, <2>2
    <2> QED
        BY <1>8, <2>3, <1>k DEF Take, Sleep, SpuriousWakeup, Close
<1>9. ASSUME NEW w \in Workers, Read(w) \/ ReadEnd(w) \/ Expire(w) \/ Answer(w)
      PROVE  Ending'
    <2>1. worker[w] \in Worker /\ worker[w].st # "done"
        BY <1>0, <1>9 DEF Read, ReadEnd, Expire, Answer, At, TypeOK
    <2>2. PICK st \in {"wait", "handle", "over", "expired"} :
              \/ worker' = [worker EXCEPT ![w].st = st]
              \/ worker' = [worker EXCEPT ![w].st = st, ![w].count = Left(worker[w].count)]
        BY <1>9 DEF Read, ReadEnd, Expire, Answer, Goto
    <2>3. worker'[w].st # "done" /\ \A v \in Workers \ {w} : worker'[v] = worker[v]
        BY <1>0, <2>1, <2>2 DEF TypeOK, Worker
    <2>4. \A v \in Workers : worker'[v].st = "done" <=> worker[v].st = "done"
        BY <2>1, <2>3
    <2> QED
        BY <1>9, <2>4, <1>k DEF Read, ReadEnd, Expire, Answer, net
<1>10. CASE Exited
    BY <1>1, <1>10 DEF Exited
<1> QED
    BY <1>1, <1>2, <1>3, <1>4, <1>5, <1>6, <1>7, <1>8, <1>9, <1>10 DEF Next, WorkerStep, ListenerStep

-----------------------------------------------------------------------------
\* The workers on their way to the queue are counted.
LEMMA AwakeFinite == IsFiniteSet(Awake) /\ Cardinality(Awake) \in Nat
BY WorkersAssumption, FS_Subset, FS_CardinalityType DEF Awake

LEMMA WakeupStep == HInv /\ [Next]_vars => NoLostWakeup'
<1> SUFFICES ASSUME HInv, [Next]_vars, Sleepers' # {}
             PROVE  Len(jobs') <= Cardinality(Awake') + (IF listener' = "notify" THEN 1 ELSE 0)
    BY DEF NoLostWakeup
<1>0. TypeOK /\ NoLostWakeup
    BY DEF HInv
<1>l. Len(jobs) \in Nat /\ IsFiniteSet(Awake) /\ Cardinality(Awake) \in Nat
    BY <1>0, AwakeFinite, LenProperties DEF TypeOK
<1>i. \A st \in {"check", "sleep", "done"} : Idle(st).st = st
    BY DEF Idle
\* A worker wakes up or comes back, and nothing else changes.
<1>a. ASSUME NEW w \in Workers, ~At(w, "check"), worker' = [worker EXCEPT ![w] = Idle("check")]
      PROVE  Cardinality(Awake') = Cardinality(Awake) + 1
    <2>1. Awake' = Awake \union {w} /\ w \notin Awake
        BY <1>0, <1>a, <1>i DEF Awake, At, TypeOK
    <2> QED
        BY <1>l, <2>1, FS_AddElement
<1>k. ASSUME UNCHANGED <<jobs, listener>>,
             \A w \in Workers : /\ worker'[w].st = "check" <=> worker[w].st = "check"
                                /\ worker'[w].st = "sleep" <=> worker[w].st = "sleep"
      PROVE  Len(jobs') <= Cardinality(Awake') + (IF listener' = "notify" THEN 1 ELSE 0)
    <2>1. Awake' = Awake
        BY <1>k DEF Awake, At
    <2>2. Sleepers' = Sleepers
        BY <1>k DEF Sleepers, At
    <2> QED
        BY <1>0, <1>k, <2>1, <2>2 DEF NoLostWakeup
<1>1. CASE UNCHANGED vars
    BY <1>1, <1>k DEF vars
<1>2. ASSUME NEW c \in Conns, Send(c) \/ Cut(c)
      PROVE  Len(jobs') <= Cardinality(Awake') + (IF listener' = "notify" THEN 1 ELSE 0)
    BY <1>2, <1>k DEF Send, Cut
<1>3. ASSUME NEW c \in Conns, Accept(c)
      PROVE  Len(jobs') <= Cardinality(Awake') + (IF listener' = "notify" THEN 1 ELSE 0)
    <2>1. Len(jobs') = Len(jobs) + 1
        BY <1>0, <1>3, AppendProperties DEF TypeOK, Accept
    <2>2. Awake' = Awake /\ Sleepers' = Sleepers
        BY <1>3 DEF Accept, Awake, Sleepers, At
    <2>3. listener = "accept" /\ listener' = "notify"
        BY <1>3 DEF Accept
    <2> QED
        BY <1>0, <1>l, <2>1, <2>2, <2>3 DEF NoLostWakeup
<1>4. CASE Notify
    <2>1. listener = "notify" /\ listener' = "accept" /\ jobs' = jobs
        BY <1>4 DEF Notify
    <2>2. Sleepers # {}
        BY <1>4 DEF Notify, Sleepers, At
    <2>3. PICK w \in Workers : At(w, "sleep") /\ worker' = [worker EXCEPT ![w] = Idle("check")]
        BY <1>4, <2>2 DEF Notify, Sleepers
    <2>4. Cardinality(Awake') = Cardinality(Awake) + 1
        BY <1>a, <2>3 DEF At
    <2> QED
        BY <1>0, <1>l, <2>1, <2>2, <2>4 DEF NoLostWakeup
<1>5. CASE NotifyAll
    BY <1>0, <1>5, <1>i DEF NotifyAll, Sleepers, At, TypeOK
<1>6. CASE Exit \/ AcceptFails
    <2>1. Awake' = Awake /\ Sleepers' = Sleepers /\ jobs' = jobs /\ listener # "notify"
        BY <1>6 DEF Exit, AcceptFails, Awake, Sleepers, At
    <2> QED
        BY <1>0, <1>l, <2>1 DEF NoLostWakeup
<1>7. ASSUME NEW w \in Workers, Take(w)
      PROVE  Len(jobs') <= Cardinality(Awake') + (IF listener' = "notify" THEN 1 ELSE 0)
    <2>1. Len(jobs') = Len(jobs) - 1 /\ listener' = listener
        BY <1>0, <1>7, HeadTailProperties DEF TypeOK, Take
    <2>2. Awake' = Awake \ {w} /\ w \in Awake /\ Sleepers' = Sleepers
        BY <1>0, <1>7 DEF Take, Awake, Sleepers, At, TypeOK
    <2>3. Cardinality(Awake') = Cardinality(Awake) - 1
        BY <1>l, <2>2, FS_RemoveElement
    <2> QED
        BY <1>0, <1>l, <2>1, <2>2, <2>3 DEF NoLostWakeup
<1>8. ASSUME NEW w \in Workers, Sleep(w) \/ Leave(w)
      PROVE  Len(jobs') <= Cardinality(Awake') + (IF listener' = "notify" THEN 1 ELSE 0)
    <2>1. Len(jobs') = 0
        BY <1>8, EmptySeq DEF Sleep, Leave
    <2>2. Cardinality(Awake)' \in Nat
        BY WorkersAssumption, FS_Subset, FS_CardinalityType DEF Awake
    <2> QED
        BY <2>1, <2>2
<1>9. ASSUME NEW w \in Workers, SpuriousWakeup(w)
      PROVE  Len(jobs') <= Cardinality(Awake') + (IF listener' = "notify" THEN 1 ELSE 0)
    <2>1. Cardinality(Awake') = Cardinality(Awake) + 1 /\ UNCHANGED <<jobs, listener>>
        BY <1>9, <1>a DEF SpuriousWakeup, At
    <2>2. Sleepers # {}
        BY <1>9 DEF SpuriousWakeup, Sleepers
    <2> QED
        BY <1>0, <1>l, <2>1, <2>2 DEF NoLostWakeup
<1>10. ASSUME NEW w \in Workers, Close(w)
       PROVE  Len(jobs') <= Cardinality(Awake') + (IF listener' = "notify" THEN 1 ELSE 0)
    <2>1. ~At(w, "check") /\ worker' = [worker EXCEPT ![w] = Idle("check")] /\ UNCHANGED <<jobs, listener>>
        BY <1>10 DEF Close, At
    <2>2. Cardinality(Awake') = Cardinality(Awake) + 1
        BY <1>a, <2>1
    <2>3. Sleepers' \subseteq Sleepers
        BY <1>0, <1>i, <2>1 DEF Sleepers, At, TypeOK
    <2> QED
        BY <1>0, <1>l, <2>1, <2>2, <2>3 DEF NoLostWakeup
<1>11. ASSUME NEW w \in Workers, Read(w) \/ ReadEnd(w) \/ Expire(w) \/ Answer(w)
       PROVE  Len(jobs') <= Cardinality(Awake') + (IF listener' = "notify" THEN 1 ELSE 0)
    <2>1. worker[w] \in Worker /\ worker[w].st \in {"wait", "handle"}
        BY <1>0, <1>11 DEF Read, ReadEnd, Expire, Answer, At, TypeOK
    <2>2. PICK st \in {"wait", "handle", "over", "expired"} :
              \/ worker' = [worker EXCEPT ![w].st = st]
              \/ worker' = [worker EXCEPT ![w].st = st, ![w].count = Left(worker[w].count)]
        BY <1>11 DEF Read, ReadEnd, Expire, Answer, Goto
    <2>3. worker'[w].st = st /\ \A v \in Workers \ {w} : worker'[v] = worker[v]
        BY <1>0, <2>1, <2>2 DEF TypeOK, Worker
    <2>4. \A v \in Workers : /\ worker'[v].st = "check" <=> worker[v].st = "check"
                             /\ worker'[v].st = "sleep" <=> worker[v].st = "sleep"
        BY <2>1, <2>2, <2>3
    <2> QED
        BY <1>11, <2>4, <1>k DEF Read, ReadEnd, Expire, Answer
<1>12. CASE Exited
    BY <1>1, <1>12 DEF Exited
<1> QED
    BY <1>1, <1>2, <1>3, <1>4, <1>5, <1>6, <1>7, <1>8, <1>9, <1>10, <1>11, <1>12
       DEF Next, WorkerStep, ListenerStep

LEMMA StepPreserves == HInv /\ [Next]_vars => HInv'
BY TypeStep, PlacesStep, WaitingStep, EndingStep, WakeupStep DEF HInv

(* The invariant that carries the others: where connections and wakeups    *)
(* are.                                                                    *)
THEOREM Inductive == Spec => []HInv
BY InitEstablishes, StepPreserves, PTL DEF Spec

-----------------------------------------------------------------------------
(* Queue, workers and connections have their shapes; no worker waits for   *)
(* more requests than a connection may have.                               *)
THEOREM TypeCorrect == Spec => []TypeOK
<1>1. HInv => TypeOK
    BY DEF HInv
<1> QED
    BY <1>1, Inductive, PTL

(* No job waits beside a sleeping worker without a wakeup on its way,      *)
(* although the notification is given after the lock.                      *)
THEOREM WakeupsArrive == Spec => []NoLostWakeup
<1>1. HInv => NoLostWakeup
    BY DEF HInv
<1> QED
    BY <1>1, Inductive, PTL

LEMMA PlacesCounted == TypeOK /\ Places => OnePlace
<1> SUFFICES ASSUME TypeOK, Places, NEW c \in Conns
             PROVE  Cardinality({i \in DOMAIN jobs : jobs[i] = c}) + Cardinality(Served(c))
                        = IF sock[c] = "closed" THEN 0 ELSE 1
    BY DEF OnePlace
<1> DEFINE Q == {i \in DOMAIN jobs : jobs[i] = c}
<1>1. Cardinality(Q) = IF Queued(c) THEN 1 ELSE 0
    <2>1. CASE Queued(c)
        <3>1. PICK i \in DOMAIN jobs : jobs[i] = c
            BY <2>1 DEF Queued
        <3>2. Q = {i}
            BY <3>1 DEF Places
        <3> QED
            BY <2>1, <3>2, FS_Singleton
    <2>2. CASE ~Queued(c)
        <3>1. Q = {}
            BY <2>2 DEF Queued
        <3> QED
            BY <2>2, <3>1, FS_EmptySet
    <2> QED
        BY <2>1, <2>2
<1>2. Cardinality(Served(c)) = IF Busy(c) THEN 1 ELSE 0
    <2>1. CASE Busy(c)
        <3>1. PICK w \in Workers : worker[w].conn = c
            BY <2>1 DEF Busy
        <3>2. Served(c) = {w}
            BY <3>1, NoneAssumption DEF Places, Served
        <3> QED
            BY <2>1, <3>2, FS_Singleton
    <2>2. CASE ~Busy(c)
        <3>1. Served(c) = {}
            BY <2>2 DEF Busy, Served
        <3> QED
            BY <2>2, <3>1, FS_EmptySet
    <2> QED
        BY <2>1, <2>2
<1> QED
    BY <1>1, <1>2 DEF Places

(* A connection is queued once or served by one worker until it is closed. *)
THEOREM NobodyLeaked == Spec => []OnePlace
<1>1. HInv => OnePlace
    BY PlacesCounted DEF HInv
<1> QED
    BY <1>1, Inductive, PTL

(* The process ends after the last connection only.                        *)
THEOREM NobodyLeftBehind == Spec => []Drained
<1>1. HInv => Drained
    <2> SUFFICES ASSUME HInv, listener = "exited", NEW c \in Conns PROVE sock[c] = "closed"
        BY DEF Drained
    <2>1. TypeOK /\ Places /\ Ending
        BY DEF HInv
    <2>2. \A w \in Workers : At(w, "done") /\ worker[w].conn = None
        BY <2>1, WorkerShape DEF Ending, At, TypeOK
    <2>3. jobs = <<>>
        BY <2>1, <2>2, WorkersAssumption DEF Ending
    <2>4. ~Queued(c)
        BY <2>3, EmptySeq DEF Queued
    <2>5. ~Busy(c)
        BY <2>2, NoneAssumption DEF Busy
    <2> QED
        BY <2>1, <2>4, <2>5 DEF Places
<1> QED
    BY <1>1, Inductive, PTL

(* A request is lost only with a connection that was given up for being    *)
(* quiet.                                                                  *)
THEOREM LossExplained == Spec => LostOnlyByTimeout
<1>1. HInv /\ [Next]_vars =>
          [\A c \in Conns :
               req[c] = "sent" /\ req'[c] = "none" /\ sock'[c] = "closed" =>
                   \E w \in Served(c) : At(w, "expired")]_vars
    <2> SUFFICES ASSUME HInv, Next, NEW c \in Conns,
                        req[c] = "sent", req'[c] = "none", sock'[c] = "closed"
                 PROVE  \E w \in Served(c) : At(w, "expired")
        BY DEF vars
    <2>1. TypeOK /\ Waiting
        BY DEF HInv
    <2>2. sock[c] = "open"
        BY <2>1 DEF Waiting
    <2>3. \/ \E w \in Workers : Close(w)
          \/ req' = req \/ sock' = sock \/ \E d \in Conns : Cut(d)
        BY DEF Next, WorkerStep, ListenerStep, Send, Accept, Notify, NotifyAll, Exit, AcceptFails,
               Take, Sleep, SpuriousWakeup, Leave, Read, ReadEnd, Expire, Answer, Exited, net, vars
    <2>4. ASSUME NEW d \in Conns, Cut(d) PROVE FALSE
        BY <2>1, <2>2, <2>4 DEF Cut, TypeOK
    <2>5. PICK w \in Workers : Close(w)
        BY <2>2, <2>3, <2>4
    <2>6. worker[w].conn = c
        BY <2>1, <2>2, <2>5 DEF Close, TypeOK
    <2>7. worker[w].st # "over"
        BY <2>1, <2>6 DEF Waiting, At
    <2>8. At(w, "expired")
        BY <2>5, <2>7 DEF Close, At
    <2> QED
        BY <2>6, <2>8 DEF Served
<1> QED
    BY <1>1, Inductive, PTL DEF Spec, LostOnlyByTimeout

-----------------------------------------------------------------------------
(***************************************************************************)
(* What a loop comes to, round by round.                                   *)
(***************************************************************************)
LEMMA Upwards ==
    ASSUME NEW b \in Nat, NEW S, 0 \in S, \A n \in 0 .. b - 1 : n \in S => n + 1 \in S
    PROVE  \A n \in 0 .. b : n \in S
<1> SUFFICES ASSUME NEW k \in 0 .. b, k \notin S PROVE FALSE
    OBVIOUS
<1> DEFINE Out == {n \in 0 .. b : n \notin S}
<1>1. PICK n \in Out : \A m \in Out : ~(<<m, n>> \in OpToRel(<, Nat))
    <2>1. Out \subseteq Nat /\ Out # {}
        OBVIOUS
    <2> QED
        BY <2>1, NatLessThanWellFounded, WFMin
<1>2. n # 0 /\ n \in 0 .. b
    OBVIOUS
<1>3. n - 1 \in 0 .. b - 1 /\ n - 1 \in Nat /\ n \in Nat /\ n - 1 < n
    BY <1>2
<1>4. <<n - 1, n>> \in OpToRel(<, Nat)
    BY <1>3 DEF OpToRel
<1>5. n - 1 \in S
    <2>1. n - 1 \notin Out
        BY <1>1, <1>4
    <2>2. n - 1 \in 0 .. b
        BY <1>3
    <2> QED
        BY <2>1, <2>2
<1> QED
    BY <1>3, <1>5

LEMMA CharacterRounds ==
    ASSUME NEW start, NEW rounds \in Nat
    PROVE  \E f : /\ f = [n \in 0 .. rounds |-> IF n = 0 THEN start ELSE ReadCharacter(f[n - 1])]
                  /\ Loop(start, ReadCharacter, rounds) = f[rounds]
<1> DEFINE After(f, m) == f = [n \in 0 .. m |-> IF n = 0 THEN start ELSE ReadCharacter(f[n - 1])]
           There == {m \in 0 .. rounds : \E f : After(f, m)}
<1>1. 0 \in There
    <2>1. PICK f : f = [n \in 0 .. 0 |-> start]
        OBVIOUS
    <2>2. After(f, 0)
        BY <2>1
    <2> QED
        BY <2>2
<1>2. ASSUME NEW m \in 0 .. rounds - 1, m \in There PROVE m + 1 \in There
    <2>1. PICK f : After(f, m)
        BY <1>2
    <2>2. PICK g : g = [n \in 0 .. m + 1 |-> IF n <= m THEN f[n] ELSE ReadCharacter(f[m])]
        OBVIOUS
    <2>3. ASSUME NEW n \in 0 .. m + 1 PROVE g[n] = IF n = 0 THEN start ELSE ReadCharacter(g[n - 1])
        BY <2>1, <2>2
    <2>4. After(g, m + 1)
        BY <2>2, <2>3
    <2> QED
        BY <2>4
<1>3. rounds \in There
    <2> HIDE DEF There
    <2> QED
        BY <1>1, <1>2, Upwards
<1>4. PICK f : After(f, rounds)
    BY <1>3
<1>5. Loop(start, ReadCharacter, rounds) = (CHOOSE g : After(g, rounds))[rounds]
    BY DEF Loop
<1>6. After((CHOOSE g : After(g, rounds)), rounds)
    BY <1>4
<1> QED
    BY <1>5, <1>6

LEMMA HeaderRounds ==
    ASSUME NEW start, NEW rounds \in Nat
    PROVE  \E f : /\ f = [n \in 0 .. rounds |-> IF n = 0 THEN start ELSE ReadHeader(f[n - 1])]
                  /\ Loop(start, ReadHeader, rounds) = f[rounds]
<1> DEFINE After(f, m) == f = [n \in 0 .. m |-> IF n = 0 THEN start ELSE ReadHeader(f[n - 1])]
           There == {m \in 0 .. rounds : \E f : After(f, m)}
<1>1. 0 \in There
    <2>1. PICK f : f = [n \in 0 .. 0 |-> start]
        OBVIOUS
    <2>2. After(f, 0)
        BY <2>1
    <2> QED
        BY <2>2
<1>2. ASSUME NEW m \in 0 .. rounds - 1, m \in There PROVE m + 1 \in There
    <2>1. PICK f : After(f, m)
        BY <1>2
    <2>2. PICK g : g = [n \in 0 .. m + 1 |-> IF n <= m THEN f[n] ELSE ReadHeader(f[m])]
        OBVIOUS
    <2>3. ASSUME NEW n \in 0 .. m + 1 PROVE g[n] = IF n = 0 THEN start ELSE ReadHeader(g[n - 1])
        BY <2>1, <2>2
    <2>4. After(g, m + 1)
        BY <2>2, <2>3
    <2> QED
        BY <2>4
<1>3. rounds \in There
    <2> HIDE DEF There
    <2> QED
        BY <1>1, <1>2, Upwards
<1>4. PICK f : After(f, rounds)
    BY <1>3
<1>5. Loop(start, ReadHeader, rounds) = (CHOOSE g : After(g, rounds))[rounds]
    BY DEF Loop
<1>6. After((CHOOSE g : After(g, rounds)), rounds)
    BY <1>4
<1> QED
    BY <1>5, <1>6

LEMMA SomeRounds ==
    ASSUME NEW start, NEW rounds \in Nat
    PROVE  \E f : /\ f = [n \in 0 .. rounds |-> IF n = 0 THEN start ELSE ReadSome(f[n - 1])]
                  /\ Loop(start, ReadSome, rounds) = f[rounds]
<1> DEFINE After(f, m) == f = [n \in 0 .. m |-> IF n = 0 THEN start ELSE ReadSome(f[n - 1])]
           There == {m \in 0 .. rounds : \E f : After(f, m)}
<1>1. 0 \in There
    <2>1. PICK f : f = [n \in 0 .. 0 |-> start]
        OBVIOUS
    <2>2. After(f, 0)
        BY <2>1
    <2> QED
        BY <2>2
<1>2. ASSUME NEW m \in 0 .. rounds - 1, m \in There PROVE m + 1 \in There
    <2>1. PICK f : After(f, m)
        BY <1>2
    <2>2. PICK g : g = [n \in 0 .. m + 1 |-> IF n <= m THEN f[n] ELSE ReadSome(f[m])]
        OBVIOUS
    <2>3. ASSUME NEW n \in 0 .. m + 1 PROVE g[n] = IF n = 0 THEN start ELSE ReadSome(g[n - 1])
        BY <2>1, <2>2
    <2>4. After(g, m + 1)
        BY <2>2, <2>3
    <2> QED
        BY <2>4
<1>3. rounds \in There
    <2> HIDE DEF There
    <2> QED
        BY <1>1, <1>2, Upwards
<1>4. PICK f : After(f, rounds)
    BY <1>3
<1>5. Loop(start, ReadSome, rounds) = (CHOOSE g : After(g, rounds))[rounds]
    BY DEF Loop
<1>6. After((CHOOSE g : After(g, rounds)), rounds)
    BY <1>4
<1> QED
    BY <1>5, <1>6

-----------------------------------------------------------------------------
(***************************************************************************)
(* The stream.                                                             *)
(***************************************************************************)
\* What a text is made of: strings, these among them.
Named ==
    {CR, LF, Space, "/", "?", "=", ":", "%", "GET", "POST", "DELETE", "HTTP/1.1",
     "me", "users", "rooms", "login", "refresh", "logout", "register", "conversations", "messages", "limit",
     "Host", "gateway", "8080", "Content-Type", "application/json", "Authorization", "Bearer",
     "Content-Length", "0", "1", "2", "3", "4", "5", "6", "7", "8", "9", "A", "a"}

Symbols == STRING \union Named

Texts == Seq(Symbols)

\* The pieces are what is left of the text behind character a.
Cuts(pieces, text, a) ==
    /\ pieces \in Seq(Texts)
    /\ \E c \in [0 .. Len(pieces) -> 0 .. Len(text)] :
           /\ c[0] = a /\ c[Len(pieces)] = Len(text)
           /\ \A i \in 1 .. Len(pieces) : c[i - 1] < c[i] /\ pieces[i] = SubSeq(text, c[i - 1] + 1, c[i])

\* So many characters of the text were read; some more may have been read ahead.
StreamAt(s, text, at) ==
    /\ at \in 0 .. Len(text)
    /\ \E upto \in at .. Len(text) :
           s.buf = SubSeq(text, at + 1, upto) /\ Cuts(s.net, text, upto)

LEMMA Part ==
    ASSUME NEW text \in Texts, NEW a \in 0 .. Len(text), NEW b \in a .. Len(text)
    PROVE  /\ SubSeq(text, a + 1, b) \in Texts
           /\ Len(SubSeq(text, a + 1, b)) = b - a
           /\ \A i \in 1 .. b - a : SubSeq(text, a + 1, b)[i] = text[a + i]
<1>1. \A i \in a + 1 .. b : text[i] \in Symbols
    BY DEF Texts
<1>2. a + 1 \in Int /\ b \in Int
    BY DEF Texts
<1>3. /\ SubSeq(text, a + 1, b) \in Seq(Symbols)
      /\ Len(SubSeq(text, a + 1, b)) = IF a + 1 <= b THEN b - (a + 1) + 1 ELSE 0
      /\ \A i \in 1 .. b - (a + 1) + 1 : SubSeq(text, a + 1, b)[i] = text[(a + 1) + i - 1]
    BY <1>1, <1>2, SubSeqProperties
<1>4. Len(text) \in Nat
    BY DEF Texts
<1> QED
    BY <1>3, <1>4 DEF Texts

LEMMA PartOfPart ==
    ASSUME NEW text \in Texts, NEW a \in 0 .. Len(text), NEW b \in a .. Len(text),
           NEW i \in 0 .. b - a, NEW j \in i .. b - a
    PROVE  SubSeq(SubSeq(text, a + 1, b), i + 1, j) = SubSeq(text, a + i + 1, a + j)
<1> DEFINE p == SubSeq(text, a + 1, b)
           q == SubSeq(p, i + 1, j)
           r == SubSeq(text, a + i + 1, a + j)
<1>0. Len(text) \in Nat /\ a + i \in 0 .. Len(text) /\ a + j \in a + i .. Len(text)
    BY DEF Texts
<1>1. p \in Texts /\ Len(p) = b - a /\ \A k \in 1 .. b - a : p[k] = text[a + k]
    BY Part
<1>2. i \in 0 .. Len(p) /\ j \in i .. Len(p)
    BY <1>0, <1>1
<1>3. q \in Texts /\ Len(q) = j - i /\ \A k \in 1 .. j - i : q[k] = p[i + k]
    BY <1>1, <1>2, Part
<1>4. r \in Texts /\ Len(r) = (a + j) - (a + i) /\ \A k \in 1 .. (a + j) - (a + i) : r[k] = text[(a + i) + k]
    <2> HIDE DEF p, q
    <2> QED
        BY <1>0, Part
<1>5. Len(q) = Len(r) /\ \A k \in 1 .. Len(q) : q[k] = r[k]
    <2>1. ASSUME NEW k \in 1 .. j - i PROVE q[k] = r[k]
        <3>1. i + k \in 1 .. b - a /\ a + (i + k) = (a + i) + k
            BY <1>0
        <3> QED
            BY <1>0, <1>1, <1>3, <1>4, <3>1
    <2> QED
        BY <1>0, <1>3, <1>4, <2>1
<1> HIDE DEF p, q, r
<1>6. q = r
    <2>1. q \in Seq(Symbols) /\ r \in Seq(Symbols)
        BY ONLY <1>3, <1>4 DEF Texts
    <2> QED
        BY ONLY <1>5, <2>1, SeqEqual
<1> QED
    BY <1>6 DEF p, q, r

LEMMA PartFromStart ==
    ASSUME NEW text \in Texts, NEW a \in 0 .. Len(text), NEW b \in a .. Len(text), NEW j \in 0 .. b - a
    PROVE  SubSeq(SubSeq(text, a + 1, b), 1, j) = SubSeq(text, a + 1, a + j)
<1>1. PICK z \in Nat : z = 0
    OBVIOUS
<1>2. Len(text) \in Nat
    BY DEF Texts
<1>3. z \in 0 .. b - a /\ j \in z .. b - a
    BY <1>1, <1>2
<1>4. SubSeq(SubSeq(text, a + 1, b), z + 1, j) = SubSeq(text, a + z + 1, a + j)
    BY <1>3, PartOfPart
<1>5. z + 1 = 1 /\ a + z + 1 = a + 1
    BY <1>1, <1>2
<1> QED
    BY <1>4, <1>5

LEMMA CutsEnd ==
    ASSUME NEW text \in Texts, NEW pieces, NEW a, Cuts(pieces, text, a)
    PROVE  a \in 0 .. Len(text) /\ (pieces = <<>> <=> a = Len(text))
<1>1. PICK c \in [0 .. Len(pieces) -> 0 .. Len(text)] :
          /\ c[0] = a /\ c[Len(pieces)] = Len(text)
          /\ \A i \in 1 .. Len(pieces) : c[i - 1] < c[i] /\ pieces[i] = SubSeq(text, c[i - 1] + 1, c[i])
    BY DEF Cuts
<1>2. Len(pieces) \in Nat /\ Len(text) \in Nat /\ (pieces = <<>> <=> Len(pieces) = 0)
    BY DEF Cuts, Texts
<1>3. ASSUME Len(pieces) # 0 PROVE a < Len(text)
    <2>1. c[0] < c[1] /\ c[1] \in 0 .. Len(text)
        BY <1>1, <1>2, <1>3
    <2> QED
        BY <1>1, <1>2, <2>1
<1> QED
    BY <1>1, <1>2, <1>3

\* A piece before the cuts of what is behind it.
LEMMA CutsMore ==
    ASSUME NEW text \in Texts, NEW b, NEW pieces, Cuts(pieces, text, b), NEW a \in 0 .. Len(text), a < b
    PROVE  Cuts(<<SubSeq(text, a + 1, b)>> \o pieces, text, a)
<1>1. PICK c \in [0 .. Len(pieces) -> 0 .. Len(text)] :
          /\ c[0] = b /\ c[Len(pieces)] = Len(text)
          /\ \A i \in 1 .. Len(pieces) : c[i - 1] < c[i] /\ pieces[i] = SubSeq(text, c[i - 1] + 1, c[i])
    BY DEF Cuts
<1>2. Len(pieces) \in Nat /\ Len(text) \in Nat /\ pieces \in Seq(Texts) /\ b \in 0 .. Len(text)
    <2>1. Len(pieces) \in Nat /\ Len(text) \in Nat /\ pieces \in Seq(Texts)
        BY DEF Cuts, Texts
    <2> QED
        BY <1>1, <2>1
<1>3. PICK x : x = SubSeq(text, a + 1, b)
    OBVIOUS
<1>4. x \in Texts
    <2>1. b \in a .. Len(text)
        BY <1>2
    <2> QED
        BY <1>3, <2>1, Part
<1>5. PICK h : h = <<x>>
    OBVIOUS
<1>6. h \in Seq(Texts) /\ Len(h) = 1 /\ h[1] = x
    <2>1. <<x>> \in Seq(Texts) /\ Len(<<x>>) = 1 /\ <<x>>[1] = x
        BY ONLY <1>4
    <2> QED
        BY <1>5, <2>1
<1>7. PICK m : m = h \o pieces
    OBVIOUS
<1>8. /\ h \o pieces \in Seq(Texts) /\ Len(h \o pieces) = Len(h) + Len(pieces)
      /\ \A i \in 1 .. Len(h) + Len(pieces) :
            (h \o pieces)[i] = IF i <= Len(h) THEN h[i] ELSE pieces[i - Len(h)]
    BY ONLY <1>2, <1>6, ConcatProperties
<1>9. m \in Seq(Texts) /\ Len(m) = Len(pieces) + 1 /\ m[1] = x
    BY <1>2, <1>6, <1>7, <1>8
<1>10. \A i \in 2 .. Len(pieces) + 1 : m[i] = pieces[i - 1]
    BY <1>2, <1>6, <1>7, <1>8
<1>11. PICK d : d = [i \in 0 .. Len(pieces) + 1 |-> IF i = 0 THEN a ELSE c[i - 1]]
    OBVIOUS
<1>12. d \in [0 .. Len(pieces) + 1 -> 0 .. Len(text)] /\ d[0] = a
    BY <1>2, <1>11
<1>13. \A i \in 1 .. Len(pieces) + 1 : d[i] = c[i - 1]
    BY <1>2, <1>11
<1>14. d[Len(pieces) + 1] = Len(text)
    BY <1>1, <1>2, <1>13
<1>15. ASSUME NEW i \in 1 .. Len(pieces) + 1
       PROVE  d[i - 1] < d[i] /\ m[i] = SubSeq(text, d[i - 1] + 1, d[i])
    <2>1. CASE i = 1
        <3>1. d[i - 1] = a /\ d[i] = b /\ m[i] = x
            BY <1>1, <1>2, <1>9, <1>12, <1>13, <2>1
        <3> QED
            BY <1>3, <3>1
    <2>2. CASE i # 1
        <3>1. i \in 2 .. Len(pieces) + 1 /\ i - 1 \in 1 .. Len(pieces) /\ i - 1 \in 1 .. Len(pieces) + 1
            BY <1>2, <2>2
        <3>2. d[i] = c[i - 1] /\ d[i - 1] = c[(i - 1) - 1] /\ m[i] = pieces[i - 1]
            BY <1>10, <1>13, <3>1
        <3> QED
            BY <1>1, <3>1, <3>2
    <2> QED
        BY <2>1, <2>2
<1>16. Cuts(m, text, a)
    BY <1>9, <1>12, <1>14, <1>15 DEF Cuts
<1> QED
    BY <1>3, <1>5, <1>7, <1>16

\* The first piece ends at some b, the others are cuts of what is behind it, and
\* so are all of them if the first is shortened.
LEMMA CutsHead ==
    ASSUME NEW text \in Texts, NEW pieces, NEW a, Cuts(pieces, text, a), pieces # <<>>
    PROVE  \E b \in a + 1 .. Len(text) :
               /\ Head(pieces) = SubSeq(text, a + 1, b) /\ Len(Head(pieces)) = b - a
               /\ Cuts(Tail(pieces), text, b)
               /\ \A k \in a .. b - 1 : Cuts(<<SubSeq(text, k + 1, b)>> \o Tail(pieces), text, k)
<1>1. PICK c \in [0 .. Len(pieces) -> 0 .. Len(text)] :
          /\ c[0] = a /\ c[Len(pieces)] = Len(text)
          /\ \A i \in 1 .. Len(pieces) : c[i - 1] < c[i] /\ pieces[i] = SubSeq(text, c[i - 1] + 1, c[i])
    BY DEF Cuts
<1>2. /\ Len(pieces) \in Nat \ {0} /\ Len(text) \in Nat /\ pieces \in Seq(Texts)
      /\ Head(pieces) = pieces[1] /\ Tail(pieces) \in Seq(Texts) /\ Len(Tail(pieces)) = Len(pieces) - 1
      /\ \A i \in 1 .. Len(pieces) - 1 : Tail(pieces)[i] = pieces[i + 1]
    BY DEF Cuts, Texts
<1>3. PICK b : b = c[1]
    OBVIOUS
<1>4. c[0] < c[1] /\ pieces[1] = SubSeq(text, c[0] + 1, c[1]) /\ c[1] \in 0 .. Len(text)
    BY <1>1, <1>2
<1>5. b \in a + 1 .. Len(text) /\ a \in 0 .. Len(text) /\ b \in a .. Len(text)
    BY <1>1, <1>2, <1>3, <1>4
<1>6. Head(pieces) = SubSeq(text, a + 1, b) /\ Len(Head(pieces)) = b - a
    BY <1>1, <1>2, <1>3, <1>4, <1>5, Part
<1>7. Cuts(Tail(pieces), text, b)
    <2>1. PICK d : d = [i \in 0 .. Len(pieces) - 1 |-> c[i + 1]]
        OBVIOUS
    <2>2. d \in [0 .. Len(pieces) - 1 -> 0 .. Len(text)]
        BY <1>2, <2>1
    <2>3. d[0] = b /\ d[Len(pieces) - 1] = Len(text)
        BY <1>1, <1>2, <1>3, <2>1
    <2>4. ASSUME NEW i \in 1 .. Len(pieces) - 1
          PROVE  d[i - 1] < d[i] /\ Tail(pieces)[i] = SubSeq(text, d[i - 1] + 1, d[i])
        <3>1. d[i - 1] = c[i] /\ d[i] = c[i + 1] /\ i + 1 \in 1 .. Len(pieces) /\ (i + 1) - 1 = i
            BY <1>2, <2>1
        <3>2. c[i] < c[i + 1] /\ pieces[i + 1] = SubSeq(text, c[i] + 1, c[i + 1])
            BY <1>1, <3>1
        <3> QED
            BY <1>2, <3>1, <3>2
    <2> QED
        BY <1>2, <2>2, <2>3, <2>4 DEF Cuts
<1>8. ASSUME NEW k \in a .. b - 1 PROVE Cuts(<<SubSeq(text, k + 1, b)>> \o Tail(pieces), text, k)
    <2>1. k \in 0 .. Len(text) /\ k < b
        BY <1>2, <1>5
    <2> QED
        BY <1>7, <2>1, CutsMore
<1> QED
    BY <1>5, <1>6, <1>7, <1>8

-----------------------------------------------------------------------------
\* What is there to be read is some of the text behind what was read, and all of
\* that is when nothing is there.
LEMMA Fills ==
    ASSUME NEW text \in Texts, NEW at, NEW s, StreamAt(s, text, at), NEW size \in Nat \ {0}
    PROVE  /\ at \in 0 .. Len(text)
           /\ \E upto \in at .. Len(text) :
                  /\ Filled(s, size).buf = SubSeq(text, at + 1, upto)
                  /\ Cuts(Filled(s, size).net, text, upto)
                  /\ at < Len(text) => at < upto
<1>1. at \in 0 .. Len(text) /\ Len(text) \in Nat
    BY DEF StreamAt, Texts
<1>2. PICK e \in at .. Len(text) : s.buf = SubSeq(text, at + 1, e) /\ Cuts(s.net, text, e)
    BY DEF StreamAt
<1>3. Len(s.buf) = e - at /\ s.buf \in Texts
    BY <1>1, <1>2, Part
<1>4. CASE s.buf # <<>> \/ s.net = <<>>
    <2>1. Filled(s, size) = s
        BY <1>4 DEF Filled
    <2>2. e = at => s.buf = <<>>
        BY <1>3 DEF Texts
    <2>3. s.net = <<>> => e = Len(text)
        BY <1>2, CutsEnd
    <2>4. at < Len(text) => at < e
        BY <1>1, <1>4, <2>2, <2>3
    <2> QED
        BY <1>1, <1>2, <2>1, <2>4
<1>5. CASE ~(s.buf # <<>> \/ s.net = <<>>)
    <2>1. PICK room : room = IF size < ReadBuffer THEN ReadBuffer ELSE size
        OBVIOUS
    <2>2. room \in Nat \ {0}
        BY <2>1, BuffersAssumption
    <2>3. Filled(s, size) = [buf |-> Arrived(s.net, room), net |-> Behind(s.net, room)]
        BY <1>5, <2>1 DEF Filled
    <2>4. e = at
        <3>1. Len(s.buf) = 0
            BY <1>5
        <3> QED
            BY <1>1, <1>3, <3>1
    <2>5. PICK pieces : pieces = s.net
        OBVIOUS
    <2>6. Cuts(pieces, text, at) /\ pieces # <<>>
        BY <1>2, <1>5, <2>4, <2>5
    <2>7. PICK b \in at + 1 .. Len(text) :
              /\ Head(pieces) = SubSeq(text, at + 1, b) /\ Len(Head(pieces)) = b - at
              /\ Cuts(Tail(pieces), text, b)
              /\ \A k \in at .. b - 1 : Cuts(<<SubSeq(text, k + 1, b)>> \o Tail(pieces), text, k)
        BY <2>6, CutsHead
    <2>8. PICK n : n = Least(room, b - at)
        OBVIOUS
    <2>9. n \in 1 .. b - at /\ b \in at .. Len(text) /\ at + n \in at + 1 .. Len(text)
        BY <1>1, <2>2, <2>8 DEF Least
    <2>10. Arrived(pieces, room) = SubSeq(text, at + 1, at + n)
        <3>1. Arrived(pieces, room) = SubSeq(SubSeq(text, at + 1, b), 1, n)
            BY <2>7, <2>8 DEF Arrived
        <3>2. n \in 0 .. b - at
            BY <2>9, <1>1
        <3> QED
            BY <1>1, <2>9, <3>1, <3>2, PartFromStart
    <2>11. Cuts(Behind(pieces, room), text, at + n)
        <3>1. CASE room >= b - at
            <4>1. Behind(pieces, room) = Tail(pieces) /\ at + n = b
                BY <1>1, <2>2, <2>7, <2>8, <2>9, <3>1 DEF Behind, Least
            <4> QED
                BY <2>7, <4>1
        <3>2. CASE ~(room >= b - at)
            <4>1. n = room /\ room < b - at
                BY <1>1, <2>2, <2>8, <2>9, <3>2 DEF Least
            <4>2. Behind(pieces, room) = <<From(Head(pieces), room + 1)>> \o Tail(pieces)
                BY <2>7, <3>2 DEF Behind
            <4>3. From(Head(pieces), room + 1) = SubSeq(SubSeq(text, at + 1, b), room + 1, b - at)
                BY <2>7 DEF From
            <4>4. room \in 0 .. b - at /\ b - at \in room .. b - at
                BY <1>1, <2>2, <4>1
            <4>5. SubSeq(SubSeq(text, at + 1, b), room + 1, b - at)
                      = SubSeq(text, at + room + 1, at + (b - at))
                BY <1>1, <2>9, <4>4, PartOfPart
            <4>6. at + room + 1 = (at + n) + 1 /\ at + (b - at) = b /\ at + n \in at .. b - 1
                BY <1>1, <2>2, <4>1
            <4>7. From(Head(pieces), room + 1) = SubSeq(text, (at + n) + 1, b)
                BY <4>3, <4>5, <4>6
            <4>8. Behind(pieces, room) = <<SubSeq(text, (at + n) + 1, b)>> \o Tail(pieces)
                BY <4>2, <4>7
            <4>9. Cuts(<<SubSeq(text, (at + n) + 1, b)>> \o Tail(pieces), text, at + n)
                BY <2>7, <4>6
            <4> QED
                BY <4>8, <4>9
        <3> QED
            BY <3>1, <3>2
    <2>12. at + n \in at .. Len(text) /\ at + n # at
        BY <1>1, <2>9
    <2> QED
        <3>1. /\ Filled(s, size).buf = SubSeq(text, at + 1, at + n)
              /\ Cuts(Filled(s, size).net, text, at + n)
            <4>1. /\ Filled(s, size).buf = Arrived(pieces, room)
                  /\ Filled(s, size).net = Behind(pieces, room)
                BY <2>3, <2>5
            <4> QED
                BY ONLY <2>10, <2>11, <4>1
        <3> QED
            BY ONLY <1>1, <2>12, <3>1
<1> QED
    BY <1>4, <1>5

\* A read returns some of what comes next, and nothing only behind the end.
LEMMA Reads ==
    ASSUME NEW text \in Texts, NEW at, NEW s, StreamAt(s, text, at), NEW size \in Nat \ {0}
    PROVE  /\ at \in 0 .. Len(text)
           /\ \E n \in 0 .. size :
                  /\ at + n \in 0 .. Len(text)
                  /\ Recv(s, size).got = SubSeq(text, at + 1, at + n)
                  /\ StreamAt(Recv(s, size).s, text, at + n)
                  /\ n = 0 <=> at = Len(text)
<1>1. at \in 0 .. Len(text) /\ Len(text) \in Nat
    BY DEF StreamAt, Texts
<1>2. PICK f : f = Filled(s, size)
    OBVIOUS
<1>3. PICK e \in at .. Len(text) :
          f.buf = SubSeq(text, at + 1, e) /\ Cuts(f.net, text, e) /\ (at < Len(text) => at < e)
    <2>1. PICK e \in at .. Len(text) :
              /\ Filled(s, size).buf = SubSeq(text, at + 1, e)
              /\ Cuts(Filled(s, size).net, text, e)
              /\ at < Len(text) => at < e
        BY Fills
    <2> QED
        BY <1>2, <2>1
<1>4. f.buf \in Texts /\ Len(f.buf) = e - at
    BY <1>1, <1>3, Part
<1>5. PICK n : n = Least(size, e - at)
    OBVIOUS
<1>6. /\ n \in 0 .. size /\ n \in 0 .. e - at /\ at + n \in 0 .. Len(text) /\ e \in at + n .. Len(text)
      /\ n = 0 <=> at = Len(text)
    BY <1>1, <1>3, <1>5 DEF Least
<1>7. PICK r : r = [got |-> SubSeq(f.buf, 1, n), s |-> [buf |-> From(f.buf, size + 1), net |-> f.net]]
    OBVIOUS
<1>8. Recv(s, size) = r
    BY <1>2, <1>4, <1>5, <1>7 DEF Recv
<1>9. r.got = SubSeq(text, at + 1, at + n)
    <2>1. r.got = SubSeq(SubSeq(text, at + 1, e), 1, n)
        BY <1>3, <1>7
    <2> QED
        BY <1>1, <1>3, <1>6, <2>1, PartFromStart
<1>10. r.s.buf = SubSeq(text, (at + n) + 1, e)
    <2>1. r.s.buf = SubSeq(f.buf, size + 1, e - at)
        BY <1>4, <1>7 DEF From
    <2>2. CASE size <= e - at
        <3>1. n = size /\ size \in 0 .. e - at /\ e - at \in size .. e - at
            BY <1>1, <1>5, <2>2 DEF Least
        <3>2. SubSeq(SubSeq(text, at + 1, e), size + 1, e - at) = SubSeq(text, at + size + 1, at + (e - at))
            BY <1>1, <3>1, PartOfPart
        <3>3. at + size + 1 = (at + n) + 1 /\ at + (e - at) = e
            BY <1>1, <3>1
        <3> QED
            BY <1>3, <2>1, <3>2, <3>3
    <2>3. CASE ~(size <= e - at)
        <3>1. n = e - at /\ e - at < size + 1 /\ e < (at + n) + 1
            BY <1>1, <1>5, <2>3 DEF Least
        <3>2. size + 1 \in Int /\ e - at \in Int /\ e \in Int /\ (at + n) + 1 \in Int
            BY <1>1, <1>6
        <3>3. SubSeq(f.buf, size + 1, e - at) = <<>>
            BY <3>1, <3>2, SubSeqEmpty
        <3>4. SubSeq(text, (at + n) + 1, e) = <<>>
            BY <3>1, <3>2, SubSeqEmpty
        <3> QED
            BY <2>1, <3>3, <3>4
    <2> QED
        BY <2>2, <2>3
<1>11. StreamAt(r.s, text, at + n)
    <2>1. r.s.net = f.net
        BY <1>7
    <2> QED
        BY <1>3, <1>6, <1>10, <2>1 DEF StreamAt
<1> QED
    BY <1>1, <1>6, <1>8, <1>9, <1>11

-----------------------------------------------------------------------------
(***************************************************************************)
(* Two streams that bring the same text in pieces of their own.            *)
(***************************************************************************)
SamePlace(s, t, text) == \E at : StreamAt(s, text, at) /\ StreamAt(t, text, at)

SameCharacters(r, q, text) == r.on = q.on /\ r.text = q.text /\ SamePlace(r.s, q.s, text)

LEMMA SameCharacter ==
    ASSUME NEW text \in Texts, NEW s, NEW t, SamePlace(s, t, text)
    PROVE  Recv(s, 1).got = Recv(t, 1).got /\ SamePlace(Recv(s, 1).s, Recv(t, 1).s, text)
<1>1. PICK at : StreamAt(s, text, at) /\ StreamAt(t, text, at)
    BY DEF SamePlace
<1>2. PICK one \in Nat \ {0} : one = 1
    OBVIOUS
<1>3. PICK n \in 0 .. one :
          /\ at + n \in 0 .. Len(text)
          /\ Recv(s, one).got = SubSeq(text, at + 1, at + n)
          /\ StreamAt(Recv(s, one).s, text, at + n)
          /\ n = 0 <=> at = Len(text)
    BY <1>1, Reads
<1>4. PICK m \in 0 .. one :
          /\ at + m \in 0 .. Len(text)
          /\ Recv(t, one).got = SubSeq(text, at + 1, at + m)
          /\ StreamAt(Recv(t, one).s, text, at + m)
          /\ m = 0 <=> at = Len(text)
    BY <1>1, Reads
<1>5. n = m
    BY <1>2, <1>3, <1>4
<1>6. Recv(s, one).got = Recv(t, one).got /\ SamePlace(Recv(s, one).s, Recv(t, one).s, text)
    BY <1>3, <1>4, <1>5 DEF SamePlace
<1> QED
    BY <1>2, <1>6

LEMMA NextCharacter ==
    ASSUME NEW text \in Texts, NEW r, NEW q, SameCharacters(r, q, text)
    PROVE  SameCharacters(ReadCharacter(r), ReadCharacter(q), text)
<1>1. r.on = q.on /\ r.text = q.text /\ SamePlace(r.s, q.s, text)
    BY DEF SameCharacters
<1>2. CASE ~r.on
    <2>1. ReadCharacter(r) = r /\ ReadCharacter(q) = q
        BY <1>1, <1>2 DEF ReadCharacter
    <2> QED
        BY <2>1
<1>3. CASE r.on
    <2>1. PICK a : a = Recv(r.s, 1)
        OBVIOUS
    <2>2. PICK b : b = Recv(q.s, 1)
        OBVIOUS
    <2>3. a.got = b.got /\ SamePlace(a.s, b.s, text)
        BY <1>1, <2>1, <2>2, SameCharacter
    <2>4. ReadCharacter(r) = [s |-> a.s, text |-> r.text \o a.got,
                              on |-> a.got # <<>> /\ ~EndsWithCrlf(r.text \o a.got)]
        BY <1>3, <2>1, Zenon DEF ReadCharacter
    <2>5. ReadCharacter(q) = [s |-> b.s, text |-> q.text \o b.got,
                              on |-> b.got # <<>> /\ ~EndsWithCrlf(q.text \o b.got)]
        BY <1>1, <1>3, <2>2, Zenon DEF ReadCharacter
    <2>6. PICK x : x = r.text \o a.got
        OBVIOUS
    <2>7. PICK e : e = (a.got # <<>> /\ ~EndsWithCrlf(x))
        OBVIOUS
    <2>8. ReadCharacter(r) = [s |-> a.s, text |-> x, on |-> e]
        BY <2>4, <2>6, <2>7, Zenon
    <2>9. ReadCharacter(q) = [s |-> b.s, text |-> x, on |-> e]
        BY <1>1, <2>3, <2>5, <2>6, <2>7, Zenon
    <2> QED
        BY <2>3, <2>8, <2>9 DEF SameCharacters
<1> QED
    BY <1>2, <1>3

\* The same line, wherever the pieces end.
LEMMA SameLine ==
    ASSUME NEW text \in Texts, NEW s, NEW t, SamePlace(s, t, text)
    PROVE  /\ GetLine(s).text = GetLine(t).text /\ GetLine(s).ok = GetLine(t).ok
           /\ SamePlace(GetLine(s).s, GetLine(t).s, text)
<1>1. PICK a : a = [s |-> s, text |-> <<>>, on |-> TRUE]
    OBVIOUS
<1>2. PICK b : b = [s |-> t, text |-> <<>>, on |-> TRUE]
    OBVIOUS
<1>3. MaxLine \in Nat
    BY LimitsAssumption
<1>4. PICK f : /\ f = [n \in 0 .. MaxLine |-> IF n = 0 THEN a ELSE ReadCharacter(f[n - 1])]
               /\ Loop(a, ReadCharacter, MaxLine) = f[MaxLine]
    BY <1>3, CharacterRounds
<1>5. PICK g : /\ g = [n \in 0 .. MaxLine |-> IF n = 0 THEN b ELSE ReadCharacter(g[n - 1])]
               /\ Loop(b, ReadCharacter, MaxLine) = g[MaxLine]
    BY <1>3, CharacterRounds
<1> DEFINE Same == {n \in 0 .. MaxLine : SameCharacters(f[n], g[n], text)}
<1>6. 0 \in Same
    <2>1. f[0] = a /\ g[0] = b /\ 0 \in 0 .. MaxLine
        BY <1>3, <1>4, <1>5
    <2>2. SameCharacters(a, b, text)
        BY <1>1, <1>2 DEF SameCharacters
    <2> QED
        BY <2>1, <2>2
<1>7. ASSUME NEW n \in 0 .. MaxLine - 1, n \in Same PROVE n + 1 \in Same
    <2>1. n + 1 \in 0 .. MaxLine /\ n + 1 # 0 /\ (n + 1) - 1 = n
        BY <1>3
    <2>2. f[n + 1] = ReadCharacter(f[n])
        BY <1>4, <2>1
    <2>3. g[n + 1] = ReadCharacter(g[n])
        BY <1>5, <2>1
    <2>4. SameCharacters(f[n], g[n], text)
        BY <1>7
    <2>5. SameCharacters(f[n + 1], g[n + 1], text)
        BY <2>2, <2>3, <2>4, NextCharacter
    <2> QED
        BY <2>1, <2>5
<1>8. MaxLine \in Same
    <2>1. \A n \in 0 .. MaxLine - 1 : n \in Same => n + 1 \in Same
        BY <1>7
    <2> HIDE DEF Same
    <2>2. MaxLine \in 0 .. MaxLine
        BY <1>3
    <2> QED
        BY <1>3, <1>6, <2>1, <2>2, Upwards
<1>9. SameCharacters(f[MaxLine], g[MaxLine], text)
    BY <1>8
<1>10. GetLine(s) = [s |-> f[MaxLine].s, text |-> f[MaxLine].text, ok |-> EndsWithCrlf(f[MaxLine].text)]
    BY <1>1, <1>4, Zenon DEF GetLine
<1>11. GetLine(t) = [s |-> g[MaxLine].s, text |-> g[MaxLine].text, ok |-> EndsWithCrlf(g[MaxLine].text)]
    BY <1>2, <1>5, Zenon DEF GetLine
<1>12. PICK x : x = f[MaxLine]
    OBVIOUS
<1>13. PICK y : y = g[MaxLine]
    OBVIOUS
<1>14. x.text = y.text /\ SamePlace(x.s, y.s, text)
    BY <1>9, <1>12, <1>13 DEF SameCharacters
<1>15. PICK e : e = EndsWithCrlf(x.text)
    OBVIOUS
<1>16. GetLine(s) = [s |-> x.s, text |-> x.text, ok |-> e]
    BY <1>10, <1>12, <1>15, Zenon
<1>17. GetLine(t) = [s |-> y.s, text |-> x.text, ok |-> e]
    BY <1>11, <1>13, <1>14, <1>15, Zenon
<1> QED
    BY <1>14, <1>16, <1>17

-----------------------------------------------------------------------------
(***************************************************************************)
(* The headers.                                                            *)
(***************************************************************************)
SameHeaders(r, q, text) ==
    r.on = q.on /\ r.ok = q.ok /\ r.headers = q.headers /\ SamePlace(r.s, q.s, text)

LEMMA NextHeader ==
    ASSUME NEW text \in Texts, NEW r, NEW q, SameHeaders(r, q, text)
    PROVE  SameHeaders(ReadHeader(r), ReadHeader(q), text)
<1>1. r.on = q.on /\ r.headers = q.headers /\ SamePlace(r.s, q.s, text)
    BY DEF SameHeaders
<1>2. CASE ~r.on
    <2>1. ReadHeader(r) = r /\ ReadHeader(q) = q
        BY <1>1, <1>2 DEF ReadHeader
    <2> QED
        BY <2>1
<1>3. CASE r.on
    <2>1. PICK a : a = GetLine(r.s)
        OBVIOUS
    <2>2. PICK b : b = GetLine(q.s)
        OBVIOUS
    <2>3. a.text = b.text /\ a.ok = b.ok /\ SamePlace(a.s, b.s, text)
        BY <1>1, <2>1, <2>2, SameLine
    <2>4. PICK h : h = ParseHeader(Line(a.text))
        OBVIOUS
    <2>5. PICK blank : blank = (a.ok /\ a.text = Crlf)
        OBVIOUS
    <2>6. PICK more : more = (a.ok /\ ~blank /\ h.ok)
        OBVIOUS
    <2>7. PICK hs : hs = IF more THEN Append(r.headers, h) ELSE r.headers
        OBVIOUS
    <2>8. ReadHeader(r) = [s |-> a.s, on |-> more, ok |-> blank, headers |-> hs]
        BY <1>3, <2>1, <2>4, <2>5, <2>6, <2>7, Zenon DEF ReadHeader
    <2>9. ReadHeader(q) = [s |-> b.s, on |-> more, ok |-> blank, headers |-> hs]
        <3>1. h = ParseHeader(Line(b.text)) /\ blank = (b.ok /\ b.text = Crlf)
              /\ more = (b.ok /\ ~blank /\ h.ok) /\ hs = IF more THEN Append(q.headers, h) ELSE q.headers
            BY <1>1, <2>3, <2>4, <2>5, <2>6, <2>7, Zenon
        <3> QED
            BY <1>1, <1>3, <2>2, <3>1, Zenon DEF ReadHeader
    <2> QED
        BY <2>3, <2>8, <2>9 DEF SameHeaders
<1> QED
    BY <1>2, <1>3

LEMMA SameHead ==
    ASSUME NEW text \in Texts, NEW s, NEW t, SamePlace(s, t, text)
    PROVE  SameHeaders(ReadHeaders(s), ReadHeaders(t), text)
<1>1. PICK a : a = [s |-> s, on |-> TRUE, ok |-> FALSE, headers |-> <<>>]
    OBVIOUS
<1>2. PICK b : b = [s |-> t, on |-> TRUE, ok |-> FALSE, headers |-> <<>>]
    OBVIOUS
<1>3. PICK most \in Nat : most = MaxHeaders + 1
    BY LimitsAssumption
<1>4. PICK f : /\ f = [n \in 0 .. most |-> IF n = 0 THEN a ELSE ReadHeader(f[n - 1])]
               /\ Loop(a, ReadHeader, most) = f[most]
    BY HeaderRounds
<1>5. PICK g : /\ g = [n \in 0 .. most |-> IF n = 0 THEN b ELSE ReadHeader(g[n - 1])]
               /\ Loop(b, ReadHeader, most) = g[most]
    BY HeaderRounds
<1> DEFINE Same == {n \in 0 .. most : SameHeaders(f[n], g[n], text)}
<1>6. 0 \in Same
    <2>1. f[0] = a /\ g[0] = b /\ 0 \in 0 .. most
        BY <1>4, <1>5
    <2>2. SameHeaders(a, b, text)
        BY <1>1, <1>2 DEF SameHeaders
    <2> QED
        BY <2>1, <2>2
<1>7. ASSUME NEW n \in 0 .. most - 1, n \in Same PROVE n + 1 \in Same
    <2>1. n + 1 \in 0 .. most /\ n + 1 # 0 /\ (n + 1) - 1 = n
        OBVIOUS
    <2>2. f[n + 1] = ReadHeader(f[n])
        BY <1>4, <2>1
    <2>3. g[n + 1] = ReadHeader(g[n])
        BY <1>5, <2>1
    <2>4. SameHeaders(f[n], g[n], text)
        BY <1>7
    <2>5. SameHeaders(f[n + 1], g[n + 1], text)
        BY <2>2, <2>3, <2>4, NextHeader
    <2> QED
        BY <2>1, <2>5
<1>8. most \in Same
    <2>1. \A n \in 0 .. most - 1 : n \in Same => n + 1 \in Same
        BY <1>7
    <2> HIDE DEF Same
    <2>2. most \in 0 .. most
        OBVIOUS
    <2> QED
        BY <1>6, <2>1, <2>2, Upwards
<1>9. SameHeaders(f[most], g[most], text)
    BY <1>8
<1>10. ReadHeaders(s) = f[most] /\ ReadHeaders(t) = g[most]
    BY <1>1, <1>2, <1>3, <1>4, <1>5, Zenon DEF ReadHeaders
<1> QED
    BY <1>9, <1>10

-----------------------------------------------------------------------------
(***************************************************************************)
(* The content: as many characters of the text as its length says.         *)
(***************************************************************************)
\* One part and the part behind it.
LEMMA Joined ==
    ASSUME NEW text \in Texts, NEW a \in 0 .. Len(text), NEW b \in a .. Len(text), NEW c \in b .. Len(text)
    PROVE  SubSeq(text, a + 1, b) \o SubSeq(text, b + 1, c) = SubSeq(text, a + 1, c)
<1>0. Len(text) \in Nat /\ b \in 0 .. Len(text) /\ c \in a .. Len(text)
    BY DEF Texts
<1>1. PICK p : p = SubSeq(text, a + 1, b)
    OBVIOUS
<1>2. PICK q : q = SubSeq(text, b + 1, c)
    OBVIOUS
<1>3. PICK r : r = SubSeq(text, a + 1, c)
    OBVIOUS
<1>4. p \in Texts /\ Len(p) = b - a /\ \A i \in 1 .. b - a : p[i] = text[a + i]
    BY <1>1, Part
<1>5. q \in Texts /\ Len(q) = c - b /\ \A i \in 1 .. c - b : q[i] = text[b + i]
    BY <1>0, <1>2, Part
<1>6. r \in Texts /\ Len(r) = c - a /\ \A i \in 1 .. c - a : r[i] = text[a + i]
    BY <1>0, <1>3, Part
<1>7. /\ p \o q \in Seq(Symbols) /\ Len(p \o q) = Len(p) + Len(q)
      /\ \A i \in 1 .. Len(p) + Len(q) : (p \o q)[i] = IF i <= Len(p) THEN p[i] ELSE q[i - Len(p)]
    <2>1. p \in Seq(Symbols) /\ q \in Seq(Symbols)
        BY <1>4, <1>5 DEF Texts
    <2> QED
        BY ONLY <2>1, ConcatProperties
<1>8. PICK pq : pq = p \o q
    OBVIOUS
<1>9. Len(pq) = Len(r) /\ pq \in Seq(Symbols)
    <2>1. Len(pq) = Len(p) + Len(q) /\ pq \in Seq(Symbols)
        BY <1>7, <1>8
    <2>2. (b - a) + (c - b) = c - a
        BY <1>0
    <2> QED
        BY <1>4, <1>5, <1>6, <2>1, <2>2
<1>10. ASSUME NEW i \in 1 .. Len(r) PROVE pq[i] = r[i]
    <2>1. i \in 1 .. c - a /\ i \in 1 .. Len(p) + Len(q)
        BY <1>0, <1>4, <1>5, <1>6
    <2>2. CASE i <= b - a
        <3>1. i \in 1 .. b - a
            BY <2>1, <2>2
        <3> QED
            BY <1>4, <1>6, <1>7, <1>8, <2>1, <3>1
    <2>3. CASE ~(i <= b - a)
        <3>1. i - (b - a) \in 1 .. c - b /\ b + (i - (b - a)) = a + i
            BY <1>0, <2>1, <2>3
        <3>2. pq[i] = q[i - (b - a)]
            BY <1>4, <1>7, <1>8, <2>1, <2>3
        <3> QED
            BY <1>5, <1>6, <2>1, <3>1, <3>2
    <2> QED
        BY <2>2, <2>3
<1>11. pq = r
    <2>1. r \in Seq(Symbols)
        BY <1>6 DEF Texts
    <2> QED
        BY <1>9, <1>10, <2>1, SeqEqual
<1> QED
    BY <1>1, <1>2, <1>3, <1>8, <1>11

\* What has been read of len characters behind at, in so many rounds at the latest.
ReadSoFar(r, text, at, len, rounds) ==
    \E k \in 0 .. len :
        /\ at + k \in 0 .. Len(text) /\ r.left = len - k
        /\ r.body = SubSeq(text, at + 1, at + k)
        /\ StreamAt(r.s, text, at + k)
        /\ k = len \/ at + k = Len(text) \/ k >= rounds

LEMMA NextSome ==
    ASSUME NEW text \in Texts, NEW at \in 0 .. Len(text), NEW len \in Nat, NEW n \in Nat,
           NEW r, ReadSoFar(r, text, at, len, n)
    PROVE  ReadSoFar(ReadSome(r), text, at, len, n + 1)
<1>0. Len(text) \in Nat
    BY DEF Texts
<1>1. PICK k \in 0 .. len :
          /\ at + k \in 0 .. Len(text) /\ r.left = len - k
          /\ r.body = SubSeq(text, at + 1, at + k)
          /\ StreamAt(r.s, text, at + k)
          /\ k = len \/ at + k = Len(text) \/ k >= n
    BY DEF ReadSoFar
<1>2. CASE r.left = 0
    <2>1. ReadSome(r) = r
        BY <1>2, Zenon DEF ReadSome
    <2>2. k = len
        BY <1>1, <1>2
    <2> QED
        BY <1>1, <2>1, <2>2 DEF ReadSoFar
<1>3. CASE r.left # 0
    <2>1. PICK size : size = Least(r.left, RecvBuffer)
        OBVIOUS
    <2>2. size \in Nat \ {0} /\ size <= len - k
        <3>1. RecvBuffer \in Nat \ {0}
            BY BuffersAssumption
        <3>2. r.left = len - k /\ len - k \in Nat \ {0}
            BY <1>1, <1>3
        <3> QED
            BY <2>1, <3>1, <3>2 DEF Least
    <2>3. PICK a : a = at + k
        OBVIOUS
    <2>4. PICK some : some = Recv(r.s, size)
        OBVIOUS
    <2>5. PICK m \in 0 .. size :
              /\ a + m \in 0 .. Len(text)
              /\ some.got = SubSeq(text, a + 1, a + m)
              /\ StreamAt(some.s, text, a + m)
              /\ m = 0 <=> a = Len(text)
        <3>1. StreamAt(r.s, text, a)
            BY <1>1, <2>3
        <3> QED
            <4>1. /\ a \in 0 .. Len(text)
                  /\ \E m \in 0 .. size :
                        /\ a + m \in 0 .. Len(text)
                        /\ Recv(r.s, size).got = SubSeq(text, a + 1, a + m)
                        /\ StreamAt(Recv(r.s, size).s, text, a + m)
                        /\ m = 0 <=> a = Len(text)
                BY ONLY <2>2, <3>1, text \in Texts, Reads
            <4> QED
                BY ONLY <2>4, <4>1
    <2>6. a \in 0 .. Len(text) /\ a + m \in a .. Len(text)
        BY <1>0, <1>1, <2>3, <2>5
    <2>7. Len(some.got) = m /\ some.got \in Texts
        <3>1. /\ SubSeq(text, a + 1, a + m) \in Texts
              /\ Len(SubSeq(text, a + 1, a + m)) = (a + m) - a
            BY <2>6, Part
        <3>2. (a + m) - a = m
            BY <1>0, <2>5, <2>6
        <3> QED
            BY <2>5, <3>1, <3>2
    <2>8. CASE some.got = <<>>
        <3>1. ReadSome(r) = r
            BY <2>1, <2>4, <2>8, Zenon DEF ReadSome
        <3>2. m = 0
            BY <2>7, <2>8
        <3>3. at + k = Len(text)
            BY <2>3, <2>5, <3>2
        <3> QED
            BY <1>1, <3>1, <3>3 DEF ReadSoFar
    <2>9. CASE some.got # <<>>
        <3>1. m # 0
            BY <2>7, <2>9 DEF Texts
        <3>2. PICK next : next = [s |-> some.s, left |-> r.left - m, body |-> r.body \o some.got]
            OBVIOUS
        <3>3. ReadSome(r) = next
            <4>1. r.left - Len(some.got) = r.left - m
                BY <2>7
            <4>2. ReadSome(r) = [s |-> some.s, left |-> r.left - Len(some.got), body |-> r.body \o some.got]
                BY <1>3, <2>1, <2>4, <2>9, Zenon DEF ReadSome
            <4> QED
                BY <3>2, <4>1, <4>2, Zenon
        <3>4. PICK j : j = k + m
            OBVIOUS
        <3>5. j \in 0 .. len /\ at + j \in 0 .. Len(text) /\ at + j = a + m
            BY <1>0, <1>1, <2>2, <2>3, <2>5, <3>4
        <3>6. next.left = len - j
            BY <1>1, <2>5, <3>2, <3>4
        <3>7. next.body = SubSeq(text, at + 1, at + j)
            <4>1. a \in at .. Len(text) /\ a + m \in a .. Len(text)
                BY <1>1, <2>3, <2>6
            <4>2. SubSeq(text, at + 1, a) \o SubSeq(text, a + 1, a + m) = SubSeq(text, at + 1, a + m)
                BY <4>1, Joined
            <4>3. next.body = r.body \o some.got /\ r.body = SubSeq(text, at + 1, a)
                BY <1>1, <2>3, <3>2
            <4> QED
                BY <2>5, <3>5, <4>2, <4>3
        <3>8. StreamAt(next.s, text, at + j)
            BY <2>5, <3>2, <3>5
        <3>9. j = len \/ at + j = Len(text) \/ j >= n + 1
            <4>1. CASE k = len
                BY <1>1, <1>3, <4>1
            <4>2. CASE at + k = Len(text)
                BY <2>3, <2>5, <3>1, <4>2
            <4>3. CASE k >= n
                BY <3>1, <3>4, <4>3
            <4> QED
                BY <1>1, <4>1, <4>2, <4>3
        <3> QED
            BY <3>3, <3>5, <3>6, <3>7, <3>8, <3>9 DEF ReadSoFar
    <2> QED
        BY <2>8, <2>9
<1> QED
    BY <1>2, <1>3

\* All of the content when the text has it, else no content.
LEMMA ContentRead ==
    ASSUME NEW text \in Texts, NEW at, NEW s, StreamAt(s, text, at), NEW len \in Nat
    PROVE  \E k \in 0 .. len :
               /\ at + k \in 0 .. Len(text) /\ (k = len \/ at + k = Len(text))
               /\ Content(s, len).ok = (k = len)
               /\ Content(s, len).body = SubSeq(text, at + 1, at + k)
               /\ StreamAt(Content(s, len).s, text, at + k)
<1>0. Len(text) \in Nat /\ at \in 0 .. Len(text)
    BY DEF Texts, StreamAt
<1>1. PICK a : a = [s |-> s, left |-> len, body |-> <<>>]
    OBVIOUS
<1>2. PICK f : /\ f = [n \in 0 .. len |-> IF n = 0 THEN a ELSE ReadSome(f[n - 1])]
               /\ Loop(a, ReadSome, len) = f[len]
    BY SomeRounds
<1> DEFINE Good == {n \in 0 .. len : ReadSoFar(f[n], text, at, len, n)}
<1>3. 0 \in Good
    <2>1. f[0] = a /\ 0 \in 0 .. len
        BY <1>2
    <2>2. PICK k \in 0 .. len : k = 0
        OBVIOUS
    <2>3. at + k = at /\ at + k \in 0 .. Len(text) /\ at + k < at + 1 /\ len = len - k
        BY <1>0, <2>2
    <2>4. SubSeq(text, at + 1, at + k) = <<>>
        <3>1. at + 1 \in Int /\ at + k \in Int
            BY <1>0, <2>3
        <3> QED
            BY <2>3, <3>1, SubSeqEmpty
    <2>5. a.s = s /\ a.left = len /\ a.body = <<>>
        BY <1>1
    <2>6. ReadSoFar(a, text, at, len, 0)
        BY <2>2, <2>3, <2>4, <2>5 DEF ReadSoFar
    <2> QED
        BY <2>1, <2>6
<1>4. ASSUME NEW n \in 0 .. len - 1, n \in Good PROVE n + 1 \in Good
    <2>1. n + 1 \in 0 .. len /\ n + 1 # 0 /\ (n + 1) - 1 = n /\ n \in Nat
        OBVIOUS
    <2>2. f[n + 1] = ReadSome(f[n])
        BY <1>2, <2>1
    <2>3. ReadSoFar(f[n], text, at, len, n)
        BY <1>4
    <2>4. ReadSoFar(f[n + 1], text, at, len, n + 1)
        BY <1>0, <2>1, <2>2, <2>3, NextSome
    <2> QED
        BY <2>1, <2>4
<1>5. len \in Good
    <2>1. \A n \in 0 .. len - 1 : n \in Good => n + 1 \in Good
        BY <1>4
    <2> HIDE DEF Good
    <2>2. len \in 0 .. len
        OBVIOUS
    <2> QED
        BY <1>3, <2>1, <2>2, Upwards
<1>6. PICK r : r = f[len]
    OBVIOUS
<1>7. PICK k \in 0 .. len :
          /\ at + k \in 0 .. Len(text) /\ r.left = len - k
          /\ r.body = SubSeq(text, at + 1, at + k)
          /\ StreamAt(r.s, text, at + k)
          /\ k = len \/ at + k = Len(text) \/ k >= len
    BY <1>5, <1>6 DEF ReadSoFar
<1>8. Content(s, len) = [ok |-> r.left = 0, body |-> r.body, s |-> r.s]
    BY <1>1, <1>2, <1>6, Zenon DEF Content
<1>9. (r.left = 0) = (k = len)
    BY <1>7
<1>10. PICK done : done = (k = len)
    OBVIOUS
<1>11. Content(s, len) = [ok |-> done, body |-> r.body, s |-> r.s]
    BY <1>8, <1>9, <1>10, Zenon
<1>12. k = len \/ at + k = Len(text)
    BY <1>7
<1>13. Content(s, len).ok = (k = len) /\ Content(s, len).body = r.body /\ Content(s, len).s = r.s
    <2>1. Content(s, len).ok = done /\ Content(s, len).body = r.body /\ Content(s, len).s = r.s
        BY <1>11
    <2> QED
        BY ONLY <1>10, <2>1, Zenon
<1> QED
    BY <1>7, <1>12, <1>13

LEMMA SameContent ==
    ASSUME NEW text \in Texts, NEW s, NEW t, SamePlace(s, t, text), NEW len \in Nat
    PROVE  /\ Content(s, len).ok = Content(t, len).ok
           /\ Content(s, len).body = Content(t, len).body
           /\ SamePlace(Content(s, len).s, Content(t, len).s, text)
<1>1. PICK at : StreamAt(s, text, at) /\ StreamAt(t, text, at)
    BY DEF SamePlace
<1>2. Len(text) \in Nat /\ at \in 0 .. Len(text)
    BY <1>1 DEF Texts, StreamAt
<1>3. PICK k \in 0 .. len :
          /\ at + k \in 0 .. Len(text) /\ (k = len \/ at + k = Len(text))
          /\ Content(s, len).ok = (k = len)
          /\ Content(s, len).body = SubSeq(text, at + 1, at + k)
          /\ StreamAt(Content(s, len).s, text, at + k)
    BY <1>1, ContentRead
<1>4. PICK m \in 0 .. len :
          /\ at + m \in 0 .. Len(text) /\ (m = len \/ at + m = Len(text))
          /\ Content(t, len).ok = (m = len)
          /\ Content(t, len).body = SubSeq(text, at + 1, at + m)
          /\ StreamAt(Content(t, len).s, text, at + m)
    BY <1>1, ContentRead
<1>5. k = m
    BY <1>2, <1>3, <1>4
<1>6. PICK x : x = Content(s, len)
    OBVIOUS
<1>7. PICK y : y = Content(t, len)
    OBVIOUS
<1>8. x.ok = (k = len) /\ y.ok = (k = len)
    BY <1>3, <1>4, <1>5, <1>6, <1>7, Zenon
<1>9. x.ok = y.ok
    BY <1>8, Zenon
<1>10. x.body = y.body /\ StreamAt(x.s, text, at + k) /\ StreamAt(y.s, text, at + k)
    BY <1>3, <1>4, <1>5, <1>6, <1>7
<1> QED
    BY <1>6, <1>7, <1>9, <1>10, Zenon DEF SamePlace

LEMMA NumberType ==
    ASSUME NEW text \in Seq(DecimalDigits)
    PROVE  Number(text) \in Nat
<1>1. \A k \in 1 .. Len(text) : HexValue(text[k]) \in Nat
    <2> SUFFICES ASSUME NEW k \in 1 .. Len(text) PROVE HexValue(text[k]) \in Nat
        OBVIOUS
    <2>1. PICK v \in 1 .. 10 : text[k] = HexDigits[v]
        BY DEF DecimalDigits
    <2>2. v - 1 \in 0 .. 15 /\ (v - 1) + 1 = v
        OBVIOUS
    <2>3. HexDigits[(v - 1) + 1] = text[k]
        BY <2>1, <2>2
    <2>4. \E w \in 0 .. 15 : HexDigits[w + 1] = text[k] \/ (w > 9 /\ LowerDigits[w - 9] = text[k])
        BY <2>2, <2>3
    <2>5. HexValue(text[k]) \in 0 .. 15
        BY <2>4, Zenon DEF HexValue
    <2> QED
        BY <2>5
<1> DEFINE After(f, m) == f = [k \in 0 .. m |-> IF k = 0 THEN 0 ELSE 10 * f[k - 1] + HexValue(text[k])]
           There == {m \in 0 .. Len(text) : \E f : After(f, m)}
<1>2. Len(text) \in Nat
    OBVIOUS
<1>3. 0 \in There
    <2>1. PICK f : f = [n \in 0 .. 0 |-> 0]
        OBVIOUS
    <2>2. After(f, 0)
        BY <2>1
    <2> QED
        BY <1>2, <2>2
<1>4. ASSUME NEW m \in 0 .. Len(text) - 1, m \in There PROVE m + 1 \in There
    <2>1. PICK f : After(f, m)
        BY <1>4
    <2>2. PICK g : g = [k \in 0 .. m + 1 |-> IF k <= m THEN f[k] ELSE 10 * f[m] + HexValue(text[m + 1])]
        OBVIOUS
    <2>3. ASSUME NEW k \in 0 .. m + 1 PROVE g[k] = IF k = 0 THEN 0 ELSE 10 * g[k - 1] + HexValue(text[k])
        <3>1. CASE k <= m
            <4>1. k \in 0 .. m /\ g[k] = f[k] /\ (k # 0 => g[k - 1] = f[k - 1])
                BY <1>2, <2>2, <3>1
            <4>2. f[k] = IF k = 0 THEN 0 ELSE 10 * f[k - 1] + HexValue(text[k])
                BY <2>1, <4>1
            <4> QED
                BY <4>1, <4>2
        <3>2. CASE ~(k <= m)
            <4>1. k = m + 1 /\ k # 0 /\ k - 1 = m /\ m \in 0 .. m + 1
                BY <1>2, <3>2
            <4>2. g[k] = 10 * f[m] + HexValue(text[m + 1])
                BY <2>2, <3>2
            <4>3. g[m] = f[m]
                BY <2>2, <4>1
            <4> QED
                BY <4>1, <4>2, <4>3
        <3> QED
            BY <3>1, <3>2
    <2>4. After(g, m + 1)
        BY <2>2, <2>3
    <2>5. m + 1 \in 0 .. Len(text)
        BY <1>2
    <2> QED
        BY <2>4, <2>5
<1>5. Len(text) \in There
    <2>1. Len(text) \in 0 .. Len(text) /\ \A m \in 0 .. Len(text) - 1 : m \in There => m + 1 \in There
        BY <1>2, <1>4
    <2> HIDE DEF There
    <2> QED
        BY <1>2, <1>3, <2>1, Upwards
<1>6. PICK first : first = CHOOSE f : After(f, Len(text))
    OBVIOUS
<1>7. After(first, Len(text))
    BY <1>5, <1>6
<1>8. Number(text) = first[Len(text)]
    BY <1>6 DEF Number
<1> DEFINE Typed == {k \in 0 .. Len(text) : first[k] \in Nat}
<1>9. 0 \in Typed
    BY <1>2, <1>7
<1>10. ASSUME NEW k \in 0 .. Len(text) - 1, k \in Typed PROVE k + 1 \in Typed
    <2>1. k + 1 \in 0 .. Len(text) /\ k + 1 # 0 /\ (k + 1) - 1 = k /\ k + 1 \in 1 .. Len(text)
        BY <1>2
    <2>2. first[k + 1] = 10 * first[k] + HexValue(text[k + 1])
        BY <1>7, <2>1
    <2>3. first[k] \in Nat /\ HexValue(text[k + 1]) \in Nat
        BY <1>1, <1>10, <2>1
    <2>4. first[k + 1] \in Nat
        BY <2>2, <2>3
    <2> QED
        BY <2>1, <2>4
<1>11. Len(text) \in Typed
    <2>1. Len(text) \in 0 .. Len(text) /\ \A k \in 0 .. Len(text) - 1 : k \in Typed => k + 1 \in Typed
        BY <1>2, <1>10
    <2> HIDE DEF Typed
    <2> QED
        BY <1>2, <1>9, <2>1, Upwards
<1> QED
    BY <1>8, <1>11

LEMMA SameBody ==
    ASSUME NEW text \in Texts, NEW s, NEW t, SamePlace(s, t, text), NEW method, NEW headers
    PROVE  LET x == RequestContent(s, method, headers)
               y == RequestContent(t, method, headers)
           IN  x.ok = y.ok /\ x.body = y.body /\ SamePlace(x.s, y.s, text)
<1>1. PICK x : x = RequestContent(s, method, headers)
    OBVIOUS
<1>2. PICK y : y = RequestContent(t, method, headers)
    OBVIOUS
<1>3. PICK length : length = HeaderValue(headers, "Content-Length")
    OBVIOUS
<1>4. CASE ~ExpectContent(method, headers) \/ (method = "DELETE" /\ ~HasHeader(headers, "Content-Length"))
    <2>1. x = [ok |-> TRUE, body |-> <<>>, s |-> s] /\ y = [ok |-> TRUE, body |-> <<>>, s |-> t]
        BY <1>1, <1>2, <1>4, Zenon DEF RequestContent
    <2> QED
        BY <1>1, <1>2, <2>1
<1>5. CASE ~(~ExpectContent(method, headers) \/ (method = "DELETE" /\ ~HasHeader(headers, "Content-Length")))
    <2>1. x = ReadContent(s, headers) /\ y = ReadContent(t, headers)
        BY <1>1, <1>2, <1>5, Zenon DEF RequestContent
    <2>2. CASE length # <<>> /\ length \in Seq(DecimalDigits)
        <3>1. x = Content(s, Number(length)) /\ y = Content(t, Number(length))
            BY <1>3, <2>1, <2>2, Zenon DEF ReadContent
        <3>2. Number(length) \in Nat
            BY <2>2, NumberType
        <3> QED
            BY <1>1, <1>2, <3>1, <3>2, SameContent
    <2>3. CASE ~(length # <<>> /\ length \in Seq(DecimalDigits))
        <3>1. x = [ok |-> FALSE, body |-> <<>>, s |-> s] /\ y = [ok |-> FALSE, body |-> <<>>, s |-> t]
            BY <1>3, <2>1, <2>3, Zenon DEF ReadContent
        <3> QED
            BY <1>1, <1>2, <3>1
    <2> QED
        BY <2>2, <2>3
<1> QED
    BY <1>4, <1>5

-----------------------------------------------------------------------------
(***************************************************************************)
(* The request.                                                            *)
(***************************************************************************)
\* Something is left of the text.
Unread(s) == s.buf # <<>> \/ s.net # <<>>

LEMMA LeftOver ==
    ASSUME NEW text \in Texts, NEW at, NEW s, StreamAt(s, text, at)
    PROVE  Unread(s) <=> at # Len(text)
<1>1. Len(text) \in Nat /\ at \in 0 .. Len(text)
    BY DEF Texts, StreamAt
<1>2. PICK e \in at .. Len(text) : s.buf = SubSeq(text, at + 1, e) /\ Cuts(s.net, text, e)
    BY DEF StreamAt
<1>3. s.buf \in Texts /\ Len(s.buf) = e - at
    BY <1>1, <1>2, Part
<1>4. s.buf = <<>> <=> e = at
    BY <1>1, <1>3 DEF Texts
<1>5. s.net = <<>> <=> e = Len(text)
    BY <1>2, CutsEnd
<1> QED
    BY <1>1, <1>4, <1>5 DEF Unread

\* What a worker makes of a request, and what it leaves of it, is the same in
\* whatever pieces the request arrives: in two parts of a line, with the content
\* in the piece of the headers or long after it.  Nothing is assumed of the text,
\* which need not be a request, and nothing of the sizes of the buffers.
THEOREM CutsDoNotMatter ==
    ASSUME NEW text \in Texts, NEW pieces, NEW others, Cuts(pieces, text, 0), Cuts(others, text, 0)
    PROVE  Serve(pieces) = Serve(others)
<1>1. PICK s : s = [buf |-> <<>>, net |-> pieces]
    OBVIOUS
<1>2. PICK t : t = [buf |-> <<>>, net |-> others]
    OBVIOUS
<1>3. SamePlace(s, t, text)
    <2>1. PICK z \in Nat : z = 0
        OBVIOUS
    <2>2. Len(text) \in Nat
        BY DEF Texts
    <2>3. z \in 0 .. Len(text) /\ z \in z .. Len(text) /\ z < z + 1
        BY <2>1, <2>2
    <2>4. SubSeq(text, z + 1, z) = <<>>
        BY <2>3, SubSeqEmpty
    <2>5. Cuts(pieces, text, z) /\ Cuts(others, text, z)
        BY <2>1
    <2>6. StreamAt(s, text, z) /\ StreamAt(t, text, z)
        BY <1>1, <1>2, <2>3, <2>4, <2>5 DEF StreamAt
    <2> QED
        BY <2>6 DEF SamePlace
<1>4. PICK line : line = GetLine(s)
    OBVIOUS
<1>5. PICK otherLine : otherLine = GetLine(t)
    OBVIOUS
<1>6. line.text = otherLine.text /\ line.ok = otherLine.ok /\ SamePlace(line.s, otherLine.s, text)
    BY <1>3, <1>4, <1>5, SameLine
<1>7. PICK first : first = ParseRequestLine(line.text)
    OBVIOUS
<1>8. PICK head : head = ReadHeaders(line.s)
    OBVIOUS
<1>9. PICK otherHead : otherHead = ReadHeaders(otherLine.s)
    OBVIOUS
<1>10. head.ok = otherHead.ok /\ head.headers = otherHead.headers /\ SamePlace(head.s, otherHead.s, text)
    BY <1>6, <1>8, <1>9, SameHead DEF SameHeaders
<1>11. PICK content : content = RequestContent(head.s, first.method, head.headers)
    OBVIOUS
<1>12. PICK otherContent : otherContent = RequestContent(otherHead.s, first.method, head.headers)
    OBVIOUS
<1>13. /\ content.ok = otherContent.ok /\ content.body = otherContent.body
       /\ SamePlace(content.s, otherContent.s, text)
    BY <1>10, <1>11, <1>12, SameBody
<1>14. Unread(content.s) = Unread(otherContent.s)
    <2>1. PICK at : StreamAt(content.s, text, at) /\ StreamAt(otherContent.s, text, at)
        BY <1>13 DEF SamePlace
    <2>2. Unread(content.s) <=> Unread(otherContent.s)
        BY <2>1, LeftOver
    <2> QED
        BY <2>2 DEF Unread
<1>15. PICK i : i = Dispatch(first.method, first.path)
    OBVIOUS
<1> DEFINE Request(c) ==
        [ok |-> TRUE, op |-> Routes[i].op, id |-> Captured(first.path, Routes[i].pattern),
         token |-> BearerToken(head.headers), limit |-> Limit(first.params),
         body |-> c.body, unread |-> Unread(c.s)]
<1>16. Serve(pieces) = IF line.ok /\ first.ok /\ head.ok /\ content.ok /\ i # 0
                       THEN Request(content) ELSE Failed
    BY <1>1, <1>4, <1>7, <1>8, <1>11, <1>15, Zenon DEF Serve, Unread
<1>17. Serve(others) = IF otherLine.ok /\ first.ok /\ otherHead.ok /\ otherContent.ok /\ i # 0
                       THEN Request(otherContent) ELSE Failed
    <2>1. first = ParseRequestLine(otherLine.text)
        BY <1>6, <1>7
    <2>2. otherContent = RequestContent(otherHead.s, first.method, otherHead.headers)
        BY <1>10, <1>12
    <2>3. Serve(others) =
              IF otherLine.ok /\ first.ok /\ otherHead.ok /\ otherContent.ok /\ i # 0
              THEN [ok |-> TRUE, op |-> Routes[i].op, id |-> Captured(first.path, Routes[i].pattern),
                    token |-> BearerToken(otherHead.headers), limit |-> Limit(first.params),
                    body |-> otherContent.body, unread |-> Unread(otherContent.s)]
              ELSE Failed
        BY <1>2, <1>5, <1>9, <1>15, <2>1, <2>2, Zenon DEF Serve, Unread
    <2> QED
        BY <1>10, <2>3, Zenon
<1>18. Request(content) = Request(otherContent)
    BY <1>13, <1>14, Zenon
<1>19. PICK request : request = Request(content)
    OBVIOUS
<1>20. Serve(pieces) = IF line.ok /\ first.ok /\ head.ok /\ content.ok /\ i # 0 THEN request ELSE Failed
    BY <1>16, <1>19
<1>21. Serve(others) = IF line.ok /\ first.ok /\ head.ok /\ content.ok /\ i # 0 THEN request ELSE Failed
    <2> HIDE DEF Request
    <2> QED
        BY <1>6, <1>10, <1>13, <1>17, <1>18, <1>19
<1> QED
    BY <1>20, <1>21

-----------------------------------------------------------------------------
(***************************************************************************)
(* The pieces of the runs are cuts.                                        *)
(***************************************************************************)
LEMMA CutsNone ==
    ASSUME NEW text \in Texts
    PROVE  Cuts(<<>>, text, Len(text))
<1>1. PICK c : c = [i \in 0 .. 0 |-> Len(text)]
    OBVIOUS
<1>2. PICK pieces : pieces = <<>>
    OBVIOUS
<1>3. Len(pieces) = 0 /\ pieces \in Seq(Texts)
    BY <1>2
<1>4. Len(text) \in Nat
    BY DEF Texts
<1>5. c \in [0 .. 0 -> 0 .. Len(text)] /\ c[0] = Len(text)
    BY <1>1, <1>4
<1>6. Cuts(pieces, text, Len(text))
    BY <1>3, <1>5 DEF Cuts
<1> QED
    BY <1>2, <1>6

\* One piece, two or three, or none.
LEMMA UpToThree ==
    ASSUME NEW text \in Texts, NEW i \in 0 .. Len(text), NEW j \in i .. Len(text)
    PROVE  LET P(k, l) == IF k < l THEN <<SubSeq(text, k + 1, l)>> ELSE <<>>
           IN  Cuts(P(0, i) \o P(i, j) \o P(j, Len(text)), text, 0)
<1> DEFINE P(k, l) == IF k < l THEN <<SubSeq(text, k + 1, l)>> ELSE <<>>
<1>0. Len(text) \in Nat /\ j \in 0 .. Len(text) /\ 0 \in 0 .. Len(text)
    BY DEF Texts
<1>1. ASSUME NEW k \in 0 .. Len(text), NEW l \in k .. Len(text), NEW pieces, Cuts(pieces, text, l)
      PROVE  Cuts(P(k, l) \o pieces, text, k)
    <2>1. CASE k < l
        BY <1>1, <2>1, CutsMore
    <2>2. CASE ~(k < l)
        <3>1. P(k, l) = <<>> /\ k = l /\ pieces \in Seq(Texts)
            BY <1>0, <1>1, <2>2 DEF Cuts
        <3>2. <<>> \o pieces = pieces
            BY <3>1, ConcatEmptySeq
        <3> QED
            BY <1>1, <3>1, <3>2
    <2> QED
        BY <2>1, <2>2
<1>2. ASSUME NEW k \in 0 .. Len(text), NEW l \in k .. Len(text) PROVE P(k, l) \in Seq(Texts)
    <2>1. CASE k < l
        <3>1. PICK x : x = SubSeq(text, k + 1, l)
            OBVIOUS
        <3>2. x \in Texts
            BY <3>1, Part
        <3>3. <<x>> \in Seq(Texts)
            BY ONLY <3>2
        <3>4. P(k, l) = <<x>>
            BY <2>1, <3>1
        <3> QED
            BY <3>3, <3>4
    <2>2. CASE ~(k < l)
        BY <2>2
    <2> QED
        BY <2>1, <2>2
<1>3. PICK p : p = P(0, i)
    OBVIOUS
<1>4. PICK q : q = P(i, j)
    OBVIOUS
<1>5. PICK r : r = P(j, Len(text))
    OBVIOUS
<1>6. p \in Seq(Texts) /\ q \in Seq(Texts) /\ r \in Seq(Texts)
    <2>1. i \in 0 .. Len(text) /\ j \in i .. Len(text) /\ Len(text) \in j .. Len(text)
        BY <1>0
    <2> HIDE DEF P
    <2> QED
        BY <1>0, <1>2, <1>3, <1>4, <1>5, <2>1
<1> HIDE DEF P
<1>7. r \o <<>> = r
    BY <1>6, ConcatEmptySeq
<1>8. Cuts(<<>>, text, Len(text))
    BY CutsNone
<1>9. Cuts(r, text, j)
    <2>1. Len(text) \in j .. Len(text)
        BY <1>0
    <2>2. Cuts(P(j, Len(text)) \o <<>>, text, j)
        BY <1>0, <1>1, <1>8, <2>1
    <2> QED
        BY <1>5, <1>7, <2>2
<1>10. Cuts(q \o r, text, i)
    BY <1>1, <1>4, <1>9
<1>11. Cuts(p \o (q \o r), text, 0)
    <2>1. i \in 0 .. Len(text)
        OBVIOUS
    <2> QED
        BY <1>0, <1>1, <1>3, <1>10, <2>1
<1>12. (p \o q) \o r = p \o (q \o r)
    BY <1>6, ConcatAssociative
<1>13. Cuts(P(0, i) \o P(i, j) \o P(j, Len(text)), text, 0)
    BY <1>3, <1>4, <1>5, <1>11, <1>12
<1> QED
    BY <1>13 DEF P

LEMMA Quotient ==
    ASSUME NEW n \in Nat, NEW size \in 1 .. n
    PROVE  LET m == (n + size - 1) \div size
           IN  m \in Nat /\ n <= size * m /\ size * (m - 1) < n
<1>1. PICK x : x = n + size - 1
    OBVIOUS
<1>2. x \in Nat /\ size \in Nat \ {0}
    BY <1>1
<1>3. PICK m : m = x \div size
    OBVIOUS
<1>4. m \in Int /\ size * m <= x /\ x < size * m + size
    BY <1>2, <1>3
<1>5. m \in Nat
    BY <1>2, <1>4
<1>6. n <= size * m
    BY <1>1, <1>2, <1>4
<1>7. size * (m - 1) = size * m - size
    BY <1>2, <1>4
<1>8. size * (m - 1) < n
    BY <1>1, <1>2, <1>4, <1>7
<1> QED
    BY <1>1, <1>3, <1>5, <1>6, <1>8

\* Pieces of the same size, of which the last may be shorter.
LEMMA SameSize ==
    ASSUME NEW text \in Texts, NEW size \in 1 .. Len(text)
    PROVE  LET n == Len(text)
           IN  Cuts([k \in 1 .. (n + size - 1) \div size |->
                         SubSeq(text, size * (k - 1) + 1, Least(size * k, n))], text, 0)
<1>1. PICK n : n = Len(text)
    OBVIOUS
<1>2. n \in Nat /\ size \in 1 .. n
    BY <1>1 DEF Texts
<1>3. PICK m : m = (n + size - 1) \div size
    OBVIOUS
<1>4. m \in Nat /\ n <= size * m /\ size * (m - 1) < n
    BY <1>2, <1>3, Quotient
<1>5. PICK c : c = [k \in 0 .. m |-> Least(size * k, n)]
    OBVIOUS
<1>6. ASSUME NEW k \in 0 .. m PROVE size * k \in Nat /\ c[k] \in 0 .. n /\ c[k] = Least(size * k, n)
    <2>1. size * k \in Nat
        BY <1>2, <1>4
    <2>2. Least(size * k, n) \in 0 .. n
        BY <1>2, <2>1 DEF Least
    <2> QED
        BY <1>5, <2>1, <2>2
<1>7. c \in [0 .. m -> 0 .. n]
    BY <1>5, <1>6
<1>8. c[0] = 0 /\ c[m] = n
    <2>1. 0 \in 0 .. m /\ m \in 0 .. m
        BY <1>4
    <2>2. size * 0 = 0
        BY <1>2
    <2>3. c[0] = 0
        BY <1>2, <1>6, <2>1, <2>2 DEF Least
    <2>4. Least(size * m, n) = n
        BY <1>2, <1>4 DEF Least
    <2> QED
        BY <1>6, <2>1, <2>3, <2>4
<1>9. ASSUME NEW k \in 1 .. m
      PROVE  /\ c[k - 1] = size * (k - 1) /\ c[k - 1] < c[k] /\ c[k] = Least(size * k, n)
    <2>1. k \in 0 .. m /\ k - 1 \in 0 .. m /\ k - 1 <= m - 1
        BY <1>4
    <2>2. size * (k - 1) <= size * (m - 1)
        BY <1>2, <1>4, <2>1
    <2>3. size * (k - 1) < n
        <3>1. size * (k - 1) \in Int /\ size * (m - 1) \in Int
            BY <1>2, <1>4
        <3> QED
            BY <1>2, <1>4, <2>2, <3>1
    <2>4. c[k - 1] = size * (k - 1)
        BY <1>2, <1>6, <2>1, <2>3 DEF Least
    <2>5. size * (k - 1) < size * k
        BY <1>2, <2>1
    <2>6. size * (k - 1) < Least(size * k, n)
        BY <1>2, <1>6, <2>1, <2>3, <2>5 DEF Least
    <2> QED
        BY <1>6, <2>1, <2>4, <2>6
<1>10. PICK pieces : pieces = [k \in 1 .. m |-> SubSeq(text, size * (k - 1) + 1, Least(size * k, n))]
    OBVIOUS
<1>11. ASSUME NEW k \in 1 .. m PROVE pieces[k] = SubSeq(text, c[k - 1] + 1, c[k]) /\ pieces[k] \in Texts
    <2>1. pieces[k] = SubSeq(text, c[k - 1] + 1, c[k])
        BY <1>9, <1>10
    <2>2. c[k - 1] \in 0 .. Len(text) /\ c[k] \in c[k - 1] .. Len(text)
        <3>1. k \in 0 .. m /\ k - 1 \in 0 .. m
            BY <1>4
        <3> QED
            BY <1>1, <1>2, <1>6, <1>9, <3>1
    <2> QED
        BY <2>1, <2>2, Part
<1>12. pieces \in Seq(Texts) /\ Len(pieces) = m
    <2>1. pieces \in [1 .. m -> Texts]
        BY <1>10, <1>11
    <2> QED
        BY <1>4, <2>1
<1>13. Cuts(pieces, text, 0)
    BY <1>1, <1>7, <1>8, <1>9, <1>11, <1>12 DEF Cuts
<1> QED
    BY <1>1, <1>3, <1>10, <1>13

LEMMA PiecesAreCuts ==
    ASSUME NEW text \in Texts, NEW pieces \in Pieces(text)
    PROVE  Cuts(pieces, text, 0)
<1> DEFINE P(k, l) == IF k < l THEN <<SubSeq(text, k + 1, l)>> ELSE <<>>
           Few == UNION {{P(0, i) \o P(i, j) \o P(j, Len(text)) : i \in 0 .. j} : j \in 0 .. Len(text)}
           OfSize(size) == [k \in 1 .. (Len(text) + size - 1) \div size |->
                               SubSeq(text, size * (k - 1) + 1, Least(size * k, Len(text)))]
<1>1. Len(text) \in Nat
    BY DEF Texts
<1>2. Pieces(text) = Few \union {OfSize(size) : size \in 1 .. Len(text)}
    BY Zenon DEF Pieces
<1>3. CASE pieces \in Few
    <2>1. PICK j \in 0 .. Len(text) : pieces \in {P(0, i) \o P(i, j) \o P(j, Len(text)) : i \in 0 .. j}
        <3> HIDE DEF P
        <3> QED
            BY <1>3, Zenon
    <2>2. PICK i \in 0 .. j : pieces = P(0, i) \o P(i, j) \o P(j, Len(text))
        <3> HIDE DEF P
        <3> QED
            BY <2>1, Zenon
    <2>3. i \in 0 .. Len(text) /\ j \in i .. Len(text)
        BY <1>1
    <2>4. Cuts(P(0, i) \o P(i, j) \o P(j, Len(text)), text, 0)
        BY <2>3, UpToThree, Zenon
    <2> HIDE DEF P
    <2> QED
        BY <2>2, <2>4, Zenon
<1>4. CASE pieces \in {OfSize(size) : size \in 1 .. Len(text)}
    <2>1. PICK size \in 1 .. Len(text) : pieces = OfSize(size)
        <3> HIDE DEF OfSize
        <3> QED
            BY <1>4, Zenon
    <2>2. Cuts(OfSize(size), text, 0)
        BY SameSize, Zenon
    <2> HIDE DEF OfSize
    <2> QED
        BY <2>1, <2>2, Zenon
<1> HIDE DEF Few, OfSize
<1> QED
    BY <1>2, <1>3, <1>4

LEMMA WholeText ==
    ASSUME NEW text \in Texts, text # <<>>
    PROVE  Cuts(<<text>>, text, 0)
<1>1. PICK n : n = Len(text)
    OBVIOUS
<1>2. n \in Nat \ {0} /\ n \in 0 .. Len(text)
    BY <1>1 DEF Texts
<1>3. Cuts(<<>>, text, n)
    BY <1>1, CutsNone
<1>4. PICK z : z = 0
    OBVIOUS
<1>5. z \in 0 .. Len(text) /\ n \in z .. Len(text) /\ z < n
    BY <1>1, <1>2, <1>4
<1>6. Cuts(<<SubSeq(text, z + 1, n)>> \o <<>>, text, z)
    BY <1>3, <1>5, CutsMore
<1>7. PICK x : x = SubSeq(text, z + 1, n)
    OBVIOUS
<1>8. x \in Texts /\ Len(x) = n /\ \A i \in 1 .. n : x[i] = text[i]
    <2>1. x \in Texts /\ Len(x) = n - z /\ \A i \in 1 .. n - z : x[i] = text[z + i]
        BY <1>5, <1>7, Part
    <2> QED
        BY <1>2, <1>4, <2>1
<1>9. x = text
    BY <1>1, <1>8, SeqEqual DEF Texts
<1>10. <<x>> \o <<>> = <<x>>
    <2>1. <<x>> \in Seq(Texts)
        BY ONLY <1>8
    <2> QED
        BY ONLY <2>1, ConcatEmptySeq
<1> QED
    BY <1>4, <1>6, <1>7, <1>9, <1>10

\* A gateway that reads every request of the client as it was meant when it
\* arrives in one piece reads it so in all of the pieces the run cuts it into.
THEOREM OnePieceIsEnough ==
    ASSUME \A r \in Requests : \A text \in WireTexts(r) :
               text \in Texts /\ text # <<>> /\ Serve(<<text>>) = Meant(r)
    PROVE  ServedAsMeant
<1> SUFFICES ASSUME NEW r \in Requests, NEW text \in WireTexts(r), NEW pieces \in Pieces(text)
             PROVE  Serve(pieces) = Meant(r)
    BY Zenon DEF ServedAsMeant
<1>1. text \in Texts /\ text # <<>> /\ Serve(<<text>>) = Meant(r)
    OBVIOUS
<1>2. Cuts(pieces, text, 0) /\ Cuts(<<text>>, text, 0)
    BY <1>1, PiecesAreCuts, WholeText
<1>3. Serve(pieces) = Serve(<<text>>)
    BY <1>1, <1>2, CutsDoNotMatter
<1> QED
    BY <1>1, <1>3

-----------------------------------------------------------------------------
(***************************************************************************)
(* Texts put together and taken apart.                                     *)
(***************************************************************************)
Without(text, c) == \A i \in 1 .. Len(text) : text[i] # c

LEMMA TextShape ==
    ASSUME NEW u \in Texts
    PROVE  /\ Len(u) \in Nat /\ u \in Seq(Symbols) /\ (u = <<>> <=> Len(u) = 0)
           /\ \A i \in 1 .. Len(u) : u[i] \in Symbols
           /\ u \o <<>> = u /\ <<>> \o u = u
<1>1. u \in Seq(Symbols)
    BY DEF Texts
<1>2. u \o <<>> = u /\ <<>> \o u = u
    BY ONLY <1>1, ConcatEmptySeq
<1> QED
    BY <1>1, <1>2

LEMMA NamedSymbols == \A c \in Named : c \in Symbols
BY DEF Symbols

LEMMA Single ==
    ASSUME NEW S, NEW c \in S
    PROVE  <<c>> \in Seq(S) /\ Len(<<c>>) = 1 /\ <<c>>[1] = c
OBVIOUS

LEMMA Longer ==
    ASSUME NEW S, NEW u \in Seq(S), NEW c \in S
    PROVE  /\ Append(u, c) \in Seq(S) /\ Len(Append(u, c)) = Len(u) + 1
           /\ \A i \in 1 .. Len(u) : Append(u, c)[i] = u[i]
           /\ Append(u, c)[Len(u) + 1] = c
           /\ Append(u, c) = u \o <<c>>
BY AppendProperties, AppendIsConcat

LEMMA Character1 ==
    ASSUME NEW c \in Symbols
    PROVE  <<c>> \in Texts /\ Len(<<c>>) = 1 /\ <<c>>[1] = c
BY Single, Zenon DEF Texts

LEMMA Together ==
    ASSUME NEW u \in Texts, NEW v \in Texts
    PROVE  /\ u \o v \in Texts /\ Len(u \o v) = Len(u) + Len(v)
           /\ \A i \in 1 .. Len(u) : (u \o v)[i] = u[i]
           /\ \A i \in 1 .. Len(v) : (u \o v)[Len(u) + i] = v[i]
<1>1. u \in Seq(Symbols) /\ v \in Seq(Symbols)
    BY DEF Texts
<1>2. /\ u \o v \in Seq(Symbols) /\ Len(u \o v) = Len(u) + Len(v)
      /\ \A i \in 1 .. Len(u) + Len(v) : (u \o v)[i] = IF i <= Len(u) THEN u[i] ELSE v[i - Len(u)]
    BY ONLY <1>1, ConcatProperties
<1>3. Len(u) \in Nat /\ Len(v) \in Nat
    BY <1>1
<1>4. \A i \in 1 .. Len(u) : (u \o v)[i] = u[i]
    BY <1>2, <1>3
<1>5. ASSUME NEW i \in 1 .. Len(v) PROVE (u \o v)[Len(u) + i] = v[i]
    <2>1. Len(u) + i \in 1 .. Len(u) + Len(v) /\ ~(Len(u) + i <= Len(u)) /\ (Len(u) + i) - Len(u) = i
        BY <1>3
    <2> QED
        BY <1>2, <2>1
<1> QED
    BY <1>2, <1>4, <1>5 DEF Texts

LEMMA Regroup ==
    ASSUME NEW u \in Texts, NEW v \in Texts, NEW w \in Texts
    PROVE  (u \o v) \o w = u \o (v \o w)
BY ConcatAssociative DEF Texts

Grouped(u, v, w) == (u \o v) \o w = u \o (v \o w)

LEMMA GroupedText ==
    ASSUME NEW u \in Texts, NEW v \in Texts, NEW w \in Texts
    PROVE  Grouped(u, v, w)
BY Regroup, Zenon DEF Grouped

LEMMA SameText ==
    ASSUME NEW u \in Texts, NEW v \in Texts, Len(u) = Len(v), \A i \in 1 .. Len(u) : u[i] = v[i]
    PROVE  u = v
BY SeqEqual DEF Texts

\* The first characters and the others.
LEMMA FrontPart ==
    ASSUME NEW u \in Texts, NEW v \in Texts
    PROVE  SubSeq(u \o v, 1, Len(u)) = u /\ SubSeq(u \o v, Len(u) + 1, Len(u \o v)) = v
<1>1. PICK t : t = u \o v
    OBVIOUS
<1>2. /\ t \in Texts /\ Len(t) = Len(u) + Len(v) /\ \A i \in 1 .. Len(u) : t[i] = u[i]
      /\ \A i \in 1 .. Len(v) : t[Len(u) + i] = v[i]
    BY <1>1, Together
<1>3. Len(u) \in Nat /\ Len(v) \in Nat
    BY TextShape
<1>4. PICK z : z = 0
    OBVIOUS
<1>5. PICK a : a = SubSeq(t, z + 1, Len(u))
    OBVIOUS
<1>6. z \in 0 .. Len(t) /\ Len(u) \in z .. Len(t) /\ Len(u) - z = Len(u)
    BY <1>2, <1>3, <1>4
<1>7. a \in Texts /\ Len(a) = Len(u) - z /\ \A i \in 1 .. Len(u) - z : a[i] = t[z + i]
    BY <1>2, <1>5, <1>6, Part
<1>8. a = u
    <2>1. Len(a) = Len(u)
        BY <1>6, <1>7
    <2>2. ASSUME NEW i \in 1 .. Len(a) PROVE a[i] = u[i]
        <3>1. i \in 1 .. Len(u) - z /\ z + i = i /\ i \in 1 .. Len(u)
            BY <1>3, <1>4, <1>6, <2>1
        <3> QED
            BY <1>2, <1>7, <3>1
    <2> QED
        BY <1>7, <2>1, <2>2, SameText
<1>9. PICK b : b = SubSeq(t, Len(u) + 1, Len(t))
    OBVIOUS
<1>10. Len(u) \in 0 .. Len(t) /\ Len(t) \in Len(u) .. Len(t) /\ Len(t) - Len(u) = Len(v)
    BY <1>2, <1>3
<1>11. b \in Texts /\ Len(b) = Len(t) - Len(u) /\ \A i \in 1 .. Len(t) - Len(u) : b[i] = t[Len(u) + i]
    BY <1>2, <1>9, <1>10, Part
<1>12. b = v
    <2>1. Len(b) = Len(v)
        BY <1>10, <1>11
    <2>2. \A i \in 1 .. Len(b) : b[i] = v[i]
        BY <1>2, <1>10, <1>11
    <2> QED
        BY <1>11, <2>1, <2>2, SameText
<1>13. z + 1 = 1
    BY <1>4
<1> QED
    BY <1>1, <1>5, <1>8, <1>9, <1>12, <1>13

\* One character more.
LEMMA OneMore ==
    ASSUME NEW w \in Texts, NEW n \in 0 .. Len(w) - 1
    PROVE  Append(SubSeq(w, 1, n), w[n + 1]) = SubSeq(w, 1, n + 1)
<1>1. Len(w) \in Nat /\ n \in 0 .. Len(w) /\ n + 1 \in 0 .. Len(w) /\ n + 1 \in 1 .. Len(w)
    BY TextShape
<1>2. PICK z : z = 0
    OBVIOUS
<1>3. /\ z \in 0 .. Len(w) /\ n \in z .. Len(w) /\ n + 1 \in z .. Len(w)
      /\ z + 1 = 1 /\ n - z = n /\ (n + 1) - z = n + 1
    BY <1>1, <1>2
<1>4. PICK a : a = SubSeq(w, z + 1, n)
    OBVIOUS
<1>5. PICK b : b = SubSeq(w, z + 1, n + 1)
    OBVIOUS
<1>6. a \in Texts /\ Len(a) = n - z /\ \A i \in 1 .. n - z : a[i] = w[z + i]
    BY <1>3, <1>4, Part
<1>7. b \in Texts /\ Len(b) = (n + 1) - z /\ \A i \in 1 .. (n + 1) - z : b[i] = w[z + i]
    BY <1>3, <1>5, Part
<1>8. PICK c : c = w[n + 1]
    OBVIOUS
<1>9. c \in Symbols
    BY <1>1, <1>8, TextShape
<1>10. PICK d : d = Append(a, c)
    OBVIOUS
<1>11. d \in Texts /\ Len(d) = n + 1 /\ d[n + 1] = c /\ \A i \in 1 .. n : d[i] = a[i]
    <2>1. a \in Seq(Symbols) /\ Len(a) = n
        BY <1>3, <1>6 DEF Texts
    <2>2. PICK S : S = Symbols
        OBVIOUS
    <2>3. a \in Seq(S) /\ c \in S
        BY <1>9, <2>1, <2>2
    <2>4. /\ Append(a, c) \in Seq(S) /\ Len(Append(a, c)) = Len(a) + 1
          /\ \A i \in 1 .. Len(a) : Append(a, c)[i] = a[i]
          /\ Append(a, c)[Len(a) + 1] = c
        BY ONLY <2>3, Longer
    <2> QED
        BY <1>10, <2>1, <2>2, <2>4 DEF Texts
<1>12. ASSUME NEW i \in 1 .. Len(d) PROVE d[i] = b[i]
    <2>1. i \in 1 .. n + 1 /\ z + i = i
        BY <1>2, <1>11
    <2>2. b[i] = w[i]
        BY <1>3, <1>7, <2>1
    <2>3. CASE i = n + 1
        BY <1>8, <1>11, <2>2, <2>3
    <2>4. CASE i # n + 1
        <3>1. i \in 1 .. n
            BY <1>1, <2>1, <2>4
        <3> QED
            BY <1>3, <1>6, <1>11, <2>1, <2>2, <3>1
    <2> QED
        BY <2>3, <2>4
<1>13. d = b
    <2>1. Len(d) = Len(b)
        BY <1>3, <1>7, <1>11
    <2> QED
        BY <1>7, <1>11, <1>12, <2>1, SameText
<1> QED
    BY <1>3, <1>4, <1>5, <1>8, <1>10, <1>13

LEMMA EmptyPart ==
    ASSUME NEW w \in Texts
    PROVE  SubSeq(w, 1, 0) = <<>> /\ SubSeq(w, 1, Len(w)) = w
<1>1. SubSeq(w, 1, 0) = <<>>
    BY SubSeqEmpty
<1>2. PICK e : e = <<>>
    OBVIOUS
<1>3. e \in Texts
    BY <1>2 DEF Texts
<1>4. SubSeq(w \o e, 1, Len(w)) = w
    BY <1>3, FrontPart
<1>5. w \o e = w
    BY <1>2, TextShape
<1> QED
    BY <1>1, <1>4, <1>5

-----------------------------------------------------------------------------
(***************************************************************************)
(* The parts of a text: equations that do without the recursion.           *)
(***************************************************************************)
LEMMA PartsRounds ==
    ASSUME NEW text \in Texts, NEW sep, NEW empty
    PROVE  \E f : /\ f[0] = [done |-> <<>>, part |-> <<>>]
                  /\ \A n \in 1 .. Len(text) : f[n] = PartsNext(f[n - 1], text[n], sep, empty)
                  /\ Parts(text, sep, empty) = Added(f[Len(text)].done, f[Len(text)].part, empty)
<1> DEFINE Start == [done |-> <<>>, part |-> <<>>]
           After(f, m) == f = [n \in 0 .. m |-> IF n = 0 THEN Start
                                                ELSE PartsNext(f[n - 1], text[n], sep, empty)]
           There == {m \in 0 .. Len(text) : \E f : After(f, m)}
<1>1. Len(text) \in Nat
    BY TextShape
<1>2. 0 \in There
    <2>1. PICK f : f = [n \in 0 .. 0 |-> Start]
        OBVIOUS
    <2>2. After(f, 0)
        BY <2>1
    <2> QED
        BY <1>1, <2>2
<1>3. ASSUME NEW m \in 0 .. Len(text) - 1, m \in There PROVE m + 1 \in There
    <2>1. PICK f : After(f, m)
        BY <1>3
    <2>2. PICK g : g = [n \in 0 .. m + 1 |-> IF n <= m THEN f[n]
                                             ELSE PartsNext(f[m], text[m + 1], sep, empty)]
        OBVIOUS
    <2>3. ASSUME NEW n \in 0 .. m + 1
          PROVE  g[n] = IF n = 0 THEN Start ELSE PartsNext(g[n - 1], text[n], sep, empty)
        <3> HIDE DEF Start
        <3>1. CASE n <= m
            <4>1. n \in 0 .. m /\ g[n] = f[n] /\ (n # 0 => g[n - 1] = f[n - 1])
                BY <1>1, <2>2, <3>1
            <4>2. f[n] = IF n = 0 THEN Start ELSE PartsNext(f[n - 1], text[n], sep, empty)
                BY <2>1, <4>1
            <4> QED
                BY <4>1, <4>2
        <3>2. CASE ~(n <= m)
            <4>1. n = m + 1 /\ n # 0 /\ n - 1 = m /\ m \in 0 .. m + 1
                BY <1>1, <3>2
            <4>2. g[n] = PartsNext(f[m], text[m + 1], sep, empty)
                BY <2>2, <3>2
            <4>3. g[m] = f[m]
                BY <2>2, <4>1
            <4> QED
                BY <4>1, <4>2, <4>3
        <3> QED
            BY <3>1, <3>2
    <2>4. After(g, m + 1)
        BY <2>2, <2>3
    <2>5. m + 1 \in 0 .. Len(text)
        BY <1>1
    <2> QED
        BY <2>4, <2>5
<1>4. Len(text) \in There
    <2>1. Len(text) \in 0 .. Len(text) /\ \A m \in 0 .. Len(text) - 1 : m \in There => m + 1 \in There
        BY <1>1, <1>3
    <2> HIDE DEF There
    <2> QED
        BY <1>1, <1>2, <2>1, Upwards
<1>5. PICK f : f = CHOOSE g : After(g, Len(text))
    OBVIOUS
<1>6. After(f, Len(text))
    BY <1>4, <1>5
<1>7. Parts(text, sep, empty) = Added(f[Len(text)].done, f[Len(text)].part, empty)
    BY <1>5 DEF Parts
<1>8. f[0] = Start
    BY <1>1, <1>6
<1>9. ASSUME NEW n \in 1 .. Len(text) PROVE f[n] = PartsNext(f[n - 1], text[n], sep, empty)
    <2> HIDE DEF Start
    <2>1. n \in 0 .. Len(text) /\ n # 0
        BY <1>1
    <2> QED
        BY <1>6, <2>1
<1> QED
    BY <1>7, <1>8, <1>9

\* The rounds f over the characters of w, which is what text has behind a.
Rounds(f, text, a, w, sep, empty) ==
    \A n \in 1 .. Len(w) :
        f[a + n] = PartsNext(f[a + n - 1], text[a + n], sep, empty) /\ text[a + n] = w[n]

\* A part without separators, behind what is complete.
LEMMA PartRun ==
    ASSUME NEW f, NEW text, NEW sep, NEW empty, NEW a \in Nat, NEW w \in Texts, NEW done,
           f[a] = [done |-> done, part |-> <<>>], Without(w, sep),
           Rounds(f, text, a, w, sep, empty)
    PROVE  f[a + Len(w)] = [done |-> done, part |-> w]
<1>1. Len(w) \in Nat
    BY TextShape
<1> DEFINE Good == {n \in 0 .. Len(w) : f[a + n] = [done |-> done, part |-> SubSeq(w, 1, n)]}
<1>2. 0 \in Good
    <2>1. a + 0 = a /\ 0 \in 0 .. Len(w)
        BY <1>1
    <2> QED
        BY <2>1, EmptyPart
<1>3. ASSUME NEW n \in 0 .. Len(w) - 1, n \in Good PROVE n + 1 \in Good
    <2>1. n + 1 \in 1 .. Len(w) /\ n + 1 \in 0 .. Len(w) /\ a + (n + 1) - 1 = a + n
        BY <1>1
    <2>2. PICK p : p = SubSeq(w, 1, n)
        OBVIOUS
    <2>3. PICK c : c = w[n + 1]
        OBVIOUS
    <2>4. f[a + (n + 1)] = PartsNext(f[a + n], c, sep, empty) /\ c # sep
        BY <2>1, <2>3 DEF Without, Rounds
    <2>5. f[a + n] = [done |-> done, part |-> p]
        BY <1>3, <2>2
    <2>6. f[a + (n + 1)] = [done |-> done, part |-> Append(p, c)]
        BY <2>4, <2>5 DEF PartsNext
    <2>7. Append(p, c) = SubSeq(w, 1, n + 1)
        BY <2>2, <2>3, OneMore
    <2> QED
        BY <2>1, <2>6, <2>7
<1>4. Len(w) \in Good
    <2>1. Len(w) \in 0 .. Len(w) /\ \A n \in 0 .. Len(w) - 1 : n \in Good => n + 1 \in Good
        BY <1>1, <1>3
    <2> HIDE DEF Good
    <2> QED
        BY <1>1, <1>2, <2>1, Upwards
<1> QED
    BY <1>4, EmptyPart

LEMMA OnePart ==
    ASSUME NEW w \in Texts, NEW sep, Without(w, sep), NEW empty
    PROVE  Parts(w, sep, empty) = Added(<<>>, w, empty)
<1>1. PICK f : /\ f[0] = [done |-> <<>>, part |-> <<>>]
               /\ \A n \in 1 .. Len(w) : f[n] = PartsNext(f[n - 1], w[n], sep, empty)
               /\ Parts(w, sep, empty) = Added(f[Len(w)].done, f[Len(w)].part, empty)
    BY PartsRounds
<1>2. PICK a \in Nat : a = 0
    OBVIOUS
<1>3. PICK done : done = <<>>
    OBVIOUS
<1>4. Len(w) \in Nat
    BY TextShape
<1>5. \A n \in 1 .. Len(w) : a + n = n /\ a + n - 1 = n - 1
    BY <1>2, <1>4
<1>6. f[a] = [done |-> done, part |-> <<>>]
    BY <1>1, <1>2, <1>3
<1>7. \A n \in 1 .. Len(w) : f[a + n] = PartsNext(f[a + n - 1], w[a + n], sep, empty) /\ w[a + n] = w[n]
    BY <1>1, <1>5
<1>8. f[a + Len(w)] = [done |-> done, part |-> w]
    <2>1. w \in Texts /\ Without(w, sep) /\ a \in Nat
        OBVIOUS
    <2>2. Rounds(f, w, a, w, sep, empty)
        BY <1>7 DEF Rounds
    <2> QED
        BY <1>6, <2>1, <2>2, PartRun
<1>9. a + Len(w) = Len(w)
    BY <1>2, <1>4
<1> QED
    BY <1>1, <1>3, <1>8, <1>9

LEMMA MoreParts ==
    ASSUME NEW u \in Texts, NEW w \in Texts, NEW sep \in Symbols, Without(w, sep), NEW empty
    PROVE  Parts(u \o (<<sep>> \o w), sep, empty) = Added(Parts(u, sep, empty), w, empty)
<1>1. PICK x : x = <<sep>>
    OBVIOUS
<1>2. x \in Texts /\ Len(x) = 1 /\ x[1] = sep
    BY <1>1, Character1
<1>3. PICK v : v = x \o w
    OBVIOUS
<1>4. Len(w) \in Nat /\ Len(u) \in Nat
    BY TextShape
<1>5. /\ v \in Texts /\ Len(v) = 1 + Len(w) /\ v[1] = sep
      /\ \A n \in 1 .. Len(w) : v[1 + n] = w[n]
    <2>1. w \in Texts /\ 1 \in 1 .. 1
        OBVIOUS
    <2>2. /\ v \in Texts /\ Len(v) = Len(x) + Len(w)
          /\ \A n \in 1 .. Len(x) : v[n] = x[n]
          /\ \A n \in 1 .. Len(w) : v[Len(x) + n] = w[n]
        BY ONLY <1>2, <1>3, <2>1, Together
    <2> QED
        BY ONLY <1>2, <2>1, <2>2
<1>6. PICK t : t = u \o v
    OBVIOUS
<1>7. /\ t \in Texts /\ Len(t) = Len(u) + Len(v)
      /\ \A n \in 1 .. Len(u) : t[n] = u[n]
      /\ \A n \in 1 .. Len(v) : t[Len(u) + n] = v[n]
    BY <1>5, <1>6, Together
<1>8. PICK f : /\ f[0] = [done |-> <<>>, part |-> <<>>]
               /\ \A n \in 1 .. Len(u) : f[n] = PartsNext(f[n - 1], u[n], sep, empty)
               /\ Parts(u, sep, empty) = Added(f[Len(u)].done, f[Len(u)].part, empty)
    BY PartsRounds
<1>9. PICK g : /\ g[0] = [done |-> <<>>, part |-> <<>>]
               /\ \A n \in 1 .. Len(t) : g[n] = PartsNext(g[n - 1], t[n], sep, empty)
               /\ Parts(t, sep, empty) = Added(g[Len(t)].done, g[Len(t)].part, empty)
    <2>1. t \in Texts
        BY <1>7
    <2> QED
        BY ONLY <2>1, PartsRounds
<1> DEFINE Same == {n \in 0 .. Len(u) : g[n] = f[n]}
<1>10. 0 \in Same
    BY <1>4, <1>8, <1>9
<1>11. ASSUME NEW n \in 0 .. Len(u) - 1, n \in Same PROVE n + 1 \in Same
    <2>1. n + 1 \in 1 .. Len(u) /\ n + 1 \in 0 .. Len(u) /\ n + 1 \in 1 .. Len(t) /\ (n + 1) - 1 = n
        BY <1>4, <1>5, <1>7
    <2>2. f[n + 1] = PartsNext(f[n], u[n + 1], sep, empty)
        BY <1>8, <2>1
    <2>3. g[n + 1] = PartsNext(g[n], t[n + 1], sep, empty)
        BY <1>9, <2>1
    <2>4. t[n + 1] = u[n + 1] /\ g[n] = f[n]
        BY <1>7, <1>11, <2>1
    <2> QED
        BY <2>1, <2>2, <2>3, <2>4
<1>12. Len(u) \in Same
    <2>1. Len(u) \in 0 .. Len(u) /\ \A n \in 0 .. Len(u) - 1 : n \in Same => n + 1 \in Same
        BY <1>4, <1>11
    <2> HIDE DEF Same
    <2> QED
        BY <1>4, <1>10, <2>1, Upwards
<1>13. PICK a \in Nat : a = Len(u) + 1
    BY <1>4
<1>14. a \in 1 .. Len(t) /\ a - 1 = Len(u) /\ 1 \in 1 .. Len(v) /\ Len(t) = a + Len(w)
    BY <1>4, <1>5, <1>7, <1>13
<1>15. PICK done : done = Parts(u, sep, empty)
    OBVIOUS
<1>16. g[a] = [done |-> done, part |-> <<>>]
    <2>1. g[a] = PartsNext(g[Len(u)], sep, sep, empty)
        <3>1. t[a] = sep
            BY <1>5, <1>7, <1>13, <1>14
        <3> QED
            BY <1>9, <1>14, <3>1
    <2>2. g[Len(u)] = f[Len(u)]
        BY <1>12
    <2>3. PICK r : r = f[Len(u)]
        OBVIOUS
    <2>4. PartsNext(r, sep, sep, empty) = [done |-> Added(r.done, r.part, empty), part |-> <<>>]
        BY DEF PartsNext
    <2>5. done = Added(r.done, r.part, empty)
        BY <1>8, <1>15, <2>3
    <2> QED
        BY <2>1, <2>2, <2>3, <2>4, <2>5
<1>17. ASSUME NEW n \in 1 .. Len(w)
       PROVE  g[a + n] = PartsNext(g[a + n - 1], t[a + n], sep, empty) /\ t[a + n] = w[n]
    <2>1. a + n \in 1 .. Len(t) /\ a + n = Len(u) + (1 + n) /\ 1 + n \in 1 .. Len(v)
        BY <1>4, <1>5, <1>13, <1>14
    <2>2. t[a + n] = v[1 + n]
        BY <1>7, <2>1
    <2> QED
        BY <1>5, <1>9, <2>1, <2>2
<1>18. g[a + Len(w)] = [done |-> done, part |-> w]
    <2>1. w \in Texts /\ Without(w, sep) /\ a \in Nat
        OBVIOUS
    <2>2. Rounds(g, t, a, w, sep, empty)
        BY <1>17 DEF Rounds
    <2> QED
        BY <1>16, <2>1, <2>2, PartRun
<1>19. Parts(t, sep, empty) = Added(done, w, empty)
    BY <1>9, <1>14, <1>18
<1> QED
    BY <1>1, <1>3, <1>6, <1>15, <1>19

\* A part with something in it counts, whether or not empty ones do.
LEMMA AddedPart ==
    ASSUME NEW parts, NEW part, NEW empty, part # <<>> \/ empty
    PROVE  Added(parts, part, empty) = Append(parts, part)
BY DEF Added

LEMMA Lengthened ==
    ASSUME NEW S, NEW s \in Seq(S), NEW c \in S, NEW t \in Seq(S), Len(t) = Len(s) + 1,
           \A i \in 1 .. Len(s) : t[i] = s[i], t[Len(s) + 1] = c
    PROVE  Append(s, c) = t
<1>1. PICK x : x = Append(s, c)
    OBVIOUS
<1>2. x \in Seq(S) /\ Len(x) = Len(s) + 1
    BY <1>1, Longer
<1>3. \A i \in 1 .. Len(s) : x[i] = s[i]
    BY <1>1, Longer
<1>4. x[Len(s) + 1] = c
    BY <1>1, Longer
<1>5. Len(s) \in Nat
    OBVIOUS
<1>6. \A i \in 1 .. Len(x) : x[i] = t[i]
    BY <1>2, <1>3, <1>4, <1>5
<1> QED
    BY <1>1, <1>2, <1>6, SeqEqual

LEMMA Grown ==
    ASSUME NEW S, NEW a \in S, NEW b \in S, NEW c \in S
    PROVE  /\ Append(<<>>, a) = <<a>> /\ Append(<<a>>, b) = <<a, b>>
           /\ Append(<<a, b>>, c) = <<a, b, c>>
<1>1. PICK s : s = <<a>>
    OBVIOUS
<1>2. PICK t : t = <<a, b>>
    OBVIOUS
<1>3. PICK u : u = <<a, b, c>>
    OBVIOUS
<1>4. s \in Seq(S) /\ Len(s) = 1 /\ s[1] = a
    BY <1>1
<1>5. t \in Seq(S) /\ Len(t) = 2 /\ t[1] = a /\ t[2] = b
    BY <1>2
<1>6. u \in Seq(S) /\ Len(u) = 3 /\ u[1] = a /\ u[2] = b /\ u[3] = c
    BY <1>3
<1>7. Append(<<>>, a) = <<a>>
    OBVIOUS
<1>8. Append(s, b) = t
    <2>1. Len(t) = Len(s) + 1 /\ (\A i \in 1 .. Len(s) : t[i] = s[i]) /\ t[Len(s) + 1] = b
        BY ONLY <1>4, <1>5
    <2> QED
        BY <1>4, <1>5, <2>1, Lengthened
<1>9. Append(t, c) = u
    <2>1. Len(u) = Len(t) + 1 /\ (\A i \in 1 .. Len(t) : u[i] = t[i]) /\ u[Len(t) + 1] = c
        BY ONLY <1>5, <1>6
    <2> QED
        BY <1>5, <1>6, <2>1, Lengthened
<1> QED
    BY <1>1, <1>2, <1>3, <1>7, <1>8, <1>9

LEMMA ThreeParts ==
    ASSUME NEW u \in Texts, NEW v \in Texts, NEW w \in Texts, NEW sep \in Symbols, NEW empty,
           Without(u, sep), Without(v, sep), Without(w, sep),
           empty \/ (u # <<>> /\ v # <<>> /\ w # <<>>)
    PROVE  Parts((u \o (<<sep>> \o v)) \o (<<sep>> \o w), sep, empty) = <<u, v, w>>
<1>1. PICK x : x = <<sep>> \o v
    OBVIOUS
<1>2. x \in Texts
    <2>1. PICK y : y = <<sep>>
        OBVIOUS
    <2> QED
        BY <1>1, <2>1, Character1, Together
<1>3. PICK y : y = u \o x
    OBVIOUS
<1>4. y \in Texts
    BY <1>2, <1>3, Together
<1>5. /\ Append(<<>>, u) = <<u>> /\ Append(<<u>>, v) = <<u, v>>
      /\ Append(<<u, v>>, w) = <<u, v, w>>
    BY Grown
<1>6. Parts(u, sep, empty) = <<u>>
    BY <1>5, OnePart, AddedPart
<1>7. Parts(y, sep, empty) = <<u, v>>
    <2>1. Parts(y, sep, empty) = Added(Parts(u, sep, empty), v, empty)
        BY <1>1, <1>3, MoreParts
    <2> QED
        BY <1>5, <1>6, <2>1, AddedPart
<1>8. Parts(y \o (<<sep>> \o w), sep, empty) = <<u, v, w>>
    <2>1. Parts(y \o (<<sep>> \o w), sep, empty) = Added(Parts(y, sep, empty), w, empty)
        BY <1>4, MoreParts
    <2> QED
        BY <1>5, <1>7, <2>1, AddedPart
<1> QED
    BY <1>1, <1>3, <1>8

LEMMA MinOf ==
    ASSUME NEW S \in SUBSET Nat, NEW i \in S, \A j \in S : i <= j
    PROVE  Min(S) = i
<1>1. \E x \in S : \A y \in S : x =< y
    OBVIOUS
<1>2. PICK m : m = Min(S)
    OBVIOUS
<1>3. m \in S /\ \A y \in S : m =< y
    BY <1>1, <1>2 DEF Min
<1>4. m <= i /\ i <= m /\ m \in Nat /\ i \in Nat
    BY <1>3
<1> QED
    BY <1>2, <1>4

\* Before the first separator and behind it.
LEMMA Divided ==
    ASSUME NEW u \in Texts, NEW v \in Texts, NEW sep \in Symbols, Without(u, sep)
    PROVE  /\ Divide(u \o (<<sep>> \o v), sep)[1] = u
           /\ Divide(u \o (<<sep>> \o v), sep)[2] = v
<1>1. PICK x : x = <<sep>>
    OBVIOUS
<1>2. x \in Texts /\ Len(x) = 1 /\ x[1] = sep
    BY <1>1, Character1
<1>3. PICK y : y = x \o v
    OBVIOUS
<1>4. y \in Texts /\ Len(y) = Len(x) + Len(v) /\ \A n \in 1 .. Len(x) : y[n] = x[n]
    BY <1>2, <1>3, Together
<1>5. PICK t : t = u \o y
    OBVIOUS
<1>6. /\ t \in Texts /\ Len(t) = Len(u) + Len(y)
      /\ \A n \in 1 .. Len(u) : t[n] = u[n]
      /\ \A n \in 1 .. Len(y) : t[Len(u) + n] = y[n]
    BY <1>4, <1>5, Together
<1>7. Len(u) \in Nat /\ Len(v) \in Nat
    BY TextShape
<1>8. PICK i : i = Len(u) + 1
    OBVIOUS
<1>9. PICK S : S = {n \in 1 .. Len(t) : t[n] = sep}
    OBVIOUS
<1>10. i \in S
    <2>1. i \in 1 .. Len(t) /\ 1 \in 1 .. Len(y) /\ 1 \in 1 .. Len(x)
        BY <1>2, <1>4, <1>6, <1>7, <1>8
    <2>2. t[i] = sep
        BY <1>2, <1>4, <1>6, <1>8, <2>1
    <2> QED
        BY <1>9, <2>1, <2>2
<1>11. ASSUME NEW n \in S PROVE i <= n
    <2>1. n \in 1 .. Len(t) /\ t[n] = sep
        BY <1>9
    <2>2. ~(n \in 1 .. Len(u))
        BY <1>6, <2>1 DEF Without
    <2> QED
        BY <1>7, <1>8, <2>1, <2>2
<1>12. S \in SUBSET Nat /\ S # {} /\ i # 0
    BY <1>7, <1>8, <1>9, <1>10
<1>13. Min(S) = i
    BY <1>10, <1>11, <1>12, MinOf
<1>14. SelectInSeq(t, LAMBDA c : c = sep) = i
    <2>1. SelectInSeq(t, LAMBDA c : c = sep) = IF S # {} THEN Min(S) ELSE 0
        BY <1>9 DEF SelectInSeq
    <2> QED
        BY <1>12, <1>13, <2>1
<1>15. Divide(t, sep) = <<SubSeq(t, 1, i - 1), SubSeq(t, i + 1, Len(t))>>
    BY <1>12, <1>14, Zenon DEF Divide, From
<1>16. i - 1 = Len(u)
    BY <1>7, <1>8
<1>17. SubSeq(t, 1, Len(u)) = u
    BY <1>4, <1>5, FrontPart
<1>18. SubSeq(t, i + 1, Len(t)) = v
    <2>1. PICK z : z = u \o x
        OBVIOUS
    <2>2. z \in Texts /\ Len(z) = i
        <3>1. z \in Texts /\ Len(z) = Len(u) + Len(x)
            BY <1>2, <2>1, Together
        <3> QED
            BY <1>2, <1>8, <3>1
    <2>3. t = z \o v
        BY <1>2, <1>3, <1>5, <2>1, Regroup
    <2> QED
        BY <2>2, <2>3, FrontPart
<1>19. Divide(t, sep) = <<u, v>>
    BY <1>15, <1>16, <1>17, <1>18
<1>20. Divide(t, sep)[1] = u /\ Divide(t, sep)[2] = v
    BY ONLY <1>19
<1> QED
    BY <1>1, <1>3, <1>5, <1>20

LEMMA Undivided ==
    ASSUME NEW u \in Texts, NEW sep, Without(u, sep)
    PROVE  Divide(u, sep) = <<u, <<>>>>
<1>1. PICK S : S = {n \in 1 .. Len(u) : u[n] = sep}
    OBVIOUS
<1>2. S = {}
    BY <1>1 DEF Without
<1>3. SelectInSeq(u, LAMBDA c : c = sep) = IF S # {} THEN Min(S) ELSE 0
    BY <1>1 DEF SelectInSeq
<1>4. SelectInSeq(u, LAMBDA c : c = sep) = 0
    BY <1>2, <1>3
<1> QED
    BY <1>4, Zenon DEF Divide

\* The space between the colon and the value.
LEMMA SpaceTaken ==
    ASSUME NEW u \in Texts, u # <<>>, u[1] # Space
    PROVE  Unspaced(<<Space>> \o u) = u
<1>1. PICK x : x = <<Space>>
    OBVIOUS
<1>2. x \in Texts /\ Len(x) = 1 /\ x[1] = Space
    <2>1. Space \in Symbols
        BY Zenon DEF Symbols, Named
    <2> QED
        BY <1>1, <2>1, Character1
<1>3. PICK t : t = x \o u
    OBVIOUS
<1>4. Len(u) \in Nat \ {0}
    BY TextShape
<1>5. t \in Texts /\ Len(t) = 1 + Len(u) /\ t[1] = Space /\ t[2] = u[1]
    <2>1. /\ t \in Texts /\ Len(t) = Len(x) + Len(u)
          /\ \A n \in 1 .. Len(x) : t[n] = x[n]
          /\ \A n \in 1 .. Len(u) : t[Len(x) + n] = u[n]
        BY <1>2, <1>3, Together
    <2>2. 1 \in 1 .. Len(x) /\ 1 \in 1 .. Len(u) /\ Len(x) + 1 = 2
        BY <1>2, <1>4
    <2> QED
        BY <1>2, <2>1, <2>2
<1>6. PICK S : S = {n \in 1 .. Len(t) : t[n] # Space}
    OBVIOUS
<1>7. 2 \in S /\ 1 \notin S /\ S \in SUBSET Nat
    BY <1>4, <1>5, <1>6
<1>8. \A n \in S : 2 <= n
    BY <1>4, <1>5, <1>6, <1>7
<1>9. Min(S) = 2
    BY <1>7, <1>8, MinOf
<1>10. SelectInSeq(t, LAMBDA c : c # Space) = 2
    <2>1. SelectInSeq(t, LAMBDA c : c # Space) = IF S # {} THEN Min(S) ELSE 0
        BY <1>6 DEF SelectInSeq
    <2> QED
        BY <1>7, <1>9, <2>1
<1>11. Unspaced(t) = SubSeq(t, 2, Len(t))
    <2>1. PICK i : i = 2
        OBVIOUS
    <2>2. i # 0
        BY <2>1
    <2>3. SelectInSeq(t, LAMBDA c : c # Space) = i
        BY <1>10, <2>1
    <2>4. Unspaced(t) = SubSeq(t, i, Len(t))
        BY <2>2, <2>3, Zenon DEF Unspaced, From
    <2> QED
        BY <2>1, <2>4
<1>12. SubSeq(t, Len(x) + 1, Len(t)) = u
    BY <1>2, <1>3, FrontPart
<1>13. Len(x) + 1 = 2
    BY <1>2
<1> QED
    BY <1>1, <1>3, <1>11, <1>12, <1>13

-----------------------------------------------------------------------------
(***************************************************************************)
(* Escapes.                                                                *)
(***************************************************************************)
\* The part u of a text, behind a.
Sits(u, text, a) == a + Len(u) <= Len(text) /\ \A i \in 1 .. Len(u) : text[a + i] = u[i]

LEMMA AppendTo ==
    ASSUME NEW d \in Texts, NEW p \in Texts, NEW c \in Symbols
    PROVE  Append(d \o p, c) = d \o Append(p, c) /\ Append(p, c) \in Texts
<1>1. PICK x : x = <<c>>
    OBVIOUS
<1>2. x \in Texts
    BY <1>1, Character1
<1>3. d \o p \in Texts
    BY Together
<1>4. PICK dp : dp = d \o p
    OBVIOUS
<1>5. Append(dp, c) = dp \o x
    <2>1. dp \in Seq(Symbols)
        BY <1>3, <1>4 DEF Texts
    <2> QED
        BY <1>1, <2>1, Longer
<1>6. Append(p, c) = p \o x /\ Append(p, c) \in Seq(Symbols)
    <2>1. p \in Seq(Symbols)
        BY DEF Texts
    <2> QED
        BY <1>1, <2>1, Longer
<1>7. dp \o x = d \o (p \o x)
    BY <1>2, <1>4, Regroup
<1> QED
    BY <1>4, <1>5, <1>6, <1>7 DEF Texts

LEMMA DecodeRounds ==
    ASSUME NEW start, NEW rounds \in Nat
    PROVE  \E f : /\ f = [n \in 0 .. rounds |-> IF n = 0 THEN start ELSE DecodeNext(f[n - 1])]
                  /\ Loop(start, DecodeNext, rounds) = f[rounds]
<1> DEFINE After(f, m) == f = [n \in 0 .. m |-> IF n = 0 THEN start ELSE DecodeNext(f[n - 1])]
           There == {m \in 0 .. rounds : \E f : After(f, m)}
<1>1. 0 \in There
    <2>1. PICK f : f = [n \in 0 .. 0 |-> start]
        OBVIOUS
    <2>2. After(f, 0)
        BY <2>1
    <2> QED
        BY <2>2
<1>2. ASSUME NEW m \in 0 .. rounds - 1, m \in There PROVE m + 1 \in There
    <2>1. PICK f : After(f, m)
        BY <1>2
    <2>2. PICK g : g = [n \in 0 .. m + 1 |-> IF n <= m THEN f[n] ELSE DecodeNext(f[m])]
        OBVIOUS
    <2>3. ASSUME NEW n \in 0 .. m + 1 PROVE g[n] = IF n = 0 THEN start ELSE DecodeNext(g[n - 1])
        BY <2>1, <2>2
    <2>4. After(g, m + 1)
        BY <2>2, <2>3
    <2> QED
        BY <2>4
<1>3. rounds \in There
    <2> HIDE DEF There
    <2> QED
        BY <1>1, <1>2, Upwards
<1>4. PICK f : After(f, rounds)
    BY <1>3
<1>5. Loop(start, DecodeNext, rounds) = (CHOOSE g : After(g, rounds))[rounds]
    BY DEF Loop
<1>6. After((CHOOSE g : After(g, rounds)), rounds)
    BY <1>4
<1> QED
    BY <1>5, <1>6

\* The rounds in which a text is decoded.
Decoding(f, text) ==
    /\ f[0] = [text |-> text, at |-> 1, done |-> <<>>]
    /\ \A n \in 1 .. Len(text) : f[n] = DecodeNext(f[n - 1])
    /\ Decode(text) = f[Len(text)].done

\* Its first i characters give d.
Decoded(f, text, i, d) == \E n \in 0 .. i : f[n] = [text |-> text, at |-> i + 1, done |-> d]

LEMMA DecodingRounds ==
    ASSUME NEW text \in Texts
    PROVE  \E f : Decoding(f, text)
<1>1. PICK start : start = [text |-> text, at |-> 1, done |-> <<>>]
    OBVIOUS
<1>2. PICK m \in Nat : m = Len(text)
    BY TextShape
<1>3. PICK f : /\ f = [n \in 0 .. m |-> IF n = 0 THEN start ELSE DecodeNext(f[n - 1])]
               /\ Loop(start, DecodeNext, m) = f[m]
    BY DecodeRounds
<1>4. f[0] = start /\ \A n \in 1 .. m : f[n] = DecodeNext(f[n - 1])
    BY <1>3
<1>5. Decode(text) = f[m].done
    BY <1>1, <1>2, <1>3, Zenon DEF Decode
<1> QED
    BY <1>1, <1>2, <1>4, <1>5 DEF Decoding

LEMMA DecodedStart ==
    ASSUME NEW text \in Texts, NEW f, Decoding(f, text)
    PROVE  Decoded(f, text, 0, <<>>)
<1>1. f[0] = [text |-> text, at |-> 1, done |-> <<>>]
    BY DEF Decoding
<1>2. PICK z \in Nat : z = 0
    OBVIOUS
<1>3. z \in 0 .. z /\ z + 1 = 1
    BY <1>2
<1>4. Decoded(f, text, z, <<>>)
    BY <1>1, <1>2, <1>3 DEF Decoded
<1> QED
    BY <1>2, <1>4

LEMMA PlainNext ==
    ASSUME NEW text \in Texts, NEW f, Decoding(f, text), NEW i \in 0 .. Len(text) - 1, NEW d,
           Decoded(f, text, i, d), text[i + 1] # "%"
    PROVE  Decoded(f, text, i + 1, Append(d, text[i + 1]))
<1>1. Len(text) \in Nat
    BY TextShape
<1>2. PICK n \in 0 .. i : f[n] = [text |-> text, at |-> i + 1, done |-> d]
    BY DEF Decoded
<1>3. PICK r : r = f[n]
    OBVIOUS
<1>4. r.text = text /\ r.at = i + 1 /\ r.done = d
    BY <1>2, <1>3
<1>5. n + 1 \in 1 .. Len(text) /\ (n + 1) - 1 = n /\ n + 1 \in 0 .. i + 1 /\ ~(i + 1 > Len(text))
    BY <1>1
<1>6. f[n + 1] = DecodeNext(r)
    BY <1>3, <1>5 DEF Decoding
<1>7. ~Escaped(r.text, r.at)
    BY <1>4, Zenon DEF Escaped
<1>8. DecodeNext(r) = [text |-> r.text, at |-> r.at + 1, done |-> Append(r.done, r.text[r.at])]
    <2>1. ~(r.at > Len(r.text))
        BY <1>4, <1>5
    <2> QED
        BY <1>7, <2>1, Zenon DEF DecodeNext
<1>9. f[n + 1] = [text |-> text, at |-> (i + 1) + 1, done |-> Append(d, text[i + 1])]
    BY <1>4, <1>6, <1>8, Zenon
<1> QED
    BY <1>5, <1>9 DEF Decoded

LEMMA EscapeNext ==
    ASSUME NEW text \in Texts, NEW f, Decoding(f, text), NEW i \in 0 .. Len(text) - 3, NEW d,
           Decoded(f, text, i, d), Escaped(text, i + 1)
    PROVE  Decoded(f, text, i + 3, Append(d, Character[FromHex(text, (i + 1) + 1)]))
<1>1. Len(text) \in Nat
    BY TextShape
<1>2. PICK n \in 0 .. i : f[n] = [text |-> text, at |-> i + 1, done |-> d]
    BY DEF Decoded
<1>3. PICK r : r = f[n]
    OBVIOUS
<1>4. r.text = text /\ r.at = i + 1 /\ r.done = d
    BY <1>2, <1>3
<1>5. n + 1 \in 1 .. Len(text) /\ (n + 1) - 1 = n /\ n + 1 \in 0 .. i + 3 /\ ~(i + 1 > Len(text))
    BY <1>1
<1>6. f[n + 1] = DecodeNext(r)
    BY <1>3, <1>5 DEF Decoding
<1>7. Escaped(r.text, r.at) /\ ~(r.at > Len(r.text))
    BY <1>4, <1>5
<1>8. DecodeNext(r) = [text |-> r.text, at |-> r.at + 3,
                       done |-> Append(r.done, Character[FromHex(r.text, r.at + 1)])]
    BY <1>7, Zenon DEF DecodeNext
<1>9. f[n + 1] = [text |-> text, at |-> (i + 1) + 3,
                  done |-> Append(d, Character[FromHex(text, (i + 1) + 1)])]
    BY <1>4, <1>6, <1>8, Zenon
<1>10. (i + 1) + 3 = (i + 3) + 1
    OBVIOUS
<1> QED
    BY <1>5, <1>9, <1>10, Zenon DEF Decoded

LEMMA DecodedEnd ==
    ASSUME NEW text \in Texts, NEW f, Decoding(f, text), NEW d, Decoded(f, text, Len(text), d)
    PROVE  Decode(text) = d
<1>1. PICK m \in Nat : m = Len(text)
    BY TextShape
<1>2. PICK n \in 0 .. m : f[n] = [text |-> text, at |-> m + 1, done |-> d]
    BY <1>1 DEF Decoded
<1>3. PICK last : last = [text |-> text, at |-> m + 1, done |-> d]
    OBVIOUS
<1> DEFINE Good == {k \in 0 .. m - n : f[n + k] = last}
<1>4. 0 \in Good
    <2>1. n + 0 = n /\ 0 \in 0 .. m - n
        OBVIOUS
    <2> QED
        BY <1>2, <1>3, <2>1
<1>5. ASSUME NEW k \in 0 .. (m - n) - 1, k \in Good PROVE k + 1 \in Good
    <2>1. k + 1 \in 0 .. m - n /\ n + (k + 1) \in 1 .. Len(text) /\ (n + (k + 1)) - 1 = n + k
        BY <1>1
    <2>2. f[n + (k + 1)] = DecodeNext(last)
        BY <1>5, <2>1 DEF Decoding
    <2>3. last.at > Len(last.text)
        BY <1>1, <1>3
    <2>4. DecodeNext(last) = last
        BY <2>3, Zenon DEF DecodeNext
    <2> QED
        BY <2>1, <2>2, <2>4
<1>6. m - n \in Good
    <2>1. m - n \in Nat /\ m - n \in 0 .. m - n /\ \A k \in 0 .. (m - n) - 1 : k \in Good => k + 1 \in Good
        BY <1>5
    <2> HIDE DEF Good
    <2> QED
        BY <1>4, <2>1, Upwards
<1>7. f[m] = last
    <2>1. n + (m - n) = m
        OBVIOUS
    <2> QED
        BY <1>6, <2>1
<1>8. last.done = d
    BY <1>3
<1> QED
    BY <1>1, <1>7, <1>8 DEF Decoding

\* A part without escapes gives itself.
LEMMA PlainRun ==
    ASSUME NEW text \in Texts, NEW f, Decoding(f, text), NEW a \in Nat, NEW u \in Texts, NEW d \in Texts,
           Sits(u, text, a), Without(u, "%"), Decoded(f, text, a, d)
    PROVE  Decoded(f, text, a + Len(u), d \o u)
<1>1. Len(u) \in Nat /\ Len(text) \in Nat /\ a + Len(u) <= Len(text)
    BY TextShape DEF Sits
<1> DEFINE Good == {n \in 0 .. Len(u) : Decoded(f, text, a + n, d \o SubSeq(u, 1, n))}
<1>2. 0 \in Good
    <2>1. a + 0 = a /\ 0 \in 0 .. Len(u)
        BY <1>1
    <2>2. d \o SubSeq(u, 1, 0) = d
        BY EmptyPart, TextShape
    <2> QED
        BY <2>1, <2>2
<1>3. ASSUME NEW n \in 0 .. Len(u) - 1, n \in Good PROVE n + 1 \in Good
    <2>1. /\ n + 1 \in 1 .. Len(u) /\ n + 1 \in 0 .. Len(u) /\ a + (n + 1) = (a + n) + 1
          /\ a + n \in 0 .. Len(text) - 1 /\ n \in 0 .. Len(u)
        BY <1>1
    <2>2. PICK p : p = SubSeq(u, 1, n)
        OBVIOUS
    <2>3. p \in Texts
        <3>1. PICK z : z = 0
            OBVIOUS
        <3>2. z \in 0 .. Len(u) /\ n \in z .. Len(u) /\ z + 1 = 1
            BY <1>1, <3>1
        <3>3. SubSeq(u, z + 1, n) \in Texts
            BY <3>2, Part
        <3> QED
            BY <2>2, <3>2, <3>3
    <2>4. PICK c : c = u[n + 1]
        OBVIOUS
    <2>5. c \in Symbols /\ c # "%" /\ text[(a + n) + 1] = c
        BY <2>1, <2>4, TextShape DEF Sits, Without
    <2>6. Decoded(f, text, a + n, d \o p)
        BY <1>3, <2>2
    <2>7. Decoded(f, text, (a + n) + 1, Append(d \o p, c))
        BY <2>1, <2>5, <2>6, PlainNext
    <2>8. Append(d \o p, c) = d \o Append(p, c)
        BY <2>3, <2>5, AppendTo
    <2>9. Append(p, c) = SubSeq(u, 1, n + 1)
        BY <2>2, <2>4, OneMore
    <2> QED
        BY <2>1, <2>7, <2>8, <2>9
<1>4. Len(u) \in Good
    <2>1. Len(u) \in 0 .. Len(u) /\ \A n \in 0 .. Len(u) - 1 : n \in Good => n + 1 \in Good
        BY <1>1, <1>3
    <2> HIDE DEF Good
    <2> QED
        BY <1>1, <1>2, <2>1, Upwards
<1> QED
    BY <1>4, EmptyPart

LEMMA PlainText ==
    ASSUME NEW u \in Texts, Without(u, "%")
    PROVE  Decode(u) = u
<1>1. PICK f : Decoding(f, u)
    BY DecodingRounds
<1>2. PICK z \in Nat : z = 0
    OBVIOUS
<1>3. PICK e : e = <<>>
    OBVIOUS
<1>4. Decoded(f, u, z, e)
    BY <1>1, <1>2, <1>3, DecodedStart
<1>5. e \in Texts
    BY <1>3 DEF Texts
<1>6. Len(u) \in Nat /\ z + Len(u) = Len(u) /\ \A i \in 1 .. Len(u) : z + i = i
    BY <1>2, TextShape
<1>7. Sits(u, u, z)
    BY <1>6 DEF Sits
<1>8. Decoded(f, u, z + Len(u), e \o u)
    BY <1>1, <1>4, <1>5, <1>7, PlainRun
<1>9. e \o u = u
    BY <1>3, TextShape
<1> QED
    BY <1>1, <1>6, <1>8, <1>9, DecodedEnd

LEMMA HexTable ==
    /\ HexDigits[1] = "0" /\ HexDigits[2] = "1" /\ HexDigits[3] = "2" /\ HexDigits[4] = "3"
    /\ HexDigits[5] = "4" /\ HexDigits[6] = "5" /\ HexDigits[7] = "6" /\ HexDigits[8] = "7"
    /\ HexDigits[9] = "8" /\ HexDigits[10] = "9" /\ HexDigits[11] = "A" /\ HexDigits[12] = "B"
    /\ HexDigits[13] = "C" /\ HexDigits[14] = "D" /\ HexDigits[15] = "E" /\ HexDigits[16] = "F"
    /\ LowerDigits[1] = "a" /\ LowerDigits[2] = "b" /\ LowerDigits[3] = "c"
    /\ LowerDigits[4] = "d" /\ LowerDigits[5] = "e" /\ LowerDigits[6] = "f"
    /\ DOMAIN HexDigits = 1 .. 16 /\ DOMAIN LowerDigits = 1 .. 6
BY DEF HexDigits, LowerDigits

LEMMA Sixteen ==
    ASSUME NEW v \in 0 .. 15
    PROVE  v \in {0, 1, 2, 3, 4, 5, 6, 7, 8, 9, 10, 11, 12, 13, 14, 15}
OBVIOUS

\* A digit has one value.
LEMMA DigitValue ==
    ASSUME NEW v \in 0 .. 15
    PROVE  HexValue(HexDigits[v + 1]) = v /\ IsHex(HexDigits[v + 1])
<1>1. PICK c : c = HexDigits[v + 1]
    OBVIOUS
<1>2. ASSUME NEW w \in 0 .. 15, HexDigits[w + 1] = c \/ (w > 9 /\ LowerDigits[w - 9] = c)
      PROVE  w = v
    <2>1. ASSUME HexDigits[w + 1] = c PROVE w = v
        <3>1. HexDigits[w + 1] = HexDigits[v + 1]
            BY <1>1, <2>1
        <3> QED
            BY <3>1, HexTable, Sixteen
    <2>2. ASSUME w > 9, LowerDigits[w - 9] = c PROVE FALSE
        <3>1. LowerDigits[w - 9] = HexDigits[v + 1] /\ w - 9 \in 1 .. 6
            BY <1>1, <2>2
        <3>2. LowerDigits[w - 9] \in {"a", "b", "c", "d", "e", "f"}
            BY <3>1, HexTable
        <3>3. HexDigits[v + 1] \in {"0", "1", "2", "3", "4", "5", "6", "7", "8", "9", "A", "B", "C", "D", "E", "F"}
            BY HexTable, Sixteen
        <3> QED
            BY <3>1, <3>2, <3>3
    <2> QED
        BY <1>2, <2>1, <2>2
<1>3. \E w \in 0 .. 15 : HexDigits[w + 1] = c \/ (w > 9 /\ LowerDigits[w - 9] = c)
    BY <1>1
<1>4. HexValue(c) = v
    BY <1>2, <1>3, Zenon DEF HexValue
<1>5. IsHex(c)
    <2>1. v + 1 \in DOMAIN HexDigits
        BY HexTable
    <2> QED
        BY <1>1, <2>1 DEF IsHex, Range
<1> QED
    BY <1>1, <1>4, <1>5

LEMMA LowerA == HexValue("a") = 10 /\ IsHex("a")
<1>1. ASSUME NEW w \in 0 .. 15, HexDigits[w + 1] = "a" \/ (w > 9 /\ LowerDigits[w - 9] = "a")
      PROVE  w = 10
    <2>1. HexDigits[w + 1] \in {"0", "1", "2", "3", "4", "5", "6", "7", "8", "9", "A", "B", "C", "D", "E", "F"}
        BY HexTable, Sixteen
    <2>2. w > 9 /\ LowerDigits[w - 9] = "a"
        BY <1>1, <2>1
    <2>3. w - 9 \in {1, 2, 3, 4, 5, 6}
        BY <2>2
    <2>4. w - 9 = 1
        BY <2>2, <2>3, HexTable
    <2> QED
        BY <2>4
<1>2. PICK t \in 0 .. 15 : t = 10
    OBVIOUS
<1>3. HexDigits[t + 1] = "a" \/ (t > 9 /\ LowerDigits[t - 9] = "a")
    <2>1. t > 9 /\ t - 9 = 1
        BY <1>2
    <2> QED
        BY <2>1, HexTable
<1>4. HexValue("a") = t
    <2>1. \A w \in 0 .. 15 : HexDigits[w + 1] = "a" \/ (w > 9 /\ LowerDigits[w - 9] = "a") => w = t
        BY <1>1, <1>2
    <2> QED
        BY <1>3, <2>1, Zenon DEF HexValue
<1>5. IsHex("a")
    <2>1. 1 \in DOMAIN LowerDigits /\ LowerDigits[1] = "a"
        BY HexTable
    <2> QED
        BY <2>1, Zenon DEF IsHex, Range
<1> QED
    BY <1>2, <1>4, <1>5

\* The two ways to escape a colon.
LEMMA ColonEscaped ==
    ASSUME NEW text \in Texts, NEW i \in 0 .. Len(text) - 3, text[i + 1] = "%", text[i + 2] = "3",
           text[i + 3] \in {"A", "a"}
    PROVE  Escaped(text, i + 1) /\ Character[FromHex(text, (i + 1) + 1)] = ":"
<1>1. Len(text) \in Nat
    BY TextShape
<1>2. HexValue("3") = 3 /\ IsHex("3")
    <2>1. PICK v \in 0 .. 15 : v = 3
        OBVIOUS
    <2>2. HexValue(HexDigits[v + 1]) = v /\ IsHex(HexDigits[v + 1])
        BY DigitValue
    <2>3. v + 1 = 4
        BY <2>1
    <2> QED
        BY <2>1, <2>2, <2>3, HexTable
<1>3. HexValue("A") = 10 /\ IsHex("A")
    <2>1. PICK v \in 0 .. 15 : v = 10
        OBVIOUS
    <2>2. HexValue(HexDigits[v + 1]) = v /\ IsHex(HexDigits[v + 1])
        BY DigitValue
    <2>3. v + 1 = 11
        BY <2>1
    <2> QED
        BY <2>1, <2>2, <2>3, HexTable
<1>4. HexValue(text[i + 3]) = 10 /\ IsHex(text[i + 3])
    BY <1>3, LowerA
<1>5. (i + 1) + 1 = i + 2 /\ (i + 1) + 2 = i + 3 /\ (i + 2) + 1 = i + 3 /\ (i + 1) + 2 <= Len(text)
    BY <1>1
<1>6. Escaped(text, i + 1)
    BY <1>2, <1>4, <1>5 DEF Escaped
<1>7. FromHex(text, i + 2) = 16 * 3 + 10
    BY <1>2, <1>4, <1>5 DEF FromHex
<1>8. FromHex(text, (i + 1) + 1) = 58
    BY <1>5, <1>7
<1>9. Character[58] = ":"
    BY DEF Character
<1> QED
    BY <1>6, <1>8, <1>9

\* One part and the part behind it.
LEMMA SitsApart ==
    ASSUME NEW u \in Texts, NEW v \in Texts, NEW text \in Texts, NEW a \in Nat, Sits(u \o v, text, a)
    PROVE  Sits(u, text, a) /\ Sits(v, text, a + Len(u))
<1>1. PICK t : t = u \o v
    OBVIOUS
<1>2. /\ Len(t) = Len(u) + Len(v) /\ \A i \in 1 .. Len(u) : t[i] = u[i]
      /\ \A i \in 1 .. Len(v) : t[Len(u) + i] = v[i]
    BY <1>1, Together
<1>3. a + Len(t) <= Len(text) /\ \A i \in 1 .. Len(t) : text[a + i] = t[i]
    BY <1>1 DEF Sits
<1>4. Len(u) \in Nat /\ Len(v) \in Nat /\ Len(text) \in Nat
    BY TextShape
<1>5. a + Len(u) <= Len(text) /\ (a + Len(u)) + Len(v) <= Len(text)
    BY <1>2, <1>3, <1>4
<1>6. ASSUME NEW i \in 1 .. Len(u) PROVE text[a + i] = u[i]
    <2>1. i \in 1 .. Len(t)
        BY <1>2, <1>4
    <2> QED
        BY <1>2, <1>3, <2>1
<1>7. ASSUME NEW i \in 1 .. Len(v) PROVE text[(a + Len(u)) + i] = v[i]
    <2>1. Len(u) + i \in 1 .. Len(t) /\ (a + Len(u)) + i = a + (Len(u) + i)
        BY <1>2, <1>4
    <2> QED
        BY <1>2, <1>3, <2>1
<1> QED
    BY <1>5, <1>6, <1>7 DEF Sits

\* How the wire may have a character, and what is read then.
LEMMA LetterDecoded ==
    ASSUME NEW text \in Texts, NEW f, Decoding(f, text), NEW a \in Nat, NEW d,
           NEW c \in Symbols, c # "%", NEW x \in Spelling(c), Sits(x, text, a), Decoded(f, text, a, d)
    PROVE  Decoded(f, text, a + Len(x), Append(d, c))
<1>1. Len(text) \in Nat
    BY TextShape
<1>2. CASE x = <<c>>
    <2>1. Len(x) = 1 /\ x[1] = c
        BY <1>2, Character1
    <2>2. a \in 0 .. Len(text) - 1 /\ text[a + 1] = c
        BY <1>1, <2>1 DEF Sits
    <2>3. Decoded(f, text, a + 1, Append(d, text[a + 1]))
        BY <2>2, PlainNext
    <2> QED
        BY <2>1, <2>2, <2>3
<1>3. CASE c = ":" /\ x \in {<<"%", "3", "A">>, <<"%", "3", "a">>}
    <2>1. Len(x) = 3 /\ x[1] = "%" /\ x[2] = "3" /\ x[3] \in {"A", "a"}
        BY ONLY <1>3
    <2>2. a + 3 <= Len(text) /\ \A i \in 1 .. 3 : text[a + i] = x[i]
        BY <2>1 DEF Sits
    <2>3. /\ a \in 0 .. Len(text) - 3 /\ text[a + 1] = "%" /\ text[a + 2] = "3"
          /\ text[a + 3] \in {"A", "a"}
        BY <1>1, <2>1, <2>2
    <2>4. Escaped(text, a + 1) /\ Character[FromHex(text, (a + 1) + 1)] = ":"
        BY <2>3, ColonEscaped
    <2>5. Decoded(f, text, a + 3, Append(d, Character[FromHex(text, (a + 1) + 1)]))
        BY <2>3, <2>4, EscapeNext
    <2> QED
        BY <1>3, <2>1, <2>4, <2>5
<1>4. x = <<c>> \/ (c = ":" /\ x \in {<<"%", "3", "A">>, <<"%", "3", "a">>})
    BY DEF Spelling
<1> QED
    BY <1>2, <1>3, <1>4

LEMMA SpellingTexts ==
    ASSUME NEW c \in Symbols, NEW x \in Spelling(c)
    PROVE  /\ x \in Texts /\ Len(x) > 0
           /\ \A i \in 1 .. Len(x) : x[i] \in {c, "%", "3", "A", "a"}
<1>1. CASE x = <<c>>
    <2>1. x \in Texts /\ Len(x) = 1 /\ x[1] = c
        BY <1>1, Character1
    <2> QED
        BY <2>1
<1>2. CASE x \in {<<"%", "3", "A">>, <<"%", "3", "a">>}
    <2>1. PICK last \in {"A", "a"} : x = <<"%", "3", last>>
        BY <1>2
    <2>2. {"%", "3", "A", "a"} \subseteq Symbols
        BY DEF Symbols, Named
    <2>3. PICK S : S = Symbols
        OBVIOUS
    <2>4. x \in Seq(S) /\ Len(x) = 3 /\ x[1] = "%" /\ x[2] = "3" /\ x[3] = last
        <3>1. "%" \in S /\ "3" \in S /\ last \in S
            BY <2>2, <2>3
        <3> QED
            BY ONLY <2>1, <3>1
    <2> QED
        BY <2>3, <2>4 DEF Texts
<1>3. x = <<c>> \/ x \in {<<"%", "3", "A">>, <<"%", "3", "a">>}
    BY DEF Spelling
<1> QED
    BY <1>1, <1>2, <1>3

LEMMA SpellingRounds ==
    ASSUME NEW id \in Texts
    PROVE  \E f : /\ f[0] = {<<>>}
                  /\ \A n \in 1 .. Len(id) : f[n] = Spelt(f[n - 1], id[n])
                  /\ Spellings(id) = f[Len(id)]
<1> DEFINE After(f, m) == f = [n \in 0 .. m |-> IF n = 0 THEN {<<>>} ELSE Spelt(f[n - 1], id[n])]
           There == {m \in 0 .. Len(id) : \E f : After(f, m)}
<1>1. Len(id) \in Nat
    BY TextShape
<1>2. 0 \in There
    <2>1. PICK f : f = [n \in 0 .. 0 |-> {<<>>}]
        OBVIOUS
    <2>2. After(f, 0)
        BY <2>1
    <2> QED
        BY <1>1, <2>2
<1>3. ASSUME NEW m \in 0 .. Len(id) - 1, m \in There PROVE m + 1 \in There
    <2>1. PICK f : After(f, m)
        BY <1>3
    <2>2. PICK g : g = [n \in 0 .. m + 1 |-> IF n <= m THEN f[n] ELSE Spelt(f[m], id[m + 1])]
        OBVIOUS
    <2>3. ASSUME NEW n \in 0 .. m + 1
          PROVE  g[n] = IF n = 0 THEN {<<>>} ELSE Spelt(g[n - 1], id[n])
        <3>1. CASE n <= m
            <4>1. n \in 0 .. m /\ g[n] = f[n] /\ (n # 0 => g[n - 1] = f[n - 1])
                BY <1>1, <2>2, <3>1
            <4>2. f[n] = IF n = 0 THEN {<<>>} ELSE Spelt(f[n - 1], id[n])
                BY <2>1, <4>1
            <4> QED
                BY <4>1, <4>2
        <3>2. CASE ~(n <= m)
            <4>1. n = m + 1 /\ n # 0 /\ n - 1 = m /\ m \in 0 .. m + 1
                BY <1>1, <3>2
            <4>2. g[n] = Spelt(f[m], id[m + 1])
                BY <2>2, <3>2
            <4>3. g[m] = f[m]
                BY <2>2, <4>1
            <4> QED
                BY <4>1, <4>2, <4>3
        <3> QED
            BY <3>1, <3>2
    <2>4. After(g, m + 1)
        BY <2>2, <2>3
    <2>5. m + 1 \in 0 .. Len(id)
        BY <1>1
    <2> QED
        BY <2>4, <2>5
<1>4. Len(id) \in There
    <2> HIDE DEF There
    <2>1. Len(id) \in 0 .. Len(id) /\ \A m \in 0 .. Len(id) - 1 : m \in There => m + 1 \in There
        BY <1>1, <1>3
    <2> QED
        BY <1>1, <1>2, <2>1, Upwards
<1>5. PICK f : f = CHOOSE g : After(g, Len(id))
    OBVIOUS
<1>6. After(f, Len(id))
    BY <1>4, <1>5
<1>7. Spellings(id) = f[Len(id)]
    BY <1>5 DEF Spellings
<1>8. f[0] = {<<>>}
    BY <1>1, <1>6
<1>9. ASSUME NEW n \in 1 .. Len(id) PROVE f[n] = Spelt(f[n - 1], id[n])
    <2>1. n \in 0 .. Len(id) /\ n # 0
        BY <1>1
    <2> QED
        BY <1>6, <2>1
<1> QED
    BY <1>7, <1>8, <1>9

\* Nothing but escapes is added.
LEMMA SpellingsTexts ==
    ASSUME NEW id \in Texts, NEW z \in Spellings(id)
    PROVE  /\ z \in Texts /\ Len(z) >= Len(id)
           /\ \A i \in 1 .. Len(z) : z[i] \in {id[k] : k \in 1 .. Len(id)} \union {"%", "3", "A", "a"}
<1>1. PICK f : /\ f[0] = {<<>>}
               /\ \A n \in 1 .. Len(id) : f[n] = Spelt(f[n - 1], id[n])
               /\ Spellings(id) = f[Len(id)]
    BY SpellingRounds
<1>2. Len(id) \in Nat
    BY TextShape
<1>3. PICK Allowed : Allowed = {id[k] : k \in 1 .. Len(id)} \union {"%", "3", "A", "a"}
    OBVIOUS
<1> DEFINE Fine(y, n) == y \in Texts /\ Len(y) >= n /\ \A i \in 1 .. Len(y) : y[i] \in Allowed
           Good == {n \in 0 .. Len(id) : \A y \in f[n] : Fine(y, n)}
<1>4. 0 \in Good
    <2>1. ASSUME NEW y \in f[0] PROVE Fine(y, 0)
        <3>1. y = <<>>
            BY <1>1
        <3>2. y \in Texts /\ Len(y) = 0
            BY <3>1 DEF Texts
        <3> QED
            BY <3>2
    <2> QED
        BY <1>2, <2>1
<1>5. ASSUME NEW n \in 0 .. Len(id) - 1, n \in Good PROVE n + 1 \in Good
    <2>1. n + 1 \in 1 .. Len(id) /\ n + 1 \in 0 .. Len(id) /\ (n + 1) - 1 = n
        BY <1>2
    <2>2. PICK c : c = id[n + 1]
        OBVIOUS
    <2>3. c \in Symbols /\ c \in Allowed
        BY <1>3, <2>1, <2>2, TextShape
    <2>4. f[n + 1] = Spelt(f[n], c)
        BY <1>1, <2>1, <2>2
    <2>5. ASSUME NEW y \in f[n + 1] PROVE Fine(y, n + 1)
        <3>1. PICK u \in f[n], x \in Spelling(c) : y = u \o x
            BY <2>4 DEF Spelt
        <3>2. u \in Texts /\ Len(u) >= n /\ \A i \in 1 .. Len(u) : u[i] \in Allowed
            BY <1>5
        <3>3. x \in Texts /\ Len(x) > 0 /\ \A i \in 1 .. Len(x) : x[i] \in {c, "%", "3", "A", "a"}
            BY <2>3, SpellingTexts
        <3>4. \A i \in 1 .. Len(x) : x[i] \in Allowed
            BY <1>3, <2>3, <3>3
        <3>5. /\ y \in Texts /\ Len(y) = Len(u) + Len(x)
              /\ \A i \in 1 .. Len(u) : y[i] = u[i]
              /\ \A i \in 1 .. Len(x) : y[Len(u) + i] = x[i]
            BY <3>1, <3>2, <3>3, Together
        <3>6. Len(u) \in Nat /\ Len(x) \in Nat
            BY <3>2, <3>3, TextShape
        <3>7. Len(y) >= n + 1
            BY <3>2, <3>3, <3>5, <3>6
        <3>8. ASSUME NEW i \in 1 .. Len(y) PROVE y[i] \in Allowed
            <4>1. CASE i <= Len(u)
                <5>1. i \in 1 .. Len(u)
                    BY <3>6, <4>1
                <5> QED
                    BY <3>2, <3>5, <5>1
            <4>2. CASE ~(i <= Len(u))
                <5>1. PICK j \in 1 .. Len(x) : i = Len(u) + j
                    <6>1. i - Len(u) \in 1 .. Len(x) /\ i = Len(u) + (i - Len(u))
                        BY <3>5, <3>6, <4>2
                    <6> QED
                        BY <6>1
                <5> QED
                    BY <3>4, <3>5, <5>1
            <4> QED
                BY <4>1, <4>2
        <3> QED
            BY <3>5, <3>7, <3>8
    <2> HIDE DEF Fine
    <2> QED
        BY <2>1, <2>5
<1>6. Len(id) \in Good
    <2>1. Len(id) \in 0 .. Len(id) /\ \A n \in 0 .. Len(id) - 1 : n \in Good => n + 1 \in Good
        BY <1>2, <1>5
    <2> HIDE DEF Good
    <2> QED
        BY <1>2, <1>4, <2>1, Upwards
<1>7. Fine(z, Len(id))
    BY <1>1, <1>6
<1> QED
    BY <1>3, <1>7

\* However an id is spelled, it is read as it is.
LEMMA SpellingRun ==
    ASSUME NEW text \in Texts, NEW f, Decoding(f, text), NEW a \in Nat, NEW id \in Texts,
           Without(id, "%"), NEW z \in Spellings(id), Sits(z, text, a),
           NEW d \in Texts, Decoded(f, text, a, d)
    PROVE  Decoded(f, text, a + Len(z), d \o id)
<1>1. PICK g : /\ g[0] = {<<>>}
               /\ \A n \in 1 .. Len(id) : g[n] = Spelt(g[n - 1], id[n])
               /\ Spellings(id) = g[Len(id)]
    BY SpellingRounds
<1>2. Len(id) \in Nat
    BY TextShape
<1> DEFINE ReadsAs(y, n) ==
               y \in Texts /\ (Sits(y, text, a) => Decoded(f, text, a + Len(y), d \o SubSeq(id, 1, n)))
           Good == {n \in 0 .. Len(id) : \A y \in g[n] : ReadsAs(y, n)}
<1>3. 0 \in Good
    <2>1. ASSUME NEW y \in g[0] PROVE ReadsAs(y, 0)
        <3>1. y = <<>>
            BY <1>1
        <3>2. y \in Texts /\ a + Len(y) = a
            BY <3>1 DEF Texts
        <3>3. d \o SubSeq(id, 1, 0) = d
            BY EmptyPart, TextShape
        <3> QED
            BY <3>2, <3>3
    <2> HIDE DEF ReadsAs
    <2> QED
        BY <1>2, <2>1
<1>4. ASSUME NEW n \in 0 .. Len(id) - 1, n \in Good PROVE n + 1 \in Good
    <2>1. n + 1 \in 1 .. Len(id) /\ n + 1 \in 0 .. Len(id) /\ (n + 1) - 1 = n
        BY <1>2
    <2>2. PICK c : c = id[n + 1]
        OBVIOUS
    <2>3. c \in Symbols /\ c # "%"
        BY <2>1, <2>2, TextShape DEF Without
    <2>4. g[n + 1] = Spelt(g[n], c)
        BY <1>1, <2>1, <2>2
    <2>5. PICK p : p = SubSeq(id, 1, n)
        OBVIOUS
    <2>6. p \in Texts
        <3>1. PICK e : e = 0
            OBVIOUS
        <3>2. e \in 0 .. Len(id) /\ n \in e .. Len(id) /\ e + 1 = 1
            BY <1>2, <3>1
        <3>3. SubSeq(id, e + 1, n) \in Texts
            BY <3>2, Part
        <3> QED
            BY <2>5, <3>2, <3>3
    <2>7. ASSUME NEW y \in g[n + 1] PROVE ReadsAs(y, n + 1)
        <3>1. PICK u \in g[n], x \in Spelling(c) : y = u \o x
            BY <2>4 DEF Spelt
        <3>2. u \in Texts /\ (Sits(u, text, a) => Decoded(f, text, a + Len(u), d \o p))
            BY <1>4, <2>5
        <3>3. x \in Texts
            BY <2>3, SpellingTexts
        <3>4. y \in Texts /\ Len(y) = Len(u) + Len(x)
            BY <3>1, <3>2, <3>3, Together
        <3>5. ASSUME Sits(y, text, a) PROVE Decoded(f, text, a + Len(y), d \o SubSeq(id, 1, n + 1))
            <4>1. Sits(u, text, a) /\ Sits(x, text, a + Len(u))
                BY <3>1, <3>2, <3>3, <3>5, SitsApart
            <4>2. a + Len(u) \in Nat /\ (a + Len(u)) + Len(x) = a + Len(y)
                BY <3>2, <3>3, <3>4, TextShape
            <4>3. Decoded(f, text, a + Len(u), d \o p)
                BY <3>2, <4>1
            <4>4. Decoded(f, text, (a + Len(u)) + Len(x), Append(d \o p, c))
                BY <2>3, <4>1, <4>2, <4>3, LetterDecoded
            <4>5. Append(d \o p, c) = d \o Append(p, c)
                BY <2>3, <2>6, AppendTo
            <4>6. Append(p, c) = SubSeq(id, 1, n + 1)
                BY <2>2, <2>5, OneMore
            <4> QED
                BY <4>2, <4>4, <4>5, <4>6
        <3> QED
            BY <3>4, <3>5
    <2> HIDE DEF ReadsAs
    <2> QED
        BY <2>1, <2>7
<1>5. Len(id) \in Good
    <2> HIDE DEF Good
    <2>1. Len(id) \in 0 .. Len(id) /\ \A n \in 0 .. Len(id) - 1 : n \in Good => n + 1 \in Good
        BY <1>2, <1>4
    <2> QED
        BY <1>2, <1>3, <2>1, Upwards
<1>6. ReadsAs(z, Len(id))
    BY <1>1, <1>5
<1>7. SubSeq(id, 1, Len(id)) = id
    BY EmptyPart
<1> QED
    BY <1>6, <1>7

LEMMA WholeSits ==
    ASSUME NEW text \in Texts
    PROVE  Sits(text, text, 0)
<1>1. PICK z \in Nat : z = 0
    OBVIOUS
<1>2. Len(text) \in Nat /\ z + Len(text) = Len(text) /\ \A i \in 1 .. Len(text) : z + i = i
    BY <1>1, TextShape
<1>3. Sits(text, text, z)
    BY <1>2 DEF Sits
<1> QED
    BY <1>1, <1>3

\* A path with an id in it.
LEMMA PathDecoded ==
    ASSUME NEW p \in Texts, NEW q \in Texts, NEW id \in Texts, NEW z \in Spellings(id),
           Without(p, "%"), Without(q, "%"), Without(id, "%")
    PROVE  Decode((p \o z) \o q) = (p \o id) \o q
<1>1. z \in Texts
    BY SpellingsTexts
<1>2. PICK pz : pz = p \o z
    OBVIOUS
<1>3. pz \in Texts /\ Len(pz) = Len(p) + Len(z)
    BY <1>1, <1>2, Together
<1>4. PICK text : text = pz \o q
    OBVIOUS
<1>5. text \in Texts /\ Len(text) = Len(pz) + Len(q)
    BY <1>3, <1>4, Together
<1>6. PICK o \in Nat : o = 0
    OBVIOUS
<1>7. Sits(text, text, o)
    BY <1>5, <1>6, WholeSits
<1>8. Sits(pz, text, o) /\ Sits(q, text, o + Len(pz))
    BY <1>3, <1>4, <1>5, <1>7, SitsApart
<1>9. Sits(p, text, o) /\ Sits(z, text, o + Len(p))
    BY <1>1, <1>2, <1>5, <1>8, SitsApart
<1>10. Len(p) \in Nat /\ Len(z) \in Nat /\ Len(q) \in Nat
    BY <1>1, TextShape
<1>11. /\ o + Len(p) \in Nat /\ (o + Len(p)) + Len(z) = o + Len(pz) /\ o + Len(pz) \in Nat
       /\ (o + Len(pz)) + Len(q) = Len(text)
    BY <1>3, <1>5, <1>6, <1>10
<1>12. PICK f : Decoding(f, text)
    BY <1>5, DecodingRounds
<1>13. PICK e : e = <<>>
    OBVIOUS
<1>14. e \in Texts /\ e \o p = p
    BY <1>13, TextShape DEF Texts
<1>15. Decoded(f, text, o, e)
    BY <1>5, <1>6, <1>12, <1>13, DecodedStart
<1>16. Decoded(f, text, o + Len(p), e \o p)
    BY <1>5, <1>9, <1>12, <1>14, <1>15, PlainRun
<1>17. Decoded(f, text, (o + Len(p)) + Len(z), p \o id)
    BY <1>5, <1>9, <1>11, <1>12, <1>14, <1>16, SpellingRun
<1>18. p \o id \in Texts
    BY Together
<1>19. Decoded(f, text, (o + Len(pz)) + Len(q), (p \o id) \o q)
    BY <1>5, <1>8, <1>11, <1>12, <1>17, <1>18, PlainRun
<1>20. Decode(text) = (p \o id) \o q
    BY <1>5, <1>11, <1>12, <1>19, DecodedEnd
<1> QED
    BY <1>2, <1>4, <1>20

-----------------------------------------------------------------------------
(***************************************************************************)
(* Lengths.                                                                *)
(***************************************************************************)
LEMMA NumberRounds ==
    ASSUME NEW text \in Texts
    PROVE  \E f : /\ f[0] = 0
                  /\ \A n \in 1 .. Len(text) : f[n] = 10 * f[n - 1] + HexValue(text[n])
                  /\ Number(text) = f[Len(text)]
<1> DEFINE After(f, m) == f = [k \in 0 .. m |-> IF k = 0 THEN 0 ELSE 10 * f[k - 1] + HexValue(text[k])]
           There == {m \in 0 .. Len(text) : \E f : After(f, m)}
<1>1. Len(text) \in Nat
    BY TextShape
<1>2. 0 \in There
    <2>1. PICK f : f = [n \in 0 .. 0 |-> 0]
        OBVIOUS
    <2>2. After(f, 0)
        BY <2>1
    <2> QED
        BY <1>1, <2>2
<1>3. ASSUME NEW m \in 0 .. Len(text) - 1, m \in There PROVE m + 1 \in There
    <2>1. PICK f : After(f, m)
        BY <1>3
    <2>2. PICK g : g = [n \in 0 .. m + 1 |-> IF n <= m THEN f[n] ELSE 10 * f[m] + HexValue(text[m + 1])]
        OBVIOUS
    <2>3. ASSUME NEW n \in 0 .. m + 1
          PROVE  g[n] = IF n = 0 THEN 0 ELSE 10 * g[n - 1] + HexValue(text[n])
        <3>1. CASE n <= m
            <4>1. n \in 0 .. m /\ g[n] = f[n] /\ (n # 0 => g[n - 1] = f[n - 1])
                BY <1>1, <2>2, <3>1
            <4>2. f[n] = IF n = 0 THEN 0 ELSE 10 * f[n - 1] + HexValue(text[n])
                BY <2>1, <4>1
            <4> QED
                BY <4>1, <4>2
        <3>2. CASE ~(n <= m)
            <4>1. n = m + 1 /\ n # 0 /\ n - 1 = m /\ m \in 0 .. m + 1
                BY <1>1, <3>2
            <4>2. g[n] = 10 * f[m] + HexValue(text[m + 1])
                BY <2>2, <3>2
            <4>3. g[m] = f[m]
                BY <2>2, <4>1
            <4> QED
                BY <4>1, <4>2, <4>3
        <3> QED
            BY <3>1, <3>2
    <2>4. After(g, m + 1)
        BY <2>2, <2>3
    <2>5. m + 1 \in 0 .. Len(text)
        BY <1>1
    <2> QED
        BY <2>4, <2>5
<1>4. Len(text) \in There
    <2> HIDE DEF There
    <2>1. Len(text) \in 0 .. Len(text) /\ \A m \in 0 .. Len(text) - 1 : m \in There => m + 1 \in There
        BY <1>1, <1>3
    <2> QED
        BY <1>1, <1>2, <2>1, Upwards
<1>5. PICK f : f = CHOOSE g : After(g, Len(text))
    OBVIOUS
<1>6. After(f, Len(text))
    BY <1>4, <1>5
<1>7. Number(text) = f[Len(text)]
    BY <1>5 DEF Number
<1>8. f[0] = 0
    BY <1>1, <1>6
<1>9. ASSUME NEW n \in 1 .. Len(text) PROVE f[n] = 10 * f[n - 1] + HexValue(text[n])
    <2>1. n \in 0 .. Len(text) /\ n # 0
        BY <1>1
    <2> QED
        BY <1>6, <2>1
<1> QED
    BY <1>7, <1>8, <1>9

\* One digit more.
LEMMA NumberMore ==
    ASSUME NEW u \in Texts, NEW c \in Symbols
    PROVE  Number(Append(u, c)) = 10 * Number(u) + HexValue(c)
<1>1. PICK t : t = Append(u, c)
    OBVIOUS
<1>2. /\ t \in Texts /\ Len(t) = Len(u) + 1 /\ t[Len(u) + 1] = c
      /\ \A i \in 1 .. Len(u) : t[i] = u[i]
    <2>1. u \in Seq(Symbols)
        BY DEF Texts
    <2>2. t \in Seq(Symbols) /\ Len(t) = Len(u) + 1
        BY <1>1, <2>1, Longer
    <2>3. \A i \in 1 .. Len(u) : t[i] = u[i]
        BY <1>1, <2>1, Longer
    <2>4. t[Len(u) + 1] = c
        BY <1>1, <2>1, Longer
    <2> QED
        BY <2>2, <2>3, <2>4 DEF Texts
<1>3. Len(u) \in Nat
    BY TextShape
<1>4. PICK f : /\ f[0] = 0
               /\ \A n \in 1 .. Len(u) : f[n] = 10 * f[n - 1] + HexValue(u[n])
               /\ Number(u) = f[Len(u)]
    BY NumberRounds
<1>5. PICK g : /\ g[0] = 0
               /\ \A n \in 1 .. Len(t) : g[n] = 10 * g[n - 1] + HexValue(t[n])
               /\ Number(t) = g[Len(t)]
    BY <1>2, NumberRounds
<1> DEFINE Same == {n \in 0 .. Len(u) : g[n] = f[n]}
<1>6. 0 \in Same
    BY <1>3, <1>4, <1>5
<1>7. ASSUME NEW n \in 0 .. Len(u) - 1, n \in Same PROVE n + 1 \in Same
    <2>1. n + 1 \in 1 .. Len(u) /\ n + 1 \in 0 .. Len(u) /\ n + 1 \in 1 .. Len(t) /\ (n + 1) - 1 = n
        BY <1>2, <1>3
    <2>2. f[n + 1] = 10 * f[n] + HexValue(u[n + 1])
        BY <1>4, <2>1
    <2>3. g[n + 1] = 10 * g[n] + HexValue(t[n + 1])
        BY <1>5, <2>1
    <2>4. t[n + 1] = u[n + 1] /\ g[n] = f[n]
        BY <1>2, <1>7, <2>1
    <2> QED
        BY <2>1, <2>2, <2>3, <2>4
<1>8. Len(u) \in Same
    <2> HIDE DEF Same
    <2>1. Len(u) \in 0 .. Len(u) /\ \A n \in 0 .. Len(u) - 1 : n \in Same => n + 1 \in Same
        BY <1>3, <1>7
    <2> QED
        BY <1>3, <1>6, <2>1, Upwards
<1>9. Len(u) + 1 \in 1 .. Len(t) /\ (Len(u) + 1) - 1 = Len(u)
    BY <1>2, <1>3
<1>10. g[Len(u) + 1] = 10 * g[Len(u)] + HexValue(c)
    BY <1>2, <1>5, <1>9
<1>11. g[Len(u)] = Number(u)
    BY <1>4, <1>8
<1>12. Number(t) = g[Len(u) + 1]
    BY <1>2, <1>5
<1> QED
    BY <1>1, <1>10, <1>11, <1>12

LEMMA NumberNone == Number(<<>>) = 0
<1>1. PICK e : e = <<>>
    OBVIOUS
<1>2. e \in Texts /\ Len(e) = 0
    BY <1>1 DEF Texts
<1>3. PICK f : f[0] = 0 /\ Number(e) = f[Len(e)]
    BY <1>2, NumberRounds
<1> QED
    BY <1>1, <1>2, <1>3

LEMMA NumberOne ==
    ASSUME NEW v \in 0 .. 9
    PROVE  Number(<<HexDigits[v + 1]>>) = v
<1>1. PICK c : c = HexDigits[v + 1]
    OBVIOUS
<1>2. HexValue(c) = v /\ c \in Symbols
    <2>1. v \in 0 .. 15
        OBVIOUS
    <2>2. c \in Named
        BY <1>1, <2>1, Sixteen, HexTable DEF Named
    <2> QED
        BY <1>1, <2>1, <2>2, DigitValue, NamedSymbols
<1>3. PICK e : e = <<>>
    OBVIOUS
<1>4. e \in Texts /\ Number(e) = 0
    BY <1>3, NumberNone DEF Texts
<1>5. Number(Append(e, c)) = 10 * Number(e) + HexValue(c)
    BY <1>2, <1>4, NumberMore
<1>6. Append(e, c) = <<c>>
    BY <1>2, <1>3, Grown
<1>7. Number(<<c>>) = 10 * 0 + v
    BY <1>2, <1>4, <1>5, <1>6
<1> QED
    BY <1>1, <1>7

LEMMA Tens ==
    ASSUME NEW m \in Nat, m >= 10
    PROVE  m \div 10 \in 0 .. m - 1 /\ m % 10 \in 0 .. 9 /\ 10 * (m \div 10) + (m % 10) = m
OBVIOUS

LEMMA SpelledRounds ==
    ASSUME NEW n \in Nat
    PROVE  \E f : /\ \A m \in 0 .. n : f[m] = IF m < 10 THEN <<HexDigits[m + 1]>>
                                              ELSE Append(f[m \div 10], HexDigits[(m % 10) + 1])
                  /\ Spelled(n) = f[n]
<1> DEFINE OfDigits(f, m) == IF m < 10 THEN <<HexDigits[m + 1]>>
                          ELSE Append(f[m \div 10], HexDigits[(m % 10) + 1])
           After(f, k) == f = [m \in 0 .. k |-> OfDigits(f, m)]
           There == {k \in 0 .. n : \E f : After(f, k)}
<1>1. 0 \in There
    <2>1. PICK f : f = [m \in 0 .. 0 |-> <<HexDigits[m + 1]>>]
        OBVIOUS
    <2>2. ASSUME NEW m \in 0 .. 0 PROVE OfDigits(f, m) = <<HexDigits[m + 1]>>
        BY <2>1
    <2> HIDE DEF OfDigits
    <2>3. After(f, 0)
        BY <2>1, <2>2
    <2> QED
        BY <2>3
<1>2. ASSUME NEW k \in 0 .. n - 1, k \in There PROVE k + 1 \in There
    <2> HIDE DEF OfDigits
    <2>1. PICK f : After(f, k)
        BY <1>2
    <2>2. PICK g : g = [m \in 0 .. k + 1 |-> IF m <= k THEN f[m] ELSE OfDigits(f, k + 1)]
        OBVIOUS
    <2>3. ASSUME NEW m \in 0 .. k + 1 PROVE OfDigits(g, m) = OfDigits(f, m)
        <3>1. CASE m < 10
            BY <3>1, Zenon DEF OfDigits
        <3>2. CASE ~(m < 10)
            <4>1. m \div 10 \in 0 .. k + 1 /\ m \div 10 <= k
                BY <3>2, Tens
            <4>2. g[m \div 10] = f[m \div 10]
                BY <2>2, <4>1
            <4> QED
                BY <3>2, <4>2, Zenon DEF OfDigits
        <3> QED
            BY <3>1, <3>2
    <2>4. ASSUME NEW m \in 0 .. k + 1 PROVE g[m] = OfDigits(g, m)
        <3>1. CASE m <= k
            <4>1. g[m] = f[m] /\ m \in 0 .. k
                BY <2>2, <3>1
            <4>2. f[m] = OfDigits(f, m)
                BY <2>1, <4>1
            <4> QED
                BY <2>3, <4>1, <4>2
        <3>2. CASE ~(m <= k)
            <4>1. m = k + 1
                BY <3>2
            <4>2. g[m] = OfDigits(f, m)
                BY <2>2, <3>2, <4>1
            <4> QED
                BY <2>3, <4>2
        <3> QED
            BY <3>1, <3>2
    <2>5. After(g, k + 1)
        BY <2>2, <2>4
    <2> QED
        BY <2>5
<1>3. n \in There
    <2> HIDE DEF There
    <2>1. n \in 0 .. n /\ \A k \in 0 .. n - 1 : k \in There => k + 1 \in There
        BY <1>2
    <2> QED
        BY <1>1, <2>1, Upwards
<1>4. PICK f : f = CHOOSE g : After(g, n)
    OBVIOUS
<1>5. After(f, n)
    <2> HIDE DEF OfDigits
    <2> QED
        BY <1>3, <1>4
<1>6. Spelled(n) = f[n]
    BY <1>4, Zenon DEF Spelled
<1>7. ASSUME NEW m \in 0 .. n PROVE f[m] = OfDigits(f, m)
    <2> HIDE DEF OfDigits
    <2> QED
        BY <1>5
<1> QED
    BY <1>6, <1>7

\* The length that is written is the number that is read.
LEMMA SpelledNumber ==
    ASSUME NEW n \in Nat
    PROVE  /\ Spelled(n) \in Texts /\ Spelled(n) \in Seq(DecimalDigits) /\ Len(Spelled(n)) > 0
           /\ Number(Spelled(n)) = n
<1>1. PICK f : /\ \A m \in 0 .. n : f[m] = IF m < 10 THEN <<HexDigits[m + 1]>>
                                          ELSE Append(f[m \div 10], HexDigits[(m % 10) + 1])
               /\ Spelled(n) = f[n]
    BY SpelledRounds
<1>2. ASSUME NEW v \in 0 .. 9
      PROVE  /\ HexDigits[v + 1] \in Symbols /\ HexDigits[v + 1] \in DecimalDigits
             /\ HexValue(HexDigits[v + 1]) = v
    <2>1. v \in 0 .. 15 /\ v + 1 \in 1 .. 10
        OBVIOUS
    <2>2. HexDigits[v + 1] \in Named
        BY <2>1, Sixteen, HexTable DEF Named
    <2>3. HexDigits[v + 1] \in DecimalDigits
        BY <2>1 DEF DecimalDigits
    <2> QED
        BY <2>1, <2>2, <2>3, DigitValue, NamedSymbols
<1> DEFINE Fine(y, m) == y \in Texts /\ y \in Seq(DecimalDigits) /\ Len(y) > 0 /\ Number(y) = m
           Good == {k \in 0 .. n : \A m \in 0 .. k : Fine(f[m], m)}
<1>3. ASSUME NEW m \in 0 .. n, m < 10 PROVE Fine(f[m], m)
    <2>1. PICK c : c = HexDigits[m + 1]
        OBVIOUS
    <2>2. m \in 0 .. 9
        BY <1>3
    <2>3. f[m] = <<c>>
        BY <1>1, <1>3, <2>1
    <2>4. c \in Symbols /\ c \in DecimalDigits
        BY <1>2, <2>1, <2>2
    <2>5. <<c>> \in Texts /\ Len(<<c>>) = 1
        BY <2>4, Character1
    <2>6. <<c>> \in Seq(DecimalDigits)
        BY <2>4, Single
    <2>7. Number(<<c>>) = m
        BY <2>1, <2>2, NumberOne
    <2> QED
        BY <2>3, <2>5, <2>6, <2>7
<1>4. ASSUME NEW m \in 0 .. n, ~(m < 10), Fine(f[m \div 10], m \div 10) PROVE Fine(f[m], m)
    <2>1. m \div 10 \in 0 .. m - 1 /\ m % 10 \in 0 .. 9 /\ 10 * (m \div 10) + (m % 10) = m
        BY <1>4, Tens
    <2>2. PICK u : u = f[m \div 10]
        OBVIOUS
    <2>3. PICK v \in 0 .. 9 : v = m % 10
        BY <2>1
    <2>4. PICK c : c = HexDigits[v + 1]
        OBVIOUS
    <2>5. f[m] = Append(u, c)
        BY <1>1, <1>4, <2>2, <2>3, <2>4
    <2>6. u \in Texts /\ u \in Seq(DecimalDigits) /\ Number(u) = m \div 10
        BY <1>4, <2>2
    <2>7. c \in Symbols /\ c \in DecimalDigits /\ HexValue(c) = v
        BY <1>2, <2>4
    <2>8. Number(Append(u, c)) = m
        BY <2>1, <2>3, <2>6, <2>7, NumberMore
    <2>9. Append(u, c) \in Seq(DecimalDigits)
        BY <2>6, <2>7, Longer
    <2>10. Append(u, c) \in Texts /\ Len(Append(u, c)) = Len(u) + 1
        <3>1. u \in Seq(Symbols)
            BY <2>6 DEF Texts
        <3>2. Append(u, c) \in Seq(Symbols) /\ Len(Append(u, c)) = Len(u) + 1
            BY <2>7, <3>1, Longer
        <3> QED
            BY <3>2 DEF Texts
    <2>11. Len(Append(u, c)) > 0
        BY <2>6, <2>10, TextShape
    <2> QED
        BY <2>5, <2>8, <2>9, <2>10, <2>11
<1>5. 0 \in Good
    <2>1. 0 \in 0 .. n /\ \A m \in 0 .. 0 : m \in 0 .. n /\ m < 10
        OBVIOUS
    <2> HIDE DEF Fine
    <2> QED
        BY <1>3, <2>1
<1>6. ASSUME NEW k \in 0 .. n - 1, k \in Good PROVE k + 1 \in Good
    <2> HIDE DEF Fine
    <2>1. k + 1 \in 0 .. n /\ \A m \in 0 .. k + 1 : m \in 0 .. n /\ (m \in 0 .. k \/ m = k + 1)
        OBVIOUS
    <2>2. \A m \in 0 .. k : Fine(f[m], m)
        BY <1>6
    <2>3. Fine(f[k + 1], k + 1)
        <3>1. CASE k + 1 < 10
            BY <1>3, <2>1, <3>1
        <3>2. CASE ~(k + 1 < 10)
            <4>1. (k + 1) \div 10 \in 0 .. k
                BY <3>2, Tens
            <4>2. Fine(f[(k + 1) \div 10], (k + 1) \div 10)
                BY <2>2, <4>1
            <4> QED
                BY <1>4, <2>1, <3>2, <4>2
        <3> QED
            BY <3>1, <3>2
    <2> QED
        BY <2>1, <2>2, <2>3
<1>7. n \in Good
    <2> HIDE DEF Good
    <2>1. n \in 0 .. n /\ \A k \in 0 .. n - 1 : k \in Good => k + 1 \in Good
        BY <1>6
    <2> QED
        BY <1>5, <2>1, Upwards
<1>8. Fine(f[n], n)
    <2> HIDE DEF Fine
    <2>1. n \in 0 .. n
        OBVIOUS
    <2> QED
        BY <1>7, <2>1
<1> QED
    BY <1>1, <1>8

-----------------------------------------------------------------------------
(***************************************************************************)
(* What a stream still has to give, line by line.                          *)
(***************************************************************************)
Rest(text, at) == SubSeq(text, at + 1, Len(text))

Holds(s, rest) ==
    \E text \in Texts : \E at \in 0 .. Len(text) : StreamAt(s, text, at) /\ rest = Rest(text, at)

LEMMA RestApart ==
    ASSUME NEW text \in Texts, NEW at \in 0 .. Len(text), NEW u \in Texts, NEW v \in Texts,
           u \o v = Rest(text, at)
    PROVE  \E e \in 0 .. Len(text) :
               /\ e = at + Len(u) /\ SubSeq(text, at + 1, e) = u
               /\ Rest(text, e) = v /\ Sits(u, text, at)
<1>1. Len(text) \in Nat /\ Len(u) \in Nat /\ Len(v) \in Nat
    BY TextShape
<1>2. PICK t : t = u \o v
    OBVIOUS
<1>3. /\ t \in Texts /\ Len(t) = Len(u) + Len(v) /\ \A i \in 1 .. Len(u) : t[i] = u[i]
      /\ \A i \in 1 .. Len(v) : t[Len(u) + i] = v[i]
    BY <1>2, Together
<1>4. Len(text) \in at .. Len(text)
    BY <1>1
<1>5. Len(t) = Len(text) - at /\ \A i \in 1 .. Len(text) - at : t[i] = text[at + i]
    BY <1>2, <1>4, Part DEF Rest
<1>6. /\ at + Len(u) \in 0 .. Len(text) /\ at + Len(u) \in at .. Len(text)
      /\ Len(text) \in at + Len(u) .. Len(text)
      /\ (at + Len(u)) - at = Len(u) /\ Len(text) - (at + Len(u)) = Len(v)
    BY <1>1, <1>3, <1>5
<1>7. \A i \in 1 .. Len(u) : text[at + i] = u[i]
    BY <1>1, <1>3, <1>5
<1>8. PICK e \in 0 .. Len(text) : e = at + Len(u)
    BY <1>6
<1>9. PICK a : a = SubSeq(text, at + 1, e)
    OBVIOUS
<1>10. a \in Texts /\ Len(a) = Len(u) /\ \A i \in 1 .. Len(u) : a[i] = text[at + i]
    BY <1>6, <1>8, <1>9, Part
<1>11. a = u
    BY <1>7, <1>10, SameText
<1>12. PICK b : b = SubSeq(text, e + 1, Len(text))
    OBVIOUS
<1>13. b \in Texts /\ Len(b) = Len(v) /\ \A i \in 1 .. Len(v) : b[i] = text[e + i]
    <2>1. e \in 0 .. Len(text) /\ Len(text) \in e .. Len(text) /\ Len(text) - e = Len(v)
        BY ONLY <1>6, <1>8
    <2>2. /\ b \in Texts /\ Len(b) = Len(text) - e
          /\ \A i \in 1 .. Len(text) - e : b[i] = text[e + i]
        BY ONLY text \in Texts, <1>12, <2>1, Part
    <2> QED
        BY ONLY <2>1, <2>2
<1>14. \A i \in 1 .. Len(v) : text[e + i] = v[i]
    <2> SUFFICES ASSUME NEW i \in 1 .. Len(v) PROVE text[e + i] = v[i]
        OBVIOUS
    <2>1. Len(u) + i \in 1 .. Len(text) - at /\ at + (Len(u) + i) = e + i
        BY <1>1, <1>3, <1>5, <1>8
    <2> QED
        BY <1>3, <1>5, <2>1
<1>15. b = v
    BY <1>13, <1>14, SameText
<1>16. Sits(u, text, at)
    BY <1>1, <1>6, <1>7 DEF Sits
<1> QED
    BY <1>6, <1>8, <1>9, <1>11, <1>12, <1>15, <1>16 DEF Rest

LEMMA CrlfShape == Crlf \in Texts /\ Len(Crlf) = 2 /\ Crlf[1] = CR /\ Crlf[2] = LF /\ CR # LF
<1>1. CR \in Symbols /\ LF \in Symbols
    BY Zenon DEF Symbols, Named
<1>2. CR # LF
    BY Zenon DEF CR, LF
<1>3. PICK S : S = Symbols
    OBVIOUS
<1>4. CR \in S /\ LF \in S
    BY <1>1, <1>3
<1>5. Crlf = <<CR, LF>>
    BY DEF Crlf
<1>6. Crlf \in Seq(S) /\ Len(Crlf) = 2 /\ Crlf[1] = CR /\ Crlf[2] = LF
    BY ONLY <1>4, <1>5
<1> QED
    BY <1>2, <1>3, <1>6 DEF Texts

LEMMA EndsWhen ==
    ASSUME NEW t \in Texts
    PROVE  EndsWithCrlf(t) <=> Len(t) >= 2 /\ t[Len(t) - 1] = CR /\ t[Len(t)] = LF
<1>1. Len(t) \in Nat
    BY TextShape
<1>2. CASE Len(t) >= 2
    <2>1. PICK a \in 0 .. Len(t) : a = Len(t) - 2
        <3>1. Len(t) - 2 \in 0 .. Len(t)
            BY <1>1, <1>2
        <3> QED
            BY <3>1
    <2>2. Len(t) \in a .. Len(t) /\ a + 1 = Len(t) - 1 /\ Len(t) - a = 2 /\ a + 2 = Len(t)
        BY <1>1, <2>1
    <2>3. PICK e : e = SubSeq(t, a + 1, Len(t))
        OBVIOUS
    <2>4. e \in Texts /\ Len(e) = 2 /\ \A i \in 1 .. 2 : e[i] = t[a + i]
        BY <2>2, <2>3, Part
    <2>5. e[1] = t[Len(t) - 1] /\ e[2] = t[Len(t)]
        BY <2>2, <2>4
    <2>6. e = Crlf <=> (e[1] = CR /\ e[2] = LF)
        <3>1. ASSUME e[1] = CR, e[2] = LF PROVE e = Crlf
            <4>1. \A i \in 1 .. Len(e) : e[i] = Crlf[i]
                BY <2>4, <3>1, CrlfShape
            <4> QED
                BY <2>4, <4>1, CrlfShape, SameText
        <3> QED
            BY <3>1, CrlfShape
    <2>7. EndsWithCrlf(t) <=> e = Crlf
        BY <1>2, <2>2, <2>3 DEF EndsWithCrlf, From
    <2> QED
        BY <1>2, <2>5, <2>6, <2>7
<1>3. CASE ~(Len(t) >= 2)
    BY <1>3 DEF EndsWithCrlf
<1> QED
    BY <1>2, <1>3

\* The reader is at character n of a line l.
Within(r, l, n, text, at) ==
    /\ r.text = SubSeq(l, 1, n) /\ StreamAt(r.s, text, at + n)
    /\ (n < Len(l) => r.on) /\ (n = Len(l) => ~r.on)

LEMMA LineStep ==
    ASSUME NEW text \in Texts, NEW at \in 0 .. Len(text), NEW l \in Texts, at + Len(l) <= Len(text),
           \A i \in 1 .. Len(l) : text[at + i] = l[i],
           Len(l) >= 2, l[Len(l) - 1] = CR, l[Len(l)] = LF, \A i \in 1 .. Len(l) - 1 : l[i] # LF,
           NEW n \in 0 .. Len(l) - 1, NEW r, Within(r, l, n, text, at)
    PROVE  Within(ReadCharacter(r), l, n + 1, text, at)
<1>1. Len(text) \in Nat /\ Len(l) \in Nat
    BY TextShape
<1>2. r.text = SubSeq(l, 1, n) /\ StreamAt(r.s, text, at + n) /\ r.on
    BY <1>1 DEF Within
<1>3. PICK one \in Nat \ {0} : one = 1
    OBVIOUS
<1>4. PICK k \in 0 .. one :
          /\ (at + n) + k \in 0 .. Len(text)
          /\ Recv(r.s, one).got = SubSeq(text, (at + n) + 1, (at + n) + k)
          /\ StreamAt(Recv(r.s, one).s, text, (at + n) + k)
          /\ k = 0 <=> at + n = Len(text)
    <2>1. PICK b : b = at + n
        OBVIOUS
    <2>2. StreamAt(r.s, text, b)
        BY <1>2, <2>1
    <2>3. \E k \in 0 .. one :
              /\ b + k \in 0 .. Len(text)
              /\ Recv(r.s, one).got = SubSeq(text, b + 1, b + k)
              /\ StreamAt(Recv(r.s, one).s, text, b + k)
              /\ k = 0 <=> b = Len(text)
        BY ONLY <2>2, Reads
    <2> QED
        BY <2>1, <2>3, Zenon
<1>5. k = 1 /\ at + n < Len(text) /\ (at + n) + k = at + (n + 1)
    BY <1>1, <1>3, <1>4
<1>6. PICK x : x = Recv(r.s, one)
    OBVIOUS
<1>7. PICK c : c = l[n + 1]
    OBVIOUS
<1>8. c \in Symbols /\ text[(at + n) + 1] = c
    <2>1. n + 1 \in 1 .. Len(l) /\ (at + n) + 1 = at + (n + 1)
        BY <1>1
    <2> QED
        BY <1>7, <2>1, TextShape
<1>9. x.got = <<c>>
    <2>1. PICK b \in 0 .. Len(text) : b = at + n
        BY <1>1
    <2>2. PICK e \in b .. Len(text) : e = b + k
        BY <1>4, <1>5, <2>1
    <2>3. PICK g : g = SubSeq(text, b + 1, e)
        OBVIOUS
    <2>4. g \in Texts /\ Len(g) = e - b /\ \A i \in 1 .. e - b : g[i] = text[b + i]
        BY <2>3, Part
    <2>5. Len(g) = 1 /\ g[1] = c
        BY <1>5, <1>8, <2>1, <2>2, <2>4
    <2>6. g = <<c>>
        <3>1. PICK y : y = <<c>>
            OBVIOUS
        <3>2. y \in Texts /\ Len(y) = 1 /\ y[1] = c
            BY <1>8, <3>1, Character1
        <3>3. \A i \in 1 .. Len(g) : g[i] = y[i]
            BY <2>5, <3>2
        <3> QED
            BY <2>4, <2>5, <3>1, <3>2, <3>3, SameText
    <2> QED
        BY <1>4, <1>6, <2>1, <2>2, <2>3, <2>6
<1>10. PICK p : p = SubSeq(l, 1, n)
    OBVIOUS
<1>11. p \in Texts
    <2>1. PICK z : z = 0
        OBVIOUS
    <2>2. z \in 0 .. Len(l) /\ n \in z .. Len(l) /\ z + 1 = 1
        BY <1>1, <2>1
    <2>3. SubSeq(l, z + 1, n) \in Texts
        BY <2>2, Part
    <2> QED
        BY <1>10, <2>2, <2>3
<1>12. PICK q : q = SubSeq(l, 1, n + 1)
    OBVIOUS
<1>13. q \in Texts /\ Len(q) = n + 1 /\ \A i \in 1 .. n + 1 : q[i] = l[i]
    <2>1. PICK z : z = 0
        OBVIOUS
    <2>2. z \in 0 .. Len(l) /\ n + 1 \in z .. Len(l) /\ z + 1 = 1 /\ (n + 1) - z = n + 1
        BY <1>1, <2>1
    <2>3. PICK w : w = SubSeq(l, z + 1, n + 1)
        OBVIOUS
    <2>4. w \in Texts /\ Len(w) = (n + 1) - z /\ \A i \in 1 .. (n + 1) - z : w[i] = l[z + i]
        BY <2>2, <2>3, Part
    <2>5. w = q
        BY <1>12, <2>2, <2>3
    <2>6. \A i \in 1 .. n + 1 : z + i = i
        BY <2>1
    <2> QED
        BY <2>2, <2>4, <2>5, <2>6
<1>14. p \o <<c>> = q
    <2>1. p \in Seq(Symbols)
        BY <1>11 DEF Texts
    <2>2. Append(p, c) = p \o <<c>>
        BY <1>8, <2>1, Longer
    <2>3. Append(p, c) = q
        BY <1>7, <1>10, <1>12, OneMore
    <2> QED
        BY <2>2, <2>3
<1>15. ReadCharacter(r) = [s |-> x.s, text |-> q, on |-> x.got # <<>> /\ ~EndsWithCrlf(q)]
    <2>1. r.text \o x.got = q
        BY <1>2, <1>9, <1>10, <1>14
    <2>2. x = Recv(r.s, 1)
        BY <1>3, <1>6
    <2> QED
        BY <1>2, <2>1, <2>2, Zenon DEF ReadCharacter
<1>16. x.got # <<>>
    BY <1>9
<1>17. EndsWithCrlf(q) <=> n + 1 = Len(l)
    <2>1. CASE n + 1 = Len(l)
        <3>1. q[Len(q) - 1] = CR /\ q[Len(q)] = LF /\ Len(q) >= 2
            BY <1>1, <1>13, <2>1
        <3> QED
            BY <1>13, <2>1, <3>1, EndsWhen
    <2>2. CASE n + 1 # Len(l)
        <3>1. n + 1 \in 1 .. Len(l) - 1
            BY <1>1, <2>2
        <3>2. q[Len(q)] # LF
            BY <1>13, <3>1
        <3> QED
            BY <1>13, <2>2, <3>2, EndsWhen
    <2> QED
        BY <2>1, <2>2
<1>18. PICK y : y = ReadCharacter(r)
    OBVIOUS
<1>19. PICK o : o = (x.got # <<>> /\ ~EndsWithCrlf(q))
    OBVIOUS
<1>20. y.s = x.s /\ y.text = q /\ y.on = o
    BY <1>15, <1>18, <1>19
<1>21. StreamAt(y.s, text, at + (n + 1))
    BY <1>4, <1>5, <1>6, <1>20
<1>22. (n + 1 < Len(l) => y.on) /\ (n + 1 = Len(l) => ~y.on)
    <2>1. n + 1 < Len(l) => n + 1 # Len(l)
        BY <1>1
    <2>2. n + 1 # Len(l) => o
        BY <1>16, <1>17, <1>19, Zenon
    <2>3. n + 1 = Len(l) => ~o
        BY <1>16, <1>17, <1>19, Zenon
    <2>4. PICK k1 : k1 = y.on
        OBVIOUS
    <2>5. k1 = o
        BY <1>20, <2>4
    <2>6. (n + 1 < Len(l) => k1) /\ (n + 1 = Len(l) => ~k1)
        BY <2>1, <2>2, <2>3, <2>5, Zenon
    <2> QED
        BY <2>4, <2>6, Zenon
<1> QED
    BY <1>12, <1>18, <1>20, <1>21, <1>22 DEF Within

\* A line is read up to its end and no further.
LEMMA LineRead ==
    ASSUME NEW x \in Texts, Without(x, LF), Len(x) + 2 <= MaxLine, NEW rest \in Texts,
           NEW s, Holds(s, (x \o Crlf) \o rest)
    PROVE  /\ GetLine(s).text = x \o Crlf /\ GetLine(s).ok /\ Line(GetLine(s).text) = x
           /\ Holds(GetLine(s).s, rest)
<1>1. PICK l : l = x \o Crlf
    OBVIOUS
<1>2. Len(x) \in Nat /\ MaxLine \in Nat
    BY TextShape, LimitsAssumption
<1>3. /\ l \in Texts /\ Len(l) = Len(x) + 2
      /\ \A i \in 1 .. Len(x) : l[i] = x[i]
      /\ l[Len(x) + 1] = CR /\ l[Len(x) + 2] = LF
    <2>1. /\ l \in Texts /\ Len(l) = Len(x) + Len(Crlf)
          /\ \A i \in 1 .. Len(x) : l[i] = x[i]
          /\ \A i \in 1 .. Len(Crlf) : l[Len(x) + i] = Crlf[i]
        BY <1>1, Together, CrlfShape
    <2>2. 1 \in 1 .. Len(Crlf) /\ 2 \in 1 .. Len(Crlf)
        BY CrlfShape
    <2>3. l[Len(x) + 1] = CR /\ l[Len(x) + 2] = LF
        BY <2>1, <2>2, CrlfShape
    <2> QED
        BY <2>1, <2>3, CrlfShape
<1>4. Len(l) >= 2 /\ l[Len(l) - 1] = CR /\ l[Len(l)] = LF
    <2>1. Len(l) - 1 = Len(x) + 1
        BY <1>2, <1>3
    <2> QED
        BY <1>2, <1>3, <2>1
<1>5. \A i \in 1 .. Len(l) - 1 : l[i] # LF
    <2> SUFFICES ASSUME NEW i \in 1 .. Len(l) - 1 PROVE l[i] # LF
        OBVIOUS
    <2>1. i \in 1 .. Len(x) \/ i = Len(x) + 1
        BY <1>2, <1>3
    <2> QED
        BY <1>3, <2>1, CrlfShape DEF Without
<1>60. PICK text \in Texts :
          \E at \in 0 .. Len(text) :
              StreamAt(s, text, at) /\ l \o rest = Rest(text, at)
    BY <1>1 DEF Holds
<1>6. PICK at \in 0 .. Len(text) :
          StreamAt(s, text, at) /\ l \o rest = Rest(text, at)
    BY <1>60
<1>7. PICK e \in 0 .. Len(text) :
          e = at + Len(l) /\ Rest(text, e) = rest /\ \A i \in 1 .. Len(l) : text[at + i] = l[i]
    <2>1. l \in Texts
        BY <1>3
    <2>2. PICK e \in 0 .. Len(text) : e = at + Len(l) /\ Rest(text, e) = rest /\ Sits(l, text, at)
        BY <1>6, <2>1, RestApart
    <2> QED
        BY <2>2 DEF Sits
<1>8. PICK a : a = [s |-> s, text |-> <<>>, on |-> TRUE]
    OBVIOUS
<1>9. PICK f : /\ f = [n \in 0 .. MaxLine |-> IF n = 0 THEN a ELSE ReadCharacter(f[n - 1])]
               /\ Loop(a, ReadCharacter, MaxLine) = f[MaxLine]
    BY <1>2, CharacterRounds
<1>10. Len(l) \in Nat /\ Len(l) <= MaxLine /\ Len(l) \in 0 .. MaxLine /\ Len(text) \in Nat
    BY <1>2, <1>3, TextShape
<1> DEFINE Good == {n \in 0 .. Len(l) : Within(f[n], l, n, text, at)}
<1>11. 0 \in Good
    <2>1. f[0] = a /\ 0 \in 0 .. Len(l)
        BY <1>2, <1>9, <1>10
    <2>2. SubSeq(l, 1, 0) = <<>>
        BY <1>3, EmptyPart
    <2>3. a.s = s /\ a.text = <<>> /\ a.on
        BY <1>8
    <2>4. StreamAt(a.s, text, at + 0)
        BY <1>6, <2>3
    <2>5. 0 # Len(l)
        BY <1>4
    <2>6. Within(a, l, 0, text, at)
        BY <2>2, <2>3, <2>4, <2>5 DEF Within
    <2> QED
        BY <2>1, <2>6
<1>12. ASSUME NEW n \in 0 .. Len(l) - 1, n \in Good PROVE n + 1 \in Good
    <2>1. n + 1 \in 0 .. Len(l) /\ n + 1 \in 0 .. MaxLine /\ n + 1 # 0 /\ (n + 1) - 1 = n
        BY <1>2, <1>10
    <2>2. f[n + 1] = ReadCharacter(f[n])
        BY <1>9, <2>1
    <2>3. Within(f[n], l, n, text, at) /\ at + Len(l) <= Len(text)
        BY <1>7, <1>10, <1>12
    <2>4. Within(ReadCharacter(f[n]), l, n + 1, text, at)
        BY <1>3, <1>4, <1>5, <1>6, <1>7, <2>3, LineStep
    <2> QED
        BY <2>1, <2>2, <2>4
<1>13. Within(f[Len(l)], l, Len(l), text, at)
    <2> HIDE DEF Good
    <2>1. Len(l) \in 0 .. Len(l) /\ \A n \in 0 .. Len(l) - 1 : n \in Good => n + 1 \in Good
        BY <1>10, <1>12
    <2>2. Len(l) \in Good
        BY <1>10, <1>11, <2>1, Upwards
    <2> QED
        BY <2>2 DEF Good
<1>14. PICK r : r = f[Len(l)]
    OBVIOUS
<1>15. r.text = l /\ StreamAt(r.s, text, at + Len(l)) /\ ~r.on
    BY <1>3, <1>10, <1>13, <1>14, EmptyPart DEF Within
<1> DEFINE Still == {k \in 0 .. MaxLine - Len(l) : f[Len(l) + k] = r}
<1>16. 0 \in Still
    <2>1. Len(l) + 0 = Len(l) /\ 0 \in 0 .. MaxLine - Len(l)
        BY <1>2, <1>10
    <2> QED
        BY <1>14, <2>1
<1>17. ASSUME NEW k \in 0 .. (MaxLine - Len(l)) - 1, k \in Still PROVE k + 1 \in Still
    <2>1. /\ k + 1 \in 0 .. MaxLine - Len(l) /\ Len(l) + (k + 1) \in 0 .. MaxLine
          /\ Len(l) + (k + 1) # 0 /\ (Len(l) + (k + 1)) - 1 = Len(l) + k
        BY <1>2, <1>10
    <2>2. f[Len(l) + (k + 1)] = ReadCharacter(f[Len(l) + k])
        BY <1>9, <2>1
    <2>3. ReadCharacter(r) = r
        BY <1>15, Zenon DEF ReadCharacter
    <2> QED
        BY <1>17, <2>1, <2>2, <2>3
<1>18. f[MaxLine] = r
    <2> HIDE DEF Still
    <2>1. /\ MaxLine - Len(l) \in Nat /\ MaxLine - Len(l) \in 0 .. MaxLine - Len(l)
          /\ \A k \in 0 .. (MaxLine - Len(l)) - 1 : k \in Still => k + 1 \in Still
        BY <1>2, <1>10, <1>17
    <2>2. MaxLine - Len(l) \in Still
        BY <1>16, <2>1, Upwards
    <2>3. Len(l) + (MaxLine - Len(l)) = MaxLine
        BY <1>2, <1>10
    <2> QED
        BY <2>2, <2>3 DEF Still
<1>19. EndsWithCrlf(l)
    BY <1>3, <1>4, EndsWhen
<1>20. GetLine(s) = [s |-> r.s, text |-> l, ok |-> EndsWithCrlf(l)]
    BY <1>8, <1>9, <1>15, <1>18, Zenon DEF GetLine
<1>21. GetLine(s).s = r.s /\ GetLine(s).text = l
    BY <1>20
<1>22. GetLine(s).ok
    <2>1. PICK ended : ended = EndsWithCrlf(l)
        OBVIOUS
    <2>2. GetLine(s) = [s |-> r.s, text |-> l, ok |-> ended]
        BY <1>20, <2>1, Zenon
    <2>3. GetLine(s).ok = ended
        BY <2>2
    <2> QED
        BY <1>19, <2>1, <2>3, Zenon
<1>23. Line(l) = x
    <2>1. Len(l) - 2 = Len(x)
        BY <1>2, <1>3
    <2>2. SubSeq(l, 1, Len(x)) = x
        BY <1>1, CrlfShape, FrontPart
    <2> QED
        BY <2>1, <2>2 DEF Line
<1>24. Holds(r.s, rest)
    BY <1>6, <1>7, <1>15 DEF Holds
<1> QED
    BY <1>1, <1>21, <1>22, <1>23, <1>24

Spread(a, b, c, v) == <<a, b, c>> \o v = <<a>> \o (<<b>> \o (<<c>> \o v))

LEMMA ThreeSpread ==
    ASSUME NEW a \in Symbols, NEW b \in Symbols, NEW c \in Symbols, NEW v \in Texts
    PROVE  Spread(a, b, c, v) /\ <<a, b, c>> \in Texts
<1>1. PICK x : x = <<a>>
    OBVIOUS
<1>2. PICK y : y = <<b>>
    OBVIOUS
<1>3. PICK z : z = <<c>>
    OBVIOUS
<1>4. x \in Texts /\ y \in Texts /\ z \in Texts
    BY <1>1, <1>2, <1>3, Character1
<1>5. PICK xy : xy = x \o y
    OBVIOUS
<1>6. PICK xyz : xyz = xy \o z
    OBVIOUS
<1>7. xy \in Texts /\ xyz \in Texts
    <2>1. xy \in Texts
        BY <1>4, <1>5, Together
    <2> QED
        BY <1>4, <1>6, <2>1, Together
<1>8. xyz = <<a, b, c>>
    <2>1. Append(<<a>>, b) = <<a, b>> /\ Append(<<a, b>>, c) = <<a, b, c>>
        BY Grown
    <2>2. Append(x, b) = x \o y
        <3>1. x \in Seq(Symbols)
            BY <1>4 DEF Texts
        <3> QED
            BY <1>2, <3>1, Longer
    <2>3. Append(xy, c) = xy \o z
        <3>1. xy \in Seq(Symbols)
            BY <1>7 DEF Texts
        <3> QED
            BY <1>3, <3>1, Longer
    <2> QED
        BY <1>1, <1>5, <1>6, <2>1, <2>2, <2>3
<1>9. xyz \o v = xy \o (z \o v)
    <2>1. xy \in Texts /\ z \in Texts /\ v \in Texts
        BY <1>4, <1>7
    <2>2. Grouped(xy, z, v)
        BY ONLY <2>1, GroupedText
    <2> QED
        BY <1>6, <2>2, Zenon DEF Grouped
<1>10. z \o v \in Texts
    BY <1>4, Together
<1>11. xy \o (z \o v) = x \o (y \o (z \o v))
    <2>1. x \in Texts /\ y \in Texts /\ z \o v \in Texts
        BY <1>4, <1>10
    <2>2. Grouped(x, y, z \o v)
        BY ONLY <2>1, GroupedText
    <2> QED
        BY <1>5, <2>2, Zenon DEF Grouped
<1>12. Spread(a, b, c, v)
    BY <1>1, <1>2, <1>3, <1>8, <1>9, <1>11, Zenon DEF Spread
<1> QED
    BY <1>7, <1>8, <1>12

LEMMA ThreeBefore ==
    ASSUME NEW a \in Symbols, NEW b \in Symbols, NEW c \in Symbols, NEW v \in Texts
    PROVE  <<a, b, c>> \o v = <<a>> \o (<<b>> \o (<<c>> \o v)) /\ <<a, b, c>> \in Texts
<1>1. Spread(a, b, c, v) /\ <<a, b, c>> \in Texts
    BY ThreeSpread
<1> QED
    BY ONLY <1>1, Zenon DEF Spread

LEMMA WithoutIn ==
    ASSUME NEW u \in Texts, NEW v \in Texts, NEW c, Without(u, c), Without(v, c)
    PROVE  Without(u \o v, c)
<1>1. PICK t : t = u \o v
    OBVIOUS
<1>2. /\ Len(t) = Len(u) + Len(v) /\ \A i \in 1 .. Len(u) : t[i] = u[i]
      /\ \A i \in 1 .. Len(v) : t[Len(u) + i] = v[i]
    BY <1>1, Together
<1>3. Len(u) \in Nat /\ Len(v) \in Nat
    BY TextShape
<1>4. ASSUME NEW i \in 1 .. Len(t) PROVE t[i] # c
    <2>1. CASE i <= Len(u)
        <3>1. i \in 1 .. Len(u)
            BY <1>3, <2>1
        <3> QED
            BY <1>2, <3>1 DEF Without
    <2>2. CASE ~(i <= Len(u))
        <3>1. i - Len(u) \in 1 .. Len(v) /\ Len(u) + (i - Len(u)) = i
            BY <1>2, <1>3, <2>2
        <3> QED
            BY <1>2, <3>1 DEF Without
    <2> QED
        BY <2>1, <2>2
<1> QED
    BY <1>1, <1>4 DEF Without

LEMMA WithoutOne ==
    ASSUME NEW a \in Symbols, NEW c, a # c
    PROVE  Without(<<a>>, c)
<1>1. Len(<<a>>) = 1 /\ <<a>>[1] = a
    BY Character1
<1> QED
    BY <1>1 DEF Without

\* The constants of texts.
LEMMA Apart ==
    /\ Space # LF /\ ":" # LF /\ Space # "%" /\ "/" # LF /\ "/" # Space /\ Space \in Symbols /\ LF \in Symbols
    /\ "?" # Space /\ "?" # LF /\ "=" # LF /\ "=" # Space
<1>1. Space # LF
    BY Zenon DEF Space, LF
<1>2. ":" # LF
    BY Zenon DEF LF
<1>3. Space # "%"
    BY Zenon DEF Space
<1>4. "/" # LF /\ "/" # Space
    BY Zenon DEF Space, LF
<1>5. Space \in Symbols /\ LF \in Symbols
    BY Zenon DEF Symbols, Named
<1>6. "?" # Space /\ "?" # LF /\ "=" # LF /\ "=" # Space
    BY Zenon DEF Space, LF
<1> QED
    BY <1>1, <1>2, <1>3, <1>4, <1>5, <1>6

\* A header as it is read.
Parsed(name, value) == [ok |-> TRUE, name |-> <<name>>, value |-> value]

LEMMA HeaderParsed ==
    ASSUME NEW name \in Symbols, name # ":", NEW value \in Texts, value # <<>>, value[1] # Space,
           Without(value, "%"), NEW x, x = <<name, ":", Space>> \o value
    PROVE  ParseHeader(x) = Parsed(name, value) /\ x \in Texts /\ Len(x) = 3 + Len(value)
<1>1. ":" \in Symbols /\ Space \in Symbols
    BY NamedSymbols, Apart DEF Named
<1>2. PICK colon \in Symbols : colon = ":"
    BY <1>1
<1>3. PICK u : u = <<name>>
    OBVIOUS
<1>4. PICK v : v = <<Space>> \o value
    OBVIOUS
<1>5. u \in Texts /\ Len(u) = 1 /\ v \in Texts /\ Len(v) = 1 + Len(value) /\ Without(u, colon)
    <2>1. u \in Texts /\ Len(u) = 1
        BY <1>3, Character1
    <2>2. PICK y : y = <<Space>>
        OBVIOUS
    <2>3. y \in Texts /\ Len(y) = 1
        BY <1>1, <2>2, Character1
    <2>4. v \in Texts /\ Len(v) = 1 + Len(value)
        BY <1>4, <2>2, <2>3, Together
    <2>5. Without(u, colon)
        BY <1>2, <1>3, WithoutOne
    <2> QED
        BY <2>1, <2>4, <2>5
<1>6. x = u \o (<<colon>> \o v)
    <2>1. <<name, ":", Space>> \o value = <<name>> \o (<<":">> \o (<<Space>> \o value))
        <3>1. Spread(name, ":", Space, value)
            BY <1>1, ThreeSpread
        <3> QED
            BY ONLY <3>1, Zenon DEF Spread
    <2>2. x = <<name>> \o (<<":">> \o (<<Space>> \o value))
        BY <2>1
    <2> QED
        BY ONLY <1>2, <1>3, <1>4, <2>2
<1>7. Divide(x, colon)[1] = u /\ Divide(x, colon)[2] = v
    <2>1. colon \in Symbols
        OBVIOUS
    <2> QED
        BY ONLY <1>5, <1>6, <2>1, Divided
<1>8. Unspaced(v) = value
    BY <1>4, SpaceTaken
<1>9. Decode(value) = value
    BY PlainText
<1>10. PICK w : w = <<colon>> \o v
    OBVIOUS
<1>11. w \in Texts /\ Len(w) = 2 + Len(value)
    <2>1. PICK y : y = <<colon>>
        OBVIOUS
    <2>2. y \in Texts /\ Len(y) = 1
        BY <1>2, <2>1, Character1
    <2>3. w \in Texts /\ Len(w) = 1 + Len(v)
        BY <1>5, <1>10, <2>1, <2>2, Together
    <2> QED
        BY <1>5, <2>3, TextShape
<1>12. x \in Texts /\ Len(x) = 1 + Len(w)
    <2>1. x = u \o w
        BY ONLY <1>6, <1>10
    <2> QED
        <3>1. x \in Texts /\ Len(x) = Len(u) + Len(w)
            BY ONLY <1>5, <1>11, <2>1, Together
        <3> QED
            BY ONLY <1>5, <3>1
<1>13. Len(x) = 3 + Len(value)
    BY <1>11, <1>12, TextShape
<1>14. u # x /\ u # <<>>
    <2>1. Len(u) # Len(x) /\ Len(u) # 0
        BY <1>5, <1>13, TextShape
    <2>2. Len(<<>>) = 0
        OBVIOUS
    <2> QED
        BY <2>1, <2>2
<1>15. ParseHeader(x) = [ok |-> u # <<>> /\ u # x, name |-> u, value |-> value]
    BY <1>2, <1>7, <1>8, <1>9, Zenon DEF ParseHeader
<1>16. (u # <<>> /\ u # x) = TRUE
    BY <1>14, Zenon
<1>17. ParseHeader(x) = [ok |-> TRUE, name |-> u, value |-> value]
    BY <1>15, <1>16, Zenon
<1>18. ParseHeader(x) = Parsed(name, value)
    BY <1>3, <1>17, Zenon DEF Parsed
<1> QED
    BY <1>12, <1>13, <1>18

\* The reader has the headers hs, and the rest before it.
Reading(r, hs, rest) == r.on /\ r.headers = hs /\ Holds(r.s, rest)

Complete(r, hs, rest) == ~r.on /\ r.ok /\ r.headers = hs /\ Holds(r.s, rest)

LEMMA HeaderRead ==
    ASSUME NEW name \in Symbols, name # ":", name # LF, NEW value \in Texts, value # <<>>,
           value[1] # Space, Without(value, "%"), Without(value, LF), Len(value) + 5 <= MaxLine,
           NEW rest \in Texts, NEW r, NEW hs, Reading(r, hs, Header(name, value) \o rest)
    PROVE  Reading(ReadHeader(r), Append(hs, Parsed(name, value)), rest)
<1>1. PICK x : x = <<name, ":", Space>> \o value
    OBVIOUS
<1>2. PICK h : h = ParseHeader(x)
    OBVIOUS
<1>3. h = Parsed(name, value) /\ x \in Texts /\ Len(x) = 3 + Len(value)
    BY <1>1, <1>2, HeaderParsed
<1>4. Without(x, LF)
    <2>1. ":" \in Symbols /\ Space \in Symbols
        BY NamedSymbols, Apart DEF Named
    <2>2. PICK u : u = <<name>>
        OBVIOUS
    <2>3. PICK v : v = <<":">>
        OBVIOUS
    <2>4. PICK w : w = <<Space>>
        OBVIOUS
    <2>5. u \in Texts /\ v \in Texts /\ w \in Texts
        BY <2>1, <2>2, <2>3, <2>4, Character1
    <2>6. Without(u, LF) /\ Without(v, LF) /\ Without(w, LF)
        BY <2>1, <2>2, <2>3, <2>4, Apart, WithoutOne
    <2>7. w \o value \in Texts /\ Without(w \o value, LF)
        BY <2>5, <2>6, Together, WithoutIn
    <2>8. v \o (w \o value) \in Texts /\ Without(v \o (w \o value), LF)
        BY <2>5, <2>6, <2>7, Together, WithoutIn
    <2>9. Without(u \o (v \o (w \o value)), LF)
        BY <2>5, <2>6, <2>8, WithoutIn
    <2>10. x = u \o (v \o (w \o value))
        BY <1>1, <2>1, <2>2, <2>3, <2>4, ThreeBefore
    <2> QED
        BY <2>9, <2>10
<1>5. Len(x) + 2 <= MaxLine
    BY <1>3, TextShape, LimitsAssumption
<1>6. r.on /\ r.headers = hs /\ Holds(r.s, (x \o Crlf) \o rest)
    BY <1>1 DEF Reading, Header
<1>7. PICK line : line = GetLine(r.s)
    OBVIOUS
<1>8. line.text = x \o Crlf /\ line.ok /\ Line(line.text) = x /\ Holds(line.s, rest)
    BY <1>3, <1>4, <1>5, <1>6, <1>7, LineRead
<1>9. line.text # Crlf
    <2>1. PICK l : l = x \o Crlf
        OBVIOUS
    <2>2. Len(l) = Len(x) + 2
        <3>1. x \in Texts
            BY <1>3
        <3>2. Len(l) = Len(x) + Len(Crlf)
            BY ONLY <2>1, <3>1, Together, CrlfShape
        <3> QED
            BY ONLY <3>2, CrlfShape
    <2>3. Len(l) # Len(Crlf)
        BY <1>3, <2>2, TextShape, CrlfShape
    <2> QED
        BY <1>8, <2>1, <2>3
<1>10. PICK more : more = (line.ok /\ ~(line.ok /\ line.text = Crlf) /\ h.ok)
    OBVIOUS
<1>11. PICK blank : blank = (line.ok /\ line.text = Crlf)
    OBVIOUS
<1>12. more
    <2>1. h.ok
        BY <1>3 DEF Parsed
    <2> QED
        BY <1>8, <1>9, <1>10, <2>1, Zenon
<1>13. ReadHeader(r) = [s |-> line.s, on |-> more, ok |-> blank,
                        headers |-> IF more THEN Append(r.headers, h) ELSE r.headers]
    BY <1>2, <1>6, <1>7, <1>8, <1>10, <1>11, Zenon DEF ReadHeader
<1>14. PICK y : y = ReadHeader(r)
    OBVIOUS
<1>15. PICK hh : hh = IF more THEN Append(r.headers, h) ELSE r.headers
    OBVIOUS
<1>16. y = [s |-> line.s, on |-> more, ok |-> blank, headers |-> hh]
    BY <1>13, <1>14, <1>15, Zenon
<1>17. y.s = line.s /\ y.on = more /\ y.headers = hh
    BY <1>16
<1>18. hh = Append(hs, h)
    BY <1>6, <1>12, <1>15, Zenon
<1>19. y.on
    BY <1>12, <1>17, Zenon
<1>20. Reading(y, Append(hs, h), rest)
    BY <1>8, <1>17, <1>18, <1>19, Zenon DEF Reading
<1> QED
    BY <1>3, <1>14, <1>20

LEMMA BlankRead ==
    ASSUME NEW rest \in Texts, NEW r, NEW hs, MaxLine >= 2, Reading(r, hs, Crlf \o rest)
    PROVE  Complete(ReadHeader(r), hs, rest)
<1>1. PICK x : x = <<>>
    OBVIOUS
<1>2. x \in Texts /\ Len(x) = 0 /\ x \o Crlf = Crlf
    BY <1>1, CrlfShape, TextShape DEF Texts
<1>3. Without(x, LF) /\ Len(x) + 2 <= MaxLine
    BY <1>2 DEF Without
<1>4. r.on /\ r.headers = hs /\ Holds(r.s, (x \o Crlf) \o rest)
    BY <1>2 DEF Reading
<1>5. PICK line : line = GetLine(r.s)
    OBVIOUS
<1>6. line.text = Crlf /\ line.ok /\ Holds(line.s, rest)
    <2>1. line.text = x \o Crlf /\ line.ok /\ Holds(line.s, rest)
        BY <1>2, <1>3, <1>4, <1>5, LineRead
    <2> QED
        BY <1>2, <2>1
<1>7. PICK h : h = ParseHeader(Line(line.text))
    OBVIOUS
<1>8. PICK more : more = (line.ok /\ ~(line.ok /\ line.text = Crlf) /\ h.ok)
    OBVIOUS
<1>9. PICK blank : blank = (line.ok /\ line.text = Crlf)
    OBVIOUS
<1>10. blank /\ ~more
    BY <1>6, <1>8, <1>9, Zenon
<1>11. ReadHeader(r) = [s |-> line.s, on |-> more, ok |-> blank,
                        headers |-> IF more THEN Append(r.headers, h) ELSE r.headers]
    BY <1>4, <1>5, <1>7, <1>8, <1>9, Zenon DEF ReadHeader
<1>12. PICK y : y = ReadHeader(r)
    OBVIOUS
<1>13. PICK hh : hh = IF more THEN Append(r.headers, h) ELSE r.headers
    OBVIOUS
<1>14. y = [s |-> line.s, on |-> more, ok |-> blank, headers |-> hh]
    BY <1>11, <1>12, <1>13, Zenon
<1>15. y.s = line.s /\ y.on = more /\ y.ok = blank /\ y.headers = hh
    BY <1>14
<1>16. hh = hs
    BY <1>4, <1>10, <1>13, Zenon
<1>17. Complete(y, hs, rest)
    BY <1>6, <1>10, <1>15, <1>16, Zenon DEF Complete
<1> QED
    BY <1>12, <1>17

\* The headers of a request, by name.
Heads == {Parsed(name, value) : name \in Symbols, value \in Texts}

Found(hs, name, value) ==
    \E i \in 1 .. Len(hs) : /\ hs[i].name = <<name>> /\ hs[i].value = value
                            /\ \A j \in 1 .. i - 1 : hs[j].name # <<name>>

Absent(hs, name) == \A i \in 1 .. Len(hs) : hs[i].name # <<name>>

LEMMA FoundValue ==
    ASSUME NEW hs \in Seq(Heads), NEW name, NEW value, Found(hs, name, value)
    PROVE  HeaderValue(hs, name) = value /\ HasHeader(hs, name)
<1>1. PICK i \in 1 .. Len(hs) : /\ hs[i].name = <<name>> /\ hs[i].value = value
                               /\ \A j \in 1 .. i - 1 : hs[j].name # <<name>>
    BY DEF Found
<1>2. Len(hs) \in Nat
    OBVIOUS
<1>3. PICK S : S = {k \in 1 .. Len(hs) : hs[k].name = <<name>>}
    OBVIOUS
<1>4. i \in S /\ S \in SUBSET Nat /\ S # {} /\ i # 0
    BY <1>1, <1>2, <1>3
<1>5. ASSUME NEW k \in S PROVE i <= k
    <2>1. ~(k \in 1 .. i - 1) /\ k \in 1 .. Len(hs)
        BY <1>1, <1>3
    <2> QED
        BY <1>2, <2>1
<1>6. Min(S) = i
    BY <1>4, <1>5, MinOf
<1>7. SelectInSeq(hs, LAMBDA h : h.name = <<name>>) = i
    <2>1. SelectInSeq(hs, LAMBDA h : h.name = <<name>>) = IF S # {} THEN Min(S) ELSE 0
        BY <1>3 DEF SelectInSeq
    <2> QED
        BY <1>4, <1>6, <2>1
<1>8. HeaderValue(hs, name) = hs[i].value
    BY <1>4, <1>7, Zenon DEF HeaderValue
<1>9. HasHeader(hs, name)
    <2>1. i \in DOMAIN hs
        BY <1>1, <1>2
    <2> QED
        BY <1>1, <2>1 DEF HasHeader, Range
<1> QED
    BY <1>1, <1>8, <1>9

LEMMA AbsentValue ==
    ASSUME NEW hs \in Seq(Heads), NEW name, Absent(hs, name)
    PROVE  HeaderValue(hs, name) = <<>> /\ ~HasHeader(hs, name)
<1>1. PICK S : S = {k \in 1 .. Len(hs) : hs[k].name = <<name>>}
    OBVIOUS
<1>2. S = {}
    BY <1>1 DEF Absent
<1>3. SelectInSeq(hs, LAMBDA h : h.name = <<name>>) = 0
    <2>1. SelectInSeq(hs, LAMBDA h : h.name = <<name>>) = IF S # {} THEN Min(S) ELSE 0
        BY <1>1 DEF SelectInSeq
    <2> QED
        BY <1>2, <2>1
<1>4. HeaderValue(hs, name) = <<>>
    BY <1>3, Zenon DEF HeaderValue
<1>5. DOMAIN hs = 1 .. Len(hs)
    OBVIOUS
<1>6. ~HasHeader(hs, name)
    BY <1>5 DEF HasHeader, Range, Absent
<1> QED
    BY <1>4, <1>6

LEMMA AppendedHead ==
    ASSUME NEW hs \in Seq(Heads), NEW name \in Symbols, NEW value \in Texts
    PROVE  /\ Append(hs, Parsed(name, value)) \in Seq(Heads)
           /\ Absent(hs, name) => Found(Append(hs, Parsed(name, value)), name, value)
<1>1. PICK h : h = Parsed(name, value)
    OBVIOUS
<1>2. h \in Heads /\ h.name = <<name>> /\ h.value = value
    <2>1. h \in Heads
        BY <1>1 DEF Heads
    <2>2. h.name = <<name>> /\ h.value = value
        BY <1>1 DEF Parsed
    <2> QED
        BY <2>1, <2>2
<1>3. PICK g : g = Append(hs, h)
    OBVIOUS
<1>4. g \in Seq(Heads) /\ Len(g) = Len(hs) + 1
    BY <1>2, <1>3, Longer
<1>5. \A i \in 1 .. Len(hs) : g[i] = hs[i]
    BY <1>2, <1>3, Longer
<1>6. g[Len(hs) + 1] = h
    BY <1>2, <1>3, Longer
<1>7. Len(hs) \in Nat
    OBVIOUS
<1>8. ASSUME Absent(hs, name) PROVE Found(g, name, value)
    <2>1. Len(hs) + 1 \in 1 .. Len(g) /\ (Len(hs) + 1) - 1 = Len(hs)
        BY <1>4, <1>7
    <2>2. \A j \in 1 .. Len(hs) : g[j].name # <<name>>
        BY <1>5, <1>8 DEF Absent
    <2> QED
        BY <1>2, <1>6, <2>1, <2>2 DEF Found
<1> QED
    BY <1>1, <1>3, <1>4, <1>8

LEMMA OtherHead ==
    ASSUME NEW hs \in Seq(Heads), NEW name \in Symbols, NEW value \in Texts, NEW other, name # other
    PROVE  /\ Absent(hs, other) => Absent(Append(hs, Parsed(name, value)), other)
           /\ \A v : Found(hs, other, v) => Found(Append(hs, Parsed(name, value)), other, v)
<1>1. PICK h : h = Parsed(name, value)
    OBVIOUS
<1>2. h \in Heads /\ h.name # <<other>>
    <2>1. h \in Heads
        BY <1>1 DEF Heads
    <2>2. h.name = <<name>>
        BY <1>1 DEF Parsed
    <2> QED
        BY <2>1, <2>2
<1>3. PICK g : g = Append(hs, h)
    OBVIOUS
<1>4. g \in Seq(Heads) /\ Len(g) = Len(hs) + 1
    BY <1>2, <1>3, Longer
<1>5. \A i \in 1 .. Len(hs) : g[i] = hs[i]
    BY <1>2, <1>3, Longer
<1>6. g[Len(hs) + 1] = h
    BY <1>2, <1>3, Longer
<1>7. Len(hs) \in Nat
    OBVIOUS
<1>8. ASSUME Absent(hs, other) PROVE Absent(g, other)
    <2> SUFFICES ASSUME NEW i \in 1 .. Len(g) PROVE g[i].name # <<other>>
        BY DEF Absent
    <2>1. i \in 1 .. Len(hs) \/ i = Len(hs) + 1
        BY <1>4, <1>7
    <2> QED
        BY <1>2, <1>5, <1>6, <1>8, <2>1 DEF Absent
<1>9. ASSUME NEW v, Found(hs, other, v) PROVE Found(g, other, v)
    <2>1. PICK i \in 1 .. Len(hs) : /\ hs[i].name = <<other>> /\ hs[i].value = v
                                   /\ \A j \in 1 .. i - 1 : hs[j].name # <<other>>
        BY <1>9 DEF Found
    <2>2. i \in 1 .. Len(g) /\ \A j \in 1 .. i - 1 : j \in 1 .. Len(hs)
        BY <1>4, <1>7
    <2>3. g[i].name = <<other>> /\ g[i].value = v /\ \A j \in 1 .. i - 1 : g[j].name # <<other>>
        BY <1>5, <2>1, <2>2
    <2> QED
        BY <2>2, <2>3 DEF Found
<1> QED
    BY <1>1, <1>3, <1>8, <1>9

\* A value that a header may have, and that is read as it is.
Valued(v) ==
    /\ v \in Texts /\ v # <<>> /\ v[1] # Space /\ Without(v, "%") /\ Without(v, LF)
    /\ Len(v) + 5 <= MaxLine

LEMMA HostValued ==
    ASSUME MaxLine >= 8
    PROVE  Valued(<<"gateway", ":", "8080">>) /\ Valued(<<"application/json">>)
<1>1. {"gateway", ":", "8080", "application/json"} \subseteq Symbols
    BY NamedSymbols DEF Named
<1>2. "gateway" # Space /\ "application/json" # Space
    BY Zenon DEF Space
<1>3. "gateway" # LF /\ ":" # LF /\ "8080" # LF /\ "application/json" # LF
    BY Zenon DEF LF
<1>4. "gateway" # "%" /\ ":" # "%" /\ "8080" # "%" /\ "application/json" # "%"
    OBVIOUS
<1>5. Valued(<<"gateway", ":", "8080">>)
    <2>1. PICK v : v = <<"gateway", ":", "8080">>
        OBVIOUS
    <2>2. Len(v) = 3 /\ v[1] = "gateway" /\ v[2] = ":" /\ v[3] = "8080" /\ v # <<>>
        BY <2>1
    <2>3. v \in Texts
        <3>1. PICK e : e = <<>>
            OBVIOUS
        <3>2. e \in Texts
            BY <3>1 DEF Texts
        <3> QED
            BY <1>1, <2>1, <3>2, ThreeBefore
    <2>4. \A c : "gateway" # c /\ ":" # c /\ "8080" # c => Without(v, c)
        BY <2>2 DEF Without
    <2> QED
        BY <1>2, <1>3, <1>4, <2>1, <2>2, <2>3, <2>4 DEF Valued
<1>6. Valued(<<"application/json">>)
    <2>1. PICK v : v = <<"application/json">>
        OBVIOUS
    <2>2. v \in Texts /\ Len(v) = 1 /\ v[1] = "application/json"
        BY <1>1, <2>1, Character1
    <2>3. v # <<>> /\ \A c : "application/json" # c => Without(v, c)
        BY <2>2 DEF Without
    <2>4. Len(v) + 5 <= MaxLine
        BY <2>2, LimitsAssumption
    <2>5. Without(v, "%") /\ Without(v, LF)
        BY <1>3, <1>4, <2>3
    <2> QED
        BY <1>2, <2>1, <2>2, <2>3, <2>4, <2>5 DEF Valued
<1> QED
    BY <1>5, <1>6

\* Two characters before a text.
LEMMA TwoBefore ==
    ASSUME NEW a \in Symbols, NEW b \in Symbols, NEW v \in Texts, NEW t, t = <<a, b>> \o v
    PROVE  /\ t = <<a>> \o (<<b>> \o v) /\ <<a, b>> \in Texts
           /\ t \in Texts /\ Len(t) = 2 + Len(v) /\ t[1] = a
           /\ \A c : a # c /\ b # c /\ Without(v, c) => Without(t, c)
<1>1. PICK x : x = <<a>>
    OBVIOUS
<1>2. PICK y : y = <<b>>
    OBVIOUS
<1>3. x \in Texts /\ y \in Texts /\ Len(x) = 1 /\ x[1] = a /\ Len(y) = 1 /\ y[1] = b
    BY <1>1, <1>2, Character1
<1>4. PICK xy : xy = x \o y
    OBVIOUS
<1>5. xy \in Texts /\ Len(xy) = Len(x) + Len(y) /\ \A i \in 1 .. Len(x) : xy[i] = x[i]
    BY <1>3, <1>4, Together
<1>6. xy = <<a, b>>
    <2>1. Append(x, b) = <<a, b>>
        BY <1>1, Grown
    <2>2. Append(x, b) = x \o y
        <3>1. x \in Seq(Symbols)
            BY <1>3 DEF Texts
        <3> QED
            BY <1>2, <3>1, Longer
    <2> QED
        BY <1>4, <2>1, <2>2
<1>7. xy \o v = x \o (y \o v)
    BY <1>3, <1>4, Regroup
<1>8. PICK w : w = xy \o v
    OBVIOUS
<1>9. w \in Texts /\ Len(w) = Len(xy) + Len(v) /\ \A i \in 1 .. Len(xy) : w[i] = xy[i]
    BY <1>5, <1>8, Together
<1>10. Len(xy) = 2 /\ xy[1] = a
    <2>1. 1 \in 1 .. Len(x)
        BY <1>3
    <2> QED
        BY <1>3, <1>5, <2>1
<1>11. Len(w) = 2 + Len(v) /\ w[1] = a
    BY <1>9, <1>10
<1>12. ASSUME NEW c, a # c, b # c, Without(v, c) PROVE Without(w, c)
    <2>1. Without(x, c) /\ Without(y, c)
        BY <1>1, <1>2, <1>12, WithoutOne
    <2>2. y \o v \in Texts /\ Without(y \o v, c)
        BY <1>3, <1>12, <2>1, Together, WithoutIn
    <2>3. Without(x \o (y \o v), c)
        BY <1>3, <2>1, <2>2, WithoutIn
    <2> QED
        BY <1>7, <1>8, <2>3
<1>13. w = t
    BY <1>6, <1>8
<1> QED
    BY ONLY <1>1, <1>2, <1>5, <1>6, <1>7, <1>8, <1>9, <1>11, <1>12, <1>13

LEMMA BearerValued ==
    ASSUME NEW token \in Texts, Without(token, "%"), Without(token, LF), Len(token) + 7 <= MaxLine
    PROVE  Valued(<<"Bearer", Space>> \o token)
<1>1. "Bearer" \in Symbols /\ Space \in Symbols
    BY NamedSymbols, Apart DEF Named
<1>2. "Bearer" # Space /\ "Bearer" # LF
    BY Zenon DEF Space, LF
<1>3. "Bearer" # "%"
    OBVIOUS
<1>4. PICK v : v = <<"Bearer", Space>> \o token
    OBVIOUS
<1>50. PICK b \in Symbols : b = "Bearer"
    BY <1>1
<1>51. PICK sp \in Symbols : sp = Space
    BY <1>1
<1>52. v = <<b, sp>> \o token
    BY <1>4, <1>50, <1>51, Zenon
<1>53. v \in Texts /\ Len(v) = 2 + Len(token) /\ v[1] = b
    <2>1. v \in Texts
        BY ONLY token \in Texts, b \in Symbols, sp \in Symbols, <1>52, TwoBefore
    <2>2. Len(v) = 2 + Len(token)
        BY ONLY token \in Texts, b \in Symbols, sp \in Symbols, <1>52, TwoBefore
    <2>3. v[1] = b
        BY ONLY token \in Texts, b \in Symbols, sp \in Symbols, <1>52, TwoBefore
    <2> QED
        BY <2>1, <2>2, <2>3
<1>5. v \in Texts /\ Len(v) = 2 + Len(token) /\ v[1] = "Bearer"
    BY <1>50, <1>53, Zenon
<1>54. \A c : b # c /\ sp # c /\ Without(token, c) => Without(v, c)
    BY ONLY token \in Texts, b \in Symbols, sp \in Symbols, <1>52, TwoBefore
<1>6. Without(v, "%") /\ Without(v, LF)
    BY <1>2, <1>3, <1>50, <1>51, <1>54, Apart, Zenon
<1>7. Len(token) \in Nat
    BY TextShape
<1>8. v # <<>> /\ Len(v) + 5 <= MaxLine
    <2>1. Len(v) # 0 /\ Len(<<>>) = 0
        BY <1>5, <1>7
    <2>2. Len(v) + 5 <= MaxLine
        BY <1>5, <1>7, LimitsAssumption
    <2> QED
        BY <2>1, <2>2
<1> QED
    BY <1>2, <1>4, <1>5, <1>6, <1>8 DEF Valued

LEMMA LengthValued ==
    ASSUME NEW n \in Nat, Len(Spelled(n)) + 5 <= MaxLine
    PROVE  Valued(Spelled(n))
<1>1. PICK v : v = Spelled(n)
    OBVIOUS
<1>2. v \in Texts /\ v \in Seq(DecimalDigits) /\ Len(v) > 0
    BY <1>1, SpelledNumber
<1>3. \A d \in DecimalDigits : d \in {"0", "1", "2", "3", "4", "5", "6", "7", "8", "9"}
    <2> SUFFICES ASSUME NEW k \in 1 .. 10
                 PROVE  HexDigits[k] \in {"0", "1", "2", "3", "4", "5", "6", "7", "8", "9"}
        BY DEF DecimalDigits
    <2>1. k \in {1, 2, 3, 4, 5, 6, 7, 8, 9, 10}
        OBVIOUS
    <2> QED
        BY <2>1, HexTable
<1>4. "%" \notin {"0", "1", "2", "3", "4", "5", "6", "7", "8", "9"}
    OBVIOUS
<1>5. LF \notin {"0", "1", "2", "3", "4", "5", "6", "7", "8", "9"}
    BY Zenon DEF LF
<1>6. Space \notin {"0", "1", "2", "3", "4", "5", "6", "7", "8", "9"}
    BY Zenon DEF Space
<1>7. \A i \in 1 .. Len(v) : v[i] \in DecimalDigits
    BY <1>2
<1>8. 1 \in 1 .. Len(v)
    BY <1>2, TextShape
<1>9. v[1] # Space
    <2>1. v[1] \in DecimalDigits
        BY <1>7, <1>8
    <2> QED
        BY <1>3, <1>6, <2>1, Zenon
<1>10. Without(v, "%") /\ Without(v, LF)
    <2>1. "%" \notin DecimalDigits
        BY <1>3, <1>4, Zenon
    <2>2. LF \notin DecimalDigits
        BY <1>3, <1>5, Zenon
    <2> QED
        BY <1>7, <2>1, <2>2, Zenon DEF Without
<1>11. v # <<>>
    BY <1>2, TextShape
<1> QED
    BY <1>1, <1>2, <1>9, <1>10, <1>11 DEF Valued

\* A header, when there is a value for it.
Given(name, v) == IF v = <<>> THEN <<>> ELSE Header(name, v)

Shows(hs, name, v) == IF v = <<>> THEN Absent(hs, name) ELSE Found(hs, name, v)

Titles == {"Host", "Content-Type", "Authorization", "Content-Length"}

LEMMA TitleShape ==
    ASSUME NEW name \in Titles
    PROVE  name \in Symbols /\ name # ":" /\ name # LF
<1>1. name \in Symbols /\ name # ":"
    BY NamedSymbols DEF Titles, Named
<1>2. LF \notin Titles
    BY Zenon DEF Titles, LF
<1> QED
    BY <1>1, <1>2

LEMMA GivenText ==
    ASSUME NEW name \in Symbols, NEW v \in Texts
    PROVE  Given(name, v) \in Texts
<1>1. CASE v = <<>>
    BY <1>1 DEF Given, Texts
<1>2. CASE v # <<>>
    <2>1. ":" \in Symbols /\ Space \in Symbols
        BY NamedSymbols, Apart DEF Named
    <2>2. PICK x : x = <<name, ":", Space>>
        OBVIOUS
    <2>3. x \in Texts
        BY <2>1, <2>2, ThreeBefore
    <2>4. (x \o v) \o Crlf \in Texts
        <3>1. x \o v \in Texts
            BY <2>3, Together
        <3> QED
            BY <3>1, CrlfShape, Together
    <2> QED
        BY <1>2, <2>2, <2>4 DEF Given, Header
<1> QED
    BY <1>1, <1>2

\* The rounds in which the headers are read.
HeadRounds(f, s) ==
    /\ f[0] = [s |-> s, on |-> TRUE, ok |-> FALSE, headers |-> <<>>]
    /\ \A n \in 1 .. MaxHeaders + 1 : f[n] = ReadHeader(f[n - 1])
    /\ ReadHeaders(s) = f[MaxHeaders + 1]

\* After one round more or none, the header is there if it was given, and the others
\* are as they were.
GivenNext(f, n, hs, name, v, rest) ==
    \E m \in n .. n + 1 : \E gs \in Seq(Heads) :
        /\ Reading(f[m], gs, rest) /\ Shows(gs, name, v)
        /\ \A other, w : name # other /\ Shows(hs, other, w) => Shows(gs, other, w)

\* One that may be there.
LEMMA GivenRead ==
    ASSUME NEW f, NEW s, HeadRounds(f, s), NEW n \in 0 .. MaxHeaders, NEW hs \in Seq(Heads),
           NEW name \in Titles, NEW v \in Texts, v = <<>> \/ Valued(v), NEW rest \in Texts,
           Reading(f[n], hs, Given(name, v) \o rest), Absent(hs, name)
    PROVE  GivenNext(f, n, hs, name, v, rest)
<1>0. MaxHeaders \in Nat
    BY LimitsAssumption
<1>1. CASE v = <<>>
    <2>1. PICK e : e = <<>>
        OBVIOUS
    <2>2. Given(name, v) = e /\ e \o rest = rest
        BY <1>1, <2>1, TextShape DEF Given
    <2>3. Reading(f[n], hs, rest) /\ Shows(hs, name, v)
        BY <1>1, <2>2 DEF Shows
    <2>4. n \in n .. n + 1
        BY <1>0
    <2> QED
        BY <2>3, <2>4 DEF GivenNext
<1>2. CASE v # <<>>
    <2>1. Valued(v) /\ Given(name, v) = Header(name, v)
        BY <1>2 DEF Given
    <2>2. name \in Symbols /\ name # ":" /\ name # LF
        BY TitleShape
    <2>3. PICK r : r = f[n]
        OBVIOUS
    <2>4. Reading(r, hs, Header(name, v) \o rest)
        BY <2>1, <2>3
    <2>5. v[1] # Space /\ Without(v, "%") /\ Without(v, LF) /\ Len(v) + 5 <= MaxLine
        BY <2>1 DEF Valued
    <2>6. Reading(ReadHeader(r), Append(hs, Parsed(name, v)), rest)
        BY <1>2, <2>2, <2>4, <2>5, HeaderRead
    <2>7. f[n + 1] = ReadHeader(r)
        <3>1. n + 1 \in 1 .. MaxHeaders + 1 /\ (n + 1) - 1 = n
            BY <1>0
        <3> QED
            BY <2>3, <3>1 DEF HeadRounds
    <2>8. PICK gs : gs = Append(hs, Parsed(name, v))
        OBVIOUS
    <2>9. gs \in Seq(Heads) /\ Found(gs, name, v)
        BY <2>2, <2>8, AppendedHead
    <2>10. Shows(gs, name, v)
        BY <1>2, <2>9 DEF Shows
    <2>11. ASSUME NEW other, NEW w, name # other, Shows(hs, other, w) PROVE Shows(gs, other, w)
        BY <2>2, <2>8, <2>11, OtherHead DEF Shows
    <2>12. n + 1 \in n .. n + 1
        BY <1>0
    <2>13. Reading(f[n + 1], gs, rest)
        BY <2>6, <2>7, <2>8
    <2> QED
        BY ONLY <2>9, <2>10, <2>11, <2>12, <2>13 DEF GivenNext
<1> QED
    BY <1>1, <1>2

LEMMA HeadEnds ==
    ASSUME NEW f, NEW s, HeadRounds(f, s), NEW n \in 0 .. MaxHeaders, NEW hs, NEW rest \in Texts,
           MaxLine >= 2, Reading(f[n], hs, Crlf \o rest)
    PROVE  Complete(ReadHeaders(s), hs, rest)
<1>0. MaxHeaders \in Nat
    BY LimitsAssumption
<1>1. PICK last : last = f[n + 1]
    OBVIOUS
<1>2. Complete(last, hs, rest)
    <2>1. n + 1 \in 1 .. MaxHeaders + 1 /\ (n + 1) - 1 = n
        BY <1>0
    <2>2. last = ReadHeader(f[n])
        BY <1>1, <2>1 DEF HeadRounds
    <2> QED
        BY <2>2, BlankRead
<1> DEFINE Still == {k \in 0 .. MaxHeaders - n : f[(n + 1) + k] = last}
<1>3. 0 \in Still
    <2>1. (n + 1) + 0 = n + 1 /\ 0 \in 0 .. MaxHeaders - n
        BY <1>0
    <2> QED
        BY <1>1, <2>1
<1>4. ASSUME NEW k \in 0 .. (MaxHeaders - n) - 1, k \in Still PROVE k + 1 \in Still
    <2>1. /\ k + 1 \in 0 .. MaxHeaders - n /\ (n + 1) + (k + 1) \in 1 .. MaxHeaders + 1
          /\ ((n + 1) + (k + 1)) - 1 = (n + 1) + k
        BY <1>0
    <2>2. f[(n + 1) + (k + 1)] = ReadHeader(f[(n + 1) + k])
        BY <2>1 DEF HeadRounds
    <2>3. ReadHeader(last) = last
        BY <1>2, Zenon DEF Complete, ReadHeader
    <2> QED
        BY <1>4, <2>1, <2>2, <2>3
<1>5. f[MaxHeaders + 1] = last
    <2> HIDE DEF Still
    <2>1. /\ MaxHeaders - n \in Nat /\ MaxHeaders - n \in 0 .. MaxHeaders - n
          /\ \A k \in 0 .. (MaxHeaders - n) - 1 : k \in Still => k + 1 \in Still
        BY <1>0, <1>4
    <2>2. MaxHeaders - n \in Still
        BY <1>3, <2>1, Upwards
    <2>3. (n + 1) + (MaxHeaders - n) = MaxHeaders + 1
        BY <1>0
    <2> QED
        BY <2>2, <2>3 DEF Still
<1> QED
    BY <1>2, <1>5 DEF HeadRounds

\* The client's headers are read, and the stream is left at the content.
LEMMA HeadRead ==
    ASSUME MaxLine >= 8, MaxHeaders >= 4, NEW s, NEW rest \in Texts,
           NEW auth \in Texts, auth = <<>> \/ Valued(auth),
           NEW len \in Texts, len = <<>> \/ Valued(len),
           Holds(s, Given("Host", <<"gateway", ":", "8080">>) \o
                        (Given("Content-Type", <<"application/json">>) \o
                            (Given("Authorization", auth) \o
                                (Given("Content-Length", len) \o (Crlf \o rest)))))
    PROVE  \E hs \in Seq(Heads) :
               /\ Complete(ReadHeaders(s), hs, rest)
               /\ Shows(hs, "Authorization", auth) /\ Shows(hs, "Content-Length", len)
<1>0. MaxHeaders \in Nat /\ MaxLine \in Nat
    BY LimitsAssumption
<1>1. PICK start : start = [s |-> s, on |-> TRUE, ok |-> FALSE, headers |-> <<>>]
    OBVIOUS
<1>2. PICK f : /\ f = [n \in 0 .. MaxHeaders + 1 |-> IF n = 0 THEN start ELSE ReadHeader(f[n - 1])]
               /\ Loop(start, ReadHeader, MaxHeaders + 1) = f[MaxHeaders + 1]
    <2>1. MaxHeaders + 1 \in Nat
        BY <1>0
    <2> QED
        BY <2>1, HeaderRounds
<1>3. HeadRounds(f, s)
    <2>1. f[0] = start /\ \A n \in 1 .. MaxHeaders + 1 : f[n] = ReadHeader(f[n - 1])
        BY <1>0, <1>2
    <2>2. ReadHeaders(s) = f[MaxHeaders + 1]
        BY <1>1, <1>2, Zenon DEF ReadHeaders
    <2> QED
        BY <1>1, <2>1, <2>2, Zenon DEF HeadRounds
<1>4. PICK host : host = <<"gateway", ":", "8080">>
    OBVIOUS
<1>5. PICK kind : kind = <<"application/json">>
    OBVIOUS
<1>6. Valued(host) /\ Valued(kind) /\ host \in Texts /\ kind \in Texts
    BY <1>4, <1>5, HostValued DEF Valued
<1>7. PICK t4 : t4 = Crlf \o rest
    OBVIOUS
<1>8. PICK t3 : t3 = Given("Content-Length", len) \o t4
    OBVIOUS
<1>9. PICK t2 : t2 = Given("Authorization", auth) \o t3
    OBVIOUS
<1>10. PICK t1 : t1 = Given("Content-Type", kind) \o t2
    OBVIOUS
<1>11. PICK t0 : t0 = Given("Host", host) \o t1
    OBVIOUS
<1>12. /\ "Host" \in Titles /\ "Content-Type" \in Titles /\ "Authorization" \in Titles
       /\ "Content-Length" \in Titles
    BY DEF Titles
<1>13. t4 \in Texts /\ t3 \in Texts /\ t2 \in Texts /\ t1 \in Texts
    <2>1. t4 \in Texts
        BY <1>7, CrlfShape, Together
    <2>2. t3 \in Texts
        BY <1>8, <1>12, <2>1, TitleShape, GivenText, Together
    <2>3. t2 \in Texts
        BY <1>9, <1>12, <2>2, TitleShape, GivenText, Together
    <2>4. t1 \in Texts
        BY <1>6, <1>10, <1>12, <2>3, TitleShape, GivenText, Together
    <2> QED
        BY <2>1, <2>2, <2>3, <2>4
<1>14. Holds(s, t0)
    BY <1>4, <1>5, <1>7, <1>8, <1>9, <1>10, <1>11, Zenon
<1>15. PICK h0 : h0 = <<>>
    OBVIOUS
<1>16. h0 \in Seq(Heads) /\ \A name : Absent(h0, name)
    <2>1. h0 \in Seq(Heads) /\ Len(h0) = 0
        BY <1>15
    <2> QED
        BY <2>1 DEF Absent
<1>17. PICK z \in 0 .. MaxHeaders : z = 0
    BY <1>0
<1>18. Reading(f[z], h0, t0)
    <2>1. start.on /\ start.headers = h0 /\ start.s = s
        BY <1>1, <1>15
    <2>2. f[z] = start
        BY <1>1, <1>3, <1>17, Zenon DEF HeadRounds
    <2> QED
        BY <1>14, <2>1, <2>2 DEF Reading
<1> DEFINE Kept(hs, gs, name) == \A other, w : name # other /\ Shows(hs, other, w) => Shows(gs, other, w)
<1>19. PICK n1 \in z .. z + 1, h1 \in Seq(Heads) : Reading(f[n1], h1, t1) /\ Kept(h0, h1, "Host")
    <2>1. z \in 0 .. MaxHeaders /\ h0 \in Seq(Heads) /\ "Host" \in Titles
        BY <1>12, <1>16
    <2>2. host \in Texts /\ (host = <<>> \/ Valued(host)) /\ t1 \in Texts
        BY <1>6, <1>13
    <2>3. Reading(f[z], h0, Given("Host", host) \o t1) /\ Absent(h0, "Host")
        BY <1>11, <1>16, <1>18
    <2>4. GivenNext(f, z, h0, "Host", host, t1)
        BY ONLY <1>3, <2>1, <2>2, <2>3, GivenRead
    <2> QED
        BY <2>4, Zenon DEF GivenNext
<1>20. PICK none : none = <<>>
    OBVIOUS
<1>21. \A hs, name : Shows(hs, name, none) <=> Absent(hs, name)
    BY <1>20 DEF Shows
<1>22. Absent(h1, "Content-Type") /\ Absent(h1, "Authorization") /\ Absent(h1, "Content-Length")
    <2>1. "Host" # "Content-Type" /\ "Host" # "Authorization" /\ "Host" # "Content-Length"
        OBVIOUS
    <2> QED
        BY <1>16, <1>19, <1>21, <2>1
<1>23. n1 \in 0 .. MaxHeaders /\ n1 <= 1
    BY <1>0, <1>17, <1>19
<1>24. PICK n2 \in n1 .. n1 + 1, h2 \in Seq(Heads) : Reading(f[n2], h2, t2) /\ Kept(h1, h2, "Content-Type")
    <2>1. n1 \in 0 .. MaxHeaders /\ h1 \in Seq(Heads) /\ "Content-Type" \in Titles
        BY <1>12, <1>19, <1>23
    <2>2. kind \in Texts /\ (kind = <<>> \/ Valued(kind)) /\ t2 \in Texts
        BY <1>6, <1>13
    <2>3. Reading(f[n1], h1, Given("Content-Type", kind) \o t2) /\ Absent(h1, "Content-Type")
        BY <1>10, <1>19, <1>22
    <2>4. GivenNext(f, n1, h1, "Content-Type", kind, t2)
        BY ONLY <1>3, <2>1, <2>2, <2>3, GivenRead
    <2> QED
        BY <2>4, Zenon DEF GivenNext
<1>25. Absent(h2, "Authorization") /\ Absent(h2, "Content-Length")
    <2>1. "Content-Type" # "Authorization" /\ "Content-Type" # "Content-Length"
        OBVIOUS
    <2> QED
        BY <1>21, <1>22, <1>24, <2>1
<1>26. n2 \in 0 .. MaxHeaders /\ n2 <= 2
    BY <1>0, <1>23, <1>24
<1>27. PICK n3 \in n2 .. n2 + 1, h3 \in Seq(Heads) :
           Reading(f[n3], h3, t3) /\ Shows(h3, "Authorization", auth) /\ Kept(h2, h3, "Authorization")
    <2>1. n2 \in 0 .. MaxHeaders /\ h2 \in Seq(Heads) /\ "Authorization" \in Titles
        BY <1>12, <1>24, <1>26
    <2>2. auth \in Texts /\ (auth = <<>> \/ Valued(auth)) /\ t3 \in Texts
        BY <1>13
    <2>3. Reading(f[n2], h2, Given("Authorization", auth) \o t3) /\ Absent(h2, "Authorization")
        BY <1>9, <1>24, <1>25
    <2>4. GivenNext(f, n2, h2, "Authorization", auth, t3)
        BY ONLY <1>3, <2>1, <2>2, <2>3, GivenRead
    <2> QED
        BY <2>4, Zenon DEF GivenNext
<1>28. Absent(h3, "Content-Length")
    <2>1. "Authorization" # "Content-Length"
        OBVIOUS
    <2> QED
        BY <1>21, <1>25, <1>27, <2>1
<1>29. n3 \in 0 .. MaxHeaders /\ n3 <= 3
    BY <1>0, <1>26, <1>27
<1>30. PICK n4 \in n3 .. n3 + 1, h4 \in Seq(Heads) :
           Reading(f[n4], h4, t4) /\ Shows(h4, "Content-Length", len) /\ Kept(h3, h4, "Content-Length")
    <2>1. n3 \in 0 .. MaxHeaders /\ h3 \in Seq(Heads) /\ "Content-Length" \in Titles
        BY <1>12, <1>27, <1>29
    <2>2. len \in Texts /\ (len = <<>> \/ Valued(len)) /\ t4 \in Texts
        BY <1>13
    <2>3. Reading(f[n3], h3, Given("Content-Length", len) \o t4) /\ Absent(h3, "Content-Length")
        BY <1>8, <1>27, <1>28
    <2>4. GivenNext(f, n3, h3, "Content-Length", len, t4)
        BY ONLY <1>3, <2>1, <2>2, <2>3, GivenRead
    <2> QED
        BY <2>4, Zenon DEF GivenNext
<1>31. Shows(h4, "Authorization", auth)
    <2>1. "Content-Length" # "Authorization"
        OBVIOUS
    <2> QED
        BY <1>27, <1>30, <2>1
<1>32. n4 \in 0 .. MaxHeaders
    BY <1>0, <1>29, <1>30
<1>33. Complete(ReadHeaders(s), h4, rest)
    <2>1. MaxLine >= 2
        BY <1>0
    <2> QED
        BY <1>3, <1>7, <1>30, <1>32, <2>1, HeadEnds
<1> QED
    BY <1>30, <1>31, <1>33

-----------------------------------------------------------------------------
(***************************************************************************)
(* The content.                                                            *)
(***************************************************************************)
LEMMA AllRead ==
    ASSUME NEW body \in Texts, NEW s, Holds(s, body), NEW len, len = Len(body)
    PROVE  /\ Content(s, len).ok /\ Content(s, len).body = body
           /\ ~Unread(Content(s, len).s)
<1>1. PICK text \in Texts : \E at \in 0 .. Len(text) : StreamAt(s, text, at) /\ body = Rest(text, at)
    BY DEF Holds
<1>2. PICK at \in 0 .. Len(text) : StreamAt(s, text, at) /\ body = Rest(text, at)
    BY <1>1
<1>3. Len(text) \in Nat /\ len \in Nat
    BY TextShape
<1>4. Len(text) \in at .. Len(text)
    BY <1>3
<1>5. len = Len(text) - at
    BY <1>2, <1>4, Part DEF Rest
<1>6. PICK k \in 0 .. len :
          /\ at + k \in 0 .. Len(text) /\ (k = len \/ at + k = Len(text))
          /\ Content(s, len).ok = (k = len)
          /\ Content(s, len).body = SubSeq(text, at + 1, at + k)
          /\ StreamAt(Content(s, len).s, text, at + k)
    BY <1>2, <1>3, ContentRead
<1>7. k = len /\ at + k = Len(text)
    BY <1>3, <1>5, <1>6
<1>8. Content(s, len).ok
    BY <1>6, <1>7
<1>9. Content(s, len).body = body
    BY <1>2, <1>6, <1>7 DEF Rest
<1>10. StreamAt(Content(s, len).s, text, Len(text))
    BY <1>6, <1>7
<1>11. ~Unread(Content(s, len).s)
    BY <1>10, LeftOver
<1> QED
    BY <1>8, <1>9, <1>11

LEMMA NothingLeft ==
    ASSUME NEW s, Holds(s, <<>>)
    PROVE  ~Unread(s)
<1>1. PICK text \in Texts : \E at \in 0 .. Len(text) : StreamAt(s, text, at) /\ <<>> = Rest(text, at)
    BY DEF Holds
<1>2. PICK at \in 0 .. Len(text) : StreamAt(s, text, at) /\ <<>> = Rest(text, at)
    BY <1>1
<1>3. Len(text) \in Nat
    BY TextShape
<1>4. Len(text) \in at .. Len(text)
    BY <1>3
<1>5. Len(Rest(text, at)) = Len(text) - at
    BY <1>2, <1>4, Part DEF Rest
<1>6. at = Len(text)
    BY <1>2, <1>3, <1>5
<1> QED
    BY <1>2, <1>6, LeftOver

LEMMA LengthRead ==
    ASSUME NEW hs \in Seq(Heads), NEW body \in Texts, NEW s, Holds(s, body),
           Found(hs, "Content-Length", Spelled(Len(body)))
    PROVE  /\ ReadContent(s, hs).ok /\ ReadContent(s, hs).body = body
           /\ ~Unread(ReadContent(s, hs).s)
<1>1. Len(body) \in Nat
    BY TextShape
<1>2. PICK v : v = Spelled(Len(body))
    OBVIOUS
<1>3. v \in Texts /\ v \in Seq(DecimalDigits) /\ Len(v) > 0 /\ Number(v) = Len(body)
    BY <1>1, <1>2, SpelledNumber
<1>4. HeaderValue(hs, "Content-Length") = v
    BY <1>2, FoundValue
<1>5. v # <<>>
    BY <1>3, TextShape
<1>6. PICK n : n = Len(body)
    OBVIOUS
<1>7. ReadContent(s, hs) = Content(s, n)
    BY <1>3, <1>4, <1>5, <1>6, Zenon DEF ReadContent
<1> QED
    BY <1>6, <1>7, AllRead

\* The content of a request is all that is left of it.
LEMMA BodyRead ==
    ASSUME NEW hs \in Seq(Heads), NEW body \in Texts, NEW s, Holds(s, body), NEW method, NEW len,
           Shows(hs, "Content-Length", len),
           \/ method \in {"POST", "DELETE"} /\ len = Spelled(Len(body))
           \/ method \in {"GET", "DELETE"} /\ len = <<>> /\ body = <<>>
    PROVE  \E c : /\ c = RequestContent(s, method, hs)
                  /\ c.ok /\ c.body = body /\ ~Unread(c.s)
<1>1. CASE method \in {"POST", "DELETE"} /\ len = Spelled(Len(body))
    <2>1. Len(body) \in Nat
        BY TextShape
    <2>2. PICK v : v = Spelled(Len(body))
        OBVIOUS
    <2>3. v \in Texts /\ Len(v) > 0
        BY <2>1, <2>2, SpelledNumber
    <2>4. v # <<>>
        BY <2>3, TextShape
    <2>5. Found(hs, "Content-Length", v)
        BY <1>1, <2>2, <2>4 DEF Shows
    <2>6. HasHeader(hs, "Content-Length")
        BY <2>5, FoundValue
    <2>7. ExpectContent(method, hs)
        BY <1>1 DEF ExpectContent
    <2>8. RequestContent(s, method, hs) = ReadContent(s, hs)
        BY <2>6, <2>7, Zenon DEF RequestContent
    <2> QED
        BY <2>2, <2>5, <2>8, LengthRead
<1>2. CASE method \in {"GET", "DELETE"} /\ len = <<>> /\ body = <<>>
    <2>1. Absent(hs, "Content-Length")
        BY <1>2 DEF Shows
    <2>2. HeaderValue(hs, "Content-Length") = <<>> /\ ~HasHeader(hs, "Content-Length")
        BY <2>1, AbsentValue
    <2>3. ContentLength(hs) = 0
        BY <2>2, NumberNone, Zenon DEF ContentLength
    <2>4. method = "GET" => ~ExpectContent(method, hs)
        BY <2>3 DEF ExpectContent
    <2>5. ~ExpectContent(method, hs) \/ method = "DELETE"
        BY <1>2, <2>4
    <2>6. PICK c : c = [ok |-> TRUE, body |-> <<>>, s |-> s]
        OBVIOUS
    <2>7. RequestContent(s, method, hs) = c
        BY <2>2, <2>5, <2>6, Zenon DEF RequestContent
    <2>8. c.ok /\ c.body = body /\ c.s = s
        BY <1>2, <2>6
    <2>9. ~Unread(c.s)
        BY <1>2, <2>8, NothingLeft
    <2> QED
        BY <2>7, <2>8, <2>9
<1> QED
    BY <1>1, <1>2

\* The token that was written is the one the handler gets.
LEMMA TokenShown ==
    ASSUME NEW hs \in Seq(Heads), NEW token \in Texts, NEW auth,
           auth = IF token = <<>> THEN <<>> ELSE <<"Bearer", Space>> \o token,
           Shows(hs, "Authorization", auth)
    PROVE  BearerToken(hs) = token
<1>1. CASE token = <<>>
    <2>1. Absent(hs, "Authorization")
        BY <1>1 DEF Shows
    <2>2. HeaderValue(hs, "Authorization") = <<>>
        BY <2>1, AbsentValue
    <2>3. PICK value : value = HeaderValue(hs, "Authorization")
        OBVIOUS
    <2>4. ~(Len(value) > 2)
        BY <2>2, <2>3
    <2>5. BearerToken(hs) = <<>>
        BY <2>3, <2>4, Zenon DEF BearerToken
    <2> QED
        BY <1>1, <2>5
<1>2. CASE token # <<>>
    <2>1. PICK b \in Symbols : b = "Bearer"
        BY NamedSymbols DEF Named
    <2>2. PICK sp \in Symbols : sp = Space
        BY Apart
    <2>3. auth = <<b, sp>> \o token
        BY <1>2, <2>1, <2>2, Zenon
    <2>4. PICK front : front = <<b, sp>>
        OBVIOUS
    <2>5. front \in Texts /\ auth = front \o token
        BY ONLY token \in Texts, b \in Symbols, sp \in Symbols, <2>3, <2>4, TwoBefore
    <2>6. Len(front) = 2
        BY <2>4
    <2>7. Len(token) \in Nat /\ Len(token) # 0
        BY <1>2, TextShape
    <2>8. Len(auth) = 2 + Len(token) /\ auth \in Texts
        <3>1. Len(auth) = Len(front) + Len(token) /\ auth \in Texts
            BY ONLY token \in Texts, <2>5, Together
        <3> QED
            BY <2>6, <3>1, Zenon
    <2>9. SubSeq(auth, 1, 2) = front /\ SubSeq(auth, 3, Len(auth)) = token
        <3>1. SubSeq(auth, 1, Len(front)) = front /\ SubSeq(auth, Len(front) + 1, Len(auth)) = token
            BY ONLY token \in Texts, <2>5, FrontPart
        <3>2. Len(front) + 1 = 3
            BY <2>6
        <3> QED
            BY <2>6, <3>1, <3>2, Zenon
    <2>10. Len(auth) > 2
        BY <2>7, <2>8
    <2>11. auth # <<>>
        BY <2>8, <2>7, TextShape
    <2>12. Found(hs, "Authorization", auth)
        BY <2>11 DEF Shows
    <2>13. HeaderValue(hs, "Authorization") = auth
        BY <2>12, FoundValue
    <2>14. SubSeq(auth, 1, 2) = <<"Bearer", Space>>
        BY <2>1, <2>2, <2>4, <2>9, Zenon
    <2>15. BearerToken(hs) = From(auth, 3)
        BY <2>10, <2>13, <2>14, Zenon DEF BearerToken
    <2> QED
        BY <2>9, <2>15 DEF From
<1> QED
    BY <1>1, <1>2

-----------------------------------------------------------------------------
(***************************************************************************)
(* The first line.                                                         *)
(***************************************************************************)
LEMMA ThreeWords ==
    ASSUME NEW u \in Texts, NEW v \in Texts, NEW w \in Texts, NEW sep \in Symbols,
           Without(u, sep), Without(v, sep), Without(w, sep), u # <<>>, v # <<>>, w # <<>>
    PROVE  Split((u \o (<<sep>> \o v)) \o (<<sep>> \o w), sep) = <<u, v, w>>
<1>1. PICK no : no = FALSE
    OBVIOUS
<1>2. no \/ (u # <<>> /\ v # <<>> /\ w # <<>>)
    OBVIOUS
<1>3. Parts((u \o (<<sep>> \o v)) \o (<<sep>> \o w), sep, no) = <<u, v, w>>
    BY <1>2, ThreeParts
<1> QED
    BY <1>1, <1>3, Zenon DEF Split

LEMMA FirstWords ==
    ASSUME NEW m \in Symbols, m # Space, m # LF, NEW w \in Symbols, w # Space, w # LF,
           NEW t \in Texts, t # <<>>, Without(t, Space), Without(t, LF),
           NEW x, x = (<<m, Space>> \o t) \o <<Space, w>>
    PROVE  /\ x \in Texts /\ Without(x, LF) /\ Len(x) = Len(t) + 4
           /\ Split(x, Space) = <<<<m>>, t, <<w>>>>
<1>1. PICK sp \in Symbols : sp = Space
    BY Apart
<1>2. PICK u : u = <<m>>
    OBVIOUS
<1>3. PICK v : v = <<w>>
    OBVIOUS
<1>4. /\ u \in Texts /\ v \in Texts /\ Len(u) = 1 /\ Len(v) = 1 /\ Without(u, Space) /\ Without(v, Space)
      /\ Without(u, LF) /\ Without(v, LF) /\ u # <<>> /\ v # <<>>
    <2>1. u \in Texts /\ Len(u) = 1
        BY ONLY m \in Symbols, <1>2, Character1
    <2>2. v \in Texts /\ Len(v) = 1
        BY ONLY w \in Symbols, <1>3, Character1
    <2>3. Without(u, Space) /\ Without(v, Space) /\ Without(u, LF) /\ Without(v, LF)
        BY <1>2, <1>3, WithoutOne
    <2>4. u # <<>> /\ v # <<>>
        BY ONLY <1>2, <1>3
    <2> QED
        BY <2>1, <2>2, <2>3, <2>4
<1>5. PICK y : y = <<sp>>
    OBVIOUS
<1>6. y \in Texts /\ Len(y) = 1 /\ Without(y, LF)
    <2>1. y \in Texts /\ Len(y) = 1
        BY <1>5, Character1
    <2>2. sp # LF
        BY <1>1, Apart
    <2> QED
        BY <1>5, <2>1, <2>2, WithoutOne
<1>7. PICK front : front = <<m, sp>> \o t
    OBVIOUS
<1>8. PICK back : back = <<sp, w>>
    OBVIOUS
<1>9. x = front \o back
    BY <1>1, <1>7, <1>8, Zenon
<1>10. front = u \o (y \o t)
    BY ONLY m \in Symbols, sp \in Symbols, t \in Texts, <1>2, <1>5, <1>7, TwoBefore
<1>11. back = y \o v
    <2>1. <<sp>> \in Seq(Symbols)
        BY <1>1
    <2>2. Append(<<sp>>, w) = <<sp>> \o <<w>>
        BY <2>1, Longer
    <2>3. Append(<<sp>>, w) = <<sp, w>>
        BY Grown
    <2> QED
        BY ONLY <1>3, <1>5, <1>8, <2>2, <2>3
<1>12. x = (u \o (<<sp>> \o t)) \o (<<sp>> \o v)
    BY <1>5, <1>9, <1>10, <1>11, Zenon
<1>13. PICK yt : yt = y \o t
    OBVIOUS
<1>14. yt \in Texts /\ Len(yt) = 1 + Len(t) /\ Without(yt, LF)
    <2>1. yt \in Texts /\ Len(yt) = Len(y) + Len(t)
        BY ONLY t \in Texts, <1>6, <1>13, Together
    <2>2. Without(y \o t, LF)
        BY ONLY t \in Texts, Without(t, LF), <1>6, WithoutIn
    <2> QED
        BY <1>6, <1>13, <2>1, <2>2, Zenon
<1>15. front \in Texts /\ Len(front) = 2 + Len(t) /\ Without(front, LF)
    <2>1. front \in Texts /\ Len(front) = Len(u) + Len(yt) /\ Without(front, LF)
        BY ONLY <1>4, <1>10, <1>13, <1>14, Together, WithoutIn
    <2>2. Len(t) \in Nat
        BY TextShape
    <2> QED
        BY <1>4, <1>14, <2>1, <2>2
<1>16. back \in Texts /\ Len(back) = 2 /\ Without(back, LF)
    <2>1. back \in Texts /\ Len(back) = Len(y) + Len(v) /\ Without(back, LF)
        BY ONLY <1>4, <1>6, <1>11, Together, WithoutIn
    <2> QED
        BY <1>4, <1>6, <2>1
<1>17. x \in Texts /\ Without(x, LF) /\ Len(x) = Len(t) + 4
    <2>1. x \in Texts /\ Len(x) = Len(front) + Len(back) /\ Without(x, LF)
        BY ONLY <1>9, <1>15, <1>16, Together, WithoutIn
    <2>2. Len(t) \in Nat
        BY TextShape
    <2> QED
        BY <1>15, <1>16, <2>1, <2>2
<1>18. Split((u \o (<<sp>> \o t)) \o (<<sp>> \o v), sp) = <<u, t, v>>
    <2>1. Without(u, sp) /\ Without(t, sp) /\ Without(v, sp)
        BY <1>1, <1>4
    <2> QED
        BY ONLY t \in Texts, sp \in Symbols, <1>4, <2>1, t # <<>>, ThreeWords
<1>19. Split(x, Space) = <<u, t, v>>
    BY <1>1, <1>12, <1>18, Zenon
<1> QED
    BY <1>2, <1>3, <1>17, <1>19

FirstOf(first, m, t) ==
    /\ first.ok /\ first.method = m /\ first.path = Decode(Divide(t, "?")[1])
    /\ first.params = Params(Divide(t, "?")[2])

\* A request line has its method, path and parameters read.
LEMMA FirstLine ==
    ASSUME NEW m \in {"GET", "POST", "DELETE"}, NEW t \in Texts, t # <<>>,
           Without(t, Space), Without(t, LF), Without(t, "#"),
           NEW x, x = (<<m, Space>> \o t) \o <<Space, "HTTP/1.1">>
    PROVE  /\ x \in Texts /\ Without(x, LF) /\ Len(x) = Len(t) + 4
           /\ \A line : Line(line) = x => FirstOf(ParseRequestLine(line), m, t)
<1>1. m \in Symbols /\ m # Space /\ m # LF
    <2>1. m \in Named
        BY DEF Named
    <2>2. CASE m = "GET"
        BY <2>1, <2>2, NamedSymbols, Zenon DEF Space, LF
    <2>3. CASE m = "POST"
        BY <2>1, <2>3, NamedSymbols, Zenon DEF Space, LF
    <2>4. CASE m = "DELETE"
        BY <2>1, <2>4, NamedSymbols, Zenon DEF Space, LF
    <2> QED
        BY <2>2, <2>3, <2>4
<1>2. PICK w \in Symbols : w = "HTTP/1.1"
    BY NamedSymbols DEF Named
<1>3. w # Space /\ w # LF
    BY <1>2, Zenon DEF Space, LF
<1>4. x = (<<m, Space>> \o t) \o <<Space, w>>
    BY <1>2, Zenon
<1>5. /\ x \in Texts /\ Without(x, LF) /\ Len(x) = Len(t) + 4
      /\ Split(x, Space) = <<<<m>>, t, <<w>>>>
    <2>1. PICK a \in Symbols : a = m
        BY <1>1
    <2>2. a # Space /\ a # LF /\ x = (<<a, Space>> \o t) \o <<Space, w>>
        BY <1>1, <1>4, <2>1, Zenon
    <2>3. Split(x, Space) = <<<<a>>, t, <<w>>>>
        BY ONLY <1>3, <2>2, a \in Symbols, w \in Symbols, t \in Texts, t # <<>>, Without(t, Space),
                Without(t, LF), FirstWords
    <2>4. x \in Texts
        BY ONLY <1>3, <2>2, a \in Symbols, w \in Symbols, t \in Texts, t # <<>>, Without(t, Space),
                Without(t, LF), FirstWords, <2>3
    <2>5. Without(x, LF)
        BY ONLY <1>3, <2>2, a \in Symbols, w \in Symbols, t \in Texts, t # <<>>, Without(t, Space),
                Without(t, LF), FirstWords, <2>3
    <2>6. Len(x) = Len(t) + 4
        BY ONLY <1>3, <2>2, a \in Symbols, w \in Symbols, t \in Texts, t # <<>>, Without(t, Space),
                Without(t, LF), FirstWords, <2>3
    <2> QED
        BY <2>1, <2>3, <2>4, <2>5, <2>6, Zenon
<1>6. m \in Methods /\ w \in Versions
    BY <1>2 DEF Methods, Versions
<1>7. ASSUME NEW line, Line(line) = x
      PROVE  FirstOf(ParseRequestLine(line), m, t)
    <2>1. PICK words : words = Split(Line(line), Space)
        OBVIOUS
    <2>2. words = <<<<m>>, t, <<w>>>>
        BY <1>5, <1>7, <2>1, Zenon
    <2>3. Len(words) = 3 /\ words[1][1] = m /\ words[2] = t /\ words[3][1] = w
        BY ONLY <2>2
    <2>4. Divide(words[2], "#")[1] = t
        <3>1. Divide(t, "#") = <<t, <<>>>>
            BY ONLY t \in Texts, Without(t, "#"), Undivided
        <3> QED
            BY ONLY <2>3, <3>1
    <2>5. ParseRequestLine(line) =
              [ok |-> TRUE, method |-> words[1][1], path |-> Decode(Divide(t, "?")[1]),
               params |-> Params(Divide(t, "?")[2])]
        BY <1>6, <2>1, <2>3, <2>4, Zenon DEF ParseRequestLine
    <2>6. PICK yes : yes = TRUE
        OBVIOUS
    <2>7. PICK path : path = Decode(Divide(t, "?")[1])
        OBVIOUS
    <2>8. PICK params : params = Params(Divide(t, "?")[2])
        OBVIOUS
    <2>9. PICK first : first = [ok |-> yes, method |-> m, path |-> path, params |-> params]
        OBVIOUS
    <2>10. ParseRequestLine(line) = first
        BY <2>3, <2>5, <2>6, <2>7, <2>8, <2>9, Zenon
    <2>11. first.ok = yes /\ first.method = m /\ first.path = path /\ first.params = params
        BY ONLY <2>9
    <2> QED
        BY <2>6, <2>7, <2>8, <2>10, <2>11, Zenon DEF FirstOf
<1> QED
    BY <1>5, <1>7

LEMMA NoParams == Limit(Params(<<>>)) = 50
<1>1. PICK none : none = <<>>
    OBVIOUS
<1>2. none \in Texts /\ Without(none, "&")
    BY <1>1 DEF Texts, Without
<1>3. Split(none, "&") = <<>>
    <2>1. Parts(none, "&", FALSE) = Added(<<>>, none, FALSE)
        BY <1>2, OnePart
    <2> QED
        BY <1>1, <2>1 DEF Split, Added
<1>4. Range(<<>>) = {}
    BY DEF Range
<1>5. Params(none) = {}
    BY <1>3, <1>4, Zenon DEF Params
<1> QED
    BY <1>1, <1>5 DEF Limit

LEMMA Fronted ==
    ASSUME NEW a \in Symbols, NEW v \in Texts, NEW t \in Texts, Len(t) = 1 + Len(v), t[1] = a,
           \A i \in 1 .. Len(v) : t[1 + i] = v[i]
    PROVE  t = <<a>> \o v
<1>1. PICK x : x = <<a>>
    OBVIOUS
<1>2. x \in Texts /\ Len(x) = 1 /\ x[1] = a
    BY ONLY <1>1, a \in Symbols, Character1
<1>3. PICK y : y = x \o v
    OBVIOUS
<1>4. /\ y \in Texts /\ Len(y) = Len(x) + Len(v) /\ \A i \in 1 .. Len(x) : y[i] = x[i]
      /\ \A i \in 1 .. Len(v) : y[Len(x) + i] = v[i]
    BY ONLY <1>2, <1>3, v \in Texts, Together
<1>5. Len(v) \in Nat
    BY TextShape
<1>6. Len(y) = 1 + Len(v) /\ y[1] = a /\ \A i \in 1 .. Len(v) : y[1 + i] = v[i]
    BY <1>2, <1>4
<1>7. ASSUME NEW k \in 1 .. Len(t) PROVE t[k] = y[k]
    <2>1. CASE k = 1
        BY <1>6, <2>1
    <2>2. CASE k # 1
        <3>1. k - 1 \in 1 .. Len(v) /\ 1 + (k - 1) = k
            BY <1>5, <2>2
        <3>2. t[1 + (k - 1)] = v[k - 1] /\ y[1 + (k - 1)] = v[k - 1]
            BY <1>6, <3>1
        <3> QED
            BY <3>1, <3>2
    <2> QED
        BY <2>1, <2>2
<1>8. t = y
    BY <1>4, <1>6, <1>7, SameText
<1> QED
    BY <1>1, <1>3, <1>8

LEMMA TwoHundred ==
    ASSUME NEW v, v = <<"2", "0", "0">>
    PROVE  v \in Texts /\ Without(v, "%") /\ Number(v) = 200
<1>1. "2" \in Symbols /\ "0" \in Symbols
    BY NamedSymbols DEF Named
<1>2. PICK two \in Symbols : two = "2"
    BY <1>1
<1>3. PICK zero \in Symbols : zero = "0"
    BY <1>1
<1>4. PICK v1 : v1 = <<two>>
    OBVIOUS
<1>5. PICK v2 : v2 = Append(v1, zero)
    OBVIOUS
<1>6. PICK v3 : v3 = Append(v2, zero)
    OBVIOUS
<1>7. v1 \in Texts /\ Len(v1) = 1
    BY ONLY <1>4, two \in Symbols, Character1
<1>8. v2 \in Texts
    BY ONLY <1>5, <1>7, zero \in Symbols, Longer DEF Texts
<1>9. v3 \in Texts
    BY ONLY <1>6, <1>8, zero \in Symbols, Longer DEF Texts
<1>10. v3 = <<two, zero, zero>>
    <2>1. v2 = <<two, zero>>
        BY ONLY <1>4, <1>5, two \in Symbols, zero \in Symbols, Grown
    <2> QED
        BY ONLY <1>6, <2>1, two \in Symbols, zero \in Symbols, Grown
<1>11. v = v3
    BY <1>2, <1>3, <1>10, Zenon
<1>12. HexValue(two) = 2 /\ HexValue(zero) = 0
    <2>1. 2 \in 0 .. 15 /\ 0 \in 0 .. 15 /\ 2 + 1 = 3 /\ 0 + 1 = 1
        OBVIOUS
    <2>2. HexValue(HexDigits[2 + 1]) = 2 /\ HexValue(HexDigits[0 + 1]) = 0
        BY <2>1, DigitValue
    <2> QED
        BY <1>2, <1>3, <2>1, <2>2, HexTable, Zenon
<1>13. Number(v1) = 2
    <2>1. PICK k \in 0 .. 9 : k = 2
        OBVIOUS
    <2>2. k + 1 = 3
        BY <2>1
    <2>3. Number(<<HexDigits[k + 1]>>) = k
        BY NumberOne
    <2>4. HexDigits[k + 1] = two
        BY <1>2, <2>2, HexTable, Zenon
    <2> QED
        BY <1>4, <2>1, <2>3, <2>4, Zenon
<1>14. Number(v2) = 20
    <2>1. Number(v2) = 10 * Number(v1) + HexValue(zero)
        BY ONLY <1>5, <1>7, zero \in Symbols, NumberMore
    <2> QED
        BY <1>12, <1>13, <2>1
<1>15. Number(v3) = 200
    <2>1. Number(v3) = 10 * Number(v2) + HexValue(zero)
        BY ONLY <1>6, <1>8, zero \in Symbols, NumberMore
    <2> QED
        BY <1>12, <1>14, <2>1
<1>16. Without(v, "%")
    <2>1. Len(v) = 3 /\ v[1] = "2" /\ v[2] = "0" /\ v[3] = "0"
        OBVIOUS
    <2>2. "2" # "%" /\ "0" # "%"
        OBVIOUS
    <2>3. \A i \in 1 .. 3 : v[i] # "%"
        BY <2>1, <2>2
    <2> QED
        BY <2>1, <2>3 DEF Without
<1> QED
    BY <1>9, <1>11, <1>15, <1>16

LEMMA LimitGiven ==
    ASSUME NEW q, q = <<"limit", "=", "2", "0", "0">>
    PROVE  q \in Texts /\ Limit(Params(q)) = 200
<1>1. PICK v : v = <<"2", "0", "0">>
    OBVIOUS
<1>2. v \in Texts /\ Without(v, "%") /\ Number(v) = 200
    BY <1>1, TwoHundred
<1>3. PICK eq \in Symbols : eq = "="
    BY NamedSymbols DEF Named
<1>4. PICK name \in Symbols : name = "limit"
    BY NamedSymbols DEF Named
<1>5. PICK u : u = <<name>>
    OBVIOUS
<1>6. u \in Texts /\ Without(u, eq) /\ Without(u, "%")
    <2>1. name # eq /\ name # "%"
        BY <1>3, <1>4
    <2> QED
        BY ONLY <1>5, <2>1, name \in Symbols, Character1, WithoutOne
<1>7. q = u \o (<<eq>> \o v)
    <2>1. PICK S : S = Symbols
        OBVIOUS
    <2>2. PICK two \in S : two = "2"
        BY <2>1, NamedSymbols DEF Named
    <2>3. PICK zero \in S : zero = "0"
        BY <2>1, NamedSymbols DEF Named
    <2>4. eq \in S /\ name \in S
        BY <2>1
    <2>5. v = <<two, zero, zero>>
        BY <1>1, <2>2, <2>3, Zenon
    <2>6. PICK t : t = <<eq, two, zero, zero>>
        OBVIOUS
    <2>7. q = <<name, eq, two, zero, zero>>
        BY <1>3, <1>4, <2>2, <2>3, Zenon
    <2>8. t \in Seq(S) /\ Len(t) = 4 /\ q \in Seq(S) /\ Len(q) = 5
        BY ONLY <2>4, <2>6, <2>7, two \in S, zero \in S
    <2>9. /\ Len(v) = 3 /\ t[1] = eq /\ t[2] = v[1] /\ t[3] = v[2] /\ t[4] = v[3]
        BY ONLY <2>5, <2>6
    <2>10. /\ q[1] = name /\ q[2] = t[1] /\ q[3] = t[2] /\ q[4] = t[3] /\ q[5] = t[4]
        BY ONLY <2>6, <2>7
    <2>11. t \in Texts /\ q \in Texts
        BY <2>1, <2>8 DEF Texts
    <2>12. t = <<eq>> \o v
        <3>1. \A i \in 1 .. Len(v) : t[1 + i] = v[i]
            BY ONLY <2>9
        <3>2. Len(t) = 1 + Len(v)
            BY ONLY <2>8, <2>9
        <3> QED
            <4>1. v \in Texts /\ t \in Texts /\ t[1] = eq
                BY <1>2, <2>9, <2>11
            <4> QED
                BY ONLY <3>1, <3>2, <4>1, eq \in Symbols, Fronted
    <2>13. q = <<name>> \o t
        <3>1. \A i \in 1 .. Len(t) : q[1 + i] = t[i]
            BY ONLY <2>8, <2>10
        <3>2. Len(q) = 1 + Len(t)
            BY ONLY <2>8
        <3> QED
            BY ONLY <2>10, <2>11, <3>1, <3>2, name \in Symbols, Fronted
    <2> QED
        BY <1>5, <2>12, <2>13, Zenon
<1>8. q \in Texts
    BY ONLY <1>2, <1>6, <1>7, eq \in Symbols, Character1, Together
<1>9. Divide(q, eq)[1] = u /\ Divide(q, eq)[2] = v
    BY ONLY <1>2, <1>6, <1>7, eq \in Symbols, Divided
<1>10. Decode(u) = u /\ Decode(v) = v
    BY ONLY <1>2, <1>6, PlainText
<1>11. Without(q, "&")
    <2>1. /\ Len(q) = 5 /\ q[1] = "limit" /\ q[2] = "=" /\ q[3] = "2" /\ q[4] = "0" /\ q[5] = "0"
        OBVIOUS
    <2>2. "limit" # "&" /\ "=" # "&" /\ "2" # "&" /\ "0" # "&"
        OBVIOUS
    <2>3. \A i \in 1 .. 5 : q[i] # "&"
        BY <2>1, <2>2
    <2> QED
        BY <2>1, <2>3 DEF Without
<1>12. Split(q, "&") = <<q>>
    <2>1. Parts(q, "&", FALSE) = Added(<<>>, q, FALSE)
        BY <1>8, <1>11, OnePart
    <2>2. q # <<>>
        OBVIOUS
    <2>3. Added(<<>>, q, FALSE) = Append(<<>>, q)
        BY <2>2, AddedPart
    <2>4. Append(<<>>, q) = <<q>>
        BY ONLY <1>8, Grown
    <2> QED
        BY <2>1, <2>3, <2>4, Zenon DEF Split
<1>13. Range(<<q>>) = {q}
    BY ONLY TRUE DEF Range
<1>14. u # <<>>
    BY ONLY <1>5
<1>15. {f \in Range(Split(q, "&")) : Divide(f, "=")[1] # <<>>} = {q}
    BY <1>3, <1>9, <1>12, <1>13, <1>14, Zenon
<1>16. PICK pair : pair = <<u, v>>
    OBVIOUS
<1>17. Params(q) = {pair}
    <2>1. <<Decode(Divide(q, "=")[1]), Decode(Divide(q, "=")[2])>> = pair
        BY <1>3, <1>9, <1>10, <1>16, Zenon
    <2> QED
        BY <1>15, <2>1, Zenon DEF Params
<1>18. pair[1] = <<"limit">> /\ pair[2] = v
    <2>1. pair[1] = u /\ pair[2] = v
        BY ONLY <1>16
    <2> QED
        BY <1>4, <1>5, <2>1, Zenon
<1>19. (CHOOSE kv \in {pair} : kv[1] = <<"limit">>) = pair
    BY ONLY <1>18
<1>20. Limit({pair}) = 200
    <2>1. \E kv \in {pair} : kv[1] = <<"limit">>
        BY ONLY <1>18
    <2>2. Number((CHOOSE kv \in {pair} : kv[1] = <<"limit">>)[2]) = 200
        BY <1>2, <1>18, <1>19, Zenon
    <2>3. ~(200 < 1) /\ Least(200, 500) = 200
        BY DEF Least
    <2>4. Limit({pair}) =
              IF \E kv \in {pair} : kv[1] = <<"limit">>
              THEN LET number == Number((CHOOSE kv \in {pair} : kv[1] = <<"limit">>)[2])
                   IN  IF number < 1 THEN 1 ELSE Least(number, 500)
              ELSE 50
        BY ONLY TRUE, Zenon DEF Limit
    <2>5. Limit({pair}) = IF 200 < 1 THEN 1 ELSE Least(200, 500)
        BY ONLY <2>1, <2>2, <2>4, Zenon
    <2> QED
        BY ONLY <2>3, <2>5
<1> QED
    BY <1>8, <1>17, <1>20, Zenon

-----------------------------------------------------------------------------
(***************************************************************************)
(* The routes.                                                             *)
(***************************************************************************)
LEMMA FieldsMore ==
    ASSUME NEW u \in Texts, NEW w \in Texts, NEW slash \in Symbols, slash = "/", Without(w, slash)
    PROVE  Fields(u \o (<<slash>> \o w), "/") = Append(Fields(u, "/"), w)
<1>1. PICK yes : yes = TRUE
    OBVIOUS
<1>2. Parts(u \o (<<slash>> \o w), slash, yes) = Added(Parts(u, slash, yes), w, yes)
    BY ONLY u \in Texts, w \in Texts, slash \in Symbols, Without(w, slash), MoreParts
<1>3. Added(Parts(u, slash, yes), w, yes) = Append(Parts(u, slash, yes), w)
    BY <1>1, AddedPart
<1> QED
    BY <1>1, <1>2, <1>3, Zenon DEF Fields

LEMMA FieldsOne ==
    ASSUME NEW word \in Symbols, word # "/"
    PROVE  Fields(<<"/", word>>, "/") = <<<<>>, <<word>>>>
<1>1. PICK slash \in Symbols : slash = "/"
    BY NamedSymbols DEF Named
<1>2. PICK w : w = <<word>>
    OBVIOUS
<1>3. w \in Texts /\ Without(w, slash)
    <2>1. word # slash
        BY <1>1
    <2> QED
        BY ONLY <1>2, <2>1, word \in Symbols, Character1, WithoutOne
<1>4. PICK none : none = <<>>
    OBVIOUS
<1>5. none \in Texts
    BY <1>4 DEF Texts
<1>6. Fields(none, "/") = <<none>>
    <2>1. Without(none, "/")
        BY <1>4 DEF Without
    <2>2. Parts(none, "/", TRUE) = Added(<<>>, none, TRUE)
        BY <1>5, <2>1, OnePart
    <2>3. Added(<<>>, none, TRUE) = Append(<<>>, none)
        BY AddedPart
    <2>4. Append(<<>>, none) = <<none>>
        BY ONLY <1>5, Grown
    <2> QED
        BY <2>2, <2>3, <2>4, Zenon DEF Fields
<1>7. Fields(none \o (<<slash>> \o w), "/") = Append(<<none>>, w)
    <2>1. Fields(none \o (<<slash>> \o w), "/") = Append(Fields(none, "/"), w)
        BY ONLY <1>1, <1>3, <1>5, slash \in Symbols, FieldsMore
    <2> QED
        BY <1>6, <2>1, Zenon
<1>8. none \o (<<slash>> \o w) = <<"/", word>>
    <2>1. <<slash>> \o w = <<slash, word>>
        <3>1. <<slash>> \in Seq(Symbols)
            OBVIOUS
        <3>2. Append(<<slash>>, word) = <<slash>> \o <<word>>
            BY <3>1, Longer
        <3>3. Append(<<slash>>, word) = <<slash, word>>
            BY Grown
        <3> QED
            BY ONLY <1>2, <3>2, <3>3
    <2>2. <<>> \o <<slash, word>> = <<slash, word>>
        OBVIOUS
    <2> QED
        BY <1>1, <1>4, <2>1, <2>2, Zenon
<1>9. Append(<<none>>, w) = <<none, w>>
    BY ONLY <1>3, <1>5, Grown
<1> QED
    BY <1>2, <1>4, <1>7, <1>8, <1>9, Zenon

LEMMA FieldsTwo ==
    ASSUME NEW word \in Symbols, word # "/", NEW v \in Texts, Without(v, "/"),
           NEW path, path = <<"/", word, "/">> \o v
    PROVE  Fields(path, "/") = <<<<>>, <<word>>, v>> /\ path \in Texts
<1>1. PICK slash \in Symbols : slash = "/"
    BY NamedSymbols DEF Named
<1>2. PICK front : front = <<slash, word>>
    OBVIOUS
<1>3. PICK back : back = <<slash>> \o v
    OBVIOUS
<1>4. back \in Texts
    BY ONLY <1>3, v \in Texts, slash \in Symbols, Character1, Together
<1>5. path = front \o back
    <2>1. path = <<slash, word, slash>> \o v
        BY <1>1, Zenon
    <2>2. path = <<slash>> \o (<<word>> \o back)
        BY ONLY <1>3, <2>1, v \in Texts, slash \in Symbols, word \in Symbols, ThreeBefore
    <2>3. PICK t : t = front \o back
        OBVIOUS
    <2>4. t = <<slash>> \o (<<word>> \o back)
        BY ONLY <1>2, <1>4, <2>3, slash \in Symbols, word \in Symbols, TwoBefore
    <2> QED
        BY <2>2, <2>3, <2>4
<1>6. front \in Texts
    BY ONLY <1>2, <1>4, slash \in Symbols, word \in Symbols, TwoBefore
<1>7. path \in Texts
    BY ONLY <1>4, <1>5, <1>6, Together
<1>8. PICK first : first = <<word>>
    OBVIOUS
<1>9. PICK none : none = <<>>
    OBVIOUS
<1>10. first \in Texts /\ none \in Texts
    BY ONLY <1>8, <1>9, word \in Symbols, Character1 DEF Texts
<1>11. Fields(front, "/") = <<none, first>>
    BY <1>1, <1>2, <1>8, <1>9, FieldsOne, Zenon
<1>12. Fields(path, "/") = Append(<<none, first>>, v)
    <2>1. Without(v, slash)
        BY <1>1
    <2>2. Fields(front \o (<<slash>> \o v), "/") = Append(Fields(front, "/"), v)
        BY ONLY <1>1, <1>6, <2>1, v \in Texts, slash \in Symbols, FieldsMore
    <2> QED
        BY <1>3, <1>5, <1>11, <2>2, Zenon
<1>13. Append(<<none, first>>, v) = <<none, first, v>>
    BY ONLY <1>10, v \in Texts, Grown
<1> QED
    BY <1>7, <1>8, <1>9, <1>12, <1>13, Zenon

LEMMA Fourth ==
    ASSUME NEW S, NEW a \in S, NEW b \in S, NEW c \in S, NEW d \in S
    PROVE  Append(<<a, b, c>>, d) = <<a, b, c, d>>
<1>1. PICK s : s = <<a, b, c>>
    OBVIOUS
<1>2. PICK t : t = <<a, b, c, d>>
    OBVIOUS
<1>3. s \in Seq(S) /\ Len(s) = 3 /\ t \in Seq(S) /\ Len(t) = 4
    BY ONLY <1>1, <1>2, a \in S, b \in S, c \in S, d \in S
<1>4. s[1] = t[1] /\ s[2] = t[2] /\ s[3] = t[3] /\ t[4] = d
    BY ONLY <1>1, <1>2
<1>5. /\ Len(t) = Len(s) + 1 /\ t[Len(s) + 1] = d
      /\ \A i \in 1 .. Len(s) : t[i] = s[i]
    BY <1>3, <1>4
<1>6. Append(s, d) = t
    BY <1>3, <1>5, Lengthened
<1> QED
    BY <1>1, <1>2, <1>6, Zenon

LEMMA FieldsThree ==
    ASSUME NEW word \in Symbols, word # "/", NEW v \in Texts, Without(v, "/"), NEW last \in Symbols, last # "/",
           NEW path, path = (<<"/", word, "/">> \o v) \o <<"/", last>>
    PROVE  Fields(path, "/") = <<<<>>, <<word>>, v, <<last>>>> /\ path \in Texts
<1>1. PICK slash \in Symbols : slash = "/"
    BY NamedSymbols DEF Named
<1>2. PICK front : front = <<"/", word, "/">> \o v
    OBVIOUS
<1>3. Fields(front, "/") = <<<<>>, <<word>>, v>> /\ front \in Texts
    BY <1>2, FieldsTwo
<1>4. PICK w : w = <<last>>
    OBVIOUS
<1>5. w \in Texts /\ Without(w, slash)
    <2>1. last # slash
        BY <1>1
    <2> QED
        BY ONLY <1>4, <2>1, last \in Symbols, Character1, WithoutOne
<1>6. <<"/", last>> = <<slash>> \o w
    <2>1. <<slash>> \in Seq(Symbols)
        OBVIOUS
    <2>2. Append(<<slash>>, last) = <<slash>> \o <<last>>
        BY <2>1, Longer
    <2>3. Append(<<slash>>, last) = <<slash, last>>
        BY Grown
    <2>4. <<slash, last>> = <<slash>> \o w
        BY ONLY <1>4, <2>2, <2>3
    <2> QED
        BY <1>1, <2>4, Zenon
<1>7. path = front \o (<<slash>> \o w)
    BY <1>2, <1>6, Zenon
<1>8. path \in Texts
    <2>1. <<slash>> \o w \in Texts
        BY ONLY <1>5, slash \in Symbols, Character1, Together
    <2> QED
        BY ONLY <1>3, <1>7, <2>1, Together
<1>9. Fields(path, "/") = Append(Fields(front, "/"), w)
    BY ONLY <1>1, <1>3, <1>5, <1>7, slash \in Symbols, FieldsMore
<1>10. PICK first : first = <<word>>
    OBVIOUS
<1>11. PICK none : none = <<>>
    OBVIOUS
<1>12. first \in Texts /\ none \in Texts
    BY ONLY <1>10, <1>11, word \in Symbols, Character1 DEF Texts
<1>13. Append(<<none, first, v>>, w) = <<none, first, v, w>>
    BY ONLY <1>5, <1>12, v \in Texts, Fourth
<1> QED
    BY <1>3, <1>4, <1>8, <1>9, <1>10, <1>11, <1>13, Zenon

LEMMA FitsWord ==
    ASSUME NEW w, NEW u
    PROVE  Fits(<<w>>, Word(u)) <=> w = u
<1>1. Word(u).kind = "word" /\ Word(u).word = u
    BY DEF Word
<1>2. <<w>> # <<>> /\ (<<w>> = <<u>> <=> w = u)
    OBVIOUS
<1>3. "word" # "digits"
    OBVIOUS
<1> QED
    BY <1>1, <1>2, <1>3 DEF Fits

LEMMA FitsAny ==
    ASSUME NEW v, v # <<>>
    PROVE  Fits(v, NoSlash) /\ (Fits(v, Digits) <=> Range(v) \subseteq DecimalDigits)
<1>1. NoSlash.kind = "noslash" /\ Digits.kind = "digits"
    BY DEF NoSlash, Digits
<1>2. "noslash" # "word" /\ "noslash" # "digits" /\ "digits" # "word"
    OBVIOUS
<1> QED
    BY <1>1, <1>2 DEF Fits

LEMMA MatchOne ==
    ASSUME NEW path, NEW w, Fields(path, "/") = <<<<>>, <<w>>>>
    PROVE  /\ \A u : Matches(path, <<Word(u)>>) <=> w = u
           /\ \A a, b : ~Matches(path, <<a, b>>)
           /\ \A a, b, c : ~Matches(path, <<a, b, c>>)
<1>1. PICK parts : parts = Fields(path, "/")
    OBVIOUS
<1>2. parts[1] = <<>> /\ parts[2] = <<w>> /\ Len(parts) = 2
    BY <1>1
<1>3. ASSUME NEW a, NEW b PROVE ~Matches(path, <<a, b>>)
    <2>1. Len(<<a, b>>) + 1 # 2
        OBVIOUS
    <2> QED
        BY <1>1, <1>2, <2>1, Zenon DEF Matches
<1>4. ASSUME NEW a, NEW b, NEW c PROVE ~Matches(path, <<a, b, c>>)
    <2>1. Len(<<a, b, c>>) + 1 # 2
        OBVIOUS
    <2> QED
        BY <1>1, <1>2, <2>1, Zenon DEF Matches
<1>5. ASSUME NEW u PROVE Matches(path, <<Word(u)>>) <=> w = u
    <2>1. PICK a : a = Word(u)
        OBVIOUS
    <2>2. PICK p : p = <<a>>
        OBVIOUS
    <2>3. Len(p) + 1 = 2 /\ DOMAIN p = {1} /\ p[1] = a /\ 1 + 1 = 2
        BY ONLY <2>2
    <2>4. Matches(path, p) <=> Fits(<<w>>, a)
        BY <1>1, <1>2, <2>3, Zenon DEF Matches
    <2>5. Fits(<<w>>, a) <=> w = u
        BY <2>1, FitsWord, Zenon
    <2> QED
        BY <2>1, <2>2, <2>4, <2>5, Zenon
<1> QED
    BY <1>3, <1>4, <1>5, Zenon

LEMMA MatchTwo ==
    ASSUME NEW path, NEW w, NEW v, v # <<>>, Fields(path, "/") = <<<<>>, <<w>>, v>>
    PROVE  /\ \A a : ~Matches(path, <<a>>)
           /\ \A u : Matches(path, <<Word(u), NoSlash>>) <=> w = u
           /\ \A u : Matches(path, <<Word(u), Digits>>) <=> w = u /\ Range(v) \subseteq DecimalDigits
           /\ \A a, b, c : ~Matches(path, <<a, b, c>>)
<1>1. PICK parts : parts = Fields(path, "/")
    OBVIOUS
<1>2. parts[1] = <<>> /\ parts[2] = <<w>> /\ parts[3] = v /\ Len(parts) = 3
    BY <1>1
<1>3. ASSUME NEW a PROVE ~Matches(path, <<a>>)
    <2>1. Len(<<a>>) + 1 # 3
        OBVIOUS
    <2> QED
        BY <1>1, <1>2, <2>1, Zenon DEF Matches
<1>4. ASSUME NEW a, NEW b, NEW c PROVE ~Matches(path, <<a, b, c>>)
    <2>1. Len(<<a, b, c>>) + 1 # 3
        OBVIOUS
    <2> QED
        BY <1>1, <1>2, <2>1, Zenon DEF Matches
<1>5. ASSUME NEW u, NEW b PROVE Matches(path, <<Word(u), b>>) <=> w = u /\ Fits(v, b)
    <2>1. PICK a : a = Word(u)
        OBVIOUS
    <2>2. PICK p : p = <<a, b>>
        OBVIOUS
    <2>3. Len(p) + 1 = 3 /\ DOMAIN p = {1, 2} /\ p[1] = a /\ p[2] = b /\ 1 + 1 = 2 /\ 2 + 1 = 3
        BY ONLY <2>2
    <2>4. Matches(path, p) <=> Fits(<<w>>, a) /\ Fits(v, b)
        BY <1>1, <1>2, <2>3, Zenon DEF Matches
    <2>5. Fits(<<w>>, a) <=> w = u
        BY <2>1, FitsWord, Zenon
    <2> QED
        BY <2>1, <2>2, <2>4, <2>5, Zenon
<1> QED
    BY <1>3, <1>4, <1>5, FitsAny, Zenon

LEMMA MatchThree ==
    ASSUME NEW path, NEW w, NEW v, v # <<>>, NEW x, Fields(path, "/") = <<<<>>, <<w>>, v, <<x>>>>
    PROVE  /\ \A a : ~Matches(path, <<a>>)
           /\ \A a, b : ~Matches(path, <<a, b>>)
           /\ \A u, y : Matches(path, <<Word(u), NoSlash, Word(y)>>) <=> w = u /\ x = y
<1>1. PICK parts : parts = Fields(path, "/")
    OBVIOUS
<1>2. parts[1] = <<>> /\ parts[2] = <<w>> /\ parts[3] = v /\ parts[4] = <<x>> /\ Len(parts) = 4
    BY <1>1
<1>3. ASSUME NEW a PROVE ~Matches(path, <<a>>)
    <2>1. Len(<<a>>) + 1 # 4
        OBVIOUS
    <2> QED
        BY <1>1, <1>2, <2>1, Zenon DEF Matches
<1>4. ASSUME NEW a, NEW b PROVE ~Matches(path, <<a, b>>)
    <2>1. Len(<<a, b>>) + 1 # 4
        OBVIOUS
    <2> QED
        BY <1>1, <1>2, <2>1, Zenon DEF Matches
<1>5. ASSUME NEW u, NEW y PROVE Matches(path, <<Word(u), NoSlash, Word(y)>>) <=> w = u /\ x = y
    <2>1. PICK a : a = Word(u)
        OBVIOUS
    <2>2. PICK b : b = NoSlash
        OBVIOUS
    <2>3. PICK c : c = Word(y)
        OBVIOUS
    <2>4. PICK p : p = <<a, b, c>>
        OBVIOUS
    <2>5. /\ Len(p) + 1 = 4 /\ DOMAIN p = {1, 2, 3} /\ p[1] = a /\ p[2] = b /\ p[3] = c
          /\ 1 + 1 = 2 /\ 2 + 1 = 3 /\ 3 + 1 = 4
        BY ONLY <2>4
    <2>6. Matches(path, p) <=> Fits(<<w>>, a) /\ Fits(v, b) /\ Fits(<<x>>, c)
        BY <1>1, <1>2, <2>5, Zenon DEF Matches
    <2>7. (Fits(<<w>>, a) <=> w = u) /\ (Fits(<<x>>, c) <=> x = y) /\ Fits(v, b)
        BY <2>1, <2>2, <2>3, FitsWord, FitsAny, Zenon
    <2> QED
        BY <2>1, <2>2, <2>3, <2>4, <2>6, <2>7, Zenon
<1> QED
    BY <1>3, <1>4, <1>5, Zenon

LEMMA RouteParts ==
    ASSUME NEW m, NEW p, NEW o
    PROVE  Route(m, p, o).method = m /\ Route(m, p, o).pattern = p /\ Route(m, p, o).op = o
    BY DEF Route

Registered(j, m, p, op) == Routes[j].method = m /\ Routes[j].pattern = p /\ Routes[j].op = op

\* What main registers, one by one.
LEMMA RouteTable ==
    /\ Registered(1, "GET", <<Word("health")>>, "health")
    /\ Registered(2, "GET", <<Word("me")>>, "me")
    /\ Registered(3, "GET", <<Word("users")>>, "users")
    /\ Registered(4, "DELETE", <<Word("users"), Digits>>, "deleteUser")
    /\ Registered(5, "POST", <<Word("login")>>, "login")
    /\ Registered(6, "POST", <<Word("refresh")>>, "refresh")
    /\ Registered(7, "POST", <<Word("logout")>>, "logout")
    /\ Registered(8, "POST", <<Word("register")>>, "register")
    /\ Registered(9, "GET", <<Word("conversations")>>, "conversations")
    /\ Registered(10, "GET", <<Word("conversations"), NoSlash, Word("messages")>>, "history")
    /\ Registered(11, "POST", <<Word("conversations"), NoSlash, Word("messages")>>, "send")
    /\ Registered(12, "GET", <<Word("rooms")>>, "rooms")
    /\ Registered(13, "POST", <<Word("rooms")>>, "createRoom")
    /\ Registered(14, "DELETE", <<Word("rooms"), NoSlash>>, "deleteRoom")
    /\ Len(Routes) = 14
<1>1. Registered(1, "GET", <<Word("health")>>, "health")
    <2>1. Routes[1] = Route("GET", <<Word("health")>>, "health")
        BY DEF Routes
    <2> QED
        BY ONLY <2>1 DEF Route, Registered
<1>2. Registered(2, "GET", <<Word("me")>>, "me")
    <2>1. Routes[2] = Route("GET", <<Word("me")>>, "me")
        BY DEF Routes
    <2> QED
        BY ONLY <2>1 DEF Route, Registered
<1>3. Registered(3, "GET", <<Word("users")>>, "users")
    <2>1. Routes[3] = Route("GET", <<Word("users")>>, "users")
        BY DEF Routes
    <2> QED
        BY ONLY <2>1 DEF Route, Registered
<1>4. Registered(4, "DELETE", <<Word("users"), Digits>>, "deleteUser")
    <2>1. Routes[4] = Route("DELETE", <<Word("users"), Digits>>, "deleteUser")
        BY DEF Routes
    <2> QED
        BY ONLY <2>1 DEF Route, Registered
<1>5. Registered(5, "POST", <<Word("login")>>, "login")
    <2>1. Routes[5] = Route("POST", <<Word("login")>>, "login")
        BY DEF Routes
    <2> QED
        BY ONLY <2>1 DEF Route, Registered
<1>6. Registered(6, "POST", <<Word("refresh")>>, "refresh")
    <2>1. Routes[6] = Route("POST", <<Word("refresh")>>, "refresh")
        BY DEF Routes
    <2> QED
        BY ONLY <2>1 DEF Route, Registered
<1>7. Registered(7, "POST", <<Word("logout")>>, "logout")
    <2>1. Routes[7] = Route("POST", <<Word("logout")>>, "logout")
        BY DEF Routes
    <2> QED
        BY ONLY <2>1 DEF Route, Registered
<1>8. Registered(8, "POST", <<Word("register")>>, "register")
    <2>1. Routes[8] = Route("POST", <<Word("register")>>, "register")
        BY DEF Routes
    <2> QED
        BY ONLY <2>1 DEF Route, Registered
<1>9. Registered(9, "GET", <<Word("conversations")>>, "conversations")
    <2>1. Routes[9] = Route("GET", <<Word("conversations")>>, "conversations")
        BY DEF Routes
    <2> QED
        BY ONLY <2>1 DEF Route, Registered
<1>10. Registered(10, "GET", <<Word("conversations"), NoSlash, Word("messages")>>, "history")
    <2>1. Routes[10] = Route("GET", <<Word("conversations"), NoSlash, Word("messages")>>, "history")
        BY DEF Routes
    <2> QED
        BY ONLY <2>1 DEF Route, Registered
<1>11. Registered(11, "POST", <<Word("conversations"), NoSlash, Word("messages")>>, "send")
    <2>1. Routes[11] = Route("POST", <<Word("conversations"), NoSlash, Word("messages")>>, "send")
        BY DEF Routes
    <2> QED
        BY ONLY <2>1 DEF Route, Registered
<1>12. Registered(12, "GET", <<Word("rooms")>>, "rooms")
    <2>1. Routes[12] = Route("GET", <<Word("rooms")>>, "rooms")
        BY DEF Routes
    <2> QED
        BY ONLY <2>1 DEF Route, Registered
<1>13. Registered(13, "POST", <<Word("rooms")>>, "createRoom")
    <2>1. Routes[13] = Route("POST", <<Word("rooms")>>, "createRoom")
        BY DEF Routes
    <2> QED
        BY ONLY <2>1 DEF Route, Registered
<1>14. Registered(14, "DELETE", <<Word("rooms"), NoSlash>>, "deleteRoom")
    <2>1. Routes[14] = Route("DELETE", <<Word("rooms"), NoSlash>>, "deleteRoom")
        BY DEF Routes
    <2> QED
        BY ONLY <2>1 DEF Route, Registered
<1>15. Len(Routes) = 14
    BY DEF Routes
<1> QED
    BY <1>1, <1>2, <1>3, <1>4, <1>5, <1>6, <1>7, <1>8, <1>9, <1>10, <1>11, <1>12, <1>13, <1>14, <1>15, Zenon

Asked(m, path, j) == Routes[j].method = m /\ Matches(path, Routes[j].pattern)


LEMMA AskedOne ==
    ASSUME NEW m, NEW path, NEW w, Fields(path, "/") = <<<<>>, <<w>>>>
    PROVE  /\ (Asked(m, path, 1) <=> m = "GET" /\ w = "health")
           /\ (Asked(m, path, 2) <=> m = "GET" /\ w = "me")
           /\ (Asked(m, path, 3) <=> m = "GET" /\ w = "users")
           /\ ~Asked(m, path, 4)
           /\ (Asked(m, path, 5) <=> m = "POST" /\ w = "login")
           /\ (Asked(m, path, 6) <=> m = "POST" /\ w = "refresh")
           /\ (Asked(m, path, 7) <=> m = "POST" /\ w = "logout")
           /\ (Asked(m, path, 8) <=> m = "POST" /\ w = "register")
           /\ (Asked(m, path, 9) <=> m = "GET" /\ w = "conversations")
           /\ ~Asked(m, path, 10)
           /\ ~Asked(m, path, 11)
           /\ (Asked(m, path, 12) <=> m = "GET" /\ w = "rooms")
           /\ (Asked(m, path, 13) <=> m = "POST" /\ w = "rooms")
           /\ ~Asked(m, path, 14)
<1>0. /\ \A u : Matches(path, <<Word(u)>>) <=> w = u
      /\ \A a, b : ~Matches(path, <<a, b>>)
      /\ \A a, b, c : ~Matches(path, <<a, b, c>>)
    BY MatchOne
<1>1. Asked(m, path, 1) <=> m = "GET" /\ w = "health"
    <2>1. Asked(m, path, 1) <=> m = "GET" /\ Matches(path, <<Word("health")>>)
        <3>1. Registered(1, "GET", <<Word("health")>>, "health")
            BY RouteTable, Zenon
        <3> QED
            BY <3>1, Zenon DEF Asked, Registered
    <2>2. Matches(path, <<Word("health")>>) <=> w = "health"
        BY <1>0, Zenon
    <2> QED
        BY <2>1, <2>2, Zenon
<1>2. Asked(m, path, 2) <=> m = "GET" /\ w = "me"
    <2>1. Asked(m, path, 2) <=> m = "GET" /\ Matches(path, <<Word("me")>>)
        <3>1. Registered(2, "GET", <<Word("me")>>, "me")
            BY RouteTable, Zenon
        <3> QED
            BY <3>1, Zenon DEF Asked, Registered
    <2>2. Matches(path, <<Word("me")>>) <=> w = "me"
        BY <1>0, Zenon
    <2> QED
        BY <2>1, <2>2, Zenon
<1>3. Asked(m, path, 3) <=> m = "GET" /\ w = "users"
    <2>1. Asked(m, path, 3) <=> m = "GET" /\ Matches(path, <<Word("users")>>)
        <3>1. Registered(3, "GET", <<Word("users")>>, "users")
            BY RouteTable, Zenon
        <3> QED
            BY <3>1, Zenon DEF Asked, Registered
    <2>2. Matches(path, <<Word("users")>>) <=> w = "users"
        BY <1>0, Zenon
    <2> QED
        BY <2>1, <2>2, Zenon
<1>4. ~Asked(m, path, 4)
    <2>1. Asked(m, path, 4) <=> m = "DELETE" /\ Matches(path, <<Word("users"), Digits>>)
        <3>1. Registered(4, "DELETE", <<Word("users"), Digits>>, "deleteUser")
            BY RouteTable, Zenon
        <3> QED
            BY <3>1, Zenon DEF Asked, Registered
    <2>2. ~Matches(path, <<Word("users"), Digits>>)
        BY <1>0, Zenon
    <2> QED
        BY <2>1, <2>2, Zenon
<1>5. Asked(m, path, 5) <=> m = "POST" /\ w = "login"
    <2>1. Asked(m, path, 5) <=> m = "POST" /\ Matches(path, <<Word("login")>>)
        <3>1. Registered(5, "POST", <<Word("login")>>, "login")
            BY RouteTable, Zenon
        <3> QED
            BY <3>1, Zenon DEF Asked, Registered
    <2>2. Matches(path, <<Word("login")>>) <=> w = "login"
        BY <1>0, Zenon
    <2> QED
        BY <2>1, <2>2, Zenon
<1>6. Asked(m, path, 6) <=> m = "POST" /\ w = "refresh"
    <2>1. Asked(m, path, 6) <=> m = "POST" /\ Matches(path, <<Word("refresh")>>)
        <3>1. Registered(6, "POST", <<Word("refresh")>>, "refresh")
            BY RouteTable, Zenon
        <3> QED
            BY <3>1, Zenon DEF Asked, Registered
    <2>2. Matches(path, <<Word("refresh")>>) <=> w = "refresh"
        BY <1>0, Zenon
    <2> QED
        BY <2>1, <2>2, Zenon
<1>7. Asked(m, path, 7) <=> m = "POST" /\ w = "logout"
    <2>1. Asked(m, path, 7) <=> m = "POST" /\ Matches(path, <<Word("logout")>>)
        <3>1. Registered(7, "POST", <<Word("logout")>>, "logout")
            BY RouteTable, Zenon
        <3> QED
            BY <3>1, Zenon DEF Asked, Registered
    <2>2. Matches(path, <<Word("logout")>>) <=> w = "logout"
        BY <1>0, Zenon
    <2> QED
        BY <2>1, <2>2, Zenon
<1>8. Asked(m, path, 8) <=> m = "POST" /\ w = "register"
    <2>1. Asked(m, path, 8) <=> m = "POST" /\ Matches(path, <<Word("register")>>)
        <3>1. Registered(8, "POST", <<Word("register")>>, "register")
            BY RouteTable, Zenon
        <3> QED
            BY <3>1, Zenon DEF Asked, Registered
    <2>2. Matches(path, <<Word("register")>>) <=> w = "register"
        BY <1>0, Zenon
    <2> QED
        BY <2>1, <2>2, Zenon
<1>9. Asked(m, path, 9) <=> m = "GET" /\ w = "conversations"
    <2>1. Asked(m, path, 9) <=> m = "GET" /\ Matches(path, <<Word("conversations")>>)
        <3>1. Registered(9, "GET", <<Word("conversations")>>, "conversations")
            BY RouteTable, Zenon
        <3> QED
            BY <3>1, Zenon DEF Asked, Registered
    <2>2. Matches(path, <<Word("conversations")>>) <=> w = "conversations"
        BY <1>0, Zenon
    <2> QED
        BY <2>1, <2>2, Zenon
<1>10. ~Asked(m, path, 10)
    <2>1. Asked(m, path, 10) <=> m = "GET" /\ Matches(path, <<Word("conversations"), NoSlash, Word("messages")>>)
        <3>1. Registered(10, "GET", <<Word("conversations"), NoSlash, Word("messages")>>, "history")
            BY RouteTable, Zenon
        <3> QED
            BY <3>1, Zenon DEF Asked, Registered
    <2>2. ~Matches(path, <<Word("conversations"), NoSlash, Word("messages")>>)
        BY <1>0, Zenon
    <2> QED
        BY <2>1, <2>2, Zenon
<1>11. ~Asked(m, path, 11)
    <2>1. Asked(m, path, 11) <=> m = "POST" /\ Matches(path, <<Word("conversations"), NoSlash, Word("messages")>>)
        <3>1. Registered(11, "POST", <<Word("conversations"), NoSlash, Word("messages")>>, "send")
            BY RouteTable, Zenon
        <3> QED
            BY <3>1, Zenon DEF Asked, Registered
    <2>2. ~Matches(path, <<Word("conversations"), NoSlash, Word("messages")>>)
        BY <1>0, Zenon
    <2> QED
        BY <2>1, <2>2, Zenon
<1>12. Asked(m, path, 12) <=> m = "GET" /\ w = "rooms"
    <2>1. Asked(m, path, 12) <=> m = "GET" /\ Matches(path, <<Word("rooms")>>)
        <3>1. Registered(12, "GET", <<Word("rooms")>>, "rooms")
            BY RouteTable, Zenon
        <3> QED
            BY <3>1, Zenon DEF Asked, Registered
    <2>2. Matches(path, <<Word("rooms")>>) <=> w = "rooms"
        BY <1>0, Zenon
    <2> QED
        BY <2>1, <2>2, Zenon
<1>13. Asked(m, path, 13) <=> m = "POST" /\ w = "rooms"
    <2>1. Asked(m, path, 13) <=> m = "POST" /\ Matches(path, <<Word("rooms")>>)
        <3>1. Registered(13, "POST", <<Word("rooms")>>, "createRoom")
            BY RouteTable, Zenon
        <3> QED
            BY <3>1, Zenon DEF Asked, Registered
    <2>2. Matches(path, <<Word("rooms")>>) <=> w = "rooms"
        BY <1>0, Zenon
    <2> QED
        BY <2>1, <2>2, Zenon
<1>14. ~Asked(m, path, 14)
    <2>1. Asked(m, path, 14) <=> m = "DELETE" /\ Matches(path, <<Word("rooms"), NoSlash>>)
        <3>1. Registered(14, "DELETE", <<Word("rooms"), NoSlash>>, "deleteRoom")
            BY RouteTable, Zenon
        <3> QED
            BY <3>1, Zenon DEF Asked, Registered
    <2>2. ~Matches(path, <<Word("rooms"), NoSlash>>)
        BY <1>0, Zenon
    <2> QED
        BY <2>1, <2>2, Zenon
<1> QED
    BY <1>1, <1>2, <1>3, <1>4, <1>5, <1>6, <1>7, <1>8, <1>9, <1>10, <1>11, <1>12, <1>13, <1>14, Zenon

LEMMA AskedTwo ==
    ASSUME NEW m, NEW path, NEW w, NEW v, v # <<>>, Fields(path, "/") = <<<<>>, <<w>>, v>>
    PROVE  /\ ~Asked(m, path, 1)
           /\ ~Asked(m, path, 2)
           /\ ~Asked(m, path, 3)
           /\ (Asked(m, path, 4) <=> m = "DELETE" /\ w = "users" /\ Range(v) \subseteq DecimalDigits)
           /\ ~Asked(m, path, 5)
           /\ ~Asked(m, path, 6)
           /\ ~Asked(m, path, 7)
           /\ ~Asked(m, path, 8)
           /\ ~Asked(m, path, 9)
           /\ ~Asked(m, path, 10)
           /\ ~Asked(m, path, 11)
           /\ ~Asked(m, path, 12)
           /\ ~Asked(m, path, 13)
           /\ (Asked(m, path, 14) <=> m = "DELETE" /\ w = "rooms")
<1>0. /\ \A a : ~Matches(path, <<a>>)
      /\ \A u : Matches(path, <<Word(u), NoSlash>>) <=> w = u
      /\ \A u : Matches(path, <<Word(u), Digits>>) <=> w = u /\ Range(v) \subseteq DecimalDigits
      /\ \A a, b, c : ~Matches(path, <<a, b, c>>)
    BY MatchTwo
<1>1. ~Asked(m, path, 1)
    <2>1. Asked(m, path, 1) <=> m = "GET" /\ Matches(path, <<Word("health")>>)
        <3>1. Registered(1, "GET", <<Word("health")>>, "health")
            BY RouteTable, Zenon
        <3> QED
            BY <3>1, Zenon DEF Asked, Registered
    <2>2. ~Matches(path, <<Word("health")>>)
        BY <1>0, Zenon
    <2> QED
        BY <2>1, <2>2, Zenon
<1>2. ~Asked(m, path, 2)
    <2>1. Asked(m, path, 2) <=> m = "GET" /\ Matches(path, <<Word("me")>>)
        <3>1. Registered(2, "GET", <<Word("me")>>, "me")
            BY RouteTable, Zenon
        <3> QED
            BY <3>1, Zenon DEF Asked, Registered
    <2>2. ~Matches(path, <<Word("me")>>)
        BY <1>0, Zenon
    <2> QED
        BY <2>1, <2>2, Zenon
<1>3. ~Asked(m, path, 3)
    <2>1. Asked(m, path, 3) <=> m = "GET" /\ Matches(path, <<Word("users")>>)
        <3>1. Registered(3, "GET", <<Word("users")>>, "users")
            BY RouteTable, Zenon
        <3> QED
            BY <3>1, Zenon DEF Asked, Registered
    <2>2. ~Matches(path, <<Word("users")>>)
        BY <1>0, Zenon
    <2> QED
        BY <2>1, <2>2, Zenon
<1>4. Asked(m, path, 4) <=> m = "DELETE" /\ w = "users" /\ Range(v) \subseteq DecimalDigits
    <2>1. Asked(m, path, 4) <=> m = "DELETE" /\ Matches(path, <<Word("users"), Digits>>)
        <3>1. Registered(4, "DELETE", <<Word("users"), Digits>>, "deleteUser")
            BY RouteTable, Zenon
        <3> QED
            BY <3>1, Zenon DEF Asked, Registered
    <2>2. Matches(path, <<Word("users"), Digits>>) <=> w = "users" /\ Range(v) \subseteq DecimalDigits
        BY <1>0, Zenon
    <2> QED
        BY <2>1, <2>2, Zenon
<1>5. ~Asked(m, path, 5)
    <2>1. Asked(m, path, 5) <=> m = "POST" /\ Matches(path, <<Word("login")>>)
        <3>1. Registered(5, "POST", <<Word("login")>>, "login")
            BY RouteTable, Zenon
        <3> QED
            BY <3>1, Zenon DEF Asked, Registered
    <2>2. ~Matches(path, <<Word("login")>>)
        BY <1>0, Zenon
    <2> QED
        BY <2>1, <2>2, Zenon
<1>6. ~Asked(m, path, 6)
    <2>1. Asked(m, path, 6) <=> m = "POST" /\ Matches(path, <<Word("refresh")>>)
        <3>1. Registered(6, "POST", <<Word("refresh")>>, "refresh")
            BY RouteTable, Zenon
        <3> QED
            BY <3>1, Zenon DEF Asked, Registered
    <2>2. ~Matches(path, <<Word("refresh")>>)
        BY <1>0, Zenon
    <2> QED
        BY <2>1, <2>2, Zenon
<1>7. ~Asked(m, path, 7)
    <2>1. Asked(m, path, 7) <=> m = "POST" /\ Matches(path, <<Word("logout")>>)
        <3>1. Registered(7, "POST", <<Word("logout")>>, "logout")
            BY RouteTable, Zenon
        <3> QED
            BY <3>1, Zenon DEF Asked, Registered
    <2>2. ~Matches(path, <<Word("logout")>>)
        BY <1>0, Zenon
    <2> QED
        BY <2>1, <2>2, Zenon
<1>8. ~Asked(m, path, 8)
    <2>1. Asked(m, path, 8) <=> m = "POST" /\ Matches(path, <<Word("register")>>)
        <3>1. Registered(8, "POST", <<Word("register")>>, "register")
            BY RouteTable, Zenon
        <3> QED
            BY <3>1, Zenon DEF Asked, Registered
    <2>2. ~Matches(path, <<Word("register")>>)
        BY <1>0, Zenon
    <2> QED
        BY <2>1, <2>2, Zenon
<1>9. ~Asked(m, path, 9)
    <2>1. Asked(m, path, 9) <=> m = "GET" /\ Matches(path, <<Word("conversations")>>)
        <3>1. Registered(9, "GET", <<Word("conversations")>>, "conversations")
            BY RouteTable, Zenon
        <3> QED
            BY <3>1, Zenon DEF Asked, Registered
    <2>2. ~Matches(path, <<Word("conversations")>>)
        BY <1>0, Zenon
    <2> QED
        BY <2>1, <2>2, Zenon
<1>10. ~Asked(m, path, 10)
    <2>1. Asked(m, path, 10) <=> m = "GET" /\ Matches(path, <<Word("conversations"), NoSlash, Word("messages")>>)
        <3>1. Registered(10, "GET", <<Word("conversations"), NoSlash, Word("messages")>>, "history")
            BY RouteTable, Zenon
        <3> QED
            BY <3>1, Zenon DEF Asked, Registered
    <2>2. ~Matches(path, <<Word("conversations"), NoSlash, Word("messages")>>)
        BY <1>0, Zenon
    <2> QED
        BY <2>1, <2>2, Zenon
<1>11. ~Asked(m, path, 11)
    <2>1. Asked(m, path, 11) <=> m = "POST" /\ Matches(path, <<Word("conversations"), NoSlash, Word("messages")>>)
        <3>1. Registered(11, "POST", <<Word("conversations"), NoSlash, Word("messages")>>, "send")
            BY RouteTable, Zenon
        <3> QED
            BY <3>1, Zenon DEF Asked, Registered
    <2>2. ~Matches(path, <<Word("conversations"), NoSlash, Word("messages")>>)
        BY <1>0, Zenon
    <2> QED
        BY <2>1, <2>2, Zenon
<1>12. ~Asked(m, path, 12)
    <2>1. Asked(m, path, 12) <=> m = "GET" /\ Matches(path, <<Word("rooms")>>)
        <3>1. Registered(12, "GET", <<Word("rooms")>>, "rooms")
            BY RouteTable, Zenon
        <3> QED
            BY <3>1, Zenon DEF Asked, Registered
    <2>2. ~Matches(path, <<Word("rooms")>>)
        BY <1>0, Zenon
    <2> QED
        BY <2>1, <2>2, Zenon
<1>13. ~Asked(m, path, 13)
    <2>1. Asked(m, path, 13) <=> m = "POST" /\ Matches(path, <<Word("rooms")>>)
        <3>1. Registered(13, "POST", <<Word("rooms")>>, "createRoom")
            BY RouteTable, Zenon
        <3> QED
            BY <3>1, Zenon DEF Asked, Registered
    <2>2. ~Matches(path, <<Word("rooms")>>)
        BY <1>0, Zenon
    <2> QED
        BY <2>1, <2>2, Zenon
<1>14. Asked(m, path, 14) <=> m = "DELETE" /\ w = "rooms"
    <2>1. Asked(m, path, 14) <=> m = "DELETE" /\ Matches(path, <<Word("rooms"), NoSlash>>)
        <3>1. Registered(14, "DELETE", <<Word("rooms"), NoSlash>>, "deleteRoom")
            BY RouteTable, Zenon
        <3> QED
            BY <3>1, Zenon DEF Asked, Registered
    <2>2. Matches(path, <<Word("rooms"), NoSlash>>) <=> w = "rooms"
        BY <1>0, Zenon
    <2> QED
        BY <2>1, <2>2, Zenon
<1> QED
    BY <1>1, <1>2, <1>3, <1>4, <1>5, <1>6, <1>7, <1>8, <1>9, <1>10, <1>11, <1>12, <1>13, <1>14, Zenon

LEMMA AskedThree ==
    ASSUME NEW m, NEW path, NEW w, NEW v, v # <<>>, NEW x, Fields(path, "/") = <<<<>>, <<w>>, v, <<x>>>>
    PROVE  /\ ~Asked(m, path, 1)
           /\ ~Asked(m, path, 2)
           /\ ~Asked(m, path, 3)
           /\ ~Asked(m, path, 4)
           /\ ~Asked(m, path, 5)
           /\ ~Asked(m, path, 6)
           /\ ~Asked(m, path, 7)
           /\ ~Asked(m, path, 8)
           /\ ~Asked(m, path, 9)
           /\ (Asked(m, path, 10) <=> m = "GET" /\ w = "conversations" /\ x = "messages")
           /\ (Asked(m, path, 11) <=> m = "POST" /\ w = "conversations" /\ x = "messages")
           /\ ~Asked(m, path, 12)
           /\ ~Asked(m, path, 13)
           /\ ~Asked(m, path, 14)
<1>0. /\ \A a : ~Matches(path, <<a>>)
      /\ \A a, b : ~Matches(path, <<a, b>>)
      /\ \A u, y : Matches(path, <<Word(u), NoSlash, Word(y)>>) <=> w = u /\ x = y
    BY MatchThree
<1>1. ~Asked(m, path, 1)
    <2>1. Asked(m, path, 1) <=> m = "GET" /\ Matches(path, <<Word("health")>>)
        <3>1. Registered(1, "GET", <<Word("health")>>, "health")
            BY RouteTable, Zenon
        <3> QED
            BY <3>1, Zenon DEF Asked, Registered
    <2>2. ~Matches(path, <<Word("health")>>)
        BY <1>0, Zenon
    <2> QED
        BY <2>1, <2>2, Zenon
<1>2. ~Asked(m, path, 2)
    <2>1. Asked(m, path, 2) <=> m = "GET" /\ Matches(path, <<Word("me")>>)
        <3>1. Registered(2, "GET", <<Word("me")>>, "me")
            BY RouteTable, Zenon
        <3> QED
            BY <3>1, Zenon DEF Asked, Registered
    <2>2. ~Matches(path, <<Word("me")>>)
        BY <1>0, Zenon
    <2> QED
        BY <2>1, <2>2, Zenon
<1>3. ~Asked(m, path, 3)
    <2>1. Asked(m, path, 3) <=> m = "GET" /\ Matches(path, <<Word("users")>>)
        <3>1. Registered(3, "GET", <<Word("users")>>, "users")
            BY RouteTable, Zenon
        <3> QED
            BY <3>1, Zenon DEF Asked, Registered
    <2>2. ~Matches(path, <<Word("users")>>)
        BY <1>0, Zenon
    <2> QED
        BY <2>1, <2>2, Zenon
<1>4. ~Asked(m, path, 4)
    <2>1. Asked(m, path, 4) <=> m = "DELETE" /\ Matches(path, <<Word("users"), Digits>>)
        <3>1. Registered(4, "DELETE", <<Word("users"), Digits>>, "deleteUser")
            BY RouteTable, Zenon
        <3> QED
            BY <3>1, Zenon DEF Asked, Registered
    <2>2. ~Matches(path, <<Word("users"), Digits>>)
        BY <1>0, Zenon
    <2> QED
        BY <2>1, <2>2, Zenon
<1>5. ~Asked(m, path, 5)
    <2>1. Asked(m, path, 5) <=> m = "POST" /\ Matches(path, <<Word("login")>>)
        <3>1. Registered(5, "POST", <<Word("login")>>, "login")
            BY RouteTable, Zenon
        <3> QED
            BY <3>1, Zenon DEF Asked, Registered
    <2>2. ~Matches(path, <<Word("login")>>)
        BY <1>0, Zenon
    <2> QED
        BY <2>1, <2>2, Zenon
<1>6. ~Asked(m, path, 6)
    <2>1. Asked(m, path, 6) <=> m = "POST" /\ Matches(path, <<Word("refresh")>>)
        <3>1. Registered(6, "POST", <<Word("refresh")>>, "refresh")
            BY RouteTable, Zenon
        <3> QED
            BY <3>1, Zenon DEF Asked, Registered
    <2>2. ~Matches(path, <<Word("refresh")>>)
        BY <1>0, Zenon
    <2> QED
        BY <2>1, <2>2, Zenon
<1>7. ~Asked(m, path, 7)
    <2>1. Asked(m, path, 7) <=> m = "POST" /\ Matches(path, <<Word("logout")>>)
        <3>1. Registered(7, "POST", <<Word("logout")>>, "logout")
            BY RouteTable, Zenon
        <3> QED
            BY <3>1, Zenon DEF Asked, Registered
    <2>2. ~Matches(path, <<Word("logout")>>)
        BY <1>0, Zenon
    <2> QED
        BY <2>1, <2>2, Zenon
<1>8. ~Asked(m, path, 8)
    <2>1. Asked(m, path, 8) <=> m = "POST" /\ Matches(path, <<Word("register")>>)
        <3>1. Registered(8, "POST", <<Word("register")>>, "register")
            BY RouteTable, Zenon
        <3> QED
            BY <3>1, Zenon DEF Asked, Registered
    <2>2. ~Matches(path, <<Word("register")>>)
        BY <1>0, Zenon
    <2> QED
        BY <2>1, <2>2, Zenon
<1>9. ~Asked(m, path, 9)
    <2>1. Asked(m, path, 9) <=> m = "GET" /\ Matches(path, <<Word("conversations")>>)
        <3>1. Registered(9, "GET", <<Word("conversations")>>, "conversations")
            BY RouteTable, Zenon
        <3> QED
            BY <3>1, Zenon DEF Asked, Registered
    <2>2. ~Matches(path, <<Word("conversations")>>)
        BY <1>0, Zenon
    <2> QED
        BY <2>1, <2>2, Zenon
<1>10. Asked(m, path, 10) <=> m = "GET" /\ w = "conversations" /\ x = "messages"
    <2>1. Asked(m, path, 10) <=> m = "GET" /\ Matches(path, <<Word("conversations"), NoSlash, Word("messages")>>)
        <3>1. Registered(10, "GET", <<Word("conversations"), NoSlash, Word("messages")>>, "history")
            BY RouteTable, Zenon
        <3> QED
            BY <3>1, Zenon DEF Asked, Registered
    <2>2. Matches(path, <<Word("conversations"), NoSlash, Word("messages")>>) <=> w = "conversations" /\ x = "messages"
        BY <1>0, Zenon
    <2> QED
        BY <2>1, <2>2, Zenon
<1>11. Asked(m, path, 11) <=> m = "POST" /\ w = "conversations" /\ x = "messages"
    <2>1. Asked(m, path, 11) <=> m = "POST" /\ Matches(path, <<Word("conversations"), NoSlash, Word("messages")>>)
        <3>1. Registered(11, "POST", <<Word("conversations"), NoSlash, Word("messages")>>, "send")
            BY RouteTable, Zenon
        <3> QED
            BY <3>1, Zenon DEF Asked, Registered
    <2>2. Matches(path, <<Word("conversations"), NoSlash, Word("messages")>>) <=> w = "conversations" /\ x = "messages"
        BY <1>0, Zenon
    <2> QED
        BY <2>1, <2>2, Zenon
<1>12. ~Asked(m, path, 12)
    <2>1. Asked(m, path, 12) <=> m = "GET" /\ Matches(path, <<Word("rooms")>>)
        <3>1. Registered(12, "GET", <<Word("rooms")>>, "rooms")
            BY RouteTable, Zenon
        <3> QED
            BY <3>1, Zenon DEF Asked, Registered
    <2>2. ~Matches(path, <<Word("rooms")>>)
        BY <1>0, Zenon
    <2> QED
        BY <2>1, <2>2, Zenon
<1>13. ~Asked(m, path, 13)
    <2>1. Asked(m, path, 13) <=> m = "POST" /\ Matches(path, <<Word("rooms")>>)
        <3>1. Registered(13, "POST", <<Word("rooms")>>, "createRoom")
            BY RouteTable, Zenon
        <3> QED
            BY <3>1, Zenon DEF Asked, Registered
    <2>2. ~Matches(path, <<Word("rooms")>>)
        BY <1>0, Zenon
    <2> QED
        BY <2>1, <2>2, Zenon
<1>14. ~Asked(m, path, 14)
    <2>1. Asked(m, path, 14) <=> m = "DELETE" /\ Matches(path, <<Word("rooms"), NoSlash>>)
        <3>1. Registered(14, "DELETE", <<Word("rooms"), NoSlash>>, "deleteRoom")
            BY RouteTable, Zenon
        <3> QED
            BY <3>1, Zenon DEF Asked, Registered
    <2>2. ~Matches(path, <<Word("rooms"), NoSlash>>)
        BY <1>0, Zenon
    <2> QED
        BY <2>1, <2>2, Zenon
<1> QED
    BY <1>1, <1>2, <1>3, <1>4, <1>5, <1>6, <1>7, <1>8, <1>9, <1>10, <1>11, <1>12, <1>13, <1>14, Zenon

LEMMA Dispatched ==
    ASSUME NEW m, m # "HEAD", NEW path, NEW k \in 1 .. 14, Asked(m, path, k),
           \A j \in 1 .. 14 : Asked(m, path, j) => j = k
    PROVE  Dispatch(m, path) = k
<1>1. PICK S : S = {j \in 1 .. Len(Routes) : Asked(m, path, j)}
    OBVIOUS
<1>2. S = {k}
    BY <1>1, RouteTable
<1>3. Min(S) = k
    BY <1>2, MinOf
<1>4. (IF m = "HEAD" THEN "GET" ELSE m) = m
    OBVIOUS
<1>5. Dispatch(m, path) = IF S # {} THEN Min(S) ELSE 0
    BY <1>1, <1>4, Zenon DEF Dispatch, SelectInSeq, Asked
<1> QED
    BY <1>2, <1>3, <1>5

Reaches(m, path, op, id) ==
    \E k \in 1 .. 14 :
        Dispatch(m, path) = k /\ Routes[k].op = op /\ Captured(path, Routes[k].pattern) = id

LEMMA Reached ==
    ASSUME NEW m, m # "HEAD", NEW path, NEW k \in 1 .. 14, NEW n, NEW p, NEW op, Registered(k, n, p, op),
           Asked(m, path, k), \A j \in 1 .. 14 : Asked(m, path, j) => j = k,
           NEW id, Captured(path, p) = id
    PROVE  Reaches(m, path, op, id)
<1>1. Dispatch(m, path) = k
    BY Dispatched
<1>2. Routes[k].op = op /\ Routes[k].pattern = p
    BY DEF Registered
<1> QED
    BY <1>1, <1>2, Zenon DEF Reaches

LEMMA CapturedNone ==
    ASSUME NEW path, NEW u
    PROVE  Captured(path, <<Word(u)>>) = <<>>
<1>1. PICK a : a = Word(u)
    OBVIOUS
<1>2. PICK p : p = <<a>>
    OBVIOUS
<1>3. a.kind = "word"
    BY <1>1 DEF Word
<1>4. Len(p) = 1 /\ p[1] = a
    BY ONLY <1>2
<1>5. {i \in 1 .. Len(p) : p[i].kind # "word"} = {}
    BY <1>3, <1>4
<1>6. SelectInSeq(p, LAMBDA q : q.kind # "word") = 0
    BY <1>5, Zenon DEF SelectInSeq
<1> QED
    BY <1>1, <1>2, <1>6, Zenon DEF Captured

LEMMA CapturedLast ==
    ASSUME NEW path, NEW v, Fields(path, "/")[3] = v, NEW b \in {NoSlash, Digits}, NEW u
    PROVE  Captured(path, <<Word(u), b>>) = v
<1>1. PICK a : a = Word(u)
    OBVIOUS
<1>3. a.kind = "word" /\ b.kind # "word"
    <2>1. a.kind = "word"
        BY <1>1 DEF Word
    <2>2. NoSlash.kind = "noslash" /\ Digits.kind = "digits" /\ "noslash" # "word" /\ "digits" # "word"
        BY DEF NoSlash, Digits
    <2> QED
        BY <2>1, <2>2
<1>4. PICK p : p = <<a, b>>
    OBVIOUS
<1>5. Len(p) = 2 /\ p[1] = a /\ p[2] = b
    BY ONLY <1>4
<1>6. PICK S : S = {2}
    OBVIOUS
<1>7. {i \in 1 .. Len(p) : p[i].kind # "word"} = S
    BY ONLY <1>3, <1>5, <1>6
<1>8. Min(S) = 2 /\ S # {} /\ 2 # 0 /\ 2 + 1 = 3
    BY <1>6, MinOf
<1>9. SelectInSeq(p, LAMBDA q : q.kind # "word") = 2
    BY <1>7, <1>8, Zenon DEF SelectInSeq
<1>10. Captured(path, p) = v
    BY <1>8, <1>9, Zenon DEF Captured
<1> QED
    BY <1>1, <1>4, <1>10, Zenon

LEMMA CapturedMiddle ==
    ASSUME NEW path, NEW v, Fields(path, "/")[3] = v, NEW b \in {NoSlash, Digits}, NEW u, NEW y
    PROVE  Captured(path, <<Word(u), b, Word(y)>>) = v
<1>1. PICK a : a = Word(u)
    OBVIOUS
<1>2. PICK c : c = Word(y)
    OBVIOUS
<1>3. a.kind = "word" /\ b.kind # "word" /\ c.kind = "word"
    <2>1. a.kind = "word" /\ c.kind = "word"
        BY <1>1, <1>2 DEF Word
    <2>2. NoSlash.kind = "noslash" /\ Digits.kind = "digits" /\ "noslash" # "word" /\ "digits" # "word"
        BY DEF NoSlash, Digits
    <2> QED
        BY <2>1, <2>2
<1>4. PICK p : p = <<a, b, c>>
    OBVIOUS
<1>5. Len(p) = 3 /\ p[1] = a /\ p[2] = b /\ p[3] = c
    BY ONLY <1>4
<1>6. PICK S : S = {2}
    OBVIOUS
<1>7. {i \in 1 .. Len(p) : p[i].kind # "word"} = S
    BY ONLY <1>3, <1>5, <1>6
<1>8. Min(S) = 2 /\ S # {} /\ 2 # 0 /\ 2 + 1 = 3
    BY <1>6, MinOf
<1>9. SelectInSeq(p, LAMBDA q : q.kind # "word") = 2
    BY <1>7, <1>8, Zenon DEF SelectInSeq
<1>10. Captured(path, p) = v
    BY <1>8, <1>9, Zenon DEF Captured
<1> QED
    BY <1>1, <1>2, <1>4, <1>10, Zenon

LEMMA Fourteen ==
    ASSUME NEW j \in 1 .. 14
    PROVE  j \in {1, 2, 3, 4, 5, 6, 7, 8, 9, 10, 11, 12, 13, 14}
    OBVIOUS

LEMMA WordReached ==
    ASSUME NEW m, NEW op, NEW w \in Symbols, w # "/",
           \/ op = "me" /\ m = "GET" /\ w = "me"
           \/ op = "users" /\ m = "GET" /\ w = "users"
           \/ op = "login" /\ m = "POST" /\ w = "login"
           \/ op = "refresh" /\ m = "POST" /\ w = "refresh"
           \/ op = "logout" /\ m = "POST" /\ w = "logout"
           \/ op = "register" /\ m = "POST" /\ w = "register"
           \/ op = "rooms" /\ m = "GET" /\ w = "rooms"
           \/ op = "createRoom" /\ m = "POST" /\ w = "rooms",
           NEW path, path = <<"/", w>>
    PROVE  Reaches(m, path, op, <<>>)
<1>1. Fields(path, "/") = <<<<>>, <<w>>>>
    BY FieldsOne
<1>2. CASE op = "me" /\ m = "GET" /\ w = "me"
    <2>1. Asked(m, path, 2) /\ m # "HEAD"
        BY <1>1, <1>2, AskedOne
    <2>2. ASSUME NEW j \in 1 .. 14, Asked(m, path, j) PROVE j = 2
        BY <1>1, <1>2, <2>2, Fourteen, AskedOne
    <2>3. Registered(2, "GET", <<Word("me")>>, op)
        BY <1>2, RouteTable, Zenon
    <2>4. Captured(path, <<Word("me")>>) = <<>>
        BY CapturedNone
    <2>5. 2 \in 1 .. 14
        OBVIOUS
    <2> QED
        BY ONLY <2>1, <2>2, <2>3, <2>4, <2>5, Reached
<1>3. CASE op = "users" /\ m = "GET" /\ w = "users"
    <2>1. Asked(m, path, 3) /\ m # "HEAD"
        BY <1>1, <1>3, AskedOne
    <2>2. ASSUME NEW j \in 1 .. 14, Asked(m, path, j) PROVE j = 3
        BY <1>1, <1>3, <2>2, Fourteen, AskedOne
    <2>3. Registered(3, "GET", <<Word("users")>>, op)
        BY <1>3, RouteTable, Zenon
    <2>4. Captured(path, <<Word("users")>>) = <<>>
        BY CapturedNone
    <2>5. 3 \in 1 .. 14
        OBVIOUS
    <2> QED
        BY ONLY <2>1, <2>2, <2>3, <2>4, <2>5, Reached
<1>5. CASE op = "login" /\ m = "POST" /\ w = "login"
    <2>1. Asked(m, path, 5) /\ m # "HEAD"
        BY <1>1, <1>5, AskedOne
    <2>2. ASSUME NEW j \in 1 .. 14, Asked(m, path, j) PROVE j = 5
        BY <1>1, <1>5, <2>2, Fourteen, AskedOne
    <2>3. Registered(5, "POST", <<Word("login")>>, op)
        BY <1>5, RouteTable, Zenon
    <2>4. Captured(path, <<Word("login")>>) = <<>>
        BY CapturedNone
    <2>5. 5 \in 1 .. 14
        OBVIOUS
    <2> QED
        BY ONLY <2>1, <2>2, <2>3, <2>4, <2>5, Reached
<1>6. CASE op = "refresh" /\ m = "POST" /\ w = "refresh"
    <2>1. Asked(m, path, 6) /\ m # "HEAD"
        BY <1>1, <1>6, AskedOne
    <2>2. ASSUME NEW j \in 1 .. 14, Asked(m, path, j) PROVE j = 6
        BY <1>1, <1>6, <2>2, Fourteen, AskedOne
    <2>3. Registered(6, "POST", <<Word("refresh")>>, op)
        BY <1>6, RouteTable, Zenon
    <2>4. Captured(path, <<Word("refresh")>>) = <<>>
        BY CapturedNone
    <2>5. 6 \in 1 .. 14
        OBVIOUS
    <2> QED
        BY ONLY <2>1, <2>2, <2>3, <2>4, <2>5, Reached
<1>7. CASE op = "logout" /\ m = "POST" /\ w = "logout"
    <2>1. Asked(m, path, 7) /\ m # "HEAD"
        BY <1>1, <1>7, AskedOne
    <2>2. ASSUME NEW j \in 1 .. 14, Asked(m, path, j) PROVE j = 7
        BY <1>1, <1>7, <2>2, Fourteen, AskedOne
    <2>3. Registered(7, "POST", <<Word("logout")>>, op)
        BY <1>7, RouteTable, Zenon
    <2>4. Captured(path, <<Word("logout")>>) = <<>>
        BY CapturedNone
    <2>5. 7 \in 1 .. 14
        OBVIOUS
    <2> QED
        BY ONLY <2>1, <2>2, <2>3, <2>4, <2>5, Reached
<1>8. CASE op = "register" /\ m = "POST" /\ w = "register"
    <2>1. Asked(m, path, 8) /\ m # "HEAD"
        BY <1>1, <1>8, AskedOne
    <2>2. ASSUME NEW j \in 1 .. 14, Asked(m, path, j) PROVE j = 8
        BY <1>1, <1>8, <2>2, Fourteen, AskedOne
    <2>3. Registered(8, "POST", <<Word("register")>>, op)
        BY <1>8, RouteTable, Zenon
    <2>4. Captured(path, <<Word("register")>>) = <<>>
        BY CapturedNone
    <2>5. 8 \in 1 .. 14
        OBVIOUS
    <2> QED
        BY ONLY <2>1, <2>2, <2>3, <2>4, <2>5, Reached
<1>12. CASE op = "rooms" /\ m = "GET" /\ w = "rooms"
    <2>1. Asked(m, path, 12) /\ m # "HEAD"
        BY <1>1, <1>12, AskedOne
    <2>2. ASSUME NEW j \in 1 .. 14, Asked(m, path, j) PROVE j = 12
        BY <1>1, <1>12, <2>2, Fourteen, AskedOne
    <2>3. Registered(12, "GET", <<Word("rooms")>>, op)
        BY <1>12, RouteTable, Zenon
    <2>4. Captured(path, <<Word("rooms")>>) = <<>>
        BY CapturedNone
    <2>5. 12 \in 1 .. 14
        OBVIOUS
    <2> QED
        BY ONLY <2>1, <2>2, <2>3, <2>4, <2>5, Reached
<1>13. CASE op = "createRoom" /\ m = "POST" /\ w = "rooms"
    <2>1. Asked(m, path, 13) /\ m # "HEAD"
        BY <1>1, <1>13, AskedOne
    <2>2. ASSUME NEW j \in 1 .. 14, Asked(m, path, j) PROVE j = 13
        BY <1>1, <1>13, <2>2, Fourteen, AskedOne
    <2>3. Registered(13, "POST", <<Word("rooms")>>, op)
        BY <1>13, RouteTable, Zenon
    <2>4. Captured(path, <<Word("rooms")>>) = <<>>
        BY CapturedNone
    <2>5. 13 \in 1 .. 14
        OBVIOUS
    <2> QED
        BY ONLY <2>1, <2>2, <2>3, <2>4, <2>5, Reached
<1> QED
    BY <1>2, <1>3, <1>5, <1>6, <1>7, <1>8, <1>12, <1>13

LEMMA DeleteReached ==
    ASSUME NEW op, NEW w, NEW v \in Texts, v # <<>>, Without(v, "/"),
           \/ op = "deleteUser" /\ w = "users" /\ Range(v) \subseteq DecimalDigits
           \/ op = "deleteRoom" /\ w = "rooms",
           NEW path, path = <<"/", w, "/">> \o v
    PROVE  Reaches("DELETE", path, op, v)
<1>1. w \in Symbols /\ w # "/"
    BY NamedSymbols DEF Named
<1>2. Fields(path, "/") = <<<<>>, <<w>>, v>>
    BY <1>1, FieldsTwo
<1>3. Fields(path, "/")[3] = v
    BY ONLY <1>2
<1>4. PICK m : m = "DELETE"
    OBVIOUS
<1>14. CASE op = "deleteUser" /\ w = "users" /\ Range(v) \subseteq DecimalDigits
    <2>1. Asked(m, path, 4) /\ m # "HEAD"
        BY ONLY <1>2, <1>4, <1>14, v # <<>>, AskedTwo
    <2>2. ASSUME NEW j \in 1 .. 14, Asked(m, path, j) PROVE j = 4
        BY ONLY <1>2, <1>4, <1>14, v # <<>>, <2>2, j \in 1 .. 14, Fourteen, AskedTwo
    <2>3. Registered(4, m, <<Word("users"), Digits>>, op)
        BY <1>4, <1>14, RouteTable, Zenon
    <2>4. Captured(path, <<Word("users"), Digits>>) = v
        BY <1>3, CapturedLast
    <2>5. 4 \in 1 .. 14
        OBVIOUS
    <2> QED
        BY ONLY <1>4, <2>1, <2>2, <2>3, <2>4, <2>5, Reached
<1>24. CASE op = "deleteRoom" /\ w = "rooms"
    <2>1. Asked(m, path, 14) /\ m # "HEAD"
        BY ONLY <1>2, <1>4, <1>24, v # <<>>, AskedTwo
    <2>2. ASSUME NEW j \in 1 .. 14, Asked(m, path, j) PROVE j = 14
        BY ONLY <1>2, <1>4, <1>24, v # <<>>, <2>2, j \in 1 .. 14, Fourteen, AskedTwo
    <2>3. Registered(14, m, <<Word("rooms"), NoSlash>>, op)
        BY <1>4, <1>24, RouteTable, Zenon
    <2>4. Captured(path, <<Word("rooms"), NoSlash>>) = v
        BY <1>3, CapturedLast
    <2>5. 14 \in 1 .. 14
        OBVIOUS
    <2> QED
        BY ONLY <1>4, <2>1, <2>2, <2>3, <2>4, <2>5, Reached
<1> QED
    BY <1>14, <1>24

LEMMA MessagesReached ==
    ASSUME NEW op, NEW m, NEW v \in Texts, v # <<>>, Without(v, "/"),
           \/ op = "history" /\ m = "GET"
           \/ op = "send" /\ m = "POST",
           NEW path, path = (<<"/", "conversations", "/">> \o v) \o <<"/", "messages">>
    PROVE  Reaches(m, path, op, v)
<1>1. PICK w \in Symbols : w = "conversations"
    BY NamedSymbols DEF Named
<1>2. PICK x \in Symbols : x = "messages"
    BY NamedSymbols DEF Named
<1>3. w # "/" /\ x # "/"
    BY <1>1, <1>2
<1>4. path = (<<"/", w, "/">> \o v) \o <<"/", x>>
    BY <1>1, <1>2, Zenon
<1>5. Fields(path, "/") = <<<<>>, <<w>>, v, <<x>>>>
    BY ONLY <1>3, <1>4, w \in Symbols, x \in Symbols, v \in Texts, Without(v, "/"), FieldsThree
<1>6. Fields(path, "/")[3] = v
    BY ONLY <1>5
<1>7. ASSUME NEW u, NEW y PROVE Captured(path, <<Word(u), NoSlash, Word(y)>>) = v
    <2>1. PICK b \in {NoSlash, Digits} : b = NoSlash
        OBVIOUS
    <2>2. Captured(path, <<Word(u), b, Word(y)>>) = v
        BY ONLY <1>6, b \in {NoSlash, Digits}, CapturedMiddle
    <2> QED
        BY <2>1, <2>2, Zenon
<1>10. CASE op = "history" /\ m = "GET"
    <2>1. Asked(m, path, 10) /\ m # "HEAD"
        BY ONLY <1>1, <1>2, <1>5, <1>10, v # <<>>, AskedThree
    <2>2. ASSUME NEW j \in 1 .. 14, Asked(m, path, j) PROVE j = 10
        BY ONLY <1>1, <1>2, <1>5, <1>10, v # <<>>, <2>2, j \in 1 .. 14, Fourteen, AskedThree
    <2>3. Registered(10, m, <<Word("conversations"), NoSlash, Word("messages")>>, op)
        BY <1>10, RouteTable, Zenon
    <2>4. Captured(path, <<Word("conversations"), NoSlash, Word("messages")>>) = v
        BY <1>7, Zenon
    <2>5. 10 \in 1 .. 14
        OBVIOUS
    <2> QED
        BY ONLY <2>1, <2>2, <2>3, <2>4, <2>5, Reached
<1>11. CASE op = "send" /\ m = "POST"
    <2>1. Asked(m, path, 11) /\ m # "HEAD"
        BY ONLY <1>1, <1>2, <1>5, <1>11, v # <<>>, AskedThree
    <2>2. ASSUME NEW j \in 1 .. 14, Asked(m, path, j) PROVE j = 11
        BY ONLY <1>1, <1>2, <1>5, <1>11, v # <<>>, <2>2, j \in 1 .. 14, Fourteen, AskedThree
    <2>3. Registered(11, m, <<Word("conversations"), NoSlash, Word("messages")>>, op)
        BY <1>11, RouteTable, Zenon
    <2>4. Captured(path, <<Word("conversations"), NoSlash, Word("messages")>>) = v
        BY <1>7, Zenon
    <2>5. 11 \in 1 .. 14
        OBVIOUS
    <2> QED
        BY ONLY <2>1, <2>2, <2>3, <2>4, <2>5, Reached
<1> QED
    BY <1>10, <1>11

-----------------------------------------------------------------------------
(***************************************************************************)
(* The target.                                                             *)
(***************************************************************************)
TargetWords ==
    {"/", "me", "users", "rooms", "login", "refresh", "logout", "register", "conversations", "messages",
     "limit", "=", "2", "0"}

Around == {Space, LF, "#"}

LEMMA WordShape ==
    ASSUME NEW w \in TargetWords
    PROVE  w \in Symbols /\ w \notin Around /\ w # "?" /\ w # "%"
<1>1. w \in Named
    BY DEF TargetWords, Named
<1>2. w # Space
    BY Zenon DEF TargetWords, Space
<1>3. w # LF
    BY Zenon DEF TargetWords, LF
<1>4. w # "#" /\ w # "?" /\ w # "%"
    BY DEF TargetWords
<1> QED
    BY <1>1, <1>2, <1>3, <1>4, NamedSymbols DEF Around

Plain(t) == \A c \in Around : Without(t, c)

LEMMA PlainOne ==
    ASSUME NEW w \in TargetWords, NEW t, t = <<w>>
    PROVE  t \in Texts /\ Plain(t) /\ Without(t, "?") /\ Without(t, "%")
<1>1. w \in Symbols /\ w \notin Around /\ w # "?" /\ w # "%"
    BY ONLY w \in TargetWords, WordShape
<1>2. t \in Texts
    BY ONLY <1>1, t = <<w>>, Character1
<1>3. ASSUME NEW c, w # c PROVE Without(t, c)
    BY ONLY <1>1, <1>3, t = <<w>>, WithoutOne
<1> QED
    BY <1>1, <1>2, <1>3, Zenon DEF Plain

LEMMA PlainBoth ==
    ASSUME NEW u \in Texts, NEW v \in Texts, NEW t, t = u \o v
    PROVE  /\ t \in Texts /\ Len(t) = Len(u) + Len(v)
           /\ Plain(u) /\ Plain(v) => Plain(t)
           /\ \A c : Without(u, c) /\ Without(v, c) => Without(t, c)
<1>1. t \in Texts /\ Len(t) = Len(u) + Len(v)
    BY Together
<1>2. \A c : Without(u, c) /\ Without(v, c) => Without(t, c)
    BY WithoutIn
<1> QED
    BY <1>1, <1>2 DEF Plain

LEMMA PlainTwo ==
    ASSUME NEW a \in TargetWords, NEW b \in TargetWords, NEW t, t = <<a, b>>
    PROVE  t \in Texts /\ Plain(t) /\ Without(t, "?") /\ Without(t, "%") /\ Len(t) = 2
<1>1. PICK x : x = <<a>>
    OBVIOUS
<1>2. PICK y : y = <<b>>
    OBVIOUS
<1>3. x \in Texts /\ Plain(x) /\ Without(x, "?") /\ Without(x, "%")
    BY ONLY <1>1, a \in TargetWords, PlainOne
<1>4. y \in Texts /\ Plain(y) /\ Without(y, "?") /\ Without(y, "%")
    BY ONLY <1>2, b \in TargetWords, PlainOne
<1>5. a \in Symbols /\ b \in Symbols
    BY WordShape
<1>6. t = x \o y
    <2>1. <<a>> \in Seq(Symbols)
        BY ONLY <1>5
    <2>2. Append(<<a>>, b) = <<a>> \o <<b>>
        BY <1>5, <2>1, Longer
    <2>3. Append(<<a>>, b) = <<a, b>>
        BY <1>5, Grown
    <2> QED
        BY ONLY <1>1, <1>2, <2>2, <2>3, t = <<a, b>>
<1>7. t \in Texts /\ Plain(t) /\ Without(t, "?") /\ Without(t, "%")
    BY ONLY <1>3, <1>4, <1>6, PlainBoth
<1>8. Len(t) = 2
    BY ONLY t = <<a, b>>
<1> QED
    BY <1>7, <1>8

LEMMA PlainThree ==
    ASSUME NEW a \in TargetWords, NEW b \in TargetWords, NEW c \in TargetWords, NEW t, t = <<a, b, c>>
    PROVE  t \in Texts /\ Plain(t) /\ Without(t, "?") /\ Without(t, "%") /\ Len(t) = 3
<1>1. PICK x : x = <<a, b>>
    OBVIOUS
<1>2. PICK y : y = <<c>>
    OBVIOUS
<1>3. x \in Texts /\ Plain(x) /\ Without(x, "?") /\ Without(x, "%")
    BY ONLY <1>1, a \in TargetWords, b \in TargetWords, PlainTwo
<1>4. y \in Texts /\ Plain(y) /\ Without(y, "?") /\ Without(y, "%")
    BY ONLY <1>2, c \in TargetWords, PlainOne
<1>5. a \in Symbols /\ b \in Symbols /\ c \in Symbols
    BY WordShape
<1>6. t = x \o y
    <2>1. x \in Seq(Symbols)
        BY <1>3 DEF Texts
    <2>2. Append(x, c) = x \o <<c>>
        BY ONLY <1>5, <2>1, Longer
    <2>3. Append(<<a, b>>, c) = <<a, b, c>>
        BY <1>5, Grown
    <2> QED
        BY ONLY <1>1, <1>2, <2>2, <2>3, t = <<a, b, c>>
<1>7. t \in Texts /\ Plain(t) /\ Without(t, "?") /\ Without(t, "%")
    BY ONLY <1>3, <1>4, <1>6, PlainBoth
<1>8. Len(t) = 3
    BY ONLY t = <<a, b, c>>
<1> QED
    BY <1>7, <1>8

LEMMA PlainSpelling ==
    ASSUME NEW id \in Texts, Range(id) \intersect {"/", "?", "#", "%", Space, LF} = {},
           NEW z \in Spellings(id)
    PROVE  /\ z \in Texts /\ Plain(z) /\ Without(z, "?")
           /\ Without(id, "%") /\ Without(id, "/")
<1>1. /\ z \in Texts
      /\ \A i \in 1 .. Len(z) : z[i] \in {id[k] : k \in 1 .. Len(id)} \union {"%", "3", "A", "a"}
    BY SpellingsTexts
<1>2. \A k \in 1 .. Len(id) : id[k] \notin {"/", "?", "#", "%", Space, LF}
    <2>1. \A k \in 1 .. Len(id) : k \in DOMAIN id
        BY DEF Texts
    <2> QED
        BY <2>1 DEF Range
<1>3. ASSUME NEW e \in {"%", "3", "A", "a"} PROVE e \notin Around /\ e # "?"
    <2>1. e # Space
        BY <1>3, Zenon DEF Space
    <2>2. e # LF
        BY <1>3, Zenon DEF LF
    <2>3. e # "#" /\ e # "?"
        BY <1>3
    <2> QED
        BY <2>1, <2>2, <2>3 DEF Around
<1>4. ASSUME NEW c \in Around \union {"?"} PROVE Without(z, c)
    <2>1. \A k \in 1 .. Len(id) : id[k] # c
        BY <1>2 DEF Around
    <2> SUFFICES ASSUME NEW i \in 1 .. Len(z), z[i] = c PROVE FALSE
        BY DEF Without
    <2>2. z[i] \notin {id[k] : k \in 1 .. Len(id)}
        BY <2>1
    <2>3. z[i] \in {"%", "3", "A", "a"}
        BY <1>1, <2>2
    <2> QED
        BY <1>3, <2>3
<1>5. Without(id, "%") /\ Without(id, "/")
    BY <1>2 DEF Without
<1> QED
    BY <1>1, <1>4, <1>5 DEF Plain

Asks(t, m, op, id) ==
    /\ t \in Texts /\ t # <<>> /\ Plain(t) /\ m \in {"GET", "POST", "DELETE"}
    /\ \E path, query :
           /\ Divide(t, "?")[1] = path /\ Divide(t, "?")[2] = query
           /\ Reaches(m, Decode(path), op, id)
           /\ Limit(Params(query)) = IF op = "history" THEN 200 ELSE 50

LEMMA NoQuery ==
    ASSUME NEW t \in Texts, t # <<>>, Plain(t), Without(t, "?"), NEW m \in {"GET", "POST", "DELETE"},
           NEW op, op # "history", NEW id, Reaches(m, Decode(t), op, id)
    PROVE  Asks(t, m, op, id)
<1>1. PICK none : none = <<>>
    OBVIOUS
<1>2. Divide(t, "?") = <<t, none>>
    BY <1>1, Undivided
<1>3. Divide(t, "?")[1] = t /\ Divide(t, "?")[2] = none
    BY ONLY <1>2
<1>4. Limit(Params(none)) = 50
    BY <1>1, NoParams, Zenon
<1>5. Limit(Params(none)) = IF op = "history" THEN 200 ELSE 50
    BY <1>4
<1> QED
    BY <1>3, <1>5, Zenon DEF Asks

LEMMA WordAsks ==
    ASSUME NEW m \in {"GET", "POST", "DELETE"}, NEW op, op # "history", NEW w \in TargetWords,
           NEW t, t = <<"/", w>>, Reaches(m, t, op, <<>>)
    PROVE  Asks(t, m, op, <<>>)
<1>1. PICK a \in TargetWords : a = "/"
    BY DEF TargetWords
<1>2. t = <<a, w>>
    BY <1>1, Zenon
<1>3. t \in Texts /\ Plain(t) /\ Without(t, "?") /\ Without(t, "%") /\ Len(t) = 2
    BY ONLY <1>2, a \in TargetWords, w \in TargetWords, PlainTwo
<1>4. t # <<>>
    BY <1>3, TextShape
<1>5. Decode(t) = t
    BY ONLY <1>3, PlainText
<1>6. PICK none : none = <<>>
    OBVIOUS
<1>7. Reaches(m, Decode(t), op, none)
    BY <1>5, <1>6, Zenon
<1>8. Asks(t, m, op, none)
    BY ONLY <1>3, <1>4, <1>7, m \in {"GET", "POST", "DELETE"}, op # "history", NoQuery
<1> QED
    BY <1>6, <1>8, Zenon

LEMMA DeleteAsks ==
    ASSUME NEW op, NEW w \in TargetWords, NEW id \in Texts, id # <<>>,
           Range(id) \intersect {"/", "?", "#", "%", Space, LF} = {},
           \/ op = "deleteUser" /\ w = "users" /\ Range(id) \subseteq DecimalDigits
           \/ op = "deleteRoom" /\ w = "rooms",
           NEW z \in Spellings(id), NEW t, t = <<"/", w, "/">> \o z
    PROVE  Asks(t, "DELETE", op, id)
<1>1. PICK p : p = <<"/", w, "/">>
    OBVIOUS
<1>2. p \in Texts /\ Plain(p) /\ Without(p, "?") /\ Without(p, "%") /\ Len(p) = 3
    <2>1. PICK a \in TargetWords : a = "/"
        BY DEF TargetWords
    <2>2. p = <<a, w, a>>
        BY <1>1, <2>1, Zenon
    <2> QED
        BY ONLY <2>2, a \in TargetWords, w \in TargetWords, PlainThree
<1>3. /\ z \in Texts /\ Plain(z) /\ Without(z, "?")
      /\ Without(id, "%") /\ Without(id, "/")
    BY PlainSpelling
<1>4. t = p \o z
    BY <1>1, Zenon
<1>5. t \in Texts /\ Len(t) = Len(p) + Len(z) /\ Plain(t) /\ Without(t, "?")
    BY ONLY <1>2, <1>3, <1>4, PlainBoth
<1>6. t # <<>>
    <2>1. Len(z) \in Nat
        BY <1>3, TextShape
    <2>2. Len(t) # 0
        BY <1>2, <1>5, <2>1
    <2> QED
        BY <1>5, <2>2, TextShape
<1>7. PICK path : path = p \o id
    OBVIOUS
<1>8. Decode(t) = path
    <2>1. PICK none : none = <<>>
        OBVIOUS
    <2>2. none \in Texts /\ Without(none, "%")
        BY <2>1 DEF Without, Texts
    <2>3. Decode((p \o z) \o none) = (p \o id) \o none
        BY ONLY <1>2, <1>3, <2>2, id \in Texts, z \in Spellings(id), PathDecoded
    <2>4. t \o none = t
        BY <1>5, <2>1, TextShape
    <2>5. path \in Texts
        BY ONLY <1>2, <1>7, id \in Texts, Together
    <2>6. path \o none = path
        BY <2>1, <2>5, TextShape
    <2> QED
        BY <1>4, <1>7, <2>3, <2>4, <2>6, Zenon
<1>9. Reaches("DELETE", path, op, id)
    <2>1. path = <<"/", w, "/">> \o id
        BY <1>1, <1>7, Zenon
    <2> QED
        BY <1>3, <2>1, DeleteReached
<1>10. PICK m \in {"GET", "POST", "DELETE"} : m = "DELETE"
    OBVIOUS
<1>11. Reaches(m, Decode(t), op, id)
    BY <1>8, <1>9, <1>10, Zenon
<1>12. op # "history"
    OBVIOUS
<1>13. Asks(t, m, op, id)
    BY ONLY <1>5, <1>6, <1>11, <1>12, m \in {"GET", "POST", "DELETE"}, NoQuery
<1> QED
    BY <1>10, <1>13, Zenon

LEMMA MessagesPath ==
    ASSUME NEW op, NEW m, NEW id \in Texts, id # <<>>,
           Range(id) \intersect {"/", "?", "#", "%", Space, LF} = {},
           \/ op = "history" /\ m = "GET"
           \/ op = "send" /\ m = "POST",
           NEW z \in Spellings(id), NEW u, u = (<<"/", "conversations", "/">> \o z) \o <<"/", "messages">>
    PROVE  u \in Texts /\ u # <<>> /\ Plain(u) /\ Without(u, "?") /\ Reaches(m, Decode(u), op, id)
<1>1. PICK p : p = <<"/", "conversations", "/">>
    OBVIOUS
<1>2. PICK q : q = <<"/", "messages">>
    OBVIOUS
<1>3. PICK a \in TargetWords : a = "/"
    BY DEF TargetWords
<1>4. PICK b \in TargetWords : b = "conversations"
    BY DEF TargetWords
<1>5. PICK c \in TargetWords : c = "messages"
    BY DEF TargetWords
<1>6. p \in Texts /\ Plain(p) /\ Without(p, "?") /\ Without(p, "%") /\ Len(p) = 3
    <2>1. p = <<a, b, a>>
        BY <1>1, <1>3, <1>4, Zenon
    <2> QED
        BY ONLY <2>1, a \in TargetWords, b \in TargetWords, PlainThree
<1>7. q \in Texts /\ Plain(q) /\ Without(q, "?") /\ Without(q, "%") /\ Len(q) = 2
    <2>1. q = <<a, c>>
        BY <1>2, <1>3, <1>5, Zenon
    <2> QED
        BY ONLY <2>1, a \in TargetWords, c \in TargetWords, PlainTwo
<1>8. /\ z \in Texts /\ Plain(z) /\ Without(z, "?")
      /\ Without(id, "%") /\ Without(id, "/")
    BY PlainSpelling
<1>9. PICK y : y = p \o z
    OBVIOUS
<1>10. y \in Texts /\ Plain(y) /\ Without(y, "?")
    BY ONLY <1>6, <1>8, <1>9, PlainBoth
<1>11. u = y \o q
    BY <1>1, <1>2, <1>9, Zenon
<1>12. u \in Texts /\ Len(u) = Len(y) + Len(q) /\ Plain(u) /\ Without(u, "?")
    BY ONLY <1>7, <1>10, <1>11, PlainBoth
<1>13. u # <<>>
    <2>1. Len(y) \in Nat
        BY <1>10, TextShape
    <2>2. Len(u) # 0
        BY <1>7, <1>12, <2>1
    <2> QED
        BY <1>12, <2>2, TextShape
<1>14. PICK path : path = (p \o id) \o q
    OBVIOUS
<1>15. Decode(u) = path
    <2>1. Decode((p \o z) \o q) = (p \o id) \o q
        BY ONLY <1>6, <1>7, <1>8, id \in Texts, z \in Spellings(id), PathDecoded
    <2> QED
        BY <1>9, <1>11, <1>14, <2>1, Zenon
<1>16. Reaches(m, path, op, id)
    <2>1. path = (<<"/", "conversations", "/">> \o id) \o <<"/", "messages">>
        BY <1>1, <1>2, <1>14, Zenon
    <2> QED
        BY <1>8, <2>1, MessagesReached
<1> QED
    BY <1>12, <1>13, <1>15, <1>16, Zenon

LEMMA HistoryTail ==
    ASSUME NEW t, t = <<"/", "messages", "?", "limit", "=", "2", "0", "0">>,
           NEW q, q = <<"limit", "=", "2", "0", "0">>
    PROVE  t = <<"/", "messages">> \o (<<"?">> \o q)
<1>1. PICK S : S = Symbols
    OBVIOUS
<1>2. /\ "/" \in S /\ "messages" \in S /\ "?" \in S /\ "limit" \in S /\ "=" \in S /\ "2" \in S /\ "0" \in S
    BY <1>1, NamedSymbols DEF Named
<1>3. PICK slash \in S : slash = "/"
    BY <1>2
<1>4. PICK word \in S : word = "messages"
    BY <1>2
<1>5. PICK mark \in S : mark = "?"
    BY <1>2
<1>6. PICK name \in S : name = "limit"
    BY <1>2
<1>7. PICK eq \in S : eq = "="
    BY <1>2
<1>8. PICK two \in S : two = "2"
    BY <1>2
<1>9. PICK zero \in S : zero = "0"
    BY <1>2
<1>10. q = <<name, eq, two, zero, zero>>
    BY <1>6, <1>7, <1>8, <1>9, Zenon
<1>11. PICK s6 : s6 = <<mark, name, eq, two, zero, zero>>
    OBVIOUS
<1>12. PICK s7 : s7 = <<word, mark, name, eq, two, zero, zero>>
    OBVIOUS
<1>13. t = <<slash, word, mark, name, eq, two, zero, zero>>
    BY <1>3, <1>4, <1>5, <1>6, <1>7, <1>8, <1>9, Zenon
<1>14. /\ q \in Seq(S) /\ Len(q) = 5 /\ q[1] = name /\ q[2] = eq /\ q[3] = two /\ q[4] = zero /\ q[5] = zero
    BY ONLY <1>10, name \in S, eq \in S, two \in S, zero \in S
<1>15. /\ s6 \in Seq(S) /\ Len(s6) = 6 /\ s6[1] = mark
       /\ s6[2] = name /\ s6[3] = eq /\ s6[4] = two /\ s6[5] = zero /\ s6[6] = zero
    BY ONLY <1>11, mark \in S, name \in S, eq \in S, two \in S, zero \in S
<1>16. /\ s7 \in Seq(S) /\ Len(s7) = 7 /\ s7[1] = word /\ s7[2] = mark
       /\ s7[3] = name /\ s7[4] = eq /\ s7[5] = two /\ s7[6] = zero /\ s7[7] = zero
    BY ONLY <1>12, word \in S, mark \in S, name \in S, eq \in S, two \in S, zero \in S
<1>17. /\ t \in Seq(S) /\ Len(t) = 8 /\ t[1] = slash /\ t[2] = word /\ t[3] = mark
       /\ t[4] = name /\ t[5] = eq /\ t[6] = two /\ t[7] = zero /\ t[8] = zero
    BY ONLY <1>13, slash \in S, word \in S, mark \in S, name \in S, eq \in S, two \in S, zero \in S
<1>18. q \in Texts /\ s6 \in Texts /\ s7 \in Texts /\ t \in Texts
    BY <1>1, <1>14, <1>15, <1>16, <1>17 DEF Texts
<1>19. /\ mark \in Symbols /\ word \in Symbols /\ slash \in Symbols
    BY <1>1
<1>20. s6 = <<mark>> \o q
    <2>1. Len(s6) = 1 + Len(q) /\ s6[1] = mark /\ \A i \in 1 .. Len(q) : s6[1 + i] = q[i]
        BY ONLY <1>14, <1>15
    <2> QED
        BY ONLY <1>18, <1>19, <2>1, Fronted
<1>21. s7 = <<word>> \o s6
    <2>1. Len(s7) = 1 + Len(s6) /\ s7[1] = word /\ \A i \in 1 .. Len(s6) : s7[1 + i] = s6[i]
        BY ONLY <1>15, <1>16
    <2> QED
        BY ONLY <1>18, <1>19, <2>1, Fronted
<1>22. t = <<slash>> \o s7
    <2>1. Len(t) = 1 + Len(s7) /\ t[1] = slash /\ \A i \in 1 .. Len(s7) : t[1 + i] = s7[i]
        BY ONLY <1>16, <1>17
    <2> QED
        BY ONLY <1>18, <1>19, <2>1, Fronted
<1>23. PICK y : y = <<slash, word>> \o s6
    OBVIOUS
<1>24. y = <<slash>> \o (<<word>> \o s6)
    BY ONLY <1>18, <1>19, <1>23, TwoBefore
<1> QED
    BY <1>3, <1>4, <1>5, <1>20, <1>21, <1>22, <1>23, <1>24, Zenon

LEMMA HistoryAsks ==
    ASSUME NEW id \in Texts, id # <<>>, Range(id) \intersect {"/", "?", "#", "%", Space, LF} = {},
           NEW z \in Spellings(id),
           NEW t, t = (<<"/", "conversations", "/">> \o z) \o
                          <<"/", "messages", "?", "limit", "=", "2", "0", "0">>
    PROVE  Asks(t, "GET", "history", id)
<1>1. PICK u : u = (<<"/", "conversations", "/">> \o z) \o <<"/", "messages">>
    OBVIOUS
<1>2. PICK op : op = "history"
    OBVIOUS
<1>3. PICK m \in {"GET", "POST", "DELETE"} : m = "GET"
    OBVIOUS
<1>4. u \in Texts /\ u # <<>> /\ Plain(u) /\ Without(u, "?") /\ Reaches(m, Decode(u), op, id)
    BY <1>1, <1>2, <1>3, MessagesPath
<1>5. PICK q : q = <<"limit", "=", "2", "0", "0">>
    OBVIOUS
<1>6. q \in Texts /\ Limit(Params(q)) = 200
    BY ONLY <1>5, LimitGiven
<1>7. PICK mark \in Symbols : mark = "?"
    BY NamedSymbols DEF Named
<1>8. PICK back : back = <<mark>> \o q
    OBVIOUS
<1>9. mark \notin Around
    <2>1. mark # Space
        BY <1>7, Zenon DEF Space
    <2>2. mark # LF
        BY <1>7, Zenon DEF LF
    <2> QED
        BY <1>7, <2>1, <2>2 DEF Around
<1>10. Plain(q)
    <2>1. Len(q) = 5 /\ q[1] = "limit" /\ q[2] = "=" /\ q[3] = "2" /\ q[4] = "0" /\ q[5] = "0"
        BY ONLY <1>5
    <2>2. "limit" \in TargetWords /\ "=" \in TargetWords /\ "2" \in TargetWords /\ "0" \in TargetWords
        BY DEF TargetWords
    <2>3. "limit" \notin Around /\ "=" \notin Around /\ "2" \notin Around /\ "0" \notin Around
        BY <2>2, WordShape
    <2>4. \A i \in 1 .. 5 : q[i] \notin Around
        BY ONLY <2>1, <2>3
    <2> QED
        BY ONLY <2>1, <2>4 DEF Plain, Without
<1>11. back \in Texts /\ Plain(back)
    <2>1. PICK x : x = <<mark>>
        OBVIOUS
    <2>2. x \in Texts
        BY ONLY <2>1, mark \in Symbols, Character1
    <2>3. Plain(x)
        BY ONLY <1>9, <2>1, mark \in Symbols, WithoutOne DEF Plain
    <2>4. back = x \o q
        BY <1>8, <2>1, Zenon
    <2> QED
        BY ONLY <1>6, <1>10, <2>2, <2>3, <2>4, PlainBoth
<1>12. t = u \o back
    <2>1. PICK p : p = <<"/", "conversations", "/">> \o z
        OBVIOUS
    <2>2. PICK e : e = <<"/", "messages">>
        OBVIOUS
    <2>3. PICK tail : tail = <<"/", "messages", "?", "limit", "=", "2", "0", "0">>
        OBVIOUS
    <2>4. tail = e \o back
        BY <1>5, <1>7, <1>8, <2>2, <2>3, HistoryTail, Zenon
    <2>5. t = p \o tail /\ u = p \o e
        BY <1>1, <2>1, <2>2, <2>3, Zenon
    <2>6. e \in Texts
        <3>1. PICK a \in TargetWords : a = "/"
            BY DEF TargetWords
        <3>2. PICK b \in TargetWords : b = "messages"
            BY DEF TargetWords
        <3>3. e = <<a, b>>
            BY <2>2, <3>1, <3>2, Zenon
        <3> QED
            BY ONLY <3>3, a \in TargetWords, b \in TargetWords, PlainTwo
    <2>7. p \in Texts
        <3>1. PICK a \in TargetWords : a = "/"
            BY DEF TargetWords
        <3>2. PICK b \in TargetWords : b = "conversations"
            BY DEF TargetWords
        <3>3. PICK x : x = <<a, b, a>>
            OBVIOUS
        <3>4. x \in Texts
            BY ONLY <3>3, a \in TargetWords, b \in TargetWords, PlainThree
        <3>5. z \in Texts
            BY SpellingsTexts
        <3>6. p = x \o z
            BY <2>1, <3>1, <3>2, <3>3, Zenon
        <3> QED
            BY ONLY <3>4, <3>5, <3>6, Together
    <2>8. (p \o e) \o back = p \o (e \o back)
        BY ONLY <1>11, <2>6, <2>7, Regroup
    <2> QED
        BY <2>4, <2>5, <2>8, Zenon
<1>13. t \in Texts /\ Plain(t) /\ Len(t) = Len(u) + Len(back)
    BY ONLY <1>4, <1>11, <1>12, PlainBoth
<1>14. t # <<>>
    <2>1. Len(u) \in Nat /\ Len(u) # 0 /\ Len(back) \in Nat
        BY <1>4, <1>11, TextShape
    <2>2. Len(t) # 0
        BY <1>13, <2>1
    <2> QED
        BY <1>13, <2>2, TextShape
<1>15. Divide(t, "?")[1] = u /\ Divide(t, "?")[2] = q
    <2>1. Without(u, mark)
        BY <1>4, <1>7
    <2>2. t = u \o (<<mark>> \o q)
        BY <1>8, <1>12
    <2>3. Divide(t, mark)[1] = u /\ Divide(t, mark)[2] = q
        BY ONLY <1>4, <1>6, <2>1, <2>2, mark \in Symbols, Divided
    <2> QED
        BY <1>7, <2>3, Zenon
<1>16. Limit(Params(q)) = IF op = "history" THEN 200 ELSE 50
    BY <1>2, <1>6
<1>17. Asks(t, m, op, id)
    BY <1>4, <1>13, <1>14, <1>15, <1>16, Zenon DEF Asks
<1> QED
    BY <1>2, <1>3, <1>17, Zenon

LEMMA StringsText ==
    ASSUME NEW u \in Seq(STRING)
    PROVE  u \in Texts
<1>1. Len(u) \in Nat /\ \A i \in 1 .. Len(u) : u[i] \in Symbols
    BY DEF Symbols
<1>2. u = [i \in 1 .. Len(u) |-> u[i]]
    OBVIOUS
<1>3. [i \in 1 .. Len(u) |-> u[i]] \in Seq(Symbols)
    BY <1>1
<1> QED
    BY <1>2, <1>3, Zenon DEF Texts

WordOps == {"me", "users", "rooms", "createRoom", "login", "refresh", "logout", "register"}

LEMMA WordTarget ==
    ASSUME NEW op \in WordOps, NEW z
    PROVE  Asks(Target(op, z), Method(op), op, <<>>)
<1>1. CASE op = "me"
    <2>1. PICK w \in TargetWords : w = "me"
        BY DEF TargetWords
    <2>2. PICK m \in {"GET", "POST", "DELETE"} : m = "GET"
        OBVIOUS
    <2>3. PICK t : t = <<"/", w>>
        OBVIOUS
    <2>4. Target(op, z) = t /\ Method(op) = m
        BY <1>1, <2>1, <2>2, <2>3 DEF Target, Method
    <2>5. w \in Symbols /\ w # "/"
        BY <2>1, WordShape
    <2>6. Reaches(m, t, op, <<>>)
        BY ONLY <1>1, <2>1, <2>2, <2>3, <2>5, WordReached
    <2>7. op # "history"
        BY <1>1
    <2>8. Asks(t, m, op, <<>>)
        BY ONLY <2>3, <2>6, <2>7, w \in TargetWords, m \in {"GET", "POST", "DELETE"}, WordAsks
    <2> QED
        BY <2>4, <2>8, Zenon
<1>2. CASE op = "users"
    <2>1. PICK w \in TargetWords : w = "users"
        BY DEF TargetWords
    <2>2. PICK m \in {"GET", "POST", "DELETE"} : m = "GET"
        OBVIOUS
    <2>3. PICK t : t = <<"/", w>>
        OBVIOUS
    <2>4. Target(op, z) = t /\ Method(op) = m
        BY <1>2, <2>1, <2>2, <2>3 DEF Target, Method
    <2>5. w \in Symbols /\ w # "/"
        BY <2>1, WordShape
    <2>6. Reaches(m, t, op, <<>>)
        BY ONLY <1>2, <2>1, <2>2, <2>3, <2>5, WordReached
    <2>7. op # "history"
        BY <1>2
    <2>8. Asks(t, m, op, <<>>)
        BY ONLY <2>3, <2>6, <2>7, w \in TargetWords, m \in {"GET", "POST", "DELETE"}, WordAsks
    <2> QED
        BY <2>4, <2>8, Zenon
<1>3. CASE op = "rooms"
    <2>1. PICK w \in TargetWords : w = "rooms"
        BY DEF TargetWords
    <2>2. PICK m \in {"GET", "POST", "DELETE"} : m = "GET"
        OBVIOUS
    <2>3. PICK t : t = <<"/", w>>
        OBVIOUS
    <2>4. Target(op, z) = t /\ Method(op) = m
        BY <1>3, <2>1, <2>2, <2>3 DEF Target, Method
    <2>5. w \in Symbols /\ w # "/"
        BY <2>1, WordShape
    <2>6. Reaches(m, t, op, <<>>)
        BY ONLY <1>3, <2>1, <2>2, <2>3, <2>5, WordReached
    <2>7. op # "history"
        BY <1>3
    <2>8. Asks(t, m, op, <<>>)
        BY ONLY <2>3, <2>6, <2>7, w \in TargetWords, m \in {"GET", "POST", "DELETE"}, WordAsks
    <2> QED
        BY <2>4, <2>8, Zenon
<1>4. CASE op = "createRoom"
    <2>1. PICK w \in TargetWords : w = "rooms"
        BY DEF TargetWords
    <2>2. PICK m \in {"GET", "POST", "DELETE"} : m = "POST"
        OBVIOUS
    <2>3. PICK t : t = <<"/", w>>
        OBVIOUS
    <2>4. Target(op, z) = t /\ Method(op) = m
        BY <1>4, <2>1, <2>2, <2>3 DEF Target, Method
    <2>5. w \in Symbols /\ w # "/"
        BY <2>1, WordShape
    <2>6. Reaches(m, t, op, <<>>)
        BY ONLY <1>4, <2>1, <2>2, <2>3, <2>5, WordReached
    <2>7. op # "history"
        BY <1>4
    <2>8. Asks(t, m, op, <<>>)
        BY ONLY <2>3, <2>6, <2>7, w \in TargetWords, m \in {"GET", "POST", "DELETE"}, WordAsks
    <2> QED
        BY <2>4, <2>8, Zenon
<1>5. CASE op = "login"
    <2>1. PICK w \in TargetWords : w = "login"
        BY DEF TargetWords
    <2>2. PICK m \in {"GET", "POST", "DELETE"} : m = "POST"
        OBVIOUS
    <2>3. PICK t : t = <<"/", w>>
        OBVIOUS
    <2>4. Target(op, z) = t /\ Method(op) = m
        BY <1>5, <2>1, <2>2, <2>3 DEF Target, Method
    <2>5. w \in Symbols /\ w # "/"
        BY <2>1, WordShape
    <2>6. Reaches(m, t, op, <<>>)
        BY ONLY <1>5, <2>1, <2>2, <2>3, <2>5, WordReached
    <2>7. op # "history"
        BY <1>5
    <2>8. Asks(t, m, op, <<>>)
        BY ONLY <2>3, <2>6, <2>7, w \in TargetWords, m \in {"GET", "POST", "DELETE"}, WordAsks
    <2> QED
        BY <2>4, <2>8, Zenon
<1>6. CASE op = "refresh"
    <2>1. PICK w \in TargetWords : w = "refresh"
        BY DEF TargetWords
    <2>2. PICK m \in {"GET", "POST", "DELETE"} : m = "POST"
        OBVIOUS
    <2>3. PICK t : t = <<"/", w>>
        OBVIOUS
    <2>4. Target(op, z) = t /\ Method(op) = m
        BY <1>6, <2>1, <2>2, <2>3 DEF Target, Method
    <2>5. w \in Symbols /\ w # "/"
        BY <2>1, WordShape
    <2>6. Reaches(m, t, op, <<>>)
        BY ONLY <1>6, <2>1, <2>2, <2>3, <2>5, WordReached
    <2>7. op # "history"
        BY <1>6
    <2>8. Asks(t, m, op, <<>>)
        BY ONLY <2>3, <2>6, <2>7, w \in TargetWords, m \in {"GET", "POST", "DELETE"}, WordAsks
    <2> QED
        BY <2>4, <2>8, Zenon
<1>7. CASE op = "logout"
    <2>1. PICK w \in TargetWords : w = "logout"
        BY DEF TargetWords
    <2>2. PICK m \in {"GET", "POST", "DELETE"} : m = "POST"
        OBVIOUS
    <2>3. PICK t : t = <<"/", w>>
        OBVIOUS
    <2>4. Target(op, z) = t /\ Method(op) = m
        BY <1>7, <2>1, <2>2, <2>3 DEF Target, Method
    <2>5. w \in Symbols /\ w # "/"
        BY <2>1, WordShape
    <2>6. Reaches(m, t, op, <<>>)
        BY ONLY <1>7, <2>1, <2>2, <2>3, <2>5, WordReached
    <2>7. op # "history"
        BY <1>7
    <2>8. Asks(t, m, op, <<>>)
        BY ONLY <2>3, <2>6, <2>7, w \in TargetWords, m \in {"GET", "POST", "DELETE"}, WordAsks
    <2> QED
        BY <2>4, <2>8, Zenon
<1>8. CASE op = "register"
    <2>1. PICK w \in TargetWords : w = "register"
        BY DEF TargetWords
    <2>2. PICK m \in {"GET", "POST", "DELETE"} : m = "POST"
        OBVIOUS
    <2>3. PICK t : t = <<"/", w>>
        OBVIOUS
    <2>4. Target(op, z) = t /\ Method(op) = m
        BY <1>8, <2>1, <2>2, <2>3 DEF Target, Method
    <2>5. w \in Symbols /\ w # "/"
        BY <2>1, WordShape
    <2>6. Reaches(m, t, op, <<>>)
        BY ONLY <1>8, <2>1, <2>2, <2>3, <2>5, WordReached
    <2>7. op # "history"
        BY <1>8
    <2>8. Asks(t, m, op, <<>>)
        BY ONLY <2>3, <2>6, <2>7, w \in TargetWords, m \in {"GET", "POST", "DELETE"}, WordAsks
    <2> QED
        BY <2>4, <2>8, Zenon
<1> QED
    BY <1>1, <1>2, <1>3, <1>4, <1>5, <1>6, <1>7, <1>8 DEF WordOps

IdOps == {"history", "send", "deleteUser", "deleteRoom"}

LEMMA IdTarget ==
    ASSUME NEW op \in IdOps, NEW id \in Texts, id # <<>>,
           Range(id) \intersect {"/", "?", "#", "%", Space, LF} = {},
           op = "deleteUser" => Range(id) \subseteq DecimalDigits, NEW z \in Spellings(id)
    PROVE  Asks(Target(op, z), Method(op), op, id)
<1>1. CASE op = "deleteUser"
    <2>1. PICK w \in TargetWords : w = "users"
        BY DEF TargetWords
    <2>2. PICK t : t = <<"/", w, "/">> \o z
        OBVIOUS
    <2>3. Target(op, z) = <<"/", "users", "/">> \o z /\ Method(op) = "DELETE"
        BY <1>1, Zenon DEF Target, Method
    <2>4. Target(op, z) = t
        BY <2>1, <2>2, <2>3, Zenon
    <2>5. op = "deleteUser" /\ w = "users" /\ Range(id) \subseteq DecimalDigits
        BY <1>1, <2>1
    <2>6. Asks(t, "DELETE", op, id)
        BY ONLY <2>2, <2>5, w \in TargetWords, id \in Texts, id # <<>>, z \in Spellings(id),
                Range(id) \intersect {"/", "?", "#", "%", Space, LF} = {}, DeleteAsks
    <2> QED
        BY <2>3, <2>4, <2>6, Zenon
<1>2. CASE op = "deleteRoom"
    <2>1. PICK w \in TargetWords : w = "rooms"
        BY DEF TargetWords
    <2>2. PICK t : t = <<"/", w, "/">> \o z
        OBVIOUS
    <2>3. Target(op, z) = <<"/", "rooms", "/">> \o z /\ Method(op) = "DELETE"
        BY <1>2, Zenon DEF Target, Method
    <2>4. Target(op, z) = t
        BY <2>1, <2>2, <2>3, Zenon
    <2>5. op = "deleteRoom" /\ w = "rooms"
        BY <1>2, <2>1
    <2>6. Asks(t, "DELETE", op, id)
        BY ONLY <2>2, <2>5, w \in TargetWords, id \in Texts, id # <<>>, z \in Spellings(id),
                Range(id) \intersect {"/", "?", "#", "%", Space, LF} = {}, DeleteAsks
    <2> QED
        BY <2>3, <2>4, <2>6, Zenon
<1>3. CASE op = "history"
    <2>1. PICK t : t = (<<"/", "conversations", "/">> \o z) \o
                           <<"/", "messages", "?", "limit", "=", "2", "0", "0">>
        OBVIOUS
    <2>2. Target(op, z) = t /\ Method(op) = "GET"
        BY <1>3, <2>1, Zenon DEF Target, Method
    <2>3. Asks(t, "GET", "history", id)
        BY <2>1, HistoryAsks
    <2> QED
        BY <1>3, <2>2, <2>3, Zenon
<1>4. CASE op = "send"
    <2>1. PICK t : t = (<<"/", "conversations", "/">> \o z) \o <<"/", "messages">>
        OBVIOUS
    <2>2. Target(op, z) = t /\ Method(op) = "POST"
        BY <1>4, <2>1, Zenon DEF Target, Method
    <2>3. PICK m \in {"GET", "POST", "DELETE"} : m = "POST"
        OBVIOUS
    <2>4. t \in Texts /\ t # <<>> /\ Plain(t) /\ Without(t, "?") /\ Reaches(m, Decode(t), op, id)
        BY <1>4, <2>1, <2>3, MessagesPath
    <2>5. op # "history"
        BY <1>4
    <2>6. Asks(t, m, op, id)
        BY ONLY <2>4, <2>5, m \in {"GET", "POST", "DELETE"}, NoQuery
    <2> QED
        BY <2>2, <2>3, <2>6, Zenon
<1> QED
    BY <1>1, <1>2, <1>3, <1>4 DEF IdOps

\* Any target the client writes asks for its own operation, with its own id.
LEMMA TargetAsks ==
    ASSUME NEW r, Sendable(r), NEW z \in Spellings(r.id)
    PROVE  Asks(Target(r.op, z), Method(r.op), r.op, r.id)
<1>1. PICK op : op = r.op
    OBVIOUS
<1>2. PICK id : id = r.id
    OBVIOUS
<1>3. id \in Texts
    <2>1. {r.id, r.token, r.body} \subseteq Seq(STRING)
        BY Zenon DEF Sendable
    <2>2. id \in Seq(STRING)
        BY <1>2, <2>1
    <2> QED
        BY <2>2, StringsText
<1>4. /\ id # <<>> <=> op \in IdOps
      /\ Range(id) \intersect {"/", "?", "#", "%", Space, LF} = {}
      /\ op = "deleteUser" => Range(id) \subseteq DecimalDigits
    BY <1>1, <1>2, Zenon DEF Sendable, IdOps
<1>5. op \in WordOps \union IdOps
    <2>1. op \in {"me", "users", "history", "rooms", "deleteUser", "deleteRoom", "send", "createRoom",
                   "login", "refresh", "logout", "register"}
        BY <1>1, Zenon DEF Sendable
    <2> QED
        BY ONLY <2>1 DEF WordOps, IdOps
<1>6. CASE op \in IdOps
    <2>1. z \in Spellings(id)
        BY <1>2, Zenon
    <2>2. Asks(Target(op, z), Method(op), op, id)
        BY ONLY <1>3, <1>4, <1>6, <2>1, IdTarget
    <2> QED
        BY <1>1, <1>2, <2>2, Zenon
<1>7. CASE op \notin IdOps
    <2>1. id = <<>> /\ op \in WordOps
        BY <1>4, <1>5, <1>7
    <2>2. Asks(Target(op, z), Method(op), op, <<>>)
        BY ONLY <2>1, WordTarget
    <2> QED
        BY <1>1, <1>2, <2>1, <2>2, Zenon
<1> QED
    BY <1>6, <1>7

-----------------------------------------------------------------------------
(***************************************************************************)
(* A request.                                                              *)
(***************************************************************************)
\* A connection that nothing was read from has the whole text before it.
LEMMA Fresh ==
    ASSUME NEW text \in Texts, NEW pieces, Cuts(pieces, text, 0),
           NEW s, s = [buf |-> <<>>, net |-> pieces]
    PROVE  Holds(s, text)
<1>1. PICK z \in Nat : z = 0
    OBVIOUS
<1>2. Len(text) \in Nat
    BY TextShape
<1>3. z \in 0 .. Len(text) /\ z \in z .. Len(text) /\ z < z + 1
    BY <1>1, <1>2
<1>4. SubSeq(text, z + 1, z) = <<>>
    BY <1>3, SubSeqEmpty
<1>5. Cuts(pieces, text, z)
    BY <1>1
<1>6. s.buf = <<>> /\ s.net = pieces
    OBVIOUS
<1>7. StreamAt(s, text, z)
    BY <1>3, <1>4, <1>5, <1>6, Zenon DEF StreamAt
<1>8. text = Rest(text, z)
    <2>1. z + 1 = 1
        BY <1>1
    <2> QED
        BY <2>1, EmptyPart DEF Rest
<1> QED
    BY <1>3, <1>7, <1>8, Zenon DEF Holds

LEMMA AuthGiven ==
    ASSUME NEW token \in Texts, Without(token, "%"), Without(token, LF), Len(token) + 7 <= MaxLine,
           NEW auth, auth = IF token = <<>> THEN <<>> ELSE <<"Bearer", Space>> \o token
    PROVE  /\ auth \in Texts /\ (auth = <<>> \/ Valued(auth))
           /\ (IF token = <<>> THEN <<>> ELSE Header("Authorization", <<"Bearer", Space>> \o token))
                  = Given("Authorization", auth)
<1>1. CASE token = <<>>
    <2>1. auth = <<>>
        BY <1>1
    <2>2. auth \in Texts
        BY ONLY <2>1 DEF Texts
    <2> QED
        BY <1>1, <2>1, <2>2, Zenon DEF Given
<1>2. CASE token # <<>>
    <2>1. auth = <<"Bearer", Space>> \o token
        BY <1>2
    <2>2. Valued(<<"Bearer", Space>> \o token)
        BY ONLY token \in Texts, Without(token, "%"), Without(token, LF), Len(token) + 7 <= MaxLine, BearerValued
    <2>3. Valued(auth)
        BY <2>1, <2>2, Zenon
    <2>4. auth \in Texts /\ auth # <<>>
        BY <2>3, Zenon DEF Valued
    <2> QED
        BY <1>2, <2>1, <2>3, <2>4, Zenon DEF Given
<1> QED
    BY <1>1, <1>2

LEMMA LengthGiven ==
    ASSUME NEW n \in Nat, Len(Spelled(n)) + 5 <= MaxLine, NEW sized \in BOOLEAN,
           NEW len, len = IF sized THEN Spelled(n) ELSE <<>>
    PROVE  /\ len \in Texts /\ (len = <<>> \/ Valued(len))
           /\ (IF sized THEN Header("Content-Length", Spelled(n)) ELSE <<>>) = Given("Content-Length", len)
<1>1. CASE ~sized
    <2>1. len = <<>>
        BY <1>1
    <2>2. len \in Texts
        BY ONLY <2>1 DEF Texts
    <2> QED
        BY <1>1, <2>1, <2>2, Zenon DEF Given
<1>2. CASE sized
    <2>1. len = Spelled(n)
        BY <1>2
    <2>2. Valued(Spelled(n))
        BY ONLY n \in Nat, Len(Spelled(n)) + 5 <= MaxLine, LengthValued
    <2>3. Valued(len)
        BY <2>1, <2>2, Zenon
    <2>4. len \in Texts /\ len # <<>>
        BY <2>3, Zenon DEF Valued
    <2> QED
        BY <1>2, <2>1, <2>3, <2>4, Zenon DEF Given
<1> QED
    BY <1>1, <1>2

LEMMA SendableParts ==
    ASSUME NEW r, Sendable(r)
    PROVE  /\ r.token \in Texts /\ Without(r.token, "%") /\ Without(r.token, LF)
           /\ Len(r.token) + 7 <= MaxLine
           /\ r.body \in Texts /\ Len(r.body) \in Nat /\ Len(Spelled(Len(r.body))) + 5 <= MaxLine
           /\ (Method(r.op) # "POST" => r.body = <<>>)
           /\ MaxLine >= 8 /\ MaxHeaders >= 4
<1>1. /\ {r.id, r.token, r.body} \subseteq Seq(STRING)
      /\ Range(r.token) \intersect {"%", LF} = {}
      /\ Method(r.op) # "POST" => r.body = <<>>
      /\ MaxLine >= 8 /\ MaxHeaders >= 4
      /\ Len(r.token) + 7 <= MaxLine /\ Len(Spelled(Len(r.body))) + 5 <= MaxLine
    BY Zenon DEF Sendable
<1>2. PICK token : token = r.token
    OBVIOUS
<1>3. PICK body : body = r.body
    OBVIOUS
<1>4. token \in Seq(STRING) /\ body \in Seq(STRING)
    BY <1>1, <1>2, <1>3
<1>5. token \in Texts /\ body \in Texts
    BY <1>4, StringsText
<1>6. Len(body) \in Nat
    BY <1>5, TextShape
<1>7. Without(token, "%") /\ Without(token, LF)
    <2>1. Range(token) \intersect {"%", LF} = {}
        BY <1>1, <1>2
    <2>2. \A i \in 1 .. Len(token) : i \in DOMAIN token
        BY <1>5 DEF Texts
    <2> QED
        BY ONLY <2>1, <2>2 DEF Range, Without
<1> QED
    BY <1>1, <1>2, <1>3, <1>5, <1>6, <1>7, Zenon

LEMMA LengthSent ==
    ASSUME NEW op
    PROVE  /\ Method(op) = "GET" => Sized(op) = {FALSE}
           /\ Method(op) = "POST" => Sized(op) = {TRUE}
           /\ Method(op) = "DELETE" => Sized(op) = BOOLEAN
    BY DEF Sized

\* What follows the request line, in the order in which it is read.
Layout(x, host, kind, auth, len, body) ==
    \E rest \in Texts :
        /\ rest = host \o (kind \o (Given("Authorization", auth) \o
                      (Given("Content-Length", len) \o (Crlf \o body))))
        /\ (((((((x \o Crlf) \o host) \o kind) \o Given("Authorization", auth))
                  \o Given("Content-Length", len)) \o Crlf) \o body)
               = (x \o Crlf) \o rest

LEMMA HeadShape ==
    ASSUME NEW x \in Texts, NEW auth \in Texts, NEW len \in Texts, NEW body \in Texts,
           NEW host, host = Given("Host", <<"gateway", ":", "8080">>),
           NEW kind, kind = Given("Content-Type", <<"application/json">>), MaxLine >= 8
    PROVE  Layout(x, host, kind, auth, len, body)
<1>1. PICK b : b = <<"gateway", ":", "8080">>
    OBVIOUS
<1>2. PICK c : c = <<"application/json">>
    OBVIOUS
<1>3. b \in Texts /\ c \in Texts
    BY <1>1, <1>2, HostValued, Zenon DEF Valued
<1>4. \A name \in Titles : name \in Symbols
    BY TitleShape
<1>5. /\ "Host" \in Titles /\ "Content-Type" \in Titles /\ "Authorization" \in Titles
      /\ "Content-Length" \in Titles
    BY DEF Titles
<1>6. PICK a : a = Given("Authorization", auth)
    OBVIOUS
<1>7. PICK l : l = Given("Content-Length", len)
    OBVIOUS
<1>8. host \in Texts /\ kind \in Texts /\ a \in Texts /\ l \in Texts
    <2>1. host = Given("Host", b) /\ kind = Given("Content-Type", c)
        BY <1>1, <1>2, Zenon
    <2> QED
        BY ONLY <1>3, <1>4, <1>5, <1>6, <1>7, <2>1, auth \in Texts, len \in Texts, GivenText
<1>9. PICK front : front = x \o Crlf
    OBVIOUS
<1>10. front \in Texts /\ Crlf \in Texts
    BY <1>9, CrlfShape, Together
<1>11. PICK t4 : t4 = Crlf \o body
    OBVIOUS
<1>12. PICK t3 : t3 = l \o t4
    OBVIOUS
<1>13. PICK t2 : t2 = a \o t3
    OBVIOUS
<1>14. PICK t1 : t1 = kind \o t2
    OBVIOUS
<1>15. PICK t0 : t0 = host \o t1
    OBVIOUS
<1>16. t4 \in Texts
    BY ONLY <1>10, <1>11, body \in Texts, Together
<1>17. t3 \in Texts
    BY ONLY <1>8, <1>12, <1>16, Together
<1>18. t2 \in Texts
    BY ONLY <1>8, <1>13, <1>17, Together
<1>19. t1 \in Texts
    BY ONLY <1>8, <1>14, <1>18, Together
<1>20. t0 \in Texts
    BY ONLY <1>8, <1>15, <1>19, Together
<1>21. PICK u1 : u1 = front \o host
    OBVIOUS
<1>22. PICK u2 : u2 = u1 \o kind
    OBVIOUS
<1>23. PICK u3 : u3 = u2 \o a
    OBVIOUS
<1>24. PICK u4 : u4 = u3 \o l
    OBVIOUS
<1>25. u1 \in Texts
    BY ONLY <1>8, <1>10, <1>21, Together
<1>26. u2 \in Texts
    BY ONLY <1>8, <1>22, <1>25, Together
<1>27. u3 \in Texts
    BY ONLY <1>8, <1>23, <1>26, Together
<1>28. u4 \in Texts
    BY ONLY <1>8, <1>24, <1>27, Together
<1>29. (u4 \o Crlf) \o body = u4 \o t4
    <2>1. u4 \in Texts /\ Crlf \in Texts /\ body \in Texts
        BY <1>10, <1>28
    <2>2. Grouped(u4, Crlf, body)
        BY ONLY <2>1, GroupedText
    <2> QED
        BY <1>11, <2>2, Zenon DEF Grouped
<1>30. u4 \o t4 = u3 \o t3
    <2>1. u3 \in Texts /\ l \in Texts /\ t4 \in Texts
        BY <1>8, <1>16, <1>27
    <2>2. Grouped(u3, l, t4)
        BY ONLY <2>1, GroupedText
    <2> QED
        BY <1>12, <1>24, <2>2, Zenon DEF Grouped
<1>31. u3 \o t3 = u2 \o t2
    <2>1. u2 \in Texts /\ a \in Texts /\ t3 \in Texts
        BY <1>8, <1>17, <1>26
    <2>2. Grouped(u2, a, t3)
        BY ONLY <2>1, GroupedText
    <2> QED
        BY <1>13, <1>23, <2>2, Zenon DEF Grouped
<1>32. u2 \o t2 = u1 \o t1
    <2>1. u1 \in Texts /\ kind \in Texts /\ t2 \in Texts
        BY <1>8, <1>18, <1>25
    <2>2. Grouped(u1, kind, t2)
        BY ONLY <2>1, GroupedText
    <2> QED
        BY <1>14, <1>22, <2>2, Zenon DEF Grouped
<1>33. u1 \o t1 = front \o t0
    <2>1. front \in Texts /\ host \in Texts /\ t1 \in Texts
        BY <1>8, <1>10, <1>19
    <2>2. Grouped(front, host, t1)
        BY ONLY <2>1, GroupedText
    <2> QED
        BY <1>15, <1>21, <2>2, Zenon DEF Grouped
<1>34. (((((((x \o Crlf) \o host) \o kind) \o a) \o l) \o Crlf) \o body) = front \o t0
    BY <1>9, <1>21, <1>22, <1>23, <1>24, <1>29, <1>30, <1>31, <1>32, <1>33, Zenon
<1>35. t0 = host \o (kind \o (a \o (l \o (Crlf \o body))))
    BY <1>11, <1>12, <1>13, <1>14, <1>15, Zenon
<1> QED
    BY <1>6, <1>7, <1>9, <1>20, <1>34, <1>35, Zenon DEF Layout
\* One request, one spelling, one way to cut it.
LEMMA ServedWritten ==
    ASSUME NEW r, Sendable(r), NEW z \in Spellings(r.id), NEW sized \in Sized(r.op),
           NEW text, text = Written(r, z, sized), NEW pieces, text \in Texts => Cuts(pieces, text, 0)
    PROVE  text \in Texts /\ text # <<>> /\ Serve(pieces) = Meant(r)
<1>1. PICK op : op = r.op
    OBVIOUS
<1>2. PICK id : id = r.id
    OBVIOUS
<1>3. PICK token : token = r.token
    OBVIOUS
<1>4. PICK body : body = r.body
    OBVIOUS
<1>5. PICK t : t = Target(op, z)
    OBVIOUS
<1>6. PICK m : m = Method(op)
    OBVIOUS
<1>7. Asks(t, m, op, id)
    BY <1>1, <1>2, <1>5, <1>6, TargetAsks, Zenon
<1>8. Len(t) + 6 <= MaxLine
    BY <1>1, <1>5, Zenon DEF Sendable
<1>9. /\ token \in Texts /\ Without(token, "%") /\ Without(token, LF) /\ Len(token) + 7 <= MaxLine
      /\ body \in Texts /\ Len(body) \in Nat /\ Len(Spelled(Len(body))) + 5 <= MaxLine
      /\ (m # "POST" => body = <<>>) /\ MaxLine >= 8 /\ MaxHeaders >= 4
    BY <1>1, <1>3, <1>4, <1>6, SendableParts, Zenon
<1>10. PICK x : x = (<<m, Space>> \o t) \o <<Space, "HTTP/1.1">>
    OBVIOUS
<1>11. PICK auth : auth = IF token = <<>> THEN <<>> ELSE <<"Bearer", Space>> \o token
    OBVIOUS
<1>12. PICK n : n = Len(body)
    OBVIOUS
<1>13. PICK len : len = IF sized THEN Spelled(n) ELSE <<>>
    OBVIOUS
<1>14. /\ auth \in Texts /\ (auth = <<>> \/ Valued(auth))
       /\ (IF token = <<>> THEN <<>> ELSE Header("Authorization", <<"Bearer", Space>> \o token))
              = Given("Authorization", auth)
    BY ONLY <1>9, <1>11, AuthGiven
<1>15. t \in Texts /\ t # <<>> /\ Plain(t) /\ m \in {"GET", "POST", "DELETE"}
    BY <1>7, Zenon DEF Asks
<1>16. /\ sized \in BOOLEAN
       /\ \/ m \in {"POST", "DELETE"} /\ len = Spelled(n)
          \/ m \in {"GET", "DELETE"} /\ len = <<>> /\ body = <<>>
    <2>1. sized \in Sized(op)
        BY <1>1
    <2>2. /\ m = "GET" => Sized(op) = {FALSE}
          /\ m = "POST" => Sized(op) = {TRUE}
          /\ m = "DELETE" => Sized(op) = BOOLEAN
        BY <1>6, LengthSent, Zenon
    <2>3. m \in {"GET", "POST", "DELETE"}
        BY <1>15
    <2>4. sized \in BOOLEAN /\ (sized => m # "GET") /\ (~sized => m # "POST")
        <3>1. CASE m = "GET"
            <4>1. Sized(op) = {FALSE}
                BY ONLY <2>2, <3>1, Zenon
            <4>2. sized \in {FALSE}
                BY ONLY <2>1, <4>1, Zenon
            <4>3. ~sized /\ sized \in BOOLEAN
                BY ONLY <4>2, Zenon
            <4> QED
                BY ONLY <3>1, <4>3
        <3>2. CASE m = "POST"
            <4>1. Sized(op) = {TRUE}
                BY ONLY <2>2, <3>2, Zenon
            <4>2. sized \in {TRUE}
                BY ONLY <2>1, <4>1, Zenon
            <4>3. sized /\ sized \in BOOLEAN
                BY ONLY <4>2, Zenon
            <4> QED
                BY ONLY <3>2, <4>3
        <3>3. CASE m = "DELETE"
            <4>1. Sized(op) = BOOLEAN
                BY ONLY <2>2, <3>3, Zenon
            <4>2. sized \in BOOLEAN
                BY ONLY <2>1, <4>1, Zenon
            <4> QED
                BY ONLY <3>3, <4>2
        <3> QED
            BY <2>3, <3>1, <3>2, <3>3, Zenon
    <2>5. CASE sized
        <3>1. len = Spelled(n)
            BY <1>13, <2>5
        <3>2. m \in {"POST", "DELETE"}
            BY ONLY <2>3, <2>4, <2>5
        <3> QED
            BY <2>4, <3>1, <3>2, Zenon
    <2>6. CASE ~sized
        <3>1. m # "POST"
            BY ONLY <2>4, <2>6
        <3>2. body = <<>>
            BY <1>9, <3>1
        <3>3. len = <<>>
            BY <1>13, <2>6
        <3>4. m \in {"GET", "DELETE"}
            BY <2>3, <3>1
        <3> QED
            BY <2>4, <3>2, <3>3, <3>4, Zenon
    <2> QED
        BY <2>5, <2>6
<1>17. /\ len \in Texts /\ (len = <<>> \/ Valued(len))
       /\ (IF sized THEN Header("Content-Length", Spelled(n)) ELSE <<>>) = Given("Content-Length", len)
    <2>1. n \in Nat /\ Len(Spelled(n)) + 5 <= MaxLine
        BY <1>9, <1>12, Zenon
    <2>2. sized \in BOOLEAN
        BY <1>16
    <2> QED
        BY ONLY <1>13, <2>1, <2>2, LengthGiven
<1>18. Without(t, Space) /\ Without(t, LF) /\ Without(t, "#")
    BY <1>15 DEF Plain, Around
<1>19. PICK path : \E query :
           /\ Divide(t, "?")[1] = path /\ Divide(t, "?")[2] = query
           /\ Reaches(m, Decode(path), op, id)
           /\ Limit(Params(query)) = IF op = "history" THEN 200 ELSE 50
    BY <1>7, Zenon DEF Asks
<1>20. PICK query :
           /\ Divide(t, "?")[1] = path /\ Divide(t, "?")[2] = query
           /\ Reaches(m, Decode(path), op, id)
           /\ Limit(Params(query)) = IF op = "history" THEN 200 ELSE 50
    BY <1>19
<1>21. /\ x \in Texts /\ Without(x, LF) /\ Len(x) = Len(t) + 4
       /\ \A line : Line(line) = x => FirstOf(ParseRequestLine(line), m, t)
    BY ONLY <1>10, <1>15, <1>18, FirstLine
<1>22. PICK host : host = Given("Host", <<"gateway", ":", "8080">>)
    OBVIOUS
<1>23. PICK kind : kind = Given("Content-Type", <<"application/json">>)
    OBVIOUS
<1>24. /\ Header("Host", <<"gateway", ":", "8080">>) = host
       /\ Header("Content-Type", <<"application/json">>) = kind
    <2>1. MaxLine >= 8
        BY <1>9
    <2>2. <<"gateway", ":", "8080">> # <<>> /\ <<"application/json">> # <<>>
        BY <2>1, HostValued, Zenon DEF Valued
    <2> QED
        BY <1>22, <1>23, <2>2, Zenon DEF Given
<1>25. text = (((((((x \o Crlf) \o host) \o kind) \o Given("Authorization", auth))
                       \o Given("Content-Length", len)) \o Crlf) \o body)
    <2>1. text = ((((((((<<m, Space>> \o t) \o <<Space, "HTTP/1.1">>) \o Crlf)
                       \o Header("Host", <<"gateway", ":", "8080">>))
                       \o Header("Content-Type", <<"application/json">>))
                       \o (IF token = <<>> THEN <<>> ELSE Header("Authorization", <<"Bearer", Space>> \o token)))
                       \o (IF sized THEN Header("Content-Length", Spelled(n)) ELSE <<>>))
                       \o Crlf) \o body
        BY <1>1, <1>3, <1>4, <1>5, <1>6, <1>12, Zenon DEF Written
    <2> QED
        BY <1>10, <1>14, <1>17, <1>24, <2>1, Zenon
<1>26. PICK rest \in Texts :
           /\ rest = host \o (kind \o (Given("Authorization", auth) \o
                         (Given("Content-Length", len) \o (Crlf \o body))))
           /\ (((((((x \o Crlf) \o host) \o kind) \o Given("Authorization", auth))
                     \o Given("Content-Length", len)) \o Crlf) \o body)
                  = (x \o Crlf) \o rest
    <2>1. x \in Texts /\ auth \in Texts /\ len \in Texts /\ body \in Texts /\ MaxLine >= 8
        BY <1>9, <1>14, <1>17, <1>21
    <2>2. Layout(x, host, kind, auth, len, body)
        BY ONLY <1>22, <1>23, <2>1, HeadShape
    <2> QED
        BY <2>2, Zenon DEF Layout
<1>27. text = (x \o Crlf) \o rest
    BY <1>25, <1>26, Zenon
<1>28. text \in Texts /\ text # <<>>
    <2>1. PICK front : front = x \o Crlf
        OBVIOUS
    <2>2. x \in Texts /\ Crlf \in Texts /\ Len(Crlf) = 2 /\ Len(x) \in Nat
        BY <1>21, CrlfShape, TextShape
    <2>3. front \in Texts /\ Len(front) = Len(x) + Len(Crlf)
        BY <2>1, <2>2, Together
    <2>4. text = front \o rest
        BY <1>27, <2>1
    <2>5. rest \in Texts
        BY <1>26
    <2>6. text \in Texts /\ Len(text) = Len(front) + Len(rest)
        BY ONLY <2>3, <2>4, <2>5, Together
    <2>7. Len(rest) \in Nat
        BY ONLY <2>5, TextShape
    <2>8. Len(text) # 0
        BY ONLY <2>2, <2>3, <2>6, <2>7
    <2> QED
        BY ONLY <2>6, <2>8, TextShape
<1>29. PICK s : s = [buf |-> <<>>, net |-> pieces]
    OBVIOUS
<1>30. Holds(s, text)
    <2>1. text \in Texts /\ Cuts(pieces, text, 0)
        BY <1>28
    <2> QED
        BY ONLY <1>29, <2>1, Fresh
<1>31. PICK line : line = GetLine(s)
    OBVIOUS
<1>32. line.text = x \o Crlf /\ line.ok /\ Line(line.text) = x /\ Holds(line.s, rest)
    <2>1. Len(x) + 2 <= MaxLine
        <3>1. Len(t) \in Nat /\ MaxLine \in Nat
            BY <1>15, TextShape, LimitsAssumption
        <3> QED
            BY <1>8, <1>21, <3>1
    <2>2. Holds(s, (x \o Crlf) \o rest)
        BY <1>27, <1>30, Zenon
    <2>3. x \in Texts /\ Without(x, LF) /\ rest \in Texts
        BY <1>21, <1>26
    <2> QED
        BY ONLY <1>31, <2>1, <2>2, <2>3, LineRead
<1>33. PICK first : first = ParseRequestLine(line.text)
    OBVIOUS
<1>34. FirstOf(first, m, t)
    BY <1>21, <1>32, <1>33, Zenon
<1>35. first.ok /\ first.method = m /\ first.path = Decode(path) /\ first.params = Params(query)
    BY <1>20, <1>34, Zenon DEF FirstOf
<1>36. PICK head : head = ReadHeaders(line.s)
    OBVIOUS
<1>37. PICK hs \in Seq(Heads) :
           /\ Complete(head, hs, body)
           /\ Shows(hs, "Authorization", auth) /\ Shows(hs, "Content-Length", len)
    <2>1. PICK ls : ls = line.s
        OBVIOUS
    <2>2. Holds(ls, Given("Host", <<"gateway", ":", "8080">>) \o
                        (Given("Content-Type", <<"application/json">>) \o
                            (Given("Authorization", auth) \o
                                (Given("Content-Length", len) \o (Crlf \o body)))))
        BY <1>22, <1>23, <1>26, <1>32, <2>1, Zenon
    <2>3. /\ auth \in Texts /\ (auth = <<>> \/ Valued(auth))
          /\ len \in Texts /\ (len = <<>> \/ Valued(len))
          /\ body \in Texts /\ MaxLine >= 8 /\ MaxHeaders >= 4
        BY <1>9, <1>14, <1>17
    <2>4. head = ReadHeaders(ls)
        BY <1>36, <2>1
    <2> QED
        BY ONLY <2>2, <2>3, <2>4, HeadRead
<1>38. head.ok /\ head.headers = hs /\ Holds(head.s, body)
    BY <1>37 DEF Complete
<1>39. PICK content : /\ content = RequestContent(head.s, m, hs)
                      /\ content.ok /\ content.body = body /\ ~Unread(content.s)
    <2>1. PICK st : st = head.s
        OBVIOUS
    <2>2. Holds(st, body) /\ body \in Texts
        BY <1>9, <1>38, <2>1
    <2>3. hs \in Seq(Heads) /\ Shows(hs, "Content-Length", len)
        BY <1>37
    <2>4. \/ m \in {"POST", "DELETE"} /\ len = Spelled(Len(body))
          \/ m \in {"GET", "DELETE"} /\ len = <<>> /\ body = <<>>
        BY <1>12, <1>16, Zenon
    <2>5. \E c : c = RequestContent(st, m, hs) /\ c.ok /\ c.body = body /\ ~Unread(c.s)
        BY ONLY <2>2, <2>3, <2>4, BodyRead
    <2> QED
        BY <2>1, <2>5, Zenon
<1>40. BearerToken(hs) = token
    <2>1. hs \in Seq(Heads) /\ token \in Texts /\ Shows(hs, "Authorization", auth)
        BY <1>9, <1>37
    <2> QED
        BY ONLY <1>11, <2>1, TokenShown
<1>41. PICK i \in 1 .. 14 :
           Dispatch(m, Decode(path)) = i /\ Routes[i].op = op
           /\ Captured(Decode(path), Routes[i].pattern) = id
    BY <1>20, Zenon DEF Reaches
<1>42. i # 0
    BY <1>41
<1>43. Serve(pieces) =
           IF line.ok /\ first.ok /\ head.ok /\ content.ok /\ i # 0
           THEN [ok |-> TRUE, op |-> Routes[i].op, id |-> Captured(first.path, Routes[i].pattern),
                 token |-> BearerToken(head.headers), limit |-> Limit(first.params),
                 body |-> content.body, unread |-> Unread(content.s)]
           ELSE Failed
    <2>1. content = RequestContent(head.s, first.method, head.headers)
        BY <1>35, <1>38, <1>39, Zenon
    <2>2. i = Dispatch(first.method, first.path)
        BY <1>35, <1>41, Zenon
    <2> QED
        BY <1>29, <1>31, <1>33, <1>36, <2>1, <2>2, Zenon DEF Serve, Unread
<1>44. Serve(pieces) =
           [ok |-> TRUE, op |-> Routes[i].op, id |-> Captured(first.path, Routes[i].pattern),
            token |-> BearerToken(head.headers), limit |-> Limit(first.params),
            body |-> content.body, unread |-> Unread(content.s)]
    BY <1>32, <1>35, <1>38, <1>39, <1>42, <1>43, Zenon
<1>45. Unread(content.s) = FALSE
    BY <1>39, Zenon DEF Unread
<1>46. Serve(pieces) =
           [ok |-> TRUE, op |-> op, id |-> id, token |-> token,
            limit |-> IF op = "history" THEN 200 ELSE 50, body |-> body, unread |-> FALSE]
    <2>1. Routes[i].op = op
        BY <1>41, Zenon
    <2>2. Captured(first.path, Routes[i].pattern) = id
        BY <1>35, <1>41, Zenon
    <2>3. BearerToken(head.headers) = token
        BY <1>38, <1>40, Zenon
    <2>4. Limit(first.params) = IF op = "history" THEN 200 ELSE 50
        BY <1>20, <1>35, Zenon
    <2>5. content.body = body
        BY <1>39
    <2> QED
        BY ONLY <1>44, <1>45, <2>1, <2>2, <2>3, <2>4, <2>5, Zenon
<1>47. Meant(r) =
           [ok |-> TRUE, op |-> op, id |-> id, token |-> token,
            limit |-> IF op = "history" THEN 200 ELSE 50, body |-> body, unread |-> FALSE]
    BY <1>1, <1>2, <1>3, <1>4, Zenon DEF Meant
<1>48. Serve(pieces) = Meant(r)
    BY ONLY <1>46, <1>47
<1> QED
    BY <1>28, <1>48

(***************************************************************************)
(* What a client wrote is read as it was meant, in whatever pieces it      *)
(* arrives: the request line, the headers and the content are taken from   *)
(* the stream one behind the other (LineRead, HeadRead, BodyRead), the     *)
(* handler is the one of the operation (TargetAsks), and nothing is left   *)
(* in the stream.  For every request that the client can send, any         *)
(* spelling of its id, any lengths of the buffers.                         *)
(***************************************************************************)
THEOREM RequestRead ==
    ASSUME NEW r, Sendable(r), NEW text \in WireTexts(r), NEW pieces, Cuts(pieces, text, 0)
    PROVE  Serve(pieces) = Meant(r)
<1>1. text \in WireTexts(r)
    OBVIOUS
<1>2. \E z \in Spellings(r.id) : \E sized \in Sized(r.op) : text = Written(r, z, sized)
    BY ONLY <1>1 DEF WireTexts
<1>3. PICK z \in Spellings(r.id) : \E sized \in Sized(r.op) : text = Written(r, z, sized)
    BY <1>2
<1>4. PICK sized \in Sized(r.op) : text = Written(r, z, sized)
    BY <1>3
<1> QED
    BY <1>3, <1>4, ServedWritten

\* The requests of the clients.
LEMMA AllServed == ServedAsMeant
<1>1. SUFFICES ASSUME NEW r \in Requests, NEW text \in WireTexts(r), NEW pieces \in Pieces(text)
               PROVE  Serve(pieces) = Meant(r)
    BY Zenon DEF ServedAsMeant
<1>2. Sendable(r)
    BY RequestsAssumption
<1>3. text \in WireTexts(r)
    OBVIOUS
<1>4. \E z \in Spellings(r.id) : \E sized \in Sized(r.op) : text = Written(r, z, sized)
    BY ONLY <1>3 DEF WireTexts
<1>5. PICK z \in Spellings(r.id) : \E sized \in Sized(r.op) : text = Written(r, z, sized)
    BY <1>4
<1>6. PICK sized \in Sized(r.op) : text = Written(r, z, sized)
    BY <1>5
<1>7. text \in Texts => Cuts(pieces, text, 0)
    BY PiecesAreCuts
<1> QED
    BY <1>2, <1>5, <1>6, <1>7, ServedWritten

(***************************************************************************)
(* What a worker hands to its handler is what the client meant, whatever   *)
(* the pieces it received the request in: for any requests the client can  *)
(* send, any buffer sizes and limits within which they fit.                *)
(***************************************************************************)
THEOREM RequestsReadAsSent == Spec => []RequestsAsSent
<1>1. RequestsAsSent
    BY AllServed, Zenon DEF RequestsAsSent
<1> QED
    BY <1>1, PTL

=============================================================================
