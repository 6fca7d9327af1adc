----------------------------- MODULE HttpServer -----------------------------
(***************************************************************************)
(* The HTTP server that the gateway runs in (httplib.h): the thread that   *)
(* accepts connections, the queue and the pool of workers behind it, and   *)
(* the life of a connection.  A worker stays with a connection from its    *)
(* first request to its end; what a request does is Gateway's subject.     *)
(*                                                                         *)
(* The queue has no limit.  The gateway never calls stop: the server ends  *)
(* when accept fails for another reason than a lack of descriptors or a    *)
(* signal.                                                                 *)
(***************************************************************************)
EXTENDS Naturals, Sequences, FiniteSets

CONSTANTS
    Conns,     \* connections
    Workers,   \* the threads of the pool
    MaxCount,  \* requests per connection (keep_alive_max_count_)
    None

ASSUME CountAssumption == MaxCount \in Nat \ {0}
ASSUME NoneAssumption == None \notin Conns
ASSUME WorkersAssumption == IsFiniteSet(Workers) /\ Workers # {}

VARIABLES
    sock,      \* the connections, as the client sees them
    req,       \* the request a client waits for on a connection
    told,      \* the connections whose client was told "Connection: close"
    jobs,      \* ThreadPool::jobs_
    listener,  \* where the thread that called listen stands
    shutdown,  \* ThreadPool::shutdown_
    worker     \* where the workers stand

net == <<sock, req, told>>
vars == <<net, jobs, listener, shutdown, worker>>

-----------------------------------------------------------------------------
\* check: about to look at the queue; wait: keep_alive; handle: process_request;
\* expired, over: about to close the connection.
Worker == [st : {"check", "sleep", "done"}, conn : {None}, count : {0}]
          \union [st : {"wait", "handle"}, conn : Conns, count : 1 .. MaxCount]
          \union [st : {"expired", "over"}, conn : Conns, count : 0 .. MaxCount]

Idle(st) == [st |-> st, conn |-> None, count |-> 0]

At(w, st) == worker[w].st = st

Sleepers == {w \in Workers : At(w, "sleep")}
Awake == {w \in Workers : At(w, "check")}

Served(c) == {w \in Workers : worker[w].conn = c}

(* Queue, workers and connections have their shapes, and no worker waits   *)
(* for more requests than a connection may have.                           *)
TypeOK ==
    /\ sock \in [Conns -> {"closed", "open", "cut"}]
    /\ req \in [Conns -> {"none", "sent", "taken"}]
    /\ told \subseteq Conns
    /\ jobs \in Seq(Conns)
    /\ listener \in {"accept", "notify", "stop", "join", "exited"}
    /\ shutdown \in BOOLEAN
    /\ worker \in [Workers -> Worker]

Init ==
    /\ sock = [c \in Conns |-> "closed"]
    /\ req = [c \in Conns |-> "none"]
    /\ told = {}
    /\ jobs = <<>>
    /\ listener = "accept" /\ shutdown = FALSE
    /\ worker = [w \in Workers |-> Idle("check")]

-----------------------------------------------------------------------------
(***************************************************************************)
(* Clients.                                                                *)
(***************************************************************************)
\* A client sends its next request unless it was told not to.
Send(c) ==
    /\ sock[c] = "open" /\ req[c] = "none" /\ c \notin told
    /\ req' = [req EXCEPT ![c] = "sent"]
    /\ UNCHANGED <<sock, told, jobs, listener, shutdown, worker>>

\* A client goes away.
Cut(c) ==
    /\ sock[c] = "open"
    /\ sock' = [sock EXCEPT ![c] = "cut"]
    /\ req' = [req EXCEPT ![c] = "none"]
    /\ UNCHANGED <<told, jobs, listener, shutdown, worker>>

-----------------------------------------------------------------------------
(***************************************************************************)
(* The thread that accepts.                                                *)
(***************************************************************************)
\* A client connects, its job goes into the queue.
Accept(c) ==
    /\ listener = "accept" /\ sock[c] = "closed"
    /\ sock' = [sock EXCEPT ![c] = "open"]
    /\ told' = told \ {c}
    /\ jobs' = Append(jobs, c)
    /\ listener' = "notify"
    /\ UNCHANGED <<req, shutdown, worker>>

\* Mutant: nobody is woken.
NotifyNobody ==
    /\ listener = "notify" /\ listener' = "accept"
    /\ UNCHANGED <<net, jobs, shutdown, worker>>

\* notify_one, after the lock.
Notify ==
    /\ listener = "notify" /\ listener' = "accept"
    /\ \/ \E w \in Sleepers : worker' = [worker EXCEPT ![w] = Idle("check")]
       \/ Sleepers = {} /\ UNCHANGED worker
    /\ UNCHANGED <<net, jobs, shutdown>>

\* accept fails: the pool is shut down.
AcceptFails ==
    /\ listener = "accept" /\ listener' = "stop"
    /\ shutdown' = TRUE
    /\ UNCHANGED <<net, jobs, worker>>

\* Mutant: one worker is told of the end.
NotifyAllOne ==
    /\ listener = "stop" /\ listener' = "join"
    /\ \/ \E w \in Sleepers : worker' = [worker EXCEPT ![w] = Idle("check")]
       \/ Sleepers = {} /\ UNCHANGED worker
    /\ UNCHANGED <<net, jobs, shutdown>>

NotifyAll ==
    /\ listener = "stop" /\ listener' = "join"
    /\ worker' = [w \in Workers |-> IF At(w, "sleep") THEN Idle("check") ELSE worker[w]]
    /\ UNCHANGED <<net, jobs, shutdown>>

\* The workers are joined, main returns.
Exit ==
    /\ listener = "join" /\ \A w \in Workers : At(w, "done")
    /\ listener' = "exited"
    /\ UNCHANGED <<net, jobs, shutdown, worker>>

-----------------------------------------------------------------------------
(***************************************************************************)
(* A worker: the next job, or sleep, or the end.                           *)
(***************************************************************************)
Take(w) ==
    /\ At(w, "check") /\ jobs # <<>>
    /\ worker' = [worker EXCEPT ![w] = [st |-> "wait", conn |-> Head(jobs), count |-> MaxCount]]
    /\ jobs' = Tail(jobs)
    /\ UNCHANGED <<net, listener, shutdown>>

Sleep(w) ==
    /\ At(w, "check") /\ jobs = <<>> /\ ~shutdown
    /\ worker' = [worker EXCEPT ![w] = Idle("sleep")]
    /\ UNCHANGED <<net, jobs, listener, shutdown>>

SpuriousWakeup(w) ==
    /\ At(w, "sleep")
    /\ worker' = [worker EXCEPT ![w] = Idle("check")]
    /\ UNCHANGED <<net, jobs, listener, shutdown>>

Leave(w) ==
    /\ At(w, "check") /\ jobs = <<>> /\ shutdown
    /\ worker' = [worker EXCEPT ![w] = Idle("done")]
    /\ UNCHANGED <<net, jobs, listener, shutdown>>

-----------------------------------------------------------------------------
(***************************************************************************)
(* A worker with its connection.                                           *)
(***************************************************************************)
Goto(w, st) == worker' = [worker EXCEPT ![w].st = st]

\* keep_alive has something to read, process_request begins.
Read(w) ==
    LET c == worker[w].conn IN
    /\ At(w, "wait") /\ req[c] = "sent"
    /\ req' = [req EXCEPT ![c] = "taken"]
    /\ Goto(w, "handle")
    /\ UNCHANGED <<sock, told, jobs, listener, shutdown>>

\* What is read is the end of the connection.
ReadEnd(w) ==
    /\ At(w, "wait") /\ sock[worker[w].conn] = "cut"
    /\ Goto(w, "over")
    /\ UNCHANGED <<net, jobs, listener, shutdown>>

\* The client was quiet for keep_alive_timeout_sec_.
Expire(w) ==
    /\ At(w, "wait")
    /\ sock[worker[w].conn] = "open" /\ req[worker[w].conn] = "none"
    /\ Goto(w, "expired")
    /\ UNCHANGED <<net, jobs, listener, shutdown>>

\* Mutant: the client is not told that the last answer is the last one.
LastAnswerUntold(count) == FALSE

\* close_connection
LastAnswer(count) == count = 1

\* Mutant: an answer does not count.
LeftUncounted(count) == count

\* What is left of the count after an answer.
Left(count) == count - 1

\* write_response_core: "Connection: close", for either reason.
Announced(c, close, last) == IF close \/ last THEN told \union {c} ELSE told

\* process_request succeeded, and the loop goes on.
Continues(c, close, left) == ~close /\ sock[c] # "cut" /\ left > 0

\* The handler returns, perhaps by an exception, and its answer is written; a
\* client that asked for "Connection: close" gets no more.
Answer(w) ==
    LET c == worker[w].conn
        left == Left(worker[w].count)
    IN
    /\ At(w, "handle")
    /\ req' = [req EXCEPT ![c] = "none"]
    /\ \E close \in BOOLEAN :
           /\ told' = Announced(c, close, LastAnswer(worker[w].count))
           /\ worker' = [worker EXCEPT
                  ![w].st = IF Continues(c, close, left) THEN "wait" ELSE "over",
                  ![w].count = left]
    /\ UNCHANGED <<sock, jobs, listener, shutdown>>

\* Mutant: a connection that was cut is not closed.
CloseUnlessCut(w) ==
    LET c == worker[w].conn IN
    /\ worker[w].st \in {"expired", "over"}
    /\ sock' = IF sock[c] = "cut" THEN sock ELSE [sock EXCEPT ![c] = "closed"]
    /\ req' = [req EXCEPT ![c] = "none"]
    /\ worker' = [worker EXCEPT ![w] = Idle("check")]
    /\ UNCHANGED <<told, jobs, listener, shutdown>>

\* What the client sent in the meantime is lost.
Close(w) ==
    LET c == worker[w].conn IN
    /\ worker[w].st \in {"expired", "over"}
    /\ sock' = [sock EXCEPT ![c] = "closed"]
    /\ req' = [req EXCEPT ![c] = "none"]
    /\ worker' = [worker EXCEPT ![w] = Idle("check")]
    /\ UNCHANGED <<told, jobs, listener, shutdown>>

-----------------------------------------------------------------------------
WorkerStep(w) ==
    \/ Take(w) \/ Sleep(w) \/ Leave(w)
    \/ Read(w) \/ ReadEnd(w) \/ Expire(w) \/ Answer(w) \/ Close(w)

ListenerStep == Notify \/ NotifyAll \/ Exit

Exited == listener = "exited" /\ UNCHANGED vars

Next ==
    \/ \E c \in Conns : Send(c) \/ Cut(c) \/ Accept(c)
    \/ \E w \in Workers : WorkerStep(w) \/ SpuriousWakeup(w)
    \/ ListenerStep \/ AcceptFails
    \/ Exited

Spec == Init /\ [][Next]_vars

(* Threads are scheduled and get the mutex, a quiet client is given up     *)
(* after its time, and handlers return: the last is an assumption about    *)
(* the services behind the gateway, whose calls have no deadline.  Nothing *)
(* is assumed of clients.                                                  *)
FairSpec ==
    /\ Spec
    /\ WF_vars(ListenerStep)
    /\ \A w \in Workers : WF_vars(WorkerStep(w))

-----------------------------------------------------------------------------
(* No wakeup is lost: while a worker sleeps, there are no more jobs in the *)
(* queue than workers on their way to it and notifications to come.        *)
NoLostWakeup ==
    Sleepers # {} =>
        Len(jobs) <= Cardinality(Awake) + (IF listener = "notify" THEN 1 ELSE 0)

(* A connection that is not closed is in one place: once in the queue, or  *)
(* with one worker.  None is leaked, none is served twice.                 *)
OnePlace ==
    \A c \in Conns :
        LET places == Cardinality({i \in DOMAIN jobs : jobs[i] = c}) + Cardinality(Served(c))
        IN  places = IF sock[c] = "closed" THEN 0 ELSE 1

(* A request that a client was free to send is lost in one case only: the  *)
(* client had been quiet for too long, and the server was about to close.  *)
LostOnlyByTimeout ==
    [][\A c \in Conns :
           req[c] = "sent" /\ req'[c] = "none" /\ sock'[c] = "closed" =>
               \E w \in Served(c) : At(w, "expired")]_vars

(* Every request is answered, or its connection ends: workers stay with    *)
(* quiet and with busy clients for a limited time only, so the clients in  *)
(* the queue are served.                                                   *)
RequestsEnd == \A c \in Conns : req[c] # "none" ~> req[c] = "none"

(* The process does not end before every connection it accepted was served *)
(* to its end.                                                             *)
Drained == listener = "exited" => \A c \in Conns : sock[c] = "closed"

(* When accept has failed the process ends, whatever clients send, after   *)
(* every connection it accepted was served to its end.                     *)
ServerEnds == (shutdown ~> listener = "exited") /\ []Drained

=============================================================================
