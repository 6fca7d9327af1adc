---------------------------- MODULE MessageLog ----------------------------
(***************************************************************************)
(* What messaging_service promises about what it stores: a log for every   *)
(* key.  Messages are only added, after all others; a log is dropped as a  *)
(* whole; a sender who is gone is no longer named.                         *)
(***************************************************************************)
EXTENDS Naturals

CONSTANTS Keys, Users, Nobody, Ids

VARIABLE log

Stored == UNION {log[k] : k \in Keys}

Init == log = [k \in Keys |-> {}]

Post(k, m) ==
    /\ \A x \in Stored : x.id < m.id
    /\ log' = [log EXCEPT ![k] = @ \union {m}]

Drop(k) == log' = [log EXCEPT ![k] = {}]

Anonymous(m, u) == IF m.sender = u THEN [m EXCEPT !.sender = Nobody] ELSE m

Forget(u) == log' = [k \in Keys |-> {Anonymous(m, u) : m \in log[k]}]

Next ==
    \/ \E k \in Keys, u \in Users, i \in Ids : Post(k, [id |-> i, sender |-> u])
    \/ \E k \in Keys : Drop(k)
    \/ \E u \in Users : Forget(u)

Spec == Init /\ [][Next]_log
=============================================================================
