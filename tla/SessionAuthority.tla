-------------------------- MODULE SessionAuthority --------------------------
(***************************************************************************)
(* What auth_service promises about sessions, without its tables and its   *)
(* handlers: a session id belongs to one user for ever; a user has at most *)
(* one open session; a session that was closed never opens again.  The     *)
(* next sign-in of a user opens a new id after the old one was closed.     *)
(***************************************************************************)
CONSTANTS Users, Jti, NoUser

VARIABLES
    holder,   \* the user each id was given to, NoUser for an unused id
    open,     \* the ids whose tokens are accepted
    closed    \* the ids whose tokens were accepted once

vars == <<holder, open, closed>>

Init ==
    /\ holder = [j \in Jti |-> NoUser]
    /\ open = {}
    /\ closed = {}

Open(u, j) ==
    /\ holder[j] = NoUser
    /\ \A k \in open : holder[k] # u
    /\ holder' = [holder EXCEPT ![j] = u]
    /\ open' = open \union {j}
    /\ UNCHANGED closed

Close(j) ==
    /\ j \in open
    /\ open' = open \ {j}
    /\ closed' = closed \union {j}
    /\ UNCHANGED holder

Next ==
    \/ \E u \in Users, j \in Jti : Open(u, j)
    \/ \E j \in Jti : Close(j)

Spec == Init /\ [][Next]_vars

=============================================================================
