--------------------------- MODULE MCMessageStore ---------------------------
(***************************************************************************)
(* MessageStore with interchangeable users and calls; one direct           *)
(* conversation, of all users, and a room; messages of a few bytes.        *)
(***************************************************************************)
EXTENDS MessageStore, TLC

\* Between all users, and the room whose row comes first.
PairAndRoom == {[kind |-> "dm", of |-> Users], Room(1)}

\* Every byte, and messages of up to four bytes.
ShortPayloads ==
    {<<b>> : b \in 0 .. 255} \union UNION {[1 .. n -> {0, 15, 16, 63, 64, 255}] : n \in 0 .. 4}

NoPayloads == {}

Symmetry ==
    Permutations(Users) \union Permutations(Senders) \union Permutations(Readers)
        \union Permutations(Admins)
=============================================================================
