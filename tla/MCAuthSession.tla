--------------------------- MODULE MCAuthSession ---------------------------
(***************************************************************************)
(* AuthSession on an admin and a user, two handler threads and a few jtis. *)
(* Threads and jtis are interchangeable; the two users are not.            *)
(***************************************************************************)
EXTENDS AuthSession, TLC

Symmetry == Permutations(Threads) \union Permutations(Jti)
=============================================================================
