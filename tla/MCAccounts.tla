----------------------------- MODULE MCAccounts -----------------------------
(***************************************************************************)
(* Accounts with the first administrator, one more address, a role that is *)
(* not there at first and two permissions.                                 *)
(***************************************************************************)
EXTENDS Accounts, TLC

CONSTANT extra

EveryPermission == {<<extra, Perms>>}

Symmetry == Permutations(Handlers)
=============================================================================
