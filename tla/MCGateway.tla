----------------------------- MODULE MCGateway -----------------------------
(***************************************************************************)
(* Gateway with interchangeable handlers and sessions; requests name the   *)
(* addresses that are not the administrator's.                             *)
(***************************************************************************)
EXTENDS Gateway, TLC

OneAddress == {Emails \ {First}}

Symmetry == Permutations(Calls) \union Permutations(Jti)
=============================================================================
