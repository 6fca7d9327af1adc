---------------------------- MODULE MCChatStream ----------------------------
(***************************************************************************)
(* ChatStream with a few streams and callers, each kind interchangeable.   *)
(***************************************************************************)
EXTENDS ChatStream

Symmetry == Permutations(Streams) \union Permutations(Callers)
=============================================================================
