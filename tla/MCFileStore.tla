---------------------------- MODULE MCFileStore ----------------------------
(***************************************************************************)
(* FileStore with interchangeable ids, owners and handlers.                *)
(***************************************************************************)
EXTENDS FileStore, TLC

Symmetry ==
    Permutations(Files) \union Permutations(Owners) \union Permutations(Uploads)
        \union Permutations(Downloads)
=============================================================================
