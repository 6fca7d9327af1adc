-------------------------- MODULE MCClientWindows --------------------------
(* Small values of ClientWindows for TLC.                                  *)
EXTENDS ClientWindows, TLC

CONSTANTS p1, p2, r1, b1, b2

SomeLists == {<<>>, <<p1, p2>>, <<p2, r1>>}

From(p, b, d) == [from |-> p, body |-> b, day |-> d]

OneHistory == {<<From(p1, b1, 1), From(p2, b2, 1), From(p2, b1, 2)>>}

SomeSearches == {{b1, b2, p1, p2, r1}, {p2, b1}}
Everything == {b1, b2, p1, p2, r1}

=============================================================================
