----------------------- MODULE MCIdempotentAcceptance -----------------------
(***************************************************************************)
(* Finite instances of IdempotentAcceptance for TLC.                       *)
(***************************************************************************)
EXTENDS IdempotentAcceptance, TLC

CONSTANTS p1, p2, p3, k1, c1, c2

TwoProcs == {p1, p2}
ThreeProcs == {p1, p2, p3}
OneKey == {k1}
TwoContents == {c1, c2}

\* Handlers, keys and contents are interchangeable (safety runs only).
Interchangeable ==
  Permutations(Procs) \cup Permutations(Keys) \cup Permutations(Contents)
=============================================================================
