------------------------------- MODULE MCMdb -------------------------------
(* Small instances of Mdb for TLC: an int of four bits; a statement and two *)
(* results, with handles for all of them.                                   *)
EXTENDS Mdb, TLC

\* In the result, at and past its end, and at each bound where an int wraps.
MCOffsets == {-1, 0, 1, 2, 3, 4, 7, 8, 14, 15, 16, 17, 18, 19}

Symmetry == Permutations(Ress) \cup Permutations(Handles)
============================================================================
