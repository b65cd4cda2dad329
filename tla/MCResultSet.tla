---------------------------- MODULE MCResultSet ----------------------------
(* Model checking of ResultSet: an int of four bits. *)
EXTENDS ResultSet

\* In the result, at and past its end, and at each bound where an int wraps.
MCOffsets == {-1, 0, 1, 2, 3, 4, 7, 8, 14, 15, 16, 17, 18, 19}
============================================================================
