----------------------------- MODULE RowCursor -----------------------------
(***************************************************************************)
(* What the class MDBResult promises of a result set, whatever database it  *)
(* came from and whatever it caches: a cursor over N rows.                  *)
(***************************************************************************)
EXTENDS Naturals

CONSTANTS N,         \* the number of rows
          NoRow,     \* the NULL that FetchRow returns instead of a row
          Offsets,   \* the offsets that are sought
          Limit      \* the first offset that the cursor cannot hold

VARIABLES driver,    \* the database: "oracle" may fail at a fetch, "mysql" has all
                     \* rows at hand
          pos,       \* the row that is next, N after the last
          call       \* the last call, with the row it returned or its offset, or
                     \* that it met an error

Init == driver \in {"mysql", "oracle"} /\ pos = 0 /\ call = <<"Query">>

Fetch == pos < N /\ call' = <<"FetchRow", pos>> /\ pos' = pos + 1

\* NULL: past the last row.
GiveNone == pos = N /\ call' = <<"FetchRow", NoRow>> /\ UNCHANGED pos

\* An error of the database moves nothing.
Fail == driver = "oracle" /\ call' = <<"error">> /\ UNCHANGED pos

\* An offset too large for the cursor promises nothing but a position.
Seek(offset) ==
  /\ call' = <<"Seek", offset>>
  /\ pos' \in 0..N
  /\ offset < Limit => pos' = IF offset < N THEN offset ELSE N

Next == /\ Fetch \/ GiveNone \/ Fail \/ \E offset \in Offsets : Seek(offset)
        /\ UNCHANGED driver

Spec == Init /\ [][Next]_<<driver, pos, call>>
============================================================================
