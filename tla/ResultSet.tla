----------------------------- MODULE ResultSet -----------------------------
(***************************************************************************)
(* MDBResult and its two children (src/src/MDB/MDBResult_Mysql.cpp,         *)
(* MDBResult_Oracle.cpp): the rows of one query, fetched one by one or      *)
(* after a Seek, each kept in a cache so that the pointer that FetchRow     *)
(* returns stays good and a row is asked of the database once.  The MySQL   *)
(* child has to keep the library's own cursor in step with its own; the     *)
(* Oracle child asks for rows by number, counting from one, and fetches     *)
(* into buffers that stay from row to row.  A row has one column here.      *)
(***************************************************************************)
EXTENDS Integers

CONSTANTS
  N,          \* the number of rows of the result
  Values,     \* what the column of a row can hold ...
  SqlNull,    \* ... apart from the SQL null
  Blank,      \* the zeroes of a buffer that nothing was fetched into
  NoRow,      \* the NULL that FetchRow returns
  IntMax,     \* the largest int; a long is wider
  Offsets     \* the offsets, of type long, that the program seeks

ASSUME ResultAssumption ==
  /\ IntMax \in Nat /\ N \in 1..IntMax-1
  /\ Offsets \subseteq Int
  /\ SqlNull \notin Values /\ Blank \notin Values /\ Blank # SqlNull
  /\ NoRow \notin Int

VARIABLES
  driver,       \* the class of the object, from its construction on
  contents,     \* the column of each row of the result, in the database
  cursor_m,     \* the int cursor; Oracle's counts from 1, and is -1 at the end
  rowmap_m,     \* the cached rows by cursor: the row that was read, its column
  data,         \* the column's buffer
  data_cursor,  \* MYSQL_RES: the row that mysql_fetch_row returns next
  answer,       \* the last call, with the row it returned or its offset
  failed        \* it met an error of the database

resultVars == <<driver, contents, cursor_m, rowmap_m, data, data_cursor, answer, failed>>

Rows == 0..N-1
Columns == Values \cup {SqlNull, Blank}
Ints == -IntMax-1..IntMax
First == IF driver = "mysql" THEN 0 ELSE 1     \* the cursor of row 0

ResultTypeOK ==
  /\ driver \in {"mysql", "oracle"}
  /\ contents \in [Rows -> Values \cup {SqlNull}]
  /\ cursor_m \in Ints
  /\ DOMAIN rowmap_m \subseteq First..First+N-1
  /\ \A k \in DOMAIN rowmap_m : rowmap_m[k] \in [at : Rows, col : Columns]
  /\ data \in Values \cup {Blank}
  /\ data_cursor \in 0..N
  /\ answer \in {<<"Query">>} \cup ({"FetchRow"} \X (Rows \cup {NoRow}))
                                \cup ({"Seek"} \X Offsets)
  /\ failed \in BOOLEAN

\* Assignment of a long to an int.
AsInt(k) == ((k + IntMax + 1) % (2 * (IntMax + 1))) - (IntMax + 1)

ResultInit ==
  /\ driver \in {"mysql", "oracle"}
  /\ contents \in [Rows -> Values \cup {SqlNull}]
  /\ cursor_m = First /\ rowmap_m = <<>>
  /\ data = Blank /\ data_cursor = 0
  /\ answer = <<"Query">> /\ failed = FALSE

Returns(row) == answer' = <<"FetchRow", row>>
-----------------------------------------------------------------------------
Cached == cursor_m \in DOMAIN rowmap_m

Keep(row) == /\ rowmap_m' = [k \in DOMAIN rowmap_m \cup {cursor_m} |->
                              IF k = cursor_m THEN row ELSE rowmap_m[k]]
             /\ cursor_m' = cursor_m + 1
             /\ Returns(row.at)

\* mysql_data_seek walks the stored rows, no further than past the last.
DataSeek(k) == data_cursor' = IF k < N THEN k ELSE N

\* The text of a column, as its type has it, put into the buffer; a null is not.
TransData(k) == IF contents[k] = SqlNull THEN data ELSE contents[k]

\* MDBResult_Mysql::FetchRow, by what it finds.
BugHitMysql ==
  /\ Cached
  /\ cursor_m' = cursor_m + 1 /\ Returns(rowmap_m[cursor_m].at)
  /\ UNCHANGED <<rowmap_m, data, data_cursor>>

HitMysql ==
  /\ Cached
  /\ cursor_m' = cursor_m + 1 /\ Returns(rowmap_m[cursor_m].at)
  /\ DataSeek(cursor_m + 1)
  /\ UNCHANGED <<rowmap_m, data>>

MissMysql ==
  /\ ~Cached /\ data_cursor \in Rows
  /\ Keep([at |-> data_cursor, col |-> contents[data_cursor]])
  /\ data' = TransData(data_cursor)
  /\ data_cursor' = data_cursor + 1

EndMysql ==
  /\ ~Cached /\ data_cursor = N
  /\ Returns(NoRow)
  /\ UNCHANGED <<cursor_m, rowmap_m, data, data_cursor>>

\* MDBResult_Mysql::Seek, which throws at a negative offset.
SeekMysql(offset_) ==
  /\ offset_ >= 0
  /\ answer' = <<"Seek", offset_>>
  /\ cursor_m' = AsInt(offset_) /\ DataSeek(offset_)
  /\ UNCHANGED <<rowmap_m, data>>
-----------------------------------------------------------------------------
\* OCIStmtFetch2 of row cursor_m puts the column into the buffer, and leaves
\* the buffer as it was if the column is null.
Fetched == cursor_m - 1 \in Rows
Buffer == IF contents[cursor_m - 1] = SqlNull THEN data ELSE contents[cursor_m - 1]

\* MDBResult_Oracle::FetchRow, by what it finds.
HitOracle ==
  /\ Cached
  /\ cursor_m' = cursor_m + 1 /\ Returns(rowmap_m[cursor_m].at)
  /\ UNCHANGED <<rowmap_m, data>>

MissOracle ==
  /\ ~Cached /\ Fetched
  /\ data' = Buffer
  /\ Keep([at |-> cursor_m - 1, col |-> Buffer])

\* OCI_NO_DATA; and the calls after it, at -1.
EndOracle ==
  /\ cursor_m > N \/ cursor_m = -1
  /\ cursor_m' = -1 /\ Returns(NoRow)
  /\ UNCHANGED <<rowmap_m, data>>

\* Any other status is printed and answered with NULL: an error at any row or
\* for a number that is none, and a warning, with the column fetched.
FailOracle ==
  /\ ~Cached /\ cursor_m # -1
  /\ Returns(NoRow) /\ failed' = TRUE
  /\ data' = data \/ (Fetched /\ data' = Buffer)
  /\ UNCHANGED <<cursor_m, rowmap_m>>

BugSeekOracle(offset_) ==
  /\ offset_ >= 0
  /\ answer' = <<"Seek", offset_>>
  /\ cursor_m' = AsInt(offset_)
  /\ UNCHANGED <<rowmap_m, data>>

\* MDBResult_Oracle::Seek, which throws at a negative offset.
SeekOracle(offset_) ==
  /\ offset_ >= 0
  /\ answer' = <<"Seek", offset_>>
  /\ cursor_m' = AsInt(offset_ + 1)
  /\ UNCHANGED <<rowmap_m, data>>
-----------------------------------------------------------------------------
FetchMysql == HitMysql \/ MissMysql \/ EndMysql
FetchOracle == HitOracle \/ MissOracle \/ EndOracle

Mysql == /\ driver = "mysql"
         /\ FetchMysql \/ \E offset_ \in Offsets : SeekMysql(offset_)
         /\ failed' = FALSE
         /\ UNCHANGED <<driver, contents>>
Oracle == /\ driver = "oracle"
          /\ \/ FailOracle
             \/ (FetchOracle \/ \E offset_ \in Offsets : SeekOracle(offset_)) /\ failed' = FALSE
          /\ UNCHANGED <<driver, contents, data_cursor>>

ResultNext == Mysql \/ Oracle

ResultSpec == ResultInit /\ [][ResultNext]_resultVars
-----------------------------------------------------------------------------
\* A row is cached under its own number and, unless it is an Oracle null, with
\* what the database holds: no Seek, cached row or end of data between two
\* fetches brings the library's cursor and the object's out of step.
CacheAgrees ==
  \A k \in DOMAIN rowmap_m :
    /\ rowmap_m[k].at = k - First
    /\ \/ rowmap_m[k].col = contents[k - First]
       \/ driver = "oracle" /\ contents[k - First] = SqlNull

\* A row that FetchRow returned is never replaced in the cache: the pointer the
\* program holds stays good, and the same row is the same object again.
RowsStay ==
  [][\A k \in DOMAIN rowmap_m :
       k \in DOMAIN rowmap_m' /\ rowmap_m'[k] = rowmap_m[k]]_resultVars

\* The row that is next: the object's cursor, unless it is a wrapped one that
\* the library's cursor does not share.
Position ==
  IF /\ cursor_m - First \in Rows
     /\ driver = "mysql" => Cached \/ data_cursor = cursor_m
  THEN cursor_m - First ELSE N

\* The two children of MDBResult, with their caches and cursors, are a cursor
\* over the rows of the query, also when an offset does not fit an int: FetchRow
\* gives the row that is next, and NULL without an error only after the last row.
\* An error leaves the cursor where it was.  The caller is not told of it, as it is
\* by the abstract cursor: failed stands for what the code only prints.
RC == INSTANCE RowCursor WITH pos <- Position, Limit <- IntMax + 1,
                            call <- IF failed THEN <<"error">> ELSE answer

ImplementsRowCursor == RC!Spec

\* A caller who is given NULL has seen the last row: the comment on CheckError says
\* that an error of OCI is thrown.  It is printed, and FetchRow returns NULL.
NullIsEnd == answer = <<"FetchRow", NoRow>> => Position = N
============================================================================
