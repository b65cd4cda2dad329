----------------------------- MODULE MdbProofs -----------------------------
(***************************************************************************)
(* Proofs about MDB: ResultSet, for any number of rows, any contents, any    *)
(* width of an int and any offsets, and OracleHandles with the connections   *)
(* of OracleDriver around it, for any numbers of statements, results,        *)
(* handles and drivers.                                                      *)
(***************************************************************************)
EXTENDS ResultSet, OracleDriver, TLAPS

\* The library's cursor is the object's, or past the last row: the one case a
\* Seek whose offset does not fit an int leaves behind.
InStep == driver = "mysql" => data_cursor = N \/ data_cursor = cursor_m

ResultInv == ResultTypeOK /\ CacheAgrees /\ InStep

\* A remainder below the modulus is the number itself.
LEMMA Remainder ==
  ASSUME NEW m \in Nat, m > 0
  PROVE  /\ \A x \in Int : x % m \in 0..m-1
         /\ \A x \in 0..m-1 : x % m = x
         /\ m % m = 0
OBVIOUS

\* The assignment of a long to an int: always an int, the same one if it fits,
\* and the least one for the long after the largest.
LEMMA AsIntFacts ==
  /\ \A k \in Int : AsInt(k) \in Ints
  /\ \A k \in 0..IntMax : AsInt(k) = k
  /\ AsInt(IntMax + 1) = -IntMax - 1
<1> DEFINE m == 2 * (IntMax + 1)
<1>1. m \in Nat /\ m > 0 /\ IntMax \in Nat
  BY ResultAssumption DEF ResultAssumption
<1>2. \A k \in Int : k % m \in 0..m-1
  BY <1>1, Remainder
<1>3. \A k \in 0..m-1 : k % m = k
  BY <1>1, Remainder
<1>4. \A k : AsInt(k) = ((k + IntMax + 1) % m) - (IntMax + 1)
  BY DEF AsInt
<1>5. ASSUME NEW k \in Int PROVE AsInt(k) \in Ints
  <2>1. (k + IntMax + 1) % m \in 0..m-1
    BY <1>1, <1>2
  <2>2. \A r \in 0..m-1 : r - (IntMax + 1) \in Ints
    BY <1>1 DEF Ints
  <2> QED BY <1>4, <2>1, <2>2
<1>6. ASSUME NEW k \in 0..IntMax PROVE AsInt(k) = k
  <2>1. (k + IntMax + 1) % m = k + IntMax + 1
    BY <1>1, <1>3
  <2> QED BY <1>1, <1>4, <2>1
<1>7. AsInt(IntMax + 1) = -IntMax - 1
  <2>1. IntMax + 1 + IntMax + 1 = m /\ m % m = 0
    BY <1>1, Remainder
  <2> QED BY <1>1, <1>4, <2>1
<1> QED BY <1>5, <1>6, <1>7

\* The cursor stands on a row whenever the next one is counted.
LEMMA Numbers ==
  /\ IntMax \in Nat /\ N \in Nat /\ N > 0 /\ N < IntMax
  /\ First \in {0, 1} /\ First \in Ints
  /\ (\A r \in Rows : r \in 0..N /\ r + 1 \in 0..N)
  /\ \A c \in Ints : c - First \in Rows => c + 1 \in Ints /\ c \in First..First+N-1
BY ResultAssumption DEF ResultAssumption, First, Rows, Ints
-----------------------------------------------------------------------------
\* A new result set.
LEMMA ResultInitInv == ResultInit => ResultInv
<1> SUFFICES ASSUME ResultInit PROVE ResultInv
  OBVIOUS
<1>1. DOMAIN rowmap_m = {}
  BY DEF ResultInit
<1>2. ResultTypeOK
  <2>1. failed \in BOOLEAN
    BY DEF ResultInit
  <2>2. answer \in {<<"Query">>} /\ data_cursor \in 0..N /\ cursor_m \in Ints
    BY Numbers DEF ResultInit
  <2> QED BY <1>1, <2>1, <2>2 DEF ResultInit, ResultTypeOK
<1>3. CacheAgrees
  BY <1>1 DEF CacheAgrees
<1>4. InStep
  BY DEF ResultInit, InStep, First
<1> QED BY <1>2, <1>3, <1>4 DEF ResultInv

\* What a row that is fetched and kept does to the cache and the cursor.
LEMMA KeepFacts ==
  ASSUME ResultInv, ~Cached, cursor_m - First \in Rows, NEW col \in Columns,
         Keep([at |-> cursor_m - First, col |-> col]),
         \/ col = contents[cursor_m - First]
         \/ driver = "oracle" /\ contents[cursor_m - First] = SqlNull,
         UNCHANGED <<driver, contents>>
  PROVE  /\ cursor_m' = cursor_m + 1 /\ cursor_m' \in Ints
         /\ answer' = <<"FetchRow", cursor_m - First>>
         /\ DOMAIN rowmap_m' = DOMAIN rowmap_m \cup {cursor_m}
         /\ DOMAIN rowmap_m' \subseteq First..First+N-1
         /\ \A k \in DOMAIN rowmap_m : rowmap_m'[k] = rowmap_m[k]
         /\ \A k \in DOMAIN rowmap_m' : rowmap_m'[k] \in [at : Rows, col : Columns]
         /\ CacheAgrees'
<1> DEFINE row == [at |-> cursor_m - First, col |-> col]
<1>1. ResultTypeOK /\ CacheAgrees /\ cursor_m \in Ints /\ First' = First
  BY DEF ResultInv, ResultTypeOK, First
<1>2. /\ cursor_m' = cursor_m + 1 /\ answer' = <<"FetchRow", cursor_m - First>>
      /\ rowmap_m' = [k \in DOMAIN rowmap_m \cup {cursor_m} |->
                       IF k = cursor_m THEN row ELSE rowmap_m[k]]
  BY DEF Keep, Returns
<1>3. cursor_m' \in Ints /\ cursor_m \in First..First+N-1
  BY <1>1, <1>2, Numbers
<1>4. /\ DOMAIN rowmap_m' = DOMAIN rowmap_m \cup {cursor_m}
      /\ \A k \in DOMAIN rowmap_m' : rowmap_m'[k] = IF k = cursor_m THEN row ELSE rowmap_m[k]
  BY <1>2
<1>5. row \in [at : Rows, col : Columns]
  OBVIOUS
<1>6. \A k \in DOMAIN rowmap_m : rowmap_m[k] \in [at : Rows, col : Columns]
  BY <1>1 DEF ResultTypeOK
<1>7. DOMAIN rowmap_m' \subseteq First..First+N-1
  BY <1>1, <1>3, <1>4 DEF ResultTypeOK
<1>8. CacheAgrees'
  BY <1>1, <1>4 DEF CacheAgrees
<1>9. \A k \in DOMAIN rowmap_m : rowmap_m'[k] = rowmap_m[k]
  BY <1>4 DEF Cached
<1> QED BY <1>2, <1>3, <1>4, <1>5, <1>6, <1>7, <1>8, <1>9

\* The cursor after a row that is in the cache already.
LEMMA HitFacts ==
  ASSUME ResultInv, Cached
  PROVE  /\ cursor_m - First \in Rows /\ cursor_m + 1 \in Ints
         /\ rowmap_m[cursor_m].at = cursor_m - First
<1>1. ResultTypeOK /\ CacheAgrees /\ cursor_m \in Ints /\ cursor_m \in First..First+N-1
  BY DEF ResultInv, ResultTypeOK, Cached
<1>2. cursor_m - First \in Rows
  BY <1>1, Numbers DEF Rows
<1> QED BY <1>1, <1>2, Numbers DEF CacheAgrees, Cached

\* Steps that leave the cache as it is.
LEMMA CacheKept ==
  ASSUME ResultInv, UNCHANGED <<driver, contents, rowmap_m>>,
         cursor_m' \in Ints, data' \in Values \cup {Blank}, data_cursor' \in 0..N,
         InStep', failed' \in BOOLEAN,
         \/ \E r \in Rows \cup {NoRow} : Returns(r)
         \/ \E o \in Offsets : answer' = <<"Seek", o>>
  PROVE  ResultInv'
<1>1. ResultTypeOK /\ CacheAgrees /\ First' = First
  BY DEF ResultInv, First
<1>2. ResultTypeOK'
  BY <1>1 DEF ResultTypeOK, Returns
<1>3. CacheAgrees'
  BY <1>1 DEF CacheAgrees
<1> QED BY <1>2, <1>3 DEF ResultInv

\* A call of the MySQL child.
LEMMA MysqlInv == ResultInv /\ Mysql => ResultInv'
<1> SUFFICES ASSUME ResultInv, Mysql PROVE ResultInv'
  OBVIOUS
<1>0. /\ ResultTypeOK /\ CacheAgrees /\ First = 0 /\ First' = 0 /\ driver = "mysql"
      /\ UNCHANGED <<driver, contents>> /\ failed' \in BOOLEAN
      /\ data_cursor = N \/ data_cursor = cursor_m
  BY DEF ResultInv, Mysql, First, InStep
<1>1. CASE HitMysql
  <2>1. cursor_m \in Rows /\ cursor_m + 1 \in Ints /\ rowmap_m[cursor_m].at = cursor_m
    BY <1>0, <1>1, HitFacts DEF HitMysql, ResultTypeOK, Ints
  <2>2. Returns(cursor_m) /\ cursor_m' = cursor_m + 1
    BY <1>1, <2>1 DEF HitMysql
  <2>3. data_cursor' = cursor_m + 1 /\ data_cursor' \in 0..N
    BY <1>1, <2>1, Numbers DEF HitMysql, DataSeek, Rows
  <2> QED BY <1>0, <1>1, <2>1, <2>2, <2>3, CacheKept DEF HitMysql, InStep, ResultTypeOK
<1>2. CASE MissMysql
  <2>1. /\ ~Cached /\ data_cursor \in Rows /\ data_cursor = cursor_m /\ cursor_m - First = cursor_m
        /\ data_cursor' = data_cursor + 1 /\ data_cursor' \in 0..N
    BY <1>0, <1>2, Numbers DEF MissMysql, Rows, ResultTypeOK, Ints
  <2>2. contents[cursor_m] \in Values \cup {SqlNull} /\ contents[cursor_m] \in Columns
    BY <1>0, <2>1 DEF ResultTypeOK, Columns
  <2>3. /\ cursor_m' = cursor_m + 1 /\ cursor_m' \in Ints
        /\ answer' = <<"FetchRow", cursor_m>>
        /\ DOMAIN rowmap_m' \subseteq First..First+N-1
        /\ \A k \in DOMAIN rowmap_m' : rowmap_m'[k] \in [at : Rows, col : Columns]
        /\ CacheAgrees'
    BY <1>0, <1>2, <2>1, <2>2, KeepFacts DEF MissMysql
  <2>4. data' \in Values \cup {Blank}
    BY <1>0, <1>2, <2>1, <2>2 DEF MissMysql, TransData, ResultTypeOK
  <2>5. ResultTypeOK'
    BY <1>0, <2>1, <2>3, <2>4 DEF ResultTypeOK
  <2> QED BY <2>1, <2>3, <2>5 DEF ResultInv, InStep
<1>3. CASE EndMysql
  BY <1>0, <1>3, CacheKept DEF EndMysql, InStep, ResultTypeOK
<1>4. ASSUME NEW offset_ \in Offsets, SeekMysql(offset_) PROVE ResultInv'
  <2>1. offset_ \in Int /\ offset_ >= 0 /\ cursor_m' = AsInt(offset_) /\ AsInt(offset_) \in Ints
    BY <1>4, AsIntFacts, ResultAssumption DEF SeekMysql, ResultAssumption
  <2>2. /\ data_cursor' = IF offset_ < N THEN offset_ ELSE N
        /\ data_cursor' \in 0..N
    BY <1>4, <2>1, Numbers DEF SeekMysql, DataSeek
  <2>3. offset_ < N => AsInt(offset_) = offset_
    BY <2>1, Numbers, AsIntFacts
  <2> QED BY <1>0, <1>4, <2>1, <2>2, <2>3, CacheKept DEF SeekMysql, InStep, ResultTypeOK
<1> QED BY <1>1, <1>2, <1>3, <1>4 DEF Mysql, FetchMysql

\* A call of the Oracle child.
LEMMA OracleInv == ResultInv /\ Oracle => ResultInv'
<1> SUFFICES ASSUME ResultInv, Oracle PROVE ResultInv'
  OBVIOUS
<1>0. /\ ResultTypeOK /\ CacheAgrees /\ First = 1 /\ First' = 1
      /\ driver = "oracle" /\ driver' # "mysql" /\ failed' \in BOOLEAN
      /\ UNCHANGED <<driver, contents, data_cursor>>
  BY DEF ResultInv, Oracle, First, FailOracle
<1>1. InStep'
  BY <1>0 DEF InStep
<1>2. ASSUME Fetched PROVE Buffer \in Values \cup {Blank}
  BY <1>0, <1>2 DEF Buffer, Fetched, ResultTypeOK
<1>3. CASE HitOracle
  <2>1. cursor_m - 1 \in Rows /\ cursor_m + 1 \in Ints /\ rowmap_m[cursor_m].at = cursor_m - 1
    BY <1>0, <1>3, HitFacts DEF HitOracle
  <2>2. Returns(cursor_m - 1) /\ cursor_m' = cursor_m + 1
    BY <1>3, <2>1 DEF HitOracle
  <2> QED BY <1>0, <1>1, <1>3, <2>1, <2>2, CacheKept DEF HitOracle, ResultTypeOK
<1>4. CASE MissOracle
  <2>1. ~Cached /\ cursor_m - First \in Rows /\ Fetched /\ data' = Buffer
    BY <1>0, <1>4 DEF MissOracle, Fetched
  <2>2. Buffer \in Columns /\ (Buffer = contents[cursor_m - First] \/ contents[cursor_m - First] = SqlNull)
    BY <1>0, <1>2, <2>1 DEF Buffer, Columns
  <2>3. /\ cursor_m' \in Ints
        /\ answer' = <<"FetchRow", cursor_m - First>>
        /\ DOMAIN rowmap_m' \subseteq First..First+N-1
        /\ \A k \in DOMAIN rowmap_m' : rowmap_m'[k] \in [at : Rows, col : Columns]
        /\ CacheAgrees'
    BY <1>0, <1>4, <2>1, <2>2, KeepFacts DEF MissOracle
  <2>4. ResultTypeOK'
    BY <1>0, <1>2, <2>1, <2>3 DEF ResultTypeOK
  <2> QED BY <1>1, <2>3, <2>4 DEF ResultInv
<1>5. CASE EndOracle
  BY <1>0, <1>1, <1>5, CacheKept, Numbers DEF EndOracle, ResultTypeOK, Ints
<1>6. CASE FailOracle
  BY <1>0, <1>1, <1>2, <1>6, CacheKept DEF FailOracle, ResultTypeOK
<1>7. ASSUME NEW offset_ \in Offsets, SeekOracle(offset_) PROVE ResultInv'
  <2>1. offset_ + 1 \in Int /\ cursor_m' = AsInt(offset_ + 1) /\ AsInt(offset_ + 1) \in Ints
    BY <1>7, AsIntFacts, ResultAssumption DEF SeekOracle, ResultAssumption
  <2> QED BY <1>0, <1>1, <1>7, <2>1, CacheKept DEF SeekOracle, ResultTypeOK
<1> QED BY <1>3, <1>4, <1>5, <1>6, <1>7 DEF Oracle, FetchOracle

\* Every step keeps the invariant.
LEMMA ResultStepInv == ResultInv /\ [ResultNext]_resultVars => ResultInv'
<1>1. ResultInv /\ UNCHANGED resultVars => ResultInv'
  BY DEF ResultInv, resultVars, ResultTypeOK, CacheAgrees, InStep, First
<1> QED BY <1>1, MysqlInv, OracleInv DEF ResultNext

\* The inductive invariant.
THEOREM ResultInvHolds == ResultSpec => []ResultInv
  BY ResultInitInv, ResultStepInv, PTL DEF ResultSpec
-----------------------------------------------------------------------------
\* Type correctness.
THEOREM ResultTypeCorrect == ResultSpec => []ResultTypeOK
<1>1. ResultInv => ResultTypeOK
  BY DEF ResultInv
<1> QED BY <1>1, ResultInvHolds, PTL

\* Every cached row is the row of its number, whatever was sought in between.
THEOREM CacheAgreesHolds == ResultSpec => []CacheAgrees
<1>1. ResultInv => CacheAgrees
  BY DEF ResultInv
<1> QED BY <1>1, ResultInvHolds, PTL
-----------------------------------------------------------------------------
\* The position is the object's cursor, kept within the rows.
LEMMA PositionFacts ==
  ASSUME ResultInv
  PROVE  /\ Position \in 0..N
         /\ cursor_m - First \in Rows /\ (driver = "mysql" => Cached \/ data_cursor = cursor_m)
              => Position = cursor_m - First /\ Position < N
         /\ ~(cursor_m - First \in Rows /\ (driver = "mysql" => Cached \/ data_cursor = cursor_m))
              => Position = N
BY Numbers DEF ResultInv, ResultTypeOK, Ints, Position, Rows

\* The same after a step.
LEMMA PositionAfter ==
  ASSUME ResultInv'
  PROVE  /\ Position' \in 0..N
         /\ cursor_m' - First' \in Rows /\ (driver' = "mysql" => Cached' \/ data_cursor' = cursor_m')
              => Position' = cursor_m' - First' /\ Position' < N
         /\ ~(cursor_m' - First' \in Rows /\ (driver' = "mysql" => Cached' \/ data_cursor' = cursor_m'))
              => Position' = N
BY Numbers DEF ResultInv, ResultTypeOK, Ints, Position, Rows

\* A call gives the row at the position and moves past it.
LEMMA RowGiven ==
  ASSUME ResultInv, ResultInv', cursor_m - First \in Rows, cursor_m' = cursor_m + 1, driver' = driver,
         driver = "mysql" => (Cached \/ data_cursor = cursor_m) /\ data_cursor' = cursor_m'
  PROVE  Position = cursor_m - First /\ Position < N /\ Position' = Position + 1
<1>1. Position = cursor_m - First /\ Position < N
  BY PositionFacts
<1>2. First' = First /\ cursor_m' - First' = Position + 1
  BY <1>1, Numbers DEF First, ResultInv, ResultTypeOK, Ints
<1>3. CASE Position + 1 < N
  BY <1>1, <1>2, <1>3, PositionAfter, Numbers DEF Rows
<1>4. CASE Position + 1 = N
  BY <1>1, <1>2, <1>4, PositionAfter, Numbers DEF Rows
<1> QED BY <1>1, <1>3, <1>4, Numbers DEF Rows

\* Each call of the MySQL child does what the abstract cursor does.
LEMMA MysqlStep ==
  ASSUME ResultInv, ResultInv', Mysql
  PROVE  RC!Next
<1>0. /\ ResultTypeOK /\ CacheAgrees /\ First = 0 /\ First' = 0 /\ driver = "mysql" /\ driver' = "mysql"
      /\ cursor_m \in Int /\ cursor_m - First = cursor_m /\ failed' = FALSE
      /\ data_cursor = N \/ data_cursor = cursor_m
  BY DEF ResultInv, Mysql, First, InStep, ResultTypeOK, Ints
<1>1. ASSUME cursor_m \in Rows, cursor_m' = cursor_m + 1, data_cursor' = cursor_m',
             Cached \/ data_cursor = cursor_m, Returns(cursor_m)
      PROVE  RC!Fetch
  <2>1. Position = cursor_m /\ Position < N /\ Position' = Position + 1
    BY <1>0, <1>1, RowGiven
  <2> QED BY <1>0, <1>1, <2>1, Numbers DEF RC!Fetch, Returns
<1>2. CASE HitMysql
  <2>1. cursor_m \in Rows /\ rowmap_m[cursor_m].at = cursor_m
    BY <1>0, <1>2, HitFacts DEF HitMysql
  <2>2. data_cursor' = cursor_m + 1
    BY <1>2, <2>1, Numbers DEF HitMysql, DataSeek, Rows
  <2>3. RC!Fetch
    BY <1>1, <1>2, <2>1, <2>2 DEF HitMysql
  <2> QED BY <1>0, <2>3 DEF RC!Next
<1>3. CASE MissMysql
  <2>1. data_cursor \in Rows /\ data_cursor = cursor_m /\ cursor_m \in Rows
    BY <1>0, <1>3, Numbers DEF MissMysql, Rows
  <2>2. cursor_m' = cursor_m + 1 /\ data_cursor' = cursor_m' /\ Returns(cursor_m)
    BY <1>3, <2>1 DEF MissMysql, Keep
  <2>3. RC!Fetch
    BY <1>1, <2>1, <2>2
  <2> QED BY <1>0, <2>3 DEF RC!Next
<1>4. CASE EndMysql
  <2>1. Position = N
    BY <1>0, <1>4, PositionFacts, Numbers DEF EndMysql, Rows
  <2>2. cursor_m' = cursor_m /\ data_cursor' = data_cursor /\ Cached' = Cached
    BY <1>4 DEF EndMysql, Cached
  <2>3. Position' = Position
    BY <1>0, <2>2 DEF Position
  <2>4. answer' = <<"FetchRow", NoRow>>
    BY <1>4 DEF EndMysql, Returns
  <2> QED BY <1>0, <2>1, <2>3, <2>4 DEF RC!Next, RC!GiveNone
<1>5. ASSUME NEW offset_ \in Offsets, SeekMysql(offset_)
      PROVE  RC!Seek(offset_)
  <2>1. offset_ \in Int /\ offset_ >= 0 /\ cursor_m' = AsInt(offset_) /\ answer' = <<"Seek", offset_>>
        /\ data_cursor' = IF offset_ < N THEN offset_ ELSE N
    BY <1>5, ResultAssumption DEF SeekMysql, DataSeek, ResultAssumption
  <2>2. ASSUME offset_ < IntMax + 1
        PROVE  Position' = IF offset_ < N THEN offset_ ELSE N
    <3>1. cursor_m' = offset_ /\ cursor_m' - First' = offset_
      BY <1>0, <2>1, <2>2, AsIntFacts, Numbers
    <3>2. CASE offset_ < N
      <4>1. data_cursor' = cursor_m' /\ cursor_m' - First' \in Rows
        BY <2>1, <3>1, <3>2, Numbers DEF Rows
      <4> QED BY <3>1, <3>2, <4>1, PositionAfter
    <3>3. CASE ~(offset_ < N)
      <4>1. cursor_m' - First' \notin Rows
        BY <2>1, <3>1, <3>3, Numbers DEF Rows
      <4> QED BY <3>3, <4>1, PositionAfter
    <3> QED BY <3>2, <3>3
  <2> QED BY <1>0, <2>1, <2>2, PositionAfter DEF RC!Seek
<1>6. ASSUME NEW offset_ \in Offsets, RC!Seek(offset_) PROVE RC!Next
  BY <1>0, <1>6 DEF RC!Next
<1> QED BY <1>2, <1>3, <1>4, <1>5, <1>6 DEF Mysql, FetchMysql

\* Each call of the Oracle child does what the abstract cursor does.
LEMMA OracleStep ==
  ASSUME ResultInv, ResultInv', Oracle
  PROVE  RC!Next
<1>0. /\ ResultTypeOK /\ CacheAgrees /\ First = 1 /\ First' = 1 /\ driver = "oracle" /\ driver' = "oracle"
      /\ cursor_m \in Int
  BY DEF ResultInv, Oracle, First, ResultTypeOK, Ints
<1>1. ASSUME cursor_m - 1 \in Rows, cursor_m' = cursor_m + 1, Returns(cursor_m - 1), failed' = FALSE
      PROVE  RC!Fetch
  <2>1. Position = cursor_m - 1 /\ Position < N /\ Position' = Position + 1
    BY <1>0, <1>1, RowGiven
  <2> QED BY <1>1, <2>1, Numbers DEF RC!Fetch, Returns
<1>2. CASE HitOracle /\ failed' = FALSE
  <2>1. cursor_m - 1 \in Rows /\ rowmap_m[cursor_m].at = cursor_m - 1
    BY <1>0, <1>2, HitFacts DEF HitOracle
  <2>2. RC!Fetch
    BY <1>1, <1>2, <2>1 DEF HitOracle
  <2> QED BY <1>0, <2>2 DEF RC!Next
<1>3. CASE MissOracle /\ failed' = FALSE
  <2>1. cursor_m - 1 \in Rows /\ cursor_m' = cursor_m + 1 /\ Returns(cursor_m - 1)
    BY <1>3 DEF MissOracle, Fetched, Keep
  <2>2. RC!Fetch
    BY <1>1, <1>3, <2>1
  <2> QED BY <1>0, <2>2 DEF RC!Next
<1>4. CASE EndOracle /\ failed' = FALSE
  <2>1. Position = N
    BY <1>0, <1>4, PositionFacts, Numbers DEF EndOracle, Rows
  <2>2. Position' = N
    BY <1>0, <1>4, PositionAfter, Numbers DEF EndOracle, Rows
  <2>3. answer' = <<"FetchRow", NoRow>>
    BY <1>4 DEF EndOracle, Returns
  <2> QED BY <1>0, <1>4, <2>1, <2>2, <2>3 DEF RC!Next, RC!GiveNone
<1>5. CASE FailOracle
  <2>1. Position' = Position
    BY <1>0, <1>5 DEF FailOracle, Position
  <2>2. failed' = TRUE
    BY <1>5 DEF FailOracle
  <2> QED BY <1>0, <2>1, <2>2 DEF RC!Next, RC!Fail
<1>6. ASSUME NEW offset_ \in Offsets, SeekOracle(offset_), failed' = FALSE
      PROVE  RC!Seek(offset_)
  <2>1. offset_ \in Int /\ offset_ >= 0 /\ cursor_m' = AsInt(offset_ + 1) /\ answer' = <<"Seek", offset_>>
    BY <1>6, ResultAssumption DEF SeekOracle, ResultAssumption
  <2>2. ASSUME offset_ < IntMax + 1
        PROVE  Position' = IF offset_ < N THEN offset_ ELSE N
    <3>1. CASE offset_ < IntMax
      <4>1. cursor_m' = offset_ + 1 /\ cursor_m' - First' = offset_
        BY <1>0, <2>1, <3>1, AsIntFacts, Numbers
      <4> QED BY <1>0, <2>1, <4>1, PositionAfter, Numbers DEF Rows
    <3>2. CASE offset_ = IntMax
      <4>1. cursor_m' = -IntMax - 1 /\ cursor_m' - First' < 0
        BY <1>0, <2>1, <3>2, AsIntFacts, Numbers
      <4> QED BY <1>0, <3>2, <4>1, PositionAfter, Numbers DEF Rows
    <3> QED BY <2>1, <2>2, <3>1, <3>2, Numbers
  <2> QED BY <1>6, <2>1, <2>2, PositionAfter DEF RC!Seek
<1>7. ASSUME NEW offset_ \in Offsets, RC!Seek(offset_) PROVE RC!Next
  BY <1>0, <1>7 DEF RC!Next
<1> QED BY <1>2, <1>3, <1>4, <1>5, <1>6, <1>7 DEF Oracle, FetchOracle

\* A result set implements the abstract cursor: neither the cache nor an offset
\* that wraps can make FetchRow return a row out of turn.
THEOREM RowCursorImplemented == ResultSpec => ImplementsRowCursor
<1>1. ResultInit => RC!Init
  BY Numbers DEF ResultInit, RC!Init, Position, First, Rows
<1>2. ResultInv /\ ResultInv' /\ [ResultNext]_resultVars => [RC!Next]_<<driver, Position, IF failed THEN <<"error">> ELSE answer>>
  <2>1. UNCHANGED resultVars => UNCHANGED <<driver, Position, IF failed THEN <<"error">> ELSE answer>>
    BY DEF resultVars, Position, First, Cached
  <2> QED BY <2>1, MysqlStep, OracleStep DEF ResultNext
<1> QED BY <1>1, <1>2, ResultInvHolds, PTL DEF ResultSpec, ImplementsRowCursor, RC!Spec

\* A row once returned is in the cache for as long as the result set.
THEOREM RowsStayHolds == ResultSpec => RowsStay
<1> DEFINE Stays == \A k \in DOMAIN rowmap_m :
                      k \in DOMAIN rowmap_m' /\ rowmap_m'[k] = rowmap_m[k]
<1>1. ASSUME NEW row, ~Cached, Keep(row) PROVE Stays
  BY <1>1 DEF Keep, Cached
<1>2. [ResultNext]_resultVars => [Stays]_resultVars
  <2> SUFFICES ASSUME ResultNext PROVE Stays
    OBVIOUS
  <2>1. CASE MissMysql \/ MissOracle
    BY <2>1, <1>1 DEF MissMysql, MissOracle
  <2>2. CASE UNCHANGED rowmap_m
    BY <2>2
  <2> QED BY <2>1, <2>2 DEF ResultNext, Mysql, Oracle, FetchMysql, FetchOracle,
        HitMysql, EndMysql, SeekMysql, HitOracle, EndOracle, FailOracle, SeekOracle
<1> QED BY <1>2, PTL DEF ResultSpec, RowsStay
-----------------------------------------------------------------------------
(* The handles of the Oracle driver.                                         *)
\* What the local variables of a running call hold at each place.
Locals ==
  /\ call # "Prepare" => errhp = Null
  /\ at \in {"none", "error"} => errhp = Null
  /\ at \in {"none", "error", "stmt"} => stmthp = Null
  /\ at \in {"parse", "statement", "execute", "columns", "result", "count"} => stmthp # Null
  /\ at = "refused" => call \in Texts
  /\ call = "Prepare" /\ at \in {"stmt", "parse", "statement"} => errhp # Null
  /\ call \in Statements =>
       /\ at \in {"execute", "columns", "result", "count"}
       /\ stm \in Stms /\ stmthp = stmthp_m[stm]

\* Usable, and the same of the handles of the running call.
Held ==
  ~severed /\ ~undefined =>
    /\ \A o \in Existing :
         /\ cell[stmthp_m[o]] = "stmt" /\ cell[errhp_m[o]] = "error"
         /\ errhp # errhp_m[o]
         /\ call \notin Statements => stmthp # stmthp_m[o]
    /\ \A o, p \in Existing : o # p =>
         /\ errhp_m[p] # errhp_m[o]
         /\ stmthp_m[p] = stmthp_m[o] =>
              /\ {o, p} \ Stms # {}
              /\ \E s \in Stms : stmthp_m[s] = stmthp_m[o]
    /\ at \in {"parse", "statement", "execute", "columns", "result", "count"} =>
         cell[stmthp] = "stmt"
    /\ at = "catch" /\ stmthp # Null => cell[stmthp] = "stmt"
    /\ errhp # Null => cell[errhp] = "error"

\* The inductive invariant.
Inv == TypeOK /\ Locals /\ HandlesOwned /\ Held

-----------------------------------------------------------------------------
\* The invariant holds before the first call.
LEMMA InitInv == Init => Inv
<1> SUFFICES ASSUME Init PROVE Inv
  OBVIOUS
<1> USE OracleAssumption DEF Init, Objects, Pointers
<1>1. TypeOK
  BY DEF TypeOK
<1>2. Locals /\ HandlesOwned
  BY DEF Locals, HandlesOwned, Statements
<1>3. Existing = {}
  BY DEF Existing
<1>4. Held
  BY <1>3 DEF Held
<1>5. QED
  BY <1>1, <1>2, <1>4 DEF Inv

\* CallText preserves it.
LEMMA CallTextInv ==
  ASSUME Inv, NEW function \in Texts \cup {"Prepare"}, CallText(function) PROVE Inv'
<1> USE OracleAssumption DEF CallText, Idle, Texts, objects, Objects, Pointers
<1>1. TypeOK'
  BY DEF Inv, TypeOK, Locals, Texts, Statements, Existing
<1>2. Locals'
  BY DEF Inv, TypeOK, Locals, Texts, Statements
<1>3. HandlesOwned'
  BY DEF Inv, TypeOK, Locals, HandlesOwned, Texts, Statements
<1>4. Held'
  BY DEF Inv, TypeOK, Locals, Held, Existing, Texts, Statements
<1>5. QED
  BY <1>1, <1>2, <1>3, <1>4 DEF Inv

\* CallStatement preserves it.
LEMMA CallStatementInv ==
  ASSUME Inv, NEW function \in Statements, NEW s \in Stms, CallStatement(function, s) PROVE Inv'
<1> USE OracleAssumption DEF CallStatement, Idle, Statements, objects, Objects, Pointers
<1>1. TypeOK'
  BY DEF Inv, TypeOK, Locals, Texts, Statements, Existing
<1>2. Locals'
  BY DEF Inv, TypeOK, Locals, Texts, Statements
<1>3. HandlesOwned'
  BY DEF Inv, TypeOK, Locals, HandlesOwned, Texts, Statements
<1>4. Held'
  BY DEF Inv, TypeOK, Locals, Held, Existing, Texts, Statements
<1>5. QED
  BY <1>1, <1>2, <1>3, <1>4 DEF Inv

\* AllocError preserves it.
LEMMA AllocErrorInv ==
  ASSUME Inv, NEW h \in Handles, AllocError(h) PROVE Inv'
<1> USE OracleAssumption DEF AllocError, In, Alloc, objects, Objects, Pointers
<1>1. TypeOK'
  BY DEF Inv, TypeOK, Locals, Texts, Statements, Existing
<1>2. Locals'
  BY DEF Inv, TypeOK, Locals, Texts, Statements
<1>3. HandlesOwned'
  BY DEF Inv, TypeOK, Locals, HandlesOwned, Texts, Statements
<1>4. Held'
  BY DEF Inv, TypeOK, Locals, Held, Existing, Texts, Statements
<1>5. QED
  BY <1>1, <1>2, <1>3, <1>4 DEF Inv

\* AllocStmt preserves it.
LEMMA AllocStmtInv ==
  ASSUME Inv, NEW h \in Handles, AllocStmt(h) PROVE Inv'
<1> USE OracleAssumption DEF AllocStmt, In, Alloc, Texts, objects, Objects, Pointers
<1>1. TypeOK'
  BY DEF Inv, TypeOK, Locals, Texts, Statements, Existing
<1>2. Locals'
  BY DEF Inv, TypeOK, Locals, Texts, Statements
<1>3. HandlesOwned'
  BY DEF Inv, TypeOK, Locals, HandlesOwned, Texts, Statements
<1>4. Held'
  BY DEF Inv, TypeOK, Locals, Held, Existing, Texts, Statements
<1>5. QED
  BY <1>1, <1>2, <1>3, <1>4 DEF Inv

\* Parse preserves it.
LEMMA ParseInv ==
  ASSUME Inv, Parse PROVE Inv'
<1> USE OracleAssumption DEF Parse, In, GoTo, Texts, objects, Objects, Pointers
<1>1. TypeOK'
  BY DEF Inv, TypeOK, Locals, Texts, Statements, Existing
<1>2. Locals'
  BY DEF Inv, TypeOK, Locals, Texts, Statements
<1>3. HandlesOwned'
  BY DEF Inv, TypeOK, Locals, HandlesOwned, Texts, Statements
<1>4. Held'
  BY DEF Inv, TypeOK, Locals, Held, Existing, Texts, Statements
<1>5. QED
  BY <1>1, <1>2, <1>3, <1>4 DEF Inv

\* Executed preserves it.
LEMMA ExecutedInv ==
  ASSUME Inv, Executed PROVE Inv'
<1> USE OracleAssumption DEF Executed, In, GoTo, running, Texts, Statements, Queries, objects, Objects, Pointers
<1>1. TypeOK'
  BY DEF Inv, TypeOK, Locals, Texts, Statements, Existing
<1>2. Locals'
  BY DEF Inv, TypeOK, Locals, Texts, Statements
<1>3. HandlesOwned'
  BY DEF Inv, TypeOK, Locals, HandlesOwned, Texts, Statements
<1>4. Held'
  BY DEF Inv, TypeOK, Locals, Held, Existing, Texts, Statements
<1>5. QED
  BY <1>1, <1>2, <1>3, <1>4 DEF Inv

\* QueryNull preserves it.
LEMMA QueryNullInv ==
  ASSUME Inv, QueryNull PROVE Inv'
<1> USE OracleAssumption DEF QueryNull, In, Free, Return, objects, Objects, Pointers
<1>1. TypeOK'
  BY DEF Inv, TypeOK, Locals, Texts, Statements, Existing
<1>2. Locals'
  BY DEF Inv, TypeOK, Locals, Texts, Statements
<1>3. HandlesOwned'
  BY DEF Inv, TypeOK, Locals, HandlesOwned, Texts, Statements
<1>4. Held'
  BY DEF Inv, TypeOK, Locals, Held, Existing, Texts, Statements
<1>5. QED
  BY <1>1, <1>2, <1>3, <1>4 DEF Inv

\* ExecuteFails preserves it.
LEMMA ExecuteFailsInv ==
  ASSUME Inv, ExecuteFails PROVE Inv'
<1> USE OracleAssumption DEF ExecuteFails, In, Free, GoTo, Texts, objects, Objects, Pointers
<1>1. TypeOK'
  BY DEF Inv, TypeOK, Locals, Texts, Statements, Existing
<1>2. Locals'
  BY DEF Inv, TypeOK, Locals, Texts, Statements
<1>3. HandlesOwned'
  BY DEF Inv, TypeOK, Locals, HandlesOwned, Texts, Statements
<1>4. Held'
  BY DEF Inv, TypeOK, Locals, Held, Existing, Texts, Statements
<1>5. QED
  BY <1>1, <1>2, <1>3, <1>4 DEF Inv

\* StatementEnds preserves it.
LEMMA StatementEndsInv ==
  ASSUME Inv, StatementEnds PROVE Inv'
<1> USE OracleAssumption DEF StatementEnds, In, Return, Statements, objects, Objects, Pointers
<1>1. TypeOK'
  BY DEF Inv, TypeOK, Locals, Texts, Statements, Existing
<1>2. Locals'
  BY DEF Inv, TypeOK, Locals, Texts, Statements
<1>3. HandlesOwned'
  BY DEF Inv, TypeOK, Locals, HandlesOwned, Texts, Statements
<1>4. Held'
  BY DEF Inv, TypeOK, Locals, Held, Existing, Texts, Statements
<1>5. QED
  BY <1>1, <1>2, <1>3, <1>4 DEF Inv

\* FetchColumns preserves it.
LEMMA FetchColumnsInv ==
  ASSUME Inv, FetchColumns PROVE Inv'
<1> USE OracleAssumption DEF FetchColumns, In, GoTo, Queries, objects, Objects, Pointers
<1>1. TypeOK'
  BY DEF Inv, TypeOK, Locals, Texts, Statements, Existing
<1>2. Locals'
  BY DEF Inv, TypeOK, Locals, Texts, Statements
<1>3. HandlesOwned'
  BY DEF Inv, TypeOK, Locals, HandlesOwned, Texts, Statements
<1>4. Held'
  BY DEF Inv, TypeOK, Locals, Held, Existing, Texts, Statements
<1>5. QED
  BY <1>1, <1>2, <1>3, <1>4 DEF Inv

\* NoErrorHandle preserves it.
LEMMA NoErrorHandleInv ==
  ASSUME Inv, NoErrorHandle PROVE Inv'
<1> USE OracleAssumption DEF NoErrorHandle, In, running, Queries, objects, Objects, Pointers
<1>1. TypeOK'
  BY DEF Inv, TypeOK, Locals, Texts, Statements, Existing
<1>2. Locals'
  BY DEF Inv, TypeOK, Locals, Texts, Statements
<1>3. HandlesOwned'
  BY DEF Inv, TypeOK, Locals, HandlesOwned, Texts, Statements
<1>4. Held'
  BY DEF Inv, TypeOK, Locals, Held, Existing, Texts, Statements
<1>5. QED
  BY <1>1, <1>2, <1>3, <1>4 DEF Inv

\* RowCount preserves it.
LEMMA RowCountInv ==
  ASSUME Inv, RowCount PROVE Inv'
<1> USE OracleAssumption DEF RowCount, In, Free, Return, objects, Objects, Pointers
<1>1. TypeOK'
  BY DEF Inv, TypeOK, Locals, Texts, Statements, Existing
<1>2. Locals'
  BY DEF Inv, TypeOK, Locals, Texts, Statements
<1>3. HandlesOwned'
  BY DEF Inv, TypeOK, Locals, HandlesOwned, Texts, Statements
<1>4. Held'
  BY DEF Inv, TypeOK, Locals, Held, Existing, Texts, Statements
<1>5. QED
  BY <1>1, <1>2, <1>3, <1>4 DEF Inv

\* Throws preserves it.
LEMMA ThrowsInv ==
  ASSUME Inv, Throws PROVE Inv'
<1> USE OracleAssumption DEF Throws, In, GoTo, Texts, objects, Objects, Pointers
<1>1. TypeOK'
  BY DEF Inv, TypeOK, Locals, Texts, Statements, Existing
<1>2. Locals'
  BY DEF Inv, TypeOK, Locals, Texts, Statements
<1>3. HandlesOwned'
  BY DEF Inv, TypeOK, Locals, HandlesOwned, Texts, Statements
<1>4. Held'
  BY DEF Inv, TypeOK, Locals, Held, Existing, Texts, Statements
<1>5. QED
  BY <1>1, <1>2, <1>3, <1>4 DEF Inv

\* Catch preserves it.
LEMMA CatchInv ==
  ASSUME Inv, Catch PROVE Inv'
<1> USE OracleAssumption DEF Catch, Free, Return, objects, Objects, Pointers
<1>1. TypeOK'
  BY DEF Inv, TypeOK, Locals, Texts, Statements, Existing
<1>2. Locals'
  BY DEF Inv, TypeOK, Locals, Texts, Statements
<1>3. HandlesOwned'
  BY DEF Inv, TypeOK, Locals, HandlesOwned, Texts, Statements
<1>4. Held'
  BY DEF Inv, TypeOK, Locals, Held, Existing, Texts, Statements
<1>5. QED
  BY <1>1, <1>2, <1>3, <1>4 DEF Inv

\* MakeResult preserves it.
LEMMA MakeResultInv ==
  ASSUME Inv, NEW r \in Ress, NEW h \in Handles, MakeResult(r, h) PROVE Inv'
<1> USE OracleAssumption DEF MakeResult, In, Alloc, Return, Queries, objects, Objects, Pointers
<1>1. TypeOK'
  BY DEF Inv, TypeOK, Locals, Texts, Statements, Existing
<1>2. Locals'
  BY DEF Inv, TypeOK, Locals, Texts, Statements
<1>3. HandlesOwned'
  BY DEF Inv, TypeOK, Locals, HandlesOwned, Texts, Statements
<1>4. Held'
  BY DEF Inv, TypeOK, Locals, Held, Existing, Texts, Statements
<1>5. QED
  BY <1>1, <1>2, <1>3, <1>4 DEF Inv

\* MakeStatement preserves it.
LEMMA MakeStatementInv ==
  ASSUME Inv, NEW s \in Stms, MakeStatement(s) PROVE Inv'
<1> USE OracleAssumption DEF MakeStatement, In, Return, objects, Objects, Pointers
<1>1. TypeOK'
  BY DEF Inv, TypeOK, Locals, Texts, Statements, Existing
<1>2. Locals'
  BY DEF Inv, TypeOK, Locals, Texts, Statements
<1>3. HandlesOwned'
  BY DEF Inv, TypeOK, Locals, HandlesOwned, Texts, Statements
<1>4. Held'
  BY DEF Inv, TypeOK, Locals, Held, Existing, Texts, Statements
<1>5. QED
  BY <1>1, <1>2, <1>3, <1>4 DEF Inv

\* Delete preserves it.
LEMMA DeleteInv ==
  ASSUME Inv, NEW o \in Objects, Delete(o) PROVE Inv'
<1> USE OracleAssumption DEF Delete, Idle, Free, running, Shares, objects, Objects, Pointers
<1>1. TypeOK'
  BY DEF Inv, TypeOK, Locals, Texts, Statements, Existing
<1>2. Locals'
  BY DEF Inv, TypeOK, Locals, Texts, Statements
<1>3. HandlesOwned'
  BY DEF Inv, TypeOK, Locals, HandlesOwned, Texts, Statements
<1>4. Held'
  <2> SUFFICES ASSUME ~severed', ~undefined' PROVE Held'
    BY DEF Held
  <2>1. /\ ~severed /\ ~undefined /\ call = "none" /\ at = "none" /\ stmthp = Null /\ errhp = Null
        /\ \A p \in Existing \ {o} : stmthp_m[p] # stmthp_m[o]
    BY DEF Inv, TypeOK
  <2>2. Existing' = Existing \ {o}
    BY DEF Inv, TypeOK, Existing
  <2>3. \A p \in Existing' :
          /\ stmthp_m'[p] = stmthp_m[p] /\ errhp_m'[p] = errhp_m[p]
          /\ stmthp_m[p] \in Handles /\ errhp_m[p] \in Handles
    BY <2>2 DEF Inv, TypeOK, Existing
  <2>4. \A p \in Existing' :
          cell'[stmthp_m'[p]] = "stmt" /\ cell'[errhp_m'[p]] = "error"
    BY <2>1, <2>2, <2>3 DEF Inv, TypeOK, Held
  <2>5. \A s \in Stms, p \in Existing' : stmthp_m[s] = stmthp_m[p] => s \in Existing'
    BY <2>1, <2>2, <2>3 DEF Existing
  <2>6. \A p, q \in Existing' : p # q =>
          /\ errhp_m'[q] # errhp_m'[p]
          /\ stmthp_m'[q] = stmthp_m'[p] =>
               /\ {p, q} \ Stms # {}
               /\ \E s \in Stms : stmthp_m'[s] = stmthp_m'[p]
    BY <2>1, <2>2, <2>3, <2>5 DEF Inv, Held
  <2>7. QED
    BY <2>1, <2>3, <2>4, <2>6 DEF Held
<1>5. QED
  BY <1>1, <1>2, <1>3, <1>4 DEF Inv

\* Free of a result preserves it.
LEMMA FreeResultInv ==
  ASSUME Inv, NEW o \in Ress, FreeResult(o) PROVE Inv'
<1> USE OracleAssumption DEF FreeResult, Idle, Free, running, objects, Objects, Pointers
<1>1. TypeOK'
  BY DEF Inv, TypeOK, Locals, Texts, Statements, Existing
<1>2. Locals'
  BY DEF Inv, TypeOK, Locals, Texts, Statements
<1>3. HandlesOwned'
  BY DEF Inv, TypeOK, Locals, HandlesOwned, Texts, Statements
<1>4. Held'
  BY DEF Held
<1>5. QED
  BY <1>1, <1>2, <1>3, <1>4 DEF Inv

\* A call that uses the connection preserves it.
LEMMA UseConnectionInv ==
  ASSUME Inv, UseConnection PROVE Inv'
<1> USE OracleAssumption DEF UseConnection, Idle, running, objects
<1>1. TypeOK'
  BY DEF Inv, TypeOK, Objects, Pointers
<1>2. Locals'
  BY DEF Inv, Locals
<1>3. HandlesOwned'
  BY DEF Inv, HandlesOwned
<1>4. Held'
  BY DEF Inv, Held, Existing, Objects
<1>5. QED
  BY <1>1, <1>2, <1>3, <1>4 DEF Inv

\* Use preserves it.
LEMMA UseInv ==
  ASSUME Inv, NEW o \in Objects, Use(o) PROVE Inv'
<1> USE OracleAssumption DEF Use, Idle, running, objects, Objects, Pointers
<1>1. TypeOK'
  BY DEF Inv, TypeOK, Locals, Texts, Statements, Existing
<1>2. Locals'
  BY DEF Inv, TypeOK, Locals, Texts, Statements
<1>3. HandlesOwned'
  BY DEF Inv, TypeOK, Locals, HandlesOwned, Texts, Statements
<1>4. Held'
  BY DEF Inv, TypeOK, Locals, Held, Existing, Texts, Statements
<1>5. QED
  BY <1>1, <1>2, <1>3, <1>4 DEF Inv

\* Disconnect preserves it.
LEMMA DisconnectInv ==
  ASSUME Inv, Disconnect PROVE Inv'
<1> USE OracleAssumption DEF Disconnect, Idle, running, objects, Objects, Pointers
<1>1. TypeOK'
  BY DEF Inv, TypeOK, Locals, Texts, Statements, Existing
<1>2. Locals'
  BY DEF Inv, TypeOK, Locals, Texts, Statements
<1>3. HandlesOwned'
  BY DEF Inv, TypeOK, Locals, HandlesOwned, Texts, Statements
<1>4. Held'
  BY DEF Inv, TypeOK, Locals, Held, Existing, Texts, Statements
<1>5. QED
  BY <1>1, <1>2, <1>3, <1>4 DEF Inv

-----------------------------------------------------------------------------
\* Every step preserves the invariant.
LEMMA StepInv == Inv /\ [Next]_vars => Inv'
<1> SUFFICES ASSUME Inv, [Next]_vars PROVE Inv'
  OBVIOUS
<1>1. CASE UNCHANGED vars
  BY <1>1 DEF vars, objects, running, Inv, TypeOK, Locals, HandlesOwned, Held, Existing
<1>2. CASE \E function \in Texts \cup {"Prepare"} : CallText(function)
  BY <1>2, CallTextInv
<1>3. CASE \E function \in Statements, s \in Stms : CallStatement(function, s)
  BY <1>3, CallStatementInv
<1>4. CASE \E h \in Handles : AllocError(h) \/ AllocStmt(h)
  BY <1>4, AllocErrorInv, AllocStmtInv
<1>5. CASE Parse \/ Executed \/ QueryNull \/ ExecuteFails \/ StatementEnds
  BY <1>5, ParseInv, ExecutedInv, QueryNullInv, ExecuteFailsInv, StatementEndsInv
<1>6. CASE FetchColumns \/ NoErrorHandle \/ RowCount \/ Throws \/ Catch
  BY <1>6, FetchColumnsInv, NoErrorHandleInv, RowCountInv, ThrowsInv, CatchInv
<1>7. CASE \E r \in Ress, h \in Handles : MakeResult(r, h)
  BY <1>7, MakeResultInv
<1>8. CASE \E s \in Stms : MakeStatement(s) \/ DeleteStatement(s)
  BY <1>8, MakeStatementInv, DeleteInv DEF DeleteStatement, Objects
<1>9. CASE \E r \in Ress : DeleteResult(r) \/ FreeResult(r)
  BY <1>9, DeleteInv, FreeResultInv DEF DeleteResult, Objects
<1>10. CASE \E o \in Objects : Use(o)
  BY <1>10, UseInv
<1>11. CASE Connect \/ EndTransaction \/ Disconnect
  BY <1>11, UseConnectionInv, DisconnectInv DEF Connect, EndTransaction
<1>12. QED
  BY <1>1, <1>2, <1>3, <1>4, <1>5, <1>6, <1>7, <1>8, <1>9, <1>10, <1>11 DEF Next

\* Memory that is not allocated is freed or used in the four known cases only.
LEMMA StepKnown ==
  Inv /\ [Next]_vars /\ ~undefined /\ undefined' =>
    severed' \/ ~connected \/ at \in {"result", "refused"}
<1> SUFFICES ASSUME Inv, Next, ~undefined, undefined', ~severed', connected
             PROVE at \in {"result", "refused"}
  BY DEF vars
<1> USE OracleAssumption DEF In, Idle, Texts, Statements, Queries, Pointers
<1>1. CASE \E function \in Texts \cup {"Prepare"} : CallText(function)
  BY <1>1 DEF CallText
<1>2. CASE \E function \in Statements, s \in Stms : CallStatement(function, s)
  BY <1>2 DEF CallStatement
<1>3. CASE \E h \in Handles : AllocError(h) \/ AllocStmt(h)
  BY <1>3 DEF AllocError, AllocStmt
<1>4. CASE Parse \/ FetchColumns \/ Throws
  BY <1>4 DEF Parse, FetchColumns, Throws
<1>5. CASE Executed
  BY <1>5 DEF Executed, Inv, Held
<1>6. CASE QueryNull \/ ExecuteFails \/ RowCount
  BY <1>6 DEF QueryNull, ExecuteFails, RowCount, Free, Inv, Held
<1>7. CASE StatementEnds
  BY <1>7 DEF StatementEnds, Inv, Held
<1>8. CASE NoErrorHandle
  BY <1>8 DEF NoErrorHandle
<1>9. CASE Catch
  <2>1. CASE at = "catch"
    BY <1>9, <2>1 DEF Catch, Free, Inv, Held
  <2>2. QED
    BY <1>9, <2>1 DEF Catch
<1>10. CASE \E r \in Ress, h \in Handles : MakeResult(r, h)
  BY <1>10 DEF MakeResult
<1>11. CASE \E s \in Stms : MakeStatement(s)
  BY <1>11 DEF MakeStatement
<1>12. CASE \E o \in Objects : Delete(o)
  <2>1. PICK o \in Objects : Delete(o)
    BY <1>12
  <2>2. o \in Existing /\ ~severed
    BY <2>1 DEF Delete
  <2>3. cell[stmthp_m[o]] = "stmt" /\ cell[errhp_m[o]] = "error"
    BY <2>2 DEF Inv, Held
  <2>4. QED
    BY <2>1, <2>3 DEF Delete, Free
<1>13. CASE \E o \in Objects : Use(o)
  <2>1. PICK o \in Objects : Use(o)
    BY <1>13
  <2>2. o \in Existing /\ ~severed
    BY <2>1 DEF Use
  <2>3. cell[stmthp_m[o]] = "stmt" /\ cell[errhp_m[o]] = "error"
    BY <2>2 DEF Inv, Held
  <2>4. QED
    BY <2>1, <2>3 DEF Use
<1>14. CASE Disconnect \/ Connect \/ EndTransaction \/ \E r \in Ress : FreeResult(r)
  BY <1>14 DEF Disconnect, Connect, EndTransaction, UseConnection, FreeResult
<1>15. QED
  BY <1>1, <1>2, <1>3, <1>4, <1>5, <1>6, <1>7, <1>8, <1>9, <1>10, <1>11, <1>12, <1>13, <1>14
     DEF Next, DeleteStatement, DeleteResult, Objects

-----------------------------------------------------------------------------
(* The connections.                                                        *)

\* The places of a constructor.
Places == Kinds \cup Between \cup
  {"none", "exists", "closed", "lost", "save", "catch", "attribute", "login"}

\* The handles that a constructor has allocated at each place.
Stage(place, handles) ==
  /\ place \in {"none", "closed", "env"} => handles = {}
  /\ place = "error" => handles = {"env"}
  /\ place = "server" => handles = {"env", "error"}
  /\ place = "service" => handles = {"env", "error", "server"}
  /\ place \in Between \cup {"save", "catch", "attribute", "session"} =>
       handles = {"env", "error", "server", "service"}
  /\ place = "login" => handles = Kinds
  /\ place = "exists" => handles = Kinds \/ handles = Kinds \cup Lost

Stages == \A d \in Drivers : Stage(built[d], held[d])

\* Our driver is called while it exists, and has no handles otherwise; a call after
\* that is undefined at once.
Called ==
  /\ built[Ours] = "closed" <=> ~connected
  /\ built[Ours] # "exists" => /\ call = "none" \/ undefined
                               /\ \A h \in Handles : cell[h] = "free"

\* One constructor at a time has taken the place of the program's handler.
Handled ==
  ~overlapped =>
    /\ \A d, e \in Drivers : built[d] \in Between /\ built[e] \in Between => d = e
    /\ \A d \in Drivers : built[d] \in Between => old_act[d] = "program"
    /\ (\A d \in Drivers : built[d] \notin Between) => handler = "program"

\* The inductive invariant of the driver.
DInv == Inv /\ DriverTypeOK /\ Stages /\ Called /\ Handled

\* It holds before the first constructor.
LEMMA DriverInitInv == DriverInit => DInv
<1> SUFFICES ASSUME DriverInit PROVE DInv
  OBVIOUS
<1>1. Inv
  BY InitInv DEF DriverInit
<1>2. DriverTypeOK
  BY DEF DriverInit, DriverTypeOK
<1>3. Stages /\ Called /\ Handled
  BY DriverAssumption DEF DriverInit, Init, Stages, Stage, Called, Handled, Between
<1>4. QED
  BY <1>1, <1>2, <1>3 DEF DInv

\* The steps of the constructors change nothing that OracleHandles describes.
LEMMA DriverStep == DriverNext => (Next \/ UNCHANGED vars)
  BY DEF DriverNext, Next, Construct, AllocConnection, SetServer, Login, ConstructorThrows, Save, Attach,
         Restore, CatchAttach, DisconnectOther, Calls

\* A call of our driver keeps Called.
LEMMA CallsCalled ==
  ASSUME DInv, Calls PROVE Called'
<1> USE OracleAssumption, DriverAssumption DEF Idle, In, Texts, Statements
<1>1. built[Ours] \in {"exists", "closed"} /\ built'[Ours] = IF connected' THEN built[Ours] ELSE "closed"
  BY DEF DInv, DriverTypeOK, Calls
<1>2. connected' => connected
  BY DEF Calls, Next, CallText, CallStatement, AllocError, AllocStmt, Parse, Executed, QueryNull,
         ExecuteFails, StatementEnds, FetchColumns, NoErrorHandle, RowCount, Throws, Catch, MakeResult,
         MakeStatement, DeleteStatement, DeleteResult, Delete, Use, Disconnect, FreeResult, Connect,
         EndTransaction, UseConnection
<1>3. built'[Ours] = "closed" <=> ~connected'
  BY <1>1, <1>2 DEF DInv, Called
<1>4. ASSUME ~connected'
      PROVE (call' = "none" \/ undefined') /\ \A h \in Handles : cell'[h] = "free"
  <2>1. CASE connected
    <3>1. Disconnect
      BY <1>4, <2>1 DEF Calls, Next, CallText, CallStatement, AllocError, AllocStmt, Parse, Executed,
         QueryNull, ExecuteFails, StatementEnds, FetchColumns, NoErrorHandle, RowCount, Throws, Catch,
         MakeResult, MakeStatement, DeleteStatement, DeleteResult, Delete, Use, FreeResult, Connect,
         EndTransaction, UseConnection
    <3>2. QED
      BY <3>1 DEF Disconnect, running
  <2>2. CASE ~connected
    <3>1. /\ \A h \in Handles : cell[h] = "free"
          /\ call = "none" \/ undefined
          /\ call = "none" => at = "none"
      BY <2>2 DEF DInv, Called, Inv, TypeOK
    <3>2. \/ \E f \in Texts \cup {"Prepare"} : CallText(f)
          \/ \E f \in Statements, m \in Stms : CallStatement(f, m)
          \/ Disconnect \/ UseConnection
          \/ \E o \in Objects : Delete(o) \/ Use(o) \/ FreeResult(o)
      BY <2>2, <3>1 DEF Calls, Next, AllocError, AllocStmt, Parse, Executed,
         QueryNull, ExecuteFails, StatementEnds, FetchColumns, NoErrorHandle, RowCount, Throws, Catch,
         MakeResult, MakeStatement, DeleteStatement, DeleteResult, Objects, Connect, EndTransaction
    <3>3. CASE \/ \E f \in Texts \cup {"Prepare"} : CallText(f)
               \/ \E f \in Statements, m \in Stms : CallStatement(f, m)
      BY <2>2, <3>1, <3>3 DEF CallText, CallStatement
    <3>4. CASE \/ Disconnect \/ UseConnection
               \/ \E o \in Objects : Delete(o) \/ Use(o) \/ FreeResult(o)
      BY <3>1, <3>4 DEF Disconnect, UseConnection, Delete, Free, Use, FreeResult, running
    <3>5. QED
      BY <3>2, <3>3, <3>4
  <2>3. QED
    BY <2>1, <2>2
<1>5. QED
  BY <1>1, <1>3, <1>4 DEF Called

\* Every step preserves the driver's invariant.
LEMMA DriverStepInv == DInv /\ [DriverNext]_driverVars => DInv'
<1> SUFFICES ASSUME DInv, [DriverNext]_driverVars PROVE DInv'
  OBVIOUS
<1> USE DriverAssumption DEF Kinds, Between, Lost
<1>1. Inv'
  BY DriverStep, StepInv DEF DInv, driverVars
<1>2. CASE UNCHANGED driverVars
  <2>1. UNCHANGED connection /\ UNCHANGED <<cell, running, connected, undefined>>
    BY <1>2 DEF driverVars, vars
  <2>2. DriverTypeOK' /\ Stages'
    BY <2>1 DEF connection, DInv, DriverTypeOK, Stages, Stage
  <2>3. Called'
    BY <2>1 DEF connection, running, DInv, Called
  <2>4. Handled'
    BY <2>1 DEF connection, DInv, Handled
  <2>5. QED
    BY <1>1, <2>2, <2>3, <2>4 DEF DInv
<1>3. CASE Calls
  <2>1. /\ built' = [built EXCEPT ![Ours] = IF connected' THEN @ ELSE "closed"]
        /\ UNCHANGED <<old_act, handler, overlapped>>
        /\ built[Ours] \in {"exists", "closed"}
    BY <1>3 DEF Calls
  <2>2. /\ built \in [Drivers -> Places] /\ held \in [Drivers -> SUBSET (Kinds \cup Lost)]
        /\ \A d \in Drivers : Stage(built[d], held[d])
    BY DEF DInv, DriverTypeOK, Stages, Places
  <2>3. PICK h \in SUBSET (Kinds \cup Lost) :
          /\ held' = [held EXCEPT ![Ours] = h]
          /\ Stage(IF connected' THEN built[Ours] ELSE "closed", h)
    <3>1. CASE Next /\ held' = [held EXCEPT ![Ours] = IF connected' THEN @ ELSE {}]
      BY <2>1, <2>2, <3>1 DEF Stage
    <3>2. CASE connected /\ Connect /\ held' = [held EXCEPT ![Ours] = @ \cup Lost]
      <4>1. connected' = connected /\ built[Ours] = "exists"
        BY <2>1, <3>2 DEF Connect, UseConnection, DInv, Called
      <4>2. held[Ours] \cup Lost = Kinds \cup Lost
        BY <2>2, <4>1 DEF Stage
      <4> QED BY <3>2, <4>1, <4>2 DEF Stage
    <3> QED BY <1>3, <3>1, <3>2 DEF Calls
  <2>4. DriverTypeOK' /\ Stages'
    <3>1. /\ \A d \in Drivers \ {Ours} : built'[d] = built[d] /\ held'[d] = held[d]
          /\ built'[Ours] = IF connected' THEN built[Ours] ELSE "closed"
          /\ held'[Ours] = h
      BY <2>1, <2>2, <2>3
    <3>2. Stages'
      BY <2>2, <2>3, <3>1 DEF Stages
    <3>3. built' \in [Drivers -> Places] /\ held' \in [Drivers -> SUBSET (Kinds \cup Lost)]
      BY <2>1, <2>2, <2>3 DEF Places
    <3> QED BY <2>1, <3>2, <3>3 DEF DInv, DriverTypeOK, Places
  <2>5. Handled'
    <3>1. \A d \in Drivers : built'[d] \in Between <=> built[d] \in Between
      BY <2>1, <2>2
    <3>2. QED
      BY <2>1, <3>1 DEF DInv, Handled
  <2>6. QED
    BY <1>1, <1>3, <2>4, <2>5, CallsCalled DEF DInv
<1>4. ASSUME NEW d \in Drivers,
             \/ Construct(d) \/ AllocConnection(d) \/ SetServer(d) \/ Login(d) \/ ConstructorThrows(d)
             \/ Save(d) \/ Attach(d) \/ Restore(d) \/ CatchAttach(d) \/ DisconnectOther(d)
      PROVE DInv'
  <2> USE DEF At
  <2>1. UNCHANGED vars
    BY <1>4 DEF Construct, AllocConnection, SetServer, Login, ConstructorThrows, Save, Attach,
                Restore, CatchAttach, DisconnectOther
  <2>2. DOMAIN built = Drivers /\ DOMAIN held = Drivers /\ DOMAIN old_act = Drivers
    BY DEF DInv, DriverTypeOK
  <2>3. DriverTypeOK' /\ Stages'
    <3>1. built \in [Drivers -> Places] /\ held \in [Drivers -> SUBSET (Kinds \cup Lost)]
      BY DEF DInv, DriverTypeOK, Places
    <3>2. Stage(built[d], held[d])
      BY DEF DInv, Stages
    <3>3. /\ \A e \in Drivers \ {d} : built'[e] = built[e] /\ held'[e] = held[e]
          /\ built'[d] \in Places /\ held'[d] \in SUBSET (Kinds \cup Lost)
          /\ built' = [e \in Drivers |-> built'[e]] /\ held' = [e \in Drivers |-> held'[e]]
          /\ Stage(built'[d], held'[d])
      <4>1. CASE Construct(d)
        BY <3>1, <3>2, <4>1 DEF Construct, Stage, Places
      <4>2. CASE AllocConnection(d)
        <5>1. built[d] \in Kinds /\ held'[d] = held[d] \cup {built[d]}
              /\ held' = [held EXCEPT ![d] = held[d] \cup {built[d]}]
          BY <3>1, <4>2 DEF AllocConnection
        <5>2. ASSUME At(d, "env", "error")
             PROVE built'[d] \in Places /\ Stage(built'[d], held'[d])
                   /\ built' = [built EXCEPT ![d] = "error"]
          BY <3>1, <3>2, <5>1, <5>2 DEF Stage, Places
        <5>3. ASSUME At(d, "error", "server")
             PROVE built'[d] \in Places /\ Stage(built'[d], held'[d])
                   /\ built' = [built EXCEPT ![d] = "server"]
          BY <3>1, <3>2, <5>1, <5>3 DEF Stage, Places
        <5>4. ASSUME At(d, "server", "service")
             PROVE built'[d] \in Places /\ Stage(built'[d], held'[d])
                   /\ built' = [built EXCEPT ![d] = "service"]
          BY <3>1, <3>2, <5>1, <5>4, ZenonT(40) DEF Stage, Places
        <5>5. ASSUME At(d, "service", "save")
             PROVE built'[d] \in Places /\ Stage(built'[d], held'[d])
                   /\ built' = [built EXCEPT ![d] = "save"]
          BY <3>1, <3>2, <5>1, <5>5, ZenonT(40) DEF Stage, Places
        <5>6. ASSUME At(d, "session", "login")
             PROVE built'[d] \in Places /\ Stage(built'[d], held'[d])
                   /\ built' = [built EXCEPT ![d] = "login"]
          BY <3>1, <3>2, <5>1, <5>6, ZenonT(40) DEF Stage, Places
        <5>7. PICK place : built' = [built EXCEPT ![d] = place]
                           /\ built'[d] \in Places /\ Stage(built'[d], held'[d])
          BY <4>2, <5>2, <5>3, <5>4, <5>5, <5>6 DEF AllocConnection
        <5>8. QED
          BY <3>1, <5>1, <5>7
      <4>3. CASE SetServer(d)
        BY <3>1, <3>2, <4>3 DEF SetServer, Stage, Places
      <4>4. CASE Login(d)
        BY <3>1, <3>2, <4>4 DEF Login, Stage, Places
      <4>5. CASE ConstructorThrows(d)
        BY <3>1, <3>2, <4>5 DEF ConstructorThrows, Stage, Places
      <4>6. CASE Save(d)
        BY <3>1, <3>2, <4>6 DEF Save, Stage, Places
      <4>7. CASE Attach(d)
        BY <3>1, <3>2, <4>7, ZenonT(40) DEF Attach, Stage, Places
      <4>8. CASE Restore(d)
        BY <3>1, <3>2, <4>8, ZenonT(40) DEF Restore, Stage, Places
      <4>9. CASE CatchAttach(d)
        BY <3>1, <3>2, <4>9 DEF CatchAttach, Stage, Places
      <4>10. CASE DisconnectOther(d)
        BY <3>1, <3>2, <4>10 DEF DisconnectOther, Stage, Places
      <4>11. QED
        BY <1>4, <4>1, <4>2, <4>3, <4>4, <4>5, <4>6, <4>7, <4>8, <4>9, <4>10
    <3>4. built' \in [Drivers -> Places] /\ held' \in [Drivers -> SUBSET (Kinds \cup Lost)]
      BY <3>1, <3>3
    <3>5. old_act' \in [Drivers -> {"program", "oracle"}] /\ handler' \in {"program", "oracle"}
          /\ overlapped' \in BOOLEAN
      BY <1>4 DEF DInv, DriverTypeOK, Construct, AllocConnection, SetServer, Login,
                  ConstructorThrows, Save, Attach, Restore, CatchAttach, DisconnectOther
    <3>6. QED
      BY <3>3, <3>4, <3>5 DEF DInv, DriverTypeOK, Stages, Places
  <2>4. Called'
    <3>1. UNCHANGED <<call, cell, connected, undefined>>
      BY <2>1 DEF vars, running
    <3>2. built'[Ours] = "closed" <=> built[Ours] = "closed"
      BY <1>4, <2>2 DEF Construct, AllocConnection, SetServer, Login,
                  ConstructorThrows, Save, Attach, Restore, CatchAttach, DisconnectOther
    <3>3. built'[Ours] # "exists" => built[Ours] # "exists"
      BY <1>4, <2>2 DEF Construct, AllocConnection, SetServer, Login,
                  ConstructorThrows, Save, Attach, Restore, CatchAttach, DisconnectOther
    <3>4. QED
      BY <3>1, <3>2, <3>3 DEF DInv, Called
  <2>5. Handled'
    <3>1. CASE Save(d)
      BY <3>1, ZenonT(40) DEF DInv, DriverTypeOK, Handled, Save
    <3>2. CASE Attach(d)
      BY <3>2, ZenonT(40) DEF DInv, DriverTypeOK, Handled, Attach
    <3>3. CASE Restore(d)
      BY <3>3, ZenonT(40) DEF DInv, DriverTypeOK, Handled, Restore
    <3>4. CASE \/ Construct(d) \/ AllocConnection(d) \/ SetServer(d) \/ Login(d)
               \/ ConstructorThrows(d) \/ CatchAttach(d) \/ DisconnectOther(d)
      <4>1. \A e \in Drivers : built'[e] \in Between <=> built[e] \in Between
        BY <2>2, <3>4 DEF Construct, AllocConnection, SetServer, Login, ConstructorThrows,
                    CatchAttach, DisconnectOther
      <4>2. UNCHANGED <<old_act, handler, overlapped>>
        BY <3>4 DEF Construct, AllocConnection, SetServer, Login, ConstructorThrows, CatchAttach,
                    DisconnectOther
      <4>3. QED
        BY <4>1, <4>2 DEF DInv, Handled
    <3>5. QED
      BY <1>4, <3>1, <3>2, <3>3, <3>4
  <2>6. QED
    BY <1>1, <2>3, <2>4, <2>5 DEF DInv
<1>5. QED
  BY <1>2, <1>3, <1>4 DEF DriverNext

-----------------------------------------------------------------------------
\* The invariant of the driver holds for ever.
THEOREM DriverInvariant == DriverSpec => []DInv
  BY DriverInitInv, DriverStepInv, PTL DEF DriverSpec

\* The type invariants of the handles and of the connections.
THEOREM TypeCorrect == DriverSpec => [](TypeOK /\ DriverTypeOK)
<1>1. DInv => TypeOK /\ DriverTypeOK
  BY DEF DInv, Inv
<1>2. QED
  BY <1>1, DriverInvariant, PTL

\* Whatever fails, a handle belongs to an object or to the running call.
THEOREM HandlesOwnedHolds == DriverSpec => []HandlesOwned
<1>1. DInv => HandlesOwned
  BY DEF DInv, Inv
<1>2. QED
  BY <1>1, DriverInvariant, PTL

\* No call takes the handles of an object away.
THEOREM UsableHolds == DriverSpec => []Usable
<1>1. DInv => Usable
  BY DEF DInv, Inv, Held, Usable
<1>2. QED
  BY <1>1, DriverInvariant, PTL

\* A failed constructor or a closed connection leaves no handle allocated, but for
\* those that a constructor loses outside of its try block.
THEOREM ConnectionOwnedHolds == DriverSpec => []ConnectionOwned
<1>1. DInv => ConnectionOwned
  BY DriverAssumption DEF DInv, DriverTypeOK, Stages, Stage, Called, ConnectionOwned, Kinds, Lost
<1>2. QED
  BY <1>1, DriverInvariant, PTL

\* Oracle's handler of SIGINT does not stay behind.
THEOREM HandlerRestoredHolds == DriverSpec => []HandlerRestored
<1>1. DInv => HandlerRestored
  BY DEF DInv, Handled, HandlerRestored
<1>2. QED
  BY <1>1, DriverInvariant, PTL

\* Memory that is not the driver's own is freed or used in the four known cases only.
THEOREM UndefinedIsKnownHolds == DriverSpec => UndefinedIsKnown
<1>1. DInv /\ [DriverNext]_driverVars =>
        [~undefined /\ undefined' =>
           severed' \/ ~connected \/ at \in {"result", "refused"}]_vars
  BY DriverStep, StepKnown DEF DInv, driverVars
<1>2. QED
  BY <1>1, DriverInvariant, PTL DEF DriverSpec, UndefinedIsKnown
=============================================================================
