--------------------------- MODULE OracleHandles ---------------------------
(***************************************************************************)
(* Who owns the OCI handles of the Oracle driver                            *)
(* (src/src/MDB/MDBDriver_Oracle.cpp): Prepare, Query and Execute allocate  *)
(* them, MDBStatement_Oracle and MDBResult_Oracle free them, and each of    *)
(* the many ways in which a call can fail has to free what the call has     *)
(* made so far, once.  A call is a sequence of steps, one for each call of  *)
(* OCI that can fail.  The memory of a handle that was freed is reused.     *)
(***************************************************************************)
EXTENDS FiniteSets

CONSTANTS
  Stms,         \* the places of the program's MDBStatement objects
  Ress,         \* the places of its MDBResult objects
  Handles,      \* the memory handles are allocated in
  Null,
  FreeAgain     \* a bound, when FALSE: Free is called only while no object has
                \* handles that were freed

ASSUME OracleAssumption ==
  /\ Null \notin Handles
  /\ Stms \cap Ress = {}

VARIABLES
  cell,         \* what is allocated in each handle: "stmt", "error" or "free"
  stmthp_m,     \* the statement handle of each object, Null if it does not exist
  errhp_m,      \* its error handle
  call,         \* the member function of the driver that is running
  at,           \* where it is
  stm,          \* the MDBStatement it was given
  stmthp,       \* its local variables
  errhp,
  connected,    \* Disconnect was not called
  severed,      \* handles were freed that an object still has: by the deletion of
                \* another, by Free of a result, or with the connection
  undefined     \* a handle was freed or used that is not allocated as such

objects == <<stmthp_m, errhp_m>>
running == <<call, at, stm, stmthp, errhp>>
vars == <<cell, objects, running, connected, severed, undefined>>

Objects == Stms \cup Ress
Pointers == Handles \cup {Null}
Existing == {o \in Objects : stmthp_m[o] # Null}

TypeOK ==
  /\ cell \in [Handles -> {"free", "stmt", "error"}]
  /\ stmthp_m \in [Objects -> Pointers] /\ errhp_m \in [Objects -> Pointers]
  /\ \A o \in Objects : stmthp_m[o] = Null <=> errhp_m[o] = Null
  /\ call \in {"none", "Prepare", "Query", "Execute", "QueryStm", "ExecuteStm"}
  /\ at \in {"none", "error", "stmt", "parse", "statement", "execute", "columns", "result",
            "count", "refused", "catch"}
  /\ (call = "none" <=> at = "none") /\ (call = "none" => stmthp = Null /\ errhp = Null)
  /\ stm \in Stms \cup {Null}
  /\ stmthp \in Pointers /\ errhp \in Pointers
  /\ connected \in BOOLEAN /\ severed \in BOOLEAN /\ undefined \in BOOLEAN

Init ==
  /\ cell = [h \in Handles |-> "free"]
  /\ stmthp_m = [o \in Objects |-> Null] /\ errhp_m = [o \in Objects |-> Null]
  /\ call = "none" /\ at = "none" /\ stm = Null /\ stmthp = Null /\ errhp = Null
  /\ connected = TRUE /\ severed = FALSE /\ undefined = FALSE
-----------------------------------------------------------------------------
Idle == call = "none" /\ ~undefined
In(functions, place) == call \in functions /\ at = place /\ ~undefined

Texts == {"Query", "Execute"}             \* given SQL, they free the handle
Statements == {"QueryStm", "ExecuteStm"}  \* given an MDBStatement
Queries == {"Query", "QueryStm"}

\* OCIHandleAlloc, when it does not fail.
Alloc(h, kind) == cell[h] = "free" /\ cell' = [cell EXCEPT ![h] = kind]

\* OCIHandleFree, of the pointers that are not Null.
Free(stmts, errors) ==
  /\ cell' = [h \in Handles |-> IF h \in stmts \cup errors THEN "free" ELSE cell[h]]
  /\ undefined' = \/ \E h \in stmts \ {Null} : cell[h] # "stmt"
                  \/ \E h \in errors \ {Null} : cell[h] # "error"

GoTo(place) == at' = place /\ UNCHANGED <<call, stm, stmthp, errhp>>
Return ==
  call' = "none" /\ at' = "none" /\ stm' = Null /\ stmthp' = Null /\ errhp' = Null
-----------------------------------------------------------------------------
\* The program calls Prepare, Query or Execute with SQL, or one of the latter
\* with an MDBStatement.  None of them looks whether Disconnect was called: the
\* first thing each does is to hand the driver's own handles to OCI.
CallText(function) ==
  /\ Idle /\ undefined' = ~connected
  /\ call' = function /\ at' = IF function = "Prepare" THEN "error" ELSE "stmt"
  /\ UNCHANGED <<cell, objects, stm, stmthp, errhp, connected, severed>>

CallStatement(function, s) ==
  /\ Idle /\ undefined' = ~connected /\ stmthp_m[s] # Null
  /\ call' = function /\ at' = "execute" /\ stm' = s /\ stmthp' = stmthp_m[s]
  /\ UNCHANGED <<cell, objects, errhp, connected, severed>>

\* Prepare allocates the error handle of its MDBStatement first.
AllocError(h) ==
  /\ In({"Prepare"}, "error") /\ Alloc(h, "error")
  /\ errhp' = h /\ at' = "stmt"
  /\ UNCHANGED <<objects, call, stm, stmthp, connected, severed, undefined>>

AllocStmt(h) ==
  /\ In(Texts \cup {"Prepare"}, "stmt") /\ Alloc(h, "stmt")
  /\ stmthp' = h /\ at' = "parse"
  /\ UNCHANGED <<objects, call, stm, errhp, connected, severed, undefined>>

\* OCIStmtPrepare
Parse ==
  /\ In(Texts \cup {"Prepare"}, "parse")
  /\ GoTo(IF call = "Prepare" THEN "statement" ELSE "execute")
  /\ UNCHANGED <<cell, objects, connected, severed, undefined>>

\* OCIStmtExecute returns OCI_SUCCESS or, in both Execute functions,
\* OCI_SUCCESS_WITH_INFO.
Executed ==
  /\ In(Texts \cup Statements, "execute")
  /\ IF cell[stmthp] = "stmt"
     THEN GoTo(IF call \in Queries THEN "columns" ELSE "count") /\ UNCHANGED undefined
     ELSE undefined' = TRUE /\ UNCHANGED running
  /\ UNCHANGED <<cell, objects, connected, severed>>

\* Query returns NULL at OCI_NO_DATA, and at OCI_SUCCESS_WITH_INFO too.
QueryNull ==
  /\ In({"Query"}, "execute")
  /\ Free({stmthp}, {}) /\ Return
  /\ UNCHANGED <<objects, connected, severed>>

\* OCIStmtExecute fails: the handle is freed, then CheckError throws.
ExecuteFails ==
  /\ In(Texts, "execute")
  /\ Free({stmthp}, {}) /\ GoTo("refused")
  /\ UNCHANGED <<objects, connected, severed>>

\* With an MDBStatement there is nothing to free, whether Query returns NULL or
\* either function throws, before or after the execution.
StatementEnds ==
  /\ In(Statements, "execute") \/ In({"QueryStm"}, "columns") \/ In({"ExecuteStm"}, "count")
  /\ Return
  /\ undefined' = (at = "execute" /\ cell[stmthp] # "stmt")
  /\ UNCHANGED <<cell, objects, connected, severed>>

\* A variant in which the catch block of the one Query is there in the other.
BugFetchColumns ==
  /\ In(Queries, "columns")
  /\ GoTo("result") \/ GoTo("catch")
  /\ UNCHANGED <<cell, objects, connected, severed, undefined>>

\* FetchColumns describes the columns.
FetchColumns ==
  /\ In(Queries, "columns")
  /\ GoTo("result")
  /\ UNCHANGED <<cell, objects, connected, severed, undefined>>

\* new MDBResult_Oracle, with an error handle of its own.
MakeResult(r, h) ==
  /\ In(Queries, "result") /\ stmthp_m[r] = Null
  /\ Alloc(h, "error")
  /\ stmthp_m' = [stmthp_m EXCEPT ![r] = stmthp]
  /\ errhp_m' = [errhp_m EXCEPT ![r] = h]
  /\ Return
  /\ UNCHANGED <<connected, severed, undefined>>

\* The allocation of that handle is not checked: without it the constructor is
\* given a pointer that was never set.
NoErrorHandle ==
  /\ In(Queries, "result")
  /\ undefined' = TRUE
  /\ UNCHANGED <<cell, objects, running, connected, severed>>

\* Execute reads the number of rows, and frees its handle.
RowCount ==
  /\ In({"Execute"}, "count")
  /\ Free({stmthp}, {}) /\ Return
  /\ UNCHANGED <<objects, connected, severed>>

\* CheckError throws inside a try block.
Throws ==
  /\ \/ In({"Prepare"}, "error") \/ In(Texts \cup {"Prepare"}, "stmt")
     \/ In(Texts \cup {"Prepare"}, "parse")
     \/ In({"Query"}, "columns") \/ In({"Execute"}, "count")
  /\ GoTo("catch")
  /\ UNCHANGED <<cell, objects, connected, severed, undefined>>

\* A variant that forgets the error handle.
BugCatch ==
  /\ call # "none" /\ at \in {"refused", "catch"} /\ ~undefined
  /\ Free({stmthp}, {}) /\ Return
  /\ UNCHANGED <<objects, connected, severed>>

\* The catch blocks: free what the call has allocated, and throw again.
Catch ==
  /\ call # "none" /\ at \in {"refused", "catch"} /\ ~undefined
  /\ Free({stmthp}, {errhp}) /\ Return
  /\ UNCHANGED <<objects, connected, severed>>

\* new MDBStatement_Oracle
MakeStatement(s) ==
  /\ In({"Prepare"}, "statement") /\ stmthp_m[s] = Null
  /\ stmthp_m' = [stmthp_m EXCEPT ![s] = stmthp]
  /\ errhp_m' = [errhp_m EXCEPT ![s] = errhp]
  /\ Return
  /\ UNCHANGED <<cell, connected, severed, undefined>>
-----------------------------------------------------------------------------
Shares(o) == \E p \in Existing \ {o} : stmthp_m[p] = stmthp_m[o]

\* The destructor of an object frees both its handles.
Delete(o) ==
  /\ Idle /\ o \in Existing
  /\ Free({stmthp_m[o]}, {errhp_m[o]})
  /\ stmthp_m' = [stmthp_m EXCEPT ![o] = Null]
  /\ errhp_m' = [errhp_m EXCEPT ![o] = Null]
  /\ severed' = (severed \/ Shares(o))
  /\ UNCHANGED <<running, connected>>

DeleteStatement(s) == Delete(s)
DeleteResult(r) == Delete(r)

\* Free, which the destructor of a result calls, can be called by the program too:
\* the object keeps its pointers.
FreeResult(r) ==
  /\ Idle /\ r \in Existing /\ (FreeAgain \/ ~severed)
  /\ Free({stmthp_m[r]}, {errhp_m[r]})
  /\ severed' = TRUE
  /\ UNCHANGED <<objects, running, connected>>

\* FetchRow and BindByName hand the object's handles to OCI.
Use(o) ==
  /\ Idle /\ o \in Existing
  /\ undefined' = (cell[stmthp_m[o]] # "stmt" \/ cell[errhp_m[o]] # "error")
  /\ UNCHANGED <<cell, objects, running, connected, severed>>

\* Connect, Commit and Rollback hand the driver's own handles to OCI, whether they
\* succeed or not.
UseConnection ==
  /\ Idle /\ undefined' = ~connected
  /\ UNCHANGED <<cell, objects, running, connected, severed>>

Connect == UseConnection
EndTransaction == UseConnection

\* Called by the program or by the destructor.  OCI frees all handles that were
\* allocated from the environment; a second call frees that again.
Disconnect ==
  /\ Idle
  /\ cell' = [h \in Handles |-> "free"]
  /\ connected' = FALSE /\ undefined' = ~connected
  /\ severed' = (severed \/ Existing # {})
  /\ UNCHANGED <<objects, running>>
-----------------------------------------------------------------------------
Next ==
  \/ \E function \in Texts \cup {"Prepare"} : CallText(function)
  \/ \E function \in Statements, s \in Stms : CallStatement(function, s)
  \/ \E h \in Handles : AllocError(h) \/ AllocStmt(h)
  \/ Parse \/ Executed \/ QueryNull \/ ExecuteFails \/ StatementEnds
  \/ FetchColumns \/ NoErrorHandle \/ RowCount \/ Throws \/ Catch
  \/ \E r \in Ress, h \in Handles : MakeResult(r, h)
  \/ \E s \in Stms : MakeStatement(s) \/ DeleteStatement(s)
  \/ \E r \in Ress : DeleteResult(r) \/ FreeResult(r)
  \/ \E o \in Objects : Use(o)
  \/ Connect \/ EndTransaction \/ Disconnect

Spec == Init /\ [][Next]_vars
-----------------------------------------------------------------------------
\* Whatever fails, and wherever, no handle is lost: each one that is allocated
\* belongs to an object, which will free it, or to the call that is running.
HandlesOwned ==
  ~undefined => \A h \in Handles : cell[h] # "free" =>
    \/ \E o \in Objects : h = stmthp_m[o] \/ h = errhp_m[o]
    \/ h = stmthp \/ h = errhp

\* As long as the program frees no handle that another object has too, no call
\* takes the handles of an object away: each can be used, and only an MDBStatement
\* and its results share one.
Usable ==
  ~severed /\ ~undefined =>
    \A o \in Existing :
      /\ cell[stmthp_m[o]] = "stmt" /\ cell[errhp_m[o]] = "error"
      /\ \A p \in Existing \ {o} :
           /\ errhp_m[p] # errhp_m[o]
           /\ stmthp_m[p] = stmthp_m[o] =>
                /\ {o, p} \ Stms # {}
                /\ \E s \in Stms : stmthp_m[s] = stmthp_m[o]

\* The driver frees or uses memory that is not its own in four cases and no other:
\* an object has handles that were freed by another's deletion, by Free or with the
\* connection; a function of the driver is called after Disconnect; there is no
\* error handle for a result; and Query or Execute of a text, whose handle was freed
\* because the execution failed, free it again in the catch block.
UndefinedIsKnown ==
  [][~undefined /\ undefined' =>
       severed' \/ ~connected \/ at \in {"result", "refused"}]_vars
=============================================================================
