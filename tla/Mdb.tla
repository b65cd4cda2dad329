-------------------------------- MODULE Mdb --------------------------------
(***************************************************************************)
(* The database classes of libmo together: a result set (ResultSet), and the *)
(* Oracle driver that makes results and statements (OracleDriver).  Neither   *)
(* reads the state of the other: a result set goes through rows whatever     *)
(* becomes of its handles, which only the driver's model follows.            *)
(***************************************************************************)
EXTENDS ResultSet, OracleDriver

CONSTANT BothClasses   \* a bound: a behaviour may use both

VARIABLE uses          \* the classes that the program uses in this behaviour

mdbVars == <<resultVars, driverVars, uses>>

MdbTypeOK == ResultTypeOK /\ TypeOK /\ DriverTypeOK

\* A bound: a result set that is not used has one content, whatever others have.
MdbInit ==
  /\ ResultInit /\ DriverInit
  /\ uses \in {{"MDBResult"}, {"MDBDriver_Oracle"}} \cup
       IF BothClasses THEN {{"MDBResult", "MDBDriver_Oracle"}} ELSE {}
  /\ "MDBResult" \notin uses => driver = "mysql" /\ contents = [k \in Rows |-> SqlNull]

MdbNext ==
  /\ \/ "MDBResult" \in uses /\ ResultNext /\ UNCHANGED driverVars
     \/ "MDBDriver_Oracle" \in uses /\ DriverNext /\ UNCHANGED resultVars
  /\ UNCHANGED uses

MdbSpec == MdbInit /\ [][MdbNext]_mdbVars
============================================================================
