---------------------------- MODULE OracleDriver ----------------------------
(***************************************************************************)
(* The connections of the Oracle driver (src/src/MDB/MDBDriver_Oracle.cpp): *)
(* threads construct MDBDriver_Oracle objects, InitEnviorment and Connect    *)
(* step by step, each of which can fail, and close them.  One of the drivers *)
(* is the one whose calls OracleHandles describes.                          *)
(***************************************************************************)
EXTENDS OracleHandles

CONSTANTS
  Drivers,    \* the places of MDBDriver_Oracle objects, each with its thread
  Ours,       \* the one that the program queries
  Together    \* a bound, when FALSE: ours is queried only while there is no other,
              \* and others are constructed only while ours has no objects

ASSUME DriverAssumption == Ours \in Drivers

VARIABLES
  built,      \* where each constructor is; "none", "exists", "closed"; "lost" after
              \* it threw with handles that nobody can free any more
  held,       \* the handles of each connection that OCI has allocated
  old_act,    \* the handler of SIGINT that each constructor has saved, if it runs
  handler,    \* the handler of the process: the program's, or Oracle's
  overlapped  \* two constructors were between save and restore at the same time

connection == <<built, held, old_act, handler, overlapped>>
driverVars == <<vars, connection>>

Kinds == {"env", "error", "server", "service", "session"}
Lost == {"old session"}
Between == {"attach", "restore", "restore failed"}

DriverTypeOK ==
  /\ built \in [Drivers -> Kinds \cup Between \cup
       {"none", "exists", "closed", "lost", "save", "catch", "attribute", "login"}]
  /\ held \in [Drivers -> SUBSET (Kinds \cup Lost)]
  /\ old_act \in [Drivers -> {"program", "oracle"}] /\ handler \in {"program", "oracle"}
  /\ overlapped \in BOOLEAN

DriverInit ==
  /\ Init
  /\ built = [d \in Drivers |-> "none"] /\ held = [d \in Drivers |-> {}]
  /\ old_act = [d \in Drivers |-> "program"] /\ handler = "program"
  /\ overlapped = FALSE
-----------------------------------------------------------------------------
At(d, from, to) ==
  /\ built[d] = from /\ built' = [built EXCEPT ![d] = to]
  /\ Together \/ d = Ours \/ (call = "none" /\ Existing = {})

\* OCIInitialize
Construct(d) ==
  /\ At(d, "none", "env")
  /\ UNCHANGED <<vars, held, old_act, handler, overlapped>>

\* OCIEnvInit and OCIHandleAlloc, in their order; the last is the first of Connect.
AllocConnection(d) ==
  /\ \/ At(d, "env", "error") \/ At(d, "error", "server") \/ At(d, "server", "service")
     \/ At(d, "service", "save") \/ At(d, "session", "login")
  /\ held' = [held EXCEPT ![d] = @ \cup {built[d]}]
  /\ UNCHANGED <<vars, old_act, handler, overlapped>>

\* OCIAttrSet of the server, outside of the try block.
SetServer(d) ==
  /\ At(d, "attribute", "session")
  /\ UNCHANGED <<vars, held, old_act, handler, overlapped>>

\* OCISessionBegin and the attributes before and after it.
Login(d) ==
  /\ At(d, "login", "exists")
  /\ UNCHANGED <<vars, held, old_act, handler, overlapped>>

\* CheckError throws outside of the try block: no destructor runs.
ConstructorThrows(d) ==
  /\ built[d] \in Kinds \cup {"attribute", "login"}
  /\ built' = [built EXCEPT ![d] = IF held[d] = {} THEN "none" ELSE "lost"]
  /\ UNCHANGED <<vars, held, old_act, handler, overlapped>>
-----------------------------------------------------------------------------
Save(d) ==
  /\ At(d, "save", "attach")
  /\ old_act' = [old_act EXCEPT ![d] = handler]
  /\ overlapped' = (overlapped \/ \E e \in Drivers \ {d} : built[e] \in Between)
  /\ UNCHANGED <<vars, held, handler>>

\* OCIServerAttach puts a handler of its own, whether it succeeds or not.
Attach(d) ==
  /\ At(d, "attach", "restore") \/ At(d, "attach", "restore failed")
  /\ handler' \in {handler, "oracle"}
  /\ UNCHANGED <<vars, held, old_act, overlapped>>

\* A variant with a bug, for the sensitivity checks: the status is looked at first.
BugRestore(d) ==
  /\ At(d, "restore", "attribute") \/ At(d, "restore failed", "catch")
  /\ handler' = IF built[d] = "restore" THEN old_act[d] ELSE handler
  /\ old_act' = [old_act EXCEPT ![d] = "program"]
  /\ UNCHANGED <<vars, held, overlapped>>

\* What was saved is forgotten with the local variable.
Restore(d) ==
  /\ At(d, "restore", "attribute") \/ At(d, "restore failed", "catch")
  /\ handler' = old_act[d] /\ old_act' = [old_act EXCEPT ![d] = "program"]
  /\ UNCHANGED <<vars, held, overlapped>>

\* A variant that forgets the environment, as the code once did.
BugCatchAttach(d) ==
  /\ At(d, "catch", "none")
  /\ held' = [held EXCEPT ![d] = @ \ {"server", "service", "error"}]
  /\ UNCHANGED <<vars, old_act, handler, overlapped>>

CatchAttach(d) ==
  /\ At(d, "catch", "none")
  /\ held' = [held EXCEPT ![d] = @ \ {"server", "service", "error", "env"}]
  /\ UNCHANGED <<vars, old_act, handler, overlapped>>
-----------------------------------------------------------------------------
\* The other threads close their drivers.
DisconnectOther(d) ==
  /\ d # Ours /\ At(d, "exists", "none")
  /\ held' = [held EXCEPT ![d] = {}]
  /\ UNCHANGED <<vars, old_act, handler, overlapped>>

\* Our driver, once it exists, is called, and is closed by OracleHandles' Disconnect.
\* Another Connect overwrites the session handle, unless its allocation fails.
Calls ==
  /\ built[Ours] \in {"exists", "closed"}
  /\ Together \/ \A d \in Drivers \ {Ours} : built[d] = "none"
  /\ \/ Next /\ held' = [held EXCEPT ![Ours] = IF connected' THEN @ ELSE {}]
     \/ connected /\ Connect /\ held' = [held EXCEPT ![Ours] = @ \cup Lost]
  /\ built' = [built EXCEPT ![Ours] = IF connected' THEN @ ELSE "closed"]
  /\ UNCHANGED <<old_act, handler, overlapped>>

DriverNext ==
  \/ \E d \in Drivers :
       \/ Construct(d) \/ AllocConnection(d) \/ SetServer(d) \/ Login(d) \/ ConstructorThrows(d)
       \/ Save(d) \/ Attach(d) \/ Restore(d) \/ CatchAttach(d) \/ DisconnectOther(d)
  \/ Calls

DriverSpec == DriverInit /\ [][DriverNext]_driverVars
-----------------------------------------------------------------------------
\* Wherever a constructor fails, before, in or after the try block, and whatever the
\* calls of the driver do, a driver that is not there has left no handle allocated,
\* unless its constructor threw with handles outside of the try block; and one that
\* is there has them all, the environment of its statements and results among them;
\* so also after another Connect, whose lost session goes with the environment.
ConnectionOwned ==
  /\ \A d \in Drivers :
       /\ built[d] \in {"none", "closed"} => held[d] = {}
       /\ built[d] = "exists" => Kinds \subseteq held[d]
  /\ (\E h \in Handles : cell[h] # "free") => "env" \in held[Ours]

\* Oracle's handler of SIGINT never stays behind, whether the server can be reached
\* or not, unless two threads attached at the same time: then the one that restores
\* last may restore the handler of Oracle, which it has saved for the program's.
HandlerRestored ==
  ~overlapped /\ (\A d \in Drivers : built[d] \notin Between) => handler = "program"
=============================================================================
