-------------------------------- MODULE Ipc --------------------------------
(***************************************************************************)
(* The IPC classes of libmo together: processes that use named semaphores   *)
(* (Semaphore) and message queues (MessageQueue), which live in the kernel,  *)
(* and that may end at any moment, with objects of both.                    *)
(***************************************************************************)
EXTENDS Semaphore, MessageQueue

ASSUME IpcAssumption == \A o \in QObjs : QHome[o] \in Procs

CONSTANT Both     \* a bound: a behaviour may use classes of both kinds

VARIABLE uses     \* the kinds of objects that programs make in this behaviour

vars == <<semVars, queueVars, uses>>

TypeOK == SemTypeOK /\ QueueTypeOK

Init ==
  /\ SemInit /\ QueueInit
  /\ uses \in {{"Semaphore"}, {"MessageQueue"}} \cup
       IF Both THEN {{"Semaphore", "MessageQueue"}} ELSE {}

\* A process that ends takes none of the kernel's objects with it.
Die(p) ==
  /\ IF "Semaphore" \in uses THEN SemDie(p) ELSE UNCHANGED semVars
  /\ IF "MessageQueue" \in uses THEN QueueDie(p) ELSE UNCHANGED queueVars

Next ==
  /\ \/ "Semaphore" \in uses /\ SemStep /\ UNCHANGED queueVars
     \/ "MessageQueue" \in uses /\ QueueStep /\ UNCHANGED semVars
     \/ \E p \in Procs : Die(p)
  /\ UNCHANGED uses

Spec == Init /\ [][Next]_vars
=============================================================================
