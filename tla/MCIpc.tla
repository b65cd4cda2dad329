------------------------------- MODULE MCIpc -------------------------------
(* Small instances of the IPC modules for TLC. *)
EXTENDS Ipc, TLC

CONSTANTS p, q, o1, o2, o3

\* Two objects of each kind in one process, one in another.
Places == (o1 :> p) @@ (o2 :> p) @@ (o3 :> q)

\* The two objects of one process, and the kernel's semaphores, are alike.
Symmetry == Permutations({o1, o2}) \cup Permutations(Sems)
=============================================================================
