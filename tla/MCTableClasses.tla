-------------------------- MODULE MCTableClasses --------------------------
(* Small instances of TableClasses for TLC. *)
EXTENDS TableClasses, TLC

CONSTANTS k1, k2, k3

\* Keys that collide in every small table, and keys that part as it grows.
ThreeHashes == k1 :> 0 @@ k2 :> 1 @@ k3 :> 8
===========================================================================
