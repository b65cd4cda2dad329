--------------------------- MODULE MCSslConnect ---------------------------
(* Small instances of SslConnect for TLC. *)
EXTENDS SslConnect
===========================================================================
