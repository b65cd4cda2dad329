---------------------------- MODULE MCSslStream ----------------------------
(* Small instances of SslStream for TLC. *)
EXTENDS SslStream

C(op, length) == [op |-> op, length |-> length]

\* A line of one byte, then an empty one; programs that read them in several ways,
\* beyond the end too, one of them from between a CR and its LF.
Programs ==
  {<<C("Send", 3), C("RecvCLRF", 1), C("CRecv", 2)>>,
   <<C("RecvCLRF", 1), C("CSend", 3), C("Recv", 2), C("Send", 1)>>,
   <<C("SendCLRF", 3), C("Recv", 2), C("CSend", 2), C("Recv", 9)>>,
   <<C("CRecv", 2), C("RecvCLRF", 1), C("Recv", 2), C("Recv", 2)>>}
=============================================================================
