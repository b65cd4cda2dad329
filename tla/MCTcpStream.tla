--------------------------- MODULE MCTcpStream ---------------------------
(* Small instances of TcpStream for TLC. *)
EXTENDS TcpStream

CONSTANTS r1, r2

OneReader == {r1}
TwoReaders == {r1, r2}

\* Messages of 3, 0, 1 and 4 bytes; of 3 and 2; lines of 1 and 2 with their CRLF.
Uneven == <<0, 3, 3, 4, 8>>
Stream == <<0, 3, 5>>
Lines == <<0, 3, 7>>

AllCRecv == [r \in Readers |-> "CRecv"]
AllRecv == [r \in Readers |-> "Recv"]
AllRecvCLRF == [r \in Readers |-> "RecvCLRF"]
==========================================================================
