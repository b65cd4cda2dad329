--------------------------- MODULE FrameChannel ---------------------------
(***************************************************************************)
(* What two programs that frame their data with TcpClient::CSend and       *)
(* TcpClient::CRecv may rely on, with no socket, buffer or byte in sight:   *)
(* the frames come out whole, once, in the order they went in, and none     *)
(* that has data comes out before the whole of it went in.  TcpStream       *)
(* implements this.                                                        *)
(***************************************************************************)
EXTENDS Naturals, Sequences

CONSTANT Frames             \* the sequence of frames the sender will put

VARIABLES put,              \* how many frames the sender has put
          delivered         \* the frames the receiver was given

fcVars == <<put, delivered>>

Init == put = 0 /\ delivered = <<>>

Put == /\ put < Len(Frames)
       /\ put' = put + 1
       /\ UNCHANGED delivered

\* An empty frame puts nothing on the wire, so the receiver may have it early.
Get == /\ Len(delivered) < Len(Frames)
       /\ Len(delivered) < put \/ Frames[Len(delivered) + 1] = <<>>
       /\ delivered' = Append(delivered, Frames[Len(delivered) + 1])
       /\ UNCHANGED put

Next == Put \/ Get

Spec == Init /\ [][Next]_fcVars
===========================================================================
