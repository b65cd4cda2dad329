----------------------------- MODULE TcpStream -----------------------------
(***************************************************************************)
(* The transfer loops of src/src/Net/TcpClient.cpp over one direction of a  *)
(* TCP connection: a thread that sends with CSend (or Send, SendCLRF), and  *)
(* the threads that receive through TcpClient objects sharing one socket,   *)
(* each with CRecv, Recv or RecvCLRF.  Every loop is select, then one       *)
(* send/recv with MSG_DONTWAIT, then select again; the two system calls     *)
(* are two steps, so anything may happen to the socket between them.        *)
(*                                                                         *)
(* A byte is its position in everything the sender means to send: message  *)
(* k is the bytes Start[k]+1 .. Start[k+1].  A system call interrupted by a *)
(* signal (EINTR) is repeated at once by the code and is a stuttering step. *)
(***************************************************************************)
EXTENDS Integers, Sequences

CONSTANTS
  N,          \* how many messages the sender sends
  Start,      \* Start[k] bytes precede message k
  Readers,    \* receiving threads, each with its own copy of the TcpClient
  Call,       \* the receiving function each of them calls
  RecvSize,   \* the length_ given to Recv
  BufSize,    \* BUFSIZE, the most RecvCLRF takes in one recv
  Window      \* the most bytes the kernel holds between the two ends

ASSUME TcpAssumption ==
  /\ N \in Nat
  /\ Start \in [1..(N + 1) -> Nat]
  /\ Start[1] = 0
  /\ \A j, k \in 1..(N + 1) : j <= k => Start[j] <= Start[k]
  /\ Call \in [Readers -> {"CRecv", "Recv", "RecvCLRF"}]
  /\ RecvSize \in Nat \ {0}
  /\ BufSize \in Nat \ {0}
  /\ Window \in Nat \ {0}

VARIABLES
  wpc,        \* where the sender is in CSend
  msg,        \* how many messages it has begun to send
  sent,       \* sent_bytes of the current CSend
  chan,       \* the bytes the kernel accepted and nobody has received
  reset,      \* the connection was reset
  rpc,        \* where each reader is in its call
  buf,        \* what the current call of each reader has received
  got         \* what the finished calls of each reader returned

vars == <<wpc, msg, sent, chan, reset, rpc, buf, got>>
sender == <<wpc, msg, sent>>
reader == <<rpc, buf, got>>

Length(k) == Start[k + 1] - Start[k]
Message(k) == [i \in 1..Length(k) |-> Start[k] + i]
Messages == [k \in 1..N |-> Message(k)]

TypeOK ==
  /\ wpc \in {"idle", "select", "send", "done", "timeout", "failed"}
  /\ msg \in 0..N
  /\ sent \in Nat
  /\ sent <= IF msg = 0 THEN 0 ELSE Length(msg)
  /\ chan \in Seq(Nat)
  /\ Len(chan) <= Window
  /\ reset \in BOOLEAN
  /\ rpc \in [Readers -> {"idle", "select", "recv", "done", "timeout", "failed"}]
  /\ buf \in [Readers -> Seq(Nat)]
  /\ got \in [Readers -> Seq(Seq(Nat))]

Init ==
  /\ wpc = "idle" /\ msg = 0 /\ sent = 0
  /\ chan = <<>> /\ reset = FALSE
  /\ rpc = [r \in Readers |-> "idle"]
  /\ buf = [r \in Readers |-> <<>>]
  /\ got = [r \in Readers |-> <<>>]
-----------------------------------------------------------------------------
(* The connection.  An end is closed by the destructor of its last TcpClient *)
(* object: the sender's when it is done or has thrown, the readers' when     *)
(* each of them is or has.                                                   *)
Gone == {"done", "timeout", "failed"}
SenderClosed == wpc \in Gone
ReadersClosed == \A r \in Readers : rpc[r] \in Gone

Writable == Len(chan) < Window \/ reset \/ ReadersClosed
Readable == chan # <<>> \/ SenderClosed \/ reset

\* The network or the peer's kernel resets the connection: what was not
\* received is lost.
Reset ==
  /\ ~reset
  /\ reset' = TRUE
  /\ chan' = <<>>
  /\ UNCHANGED <<sender, reader>>
-----------------------------------------------------------------------------
(* The sender.                                                              *)

\* while(sent_bytes != length_): an empty message is sent without a select.
CallSend ==
  /\ wpc = "idle" /\ msg < N
  /\ msg' = msg + 1
  /\ sent' = 0
  /\ wpc' = IF Length(msg + 1) = 0 THEN "idle" ELSE "select"
  /\ UNCHANGED <<chan, reset, reader>>

WSelect ==
  /\ wpc = "select" /\ Writable
  /\ wpc' = "send"
  /\ UNCHANGED <<msg, sent, chan, reset, reader>>

(* Variants with a bug, for the sensitivity checks: send() is given buf_     *)
(* for buf_ + sent_bytes; CSend returns after one send(), as Send once did.  *)
BugSendFromStart ==
  /\ wpc = "send" /\ ~reset /\ ~ReadersClosed
  /\ \E n \in 1..(Length(msg) - sent) :
       /\ Len(chan) + n <= Window
       /\ chan' = chan \o [i \in 1..n |-> Start[msg] + i]
       /\ sent' = sent + n
  /\ wpc' = IF sent' = Length(msg) THEN "idle" ELSE "select"
  /\ UNCHANGED <<msg, reset, reader>>

BugSendOnce ==
  /\ wpc = "send" /\ ~reset /\ ~ReadersClosed
  /\ \E n \in 1..(Length(msg) - sent) :
       /\ Len(chan) + n <= Window
       /\ chan' = chan \o [i \in 1..n |-> Start[msg] + sent + i]
       /\ sent' = sent + n
  /\ wpc' = "idle"
  /\ UNCHANGED <<msg, reset, reader>>

\* send() takes n bytes from buf_ + sent_bytes.
SendSome ==
  /\ wpc = "send" /\ ~reset /\ ~ReadersClosed
  /\ \E n \in 1..(Length(msg) - sent) :
       /\ Len(chan) + n <= Window
       /\ chan' = chan \o [i \in 1..n |-> Start[msg] + sent + i]
       /\ sent' = sent + n
  /\ wpc' = IF sent' = Length(msg) THEN "idle" ELSE "select"
  /\ UNCHANGED <<msg, reset, reader>>

\* A variant that takes EAGAIN for an error.
BugAgainThrows ==
  /\ wpc = "send" /\ ~reset /\ ~ReadersClosed
  /\ wpc' = "failed"
  /\ UNCHANGED <<msg, sent, chan, reset, reader>>

\* EAGAIN: whatever select said, the socket takes nothing now.
WAgain ==
  /\ wpc = "send" /\ ~reset /\ ~ReadersClosed
  /\ wpc' = "select"
  /\ UNCHANGED <<msg, sent, chan, reset, reader>>

\* select runs out of time or fails.
WTimeout ==
  /\ wpc = "select"
  /\ wpc' = "timeout"
  /\ UNCHANGED <<msg, sent, chan, reset, reader>>

\* send fails.
WThrow ==
  /\ wpc = "send" /\ (reset \/ ReadersClosed)
  /\ wpc' = "failed"
  /\ UNCHANGED <<msg, sent, chan, reset, reader>>

WDone ==
  /\ wpc = "idle" /\ msg = N
  /\ wpc' = "done"
  /\ UNCHANGED <<msg, sent, chan, reset, reader>>
-----------------------------------------------------------------------------
(* The readers.  A CRecv reader asks for the messages one by one by their   *)
(* lengths, a RecvCLRF reader asks for N lines, a Recv reader calls until   *)
(* the connection is closed.                                                *)
Calls(r) == Len(got[r])
Wanted(r) == Length(Calls(r) + 1)
MoreCalls(r) == Call[r] = "Recv" \/ Calls(r) < N

\* The length each recv() is given.
Room(r) == CASE Call[r] = "CRecv" -> Wanted(r) - Len(buf[r])
             [] Call[r] = "Recv" -> RecvSize
             [] OTHER -> BufSize

\* SendCLRF ends its message with the two bytes of a CRLF.
IsCR(b) == \E k \in 1..N : b = Start[k + 1] - 1
IsLF(b) == \E k \in 1..N : b = Start[k + 1]
IsCRLF(s, j) == j + 1 <= Len(s) /\ IsCR(s[j]) /\ IsLF(s[j + 1])

\* str_ up to the first "\r\n" in it; what follows is dropped.
Line(s) ==
  SubSeq(s, 1, (CHOOSE j \in 1..Len(s) : /\ IsCRLF(s, j)
                                        /\ \A i \in 1..(j - 1) : ~IsCRLF(s, i)) - 1)

\* A variant in which CRecv returns what one recv() gave, as Recv does.
BugComplete(r, s) ==
  Call[r] = "RecvCLRF" => \E j \in 1..Len(s) : IsCRLF(s, j)

Complete(r, s) ==
  CASE Call[r] = "CRecv" -> Len(s) = Wanted(r)
    [] Call[r] = "Recv" -> TRUE
    [] OTHER -> \E j \in 1..Len(s) : IsCRLF(s, j)

Result(r, s) == IF Call[r] = "RecvCLRF" THEN Line(s) ELSE s

\* CRecv of length 0 returns without a select, as CSend does.
CallRecv(r) ==
  /\ rpc[r] = "idle" /\ MoreCalls(r)
  /\ IF Call[r] = "CRecv" /\ Wanted(r) = 0
     THEN /\ got' = [got EXCEPT ![r] = Append(@, <<>>)]
          /\ UNCHANGED rpc
     ELSE /\ rpc' = [rpc EXCEPT ![r] = "select"]
          /\ UNCHANGED got
  /\ buf' = [buf EXCEPT ![r] = <<>>]
  /\ UNCHANGED <<sender, chan, reset>>

RSelect(r) ==
  /\ rpc[r] = "select" /\ Readable
  /\ rpc' = [rpc EXCEPT ![r] = "recv"]
  /\ UNCHANGED <<sender, chan, reset, buf, got>>

\* recv() hands over n bytes, put at buf_ + recv_bytes (or appended to str_).
Take(r) ==
  /\ rpc[r] = "recv" /\ ~reset
  /\ \E n \in 1..Room(r) :
       /\ n <= Len(chan)
       /\ LET s == buf[r] \o SubSeq(chan, 1, n)
          IN IF Complete(r, s)
             THEN /\ got' = [got EXCEPT ![r] = Append(@, Result(r, s))]
                  /\ buf' = [buf EXCEPT ![r] = <<>>]
                  /\ rpc' = [rpc EXCEPT ![r] = "idle"]
             ELSE /\ buf' = [buf EXCEPT ![r] = s]
                  /\ rpc' = [rpc EXCEPT ![r] = "select"]
                  /\ UNCHANGED got
       /\ chan' = SubSeq(chan, n + 1, Len(chan))
  /\ UNCHANGED <<sender, reset>>

\* EAGAIN: another thread took the bytes select had seen.
RAgain(r) ==
  /\ rpc[r] = "recv" /\ ~reset /\ chan = <<>> /\ ~SenderClosed
  /\ rpc' = [rpc EXCEPT ![r] = "select"]
  /\ UNCHANGED <<sender, chan, reset, buf, got>>

(* Variants that take EAGAIN for the end of the stream, or the end of the    *)
(* stream for EAGAIN.                                                       *)
BugEofOnAgain(r) ==
  /\ rpc[r] = "recv" /\ ~reset /\ chan = <<>>
  /\ rpc' = [rpc EXCEPT ![r] = IF Call[r] = "Recv" THEN "done" ELSE "failed"]
  /\ UNCHANGED <<sender, chan, reset, buf, got>>

BugAgainOnEof(r) ==
  /\ rpc[r] = "recv" /\ ~reset /\ chan = <<>> /\ SenderClosed
  /\ rpc' = [rpc EXCEPT ![r] = "select"]
  /\ UNCHANGED <<sender, chan, reset, buf, got>>

\* recv() returns 0: Recv returns it, CRecv and RecvCLRF throw.
REof(r) ==
  /\ rpc[r] = "recv" /\ ~reset /\ chan = <<>> /\ SenderClosed
  /\ rpc' = [rpc EXCEPT ![r] = IF Call[r] = "Recv" THEN "done" ELSE "failed"]
  /\ UNCHANGED <<sender, chan, reset, buf, got>>

RTimeout(r) ==
  /\ rpc[r] = "select"
  /\ rpc' = [rpc EXCEPT ![r] = "timeout"]
  /\ UNCHANGED <<sender, chan, reset, buf, got>>

RThrow(r) ==
  /\ rpc[r] = "recv" /\ reset
  /\ rpc' = [rpc EXCEPT ![r] = "failed"]
  /\ UNCHANGED <<sender, chan, reset, buf, got>>

RDone(r) ==
  /\ rpc[r] = "idle" /\ ~MoreCalls(r)
  /\ rpc' = [rpc EXCEPT ![r] = "done"]
  /\ UNCHANGED <<sender, chan, reset, buf, got>>
-----------------------------------------------------------------------------
Send == CallSend \/ WSelect \/ SendSome \/ WAgain \/ WThrow \/ WDone
Recv(r) == \/ CallRecv(r) \/ RSelect(r) \/ Take(r) \/ RAgain(r)
           \/ REof(r) \/ RThrow(r) \/ RDone(r)

\* Both ends are closed: nothing is left to do.
Finished == SenderClosed /\ ReadersClosed /\ UNCHANGED vars

Next ==
  \/ Send \/ WTimeout
  \/ \E r \in Readers : Recv(r) \/ RTimeout(r)
  \/ Reset \/ Finished

Spec == Init /\ [][Next]_vars

(***************************************************************************)
(* Every thread that can go on does, and a socket that stays writable does *)
(* not answer EAGAIN for ever.  No time limit is counted on to end a wait:  *)
(* a call may have none.                                                    *)
(***************************************************************************)
Fairness ==
  /\ WF_vars(Send) /\ SF_vars(SendSome)
  /\ \A r \in Readers : WF_vars(Recv(r))

FairSpec == Spec /\ Fairness
-----------------------------------------------------------------------------
(* Properties.                                                              *)

\* The bytes the kernel accepted are 1 .. Accepted.
Accepted == IF msg = 0 THEN 0 ELSE Start[msg] + sent

Received(r) ==
  {b \in 1..Start[N + 1] :
     \/ \E i \in 1..Len(buf[r]) : buf[r][i] = b
     \/ \E j \in 1..Len(got[r]) : \E i \in 1..Len(got[r][j]) : got[r][j][i] = b}
Pending == {chan[i] : i \in 1..Len(chan)}

Framed(r) == Readers = {r} /\ Call[r] = "CRecv"

\* However CSend and CRecv are cut into send() and recv() calls, and wherever
\* one of them throws, what the j-th CRecv returned is the j-th message whole:
\* no byte of a neighbour, none missing, none twice.
FrameIntegrity ==
  \A r \in Readers : Framed(r) =>
    \A j \in 1..Len(got[r]) : j <= N /\ got[r][j] = Message(j)

\* An end throws only after a time-out, a failing select or a reset: CSend does
\* not meet a closed reader, CRecv does not meet the end of the stream in the
\* middle of a message.
Disturbed == reset \/ wpc = "timeout" \/ \E r \in Readers : rpc[r] = "timeout"

NoSpuriousThrow ==
  (~Disturbed /\ \E r \in Readers : Framed(r)) =>
    wpc # "failed" /\ \A r \in Readers : rpc[r] # "failed"

\* Threads that Recv through copies of one TcpClient share the stream: until a
\* reset, each accepted byte is in the kernel or with exactly one of them.
Partition ==
  (~reset /\ \A r \in Readers : Call[r] # "RecvCLRF") =>
    /\ 1..Accepted = Pending \cup UNION {Received(r) : r \in Readers}
    /\ \A r \in Readers : Received(r) \cap Pending = {}
    /\ \A r, q \in Readers : r # q => Received(r) \cap Received(q) = {}

\* Recv returns 0, which its caller reads as the end of the stream, only when
\* all that the sender's calls reported as sent has been received.
EofIsTheEnd ==
  (~reset /\ \E r \in Readers : Call[r] = "Recv" /\ rpc[r] = "done") =>
    /\ SenderClosed /\ chan = <<>>
    /\ wpc = "done" => Accepted = Start[N + 1]

\* No reader is given an earlier byte after a later one.
InOrder ==
  \A r \in Readers : \A j, k \in 1..Len(got[r]) :
    \A a \in 1..Len(got[r][j]), b \in 1..Len(got[r][k]) :
      (j < k \/ (j = k /\ a < b)) => got[r][j][a] < got[r][k][b]

\* However the threads race from select to recv, the stream is divided between
\* them, and each sees its part in the order it was sent.
Divided == Partition /\ InOrder

\* RecvCLRF "reads one CRLF-terminated string" (src/include/Net/TcpClient.h:158): the
\* j-th call returns the j-th line that was sent, without its CRLF.
LinesInOrder ==
  \A r \in Readers : Call[r] = "RecvCLRF" =>
    \A j \in 1..Len(got[r]) : got[r][j] = SubSeq(Message(j), 1, Length(j) - 2)

\* No call waits for ever: whatever is lost, refused or timed out at one end,
\* both ends come to return or throw, and neither needs a time limit of its own.
Termination == <>(SenderClosed /\ ReadersClosed)

\* Unless a select times out or fails or the connection is reset, every message
\* reaches its CRecv.
AllDelivered ==
  \A r \in Readers : Framed(r) => <>(got[r] = Messages \/ Disturbed)

(***************************************************************************)
(* CSend and CRecv implement FrameChannel: a message is put when the kernel *)
(* has taken its last byte, a frame is delivered when CRecv returns it.     *)
(***************************************************************************)
TheReader == CHOOSE r \in Readers : TRUE
WholeMessages == IF msg = 0 THEN 0
                 ELSE IF sent = Length(msg) THEN msg ELSE msg - 1

FC == INSTANCE FrameChannel WITH
        Frames <- Messages, put <- WholeMessages, delivered <- got[TheReader]

ImplementsFrames == FC!Spec
=============================================================================
