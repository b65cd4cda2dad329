----------------------------- MODULE SslStream -----------------------------
(***************************************************************************)
(* The transfer calls of src/src/Net/SslClient.cpp, over both directions of *)
(* one connection: a program makes its calls one after another, and the     *)
(* peer sends and receives as it likes, and may ask for a new handshake at  *)
(* any time.  Every call first tries SSL_read or SSL_write on the           *)
(* non-blocking socket, and waits in select only for what OpenSSL asks for  *)
(* (WANT_READ, WANT_WRITE), which need not be what the call is about.       *)
(*                                                                         *)
(* OpenSSL and the peer are outside the code.  Their part: a record becomes *)
(* readable as a whole and its bytes stay in OpenSSL until they are read;   *)
(* SSL_write, without SSL_MODE_ENABLE_PARTIAL_WRITE, returns when all of    *)
(* the buffer is with the kernel; a handshake is one message each way, and  *)
(* both SSL_read and SSL_write bring it to its end before anything else.    *)
(* A byte is its position in what its sender sends.                         *)
(***************************************************************************)
EXTENDS Integers, Sequences, SequencesExt

CONSTANTS
  Scripts,     \* what programs do: sequences of calls, each [op, length]
  PeerBytes,   \* the bytes the peer sends
  LineEnds,    \* those of them that end a line: the LF of a CRLF
  MaxRecord,   \* the most of them in a record
  Window,      \* the records or bytes the kernel holds in one direction
  MaxHellos    \* how often the peer asks for a handshake

Receiving == {"Recv", "CRecv", "RecvCLRF"}
Sending == {"Send", "CSend", "SendCLRF"}

ASSUME SslAssumption ==
  /\ Scripts \subseteq Seq([op : Receiving \cup Sending, length : Nat \ {0}])
  /\ PeerBytes \in Nat /\ LineEnds \subseteq 2..PeerBytes
  /\ MaxRecord \in Nat \ {0} /\ Window \in Nat \ {0} /\ MaxHellos \in Nat

\* The records, and what the client's message of a handshake is.
Data(bytes) == [type |-> "data", bytes |-> bytes]
Hello == [type |-> "hello", bytes |-> <<>>]
Done == [type |-> "done", bytes |-> <<>>]
CloseNotify == [type |-> "close", bytes |-> <<>>]
Reply == 0

VARIABLES
  script,      \* the program's calls
  step,        \* the one it is in, or was in last
  pc,          \* where it is in it
  want,        \* the set the socket was put in: read_fds or write_fds
  buf,         \* what the current call has received
  ret,         \* what each finished call received; <<>> for one that sends
  decrypted,   \* what OpenSSL has and nobody has read
  written,     \* how many bytes of the current SSL_write are with the kernel
  handshake,   \* what a handshake under way is waiting for
  in,          \* the records on the way to the program
  out,         \* the bytes and replies on the way to the peer
  received,    \* what the peer has received
  peer_sent,   \* how many of its bytes the peer has sent
  hellos,      \* how often it has asked for a handshake
  closed,      \* it has closed its end
  reset        \* the connection was reset

program == <<script, step, pc, want, buf, ret>>
library == <<decrypted, written, handshake>>
peer == <<received, peer_sent, hellos, closed>>
vars == <<program, library, in, out, peer, reset>>

Call == script[step]

TypeOK ==
  /\ script \in Scripts /\ step \in 0..Len(script)
  /\ pc \in {"idle", "ssl", "select", "timeout", "failed"}
  /\ want \in {"read", "write"}
  /\ buf \in Seq(1..PeerBytes) /\ ret \in Seq(Seq(1..PeerBytes))
  /\ Len(ret) = IF pc = "idle" THEN step ELSE step - 1
  /\ decrypted \in Seq(1..PeerBytes)
  /\ written \in Nat /\ (written > 0 => Call.op \in Sending /\ written < Call.length)
  /\ handshake \in {"none", "reply", "done"}
  /\ in \in Seq([type : {"data", "hello", "done", "close"}, bytes : Seq(1..PeerBytes)])
  /\ out \in Seq(Nat) /\ Len(out) <= Window /\ received \in Seq(Nat)
  /\ peer_sent \in 0..PeerBytes /\ hellos \in 0..MaxHellos
  /\ closed \in BOOLEAN /\ reset \in BOOLEAN

Init ==
  /\ script \in Scripts /\ step = 0 /\ pc = "idle" /\ want = "read"
  /\ buf = <<>> /\ ret = <<>>
  /\ decrypted = <<>> /\ written = 0 /\ handshake = "none"
  /\ in = <<>> /\ out = <<>>
  /\ received = <<>> /\ peer_sent = 0 /\ hellos = 0
  /\ closed = FALSE /\ reset = FALSE
-----------------------------------------------------------------------------
\* A variant that selects first, against which the comment in Recv warns.
BugSelectFirst ==
  /\ pc = "idle" /\ step < Len(script)
  /\ step' = step + 1 /\ pc' = "select" /\ buf' = <<>>
  /\ want' = IF script[step'].op \in Receiving THEN "read" ELSE "write"
  /\ UNCHANGED <<script, ret, library, in, out, peer, reset>>

\* The next call goes straight to SSL_read or SSL_write.
CallNext ==
  /\ pc = "idle" /\ step < Len(script)
  /\ step' = step + 1 /\ pc' = "ssl" /\ buf' = <<>>
  /\ UNCHANGED <<script, want, ret, library, in, out, peer, reset>>

InRead == pc = "ssl" /\ Call.op \in Receiving
InWrite == pc = "ssl" /\ Call.op \in Sending

\* The call cannot go on with what OpenSSL has.
NeedsRecord == \/ InRead /\ decrypted = <<>> /\ handshake # "reply"
               \/ InWrite /\ handshake = "done"
NeedsRoom == \/ InRead /\ decrypted = <<>> /\ handshake = "reply"
             \/ InWrite /\ handshake # "done"
Room == Len(out) < Window

\* Inside SSL_read or SSL_write: the next record is taken, or the reply to a
\* hello is given to the kernel.
TakeRecord ==
  /\ NeedsRecord /\ in # <<>> /\ Head(in) # CloseNotify
  /\ decrypted' = decrypted \o Head(in).bytes
  /\ handshake' = CASE Head(in) = Hello -> "reply"
                    [] Head(in) = Done -> "none"
                    [] OTHER -> handshake
  /\ in' = Tail(in)
  /\ UNCHANGED <<program, written, out, peer, reset>>

GiveReply ==
  /\ NeedsRoom /\ handshake = "reply" /\ Room /\ ~reset
  /\ out' = Append(out, Reply) /\ handshake' = "done"
  /\ UNCHANGED <<program, decrypted, written, in, peer, reset>>

\* A variant of Recv that takes WANT_READ for the end.
BugWantRead ==
  /\ NeedsRecord /\ ~reset /\ (in # <<>> => Head(in) # CloseNotify)
  /\ IF Call.op = "Recv"
     THEN pc' = "idle" /\ ret' = Append(ret, <<>>) /\ UNCHANGED want
     ELSE pc' = "select" /\ want' = "read" /\ UNCHANGED ret
  /\ UNCHANGED <<script, step, buf, library, in, out, peer, reset>>

\* SSL_ERROR_WANT_READ: no whole record is there.
WantRead ==
  /\ NeedsRecord /\ ~reset /\ (in # <<>> => Head(in) # CloseNotify)
  /\ pc' = "select" /\ want' = "read"
  /\ UNCHANGED <<script, step, buf, ret, library, in, out, peer, reset>>

\* Variants: WANT_WRITE is not expected from SSL_read; the retry of SSL_write begins
\* the buffer again.
BugWantWriteThrows ==
  /\ NeedsRoom /\ ~Room /\ ~reset
  /\ pc' = IF InRead THEN "failed" ELSE "select"
  /\ want' = "write"
  /\ UNCHANGED <<script, step, buf, ret, library, in, out, peer, reset>>

BugWantWriteAgain ==
  /\ NeedsRoom /\ ~Room /\ ~reset
  /\ pc' = "select" /\ want' = "write" /\ written' = 0
  /\ UNCHANGED <<script, step, buf, ret, decrypted, handshake, in, out, peer, reset>>

\* SSL_ERROR_WANT_WRITE, from SSL_read too.
WantWrite ==
  /\ NeedsRoom /\ ~Room /\ ~reset
  /\ pc' = "select" /\ want' = "write"
  /\ UNCHANGED <<script, step, buf, ret, library, in, out, peer, reset>>

\* select with the sets: CRecv gives it read_fds only, and waits for nothing when
\* its socket is in write_fds.
Readable == in # <<>> \/ reset
Writable == Room \/ reset

Select ==
  /\ pc = "select"
  /\ \/ want = "read" /\ Readable
     \/ want = "write" /\ Writable /\ Call.op # "CRecv"
  /\ pc' = "ssl"
  /\ UNCHANGED <<script, step, want, buf, ret, library, in, out, peer, reset>>

\* select runs out of time or fails: the call throws.
SelectThrows ==
  /\ pc = "select"
  /\ pc' = "timeout"
  /\ UNCHANGED <<script, step, want, buf, ret, library, in, out, peer, reset>>

\* SSL_ERROR_SYSCALL
SyscallThrows ==
  /\ reset /\ (NeedsRecord \/ NeedsRoom)
  /\ pc' = "failed"
  /\ UNCHANGED <<script, step, want, buf, ret, library, in, out, peer, reset>>
-----------------------------------------------------------------------------
\* The length given to SSL_read.  RecvCLRF reads byte by byte.
Asked ==
  CASE Call.op = "Recv" -> Call.length
    [] Call.op = "CRecv" -> Call.length - Len(buf)
    [] OTHER -> 1

\* "\r\n" is at j of what RecvCLRF has read.
LineAt(s, j) == j < Len(s) /\ s[j] + 1 = s[j + 1] /\ s[j + 1] \in LineEnds
IsLine(s) == \E j \in DOMAIN s : LineAt(s, j)

Complete(s) ==
  CASE Call.op = "Recv" -> TRUE
    [] Call.op = "CRecv" -> Len(s) = Call.length
    [] OTHER -> IsLine(s)

\* RecvCLRF cuts the CRLF off, and what may follow it.
Result(s) == IF Call.op = "RecvCLRF"
             THEN SubSeq(s, 1, (CHOOSE j \in DOMAIN s : LineAt(s, j)) - 1) ELSE s

\* SSL_read returns what it has of the record, up to the length asked for; a call
\* that is not complete tries again without a select.
SslRead ==
  /\ InRead /\ decrypted # <<>>
  /\ LET n == IF Asked < Len(decrypted) THEN Asked ELSE Len(decrypted)
         s == buf \o SubSeq(decrypted, 1, n)
     IN /\ decrypted' = SubSeq(decrypted, n + 1, Len(decrypted))
        /\ IF Complete(s)
           THEN pc' = "idle" /\ ret' = Append(ret, Result(s)) /\ buf' = <<>>
           ELSE buf' = s /\ UNCHANGED <<pc, ret>>
  /\ UNCHANGED <<script, step, want, written, handshake, in, out, peer, reset>>

\* SSL_ERROR_ZERO_RETURN: Recv returns 0, the others throw.
ReadClosed ==
  /\ InRead /\ NeedsRecord /\ in # <<>> /\ Head(in) = CloseNotify
  /\ IF Call.op = "Recv"
     THEN pc' = "idle" /\ ret' = Append(ret, <<>>)
     ELSE pc' = "failed" /\ UNCHANGED ret
  /\ UNCHANGED <<script, step, want, buf, library, in, out, peer, reset>>

\* The sum of the first n of a sequence of lengths.
Total(f, n) ==
  LET t[k \in 0..n] == IF k = 0 THEN 0 ELSE t[k - 1] + f[k]
  IN  t[n]

\* The bytes the finished calls have sent.
Given == [k \in DOMAIN script |-> IF script[k].op \in Sending THEN script[k].length ELSE 0]
Sent == Total(Given, Len(ret))

\* SSL_write gives the kernel what it has room for, and returns when it has all.
SslWrite ==
  /\ InWrite /\ handshake = "none" /\ Room /\ ~reset
  /\ LET room == Window - Len(out)
         left == Call.length - written
         n == IF room < left THEN room ELSE left
     IN /\ out' = out \o [i \in 1..n |-> Sent + written + i]
        /\ IF n = left
           THEN written' = 0 /\ pc' = "idle" /\ ret' = Append(ret, <<>>)
           ELSE written' = written + n /\ UNCHANGED <<pc, ret>>
  /\ UNCHANGED <<script, step, want, buf, decrypted, handshake, in, peer, reset>>

Program ==
  \/ CallNext \/ TakeRecord \/ GiveReply \/ WantRead \/ WantWrite \/ Select
  \/ SyscallThrows \/ SslRead \/ ReadClosed \/ SslWrite
-----------------------------------------------------------------------------
\* The peer.  It asks for no handshake before the last one is over, and closes
\* its end after all it had to send, if at all.
Asking == {Hello, Done} \cap ToSet(in) # {} \/ handshake # "none"

PeerSends ==
  /\ peer_sent < PeerBytes /\ Len(in) < Window /\ ~reset
  /\ \E n \in 1..MaxRecord :
       /\ peer_sent + n <= PeerBytes
       /\ in' = Append(in, Data([i \in 1..n |-> peer_sent + i]))
       /\ peer_sent' = peer_sent + n
  /\ UNCHANGED <<program, library, out, received, hellos, closed, reset>>

PeerAsks ==
  /\ hellos < MaxHellos /\ Len(in) < Window /\ ~Asking /\ ~closed /\ ~reset
  /\ hellos' = hellos + 1
  /\ in' = Append(in, Hello)
  /\ UNCHANGED <<program, library, out, received, peer_sent, closed, reset>>

PeerReceives ==
  /\ out # <<>>
  /\ IF Head(out) = Reply
     THEN in' = Append(in, Done) /\ UNCHANGED received
     ELSE received' = Append(received, Head(out)) /\ UNCHANGED in
  /\ out' = Tail(out)
  /\ UNCHANGED <<program, library, peer_sent, hellos, closed, reset>>

PeerCloses ==
  /\ peer_sent = PeerBytes /\ ~Asking /\ ~closed /\ ~reset
  /\ closed' = TRUE /\ in' = Append(in, CloseNotify)
  /\ UNCHANGED <<program, library, out, received, peer_sent, hellos, reset>>

\* A reset loses what is on the way.
Reset ==
  /\ ~reset
  /\ reset' = TRUE /\ in' = <<>> /\ out' = <<>>
  /\ UNCHANGED <<program, library, peer>>

\* The program has made its calls, or one has thrown.
Finished ==
  /\ pc \in {"timeout", "failed"} \/ (pc = "idle" /\ step = Len(script))
  /\ UNCHANGED vars

Next ==
  \/ Program \/ SelectThrows
  \/ PeerSends \/ PeerAsks \/ PeerReceives \/ PeerCloses
  \/ Reset \/ Finished

Spec == Init /\ [][Next]_vars

\* The program runs, the peer sends its bytes and takes what it is sent, and a
\* record that stays on the way comes to be whole.  No time limit is counted on.
FairSpec ==
  Spec /\ WF_vars(Program) /\ SF_vars(TakeRecord) /\ WF_vars(PeerSends) /\ WF_vars(PeerReceives)
-----------------------------------------------------------------------------
\* Where in the peer's bytes call k began to receive: the calls before it took what
\* they returned, and the end of each line.
Used == [k \in DOMAIN ret |-> Len(ret[k]) + IF script[k].op = "RecvCLRF" THEN 2 ELSE 0]
From(k) == Total(Used, k - 1)

\* The bytes in the records on the way.
Carried == [j \in DOMAIN in |-> Len(in[j].bytes)]

\* Receiving calls of any kind may follow each other: each goes on where the one
\* before it ended, CRecv with as many bytes as it was asked for, RecvCLRF up to
\* the first CRLF that is all among its own bytes (not one whose CR the call before
\* took); and until a reset no byte is lost on the way.
StreamIntact ==
  /\ \A k \in 1..Len(ret) :
       /\ ret[k] = [i \in 1..Len(ret[k]) |-> From(k) + i]
       /\ script[k].op = "CRecv" => Len(ret[k]) = script[k].length
       /\ script[k].op = "RecvCLRF" => (From(k) + 2)..From(k + 1) \cap LineEnds = {From(k + 1)}
  /\ buf \o decrypted = [i \in 1..Len(buf \o decrypted) |-> From(Len(ret) + 1) + i]
  /\ ~reset => From(Len(ret) + 1) + Len(buf \o decrypted) + Total(Carried, Len(in)) = peer_sent

\* What the peer receives is what the calls were given, in order and once,
\* although each SSL_write is begun again after a WANT_READ or WANT_WRITE.
SentIntact ==
  LET bytes == {j \in DOMAIN out : out[j] # Reply}
  IN /\ received = [i \in 1..Len(received) |-> i]
     /\ \A i, j \in bytes : i < j => out[i] < out[j]
     /\ ~reset => /\ Len(received) <= Sent + written
                  /\ {out[j] : j \in bytes} = (Len(received) + 1)..(Sent + written)

\* Both directions of the connection, whatever handshakes come in between.
Intact == TypeOK /\ StreamIntact /\ SentIntact

\* Recv returns 0 only when the peer has closed its end and all is received: not for
\* a record that is still to come, nor for a peer that has sent all it has and may
\* yet ask for a handshake.
ZeroIsClose ==
  \A k \in 1..Len(ret) :
    script[k].op = "Recv" /\ ret[k] = <<>> => closed /\ From(k) = PeerBytes

\* A call throws only after a time-out or a failing select, a reset, or, if it
\* must have more bytes, the peer's close.
NoSpuriousThrow ==
  pc = "failed" =>
    \/ reset
    \/ closed /\ Call.op \in {"CRecv", "RecvCLRF"} /\ From(step) + Len(buf) = PeerBytes

\* The call waits for bytes that the peer does not send.
Starved ==
  /\ pc \in {"ssl", "select"} /\ Call.op \in Receiving
  /\ peer_sent = PeerBytes /\ decrypted = <<>> /\ \A r \in ToSet(in) : r.bytes = <<>>

\* CRecv puts its socket in write_fds when OpenSSL has to write first, and then gives
\* select the empty read_fds.
Forgotten == pc = "select" /\ Call.op = "CRecv" /\ want = "write"

\* A call without a time limit returns, whatever OpenSSL has to wait for and
\* wherever bytes are held, unless it is a CRecv that waits on the wrong set.
CallsReturn ==
  \A k \in UNION {DOMAIN s : s \in Scripts} :
    step = k ~> (Len(ret) >= k \/ pc \in {"timeout", "failed"} \/ Starved \/ Forgotten)
=============================================================================
