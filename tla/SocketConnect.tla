--------------------------- MODULE SocketConnect ---------------------------
(***************************************************************************)
(* One object of class Socket (src/src/Net/Socket.cpp) and the TCP socket   *)
(* the kernel keeps for it: Connect, which makes the descriptor             *)
(* non-blocking to wait no longer than it is told, the functions that set   *)
(* the blocking mode, and the default time limit of Recv and Send.  The     *)
(* program calls Connect again when it failed, as a client does.            *)
(***************************************************************************)
EXTENDS Integers

CONSTANT MaxTime    \* a bound: the longest time limit, in units of time

ASSUME TimeAssumption == MaxTime \in Nat

VARIABLES
  sock,       \* what the kernel remembers of connect(): "unconnected",
              \* "connecting" or "connected"
  tcp,        \* the connection: "closed", "syn" (sent, not answered), "established"
  so_error,   \* an error of the connection is pending
  nonblock,   \* O_NONBLOCK is set
  pc,         \* where Connect is; "idle" when it does not run
  timeout_,   \* its argument
  flags,      \* the value of nonblock that it read
  outcome,    \* how the last Connect ended
  timeout     \* the member: what is left of the default time limit

kernel == <<sock, tcp, so_error>>
locals == <<pc, timeout_, flags, outcome>>
socketVars == <<kernel, nonblock, locals, timeout>>

\* The time limits of a call: -1, 0, and any other.
Arguments == {"negative", "zero", "positive"}
Times == 0..MaxTime

SocketTypeOK ==
  /\ sock \in {"unconnected", "connecting", "connected"}
  /\ tcp \in {"closed", "syn", "established"}
  /\ so_error \in BOOLEAN /\ nonblock \in BOOLEAN /\ flags \in BOOLEAN
  /\ pc \in {"idle", "connect", "select", "check"}
  /\ timeout_ \in Arguments
  /\ outcome \in {"none", "returned", "threw"}
  /\ timeout \in Times

SocketInit ==
  /\ sock = "unconnected" /\ tcp = "closed" /\ so_error = FALSE
  /\ nonblock = FALSE /\ flags = FALSE
  /\ pc = "idle" /\ timeout_ = "zero" /\ outcome = "none"
  /\ timeout = MaxTime
-----------------------------------------------------------------------------
Goto(place) == pc' = place /\ UNCHANGED <<timeout_, flags, outcome>>
End(how) == pc' = "idle" /\ outcome' = how /\ UNCHANGED <<timeout_, flags>>

\* F_GETFL, F_SETFL.
Connect(t) ==
  /\ pc = "idle"
  /\ flags' = nonblock /\ nonblock' = TRUE
  /\ pc' = "connect" /\ timeout_' = t /\ outcome' = "none"
  /\ UNCHANGED <<kernel, timeout>>

\* connect() of a socket that has no connection sends a SYN.  The answer can be
\* there when it returns, above all from the same machine, or there is no route.
ConnectStarts ==
  /\ pc = "connect" /\ sock = "unconnected"
  /\ sock' = "connecting" /\ tcp' = "syn" /\ so_error' = FALSE
  /\ Goto("select")
  /\ UNCHANGED <<nonblock, timeout>>

ConnectAtOnce ==
  /\ pc = "connect" /\ sock = "unconnected"
  /\ sock' = "connected" /\ tcp' = "established" /\ so_error' = FALSE
  /\ End("returned")
  /\ UNCHANGED <<nonblock, timeout>>

ConnectRefused ==
  /\ pc = "connect" /\ sock = "unconnected"
  /\ End("threw")
  /\ UNCHANGED <<kernel, nonblock, timeout>>

\* connect() again, after a Connect that timed out or failed: EALREADY while the
\* SYN has no answer; success, once, when the connection was made meanwhile; the
\* error, after which the socket can start anew; EISCONN.
ConnectAgain ==
  /\ pc = "connect" /\ sock # "unconnected"
  /\ LET succeeds == sock = "connecting" /\ tcp = "established"
         fails == sock = "connecting" /\ tcp = "closed"
     IN /\ sock' = IF succeeds THEN "connected" ELSE IF fails THEN "unconnected" ELSE sock
        /\ so_error' = (so_error /\ ~fails)
        /\ End(IF succeeds THEN "returned" ELSE "threw")
  /\ UNCHANGED <<tcp, nonblock, timeout>>

\* A variant with a bug, for the sensitivity checks: a connection that is made is
\* not waited for, as if only exceptions were.
BugReady == so_error

\* A socket whose connection is made can be written to, one that failed both.
Ready == tcp # "syn"

\* A negative time limit makes select fail with EINVAL.
SelectFails ==
  /\ pc = "select" /\ timeout_ = "negative"
  /\ End("threw")
  /\ UNCHANGED <<kernel, nonblock, timeout>>

SelectReady ==
  /\ pc = "select" /\ timeout_ # "negative" /\ Ready
  /\ Goto("check")
  /\ UNCHANGED <<kernel, nonblock, timeout>>

\* With timeout_ 0 select is given NULL, and waits as long as the kernel tries.
SelectTimesOut ==
  /\ pc = "select" /\ timeout_ = "positive" /\ ~Ready
  /\ End("threw")
  /\ UNCHANGED <<kernel, nonblock, timeout>>

\* A variant without the test of SO_ERROR, and one that does not put back the flags.
BugCheck == pc = "check" /\ End("returned") /\ nonblock' = flags /\ UNCHANGED <<kernel, timeout>>
BugCheckFlags ==
  /\ pc = "check"
  /\ End(IF so_error THEN "threw" ELSE "returned")
  /\ so_error' = FALSE
  /\ UNCHANGED <<sock, tcp, nonblock, timeout>>

\* getsockopt(SO_ERROR) reads the error and takes it away.
Check ==
  /\ pc = "check"
  /\ End(IF so_error THEN "threw" ELSE "returned")
  /\ nonblock' = IF so_error THEN nonblock ELSE flags
  /\ so_error' = FALSE
  /\ UNCHANGED <<sock, tcp, timeout>>

ConnectStep ==
  \/ ConnectStarts \/ ConnectAtOnce \/ ConnectRefused \/ ConnectAgain
  \/ SelectFails \/ SelectReady \/ SelectTimesOut \/ Check
-----------------------------------------------------------------------------
\* The peer answers, or refuses, or the kernel gives up.
Accepted ==
  /\ tcp = "syn" /\ tcp' = "established"
  /\ UNCHANGED <<sock, so_error, nonblock, locals, timeout>>
Refused ==
  /\ tcp = "syn" /\ tcp' = "closed" /\ so_error' = TRUE
  /\ UNCHANGED <<sock, nonblock, locals, timeout>>
\* The peer resets the connection.
Reset ==
  /\ tcp = "established" /\ tcp' = "closed" /\ so_error' = TRUE
  /\ UNCHANGED <<sock, nonblock, locals, timeout>>
-----------------------------------------------------------------------------
BeBlocking == nonblock' = FALSE /\ UNCHANGED <<kernel, locals, timeout>>
BeNonBlocking == nonblock' = TRUE /\ UNCHANGED <<kernel, locals, timeout>>

\* A Socket made from a descriptor or by the program has the default; SetTimeout.
SetTimeout(t) ==
  /\ timeout' = t
  /\ UNCHANGED <<kernel, nonblock, locals>>

\* The timeval that select is given for the argument of a Recv or Send.
TranslateTime(t) ==
  CASE t = "negative" -> "NULL" [] t = "zero" -> "timeout" [] t = "positive" -> "timevs_"

\* A wait of Recv or Send that lasts e.  Linux takes the time that passed from
\* the timeval it was given, so the default shrinks with each wait by it.
Wait(t, e) ==
  /\ TranslateTime(t) = "timeout" => e <= timeout
  /\ timeout' = IF TranslateTime(t) = "timeout" THEN timeout - e ELSE timeout
  /\ UNCHANGED <<kernel, nonblock, locals>>

Program ==
  /\ pc = "idle"
  /\ \/ \E t \in Arguments : Connect(t) \/ \E e \in Times : Wait(t, e)
     \/ BeBlocking \/ BeNonBlocking
     \/ \E t \in Times : SetTimeout(t)

SocketNext == Program \/ ConnectStep \/ Accepted \/ Refused \/ Reset

\* Connect runs on, and the kernel gives up a SYN that is not answered.
SocketSpec ==
  /\ SocketInit /\ [][SocketNext]_socketVars
  /\ WF_socketVars(ConnectStep) /\ WF_socketVars(Accepted \/ Refused)
-----------------------------------------------------------------------------
\* Whatever becomes of the SYN while Connect runs, and whichever attempt it is, a
\* Connect that returns has made the connection: at that moment it is established,
\* or its reset came after SO_ERROR was read.
ReturnsConnected ==
  [][outcome # "returned" /\ outcome' = "returned" => tcp' = "established"]_socketVars

\* Connect ends, whatever its argument, if the kernel gives up at some time.
ConnectEnds == pc # "idle" ~> pc = "idle"
=============================================================================
