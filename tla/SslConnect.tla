---------------------------- MODULE SslConnect ----------------------------
(***************************************************************************)
(* The life of an SslClient (src/src/Net/SslClient.cpp): its context, the   *)
(* TCP connection that Connect of its base class makes (SocketConnect), and *)
(* SSLConnect, which starts a TLS session on it.  A program makes an object,*)
(* calls SSLConnect, again if it failed or the connection is lost, and      *)
(* deletes the object; then it makes the next one.                          *)
(***************************************************************************)
EXTENDS SocketConnect

CONSTANT MaxHandles    \* a bound: the SSL handles and contexts a program makes

ASSUME HandlesAssumption == MaxHandles \in Nat

VARIABLES
  object,     \* the SslClient exists
  step,       \* where SSLConnect is; "none" when it does not run
  ssl_m,      \* the SSL handle of the object, 0 for NULL
  session,    \* the SSL handle whose handshake used this TCP connection, or 0
  ready,      \* SSLConnect returned last, and nothing was called since
  verified,   \* the SSL handles whose certificate was found to be right
  allocated,  \* the SSL handles that SSL_new made and SSL_free did not free
  made,       \* how many were made
  contexts,   \* how many SSL_CTX are allocated
  first,      \* no Connect of the object ended yet but one that waited for the
              \* answer and returned, and BeNonBlocking was not called
  lossy       \* an object got a second SSL handle, or a constructor threw

ssl == <<object, step, ssl_m, session, ready, verified, allocated, made, contexts, first, lossy>>
vars == <<socketVars, ssl>>

TypeOK ==
  /\ SocketTypeOK
  /\ object \in BOOLEAN /\ ready \in BOOLEAN /\ first \in BOOLEAN /\ lossy \in BOOLEAN
  /\ step \in {"none", "connect", "new", "handshake", "certificate"}
  /\ ssl_m \in 0..MaxHandles /\ session \in 0..MaxHandles
  /\ verified \subseteq 1..MaxHandles /\ allocated \subseteq 1..MaxHandles
  /\ made \in 0..MaxHandles /\ contexts \in 0..MaxHandles

Init ==
  /\ SocketInit
  /\ object = FALSE /\ step = "none" /\ ssl_m = 0 /\ session = 0 /\ ready = FALSE
  /\ verified = {} /\ allocated = {} /\ made = 0 /\ contexts = 0
  /\ first = TRUE /\ lossy = FALSE
-----------------------------------------------------------------------------
\* SslClient: a new Socket, SSL_CTX_new, the key file.
Construct ==
  /\ ~object /\ contexts < MaxHandles
  /\ object' = TRUE /\ contexts' = contexts + 1 /\ first' = TRUE
  /\ sock' = "unconnected" /\ tcp' = "closed" /\ so_error' = FALSE /\ nonblock' = FALSE
  /\ outcome' = "none" /\ timeout' = MaxTime
  /\ UNCHANGED <<pc, timeout_, flags, step, ssl_m, session, ready, verified, allocated, made, lossy>>

\* The key file cannot be read: the constructor throws, ~Socket closes the
\* descriptor, and the context is lost.
ConstructThrows ==
  /\ ~object /\ contexts < MaxHandles
  /\ contexts' = contexts + 1 /\ lossy' = TRUE
  /\ UNCHANGED <<socketVars, object, step, ssl_m, session, ready, verified, allocated, made, first>>

\* A variant with a bug, for the sensitivity checks: the SSL handle is not freed.
BugDestroy ==
  /\ object /\ step = "none" /\ pc = "idle"
  /\ object' = FALSE /\ contexts' = contexts - 1
  /\ ssl_m' = 0 /\ session' = 0 /\ ready' = FALSE
  /\ sock' = "unconnected" /\ tcp' = "closed" /\ so_error' = FALSE /\ outcome' = "none"
  /\ UNCHANGED <<nonblock, pc, timeout_, flags, timeout, step, verified, allocated, made, first, lossy>>

\* ~SslClient, then ~Socket.
Destroy ==
  /\ object /\ step = "none" /\ pc = "idle"
  /\ object' = FALSE /\ contexts' = contexts - 1
  /\ allocated' = allocated \ {ssl_m}
  /\ ssl_m' = 0 /\ session' = 0 /\ ready' = FALSE
  /\ sock' = "unconnected" /\ tcp' = "closed" /\ so_error' = FALSE /\ outcome' = "none"
  /\ UNCHANGED <<nonblock, pc, timeout_, flags, timeout, step, verified, made, first, lossy>>
-----------------------------------------------------------------------------
SSLConnect(t) ==
  /\ object /\ step = "none" /\ made < MaxHandles
  /\ pc = "idle" /\ Connect(t)
  /\ step' = "connect" /\ ready' = FALSE
  /\ UNCHANGED <<object, ssl_m, session, verified, allocated, made, contexts, first, lossy>>

\* Connect runs, for SSLConnect or for the program itself.
Connecting ==
  /\ object /\ ConnectStep
  /\ step' = CASE step = "none" \/ pc' # "idle" -> step
               [] step = "connect" /\ pc' = "idle" /\ outcome' = "returned" -> "new"
               [] step = "connect" /\ pc' = "idle" /\ outcome' = "threw" -> "none"
  /\ first' = (first /\ ~(pc' = "idle" /\ (pc = "connect" \/ outcome' = "threw")))
  /\ session' = IF tcp' # tcp THEN 0 ELSE session
  /\ UNCHANGED <<object, ssl_m, ready, verified, allocated, made, contexts, lossy>>

\* SSL_new, and a BIO for the descriptor, which SSL_free will free with it.
NewHandle ==
  /\ object /\ step = "new" /\ made < MaxHandles
  /\ made' = made + 1 /\ ssl_m' = made + 1
  /\ allocated' = allocated \cup {made + 1}
  /\ lossy' = (lossy \/ ssl_m # 0)
  /\ step' = "handshake"
  /\ UNCHANGED <<socketVars, object, session, ready, verified, contexts, first>>

\* SSL_connect ends well only on a connection that carried no session before; on
\* a non-blocking socket only if the peer's answer is there already.
Handshake ==
  /\ object /\ step = "handshake"
  /\ tcp = "established" /\ session = 0
  /\ session' = ssl_m /\ step' = "certificate"
  /\ UNCHANGED <<socketVars, object, ssl_m, ready, verified, allocated, made, contexts, first, lossy>>

HandshakeThrows ==
  /\ object /\ step = "handshake"
  /\ session' = IF session = 0 THEN ssl_m ELSE session
  /\ step' = "none"
  /\ UNCHANGED <<socketVars, object, ssl_m, ready, verified, allocated, made, contexts, first, lossy>>

\* CheckCertification finds the chain and the common name right; BeNonBlocking.
CheckCertification ==
  /\ object /\ step = "certificate"
  /\ verified' = verified \cup {ssl_m} /\ ready' = TRUE /\ step' = "none"
  /\ nonblock' = TRUE /\ first' = FALSE
  /\ UNCHANGED <<kernel, locals, timeout, object, ssl_m, session, allocated, made, contexts, lossy>>

CertificateThrows ==
  /\ object /\ step = "certificate"
  /\ step' = "none"
  /\ UNCHANGED <<socketVars, object, ssl_m, session, ready, verified, allocated, made, contexts, first, lossy>>
-----------------------------------------------------------------------------
\* The functions of the base class, called by the program.
OfSocket ==
  /\ object /\ step = "none" /\ Program
  /\ ready' = (ready /\ pc' = "idle")
  /\ first' = (first /\ (nonblock' => nonblock \/ pc' # "idle"))
  /\ UNCHANGED <<object, step, ssl_m, session, verified, allocated, made, contexts, lossy>>

Kernel == object /\ (Accepted \/ Refused \/ Reset) /\ UNCHANGED ssl

Next ==
  \/ Construct \/ ConstructThrows \/ Destroy \/ OfSocket \/ Kernel \/ Connecting
  \/ \E t \in Arguments : SSLConnect(t)
  \/ NewHandle \/ Handshake \/ HandshakeThrows \/ CheckCertification \/ CertificateThrows

\* Connect runs on, and the kernel gives up a SYN that is not answered.  Nothing is
\* assumed of a handshake: the peer may never answer it.
Spec ==
  /\ Init /\ [][Next]_vars
  /\ WF_vars(Connecting) /\ WF_vars(object /\ (Accepted \/ Refused) /\ UNCHANGED ssl)
-----------------------------------------------------------------------------
\* The first SSLConnect of an object shakes hands on a socket in blocking mode, as
\* it must, for SSL_connect is called once; the exceptions are a connection that
\* was answered at once, and an attempt after one that failed.
FirstHandshakeWaits == first /\ step = "handshake" => ~nonblock

\* What SSLConnect has returned with stays so until the program calls Connect or
\* SSLConnect again: the object's own SSL handle has the session of the connection
\* the socket has now, and its certificate was found to be right.
ReadyIsVerified ==
  ready => ssl_m \in verified /\ session = ssl_m /\ ssl_m \in allocated /\ sock # "unconnected"

\* If no constructor throws and no object is made to connect again after its
\* handshake began, every SSL handle and context is freed with its object.
NothingLost ==
  ~lossy => /\ allocated = {ssl_m} \ {0}
            /\ contexts = IF object THEN 1 ELSE 0
=============================================================================
