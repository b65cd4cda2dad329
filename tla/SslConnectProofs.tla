-------------------------- MODULE SslConnectProofs --------------------------
(***************************************************************************)
(* Proofs about SslConnect, and SocketConnect in it, for any time limits and *)
(* any number of handles.                                                    *)
(***************************************************************************)
EXTENDS SslConnect, TLAPS

\* Where SSLConnect and Connect can be at the same time.
Stations ==
  /\ step = "connect" => pc # "idle"
  /\ step \in {"new", "handshake", "certificate"} => pc = "idle"
  /\ ready => step = "none" /\ pc = "idle" /\ object
  /\ ~object => step = "none" /\ pc = "idle" /\ ssl_m = 0
  /\ object => contexts > 0

\* What Connect knows of the connection while it waits.
Waiting ==
  /\ pc \in {"select", "check"} => sock = "connecting" /\ (tcp = "closed" => so_error)
  /\ pc = "check" => tcp # "syn"

\* The blocking mode, or what Connect will make of it, before the first handshake.
Starts == first => IF pc = "idle" THEN ~nonblock ELSE ~flags

\* The session of an SSLConnect that has come far enough, or returned.
Sessions ==
  /\ step \in {"new", "handshake", "certificate"} \/ ready => sock # "unconnected"
  /\ step \in {"handshake", "certificate"} \/ ready => ssl_m \in allocated /\ ssl_m # 0
  /\ step = "certificate" \/ ready => session = ssl_m
  /\ ready => ssl_m \in verified

\* The inductive invariant.
Inv == TypeOK /\ Stations /\ Waiting /\ Starts /\ Sessions /\ NothingLost

-----------------------------------------------------------------------------
\* It holds before the first object.
LEMMA InitInv == Init => Inv
<1> SUFFICES ASSUME Init PROVE Inv
  OBVIOUS
<1> USE TimeAssumption, HandlesAssumption DEF Init, SocketInit
<1>1. TypeOK
  <2>1. timeout \in Times
    BY DEF Times
  <2>2. ssl_m \in 0..MaxHandles /\ session \in 0..MaxHandles
        /\ made \in 0..MaxHandles /\ contexts \in 0..MaxHandles
    OBVIOUS
  <2>3. object \in BOOLEAN /\ ready \in BOOLEAN /\ first \in BOOLEAN /\ lossy \in BOOLEAN
        /\ so_error \in BOOLEAN /\ nonblock \in BOOLEAN /\ flags \in BOOLEAN
    OBVIOUS
  <2>4. QED
    BY <2>1, <2>2, <2>3, Zenon DEF TypeOK, SocketTypeOK, Arguments
<1>2. Stations /\ Waiting /\ Starts
  BY DEF Stations, Waiting, Starts
<1>3. Sessions /\ NothingLost
  BY DEF Sessions, NothingLost
<1>4. QED
  BY <1>1, <1>2, <1>3 DEF Inv

\* A new object preserves it.
LEMMA ConstructInv == ASSUME Inv, Construct PROVE Inv'
<1> USE TimeAssumption, HandlesAssumption DEF Construct
<1>1. TypeOK'
  <2>1. sock' \in {"unconnected", "connecting", "connected"} /\ tcp' \in {"closed", "syn", "established"}
    BY DEF Inv, TypeOK, SocketTypeOK
  <2>2. so_error' \in BOOLEAN /\ nonblock' \in BOOLEAN /\ flags' \in BOOLEAN
    BY DEF Inv, TypeOK, SocketTypeOK
  <2>3. pc' \in {"idle", "connect", "select", "check"} /\ timeout_' \in Arguments
    BY DEF Inv, TypeOK, SocketTypeOK, Arguments
  <2>4. outcome' \in {"none", "returned", "threw"}
    BY DEF Inv, TypeOK, SocketTypeOK
  <2>5. timeout' \in Times
    BY DEF Inv, TypeOK, SocketTypeOK, Times
  <2>6. object' \in BOOLEAN /\ ready' \in BOOLEAN /\ first' \in BOOLEAN /\ lossy' \in BOOLEAN
    BY DEF Inv, TypeOK, SocketTypeOK
  <2>7. step' \in {"none", "connect", "new", "handshake", "certificate"}
    BY DEF Inv, TypeOK, SocketTypeOK, Stations
  <2>8. ssl_m' \in 0..MaxHandles /\ session' \in 0..MaxHandles
    BY DEF Inv, TypeOK, SocketTypeOK, Stations
  <2>9. verified' \subseteq 1..MaxHandles /\ allocated' \subseteq 1..MaxHandles
    BY DEF Inv, TypeOK, SocketTypeOK, Stations
  <2>10. made' \in 0..MaxHandles /\ contexts' \in 0..MaxHandles
    BY DEF Inv, TypeOK, SocketTypeOK, Stations
  <2>11. QED
    BY <2>1, <2>2, <2>3, <2>4, <2>5, <2>6, <2>7, <2>8, <2>9, <2>10 DEF TypeOK, SocketTypeOK
<1>2. Stations'
  BY DEF Inv, TypeOK, SocketTypeOK, Stations
<1>3. Waiting'
  BY DEF Inv, Waiting, Stations
<1>4. Starts'
  BY DEF Inv, Starts, Stations
<1>5. Sessions'
  BY DEF Inv, TypeOK, Stations, Waiting, Sessions
<1>6. NothingLost'
  BY DEF Inv, TypeOK, Stations, NothingLost
<1>7. QED
  BY <1>1, <1>2, <1>3, <1>4, <1>5, <1>6 DEF Inv

\* So does a constructor that throws.
LEMMA ConstructThrowsInv == ASSUME Inv, ConstructThrows PROVE Inv'
<1> USE TimeAssumption, HandlesAssumption DEF ConstructThrows, socketVars, kernel, locals
<1>1. TypeOK'
  <2>1. sock' \in {"unconnected", "connecting", "connected"} /\ tcp' \in {"closed", "syn", "established"}
    BY DEF Inv, TypeOK, SocketTypeOK
  <2>2. so_error' \in BOOLEAN /\ nonblock' \in BOOLEAN /\ flags' \in BOOLEAN
    BY DEF Inv, TypeOK, SocketTypeOK
  <2>3. pc' \in {"idle", "connect", "select", "check"} /\ timeout_' \in Arguments
    BY DEF Inv, TypeOK, SocketTypeOK, Arguments
  <2>4. outcome' \in {"none", "returned", "threw"}
    BY DEF Inv, TypeOK, SocketTypeOK
  <2>5. timeout' \in Times
    BY DEF Inv, TypeOK, SocketTypeOK, Times
  <2>6. object' \in BOOLEAN /\ ready' \in BOOLEAN /\ first' \in BOOLEAN /\ lossy' \in BOOLEAN
    BY DEF Inv, TypeOK, SocketTypeOK
  <2>7. step' \in {"none", "connect", "new", "handshake", "certificate"}
    BY DEF Inv, TypeOK, SocketTypeOK, Stations
  <2>8. ssl_m' \in 0..MaxHandles /\ session' \in 0..MaxHandles
    BY DEF Inv, TypeOK, SocketTypeOK, Stations
  <2>9. verified' \subseteq 1..MaxHandles /\ allocated' \subseteq 1..MaxHandles
    BY DEF Inv, TypeOK, SocketTypeOK, Stations
  <2>10. made' \in 0..MaxHandles /\ contexts' \in 0..MaxHandles
    BY DEF Inv, TypeOK, SocketTypeOK, Stations
  <2>11. QED
    BY <2>1, <2>2, <2>3, <2>4, <2>5, <2>6, <2>7, <2>8, <2>9, <2>10 DEF TypeOK, SocketTypeOK
<1>2. Stations'
  BY DEF Inv, TypeOK, SocketTypeOK, Stations
<1>3. Waiting'
  BY DEF Inv, Waiting, Stations
<1>4. Starts'
  BY DEF Inv, Starts, Stations
<1>5. Sessions'
  BY DEF Inv, TypeOK, Stations, Waiting, Sessions
<1>6. NothingLost'
  BY DEF Inv, TypeOK, Stations, NothingLost
<1>7. QED
  BY <1>1, <1>2, <1>3, <1>4, <1>5, <1>6 DEF Inv

\* So does the destructor.
LEMMA DestroyInv == ASSUME Inv, Destroy PROVE Inv'
<1> USE TimeAssumption, HandlesAssumption DEF Destroy
<1>1. TypeOK'
  <2>1. sock' \in {"unconnected", "connecting", "connected"} /\ tcp' \in {"closed", "syn", "established"}
    BY DEF Inv, TypeOK, SocketTypeOK
  <2>2. so_error' \in BOOLEAN /\ nonblock' \in BOOLEAN /\ flags' \in BOOLEAN
    BY DEF Inv, TypeOK, SocketTypeOK
  <2>3. pc' \in {"idle", "connect", "select", "check"} /\ timeout_' \in Arguments
    BY DEF Inv, TypeOK, SocketTypeOK, Arguments
  <2>4. outcome' \in {"none", "returned", "threw"}
    BY DEF Inv, TypeOK, SocketTypeOK
  <2>5. timeout' \in Times
    BY DEF Inv, TypeOK, SocketTypeOK, Times
  <2>6. object' \in BOOLEAN /\ ready' \in BOOLEAN /\ first' \in BOOLEAN /\ lossy' \in BOOLEAN
    BY DEF Inv, TypeOK, SocketTypeOK
  <2>7. step' \in {"none", "connect", "new", "handshake", "certificate"}
    BY DEF Inv, TypeOK, SocketTypeOK, Stations
  <2>8. ssl_m' \in 0..MaxHandles /\ session' \in 0..MaxHandles
    BY DEF Inv, TypeOK, SocketTypeOK, Stations
  <2>9. verified' \subseteq 1..MaxHandles /\ allocated' \subseteq 1..MaxHandles
    BY DEF Inv, TypeOK, SocketTypeOK, Stations
  <2>10. made' \in 0..MaxHandles /\ contexts' \in 0..MaxHandles
    BY DEF Inv, TypeOK, SocketTypeOK, Stations
  <2>11. QED
    BY <2>1, <2>2, <2>3, <2>4, <2>5, <2>6, <2>7, <2>8, <2>9, <2>10 DEF TypeOK, SocketTypeOK
<1>2. Stations'
  BY DEF Inv, TypeOK, SocketTypeOK, Stations
<1>3. Waiting'
  BY DEF Inv, Waiting, Stations
<1>4. Starts'
  BY DEF Inv, Starts, Stations
<1>5. Sessions'
  BY DEF Inv, TypeOK, Stations, Waiting, Sessions
<1>6. NothingLost'
  BY DEF Inv, TypeOK, Stations, NothingLost
<1>7. QED
  BY <1>1, <1>2, <1>3, <1>4, <1>5, <1>6 DEF Inv

\* So does a new SSL handle.
LEMMA NewHandleInv == ASSUME Inv, NewHandle PROVE Inv'
<1> USE TimeAssumption, HandlesAssumption DEF NewHandle, socketVars, kernel, locals
<1>1. TypeOK'
  <2>1. sock' \in {"unconnected", "connecting", "connected"} /\ tcp' \in {"closed", "syn", "established"}
    BY DEF Inv, TypeOK, SocketTypeOK
  <2>2. so_error' \in BOOLEAN /\ nonblock' \in BOOLEAN /\ flags' \in BOOLEAN
    BY DEF Inv, TypeOK, SocketTypeOK
  <2>3. pc' \in {"idle", "connect", "select", "check"} /\ timeout_' \in Arguments
    BY DEF Inv, TypeOK, SocketTypeOK, Arguments
  <2>4. outcome' \in {"none", "returned", "threw"}
    BY DEF Inv, TypeOK, SocketTypeOK
  <2>5. timeout' \in Times
    BY DEF Inv, TypeOK, SocketTypeOK, Times
  <2>6. object' \in BOOLEAN /\ ready' \in BOOLEAN /\ first' \in BOOLEAN /\ lossy' \in BOOLEAN
    BY DEF Inv, TypeOK, SocketTypeOK
  <2>7. step' \in {"none", "connect", "new", "handshake", "certificate"}
    BY DEF Inv, TypeOK, SocketTypeOK, Stations
  <2>8. ssl_m' \in 0..MaxHandles /\ session' \in 0..MaxHandles
    BY DEF Inv, TypeOK, SocketTypeOK, Stations
  <2>9. verified' \subseteq 1..MaxHandles /\ allocated' \subseteq 1..MaxHandles
    BY DEF Inv, TypeOK, SocketTypeOK, Stations
  <2>10. made' \in 0..MaxHandles /\ contexts' \in 0..MaxHandles
    BY DEF Inv, TypeOK, SocketTypeOK, Stations
  <2>11. QED
    BY <2>1, <2>2, <2>3, <2>4, <2>5, <2>6, <2>7, <2>8, <2>9, <2>10 DEF TypeOK, SocketTypeOK
<1>2. Stations'
  BY DEF Inv, TypeOK, SocketTypeOK, Stations
<1>3. Waiting'
  BY DEF Inv, Waiting, Stations
<1>4. Starts'
  BY DEF Inv, Starts, Stations
<1>5. Sessions'
  BY DEF Inv, TypeOK, Stations, Waiting, Sessions
<1>6. NothingLost'
  <2>1. SUFFICES ASSUME ~lossy' PROVE allocated' = {ssl_m'} \ {0} /\ contexts' = IF object' THEN 1 ELSE 0
    BY DEF NothingLost
  <2>2. ~lossy /\ ssl_m = 0 /\ made + 1 # 0
    <3>1. lossy' = (lossy \/ ssl_m # 0)
      BY DEF NewHandle
    <3>2. made + 1 # 0
      BY DEF Inv, TypeOK
    <3>3. ~lossy /\ ssl_m = 0
      BY <2>1, <3>1, Zenon
    <3>4. QED
      BY <3>2, <3>3
  <2>3. allocated = {} /\ contexts = IF object THEN 1 ELSE 0
    BY <2>2 DEF Inv, NothingLost
  <2>4. QED
    BY <2>2, <2>3
<1>7. QED
  BY <1>1, <1>2, <1>3, <1>4, <1>5, <1>6 DEF Inv

\* So does a handshake that ends well.
LEMMA HandshakeInv == ASSUME Inv, Handshake PROVE Inv'
<1> USE TimeAssumption, HandlesAssumption DEF Handshake, socketVars, kernel, locals
<1>1. TypeOK'
  <2>1. sock' \in {"unconnected", "connecting", "connected"} /\ tcp' \in {"closed", "syn", "established"}
    BY DEF Inv, TypeOK, SocketTypeOK
  <2>2. so_error' \in BOOLEAN /\ nonblock' \in BOOLEAN /\ flags' \in BOOLEAN
    BY DEF Inv, TypeOK, SocketTypeOK
  <2>3. pc' \in {"idle", "connect", "select", "check"} /\ timeout_' \in Arguments
    BY DEF Inv, TypeOK, SocketTypeOK, Arguments
  <2>4. outcome' \in {"none", "returned", "threw"}
    BY DEF Inv, TypeOK, SocketTypeOK
  <2>5. timeout' \in Times
    BY DEF Inv, TypeOK, SocketTypeOK, Times
  <2>6. object' \in BOOLEAN /\ ready' \in BOOLEAN /\ first' \in BOOLEAN /\ lossy' \in BOOLEAN
    BY DEF Inv, TypeOK, SocketTypeOK
  <2>7. step' \in {"none", "connect", "new", "handshake", "certificate"}
    BY DEF Inv, TypeOK, SocketTypeOK, Stations
  <2>8. ssl_m' \in 0..MaxHandles /\ session' \in 0..MaxHandles
    BY DEF Inv, TypeOK, SocketTypeOK, Stations
  <2>9. verified' \subseteq 1..MaxHandles /\ allocated' \subseteq 1..MaxHandles
    BY DEF Inv, TypeOK, SocketTypeOK, Stations
  <2>10. made' \in 0..MaxHandles /\ contexts' \in 0..MaxHandles
    BY DEF Inv, TypeOK, SocketTypeOK, Stations
  <2>11. QED
    BY <2>1, <2>2, <2>3, <2>4, <2>5, <2>6, <2>7, <2>8, <2>9, <2>10 DEF TypeOK, SocketTypeOK
<1>2. Stations'
  BY DEF Inv, TypeOK, SocketTypeOK, Stations
<1>3. Waiting'
  BY DEF Inv, Waiting, Stations
<1>4. Starts'
  BY DEF Inv, Starts, Stations
<1>5. Sessions'
  BY DEF Inv, TypeOK, Stations, Waiting, Sessions
<1>6. NothingLost'
  BY DEF Inv, TypeOK, Stations, NothingLost
<1>7. QED
  BY <1>1, <1>2, <1>3, <1>4, <1>5, <1>6 DEF Inv

\* So does one that does not.
LEMMA HandshakeThrowsInv == ASSUME Inv, HandshakeThrows PROVE Inv'
<1> USE TimeAssumption, HandlesAssumption DEF HandshakeThrows, socketVars, kernel, locals
<1>1. TypeOK'
  <2>1. sock' \in {"unconnected", "connecting", "connected"} /\ tcp' \in {"closed", "syn", "established"}
    BY DEF Inv, TypeOK, SocketTypeOK
  <2>2. so_error' \in BOOLEAN /\ nonblock' \in BOOLEAN /\ flags' \in BOOLEAN
    BY DEF Inv, TypeOK, SocketTypeOK
  <2>3. pc' \in {"idle", "connect", "select", "check"} /\ timeout_' \in Arguments
    BY DEF Inv, TypeOK, SocketTypeOK, Arguments
  <2>4. outcome' \in {"none", "returned", "threw"}
    BY DEF Inv, TypeOK, SocketTypeOK
  <2>5. timeout' \in Times
    BY DEF Inv, TypeOK, SocketTypeOK, Times
  <2>6. object' \in BOOLEAN /\ ready' \in BOOLEAN /\ first' \in BOOLEAN /\ lossy' \in BOOLEAN
    BY DEF Inv, TypeOK, SocketTypeOK
  <2>7. step' \in {"none", "connect", "new", "handshake", "certificate"}
    BY DEF Inv, TypeOK, SocketTypeOK, Stations
  <2>8. ssl_m' \in 0..MaxHandles /\ session' \in 0..MaxHandles
    BY DEF Inv, TypeOK, SocketTypeOK, Stations
  <2>9. verified' \subseteq 1..MaxHandles /\ allocated' \subseteq 1..MaxHandles
    BY DEF Inv, TypeOK, SocketTypeOK, Stations
  <2>10. made' \in 0..MaxHandles /\ contexts' \in 0..MaxHandles
    BY DEF Inv, TypeOK, SocketTypeOK, Stations
  <2>11. QED
    BY <2>1, <2>2, <2>3, <2>4, <2>5, <2>6, <2>7, <2>8, <2>9, <2>10 DEF TypeOK, SocketTypeOK
<1>2. Stations'
  BY DEF Inv, TypeOK, SocketTypeOK, Stations
<1>3. Waiting'
  BY DEF Inv, Waiting, Stations
<1>4. Starts'
  BY DEF Inv, Starts, Stations
<1>5. Sessions'
  BY DEF Inv, TypeOK, Stations, Waiting, Sessions
<1>6. NothingLost'
  BY DEF Inv, TypeOK, Stations, NothingLost
<1>7. QED
  BY <1>1, <1>2, <1>3, <1>4, <1>5, <1>6 DEF Inv

\* So does a certificate that is right.
LEMMA CheckCertificationInv == ASSUME Inv, CheckCertification PROVE Inv'
<1> USE TimeAssumption, HandlesAssumption DEF CheckCertification, kernel, locals
<1>1. TypeOK'
  <2>1. sock' \in {"unconnected", "connecting", "connected"} /\ tcp' \in {"closed", "syn", "established"}
    BY DEF Inv, TypeOK, SocketTypeOK
  <2>2. so_error' \in BOOLEAN /\ nonblock' \in BOOLEAN /\ flags' \in BOOLEAN
    BY DEF Inv, TypeOK, SocketTypeOK
  <2>3. pc' \in {"idle", "connect", "select", "check"} /\ timeout_' \in Arguments
    BY DEF Inv, TypeOK, SocketTypeOK, Arguments
  <2>4. outcome' \in {"none", "returned", "threw"}
    BY DEF Inv, TypeOK, SocketTypeOK
  <2>5. timeout' \in Times
    BY DEF Inv, TypeOK, SocketTypeOK, Times
  <2>6. object' \in BOOLEAN /\ ready' \in BOOLEAN /\ first' \in BOOLEAN /\ lossy' \in BOOLEAN
    BY DEF Inv, TypeOK, SocketTypeOK
  <2>7. step' \in {"none", "connect", "new", "handshake", "certificate"}
    BY DEF Inv, TypeOK, SocketTypeOK, Stations
  <2>8. ssl_m' \in 0..MaxHandles /\ session' \in 0..MaxHandles
    BY DEF Inv, TypeOK, SocketTypeOK, Stations
  <2>9. verified' \subseteq 1..MaxHandles /\ allocated' \subseteq 1..MaxHandles
    BY DEF Inv, TypeOK, Stations, Sessions
  <2>10. made' \in 0..MaxHandles /\ contexts' \in 0..MaxHandles
    BY DEF Inv, TypeOK, SocketTypeOK, Stations
  <2>11. QED
    BY <2>1, <2>2, <2>3, <2>4, <2>5, <2>6, <2>7, <2>8, <2>9, <2>10 DEF TypeOK, SocketTypeOK
<1>2. Stations'
  BY DEF Inv, TypeOK, SocketTypeOK, Stations
<1>3. Waiting'
  BY DEF Inv, Waiting, Stations
<1>4. Starts'
  BY DEF Inv, Starts, Stations
<1>5. Sessions'
  BY DEF Inv, TypeOK, Stations, Waiting, Sessions
<1>6. NothingLost'
  BY DEF Inv, TypeOK, Stations, NothingLost
<1>7. QED
  BY <1>1, <1>2, <1>3, <1>4, <1>5, <1>6 DEF Inv

\* So does one that is not.
LEMMA CertificateThrowsInv == ASSUME Inv, CertificateThrows PROVE Inv'
<1> USE TimeAssumption, HandlesAssumption DEF CertificateThrows, socketVars, kernel, locals
<1>1. TypeOK'
  <2>1. sock' \in {"unconnected", "connecting", "connected"} /\ tcp' \in {"closed", "syn", "established"}
    BY DEF Inv, TypeOK, SocketTypeOK
  <2>2. so_error' \in BOOLEAN /\ nonblock' \in BOOLEAN /\ flags' \in BOOLEAN
    BY DEF Inv, TypeOK, SocketTypeOK
  <2>3. pc' \in {"idle", "connect", "select", "check"} /\ timeout_' \in Arguments
    BY DEF Inv, TypeOK, SocketTypeOK, Arguments
  <2>4. outcome' \in {"none", "returned", "threw"}
    BY DEF Inv, TypeOK, SocketTypeOK
  <2>5. timeout' \in Times
    BY DEF Inv, TypeOK, SocketTypeOK, Times
  <2>6. object' \in BOOLEAN /\ ready' \in BOOLEAN /\ first' \in BOOLEAN /\ lossy' \in BOOLEAN
    BY DEF Inv, TypeOK, SocketTypeOK
  <2>7. step' \in {"none", "connect", "new", "handshake", "certificate"}
    BY DEF Inv, TypeOK, SocketTypeOK, Stations
  <2>8. ssl_m' \in 0..MaxHandles /\ session' \in 0..MaxHandles
    BY DEF Inv, TypeOK, SocketTypeOK, Stations
  <2>9. verified' \subseteq 1..MaxHandles /\ allocated' \subseteq 1..MaxHandles
    BY DEF Inv, TypeOK, SocketTypeOK, Stations
  <2>10. made' \in 0..MaxHandles /\ contexts' \in 0..MaxHandles
    BY DEF Inv, TypeOK, SocketTypeOK, Stations
  <2>11. QED
    BY <2>1, <2>2, <2>3, <2>4, <2>5, <2>6, <2>7, <2>8, <2>9, <2>10 DEF TypeOK, SocketTypeOK
<1>2. Stations'
  BY DEF Inv, TypeOK, SocketTypeOK, Stations
<1>3. Waiting'
  BY DEF Inv, Waiting, Stations
<1>4. Starts'
  BY DEF Inv, Starts, Stations
<1>5. Sessions'
  BY DEF Inv, TypeOK, Stations, Waiting, Sessions
<1>6. NothingLost'
  BY DEF Inv, TypeOK, Stations, NothingLost
<1>7. QED
  BY <1>1, <1>2, <1>3, <1>4, <1>5, <1>6 DEF Inv

\* So does the begin of SSLConnect.
LEMMA SSLConnectInv == ASSUME Inv, NEW t \in Arguments, SSLConnect(t) PROVE Inv'
<1> USE TimeAssumption, HandlesAssumption DEF SSLConnect, Connect, kernel
<1>1. TypeOK'
  <2>1. sock' \in {"unconnected", "connecting", "connected"} /\ tcp' \in {"closed", "syn", "established"}
    BY DEF Inv, TypeOK, SocketTypeOK
  <2>2. so_error' \in BOOLEAN /\ nonblock' \in BOOLEAN /\ flags' \in BOOLEAN
    BY DEF Inv, TypeOK, SocketTypeOK
  <2>3. pc' \in {"idle", "connect", "select", "check"} /\ timeout_' \in Arguments
    BY DEF Inv, TypeOK, SocketTypeOK, Arguments
  <2>4. outcome' \in {"none", "returned", "threw"}
    BY DEF Inv, TypeOK, SocketTypeOK
  <2>5. timeout' \in Times
    BY DEF Inv, TypeOK, SocketTypeOK, Times
  <2>6. object' \in BOOLEAN /\ ready' \in BOOLEAN /\ first' \in BOOLEAN /\ lossy' \in BOOLEAN
    BY DEF Inv, TypeOK, SocketTypeOK
  <2>7. step' \in {"none", "connect", "new", "handshake", "certificate"}
    BY DEF Inv, TypeOK, SocketTypeOK, Stations
  <2>8. ssl_m' \in 0..MaxHandles /\ session' \in 0..MaxHandles
    BY DEF Inv, TypeOK, SocketTypeOK, Stations
  <2>9. verified' \subseteq 1..MaxHandles /\ allocated' \subseteq 1..MaxHandles
    BY DEF Inv, TypeOK, SocketTypeOK, Stations
  <2>10. made' \in 0..MaxHandles /\ contexts' \in 0..MaxHandles
    BY DEF Inv, TypeOK, SocketTypeOK, Stations
  <2>11. QED
    BY <2>1, <2>2, <2>3, <2>4, <2>5, <2>6, <2>7, <2>8, <2>9, <2>10 DEF TypeOK, SocketTypeOK
<1>2. Stations'
  BY DEF Inv, TypeOK, SocketTypeOK, Stations
<1>3. Waiting'
  BY DEF Inv, Waiting, Stations
<1>4. Starts'
  BY DEF Inv, Starts, Stations
<1>5. Sessions'
  BY DEF Inv, TypeOK, Stations, Waiting, Sessions
<1>6. NothingLost'
  BY DEF Inv, TypeOK, Stations, NothingLost
<1>7. QED
  BY <1>1, <1>2, <1>3, <1>4, <1>5, <1>6 DEF Inv

\* So do the answers of the peer.
LEMMA KernelInv == ASSUME Inv, Kernel PROVE Inv'
<1> USE TimeAssumption, HandlesAssumption DEF Kernel, Accepted, Refused, Reset, ssl, locals
<1>1. TypeOK'
  <2>1. sock' \in {"unconnected", "connecting", "connected"} /\ tcp' \in {"closed", "syn", "established"}
    BY DEF Inv, TypeOK, SocketTypeOK
  <2>2. so_error' \in BOOLEAN /\ nonblock' \in BOOLEAN /\ flags' \in BOOLEAN
    BY DEF Inv, TypeOK, SocketTypeOK
  <2>3. pc' \in {"idle", "connect", "select", "check"} /\ timeout_' \in Arguments
    BY DEF Inv, TypeOK, SocketTypeOK, Arguments
  <2>4. outcome' \in {"none", "returned", "threw"}
    BY DEF Inv, TypeOK, SocketTypeOK
  <2>5. timeout' \in Times
    BY DEF Inv, TypeOK, SocketTypeOK, Times
  <2>6. object' \in BOOLEAN /\ ready' \in BOOLEAN /\ first' \in BOOLEAN /\ lossy' \in BOOLEAN
    BY DEF Inv, TypeOK, SocketTypeOK
  <2>7. step' \in {"none", "connect", "new", "handshake", "certificate"}
    BY DEF Inv, TypeOK, SocketTypeOK, Stations
  <2>8. ssl_m' \in 0..MaxHandles /\ session' \in 0..MaxHandles
    BY DEF Inv, TypeOK, SocketTypeOK, Stations
  <2>9. verified' \subseteq 1..MaxHandles /\ allocated' \subseteq 1..MaxHandles
    BY DEF Inv, TypeOK, SocketTypeOK, Stations
  <2>10. made' \in 0..MaxHandles /\ contexts' \in 0..MaxHandles
    BY DEF Inv, TypeOK, SocketTypeOK, Stations
  <2>11. QED
    BY <2>1, <2>2, <2>3, <2>4, <2>5, <2>6, <2>7, <2>8, <2>9, <2>10 DEF TypeOK, SocketTypeOK
<1>2. Stations'
  BY DEF Inv, TypeOK, SocketTypeOK, Stations
<1>3. Waiting'
  BY DEF Inv, Waiting, Stations
<1>4. Starts'
  BY DEF Inv, Starts, Stations
<1>5. Sessions'
  BY DEF Inv, TypeOK, Stations, Waiting, Sessions
<1>6. NothingLost'
  BY DEF Inv, TypeOK, Stations, NothingLost
<1>7. QED
  BY <1>1, <1>2, <1>3, <1>4, <1>5, <1>6 DEF Inv

\* So do the functions of the base class.
LEMMA OfSocketInv == ASSUME Inv, OfSocket PROVE Inv'
<1> USE TimeAssumption, HandlesAssumption DEF OfSocket, Program, Connect, Wait, BeBlocking, BeNonBlocking, SetTimeout, TranslateTime, kernel, locals
<1>1. TypeOK'
  <2>1. sock' \in {"unconnected", "connecting", "connected"} /\ tcp' \in {"closed", "syn", "established"}
    BY DEF Inv, TypeOK, SocketTypeOK
  <2>2. so_error' \in BOOLEAN /\ nonblock' \in BOOLEAN /\ flags' \in BOOLEAN
    BY DEF Inv, TypeOK, SocketTypeOK
  <2>3. pc' \in {"idle", "connect", "select", "check"} /\ timeout_' \in Arguments
    BY DEF Inv, TypeOK, SocketTypeOK, Arguments
  <2>4. outcome' \in {"none", "returned", "threw"}
    BY DEF Inv, TypeOK, SocketTypeOK
  <2>5. timeout' \in Times
    <3>1. timeout \in Times
      BY DEF Inv, TypeOK, SocketTypeOK
    <3>2. CASE \E t \in Arguments, e \in Times : Wait(t, e)
      <4>1. PICK t \in Arguments, e \in Times : Wait(t, e)
        BY <3>2
      <4>2. \/ e <= timeout /\ timeout' = timeout - e
            \/ UNCHANGED timeout
        BY <4>1 DEF Arguments
      <4>3. QED
        BY <3>1, <4>2 DEF Times
    <3>3. CASE \E t \in Times : SetTimeout(t)
      BY <3>1, <3>3 DEF Times
    <3>4. QED
      BY <3>1, <3>2, <3>3
  <2>6. object' \in BOOLEAN /\ ready' \in BOOLEAN /\ first' \in BOOLEAN /\ lossy' \in BOOLEAN
    BY DEF Inv, TypeOK, SocketTypeOK
  <2>7. step' \in {"none", "connect", "new", "handshake", "certificate"}
    BY DEF Inv, TypeOK, SocketTypeOK, Stations
  <2>8. ssl_m' \in 0..MaxHandles /\ session' \in 0..MaxHandles
    BY DEF Inv, TypeOK, SocketTypeOK, Stations
  <2>9. verified' \subseteq 1..MaxHandles /\ allocated' \subseteq 1..MaxHandles
    BY DEF Inv, TypeOK, SocketTypeOK, Stations
  <2>10. made' \in 0..MaxHandles /\ contexts' \in 0..MaxHandles
    BY DEF Inv, TypeOK, SocketTypeOK, Stations
  <2>11. QED
    BY <2>1, <2>2, <2>3, <2>4, <2>5, <2>6, <2>7, <2>8, <2>9, <2>10 DEF TypeOK, SocketTypeOK
<1>2. Stations'
  BY DEF Inv, TypeOK, SocketTypeOK, Stations
<1>3. Waiting'
  BY DEF Inv, Waiting, Stations
<1>4. Starts'
  <2>1. nonblock \in BOOLEAN /\ pc = "idle" /\ (first => ~nonblock)
    BY DEF Inv, TypeOK, SocketTypeOK, Starts
  <2>2. CASE \E t \in Arguments : Connect(t)
    <3>1. flags' = nonblock /\ pc' = "connect" /\ (first' => first)
      BY <2>2
    <3>2. QED
      BY <2>1, <3>1 DEF Starts
  <2>3. CASE ~\E t \in Arguments : Connect(t)
    <3>1. pc' = pc
      BY <2>3
    <3>2. QED
      BY <2>1, <3>1 DEF Starts
  <2>4. QED
    BY <2>2, <2>3
<1>5. Sessions'
  BY DEF Inv, TypeOK, Stations, Waiting, Sessions
<1>6. NothingLost'
  BY DEF Inv, TypeOK, Stations, NothingLost
<1>7. QED
  BY <1>1, <1>2, <1>3, <1>4, <1>5, <1>6 DEF Inv

\* So does each step of Connect.
LEMMA ConnectingInv == ASSUME Inv, Connecting PROVE Inv'
<1> USE TimeAssumption, HandlesAssumption DEF Connecting, Goto, End, kernel
<1>1. CASE ConnectStarts
  <2>1. TypeOK'
    <3>1. sock' \in {"unconnected", "connecting", "connected"} /\ tcp' \in {"closed", "syn", "established"}
      BY <1>1 DEF ConnectStarts, Inv, TypeOK, SocketTypeOK
    <3>2. so_error' \in BOOLEAN /\ nonblock' \in BOOLEAN /\ flags' \in BOOLEAN
      BY <1>1 DEF ConnectStarts, Inv, TypeOK, SocketTypeOK
    <3>3. pc' \in {"idle", "connect", "select", "check"} /\ timeout_' \in Arguments
      BY <1>1 DEF ConnectStarts, Inv, TypeOK, SocketTypeOK, Arguments
    <3>4. outcome' \in {"none", "returned", "threw"}
      BY <1>1 DEF ConnectStarts, Inv, TypeOK, SocketTypeOK
    <3>5. timeout' \in Times
      BY <1>1 DEF ConnectStarts, Inv, TypeOK, SocketTypeOK, Times
    <3>6. object' \in BOOLEAN /\ ready' \in BOOLEAN /\ first' \in BOOLEAN /\ lossy' \in BOOLEAN
      BY <1>1 DEF ConnectStarts, Inv, TypeOK, SocketTypeOK
    <3>7. step' \in {"none", "connect", "new", "handshake", "certificate"}
      BY <1>1 DEF ConnectStarts, Inv, TypeOK, SocketTypeOK, Stations
    <3>8. ssl_m' \in 0..MaxHandles /\ session' \in 0..MaxHandles
      BY <1>1 DEF ConnectStarts, Inv, TypeOK, SocketTypeOK, Stations
    <3>9. verified' \subseteq 1..MaxHandles /\ allocated' \subseteq 1..MaxHandles
      BY <1>1 DEF ConnectStarts, Inv, TypeOK, SocketTypeOK, Stations
    <3>10. made' \in 0..MaxHandles /\ contexts' \in 0..MaxHandles
      BY <1>1 DEF ConnectStarts, Inv, TypeOK, SocketTypeOK, Stations
    <3>11. QED
      BY <3>1, <3>2, <3>3, <3>4, <3>5, <3>6, <3>7, <3>8, <3>9, <3>10 DEF TypeOK, SocketTypeOK
  <2>2. Stations'
    BY <1>1 DEF ConnectStarts, Inv, TypeOK, SocketTypeOK, Stations
  <2>3. Waiting'
    BY <1>1 DEF ConnectStarts, Inv, Waiting, Stations
  <2>4. Starts'
    BY <1>1 DEF ConnectStarts, Inv, Starts, Stations
  <2>5. Sessions'
    BY <1>1 DEF ConnectStarts, Inv, TypeOK, Stations, Waiting, Sessions
  <2>6. NothingLost'
    BY <1>1 DEF ConnectStarts, Inv, TypeOK, Stations, NothingLost
  <2>7. QED
    BY <2>1, <2>2, <2>3, <2>4, <2>5, <2>6 DEF Inv
<1>2. CASE ConnectAtOnce
  <2>1. TypeOK'
    <3>1. sock' \in {"unconnected", "connecting", "connected"} /\ tcp' \in {"closed", "syn", "established"}
      BY <1>2 DEF ConnectAtOnce, Inv, TypeOK, SocketTypeOK
    <3>2. so_error' \in BOOLEAN /\ nonblock' \in BOOLEAN /\ flags' \in BOOLEAN
      BY <1>2 DEF ConnectAtOnce, Inv, TypeOK, SocketTypeOK
    <3>3. pc' \in {"idle", "connect", "select", "check"} /\ timeout_' \in Arguments
      BY <1>2 DEF ConnectAtOnce, Inv, TypeOK, SocketTypeOK, Arguments
    <3>4. outcome' \in {"none", "returned", "threw"}
      BY <1>2 DEF ConnectAtOnce, Inv, TypeOK, SocketTypeOK
    <3>5. timeout' \in Times
      BY <1>2 DEF ConnectAtOnce, Inv, TypeOK, SocketTypeOK, Times
    <3>6. object' \in BOOLEAN /\ ready' \in BOOLEAN /\ first' \in BOOLEAN /\ lossy' \in BOOLEAN
      BY <1>2 DEF ConnectAtOnce, Inv, TypeOK, SocketTypeOK
    <3>7. step' \in {"none", "connect", "new", "handshake", "certificate"}
      BY <1>2 DEF ConnectAtOnce, Inv, TypeOK, SocketTypeOK, Stations
    <3>8. ssl_m' \in 0..MaxHandles /\ session' \in 0..MaxHandles
      BY <1>2 DEF ConnectAtOnce, Inv, TypeOK, SocketTypeOK, Stations
    <3>9. verified' \subseteq 1..MaxHandles /\ allocated' \subseteq 1..MaxHandles
      BY <1>2 DEF ConnectAtOnce, Inv, TypeOK, SocketTypeOK, Stations
    <3>10. made' \in 0..MaxHandles /\ contexts' \in 0..MaxHandles
      BY <1>2 DEF ConnectAtOnce, Inv, TypeOK, SocketTypeOK, Stations
    <3>11. QED
      BY <3>1, <3>2, <3>3, <3>4, <3>5, <3>6, <3>7, <3>8, <3>9, <3>10 DEF TypeOK, SocketTypeOK
  <2>2. Stations'
    BY <1>2 DEF ConnectAtOnce, Inv, TypeOK, SocketTypeOK, Stations
  <2>3. Waiting'
    BY <1>2 DEF ConnectAtOnce, Inv, Waiting, Stations
  <2>4. Starts'
    BY <1>2 DEF ConnectAtOnce, Inv, Starts, Stations
  <2>5. Sessions'
    BY <1>2 DEF ConnectAtOnce, Inv, TypeOK, Stations, Waiting, Sessions
  <2>6. NothingLost'
    BY <1>2 DEF ConnectAtOnce, Inv, TypeOK, Stations, NothingLost
  <2>7. QED
    BY <2>1, <2>2, <2>3, <2>4, <2>5, <2>6 DEF Inv
<1>3. CASE ConnectRefused
  <2>1. TypeOK'
    <3>1. sock' \in {"unconnected", "connecting", "connected"} /\ tcp' \in {"closed", "syn", "established"}
      BY <1>3 DEF ConnectRefused, Inv, TypeOK, SocketTypeOK
    <3>2. so_error' \in BOOLEAN /\ nonblock' \in BOOLEAN /\ flags' \in BOOLEAN
      BY <1>3 DEF ConnectRefused, Inv, TypeOK, SocketTypeOK
    <3>3. pc' \in {"idle", "connect", "select", "check"} /\ timeout_' \in Arguments
      BY <1>3 DEF ConnectRefused, Inv, TypeOK, SocketTypeOK, Arguments
    <3>4. outcome' \in {"none", "returned", "threw"}
      BY <1>3 DEF ConnectRefused, Inv, TypeOK, SocketTypeOK
    <3>5. timeout' \in Times
      BY <1>3 DEF ConnectRefused, Inv, TypeOK, SocketTypeOK, Times
    <3>6. object' \in BOOLEAN /\ ready' \in BOOLEAN /\ first' \in BOOLEAN /\ lossy' \in BOOLEAN
      BY <1>3 DEF ConnectRefused, Inv, TypeOK, SocketTypeOK
    <3>7. step' \in {"none", "connect", "new", "handshake", "certificate"}
      BY <1>3 DEF ConnectRefused, Inv, TypeOK, SocketTypeOK, Stations
    <3>8. ssl_m' \in 0..MaxHandles /\ session' \in 0..MaxHandles
      BY <1>3 DEF ConnectRefused, Inv, TypeOK, SocketTypeOK, Stations
    <3>9. verified' \subseteq 1..MaxHandles /\ allocated' \subseteq 1..MaxHandles
      BY <1>3 DEF ConnectRefused, Inv, TypeOK, SocketTypeOK, Stations
    <3>10. made' \in 0..MaxHandles /\ contexts' \in 0..MaxHandles
      BY <1>3 DEF ConnectRefused, Inv, TypeOK, SocketTypeOK, Stations
    <3>11. QED
      BY <3>1, <3>2, <3>3, <3>4, <3>5, <3>6, <3>7, <3>8, <3>9, <3>10 DEF TypeOK, SocketTypeOK
  <2>2. Stations'
    BY <1>3 DEF ConnectRefused, Inv, TypeOK, SocketTypeOK, Stations
  <2>3. Waiting'
    BY <1>3 DEF ConnectRefused, Inv, Waiting, Stations
  <2>4. Starts'
    BY <1>3 DEF ConnectRefused, Inv, Starts, Stations
  <2>5. Sessions'
    BY <1>3 DEF ConnectRefused, Inv, TypeOK, Stations, Waiting, Sessions
  <2>6. NothingLost'
    BY <1>3 DEF ConnectRefused, Inv, TypeOK, Stations, NothingLost
  <2>7. QED
    BY <2>1, <2>2, <2>3, <2>4, <2>5, <2>6 DEF Inv
<1>4. CASE ConnectAgain
  <2>1. TypeOK'
    <3>1. sock' \in {"unconnected", "connecting", "connected"} /\ tcp' \in {"closed", "syn", "established"}
      BY <1>4 DEF ConnectAgain, Inv, TypeOK, SocketTypeOK
    <3>2. so_error' \in BOOLEAN /\ nonblock' \in BOOLEAN /\ flags' \in BOOLEAN
      BY <1>4 DEF ConnectAgain, Inv, TypeOK, SocketTypeOK
    <3>3. pc' \in {"idle", "connect", "select", "check"} /\ timeout_' \in Arguments
      BY <1>4 DEF ConnectAgain, Inv, TypeOK, SocketTypeOK, Arguments
    <3>4. outcome' \in {"none", "returned", "threw"}
      BY <1>4 DEF ConnectAgain, Inv, TypeOK, SocketTypeOK
    <3>5. timeout' \in Times
      BY <1>4 DEF ConnectAgain, Inv, TypeOK, SocketTypeOK, Times
    <3>6. object' \in BOOLEAN /\ ready' \in BOOLEAN /\ first' \in BOOLEAN /\ lossy' \in BOOLEAN
      BY <1>4 DEF ConnectAgain, Inv, TypeOK, SocketTypeOK
    <3>7. step' \in {"none", "connect", "new", "handshake", "certificate"}
      BY <1>4 DEF ConnectAgain, Inv, TypeOK, SocketTypeOK, Stations
    <3>8. ssl_m' \in 0..MaxHandles /\ session' \in 0..MaxHandles
      BY <1>4 DEF ConnectAgain, Inv, TypeOK, SocketTypeOK, Stations
    <3>9. verified' \subseteq 1..MaxHandles /\ allocated' \subseteq 1..MaxHandles
      BY <1>4 DEF ConnectAgain, Inv, TypeOK, SocketTypeOK, Stations
    <3>10. made' \in 0..MaxHandles /\ contexts' \in 0..MaxHandles
      BY <1>4 DEF ConnectAgain, Inv, TypeOK, SocketTypeOK, Stations
    <3>11. QED
      BY <3>1, <3>2, <3>3, <3>4, <3>5, <3>6, <3>7, <3>8, <3>9, <3>10 DEF TypeOK, SocketTypeOK
  <2>2. Stations'
    BY <1>4 DEF ConnectAgain, Inv, TypeOK, SocketTypeOK, Stations
  <2>3. Waiting'
    BY <1>4 DEF ConnectAgain, Inv, Waiting, Stations
  <2>4. Starts'
    BY <1>4 DEF ConnectAgain, Inv, Starts, Stations
  <2>5. Sessions'
    BY <1>4 DEF ConnectAgain, Inv, TypeOK, Stations, Waiting, Sessions
  <2>6. NothingLost'
    BY <1>4 DEF ConnectAgain, Inv, TypeOK, Stations, NothingLost
  <2>7. QED
    BY <2>1, <2>2, <2>3, <2>4, <2>5, <2>6 DEF Inv
<1>5. CASE SelectFails
  <2>1. TypeOK'
    <3>1. sock' \in {"unconnected", "connecting", "connected"} /\ tcp' \in {"closed", "syn", "established"}
      BY <1>5 DEF SelectFails, Ready, Inv, TypeOK, SocketTypeOK
    <3>2. so_error' \in BOOLEAN /\ nonblock' \in BOOLEAN /\ flags' \in BOOLEAN
      BY <1>5 DEF SelectFails, Ready, Inv, TypeOK, SocketTypeOK
    <3>3. pc' \in {"idle", "connect", "select", "check"} /\ timeout_' \in Arguments
      BY <1>5 DEF SelectFails, Ready, Inv, TypeOK, SocketTypeOK, Arguments
    <3>4. outcome' \in {"none", "returned", "threw"}
      BY <1>5 DEF SelectFails, Ready, Inv, TypeOK, SocketTypeOK
    <3>5. timeout' \in Times
      BY <1>5 DEF SelectFails, Ready, Inv, TypeOK, SocketTypeOK, Times
    <3>6. object' \in BOOLEAN /\ ready' \in BOOLEAN /\ first' \in BOOLEAN /\ lossy' \in BOOLEAN
      BY <1>5 DEF SelectFails, Ready, Inv, TypeOK, SocketTypeOK
    <3>7. step' \in {"none", "connect", "new", "handshake", "certificate"}
      BY <1>5 DEF SelectFails, Ready, Inv, TypeOK, SocketTypeOK, Stations
    <3>8. ssl_m' \in 0..MaxHandles /\ session' \in 0..MaxHandles
      BY <1>5 DEF SelectFails, Ready, Inv, TypeOK, SocketTypeOK, Stations
    <3>9. verified' \subseteq 1..MaxHandles /\ allocated' \subseteq 1..MaxHandles
      BY <1>5 DEF SelectFails, Ready, Inv, TypeOK, SocketTypeOK, Stations
    <3>10. made' \in 0..MaxHandles /\ contexts' \in 0..MaxHandles
      BY <1>5 DEF SelectFails, Ready, Inv, TypeOK, SocketTypeOK, Stations
    <3>11. QED
      BY <3>1, <3>2, <3>3, <3>4, <3>5, <3>6, <3>7, <3>8, <3>9, <3>10 DEF TypeOK, SocketTypeOK
  <2>2. Stations'
    BY <1>5 DEF SelectFails, Ready, Inv, TypeOK, SocketTypeOK, Stations
  <2>3. Waiting'
    BY <1>5 DEF SelectFails, Ready, Inv, Waiting, Stations
  <2>4. Starts'
    BY <1>5 DEF SelectFails, Ready, Inv, Starts, Stations
  <2>5. Sessions'
    BY <1>5 DEF SelectFails, Ready, Inv, TypeOK, Stations, Waiting, Sessions
  <2>6. NothingLost'
    BY <1>5 DEF SelectFails, Ready, Inv, TypeOK, Stations, NothingLost
  <2>7. QED
    BY <2>1, <2>2, <2>3, <2>4, <2>5, <2>6 DEF Inv
<1>6. CASE SelectReady
  <2>1. TypeOK'
    <3>1. sock' \in {"unconnected", "connecting", "connected"} /\ tcp' \in {"closed", "syn", "established"}
      BY <1>6 DEF SelectReady, Ready, Inv, TypeOK, SocketTypeOK
    <3>2. so_error' \in BOOLEAN /\ nonblock' \in BOOLEAN /\ flags' \in BOOLEAN
      BY <1>6 DEF SelectReady, Ready, Inv, TypeOK, SocketTypeOK
    <3>3. pc' \in {"idle", "connect", "select", "check"} /\ timeout_' \in Arguments
      BY <1>6 DEF SelectReady, Ready, Inv, TypeOK, SocketTypeOK, Arguments
    <3>4. outcome' \in {"none", "returned", "threw"}
      BY <1>6 DEF SelectReady, Ready, Inv, TypeOK, SocketTypeOK
    <3>5. timeout' \in Times
      BY <1>6 DEF SelectReady, Ready, Inv, TypeOK, SocketTypeOK, Times
    <3>6. object' \in BOOLEAN /\ ready' \in BOOLEAN /\ first' \in BOOLEAN /\ lossy' \in BOOLEAN
      BY <1>6 DEF SelectReady, Ready, Inv, TypeOK, SocketTypeOK
    <3>7. step' \in {"none", "connect", "new", "handshake", "certificate"}
      BY <1>6 DEF SelectReady, Ready, Inv, TypeOK, SocketTypeOK, Stations
    <3>8. ssl_m' \in 0..MaxHandles /\ session' \in 0..MaxHandles
      BY <1>6 DEF SelectReady, Ready, Inv, TypeOK, SocketTypeOK, Stations
    <3>9. verified' \subseteq 1..MaxHandles /\ allocated' \subseteq 1..MaxHandles
      BY <1>6 DEF SelectReady, Ready, Inv, TypeOK, SocketTypeOK, Stations
    <3>10. made' \in 0..MaxHandles /\ contexts' \in 0..MaxHandles
      BY <1>6 DEF SelectReady, Ready, Inv, TypeOK, SocketTypeOK, Stations
    <3>11. QED
      BY <3>1, <3>2, <3>3, <3>4, <3>5, <3>6, <3>7, <3>8, <3>9, <3>10 DEF TypeOK, SocketTypeOK
  <2>2. Stations'
    BY <1>6 DEF SelectReady, Ready, Inv, TypeOK, SocketTypeOK, Stations
  <2>3. Waiting'
    BY <1>6 DEF SelectReady, Ready, Inv, Waiting, Stations
  <2>4. Starts'
    BY <1>6 DEF SelectReady, Ready, Inv, Starts, Stations
  <2>5. Sessions'
    BY <1>6 DEF SelectReady, Ready, Inv, TypeOK, Stations, Waiting, Sessions
  <2>6. NothingLost'
    BY <1>6 DEF SelectReady, Ready, Inv, TypeOK, Stations, NothingLost
  <2>7. QED
    BY <2>1, <2>2, <2>3, <2>4, <2>5, <2>6 DEF Inv
<1>7. CASE SelectTimesOut
  <2>1. TypeOK'
    <3>1. sock' \in {"unconnected", "connecting", "connected"} /\ tcp' \in {"closed", "syn", "established"}
      BY <1>7 DEF SelectTimesOut, Ready, Inv, TypeOK, SocketTypeOK
    <3>2. so_error' \in BOOLEAN /\ nonblock' \in BOOLEAN /\ flags' \in BOOLEAN
      BY <1>7 DEF SelectTimesOut, Ready, Inv, TypeOK, SocketTypeOK
    <3>3. pc' \in {"idle", "connect", "select", "check"} /\ timeout_' \in Arguments
      BY <1>7 DEF SelectTimesOut, Ready, Inv, TypeOK, SocketTypeOK, Arguments
    <3>4. outcome' \in {"none", "returned", "threw"}
      BY <1>7 DEF SelectTimesOut, Ready, Inv, TypeOK, SocketTypeOK
    <3>5. timeout' \in Times
      BY <1>7 DEF SelectTimesOut, Ready, Inv, TypeOK, SocketTypeOK, Times
    <3>6. object' \in BOOLEAN /\ ready' \in BOOLEAN /\ first' \in BOOLEAN /\ lossy' \in BOOLEAN
      BY <1>7 DEF SelectTimesOut, Ready, Inv, TypeOK, SocketTypeOK
    <3>7. step' \in {"none", "connect", "new", "handshake", "certificate"}
      BY <1>7 DEF SelectTimesOut, Ready, Inv, TypeOK, SocketTypeOK, Stations
    <3>8. ssl_m' \in 0..MaxHandles /\ session' \in 0..MaxHandles
      BY <1>7 DEF SelectTimesOut, Ready, Inv, TypeOK, SocketTypeOK, Stations
    <3>9. verified' \subseteq 1..MaxHandles /\ allocated' \subseteq 1..MaxHandles
      BY <1>7 DEF SelectTimesOut, Ready, Inv, TypeOK, SocketTypeOK, Stations
    <3>10. made' \in 0..MaxHandles /\ contexts' \in 0..MaxHandles
      BY <1>7 DEF SelectTimesOut, Ready, Inv, TypeOK, SocketTypeOK, Stations
    <3>11. QED
      BY <3>1, <3>2, <3>3, <3>4, <3>5, <3>6, <3>7, <3>8, <3>9, <3>10 DEF TypeOK, SocketTypeOK
  <2>2. Stations'
    BY <1>7 DEF SelectTimesOut, Ready, Inv, TypeOK, SocketTypeOK, Stations
  <2>3. Waiting'
    BY <1>7 DEF SelectTimesOut, Ready, Inv, Waiting, Stations
  <2>4. Starts'
    BY <1>7 DEF SelectTimesOut, Ready, Inv, Starts, Stations
  <2>5. Sessions'
    BY <1>7 DEF SelectTimesOut, Ready, Inv, TypeOK, Stations, Waiting, Sessions
  <2>6. NothingLost'
    BY <1>7 DEF SelectTimesOut, Ready, Inv, TypeOK, Stations, NothingLost
  <2>7. QED
    BY <2>1, <2>2, <2>3, <2>4, <2>5, <2>6 DEF Inv
<1>8. CASE Check
  <2>1. TypeOK'
    <3>1. sock' \in {"unconnected", "connecting", "connected"} /\ tcp' \in {"closed", "syn", "established"}
      BY <1>8 DEF Check, Inv, TypeOK, SocketTypeOK
    <3>2. so_error' \in BOOLEAN /\ nonblock' \in BOOLEAN /\ flags' \in BOOLEAN
      BY <1>8 DEF Check, Inv, TypeOK, SocketTypeOK
    <3>3. pc' \in {"idle", "connect", "select", "check"} /\ timeout_' \in Arguments
      BY <1>8 DEF Check, Inv, TypeOK, SocketTypeOK, Arguments
    <3>4. outcome' \in {"none", "returned", "threw"}
      BY <1>8 DEF Check, Inv, TypeOK, SocketTypeOK
    <3>5. timeout' \in Times
      BY <1>8 DEF Check, Inv, TypeOK, SocketTypeOK, Times
    <3>6. object' \in BOOLEAN /\ ready' \in BOOLEAN /\ first' \in BOOLEAN /\ lossy' \in BOOLEAN
      BY <1>8 DEF Check, Inv, TypeOK, SocketTypeOK
    <3>7. step' \in {"none", "connect", "new", "handshake", "certificate"}
      BY <1>8 DEF Check, Inv, TypeOK, SocketTypeOK, Stations
    <3>8. ssl_m' \in 0..MaxHandles /\ session' \in 0..MaxHandles
      BY <1>8 DEF Check, Inv, TypeOK, SocketTypeOK, Stations
    <3>9. verified' \subseteq 1..MaxHandles /\ allocated' \subseteq 1..MaxHandles
      BY <1>8 DEF Check, Inv, TypeOK, SocketTypeOK, Stations
    <3>10. made' \in 0..MaxHandles /\ contexts' \in 0..MaxHandles
      BY <1>8 DEF Check, Inv, TypeOK, SocketTypeOK, Stations
    <3>11. QED
      BY <3>1, <3>2, <3>3, <3>4, <3>5, <3>6, <3>7, <3>8, <3>9, <3>10 DEF TypeOK, SocketTypeOK
  <2>2. Stations'
    BY <1>8 DEF Check, Inv, TypeOK, SocketTypeOK, Stations
  <2>3. Waiting'
    BY <1>8 DEF Check, Inv, Waiting, Stations
  <2>4. Starts'
    BY <1>8 DEF Check, Inv, Starts, Stations
  <2>5. Sessions'
    BY <1>8 DEF Check, Inv, TypeOK, Stations, Waiting, Sessions
  <2>6. NothingLost'
    BY <1>8 DEF Check, Inv, TypeOK, Stations, NothingLost
  <2>7. QED
    BY <2>1, <2>2, <2>3, <2>4, <2>5, <2>6 DEF Inv
<1>9. QED
  BY <1>1, <1>2, <1>3, <1>4, <1>5, <1>6, <1>7, <1>8 DEF Connecting, ConnectStep

-----------------------------------------------------------------------------
\* Every step preserves the invariant.
LEMMA StepInv == Inv /\ [Next]_vars => Inv'
<1> SUFFICES ASSUME Inv, [Next]_vars PROVE Inv'
  OBVIOUS
<1>1. CASE UNCHANGED vars
  <2> USE <1>1 DEF vars, socketVars, kernel, locals, ssl, Inv
  <2>1. TypeOK' /\ Stations' /\ Waiting'
    BY DEF TypeOK, SocketTypeOK, Stations, Waiting
  <2>2. Starts' /\ Sessions' /\ NothingLost'
    BY DEF Starts, Sessions, NothingLost
  <2>3. QED
    BY <2>1, <2>2
<1>2. CASE Next
  BY <1>2, ConstructInv, ConstructThrowsInv, DestroyInv, OfSocketInv, KernelInv, ConnectingInv,
     SSLConnectInv, NewHandleInv, HandshakeInv, HandshakeThrowsInv, CheckCertificationInv,
     CertificateThrowsInv DEF Next
<1>3. QED
  BY <1>1, <1>2

\* The steps that let Connect return are those of Connect itself.
LEMMA StepReturns ==
  Inv /\ [Next]_vars => [outcome # "returned" /\ outcome' = "returned" => tcp' = "established"]_socketVars
<1> SUFFICES ASSUME Inv, Next, outcome # "returned", outcome' = "returned"
             PROVE tcp' = "established"
  BY DEF vars, socketVars, locals
<1>1. Connecting
  BY DEF Next, Construct, ConstructThrows, Destroy, OfSocket, Program, Connect, Wait, BeBlocking,
         BeNonBlocking, SetTimeout, Kernel, Accepted, Refused, Reset, SSLConnect, NewHandle, Handshake,
         HandshakeThrows, CheckCertification, CertificateThrows, socketVars, locals
<1>2. ConnectAtOnce \/ ConnectAgain \/ Check
  BY <1>1 DEF Connecting, ConnectStep, ConnectStarts, ConnectRefused, SelectFails, SelectReady,
              SelectTimesOut, Goto, End
<1>3. CASE ConnectAtOnce
  BY <1>3 DEF ConnectAtOnce
<1>4. CASE ConnectAgain
  BY <1>4 DEF ConnectAgain, End
<1>5. CASE Check
  BY <1>5 DEF Check, End, Inv, Waiting, TypeOK, SocketTypeOK
<1>6. QED
  BY <1>2, <1>3, <1>4, <1>5

\* The inductive invariant holds for ever.
THEOREM Invariant == Spec => []Inv
  BY InitInv, StepInv, PTL DEF Spec

\* The type invariant.
THEOREM TypeCorrect == Spec => []TypeOK
<1>1. Inv => TypeOK
  BY DEF Inv
<1>2. QED
  BY <1>1, Invariant, PTL

\* The first handshake of an object that had no failure meets a blocking socket.
THEOREM FirstHandshakeWaitsHolds == Spec => []FirstHandshakeWaits
<1>1. Inv => FirstHandshakeWaits
  BY DEF Inv, Stations, Starts, FirstHandshakeWaits
<1>2. QED
  BY <1>1, Invariant, PTL

\* An SSLConnect that has returned left a verified session on its own handle.
THEOREM ReadyIsVerifiedHolds == Spec => []ReadyIsVerified
<1>1. Inv => ReadyIsVerified
  BY DEF Inv, Sessions, ReadyIsVerified
<1>2. QED
  BY <1>1, Invariant, PTL

\* Handles and contexts go with their object, if it connects once.
THEOREM NothingLostHolds == Spec => []NothingLost
<1>1. Inv => NothingLost
  BY DEF Inv
<1>2. QED
  BY <1>1, Invariant, PTL

\* A Connect that returns has made the connection.
THEOREM ReturnsConnectedHolds == Spec => ReturnsConnected
  BY StepReturns, Invariant, PTL DEF Spec, ReturnsConnected
=============================================================================
