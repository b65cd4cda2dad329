------------------------- MODULE TcpStreamProofs -------------------------
(***************************************************************************)
(* Proofs about TcpStream, for every number and length of messages, every  *)
(* buffer and every pattern of partial transfers, timeouts and faults: of  *)
(* a stream with one reader (Inv), then of one that any number of readers  *)
(* share (SharedInv).                                                      *)
(***************************************************************************)
EXTENDS TcpStream, FiniteSetTheorems, TLAPS

\* The position in the stream up to which a CRecv reader has read.
Taken(r) == Start[Calls(r) + 1] + Len(buf[r])

SenderInv ==
  /\ wpc \in {"select", "send"} => msg > 0 /\ sent < Length(msg)
  /\ wpc \in {"idle", "done"} /\ msg > 0 => sent = Length(msg)
  /\ wpc = "done" => msg = N

\* What a CRecv reader holds, and that the kernel continues where it stands.
ReaderInv(r) ==
  /\ Calls(r) <= N
  /\ \A j \in 1..Calls(r) : got[r][j] = Message(j)
  /\ rpc[r] \in {"select", "recv"} => Calls(r) < N /\ Len(buf[r]) < Wanted(r)
  /\ rpc[r] \in {"idle", "done"} => buf[r] = <<>>
  /\ rpc[r] = "done" => Calls(r) = N
  /\ \A i \in 1..Len(buf[r]) : buf[r][i] = Start[Calls(r) + 1] + i
  /\ ~reset => /\ \A i \in 1..Len(chan) : chan[i] = Taken(r) + i
               /\ Taken(r) + Len(chan) = Accepted

Inv == /\ TypeOK
       /\ SenderInv
       /\ \A r \in Readers : Framed(r) => ReaderInv(r)
-----------------------------------------------------------------------------
\* Where messages start, and how long they are, are natural numbers.
LEMMA LengthNat ==
  \A k \in 1..N : Length(k) \in Nat /\ Start[k] \in Nat /\ Start[k + 1] \in Nat
  BY TcpAssumption, SMT DEF TcpAssumption, Length

\* A message is a sequence of as many bytes as its length says.
LEMMA MessageSeq ==
  \A k \in 1..N : Message(k) \in Seq(Nat) /\ Len(Message(k)) = Length(k)
<1> SUFFICES ASSUME NEW k \in 1..N
             PROVE  Message(k) \in Seq(Nat) /\ Len(Message(k)) = Length(k)
  OBVIOUS
<1>1. Length(k) \in Nat /\ Start[k] \in Nat
  BY LengthNat
<1>2. Message(k) \in [1..Length(k) -> Nat]
  BY <1>1 DEF Message
<1> QED BY <1>1, <1>2

\* What send() adds to the bytes in the kernel.
LEMMA AppendSeq ==
  ASSUME NEW s \in Seq(Nat), NEW a \in Nat, NEW n \in Nat
  PROVE  LET t == s \o [i \in 1..n |-> a + i]
         IN  /\ t \in Seq(Nat)
             /\ Len(t) = Len(s) + n
             /\ \A i \in 1..Len(s) : t[i] = s[i]
             /\ \A i \in 1..n : t[Len(s) + i] = a + i
<1> DEFINE new == [i \in 1..n |-> a + i]
<1>1. new \in [1..n -> Nat] /\ \A i \in 1..n : new[i] = a + i
  OBVIOUS
<1> HIDE DEF new
<1>2. new \in Seq(Nat) /\ Len(new) = n
  BY <1>1
<1>3. /\ s \o new \in Seq(Nat)
      /\ Len(s \o new) = Len(s) + n
      /\ \A i \in 1..Len(s) : (s \o new)[i] = s[i]
      /\ \A i \in 1..n : (s \o new)[Len(s) + i] = new[i]
  BY <1>2, SMTT(30)
<1> QED BY <1>1, <1>3 DEF new

\* Cutting the first n bytes off a sequence of bytes.
LEMMA CutSeq ==
  ASSUME NEW s \in Seq(Nat), NEW n \in Nat, n <= Len(s)
  PROVE  /\ SubSeq(s, 1, n) \in Seq(Nat)
         /\ Len(SubSeq(s, 1, n)) = n
         /\ \A i \in 1..n : SubSeq(s, 1, n)[i] = s[i]
         /\ SubSeq(s, n + 1, Len(s)) \in Seq(Nat)
         /\ Len(SubSeq(s, n + 1, Len(s))) = Len(s) - n
         /\ \A i \in 1..(Len(s) - n) : SubSeq(s, n + 1, Len(s))[i] = s[n + i]
  OBVIOUS

\* A set of natural numbers that is not empty has a least member: the least interval
\* from 0 to a member of it.
LEMMA Least ==
  ASSUME NEW T, T \subseteq Nat, T # {}
  PROVE  \E x \in T : \A y \in T : x <= y
<1> DEFINE U == {0..x : x \in T}
<1>1. \A x \in T : 0..x \in FiniteSubsetsOf(Nat)
  <2> TAKE x \in T
  <2>1. IsFiniteSet(0..x) /\ 0..x \in SUBSET Nat
    BY FS_Interval
  <2> QED BY <2>1 DEF FiniteSubsetsOf
<1>2. PICK I \in U : \A J \in U : <<J, I>> \notin StrictSubsetOrdering(Nat)
  <2>1. U \subseteq FiniteSubsetsOf(Nat) /\ U # {}
    BY <1>1
  <2> QED BY <2>1, FS_StrictSubsetOrderingWellFounded, WFMin
<1>3. PICK x \in T : I = 0..x
  OBVIOUS
<1>4. ASSUME NEW y \in T, y < x PROVE FALSE
  <2>1. 0..y \subseteq 0..x /\ 0..y # 0..x
    <3>1. x \in 0..x /\ x \notin 0..y
      BY <1>4
    <3> QED BY <3>1, <1>4
  <2>2. <<0..y, 0..x>> \notin StrictSubsetOrdering(Nat)
    BY <1>2, <1>3
  <2> QED BY <2>1, <2>2 DEF StrictSubsetOrdering
<1> QED BY <1>4

\* The line that RecvCLRF returns is the beginning of what it has.
LEMMA LineSeq ==
  ASSUME NEW s \in Seq(Nat), \E j \in 1..Len(s) : IsCRLF(s, j)
  PROVE  /\ Line(s) \in Seq(Nat)
         /\ Len(Line(s)) \in Nat /\ Len(Line(s)) <= Len(s)
         /\ \A i \in 1..Len(Line(s)) : Line(s)[i] = s[i]
<1> DEFINE T == {j \in 1..Len(s) : IsCRLF(s, j)}
<1>1. PICK j \in T : \A i \in T : j <= i
  <2> HIDE DEF T
  <2>1. T \subseteq Nat /\ T # {}
    BY DEF T
  <2> QED BY <2>1, Least
<1>2. \E k \in 1..Len(s) : IsCRLF(s, k) /\ \A i \in 1..(k - 1) : ~IsCRLF(s, i)
  <2>1. \A i \in 1..(j - 1) : ~IsCRLF(s, i)
    BY <1>1
  <2> QED BY <2>1
<1> DEFINE k == CHOOSE k \in 1..Len(s) :
                  /\ IsCRLF(s, k)
                  /\ \A i \in 1..(k - 1) : ~IsCRLF(s, i)
<1>3. k \in 1..Len(s)
  BY <1>2
<1>4. Line(s) = SubSeq(s, 1, k - 1)
  BY DEF Line
<1> HIDE DEF k
<1>5. PICK m \in Nat : m = k - 1 /\ m <= Len(s)
  <2>1. k - 1 \in Nat /\ k - 1 <= Len(s)
    BY <1>3
  <2> QED BY <2>1
<1>6. /\ SubSeq(s, 1, m) \in Seq(Nat) /\ Len(SubSeq(s, 1, m)) = m
      /\ \A i \in 1..m : SubSeq(s, 1, m)[i] = s[i]
  BY <1>5, CutSeq
<1>7. Line(s) = SubSeq(s, 1, m)
  BY <1>4, <1>5
<1> HIDE DEF T
<1> QED BY <1>5, <1>6, <1>7
-----------------------------------------------------------------------------
\* Nothing sent, nothing received.
LEMMA InitInv == Init => Inv
<1> SUFFICES ASSUME Init PROVE Inv
  OBVIOUS
<1>1. TypeOK
  <2>1. <<>> \in Seq(Nat) /\ <<>> \in Seq(Seq(Nat)) /\ Len(<<>>) = 0
    OBVIOUS
  <2>2. got \in [Readers -> Seq(Seq(Nat))] /\ buf \in [Readers -> Seq(Nat)]
    BY <2>1, Zenon DEF Init
  <2>3. chan \in Seq(Nat) /\ Len(chan) <= Window
    BY <2>1, TcpAssumption DEF Init, TcpAssumption
  <2>4. msg \in 0..N /\ sent \in Nat /\ sent <= IF msg = 0 THEN 0 ELSE Length(msg)
    BY TcpAssumption DEF Init, TcpAssumption
  <2>5. rpc \in [Readers -> {"idle", "select", "recv", "done", "timeout", "failed"}]
    BY DEF Init
  <2> QED BY <2>2, <2>3, <2>4, <2>5 DEF TypeOK, Init
<1>2. SenderInv
  BY DEF SenderInv, Init
<1>3. ASSUME NEW r \in Readers, Framed(r)
      PROVE  ReaderInv(r)
  BY TcpAssumption DEF ReaderInv, Calls, Taken, Accepted, Init, TcpAssumption
<1> QED BY <1>1, <1>2, <1>3 DEF Inv

\* The sender's position, as numbers.
LEMMA SenderFacts ==
  ASSUME TypeOK, SenderInv
  PROVE  /\ N \in Nat /\ Window \in Nat /\ msg \in 0..N /\ sent \in Nat
         /\ msg > 0 => /\ msg \in 1..N /\ Start[msg] \in Nat
                       /\ Length(msg) \in Nat /\ sent <= Length(msg)
                       /\ Start[msg + 1] = Start[msg] + Length(msg)
         /\ Accepted \in Nat
<1>1. N \in Nat /\ Window \in Nat /\ msg \in 0..N /\ sent \in Nat
  BY TcpAssumption DEF TcpAssumption, TypeOK
<1>2. msg > 0 => /\ msg \in 1..N /\ Start[msg] \in Nat
                 /\ Length(msg) \in Nat /\ sent <= Length(msg)
  BY <1>1, LengthNat DEF TypeOK
<1>3. msg > 0 => Start[msg + 1] = Start[msg] + Length(msg)
  BY <1>2, <1>1, LengthNat DEF Length
<1> QED BY <1>1, <1>2, <1>3 DEF Accepted

\* What a CRecv reader holds is disturbed neither by a step of the sender that
\* moves no byte nor by one that hands n bytes to the kernel.
LEMMA SendReaderInv ==
  ASSUME NEW r \in Readers, ReaderInv(r), chan \in Seq(Nat), Taken(r) \in Nat,
         NEW n \in Nat, UNCHANGED <<reset, reader>>, ~reset, Accepted \in Nat,
         chan' = chan \o [i \in 1..n |-> Accepted + i],
         Accepted' = Accepted + n
  PROVE  ReaderInv(r)'
<1>1. /\ Taken(r)' = Taken(r) /\ Calls(r)' = Calls(r)
      /\ Wanted(r)' = Wanted(r)
  BY DEF Taken, Calls, Wanted, reader
<1>2. /\ Taken(r) + Len(chan) = Accepted
      /\ \A i \in 1..Len(chan) : chan[i] = Taken(r) + i
  BY DEF ReaderInv
<1>3. /\ Len(chan') = Len(chan) + n
      /\ \A i \in 1..Len(chan) : chan'[i] = chan[i]
      /\ \A i \in 1..n : chan'[Len(chan) + i] = Accepted + i
  BY AppendSeq, ZenonT(40)
<1>4. Len(chan) \in Nat
  OBVIOUS
<1>5. \A i \in 1..Len(chan') : chan'[i] = Taken(r) + i
  <2> TAKE i \in 1..Len(chan')
  <2>1. CASE i \in 1..Len(chan)
    BY <2>1, <1>2, <1>3
  <2>2. CASE i \notin 1..Len(chan)
    <3> DEFINE k == i - Len(chan)
    <3>1. k \in 1..n /\ Len(chan) + k = i
      BY <2>2, <1>3, <1>4
    <3>2. chan'[Len(chan) + k] = Accepted + k
      BY <3>1, <1>3, Zenon
    <3>3. Accepted + k = Taken(r) + i
      BY <3>1, <1>2, <1>4
    <3> QED BY <3>1, <3>2, <3>3
  <2> QED BY <2>1, <2>2
<1>6. Taken(r) + Len(chan') = Accepted'
  BY <1>2, <1>3, <1>4, SMTT(90)
<1> QED BY <1>1, <1>5, <1>6 DEF ReaderInv, reader

\* A step of the sender or of the network.
LEMMA SendInv == Inv /\ (Send \/ WTimeout \/ Reset) => Inv'
<1> SUFFICES ASSUME Inv, Send \/ WTimeout \/ Reset PROVE Inv'
  OBVIOUS
<1>0. TypeOK /\ SenderInv /\ \A r \in Readers : Framed(r) => ReaderInv(r)
  BY DEF Inv
<1>s. /\ N \in Nat /\ Window \in Nat /\ msg \in 0..N /\ sent \in Nat
      /\ msg > 0 => /\ msg \in 1..N /\ Start[msg] \in Nat
                    /\ Length(msg) \in Nat /\ sent <= Length(msg)
                    /\ Start[msg + 1] = Start[msg] + Length(msg)
      /\ Accepted \in Nat
  BY <1>0, SenderFacts
<1>1. CASE CallSend
  <2>1. msg' \in 1..N /\ msg' = msg + 1 /\ Length(msg') \in Nat /\ sent' = 0
    BY <1>1, <1>s, LengthNat DEF CallSend
  <2>2. TypeOK'
    <3>1. /\ wpc' \in {"idle", "select", "send", "done", "timeout", "failed"}
          /\ msg' \in 0..N /\ sent' \in Nat
          /\ sent' <= IF msg' = 0 THEN 0 ELSE Length(msg')
      BY <1>1, <2>1, <1>s DEF CallSend
    <3> QED BY <1>0, <1>1, <3>1 DEF TypeOK, CallSend, reader
  <2>3. SenderInv'
    BY <1>1, <2>1, <1>s DEF SenderInv, CallSend
  <2>4. Accepted' = Accepted
    <3>1. CASE msg = 0
      BY <3>1, <2>1, TcpAssumption DEF Accepted, TcpAssumption
    <3>2. CASE msg > 0
      BY <3>2, <2>1, <1>s, <1>1, <1>0 DEF Accepted, SenderInv, CallSend
    <3> QED BY <3>1, <3>2, <1>s
  <2>5. ASSUME NEW r \in Readers, Framed(r) PROVE ReaderInv(r)'
    BY <2>5, <2>4, <1>0, <1>1 DEF ReaderInv, Calls, Taken, Wanted, CallSend, reader
  <2> QED BY <2>2, <2>3, <2>5 DEF Inv
<1>2. CASE SendSome
  <2>1. PICK n \in 1..(Length(msg) - sent) :
          /\ Len(chan) + n <= Window
          /\ chan' = chan \o [i \in 1..n |-> Start[msg] + sent + i]
          /\ sent' = sent + n
    BY <1>2 DEF SendSome
  <2>2. /\ msg > 0 /\ sent < Length(msg) /\ msg' = msg
        /\ n \in Nat /\ sent' \in Nat /\ sent' <= Length(msg)
        /\ Start[msg] + sent \in Nat /\ Accepted = Start[msg] + sent
    BY <1>2, <2>1, <1>0, <1>s, SMTT(30) DEF SenderInv, SendSome, Accepted
  <2>3. chan \in Seq(Nat)
    BY <1>0 DEF TypeOK
  <2>4. chan' \in Seq(Nat) /\ Len(chan') = Len(chan) + n
    BY <2>1, <2>2, <2>3, AppendSeq, Zenon
  <2>5. TypeOK'
    <3>1. wpc' \in {"idle", "select"}
      BY <1>2 DEF SendSome
    <3>2. chan' \in Seq(Nat) /\ Len(chan') <= Window
      BY <2>1, <2>4, Zenon
    <3>3. msg' \in 0..N /\ sent' <= IF msg' = 0 THEN 0 ELSE Length(msg')
      BY <2>2, <1>s
    <3> QED BY <1>0, <1>2, <2>2, <3>1, <3>2, <3>3 DEF TypeOK, SendSome, reader
  <2>6. SenderInv'
    <3>1. wpc' = IF sent' = Length(msg) THEN "idle" ELSE "select"
      BY <1>2 DEF SendSome
    <3> QED BY <3>1, <2>2, <1>s DEF SenderInv
  <2>7. ASSUME NEW r \in Readers, Framed(r) PROVE ReaderInv(r)'
    <3>1. Accepted' = Accepted + n
      <4>1. Accepted' = Start[msg] + sent'
        BY <2>2 DEF Accepted
      <4>2. Start[msg] \in Nat /\ Accepted = Start[msg] + sent /\ n \in Nat
        BY <2>2, <1>s
      <4>3. sent \in Nat /\ sent' = sent + n
        BY <2>1, <1>s
      <4> QED BY <4>1, <4>2, <4>3
    <3>2. ReaderInv(r) /\ ~reset /\ UNCHANGED <<reset, reader>>
      BY <2>7, <1>0, <1>2 DEF SendSome
    <3>3. Taken(r) \in Nat
      <4>1. Taken(r) + Len(chan) = Accepted /\ Len(buf[r]) \in Nat /\ Calls(r) \in Nat
        BY <3>2, <1>0, <2>7 DEF ReaderInv, TypeOK, Calls
      <4> QED BY <4>1, <3>2, TcpAssumption, SMTT(30) DEF ReaderInv, TcpAssumption, Taken
    <3>4. chan' = chan \o [i \in 1..n |-> Accepted + i]
      BY <2>1, <2>2
    <3> QED BY <3>1, <3>2, <3>3, <3>4, <2>2, <2>3, <1>s, SendReaderInv
  <2> QED BY <2>5, <2>6, <2>7 DEF Inv
<1>3. CASE Reset
  <2>1. TypeOK'
    <3>1. chan' \in Seq(Nat) /\ Len(chan') <= Window
      BY <1>3, <1>s DEF Reset
    <3> QED BY <1>0, <1>3, <3>1 DEF Reset, TypeOK, sender, reader
  <2>2. SenderInv'
    BY <1>0, <1>3 DEF Reset, SenderInv, sender
  <2>3. ASSUME NEW r \in Readers, Framed(r) PROVE ReaderInv(r)'
    BY <1>0, <1>3, <2>3 DEF Reset, ReaderInv, sender, reader, Calls, Wanted
  <2> QED BY <2>1, <2>2, <2>3 DEF Inv
<1>4. CASE WSelect \/ WAgain \/ WThrow \/ WTimeout \/ WDone
  <2>1. /\ UNCHANGED <<msg, sent, chan, reset, reader>>
        /\ wpc' \in {"select", "send", "failed", "timeout", "done"}
        /\ wpc' \in {"select", "send"} => wpc \in {"select", "send"}
        /\ wpc' = "done" => wpc = "idle" /\ msg = N
    BY <1>4 DEF WSelect, WAgain, WThrow, WTimeout, WDone
  <2>2. TypeOK'
    BY <1>0, <2>1 DEF TypeOK, reader
  <2>3. SenderInv'
    BY <1>0, <2>1 DEF SenderInv
  <2>4. ASSUME NEW r \in Readers, Framed(r) PROVE ReaderInv(r)'
    BY <1>0, <2>1, <2>4 DEF ReaderInv, Calls, Taken, Wanted, Accepted, reader
  <2> QED BY <2>2, <2>3, <2>4 DEF Inv
<1> QED BY <1>1, <1>2, <1>3, <1>4 DEF Send
-----------------------------------------------------------------------------
\* The number of bytes a call of a CRecv reader still lacks, as numbers.
LEMMA ReaderFacts ==
  ASSUME TypeOK, NEW r \in Readers, ReaderInv(r)
  PROVE  /\ Calls(r) \in 0..N /\ Len(buf[r]) \in Nat /\ Taken(r) \in Nat
         /\ got[r] \in Seq(Seq(Nat)) /\ buf[r] \in Seq(Nat) /\ chan \in Seq(Nat)
         /\ Calls(r) < N => /\ Calls(r) + 1 \in 1..N /\ Wanted(r) \in Nat
                            /\ Start[Calls(r) + 1] \in Nat
                            /\ Start[Calls(r) + 2] = Start[Calls(r) + 1] + Wanted(r)
<1>1. /\ got[r] \in Seq(Seq(Nat)) /\ buf[r] \in Seq(Nat) /\ chan \in Seq(Nat)
      /\ Calls(r) \in 0..N /\ Len(buf[r]) \in Nat /\ N \in Nat
  BY TcpAssumption DEF TypeOK, ReaderInv, Calls, TcpAssumption
<1>2. Start[Calls(r) + 1] \in Nat
  BY <1>1, TcpAssumption DEF TcpAssumption
<1>3. Calls(r) < N => Calls(r) + 1 \in 1..N /\ (Calls(r) + 1) + 1 = Calls(r) + 2
  BY <1>1
<1>4. ASSUME Calls(r) < N
      PROVE  /\ Wanted(r) \in Nat
             /\ Start[Calls(r) + 2] = Start[Calls(r) + 1] + Wanted(r)
  <2> DEFINE k == Calls(r) + 1
  <2>1. k \in 1..N /\ k + 1 = Calls(r) + 2 /\ Start[k] \in Nat
    BY <1>1, <1>2, <1>4
  <2>2. Wanted(r) = Start[k + 1] - Start[k] /\ Wanted(r) \in Nat /\ Start[k + 1] \in Nat
    BY <2>1, LengthNat DEF Wanted, Length
  <2> QED BY <2>1, <2>2
<1> QED BY <1>1, <1>2, <1>3, <1>4 DEF Taken

\* The bytes between two message starts, put one after the other, are the message.
LEMMA FilledIsMessage ==
  ASSUME NEW k \in 1..N, NEW s \in Seq(Nat), Len(s) = Length(k),
         \A i \in 1..Len(s) : s[i] = Start[k] + i
  PROVE  s = Message(k)
<1>1. s = [i \in 1..Len(s) |-> s[i]]
  OBVIOUS
<1> QED BY <1>1, Zenon DEF Message

\* Bytes a + 1, a + 2, ... followed by the n next ones.
LEMMA GrowSeq ==
  ASSUME NEW b \in Seq(Nat), NEW t \in Seq(Nat), NEW a \in Nat,
         \A i \in 1..Len(b) : b[i] = a + i,
         \A i \in 1..Len(t) : t[i] = a + Len(b) + i
  PROVE  /\ b \o t \in Seq(Nat) /\ Len(b \o t) = Len(b) + Len(t)
         /\ \A i \in 1..Len(b \o t) : (b \o t)[i] = a + i
<1>1. /\ b \o t \in Seq(Nat) /\ Len(b \o t) = Len(b) + Len(t)
      /\ Len(b) \in Nat /\ Len(t) \in Nat
      /\ \A i \in 1..Len(b) : (b \o t)[i] = b[i]
      /\ \A i \in 1..Len(t) : (b \o t)[Len(b) + i] = t[i]
  OBVIOUS
<1>2. ASSUME NEW i \in 1..Len(b \o t)
      PROVE  (b \o t)[i] = a + i
  <2>1. CASE i \in 1..Len(b)
    BY <2>1, <1>1
  <2>2. CASE i \notin 1..Len(b)
    <3>1. PICK k \in 1..Len(t) : i = Len(b) + k
      <4>1. i - Len(b) \in 1..Len(t) /\ i = Len(b) + (i - Len(b))
        BY <2>2, <1>1
      <4> QED BY <4>1
    <3>2. (b \o t)[Len(b) + k] = t[k] /\ t[k] = a + Len(b) + k
      BY <1>1
    <3>3. (b \o t)[i] = a + Len(b) + k
      BY <3>1, <3>2
    <3> QED BY <3>1, <3>3, <1>1
  <2> QED BY <2>1, <2>2
<1> QED BY <1>1, <1>2

\* What recv() hands over and what it leaves, when the kernel holds the bytes
\* a + 1, a + 2, ...
LEMMA SplitSeq ==
  ASSUME NEW s \in Seq(Nat), NEW a \in Nat, \A i \in 1..Len(s) : s[i] = a + i,
         NEW n \in Nat, n <= Len(s)
  PROVE  /\ SubSeq(s, 1, n) \in Seq(Nat) /\ Len(SubSeq(s, 1, n)) = n
         /\ \A i \in 1..n : SubSeq(s, 1, n)[i] = a + i
         /\ SubSeq(s, n + 1, Len(s)) \in Seq(Nat)
         /\ Len(SubSeq(s, n + 1, Len(s))) = Len(s) - n
         /\ \A i \in 1..(Len(s) - n) : SubSeq(s, n + 1, Len(s))[i] = a + n + i
<1>1. \A i \in 1..n : i \in 1..Len(s)
  OBVIOUS
<1>2. \A i \in 1..(Len(s) - n) : n + i \in 1..Len(s) /\ a + (n + i) = a + n + i
  OBVIOUS
<1> QED BY <1>1, <1>2, CutSeq

\* recv() at a CRecv reader: what it had, followed by the first n bytes of the
\* kernel, is still the stream from the start of the message it asked for.
LEMMA TakeReaderInv ==
  ASSUME TypeOK, NEW r \in Readers, Framed(r), ReaderInv(r), Take(r)
  PROVE  ReaderInv(r)'
<1>1. PICK n \in 1..Room(r) :
        /\ n <= Len(chan)
        /\ LET s == buf[r] \o SubSeq(chan, 1, n)
           IN IF Complete(r, s)
              THEN /\ got' = [got EXCEPT ![r] = Append(@, Result(r, s))]
                   /\ buf' = [buf EXCEPT ![r] = <<>>]
                   /\ rpc' = [rpc EXCEPT ![r] = "idle"]
              ELSE /\ buf' = [buf EXCEPT ![r] = s]
                   /\ rpc' = [rpc EXCEPT ![r] = "select"]
                   /\ UNCHANGED got
        /\ chan' = SubSeq(chan, n + 1, Len(chan))
  BY DEF Take
<1>2. PICK c \in Nat : c = Calls(r)
  BY ReaderFacts
<1>3. PICK a \in Nat : a = Start[c + 1]
  BY <1>2, ReaderFacts DEF Take, ReaderInv
<1>4. PICK w \in Nat : w = Wanted(r)
  BY ReaderFacts DEF Take, ReaderInv
<1>5. /\ c < N /\ c + 1 \in 1..N /\ N \in Nat
      /\ Len(buf[r]) \in Nat /\ Len(buf[r]) < w
      /\ w = Length(c + 1) /\ Start[c + 2] = a + w
      /\ Taken(r) = a + Len(buf[r])
  <2>1. c < N /\ Len(buf[r]) < w
    BY <1>2, <1>4 DEF Take, ReaderInv
  <2> QED BY <1>2, <1>3, <1>4, <2>1, ReaderFacts, TcpAssumption
          DEF Taken, Wanted, TcpAssumption
<1>6. buf[r] \in Seq(Nat) /\ chan \in Seq(Nat) /\ Len(chan) \in Nat /\ got[r] \in Seq(Seq(Nat))
  BY ReaderFacts
<1>7. ~reset /\ ~reset' /\ Accepted' = Accepted
  BY DEF Take, sender, Accepted
<1>8. /\ \A i \in 1..Len(chan) : chan[i] = a + Len(buf[r]) + i
      /\ a + Len(buf[r]) + Len(chan) = Accepted
      /\ \A i \in 1..Len(buf[r]) : buf[r][i] = a + i
  BY <1>2, <1>3, <1>5, <1>7 DEF ReaderInv
<1>9. n \in Nat /\ n > 0 /\ n <= Len(chan) /\ n <= w - Len(buf[r])
  <2>1. Room(r) = w - Len(buf[r])
    BY <1>4 DEF Room, Framed
  <2> QED BY <2>1, <1>1, <1>5
<1> DEFINE t == SubSeq(chan, 1, n)
           s == buf[r] \o t
           rest == SubSeq(chan, n + 1, Len(chan))
<1>10. /\ t \in Seq(Nat) /\ Len(t) = n
       /\ \A i \in 1..n : t[i] = a + Len(buf[r]) + i
       /\ rest \in Seq(Nat) /\ Len(rest) = Len(chan) - n
       /\ \A i \in 1..(Len(chan) - n) : rest[i] = a + Len(buf[r]) + n + i
  <2>1. PICK b \in Nat : b = a + Len(buf[r])
    BY <1>5
  <2>2. chan \in Seq(Nat) /\ \A i \in 1..Len(chan) : chan[i] = b + i
    BY <2>1, <1>6, <1>8
  <2>3. n \in Nat /\ n <= Len(chan)
    BY <1>9
  <2>4. /\ t \in Seq(Nat) /\ Len(t) = n
        /\ \A i \in 1..n : t[i] = b + i
        /\ rest \in Seq(Nat) /\ Len(rest) = Len(chan) - n
        /\ \A i \in 1..(Len(chan) - n) : rest[i] = b + n + i
    BY <2>2, <2>3, SplitSeq, SMTT(30)
  <2> HIDE DEF t, rest
  <2> QED BY <2>1, <2>4
<1>11. /\ s \in Seq(Nat) /\ Len(s) = Len(buf[r]) + n
       /\ \A i \in 1..Len(s) : s[i] = a + i
  <2> HIDE DEF t
  <2>1. \A i \in 1..Len(t) : t[i] = a + Len(buf[r]) + i
    BY <1>10, Zenon
  <2>2. /\ buf[r] \o t \in Seq(Nat) /\ Len(buf[r] \o t) = Len(buf[r]) + Len(t)
        /\ \A i \in 1..Len(buf[r] \o t) : (buf[r] \o t)[i] = a + i
    BY <2>1, <1>6, <1>8, <1>10, GrowSeq, ZenonT(60)
  <2> QED BY <2>2, <1>10, Zenon
<1>12. chan' = rest
  BY <1>1
<1>13. Start[c + 1] = a /\ Start[(c + 1) + 1] = a + w
  BY <1>3, <1>5
<1>14. /\ Len(s) <= w
       /\ a + Len(s) + Len(chan') = Accepted'
       /\ \A i \in 1..Len(chan') : chan'[i] = a + Len(s) + i
  <2> HIDE DEF t, s, rest
  <2>1. Len(s) <= w /\ a + Len(s) + Len(rest) = Accepted
    <3>1. Len(s) = Len(buf[r]) + n /\ Len(rest) = Len(chan) - n
      BY <1>10, <1>11
    <3>2. /\ Len(buf[r]) \in Nat /\ Len(chan) \in Nat /\ n \in Nat
          /\ n <= w - Len(buf[r]) /\ a + Len(buf[r]) + Len(chan) = Accepted
      BY <1>6, <1>5, <1>9, <1>8
    <3> QED BY <3>1, <3>2
  <2>2. \A i \in 1..Len(rest) : rest[i] = a + Len(s) + i
    <3>1. Len(s) = Len(buf[r]) + n /\ a + Len(buf[r]) + n = a + Len(s)
      BY <1>5, <1>9, <1>11
    <3>2. Len(rest) = Len(chan) - n
      BY <1>10
    <3> QED BY <3>1, <3>2, <1>10
  <2> QED BY <2>1, <2>2, <1>12, <1>7
<1>15. CASE Complete(r, s)
  <2>1. /\ got' = [got EXCEPT ![r] = Append(@, s)]
        /\ buf' = [buf EXCEPT ![r] = <<>>]
        /\ rpc' = [rpc EXCEPT ![r] = "idle"]
    BY <1>1, <1>15 DEF Result, Framed
  <2> HIDE DEF s, t, rest
  <2>2. Len(s) = w
    BY <1>15, <1>4 DEF Complete, Framed
  <2>3. s = Message(c + 1)
    BY <2>2, <1>3, <1>5, <1>11, FilledIsMessage
  <2>4. got'[r] = Append(got[r], Message(c + 1)) /\ buf'[r] = <<>> /\ rpc'[r] = "idle"
    BY <2>1, <2>3 DEF TypeOK
  <2>5. /\ Len(got'[r]) = c + 1 /\ c = Len(got[r])
        /\ \A j \in 1..c : got'[r][j] = got[r][j]
        /\ got'[r][c + 1] = Message(c + 1)
    BY <2>4, <1>2, <1>6 DEF Calls
  <2>6. \A j \in 1..(c + 1) : got'[r][j] = Message(j)
    <3>1. \A j \in 1..(c + 1) : j \in 1..c \/ j = c + 1
      OBVIOUS
    <3>2. \A j \in 1..c : got[r][j] = Message(j)
      BY <1>2 DEF ReaderInv
    <3> QED BY <3>1, <3>2, <2>5
  <2>7. Calls(r)' = c + 1
    BY <2>5 DEF Calls
  <2>8. Taken(r)' = a + Len(s)
    <3>1. Taken(r)' = Start[(c + 1) + 1] + Len(<<>>)
      BY <2>4, <2>7 DEF Taken
    <3> QED BY <3>1, <1>13, <2>2
  <2>9. Calls(r)' <= N
    BY <2>7, <1>5
  <2>10. Len(<<>>) = 0
    OBVIOUS
  <2>11. /\ \A j \in 1..Calls(r)' : got'[r][j] = Message(j)
         /\ \A i \in 1..Len(buf'[r]) : buf'[r][i] = Start[Calls(r)' + 1] + i
    <3>1. Len(buf'[r]) = 0
      BY <2>4, <2>10
    <3>2. 1..Len(buf'[r]) = {}
      BY <3>1
    <3>3. \A j \in 1..Calls(r)' : got'[r][j] = Message(j)
      BY <2>6, <2>7
    <3> QED BY <3>2, <3>3
  <2>12. \A i \in 1..Len(chan') : chan'[i] = Taken(r)' + i
    BY <2>8, <1>14
  <2>13. Taken(r)' + Len(chan') = Accepted'
    BY <2>8, <1>14
  <2> QED BY <2>4, <2>9, <2>11, <2>12, <2>13 DEF ReaderInv
<1>16. CASE ~Complete(r, s)
  <2>1. buf' = [buf EXCEPT ![r] = s] /\ rpc' = [rpc EXCEPT ![r] = "select"] /\ got' = got
    BY <1>1, <1>16
  <2> HIDE DEF s, t, rest
  <2>2. buf'[r] = s /\ rpc'[r] = "select" /\ Calls(r)' = c /\ Wanted(r)' = w
    BY <2>1, <1>2, <1>4 DEF TypeOK, Calls, Wanted
  <2>3. Len(s) # w
    BY <1>16, <1>4 DEF Complete, Framed
  <2>4. Len(s) < w
    <3>1. Len(s) \in Nat /\ Len(s) <= w
      BY <1>11, <1>14
    <3> QED BY <3>1, <2>3
  <2>5. Taken(r)' = a + Len(s)
    BY <2>2, <1>13 DEF Taken
  <2>6. \A i \in 1..Len(buf'[r]) : buf'[r][i] = Start[Calls(r)' + 1] + i
    BY <2>2, <1>11, <1>13
  <2>7. /\ \A i \in 1..Len(chan') : chan'[i] = Taken(r)' + i
        /\ Taken(r)' + Len(chan') = Accepted'
    BY <2>5, <1>14
  <2>8. \A j \in 1..Calls(r)' : got'[r][j] = Message(j)
    BY <2>1, <2>2, <1>2 DEF ReaderInv
  <2> QED BY <2>2, <2>4, <2>6, <2>7, <2>8, <1>5 DEF ReaderInv
<1> QED BY <1>15, <1>16

\* recv() keeps the types, whatever the reader called.
LEMMA TakeTypeOK ==
  ASSUME TypeOK, NEW r \in Readers, Take(r)
  PROVE  TypeOK'
<1>1. PICK n \in 1..Room(r) :
        /\ n <= Len(chan)
        /\ LET s == buf[r] \o SubSeq(chan, 1, n)
           IN IF Complete(r, s)
              THEN /\ got' = [got EXCEPT ![r] = Append(@, Result(r, s))]
                   /\ buf' = [buf EXCEPT ![r] = <<>>]
                   /\ rpc' = [rpc EXCEPT ![r] = "idle"]
              ELSE /\ buf' = [buf EXCEPT ![r] = s]
                   /\ rpc' = [rpc EXCEPT ![r] = "select"]
                   /\ UNCHANGED got
        /\ chan' = SubSeq(chan, n + 1, Len(chan))
  BY DEF Take
<1> DEFINE s == buf[r] \o SubSeq(chan, 1, n)
<1>2. /\ chan \in Seq(Nat) /\ Len(chan) \in Nat /\ Len(chan) <= Window
      /\ buf[r] \in Seq(Nat) /\ got[r] \in Seq(Seq(Nat))
      /\ n \in Nat /\ n <= Len(chan) /\ Window \in Nat
  <2>1. n \in Nat
    OBVIOUS
  <2> QED BY <2>1, <1>1, TcpAssumption DEF TypeOK, TcpAssumption
<1>3. /\ SubSeq(chan, 1, n) \in Seq(Nat)
      /\ chan' \in Seq(Nat) /\ Len(chan') = Len(chan) - n
  BY <1>1, <1>2, CutSeq, Zenon
<1>4. s \in Seq(Nat)
  BY <1>2, <1>3
<1>5. Len(chan') <= Window
  BY <1>2, <1>3
<1> HIDE DEF s
<1>6. CASE Complete(r, s)
  <2>1. Result(r, s) \in Seq(Nat)
    <3>1. CASE Call[r] = "RecvCLRF"
      BY <3>1, <1>4, <1>6, LineSeq DEF Complete, Result
    <3>2. CASE Call[r] # "RecvCLRF"
      BY <3>2, <1>4 DEF Result
    <3> QED BY <3>1, <3>2
  <2>2. Append(got[r], Result(r, s)) \in Seq(Seq(Nat)) /\ <<>> \in Seq(Nat)
    BY <2>1, <1>2
  <2>3. /\ got' = [got EXCEPT ![r] = Append(got[r], Result(r, s))]
        /\ buf' = [buf EXCEPT ![r] = <<>>]
        /\ rpc' = [rpc EXCEPT ![r] = "idle"]
    BY <1>1, <1>6 DEF s
  <2>4. got' \in [Readers -> Seq(Seq(Nat))] /\ buf' \in [Readers -> Seq(Nat)]
    BY <2>2, <2>3, Zenon DEF TypeOK
  <2> QED BY <2>3, <2>4, <1>3, <1>5 DEF TypeOK, Take, sender
<1>7. CASE ~Complete(r, s)
  BY <1>1, <1>7, <1>3, <1>4, <1>5 DEF s, TypeOK, Take, sender
<1> QED BY <1>6, <1>7

\* A step of a reader.
LEMMA RecvInv == ASSUME Inv, NEW r \in Readers, Recv(r) \/ RTimeout(r) PROVE Inv'
<1>0. TypeOK /\ SenderInv /\ \A q \in Readers : Framed(q) => ReaderInv(q)
  BY DEF Inv
<1>s. UNCHANGED sender
  BY DEF Recv, CallRecv, RSelect, Take, RAgain, REof, RThrow, RTimeout, RDone
<1>1. SenderInv'
  BY <1>0, <1>s DEF SenderInv, sender
<1>2. ASSUME NEW q \in Readers, Framed(q) PROVE q = r /\ ReaderInv(r)
  BY <1>0, <1>2 DEF Framed
<1>3. CASE Take(r)
  BY <1>0, <1>1, <1>2, <1>3, TakeTypeOK, TakeReaderInv DEF Inv
<1>4. CASE CallRecv(r)
  <2>1. UNCHANGED <<sender, chan, reset>> /\ buf' = [buf EXCEPT ![r] = <<>>]
    BY <1>4 DEF CallRecv
  <2>2. CASE Call[r] = "CRecv" /\ Wanted(r) = 0
    <3>1. got' = [got EXCEPT ![r] = Append(@, <<>>)] /\ rpc' = rpc
      BY <1>4, <2>2 DEF CallRecv
    <3>2. TypeOK'
      <4>1. <<>> \in Seq(Nat) /\ Append(got[r], <<>>) \in Seq(Seq(Nat))
        BY <1>0 DEF TypeOK
      <4>2. got' \in [Readers -> Seq(Seq(Nat))] /\ buf' \in [Readers -> Seq(Nat)]
        BY <4>1, <3>1, <2>1, <1>0, Zenon DEF TypeOK
      <4> QED BY <4>2, <3>1, <2>1, <1>0 DEF TypeOK, sender
    <3>3. ASSUME Framed(r), ReaderInv(r) PROVE ReaderInv(r)'
      <4>1. Calls(r) < N /\ rpc[r] = "idle" /\ buf[r] = <<>>
        BY <1>4, <3>3 DEF CallRecv, MoreCalls, Framed, ReaderInv
      <4>2. PICK c \in Nat : c = Calls(r)
        BY <1>0, <3>3, ReaderFacts
      <4>3. PICK a \in Nat : a = Start[c + 1]
        BY <1>0, <3>3, <4>1, <4>2, ReaderFacts
      <4>4. /\ c + 1 \in 1..N /\ Start[(c + 1) + 1] = a /\ Length(c + 1) = 0
        <5>1. (c + 1) + 1 = c + 2
          OBVIOUS
        <5> QED BY <5>1, <1>0, <2>2, <3>3, <4>1, <4>2, <4>3, ReaderFacts DEF Wanted
      <4>5. Message(c + 1) = <<>>
        <5>1. <<>> \in Seq(Nat) /\ Len(<<>>) = 0 /\ \A i \in 1..Len(<<>>) : <<>>[i] = Start[c + 1] + i
          OBVIOUS
        <5> QED BY <5>1, <4>4, FilledIsMessage
      <4>6. got'[r] = Append(got[r], Message(c + 1)) /\ got[r] \in Seq(Seq(Nat))
        BY <1>0, <3>1, <4>5 DEF TypeOK
      <4>7. /\ Len(got'[r]) = c + 1 /\ c = Len(got[r])
            /\ \A j \in 1..c : got'[r][j] = got[r][j]
            /\ got'[r][c + 1] = Message(c + 1)
        BY <4>2, <4>6 DEF Calls
      <4>8. \A j \in 1..(c + 1) : got'[r][j] = Message(j)
        <5>1. \A j \in 1..(c + 1) : j \in 1..c \/ j = c + 1
          OBVIOUS
        <5>2. \A j \in 1..c : got[r][j] = Message(j)
          BY <4>2, <3>3 DEF ReaderInv
        <5> QED BY <5>1, <5>2, <4>7
      <4>9. Calls(r)' = c + 1 /\ buf'[r] = <<>> /\ rpc'[r] = "idle"
        BY <4>1, <4>7, <2>1, <3>1, <1>0 DEF Calls, TypeOK
      <4>10. Taken(r)' = Taken(r) /\ Accepted' = Accepted
        BY <4>1, <4>2, <4>3, <4>4, <4>9, <2>1 DEF Taken, Accepted, sender
      <4>11. 1..Len(buf'[r]) = {}
        BY <4>9
      <4>12. Calls(r)' <= N
        BY <4>9, <4>4
      <4>13. ~reset' => /\ \A i \in 1..Len(chan') : chan'[i] = Taken(r)' + i
                        /\ Taken(r)' + Len(chan') = Accepted'
        BY <4>10, <3>3, <2>1 DEF ReaderInv
      <4>14. \A j \in 1..Calls(r)' : got'[r][j] = Message(j)
        BY <4>8, <4>9
      <4> QED BY <4>9, <4>11, <4>12, <4>13, <4>14 DEF ReaderInv
    <3> QED BY <3>2, <3>3, <1>1, <1>2 DEF Inv
  <2>3. CASE ~(Call[r] = "CRecv" /\ Wanted(r) = 0)
    <3>1. rpc' = [rpc EXCEPT ![r] = "select"] /\ got' = got
      BY <1>4, <2>3 DEF CallRecv
    <3>2. TypeOK'
      <4>1. <<>> \in Seq(Nat)
        OBVIOUS
      <4>2. buf' \in [Readers -> Seq(Nat)]
        BY <4>1, <2>1, <1>0, Zenon DEF TypeOK
      <4> QED BY <4>2, <3>1, <2>1, <1>0 DEF TypeOK, sender
    <3>3. ASSUME Framed(r), ReaderInv(r) PROVE ReaderInv(r)'
      <4>1. Calls(r) < N /\ rpc[r] = "idle" /\ buf[r] = <<>> /\ buf' = buf
        BY <1>0, <1>4, <3>3, <2>1 DEF CallRecv, MoreCalls, Framed, ReaderInv, TypeOK
      <4>2. Wanted(r) \in Nat /\ Wanted(r) # 0
        BY <1>0, <3>3, <2>3, <4>1, ReaderFacts DEF Framed
      <4>3. Len(buf[r]) = 0
        BY <4>1
      <4>4. Len(buf[r]) < Wanted(r)
        BY <4>2, <4>3
      <4>5. rpc'[r] = "select" /\ UNCHANGED <<got, buf, chan, reset>> /\ Accepted' = Accepted
        BY <2>1, <3>1, <4>1, <1>0 DEF TypeOK, Accepted, sender
      <4> QED BY <4>1, <4>4, <4>5, <3>3 DEF ReaderInv, Calls, Wanted, Taken
    <3> QED BY <3>2, <3>3, <1>1, <1>2 DEF Inv
  <2> QED BY <2>2, <2>3
<1>5. CASE RSelect(r) \/ RAgain(r) \/ REof(r) \/ RThrow(r) \/ RTimeout(r) \/ RDone(r)
  <2>1. /\ UNCHANGED <<sender, chan, reset, buf, got>>
        /\ \E p \in {"select", "recv", "done", "timeout", "failed"} : rpc' = [rpc EXCEPT ![r] = p]
    BY <1>5 DEF RSelect, RAgain, REof, RThrow, RTimeout, RDone
  <2>2. TypeOK'
    BY <1>0, <2>1 DEF TypeOK, sender
  <2>3. ASSUME Framed(r), ReaderInv(r) PROVE ReaderInv(r)'
    <3>1. /\ rpc'[r] \in {"select", "recv"} => rpc[r] \in {"select", "recv"}
          /\ rpc'[r] = "done" => rpc[r] = "idle" /\ ~MoreCalls(r)
          /\ rpc'[r] # "idle"
      BY <1>0, <1>5, <2>3 DEF RSelect, RAgain, REof, RThrow, RTimeout, RDone, TypeOK,
         Framed
    <3>2. ~MoreCalls(r) => Calls(r) = N
      BY <1>0, <2>3, ReaderFacts, TcpAssumption DEF MoreCalls, Framed, TcpAssumption
    <3>3. UNCHANGED <<buf, got, chan, reset>> /\ Accepted' = Accepted
      BY <2>1 DEF Accepted, sender
    <3> QED BY <2>3, <3>1, <3>2, <3>3 DEF ReaderInv, Calls, Wanted, Taken
  <2> QED BY <2>2, <2>3, <1>1, <1>2 DEF Inv
<1> QED BY <1>3, <1>4, <1>5 DEF Recv

\* Every step keeps the invariant.
LEMMA StepInv == Inv /\ [Next]_vars => Inv'
<1> SUFFICES ASSUME Inv, [Next]_vars PROVE Inv'
  OBVIOUS
<1>1. CASE UNCHANGED vars
  BY <1>1 DEF Inv, TypeOK, SenderInv, ReaderInv, Calls, Wanted, Taken, Accepted, vars
<1> QED BY <1>1, SendInv, RecvInv DEF Next, Finished

\* The inductive invariant.
THEOREM InvHolds == Spec => []Inv
  BY InitInv, StepInv, PTL DEF Spec
-----------------------------------------------------------------------------
\* Type correctness.
THEOREM TypeCorrect == Spec => []TypeOK
<1>1. Inv => TypeOK
  BY DEF Inv
<1> QED BY <1>1, InvHolds, PTL

\* What CRecv returns is the message that CSend was given.
THEOREM FrameIntegrityHolds == Spec => []FrameIntegrity
<1>1. Inv => FrameIntegrity
  <2> SUFFICES ASSUME Inv, NEW r \in Readers, Framed(r), NEW j \in 1..Len(got[r])
               PROVE  j <= N /\ got[r][j] = Message(j)
    BY DEF FrameIntegrity
  <2>1. TypeOK /\ ReaderInv(r)
    BY DEF Inv
  <2>2. Calls(r) \in 0..N /\ j \in 1..Calls(r) /\ N \in Nat
    BY <2>1, ReaderFacts, TcpAssumption DEF Calls, TcpAssumption
  <2> QED BY <2>1, <2>2 DEF ReaderInv
<1> QED BY <1>1, InvHolds, PTL
-----------------------------------------------------------------------------
\* Where the two ends stand in the stream decides which of them has more to do.
LEMMA Positions ==
  ASSUME Inv, ~reset, NEW r \in Readers, Framed(r)
  PROVE  /\ Taken(r) <= Accepted
         /\ Accepted <= Start[N + 1]
         /\ wpc = "done" => Accepted = Start[N + 1]
         /\ wpc \in {"select", "send"} => Accepted < Start[N + 1]
         /\ rpc[r] = "done" => Taken(r) = Start[N + 1]
         /\ rpc[r] \in {"select", "recv"} => Taken(r) < Start[N + 1]
<1>1. TypeOK /\ SenderInv /\ ReaderInv(r)
  BY DEF Inv
<1>2. /\ N \in Nat /\ msg \in 0..N /\ sent \in Nat
      /\ msg > 0 => /\ msg \in 1..N /\ Start[msg] \in Nat
                    /\ Length(msg) \in Nat /\ sent <= Length(msg)
                    /\ Start[msg + 1] = Start[msg] + Length(msg)
      /\ Accepted \in Nat
  BY <1>1, SenderFacts
<1>3. \A j \in 1..(N + 1) : Start[j] \in Nat /\ Start[j] <= Start[N + 1]
  <2>1. N + 1 \in 1..(N + 1) /\ \A j \in 1..(N + 1) : j <= N + 1
    BY <1>2
  <2> QED BY <2>1, TcpAssumption DEF TcpAssumption
<1>4. N + 1 \in 1..(N + 1) /\ Start[N + 1] \in Nat
  BY <1>2, <1>3
<1>5. msg > 0 => Accepted = Start[msg] + sent /\ msg + 1 \in 1..(N + 1)
  BY <1>2 DEF Accepted
<1>6. Accepted <= Start[N + 1]
  <2>1. CASE msg = 0
    BY <2>1, <1>4 DEF Accepted
  <2>2. CASE msg > 0
    <3>1. Start[msg + 1] <= Start[N + 1] /\ Start[msg + 1] \in Nat
      BY <2>2, <1>5, <1>3
    <3> QED BY <3>1, <2>2, <1>5, <1>2, <1>4
  <2> QED BY <2>1, <2>2, <1>2
<1>7. ASSUME wpc = "done" PROVE Accepted = Start[N + 1]
  <2>1. msg = N
    BY <1>1, <1>7 DEF SenderInv
  <2>2. CASE N = 0
    BY <2>1, <2>2, TcpAssumption DEF Accepted, TcpAssumption
  <2>3. CASE N > 0
    BY <2>1, <2>3, <1>1, <1>2, <1>5, <1>7 DEF SenderInv
  <2> QED BY <2>2, <2>3, <1>2
<1>8. ASSUME wpc \in {"select", "send"} PROVE Accepted < Start[N + 1]
  <2>1. msg > 0 /\ sent < Length(msg)
    BY <1>1, <1>8 DEF SenderInv
  <2>2. Start[msg + 1] <= Start[N + 1] /\ Start[msg + 1] \in Nat
    BY <2>1, <1>5, <1>3
  <2> QED BY <2>1, <2>2, <1>2, <1>4, <1>5
<1>9. /\ Calls(r) \in 0..N /\ Len(buf[r]) \in Nat /\ Taken(r) \in Nat
      /\ Calls(r) < N => /\ Wanted(r) \in Nat /\ Start[Calls(r) + 1] \in Nat
                         /\ Start[Calls(r) + 2] = Start[Calls(r) + 1] + Wanted(r)
  BY <1>1, ReaderFacts
<1>10. Taken(r) <= Accepted
  <2>1. Len(chan) \in Nat /\ Taken(r) + Len(chan) = Accepted
    BY <1>1 DEF TypeOK, ReaderInv
  <2> QED BY <2>1, <1>9
<1>11. ASSUME rpc[r] = "done" PROVE Taken(r) = Start[N + 1]
  <2>1. Calls(r) = N /\ Len(buf[r]) = 0
    BY <1>1, <1>11 DEF ReaderInv
  <2> QED BY <2>1, <1>4 DEF Taken
<1>12. ASSUME rpc[r] \in {"select", "recv"} PROVE Taken(r) < Start[N + 1]
  <2>1. Calls(r) < N /\ Len(buf[r]) < Wanted(r)
    BY <1>1, <1>12 DEF ReaderInv
  <2>2. Calls(r) + 2 \in 1..(N + 1)
    BY <2>1, <1>9, <1>2
  <2>3. Start[Calls(r) + 2] <= Start[N + 1] /\ Start[Calls(r) + 2] \in Nat
    BY <2>2, <1>3
  <2> QED BY <2>1, <2>3, <1>9, <1>4 DEF Taken
<1> QED BY <1>6, <1>7, <1>8, <1>10, <1>11, <1>12

\* Neither end throws before a time-out, a failing select or a reset.
THEOREM NoSpuriousThrowHolds == Spec => []NoSpuriousThrow
<1> DEFINE Quiet == ~Disturbed /\ \E r \in Readers : Framed(r)
           Sound == wpc # "failed" /\ \A r \in Readers : rpc[r] # "failed"
           K == Quiet => Sound
<1>1. Init => K
  BY DEF Init
<1>2. Inv /\ K /\ [Next]_vars => K'
  <2> SUFFICES ASSUME Inv, K, [Next]_vars, Quiet'
               PROVE  Sound'
    OBVIOUS
  <2>1. PICK r \in Readers : Framed(r)
    BY DEF Framed
  <2>2. Readers = {r} /\ Call[r] = "CRecv"
    BY <2>1 DEF Framed
  <2>3. TypeOK /\ Start[N + 1] \in Nat /\ Accepted \in Nat /\ Taken(r) \in Nat
    <3>1. TypeOK /\ SenderInv /\ ReaderInv(r)
      BY <2>1 DEF Inv
    <3>2. Start[N + 1] \in Nat
      BY TcpAssumption DEF TcpAssumption
    <3> QED BY <3>1, <3>2, SenderFacts, ReaderFacts
  <2>4. ~reset' /\ wpc' # "timeout" /\ rpc'[r] # "timeout"
    BY DEF Disturbed
  <2>5. ~reset /\ wpc # "timeout" /\ rpc[r] # "timeout"
    <3>1. rpc \in [Readers -> {"idle", "select", "recv", "done", "timeout", "failed"}]
      BY <2>3 DEF TypeOK
    <3>2. CASE Send \/ WTimeout \/ Reset \/ Finished \/ UNCHANGED vars
      BY <2>4, <3>2 DEF Send, CallSend, WSelect, SendSome, WAgain, WThrow, WTimeout, WDone,
         Reset, Finished, vars, sender, reader
    <3>3. ASSUME Recv(r) \/ RTimeout(r)
          PROVE  ~reset /\ wpc # "timeout" /\ rpc[r] # "timeout"
      <4>1. UNCHANGED <<sender, reset>>
        BY <3>3 DEF Recv, CallRecv, RSelect, Take, RAgain, REof, RThrow, RTimeout, RDone
      <4>2. rpc[r] # "timeout"
        BY <3>3 DEF Recv, CallRecv, RSelect, Take, RAgain, REof, RThrow, RTimeout, RDone
      <4> QED BY <4>1, <4>2, <2>4 DEF sender
    <3> QED BY <3>2, <3>3, <2>2 DEF Next
  <2>6. wpc # "failed" /\ rpc[r] # "failed"
    BY <2>1, <2>2, <2>5 DEF Disturbed
  <2>7. /\ Taken(r) <= Accepted /\ Accepted <= Start[N + 1]
        /\ wpc = "done" => Accepted = Start[N + 1]
        /\ wpc \in {"select", "send"} => Accepted < Start[N + 1]
        /\ rpc[r] = "done" => Taken(r) = Start[N + 1]
        /\ rpc[r] \in {"select", "recv"} => Taken(r) < Start[N + 1]
    BY <2>1, <2>5, Positions
  <2>8. CASE WThrow
    <3>1. wpc = "send" /\ ReadersClosed
      BY <2>5, <2>8 DEF WThrow
    <3>2. rpc[r] = "done"
      BY <3>1, <2>5, <2>6 DEF ReadersClosed, Gone
    <3> QED BY <3>1, <3>2, <2>3, <2>7
  <2>9. CASE Recv(r) \/ RTimeout(r)
    <3>1. rpc'[r] # "failed"
      <4>1. CASE REof(r)
        <5>1. wpc = "done" /\ rpc[r] = "recv" /\ chan = <<>>
          BY <4>1, <2>5, <2>6 DEF REof, SenderClosed, Gone
        <5>2. Taken(r) + Len(chan) = Accepted
          BY <2>5, <2>1 DEF Inv, ReaderInv
        <5>3. Taken(r) = Accepted
          BY <5>1, <5>2, <2>3
        <5> QED BY <5>1, <5>3, <2>3, <2>7
      <4>2. CASE RThrow(r)
        BY <4>2, <2>5 DEF RThrow
      <4>3. CASE Take(r)
        BY <4>3, <2>6, <2>3 DEF Take, TypeOK
      <4>4. CASE CallRecv(r) \/ RSelect(r) \/ RAgain(r) \/ RDone(r) \/ RTimeout(r)
        BY <4>4, <2>6, <2>3 DEF CallRecv, RSelect, RAgain, RDone, RTimeout, TypeOK
      <4> QED BY <2>9, <4>1, <4>2, <4>3, <4>4 DEF Recv
    <3>2. UNCHANGED sender
      BY <2>9 DEF Recv, CallRecv, RSelect, Take, RAgain, REof, RThrow, RTimeout, RDone
    <3> QED BY <3>1, <3>2, <2>2, <2>6 DEF sender
  <2>10. CASE \/ CallSend \/ WSelect \/ SendSome \/ WAgain \/ WDone \/ WTimeout
              \/ Reset \/ UNCHANGED vars
    BY <2>2, <2>6, <2>10 DEF CallSend, WSelect, SendSome, WAgain, WDone, WTimeout, Reset,
       vars, reader, sender
  <2> QED BY <2>2, <2>8, <2>9, <2>10 DEF Next, Send, Finished
<1>3. K => NoSpuriousThrow
  BY DEF NoSpuriousThrow
<1> HIDE DEF K
<1> QED BY <1>1, <1>2, <1>3, InvHolds, PTL DEF Spec
-----------------------------------------------------------------------------
\* A CRecv reader that completes a message completes one that was sent whole.
LEMMA DeliveredWasPut ==
  ASSUME Inv, NEW r \in Readers, Framed(r), ~reset, Calls(r) < N,
         Accepted >= Start[Calls(r) + 2]
  PROVE  Calls(r) < WholeMessages \/ Message(Calls(r) + 1) = <<>>
<1>1. TypeOK /\ SenderInv /\ ReaderInv(r)
  BY DEF Inv
<1>2. PICK c \in Nat : c = Calls(r)
  BY <1>1, ReaderFacts
<1>3. /\ N \in Nat /\ msg \in 0..N /\ sent \in Nat /\ Accepted \in Nat
      /\ msg > 0 => /\ msg \in 1..N /\ Start[msg] \in Nat
                    /\ Length(msg) \in Nat /\ sent <= Length(msg)
                    /\ Start[msg + 1] = Start[msg] + Length(msg)
  BY <1>1, SenderFacts
<1>4. /\ c < N /\ c + 1 \in 1..N /\ Wanted(r) \in Nat /\ Start[c + 1] \in Nat
      /\ Start[c + 2] = Start[c + 1] + Wanted(r) /\ Wanted(r) = Length(c + 1)
  BY <1>1, <1>2, ReaderFacts DEF Wanted
<1>5. SUFFICES ASSUME c >= WholeMessages
               PROVE  Wanted(r) = 0
  <2>1. Length(c + 1) = 0 => Message(c + 1) = <<>>
    <3>1. <<>> \in Seq(Nat) /\ Len(<<>>) = 0 /\ \A i \in 1..Len(<<>>) : <<>>[i] = Start[c + 1] + i
      OBVIOUS
    <3> QED BY <3>1, <1>4, FilledIsMessage
  <2>2. WholeMessages \in Int
    BY <1>3 DEF WholeMessages
  <2> QED BY <2>1, <2>2, <1>2, <1>4
<1>6. c + 1 \in 1..(N + 1) /\ c + 2 \in 1..(N + 1) /\ N + 1 \in 1..(N + 1)
  BY <1>3, <1>4
<1>7. CASE msg = 0
  <2>1. Accepted = 0
    BY <1>7 DEF Accepted
  <2> QED BY <2>1, <1>2, <1>4
<1>8. CASE msg > 0 /\ sent = Length(msg)
  <2>1. c >= msg /\ Accepted = Start[msg + 1]
    BY <1>3, <1>5, <1>8 DEF WholeMessages, Accepted
  <2>2. msg + 1 \in 1..(N + 1) /\ msg + 1 <= c + 1
    BY <2>1, <1>2, <1>3, <1>8
  <2>3. Start[msg + 1] <= Start[c + 1]
    BY <2>2, <1>6, TcpAssumption DEF TcpAssumption
  <2>4. Accepted >= Start[c + 1] + Wanted(r)
    BY <1>2, <1>4
  <2> QED BY <2>1, <2>3, <2>4, <1>3, <1>4
<1>9. CASE msg > 0 /\ sent # Length(msg)
  <2>1. c >= msg - 1 /\ Accepted = Start[msg] + sent /\ sent < Length(msg)
    BY <1>3, <1>5, <1>9 DEF WholeMessages, Accepted
  <2>2. msg + 1 \in 1..(N + 1) /\ msg + 1 <= c + 2
    BY <2>1, <1>2, <1>3, <1>9
  <2>3. Start[msg + 1] <= Start[c + 2]
    BY <2>2, <1>6, TcpAssumption DEF TcpAssumption
  <2>4. Accepted < Start[msg + 1]
    BY <2>1, <1>3, <1>9
  <2>5. Accepted >= Start[c + 2] /\ Start[c + 2] \in Nat
    BY <1>2, <1>4
  <2> QED BY <2>3, <2>4, <2>5, <1>3, <1>9
<1> QED BY <1>3, <1>7, <1>8, <1>9

\* CSend and CRecv carry frames.
THEOREM FramesImplemented ==
  ASSUME NEW r \in Readers, Framed(r)
  PROVE  Spec => ImplementsFrames
<1>0. TheReader = r /\ Readers = {r} /\ Call[r] = "CRecv" /\ N \in Nat
  BY TcpAssumption DEF Framed, TheReader, TcpAssumption
<1>1. Init => FC!Init
  BY <1>0 DEF Init, FC!Init, WholeMessages
<1>2. Inv /\ Inv' /\ [Next]_vars => [FC!Next]_FC!fcVars
  <2> SUFFICES ASSUME Inv, Inv', [Next]_vars
               PROVE  [FC!Next]_FC!fcVars
    OBVIOUS
  <2>0. TypeOK /\ SenderInv /\ ReaderInv(r) /\ ReaderInv(r)' /\ TypeOK'
    BY DEF Inv
  <2>s. /\ msg \in 0..N /\ sent \in Nat
        /\ msg > 0 => /\ msg \in 1..N /\ Length(msg) \in Nat /\ sent <= Length(msg)
    BY <2>0, SenderFacts
  <2>m. Len(Messages) = N /\ \A k \in 1..N : Messages[k] = Message(k)
    BY <1>0 DEF Messages
  <2>1. CASE UNCHANGED <<msg, sent, got>>
    BY <2>1 DEF WholeMessages, FC!fcVars
  <2>2. CASE CallSend
    <3>1. msg' = msg + 1 /\ sent' = 0 /\ got' = got /\ msg + 1 \in 1..N /\ Length(msg + 1) \in Nat
      BY <2>2, <2>s, <1>0, LengthNat DEF CallSend, reader
    <3>2. WholeMessages = msg
      BY <2>2, <2>0, <2>s DEF WholeMessages, SenderInv, CallSend
    <3>3. WholeMessages' = IF Length(msg + 1) = 0 THEN msg + 1 ELSE msg
      BY <3>1, <2>s DEF WholeMessages
    <3> QED BY <3>1, <3>2, <3>3, <2>m, <2>s, <1>0 DEF FC!Next, FC!Put, FC!fcVars
  <2>3. CASE SendSome
    <3>1. /\ msg > 0 /\ sent < Length(msg) /\ msg' = msg /\ got' = got
      BY <2>3, <2>0 DEF SendSome, SenderInv, reader
    <3>2. WholeMessages = msg - 1 /\ WholeMessages' \in {msg - 1, msg}
      BY <3>1, <2>s DEF WholeMessages
    <3> QED BY <3>1, <3>2, <2>m, <2>s, <1>0 DEF FC!Next, FC!Put, FC!fcVars
  <2>4. ASSUME UNCHANGED sender, ~reset, ~reset', Calls(r) < N,
               NEW f, got' = [got EXCEPT ![r] = Append(@, f)],
               Taken(r)' = Start[Calls(r) + 2]
        PROVE  FC!Next
    <3>1. PICK c \in Nat : c = Calls(r)
      BY <2>0, ReaderFacts
    <3>2. got[r] \in Seq(Seq(Nat)) /\ got'[r] = Append(got[r], f) /\ c = Len(got[r]) /\ c < N
      BY <2>0, <2>4, <3>1 DEF TypeOK, Calls
    <3>3. Len(got'[r]) = c + 1 /\ got'[r][c + 1] = f
      BY <3>2
    <3>4. f = Message(c + 1)
      <4>1. c + 1 \in 1..Calls(r)'
        BY <3>3 DEF Calls
      <4> QED BY <4>1, <3>3, <2>0 DEF ReaderInv
    <3>5. Accepted >= Start[c + 2]
      <4>1. Taken(r)' + Len(chan') = Accepted'
        BY <2>0, <2>4 DEF ReaderInv
      <4>2. Accepted' = Accepted
        BY <2>4 DEF Accepted, sender
      <4>3. Len(chan') \in Nat /\ c + 2 \in 1..(N + 1)
        BY <2>0, <3>2, <1>0 DEF TypeOK
      <4>4. Start[c + 2] \in Nat
        BY <4>3, TcpAssumption DEF TcpAssumption
      <4> QED BY <4>1, <4>2, <4>3, <4>4, <2>4, <3>1
    <3>6. c < WholeMessages \/ Message(c + 1) = <<>>
      BY <2>4, <3>1, <3>5, <1>0, DeliveredWasPut DEF Framed
    <3>7. Messages[c + 1] = Message(c + 1)
      BY <2>m, <3>2, <1>0
    <3>8. WholeMessages' = WholeMessages
      BY <2>4 DEF WholeMessages, sender
    <3> QED BY <3>2, <3>4, <3>6, <3>7, <3>8, <2>m, <1>0 DEF FC!Next, FC!Get
  <2>5. CASE Take(r)
    <3>1. UNCHANGED sender /\ ~reset /\ ~reset' /\ Calls(r) < N
      BY <2>5, <2>0 DEF Take, ReaderInv
    <3>2. CASE got' = got
      BY <3>1, <3>2 DEF WholeMessages, FC!fcVars, sender
    <3>3. CASE got' # got
      <4>1. PICK f : got' = [got EXCEPT ![r] = Append(@, f)] /\ buf' = [buf EXCEPT ![r] = <<>>]
        BY <2>5, <3>3 DEF Take
      <4>2. Taken(r)' = Start[Calls(r) + 2]
        <5>1. PICK c \in Nat : c = Calls(r)
          BY <2>0, ReaderFacts
        <5>2. /\ got'[r] = Append(got[r], f) /\ buf'[r] = <<>>
              /\ got[r] \in Seq(Seq(Nat)) /\ c = Len(got[r])
          BY <2>0, <4>1, <5>1 DEF TypeOK, Calls
        <5>3. Calls(r)' = c + 1 /\ (c + 1) + 1 = c + 2 /\ Len(buf'[r]) = 0
          BY <5>2 DEF Calls
        <5>4. c + 2 \in 1..(N + 1)
          BY <5>1, <3>1, <1>0
        <5>5. Start[c + 2] \in Nat
          BY <5>4, TcpAssumption DEF TcpAssumption
        <5> QED BY <5>1, <5>3, <5>5 DEF Taken
      <4> QED BY <3>1, <4>1, <4>2, <2>4
    <3> QED BY <3>2, <3>3
  <2>6. CASE CallRecv(r)
    <3>1. UNCHANGED <<sender, chan, reset>> /\ Calls(r) < N
      BY <2>6, <2>0, <1>0, ReaderFacts DEF CallRecv, MoreCalls
    <3>2. CASE got' = got
      BY <3>1, <3>2 DEF WholeMessages, FC!fcVars, sender
    <3>3. CASE got' # got
      <4>1. /\ got' = [got EXCEPT ![r] = Append(@, <<>>)] /\ Wanted(r) = 0
        BY <2>6, <3>3 DEF CallRecv
      <4>2. PICK c \in Nat : c = Calls(r)
        BY <2>0, ReaderFacts
      <4>3. c + 1 \in 1..N /\ Wanted(r) = Length(c + 1)
        BY <4>2, <3>1, <1>0 DEF Wanted
      <4>4. got'[r] = Append(got[r], <<>>) /\ c = Len(got[r]) /\ got[r] \in Seq(Seq(Nat))
        BY <4>1, <4>2, <2>0 DEF TypeOK, Calls
      <4>5. Len(got'[r]) = c + 1 /\ got'[r][c + 1] = <<>>
        BY <4>4
      <4>6. Message(c + 1) = <<>>
        <5>1. c + 1 \in 1..Calls(r)'
          BY <4>5 DEF Calls
        <5> QED BY <5>1, <4>5, <2>0 DEF ReaderInv
      <4>7. Messages[c + 1] = <<>> /\ c < N
        BY <4>3, <4>6, <2>m, <1>0
      <4>8. WholeMessages' = WholeMessages
        BY <3>1 DEF WholeMessages, sender
      <4> QED BY <4>4, <4>7, <4>8, <2>m, <1>0 DEF FC!Next, FC!Get
    <3> QED BY <3>2, <3>3
  <2>7. CASE \/ WSelect \/ WAgain \/ WThrow \/ WTimeout \/ WDone \/ Reset \/ Finished
             \/ RSelect(r) \/ RAgain(r) \/ REof(r) \/ RThrow(r) \/ RTimeout(r) \/ RDone(r)
    <3>1. UNCHANGED <<msg, sent, got>>
      BY <2>7 DEF WSelect, WAgain, WThrow, WTimeout, WDone, Reset, Finished, RSelect, RAgain,
         REof, RThrow, RTimeout, RDone, vars, sender, reader
    <3> QED BY <3>1, <2>1
  <2> QED BY <1>0, <2>1, <2>2, <2>3, <2>5, <2>6, <2>7 DEF Next, Send, Recv, vars
<1> QED BY <1>1, <1>2, InvHolds, PTL DEF Spec, ImplementsFrames, FC!Spec
-----------------------------------------------------------------------------
(* The stream shared by any number of readers.  What has been received is    *)
(* the bytes up to Front; each is with one reader, and each reader has its   *)
(* bytes in order.                                                           *)
Front == Accepted - Len(chan)

\* Byte b is among what the current call (s) or the finished calls (g) received.
Holds(g, s, b) ==
  \/ \E i \in 1..Len(s) : s[i] = b
  \/ \E j \in 1..Len(g) : \E a \in 1..Len(g[j]) : g[j][a] = b
Has(r, b) == Holds(got[r], buf[r], b)

\* The bytes in g, call by call, then those in s, go up, and not beyond f.
Ordered(g, s, f) ==
  /\ \A i \in 1..Len(s) : s[i] \in 1..f
  /\ \A i, k \in 1..Len(s) : i < k => s[i] < s[k]
  /\ \A j \in 1..Len(g) : \A a \in 1..Len(g[j]) : g[j][a] \in 1..f
  /\ \A j \in 1..Len(g) : \A a \in 1..Len(g[j]), i \in 1..Len(s) : g[j][a] < s[i]
  /\ \A j, k \in 1..Len(g) : \A a \in 1..Len(g[j]), b \in 1..Len(g[k]) :
       (j < k \/ (j = k /\ a < b)) => g[j][a] < g[k][b]

KernelInv ==
  /\ Front \in Nat
  /\ \A i \in 1..Len(chan) : chan[i] = Front + i

OwnInv(r) ==
  /\ rpc[r] = "idle" => buf[r] = <<>>
  /\ Ordered(got[r], buf[r], Front)
  /\ Call[r] = "Recv" /\ rpc[r] = "done" => SenderClosed /\ chan = <<>>

NoneCut == \A r \in Readers : Call[r] # "RecvCLRF"

SharedInv ==
  /\ KernelInv
  /\ \A r \in Readers : OwnInv(r)
  /\ \A r, q \in Readers : r # q => \A b \in 1..Front : ~(Has(r, b) /\ Has(q, b))
  /\ ~reset /\ NoneCut => \A b \in 1..Front : \E r \in Readers : Has(r, b)

\* Nothing is accepted, and nobody has anything.
LEMMA InitShared == Init => SharedInv
<1> SUFFICES ASSUME Init PROVE SharedInv
  OBVIOUS
<1>1. Accepted = 0 /\ chan = <<>> /\ Front = 0
  <2>1. Accepted = 0 /\ Len(chan) = 0
    BY DEF Init, Accepted
  <2>2. Front = 0
    BY <2>1 DEF Front
  <2> QED BY <2>1, <2>2 DEF Init
<1>2. \A r \in Readers : got[r] = <<>> /\ buf[r] = <<>> /\ rpc[r] = "idle"
  BY DEF Init
<1>3. KernelInv
  BY <1>1 DEF KernelInv
<1>4. \A r \in Readers : OwnInv(r)
  BY <1>2 DEF OwnInv, Ordered
<1>5. 1..Front = {}
  BY <1>1
<1> QED BY <1>3, <1>4, <1>5 DEF SharedInv

\* What a step of the sender does: it hands nothing to the kernel, or the next
\* bytes of the stream.
LEMMA SendEffect ==
  ASSUME TypeOK, SenderInv, Send \/ WTimeout
  PROVE  /\ UNCHANGED <<reset, reader>> /\ ~SenderClosed
         /\ \/ chan' = chan /\ Accepted' = Accepted
            \/ \E n \in Nat : /\ chan' = chan \o [i \in 1..n |-> Accepted + i]
                              /\ Accepted' = Accepted + n
<1>s. /\ N \in Nat /\ msg \in 0..N /\ sent \in Nat
      /\ msg > 0 => /\ msg \in 1..N /\ Start[msg] \in Nat
                    /\ Length(msg) \in Nat /\ sent <= Length(msg)
                    /\ Start[msg + 1] = Start[msg] + Length(msg)
  BY SenderFacts
<1>0. UNCHANGED <<reset, reader>> /\ ~SenderClosed
  BY DEF Send, CallSend, WSelect, SendSome, WAgain, WThrow, WTimeout, WDone, SenderClosed, Gone,
     reader
<1>1. CASE CallSend
  <2>1. msg' = msg + 1 /\ sent' = 0 /\ chan' = chan
    BY <1>1 DEF CallSend
  <2>2. CASE msg = 0
    BY <2>1, <2>2, <1>0, TcpAssumption DEF Accepted, TcpAssumption
  <2>3. CASE msg > 0
    BY <2>1, <2>3, <1>0, <1>1, <1>s DEF Accepted, SenderInv, CallSend
  <2> QED BY <2>2, <2>3, <1>s, SMTT(30)
<1>2. CASE SendSome
  <2>1. PICK n \in 1..(Length(msg) - sent) :
          /\ chan' = chan \o [i \in 1..n |-> Start[msg] + sent + i]
          /\ sent' = sent + n
    BY <1>2 DEF SendSome
  <2>2. /\ msg > 0 /\ msg' = msg /\ n \in Nat
        /\ Accepted = Start[msg] + sent
    BY <1>2, <1>s DEF SenderInv, SendSome, Accepted
  <2>3. Accepted' = Accepted + n
    <3>1. Accepted' = Start[msg] + sent'
      BY <2>2 DEF Accepted
    <3> QED BY <3>1, <2>1, <2>2, <1>s, SMTT(30)
  <2>4. chan' = chan \o [i \in 1..n |-> Accepted + i]
    BY <2>1, <2>2
  <2> QED BY <2>2, <2>3, <2>4, <1>0
<1>3. CASE WSelect \/ WAgain \/ WThrow \/ WTimeout \/ WDone
  <2>1. UNCHANGED <<msg, sent, chan>>
    BY <1>3 DEF WSelect, WAgain, WThrow, WTimeout, WDone
  <2> QED BY <2>1, <1>0 DEF Accepted
<1> QED BY <1>1, <1>2, <1>3 DEF Send

\* A step of the sender leaves what the readers have, and what is before it.
LEMMA SendShared ==
  ASSUME Inv, SharedInv, Send \/ WTimeout
  PROVE  SharedInv'
<1>0. TypeOK /\ SenderInv /\ KernelInv /\ chan \in Seq(Nat) /\ Len(chan) \in Nat
  BY DEF Inv, SharedInv, TypeOK
<1>1. Accepted \in Nat
  BY <1>0, SenderFacts
<1>2. UNCHANGED <<reset, rpc, buf, got>> /\ ~SenderClosed
  BY <1>0, SendEffect DEF reader
<1>3. Front' = Front /\ KernelInv'
  <2>1. CASE chan' = chan /\ Accepted' = Accepted
    BY <2>1, <1>0 DEF Front, KernelInv
  <2>2. ASSUME NEW n \in Nat, chan' = chan \o [i \in 1..n |-> Accepted + i],
               Accepted' = Accepted + n
        PROVE  Front' = Front /\ KernelInv'
    <3>1. /\ Len(chan') = Len(chan) + n
          /\ \A i \in 1..Len(chan) : chan'[i] = chan[i]
          /\ \A i \in 1..n : chan'[Len(chan) + i] = Accepted + i
      BY <2>2, <1>0, <1>1, AppendSeq, ZenonT(40)
    <3>2. Front' = Front
      BY <3>1, <2>2, <1>0, <1>1 DEF Front
    <3>3. ASSUME NEW i \in 1..Len(chan') PROVE chan'[i] = Front + i
      <4>1. CASE i \in 1..Len(chan)
        BY <4>1, <3>1, <1>0 DEF KernelInv
      <4>2. CASE i \notin 1..Len(chan)
        <5>1. PICK k \in 1..n : i = Len(chan) + k
          <6>1. i - Len(chan) \in 1..n /\ i = Len(chan) + (i - Len(chan))
            BY <4>2, <3>1, <1>0
          <6> QED BY <6>1
        <5>2. chan'[i] = Accepted + k
          BY <5>1, <3>1
        <5> QED BY <5>1, <5>2, <1>0, <1>1 DEF Front
      <4> QED BY <4>1, <4>2
    <3> QED BY <3>2, <3>3, <1>0 DEF KernelInv
  <2> QED BY <2>1, <2>2, <1>0, SendEffect
<1>4. \A r \in Readers : OwnInv(r)'
  BY <1>2, <1>3 DEF SharedInv, OwnInv
<1>5. \A r \in Readers, b \in 1..Front : Has(r, b)' = Has(r, b)
  BY <1>2 DEF Has
<1> QED BY <1>2, <1>3, <1>4, <1>5 DEF SharedInv

\* A reader has only bytes that have been received.
LEMMA HasBelow ==
  ASSUME SharedInv, NEW r \in Readers, NEW x, Has(r, x)
  PROVE  x \in 1..Front
<1>1. Ordered(got[r], buf[r], Front)
  BY DEF SharedInv, OwnInv
<1>2. CASE \E i \in 1..Len(buf[r]) : buf[r][i] = x
  BY <1>1, <1>2, Zenon DEF Ordered
<1>3. CASE \E j \in 1..Len(got[r]) : \E a \in 1..Len(got[r][j]) : got[r][j][a] = x
  BY <1>1, <1>3, Zenon DEF Ordered
<1> QED BY <1>2, <1>3, Zenon DEF Has, Holds


\* Two sequences of bytes, one after the other.
LEMMA JoinSeq ==
  ASSUME NEW b \in Seq(Nat), NEW t \in Seq(Nat)
  PROVE  /\ b \o t \in Seq(Nat) /\ Len(b \o t) = Len(b) + Len(t) /\ Len(b) \in Nat
         /\ \A i \in 1..Len(b) : (b \o t)[i] = b[i]
         /\ \A i \in 1..Len(t) : (b \o t)[Len(b) + i] = t[i]
  OBVIOUS

\* What recv() makes of the bytes b it had, when the kernel holds f + 1, f + 2, ...
LEMMA Taking ==
  ASSUME NEW b \in Seq(Nat), NEW c \in Seq(Nat), NEW f \in Nat,
         \A i \in 1..Len(c) : c[i] = f + i, NEW n \in Nat, n <= Len(c)
  PROVE  LET s == b \o SubSeq(c, 1, n)
         IN  /\ s \in Seq(Nat) /\ Len(s) = Len(b) + n
             /\ \A i \in 1..Len(b) : s[i] = b[i]
             /\ \A i \in 1..Len(s) : i > Len(b) => s[i] = f + (i - Len(b))
             /\ \A i \in 1..n : s[Len(b) + i] = f + i
<1> DEFINE t == SubSeq(c, 1, n)
           s == b \o t
<1>1. t \in Seq(Nat) /\ Len(t) = n /\ \A i \in 1..n : t[i] = f + i
  BY SplitSeq
<1> HIDE DEF t
<1>2. /\ s \in Seq(Nat) /\ Len(s) = Len(b) + n /\ Len(b) \in Nat
      /\ \A i \in 1..Len(b) : s[i] = b[i]
      /\ \A i \in 1..n : s[Len(b) + i] = t[i]
  <2>1. /\ s \in Seq(Nat) /\ Len(s) = Len(b) + Len(t) /\ Len(b) \in Nat
        /\ \A i \in 1..Len(b) : s[i] = b[i]
        /\ \A i \in 1..Len(t) : s[Len(b) + i] = t[i]
    BY <1>1, JoinSeq, Zenon
  <2> HIDE DEF s
  <2> QED BY <2>1, <1>1, Zenon
<1> HIDE DEF s
<1>3. ASSUME NEW i \in 1..Len(s), i > Len(b) PROVE s[i] = f + (i - Len(b))
  <2>1. i - Len(b) \in 1..n /\ Len(b) + (i - Len(b)) = i
    BY <1>2, <1>3
  <2> QED BY <2>1, <1>1, <1>2
<1> QED BY <1>1, <1>2, <1>3 DEF s, t

\* What RecvCLRF returns of the bytes it has is the beginning of them.
LEMMA ResultPrefix ==
  ASSUME NEW r \in Readers, NEW s \in Seq(Nat), Complete(r, s)
  PROVE  /\ Len(Result(r, s)) \in Nat /\ Len(Result(r, s)) <= Len(s)
         /\ \A i \in 1..Len(Result(r, s)) : Result(r, s)[i] = s[i]
         /\ Call[r] # "RecvCLRF" => Result(r, s) = s
<1>1. CASE Call[r] = "RecvCLRF"
  <2>1. \E j \in 1..Len(s) : IsCRLF(s, j)
    BY <1>1 DEF Complete
  <2> QED BY <2>1, <1>1, LineSeq DEF Result
<1>2. CASE Call[r] # "RecvCLRF"
  BY <1>2 DEF Result
<1> QED BY <1>1, <1>2

\* Bytes that come after f keep the order of those received before.
LEMMA OrderedGrow ==
  ASSUME NEW g \in Seq(Seq(Nat)), NEW b \in Seq(Nat), NEW f \in Nat, NEW n \in Nat,
         Ordered(g, b, f), NEW s \in Seq(Nat), Len(s) = Len(b) + n,
         \A i \in 1..Len(b) : s[i] = b[i],
         \A i \in 1..Len(s) : i > Len(b) => s[i] = f + (i - Len(b))
  PROVE  Ordered(g, s, f + n)
<1>1. ASSUME NEW i \in 1..Len(s)
      PROVE  /\ s[i] \in 1..(f + n)
             /\ i > Len(b) => s[i] > f
             /\ i <= Len(b) => i \in 1..Len(b) /\ s[i] = b[i] /\ s[i] <= f
  <2>1. CASE i <= Len(b)
    BY <2>1, i \in 1..Len(b), SMTT(30) DEF Ordered
  <2>2. CASE i > Len(b)
    BY <2>2
  <2> QED BY <2>1, <2>2
<1>2. ASSUME NEW i \in 1..Len(s), NEW k \in 1..Len(s), i < k
      PROVE  s[i] < s[k]
  <2>1. CASE k <= Len(b)
    <3>1. i \in 1..Len(b) /\ k \in 1..Len(b)
      BY <2>1, <1>2
    <3> QED BY <3>1, <1>2 DEF Ordered
  <2>2. CASE i <= Len(b) /\ k > Len(b)
    BY <2>2, <1>1, SMTT(30)
  <2>3. CASE i > Len(b)
    <3>1. k > Len(b) /\ s[i] = f + (i - Len(b)) /\ s[k] = f + (k - Len(b))
      BY <2>3, <1>2
    <3> QED BY <3>1, <1>2
  <2> QED BY <2>1, <2>2, <2>3, SMTT(30)
<1>3. ASSUME NEW j \in 1..Len(g), NEW a \in 1..Len(g[j])
      PROVE  /\ g[j][a] \in 1..(f + n)
             /\ \A i \in 1..Len(s) : g[j][a] < s[i]
  <2>1. g[j][a] \in 1..f /\ \A i \in 1..Len(b) : g[j][a] < b[i]
    BY DEF Ordered
  <2>2. ASSUME NEW i \in 1..Len(s) PROVE g[j][a] < s[i]
    <3>1. CASE i <= Len(b)
      BY <3>1, <2>1, <1>1
    <3>2. CASE i > Len(b)
      <4>1. s[i] \in Nat /\ s[i] > f
        BY <3>2, <1>1
      <4>2. PICK x \in 1..f : x = g[j][a]
        BY <2>1
      <4>3. x < s[i]
        BY <4>1
      <4> QED BY <4>2, <4>3
    <3> QED BY <3>1, <3>2
  <2>3. g[j][a] \in 1..(f + n)
    BY <2>1, SMTT(30)
  <2> QED BY <2>2, <2>3
<1>4. \A j, k \in 1..Len(g) : \A a \in 1..Len(g[j]), b_2 \in 1..Len(g[k]) :
        (j < k \/ (j = k /\ a < b_2)) => g[j][a] < g[k][b_2]
  BY DEF Ordered
<1> QED BY <1>1, <1>2, <1>3, <1>4 DEF Ordered

\* A call that returns a beginning of what it has received keeps the order.
LEMMA OrderedReturn ==
  ASSUME NEW g \in Seq(Seq(Nat)), NEW s \in Seq(Nat), NEW t \in Seq(Nat), NEW f \in Nat,
         Ordered(g, s, f), Len(t) <= Len(s), \A i \in 1..Len(t) : t[i] = s[i]
  PROVE  Ordered(Append(g, t), <<>>, f)
<1> DEFINE h == Append(g, t)
<1>1. /\ Len(h) = Len(g) + 1 /\ Len(g) \in Nat /\ h[Len(g) + 1] = t
      /\ \A j \in 1..Len(g) : h[j] = g[j]
  OBVIOUS
<1> HIDE DEF h
<1>2. \A j \in 1..Len(h) : j \in 1..Len(g) \/ (j = Len(g) + 1 /\ h[j] = t)
  BY <1>1
<1>3. \A a \in 1..Len(t) : a \in 1..Len(s) /\ t[a] = s[a] /\ t[a] \in 1..f
  <2>1. \A a \in 1..Len(t) : a \in 1..Len(s)
    OBVIOUS
  <2>2. \A a \in 1..Len(s) : s[a] \in 1..f
    BY Zenon DEF Ordered
  <2> QED BY <2>1, <2>2
<1>4. ASSUME NEW j \in 1..Len(h), NEW a \in 1..Len(h[j])
      PROVE  h[j][a] \in 1..f
  <2>1. CASE j \in 1..Len(g)
    BY <2>1, <1>1 DEF Ordered
  <2>2. CASE j = Len(g) + 1
    BY <2>2, <1>1, <1>3
  <2> QED BY <2>1, <2>2, <1>2
<1>5. ASSUME NEW j \in 1..Len(h), NEW k \in 1..Len(h),
             NEW a \in 1..Len(h[j]), NEW b \in 1..Len(h[k]),
             j < k \/ (j = k /\ a < b)
      PROVE  h[j][a] < h[k][b]
  <2>1. CASE j \in 1..Len(g) /\ k \in 1..Len(g)
    BY <2>1, <1>1, <1>5 DEF Ordered
  <2>2. CASE j \in 1..Len(g) /\ k = Len(g) + 1
    <3>1. h[j] = g[j] /\ h[k] = t /\ b \in 1..Len(t)
      BY <2>2, <1>1
    <3>2. b \in 1..Len(s) /\ t[b] = s[b] /\ a \in 1..Len(g[j])
      BY <3>1, <1>3
    <3>3. g[j][a] < s[b]
      BY <3>2, <2>2 DEF Ordered
    <3> QED BY <3>1, <3>2, <3>3
  <2>3. CASE j = Len(g) + 1 /\ k = Len(g) + 1
    <3>1. h[j] = t /\ h[k] = t /\ a < b
      BY <2>3, <1>1, <1>5
    <3>2. /\ a \in 1..Len(s) /\ t[a] = s[a]
          /\ b \in 1..Len(s) /\ t[b] = s[b]
      BY <3>1, <1>3
    <3> QED BY <3>1, <3>2 DEF Ordered
  <2>4. ~(j = Len(g) + 1 /\ k \in 1..Len(g))
    BY <1>5, <1>1
  <2> QED BY <2>1, <2>2, <2>3, <2>4, <1>2
<1>6. Len(<<>>) = 0
  OBVIOUS
<1>7. 1..Len(<<>>) = {}
  BY <1>6
<1>8. Ordered(h, <<>>, f)
  BY <1>4, <1>5, <1>7, Zenon DEF Ordered
<1> QED BY <1>8 DEF h

\* What a reader that keeps all it receives has after n more bytes.
LEMMA HoldsGrow ==
  ASSUME NEW g, NEW b \in Seq(Nat), NEW f \in Nat, NEW n \in Nat, NEW s \in Seq(Nat),
         Len(s) = Len(b) + n, \A i \in 1..Len(b) : s[i] = b[i],
         \A i \in 1..Len(s) : i > Len(b) => s[i] = f + (i - Len(b)),
         \A i \in 1..n : s[Len(b) + i] = f + i
  PROVE  /\ \A x \in 1..f : Holds(g, s, x) => Holds(g, b, x)
         /\ \A x : Holds(g, b, x) => Holds(g, s, x)
         /\ \A i \in 1..n : Holds(g, s, f + i)
<1>1. ASSUME NEW x \in 1..f, Holds(g, s, x) PROVE Holds(g, b, x)
  <2>1. ASSUME NEW i \in 1..Len(s), s[i] = x PROVE i \in 1..Len(b) /\ b[i] = x
    <3>1. ~(i > Len(b))
      BY <2>1
    <3>2. i \in 1..Len(b)
      BY <3>1
    <3> QED BY <3>2, <2>1
  <2> QED BY <2>1, <1>1, Zenon DEF Holds
<1>2. ASSUME NEW x, Holds(g, b, x) PROVE Holds(g, s, x)
  <2>1. ASSUME NEW i \in 1..Len(b), b[i] = x PROVE i \in 1..Len(s) /\ s[i] = x
    BY <2>1
  <2> QED BY <2>1, <1>2, Zenon DEF Holds
<1>3. ASSUME NEW i \in 1..n PROVE Holds(g, s, f + i)
  <2>1. Len(b) + i \in 1..Len(s) /\ s[Len(b) + i] = f + i
    OBVIOUS
  <2> QED BY <2>1, Zenon DEF Holds
<1> QED BY <1>1, <1>2, <1>3

\* Returning a beginning of what it has gives a reader no byte, returning all of it
\* loses none.
LEMMA HoldsReturn ==
  ASSUME NEW g \in Seq(Seq(Nat)), NEW s \in Seq(Nat), NEW t \in Seq(Nat),
         Len(t) <= Len(s), \A i \in 1..Len(t) : t[i] = s[i]
  PROVE  /\ \A x : Holds(Append(g, t), <<>>, x) => Holds(g, s, x)
         /\ t = s => \A x : Holds(g, s, x) => Holds(Append(g, t), <<>>, x)
<1> DEFINE h == Append(g, t)
<1>1. /\ Len(h) = Len(g) + 1 /\ Len(g) \in Nat /\ h[Len(g) + 1] = t
      /\ \A j \in 1..Len(g) : h[j] = g[j]
  OBVIOUS
<1> HIDE DEF h
<1>2. /\ \A j \in 1..Len(h) : j \in 1..Len(g) \/ (j = Len(g) + 1 /\ h[j] = t)
      /\ Len(g) + 1 \in 1..Len(h) /\ \A j \in 1..Len(g) : j \in 1..Len(h)
  BY <1>1
<1>3. 1..Len(<<>>) = {}
  OBVIOUS
<1>4. \A a \in 1..Len(t) : a \in 1..Len(s)
  OBVIOUS
<1>5. ASSUME NEW x, Holds(h, <<>>, x) PROVE Holds(g, s, x)
  <2>1. PICK j \in 1..Len(h) : \E a \in 1..Len(h[j]) : h[j][a] = x
    BY <1>3, <1>5, Zenon DEF Holds
  <2>2. CASE j \in 1..Len(g)
    BY <2>1, <2>2, <1>1, Zenon DEF Holds
  <2>3. CASE h[j] = t
    BY <2>1, <2>3, <1>4, Zenon DEF Holds
  <2> QED BY <2>2, <2>3, <1>2
<1>6. ASSUME t = s, NEW x, Holds(g, s, x) PROVE Holds(h, <<>>, x)
  <2>1. CASE \E i \in 1..Len(s) : s[i] = x
    BY <2>1, <1>6, <1>1, <1>2, Zenon DEF Holds
  <2>2. CASE \E j \in 1..Len(g) : \E a \in 1..Len(g[j]) : g[j][a] = x
    BY <2>2, <1>1, <1>2, ZenonT(40) DEF Holds
  <2> QED BY <2>1, <2>2, <1>6 DEF Holds
<1> QED BY <1>5, <1>6 DEF h

\* recv() hands the next n bytes to one reader.
LEMMA TakeShared ==
  ASSUME Inv, SharedInv, NEW r \in Readers, Take(r)
  PROVE  SharedInv'
<1>0. TypeOK /\ SenderInv /\ KernelInv /\ OwnInv(r)
  BY DEF Inv, SharedInv
<1>1. PICK n \in 1..Room(r) :
        /\ n <= Len(chan)
        /\ LET s == buf[r] \o SubSeq(chan, 1, n)
           IN IF Complete(r, s)
              THEN /\ got' = [got EXCEPT ![r] = Append(@, Result(r, s))]
                   /\ buf' = [buf EXCEPT ![r] = <<>>]
                   /\ rpc' = [rpc EXCEPT ![r] = "idle"]
              ELSE /\ buf' = [buf EXCEPT ![r] = s]
                   /\ rpc' = [rpc EXCEPT ![r] = "select"]
                   /\ UNCHANGED got
        /\ chan' = SubSeq(chan, n + 1, Len(chan))
  BY DEF Take
<1> DEFINE s == buf[r] \o SubSeq(chan, 1, n)
<1>2. /\ n \in Nat /\ n >= 1 /\ Front \in Nat
      /\ chan \in Seq(Nat) /\ Len(chan) \in Nat
      /\ buf[r] \in Seq(Nat) /\ got[r] \in Seq(Seq(Nat))
  <2>1. n \in Nat /\ n >= 1
    OBVIOUS
  <2> QED BY <2>1, <1>0 DEF TypeOK, KernelInv
<1>3. \A i \in 1..Len(chan) : chan[i] = Front + i
  BY <1>0 DEF KernelInv
<1>4. n <= Len(chan)
  BY <1>1
<1>5. /\ s \in Seq(Nat) /\ Len(s) = Len(buf[r]) + n
      /\ \A i \in 1..Len(buf[r]) : s[i] = buf[r][i]
      /\ \A i \in 1..Len(s) : i > Len(buf[r]) => s[i] = Front + (i - Len(buf[r]))
      /\ \A i \in 1..n : s[Len(buf[r]) + i] = Front + i
  <2>1. \A b \in Seq(Nat) :
          /\ b \o SubSeq(chan, 1, n) \in Seq(Nat) /\ Len(b \o SubSeq(chan, 1, n)) = Len(b) + n
          /\ \A i \in 1..Len(b) : (b \o SubSeq(chan, 1, n))[i] = b[i]
          /\ \A i \in 1..Len(b \o SubSeq(chan, 1, n)) :
               i > Len(b) => (b \o SubSeq(chan, 1, n))[i] = Front + (i - Len(b))
          /\ \A i \in 1..n : (b \o SubSeq(chan, 1, n))[Len(b) + i] = Front + i
    BY <1>2, <1>3, <1>4, Taking, SMTT(30)
  <2> QED BY <1>2, <2>1, Zenon
<1>6. /\ chan' = SubSeq(chan, n + 1, Len(chan)) /\ Len(chan') = Len(chan) - n
      /\ \A i \in 1..Len(chan') : chan'[i] = Front + n + i
  <2>1. chan' = SubSeq(chan, n + 1, Len(chan))
    BY <1>1
  <2> DEFINE c == SubSeq(chan, n + 1, Len(chan))
  <2>2. Len(c) = Len(chan) - n /\ \A i \in 1..(Len(chan) - n) : c[i] = chan[n + i]
    BY <1>2, <1>4, SplitSeq
  <2> HIDE DEF c, s
  <2>3. ASSUME NEW i \in 1..Len(c) PROVE c[i] = Front + n + i
    <3>1. n + i \in 1..Len(chan) /\ i \in 1..(Len(chan) - n)
      BY <2>2, <1>2, <1>4
    <3>2. c[i] = Front + (n + i)
      BY <3>1, <2>2, <1>3
    <3> QED BY <3>2, <1>2
  <2> QED BY <2>1, <2>2, <2>3 DEF c
<1>7. UNCHANGED <<reset, sender>> /\ Accepted' = Accepted
  BY DEF Take, Accepted, sender
<1>8. Front' = Front + n
  <2>1. Accepted \in Nat /\ Len(chan') = Len(chan) - n
    BY <1>0, <1>6, SenderFacts
  <2> QED BY <2>1, <1>2, <1>7 DEF Front
<1>9. KernelInv'
  <2>1. Front' \in Nat
    BY <1>2, <1>8
  <2>2. \A i \in 1..Len(chan') : chan'[i] = Front' + i
    BY <1>6, <1>8
  <2> QED BY <2>1, <2>2 DEF KernelInv
<1> HIDE DEF s
<1>10. /\ Complete(r, s) => /\ got' = [got EXCEPT ![r] = Append(got[r], Result(r, s))]
                            /\ buf' = [buf EXCEPT ![r] = <<>>]
                            /\ rpc' = [rpc EXCEPT ![r] = "idle"]
       /\ ~Complete(r, s) => /\ buf' = [buf EXCEPT ![r] = s] /\ got' = got
                             /\ rpc' = [rpc EXCEPT ![r] = "select"]
  BY <1>1 DEF s
<1>11. \A q \in Readers : q # r => UNCHANGED <<got[q], buf[q], rpc[q]>>
  BY <1>10, <1>0 DEF TypeOK
<1>12. Ordered(got[r], s, Front + n)
  BY <1>0, <1>2, <1>5, OrderedGrow DEF OwnInv
<1>13. /\ \A x \in 1..Front : Holds(got[r], s, x) => Has(r, x)
       /\ \A x : Has(r, x) => Holds(got[r], s, x)
       /\ \A i \in 1..n : Holds(got[r], s, Front + i)
  BY <1>2, <1>5, HoldsGrow DEF Has
<1>14. /\ OwnInv(r)'
       /\ \A x : Has(r, x)' => Holds(got[r], s, x)
       /\ Call[r] # "RecvCLRF" => \A x : Holds(got[r], s, x) => Has(r, x)'
  <2>1. CASE Complete(r, s)
    <3> DEFINE t == Result(r, s)
    <3>1. /\ got'[r] = Append(got[r], t) /\ buf'[r] = <<>> /\ rpc'[r] = "idle"
      BY <2>1, <1>10, <1>0 DEF TypeOK
    <3>2. /\ t \in Seq(Nat) /\ Len(t) \in Nat /\ Len(t) <= Len(s)
          /\ \A i \in 1..Len(t) : t[i] = s[i]
          /\ Call[r] # "RecvCLRF" => t = s
      <4>1. t \in Seq(Nat)
        <5>1. CASE Call[r] = "RecvCLRF"
          BY <5>1, <1>5, <2>1, LineSeq DEF Complete, Result
        <5>2. CASE Call[r] # "RecvCLRF"
          BY <5>2, <1>5 DEF Result
        <5> QED BY <5>1, <5>2
      <4> QED BY <4>1, <1>5, <2>1, ResultPrefix
    <3> HIDE DEF t
    <3>3. Ordered(Append(got[r], t), <<>>, Front + n)
      <4>1. PICK f \in Nat : f = Front + n
        BY <1>2
      <4> QED BY <4>1, <3>2, <1>2, <1>5, <1>12, OrderedReturn
    <3>4. /\ \A x : Holds(Append(got[r], t), <<>>, x) => Holds(got[r], s, x)
          /\ t = s => \A x : Holds(got[r], s, x) => Holds(Append(got[r], t), <<>>, x)
      BY <3>2, <1>2, <1>5, HoldsReturn
    <3>5. OwnInv(r)'
      BY <3>1, <3>3, <1>8 DEF OwnInv
    <3> QED BY <3>1, <3>2, <3>4, <3>5 DEF Has
  <2>2. CASE ~Complete(r, s)
    <3>1. got'[r] = got[r] /\ buf'[r] = s /\ rpc'[r] = "select"
      BY <2>2, <1>10, <1>0 DEF TypeOK
    <3>2. OwnInv(r)'
      BY <3>1, <1>12, <1>8 DEF OwnInv
    <3> QED BY <3>1, <3>2 DEF Has
  <2> QED BY <2>1, <2>2
<1>15. ASSUME NEW q \in Readers, q # r PROVE OwnInv(q)'
  <2>1. OwnInv(q) /\ UNCHANGED <<got[q], buf[q], rpc[q]>>
    BY <1>11, <1>15 DEF SharedInv
  <2>2. chan # <<>>
    <3>1. Len(chan) >= 1
      BY <1>2, <1>4
    <3> QED BY <3>1
  <2>3. \A x : x \in 1..Front => x \in 1..(Front + n)
    BY <1>2
  <2>4. Ordered(got[q], buf[q], Front + n)
    BY <2>1, <2>3, Zenon DEF OwnInv, Ordered
  <2> QED BY <2>1, <2>2, <2>4, <1>8 DEF OwnInv
<1>16. \A q \in Readers : \A x : q # r => Has(q, x)' = Has(q, x)
  BY <1>11 DEF Has
<1>17. ASSUME NEW q \in Readers, q # r, NEW x \in 1..(Front + n) PROVE ~(Has(r, x)' /\ Has(q, x)')
  <2>1. CASE x \in 1..Front
    BY <2>1, <1>13, <1>14, <1>16, <1>17 DEF SharedInv
  <2>2. CASE x \notin 1..Front
    <3>1. ~Has(q, x)
      BY <2>2, <1>8, HasBelow
    <3> QED BY <3>1, <1>16, <1>17
  <2> QED BY <2>1, <2>2
<1>18. ASSUME NEW q \in Readers, NEW p \in Readers, q # p, NEW x \in 1..Front'
       PROVE  ~(Has(q, x)' /\ Has(p, x)')
  <2>1. CASE q = r \/ p = r
    BY <2>1, <1>8, <1>17, <1>18
  <2>2. CASE q # r /\ p # r
    <3>1. CASE x \in 1..Front
      BY <2>2, <3>1, <1>16, <1>18 DEF SharedInv
    <3>2. CASE x \notin 1..Front
      <4>1. ~Has(q, x)
        BY <3>2, HasBelow
      <4> QED BY <4>1, <2>2, <1>16
    <3> QED BY <3>1, <3>2
  <2> QED BY <2>1, <2>2
<1>19. ASSUME ~reset, NoneCut, NEW x \in 1..Front'
       PROVE  \E q \in Readers : Has(q, x)'
  <2>1. Call[r] # "RecvCLRF"
    BY <1>19 DEF NoneCut
  <2>2. CASE x \in 1..Front
    <3>1. PICK q \in Readers : Has(q, x)
      BY <1>19, <2>2 DEF SharedInv
    <3> QED BY <3>1, <2>1, <1>13, <1>14, <1>16
  <2>3. CASE x \notin 1..Front
    <3>1. PICK i \in 1..n : x = Front + i
      <4>1. x - Front \in 1..n /\ x = Front + (x - Front)
        BY <2>3, <1>8, <1>2
      <4> QED BY <4>1
    <3> QED BY <3>1, <2>1, <1>13, <1>14
  <2> QED BY <2>2, <2>3
<1>20. \A q \in Readers : OwnInv(q)'
  BY <1>14, <1>15
<1> QED BY <1>7, <1>9, <1>18, <1>19, <1>20 DEF SharedInv, NoneCut

\* A step that changes what one reader holds in neither set nor order leaves the
\* division as it was.
LEMMA OthersShared ==
  ASSUME SharedInv, NEW r \in Readers, UNCHANGED <<sender, chan, reset>>, Front' = Front,
         KernelInv', OwnInv(r)', \A x : Has(r, x)' = Has(r, x),
         \A q \in Readers : q # r => UNCHANGED <<got[q], buf[q], rpc[q]>>
  PROVE  SharedInv'
<1>1. \A q \in Readers : \A x : Has(q, x)' = Has(q, x)
  BY DEF Has
<1>2. ASSUME NEW q \in Readers PROVE OwnInv(q)'
  <2>1. CASE q = r
    BY <2>1
  <2>2. CASE q # r
    <3>1. UNCHANGED <<got[q], buf[q], rpc[q], chan, wpc, Front>> /\ OwnInv(q)
      BY <2>2 DEF SharedInv, sender
    <3> QED BY <3>1 DEF OwnInv, SenderClosed
  <2> QED BY <2>1, <2>2
<1> QED BY <1>1, <1>2 DEF SharedInv

\* The sender hands over no more than the messages, and all of them when it is done.
LEMMA AcceptedBound ==
  ASSUME TypeOK, SenderInv
  PROVE  /\ Start[N + 1] \in Nat /\ Accepted <= Start[N + 1]
         /\ wpc = "done" => Accepted = Start[N + 1]
         /\ wpc \in {"select", "send"} => Accepted < Start[N + 1]
<1>2. /\ N \in Nat /\ msg \in 0..N /\ sent \in Nat
      /\ msg > 0 => /\ msg \in 1..N /\ Start[msg] \in Nat
                    /\ Length(msg) \in Nat /\ sent <= Length(msg)
                    /\ Start[msg + 1] = Start[msg] + Length(msg)
      /\ Accepted \in Nat
  BY SenderFacts
<1>3. \A j \in 1..(N + 1) : Start[j] \in Nat /\ Start[j] <= Start[N + 1]
  <2>1. N + 1 \in 1..(N + 1) /\ \A j \in 1..(N + 1) : j <= N + 1
    BY <1>2
  <2> QED BY <2>1, TcpAssumption DEF TcpAssumption
<1>4. N + 1 \in 1..(N + 1) /\ Start[N + 1] \in Nat
  BY <1>2, <1>3
<1>5. msg > 0 => Accepted = Start[msg] + sent /\ msg + 1 \in 1..(N + 1)
  BY <1>2 DEF Accepted
<1>6. Accepted <= Start[N + 1]
  <2>1. CASE msg = 0
    BY <2>1, <1>4 DEF Accepted
  <2>2. CASE msg > 0
    <3>1. Start[msg + 1] <= Start[N + 1] /\ Start[msg + 1] \in Nat
      BY <2>2, <1>5, <1>3
    <3> QED BY <3>1, <2>2, <1>5, <1>2, <1>4
  <2> QED BY <2>1, <2>2, <1>2
<1>7. ASSUME wpc = "done" PROVE Accepted = Start[N + 1]
  <2>1. msg = N
    BY <1>7 DEF SenderInv
  <2>2. CASE N = 0
    BY <2>1, <2>2, TcpAssumption DEF Accepted, TcpAssumption
  <2>3. CASE N > 0
    BY <2>1, <2>3, <1>2, <1>5, <1>7 DEF SenderInv
  <2> QED BY <2>2, <2>3, <1>2
<1>8. ASSUME wpc \in {"select", "send"} PROVE Accepted < Start[N + 1]
  <2>1. msg > 0 /\ sent < Length(msg)
    BY <1>8 DEF SenderInv
  <2>2. Start[msg + 1] <= Start[N + 1] /\ Start[msg + 1] \in Nat
    BY <2>1, <1>5, <1>3
  <2> QED BY <2>1, <2>2, <1>2, <1>4, <1>5
<1> QED BY <1>4, <1>6, <1>7, <1>8

\* The other steps of a reader give it no byte; the end of the stream it meets only
\* when all of it has been received.
LEMMA RecvShared ==
  ASSUME Inv, SharedInv, NEW r \in Readers, Recv(r) \/ RTimeout(r)
  PROVE  SharedInv'
<1>0. TypeOK /\ KernelInv /\ OwnInv(r)
  BY DEF Inv, SharedInv
<1>1. CASE Take(r)
  BY <1>1, TakeShared
<1>2. CASE CallRecv(r) \/ RSelect(r) \/ RAgain(r) \/ REof(r) \/ RThrow(r) \/ RTimeout(r) \/ RDone(r)
  <2>1. /\ UNCHANGED <<sender, chan, reset>>
        /\ \A q \in Readers : q # r => UNCHANGED <<got[q], buf[q], rpc[q]>>
    BY <1>0, <1>2 DEF CallRecv, RSelect, RAgain, REof, RThrow, RTimeout, RDone, TypeOK
  <2>2. Front' = Front /\ KernelInv'
    BY <2>1, <1>0 DEF Front, Accepted, KernelInv, sender
  <2>3. CASE CallRecv(r)
    <3>1. buf[r] = <<>> /\ buf'[r] = <<>>
      BY <2>3, <1>0 DEF CallRecv, OwnInv, TypeOK
    <3>2. /\ got'[r] = got[r] \/ got'[r] = Append(got[r], <<>>)
          /\ rpc'[r] \in {"idle", "select"}
      BY <2>3, <1>0 DEF CallRecv, TypeOK
    <3>3. got[r] \in Seq(Seq(Nat)) /\ <<>> \in Seq(Nat) /\ Front \in Nat
      BY <1>0 DEF TypeOK, KernelInv
    <3>4. Ordered(got'[r], <<>>, Front)
      <4>1. Ordered(got[r], <<>>, Front)
        BY <3>1, <1>0 DEF OwnInv
      <4>2. Len(<<>>) <= Len(<<>>) /\ 1..Len(<<>>) = {}
        OBVIOUS
      <4> QED BY <4>1, <4>2, <3>2, <3>3, OrderedReturn
    <3>5. \A x : Has(r, x)' = Has(r, x)
      <4>1. Len(<<>>) <= Len(<<>>) /\ 1..Len(<<>>) = {}
        OBVIOUS
      <4>2. \A x : Holds(Append(got[r], <<>>), <<>>, x) <=> Holds(got[r], <<>>, x)
        BY <4>1, <3>3, HoldsReturn
      <4>3. \A x : Has(r, x)' <=> Has(r, x)
        BY <4>2, <3>1, <3>2 DEF Has
      <4> QED BY <4>3 DEF Has, Holds
    <3>6. OwnInv(r)'
      BY <3>1, <3>2, <3>4, <2>2 DEF OwnInv
    <3> QED BY <3>5, <3>6, <2>1, <2>2, OthersShared
  <2>4. CASE RSelect(r) \/ RAgain(r) \/ REof(r) \/ RThrow(r) \/ RTimeout(r) \/ RDone(r)
    <3>1. /\ UNCHANGED <<got, buf>> /\ rpc'[r] # "idle"
          /\ Call[r] = "Recv" /\ rpc'[r] = "done" => SenderClosed /\ chan = <<>>
      BY <2>4, <1>0 DEF RSelect, RAgain, REof, RThrow, RTimeout, RDone, TypeOK, MoreCalls
    <3>2. OwnInv(r)'
      BY <3>1, <2>1, <2>2, <1>0 DEF OwnInv, SenderClosed, sender
    <3>3. \A x : Has(r, x)' = Has(r, x)
      BY <3>1 DEF Has
    <3> QED BY <3>2, <3>3, <2>1, <2>2, OthersShared
  <2> QED BY <1>2, <2>3, <2>4
<1> QED BY <1>1, <1>2 DEF Recv

\* Every step keeps the invariant of the shared stream.
LEMMA StepShared == Inv /\ SharedInv /\ [Next]_vars => SharedInv'
<1> SUFFICES ASSUME Inv, SharedInv, [Next]_vars PROVE SharedInv'
  OBVIOUS
<1>1. CASE UNCHANGED vars
  BY <1>1 DEF SharedInv, KernelInv, OwnInv, Has, Front, Accepted, SenderClosed, vars
<1>2. CASE Reset
  <2>1. UNCHANGED <<wpc, msg, sent, rpc, buf, got>> /\ chan' = <<>> /\ reset'
    BY <1>2 DEF Reset, sender, reader
  <2>2. TypeOK /\ SenderInv /\ KernelInv /\ Len(chan) \in Nat /\ Accepted \in Nat
    BY SenderFacts DEF Inv, SharedInv, TypeOK
  <2>3. Accepted' = Accepted /\ Len(chan') = 0
    BY <2>1 DEF Accepted
  <2>4. Front' = Accepted /\ Front \in Nat /\ Front <= Accepted
    BY <2>2, <2>3 DEF Front, KernelInv
  <2>5. KernelInv'
    BY <2>2, <2>3, <2>4 DEF KernelInv
  <2>6. \A x : x \in 1..Front => x \in 1..Front'
    BY <2>2, <2>4
  <2>7. ASSUME NEW r \in Readers PROVE OwnInv(r)'
    <3>1. OwnInv(r) /\ Ordered(got[r], buf[r], Front)
      BY DEF SharedInv, OwnInv
    <3>2. Ordered(got[r], buf[r], Front')
      BY <3>1, <2>6, Zenon DEF Ordered
    <3> QED BY <3>1, <3>2, <2>1 DEF OwnInv, SenderClosed
  <2>8. ASSUME NEW r \in Readers, NEW x, Has(r, x) PROVE x \in 1..Front
    BY <2>8, HasBelow
  <2>9. \A r \in Readers : \A x : Has(r, x)' = Has(r, x)
    BY <2>1 DEF Has
  <2>10. \A r, q \in Readers : r # q => \A x \in 1..Front' : ~(Has(r, x)' /\ Has(q, x)')
    BY <2>8, <2>9 DEF SharedInv
  <2> QED BY <2>1, <2>5, <2>7, <2>10 DEF SharedInv
<1> QED BY <1>1, <1>2, SendShared, RecvShared DEF Next, Finished

\* Every state of a connection with several readers has SharedInv: what each reader
\* got and holds is in order and below Front, and no two have the same byte.
THEOREM SharedHolds == Spec => []SharedInv
  BY InitShared, StepShared, InvHolds, PTL DEF Spec

\* However the threads race from select to recv, each byte is in the kernel or with
\* one of them, and each has its bytes in order.
THEOREM DividedHolds == Spec => []Divided
<1>1. Inv /\ SharedInv => Divided
  <2> SUFFICES ASSUME Inv, SharedInv PROVE Divided
    OBVIOUS
  <2>0. /\ KernelInv /\ Front \in Nat /\ Accepted \in Nat /\ Len(chan) \in Nat
        /\ Accepted = Front + Len(chan)
    <3>1. KernelInv /\ Accepted \in Nat /\ Len(chan) \in Nat
      BY SenderFacts DEF Inv, SharedInv, TypeOK
    <3> QED BY <3>1 DEF KernelInv, Front
  <2>1. Accepted <= Start[N + 1] /\ Start[N + 1] \in Nat
    BY AcceptedBound DEF Inv
  <2>2. InOrder
    BY Zenon DEF InOrder, SharedInv, OwnInv, Ordered
  <2>3. ASSUME NEW r \in Readers, NEW x PROVE x \in Received(r) <=> Has(r, x)
    <3>1. Has(r, x) => x \in 1..Front
      BY HasBelow
    <3>2. x \in 1..Front => x \in 1..Start[N + 1]
      BY <2>0, <2>1
    <3> QED BY <3>1, <3>2, Zenon DEF Received, Has, Holds
  <2>4. ASSUME NEW x PROVE x \in Pending <=> x \in (Front + 1)..Accepted
    <3>1. ASSUME x \in Pending PROVE x \in (Front + 1)..Accepted
      <4>1. PICK i \in 1..Len(chan) : x = chan[i]
        BY <3>1 DEF Pending
      <4>2. x = Front + i
        BY <4>1, <2>0 DEF KernelInv
      <4> QED BY <4>2, <2>0
    <3>2. ASSUME x \in (Front + 1)..Accepted PROVE x \in Pending
      <4>1. PICK i \in 1..Len(chan) : x = Front + i
        <5>1. x - Front \in 1..Len(chan) /\ x = Front + (x - Front)
          BY <3>2, <2>0
        <5> QED BY <5>1
      <4>2. x = chan[i]
        BY <4>1, <2>0 DEF KernelInv
      <4> QED BY <4>2 DEF Pending
    <3> QED BY <3>1, <3>2
  <2>5. ASSUME ~reset, NoneCut PROVE 1..Accepted = Pending \cup UNION {Received(r) : r \in Readers}
    <3>1. ASSUME NEW x \in 1..Accepted PROVE x \in Pending \cup UNION {Received(r) : r \in Readers}
      <4>1. CASE x \in 1..Front
        <5>1. PICK r \in Readers : Has(r, x)
          BY <4>1, <2>5 DEF SharedInv
        <5> QED BY <5>1, <2>3
      <4>2. CASE x \notin 1..Front
        <5>1. x \in (Front + 1)..Accepted
          BY <4>2, <2>0
        <5> QED BY <5>1, <2>4
      <4> QED BY <4>1, <4>2
    <3>2. ASSUME NEW x \in Pending PROVE x \in 1..Accepted
      <4>1. x \in (Front + 1)..Accepted
        BY <2>4
      <4> QED BY <4>1, <2>0
    <3>3. ASSUME NEW r \in Readers, NEW x \in Received(r) PROVE x \in 1..Accepted
      <4>1. Has(r, x)
        BY <2>3
      <4>2. x \in 1..Front
        BY <4>1, HasBelow
      <4> QED BY <4>2, <2>0
    <3> QED BY <3>1, <3>2, <3>3
  <2>6. ASSUME NEW r \in Readers PROVE Received(r) \cap Pending = {}
    <3> SUFFICES ASSUME NEW x \in Received(r), x \in Pending PROVE FALSE
      OBVIOUS
    <3>1. Has(r, x) /\ x \in (Front + 1)..Accepted
      BY <2>3, <2>4
    <3>2. x \in 1..Front
      BY <3>1, HasBelow
    <3> QED BY <3>1, <3>2, <2>0
  <2>7. ASSUME NEW r \in Readers, NEW q \in Readers, r # q PROVE Received(r) \cap Received(q) = {}
    <3> SUFFICES ASSUME NEW x \in Received(r), x \in Received(q) PROVE FALSE
      OBVIOUS
    <3>1. Has(r, x) /\ Has(q, x)
      BY <2>3
    <3>2. x \in 1..Front
      BY <3>1, HasBelow
    <3> QED BY <3>1, <3>2, <2>7 DEF SharedInv
  <2> QED BY <2>2, <2>5, <2>6, <2>7 DEF Divided, Partition, NoneCut
<1> QED BY <1>1, InvHolds, SharedHolds, PTL

\* Recv returns 0 only when the sender is closed, the kernel is empty and, if the
\* sender's calls all returned, all they were given has been received.
THEOREM EofIsTheEndHolds == Spec => []EofIsTheEnd
<1>1. Inv /\ SharedInv => EofIsTheEnd
  BY AcceptedBound, Zenon DEF EofIsTheEnd, Inv, SharedInv, OwnInv
<1> QED BY <1>1, InvHolds, SharedHolds, PTL
==========================================================================
