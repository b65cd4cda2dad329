------------------------- MODULE SslStreamProofs -------------------------
(***************************************************************************)
(* Proofs about SslStream, for every set of programs, every number of bytes *)
(* and lines the peer sends, every cut into records and every size of the   *)
(* kernel's buffers.  The invariant follows the bytes both ways: what the   *)
(* calls returned, what OpenSSL holds and what is on the way is one run of  *)
(* the peer's bytes (BytesInv), what the peer received and what is on the   *)
(* way to it is what the sending calls were given (SentInv), and handshakes *)
(* and the close come in their order (WireInv).                             *)
(***************************************************************************)
EXTENDS SslStream, FiniteSetTheorems, TLAPS

\* A set that holds 0 and every successor of its members holds every number: the
\* interval from 0 to a number outside would have a least one among those like it.
LEMMA SetInduction ==
  ASSUME NEW P, 0 \in P, \A n \in Nat : n \in P => n + 1 \in P
  PROVE  Nat \subseteq P
<1> SUFFICES ASSUME NEW m \in Nat \ P PROVE FALSE
  OBVIOUS
<1> DEFINE U == {0..x : x \in Nat \ P}
<1>1. \A x \in Nat \ P : 0..x \in FiniteSubsetsOf(Nat)
  <2> TAKE x \in Nat \ P
  <2>1. IsFiniteSet(0..x) /\ 0..x \in SUBSET Nat
    BY FS_Interval
  <2> QED BY <2>1 DEF FiniteSubsetsOf
<1>2. PICK I \in U : \A J \in U : <<J, I>> \notin StrictSubsetOrdering(Nat)
  <2>1. U \subseteq FiniteSubsetsOf(Nat) /\ U # {}
    BY <1>1
  <2> QED BY <2>1, FS_StrictSubsetOrderingWellFounded, WFMin
<1>3. PICK x \in Nat \ P : I = 0..x
  OBVIOUS
<1>4. x - 1 \in Nat \ P
  <2>1. x # 0 /\ x - 1 \in Nat /\ (x - 1) + 1 = x
    BY <1>3
  <2> QED BY <2>1
<1>5. 0..(x - 1) \subseteq 0..x /\ 0..(x - 1) # 0..x
  <2>1. x \in 0..x /\ x \notin 0..(x - 1)
    OBVIOUS
  <2> QED BY <2>1, <1>4
<1>6. <<0..(x - 1), 0..x>> \notin StrictSubsetOrdering(Nat)
  BY <1>2, <1>3, <1>4
<1> QED BY <1>5, <1>6 DEF StrictSubsetOrdering
-----------------------------------------------------------------------------
(* Sums of lengths.                                                          *)
\* t holds the sums of the first lengths, as Total defines them.
IsTotal(t, f, n) == t = [k \in 0..n |-> IF k = 0 THEN 0 ELSE t[k - 1] + f[k]]

\* The sums of the first lengths are a function, whatever the lengths.
LEMMA TotalExists ==
  ASSUME NEW f, NEW n \in Nat
  PROVE  \E t : IsTotal(t, f, n)
<1> DEFINE P == {m \in Nat : \E t : IsTotal(t, f, m)}
<1>1. 0 \in P
  <2>1. IsTotal([k \in 0..0 |-> 0], f, 0)
    BY DEF IsTotal
  <2> QED BY <2>1
<1>2. ASSUME NEW m \in Nat, m \in P PROVE m + 1 \in P
  <2>1. PICK t : IsTotal(t, f, m)
    BY <1>2
  <2> DEFINE u == [k \in 0..(m + 1) |-> IF k = m + 1 THEN t[m] + f[k] ELSE t[k]]
  <2>2. ASSUME NEW k \in 0..(m + 1) PROVE u[k] = IF k = 0 THEN 0 ELSE u[k - 1] + f[k]
    <3>1. CASE k = m + 1
      <4>1. k # 0 /\ k - 1 = m /\ m \in 0..(m + 1) /\ m # m + 1
        BY <3>1
      <4> QED BY <4>1, <3>1
    <3>2. CASE k # m + 1
      <4>1. k \in 0..m /\ u[k] = t[k]
        BY <3>2
      <4>2. t[k] = IF k = 0 THEN 0 ELSE t[k - 1] + f[k]
        BY <4>1, <2>1 DEF IsTotal
      <4>3. CASE k = 0
        BY <4>1, <4>2, <4>3
      <4>4. CASE k # 0
        <5>1. k - 1 \in 0..(m + 1) /\ k - 1 # m + 1
          BY <4>1, <4>4
        <5> QED BY <5>1, <4>1, <4>2, <4>4
      <4> QED BY <4>3, <4>4
    <3> QED BY <3>1, <3>2
  <2>3. u = [k \in 0..(m + 1) |-> u[k]]
    OBVIOUS
  <2> HIDE DEF u
  <2>4. IsTotal(u, f, m + 1)
    BY <2>2, <2>3 DEF IsTotal
  <2> QED BY <2>4
<1> HIDE DEF P
<1>3. n \in P
  BY <1>1, <1>2, SetInduction
<1> QED BY <1>3 DEF P

\* Total(f, n) is the last of these sums.
LEMMA TotalIs ==
  ASSUME NEW f, NEW n \in Nat
  PROVE  \E t : IsTotal(t, f, n) /\ Total(f, n) = t[n]
<1> DEFINE t[k \in 0..n] == IF k = 0 THEN 0 ELSE t[k - 1] + f[k]
<1>1. \E u : u = [k \in 0..n |-> IF k = 0 THEN 0 ELSE u[k - 1] + f[k]]
  BY TotalExists DEF IsTotal
<1>2. t = [k \in 0..n |-> IF k = 0 THEN 0 ELSE t[k - 1] + f[k]]
  BY <1>1
<1>3. Total(f, n) = t[n]
  BY DEF Total
<1> QED BY <1>2, <1>3 DEF IsTotal

\* They depend on the first lengths only.
LEMMA TotalSameFn ==
  ASSUME NEW f, NEW g, NEW t, NEW u, NEW m \in Nat, NEW n \in Nat, NEW j \in Nat,
         IsTotal(t, f, m), IsTotal(u, g, n), j <= m, j <= n, \A k \in 1..j : f[k] = g[k]
  PROVE  t[j] = u[j]
<1> DEFINE P == {i \in Nat : i <= j => t[i] = u[i]}
<1>1. 0 \in P
  <2>1. t[0] = 0 /\ u[0] = 0
    BY DEF IsTotal
  <2> QED BY <2>1
<1>2. ASSUME NEW i \in Nat, i \in P PROVE i + 1 \in P
  <2> SUFFICES ASSUME i + 1 <= j PROVE t[i + 1] = u[i + 1]
    OBVIOUS
  <2>1. /\ i + 1 \in 0..m /\ i + 1 \in 0..n /\ i + 1 # 0 /\ (i + 1) - 1 = i
        /\ i + 1 \in 1..j /\ i <= j
    OBVIOUS
  <2>2. t[i + 1] = t[i] + f[i + 1]
    BY <2>1 DEF IsTotal
  <2>3. u[i + 1] = u[i] + g[i + 1]
    BY <2>1 DEF IsTotal
  <2> QED BY <2>1, <2>2, <2>3, <1>2
<1> HIDE DEF P
<1>3. j \in P
  BY <1>1, <1>2, SetInduction
<1> QED BY <1>3 DEF P

\* Equal lengths have equal sums.
LEMMA TotalSame ==
  ASSUME NEW f, NEW g, NEW n \in Nat, \A k \in 1..n : f[k] = g[k]
  PROVE  Total(f, n) = Total(g, n)
<1>1. PICK t : IsTotal(t, f, n) /\ Total(f, n) = t[n]
  BY TotalIs
<1>2. PICK u : IsTotal(u, g, n) /\ Total(g, n) = u[n]
  BY TotalIs
<1>3. n <= n
  OBVIOUS
<1> QED BY <1>1, <1>2, <1>3, TotalSameFn

\* One length more adds that length.
LEMMA TotalStep ==
  ASSUME NEW f, NEW n \in Nat
  PROVE  Total(f, 0) = 0 /\ Total(f, n + 1) = Total(f, n) + f[n + 1]
<1>1. PICK t : IsTotal(t, f, n) /\ Total(f, n) = t[n]
  BY TotalIs
<1>2. PICK u : IsTotal(u, f, n + 1) /\ Total(f, n + 1) = u[n + 1]
  BY TotalIs
<1>3. u[n] = t[n]
  <2>1. n + 1 \in Nat /\ n <= n /\ n <= n + 1
    OBVIOUS
  <2> QED BY <2>1, <1>1, <1>2, TotalSameFn
<1>4. u[n + 1] = u[n] + f[n + 1]
  <2>1. n + 1 \in 0..(n + 1) /\ n + 1 # 0 /\ (n + 1) - 1 = n
    OBVIOUS
  <2> QED BY <2>1, <1>2 DEF IsTotal
<1>5. Total(f, 0) = 0
  <2>1. PICK v : IsTotal(v, f, 0) /\ Total(f, 0) = v[0]
    BY TotalIs
  <2> QED BY <2>1 DEF IsTotal
<1> QED BY <1>1, <1>2, <1>3, <1>4, <1>5

\* A sum of natural numbers is one.
LEMMA TotalNat ==
  ASSUME NEW f, NEW n \in Nat, \A k \in 1..n : f[k] \in Nat
  PROVE  \A k \in 0..n : Total(f, k) \in Nat
<1> DEFINE P == {i \in Nat : i <= n => Total(f, i) \in Nat}
<1>1. 0 \in P
  BY TotalStep
<1>2. ASSUME NEW i \in Nat, i \in P PROVE i + 1 \in P
  <2> SUFFICES ASSUME i + 1 <= n PROVE Total(f, i + 1) \in Nat
    OBVIOUS
  <2>1. f[i + 1] \in Nat /\ Total(f, i) \in Nat
    BY <1>2
  <2>2. Total(f, i + 1) = Total(f, i) + f[i + 1]
    BY TotalStep
  <2> QED BY <2>1, <2>2
<1> HIDE DEF P
<1>3. Nat \subseteq P
  BY <1>1, <1>2, SetInduction
<1> QED BY <1>3 DEF P

\* The first length may be added first.
LEMMA TotalShift ==
  ASSUME NEW f, NEW g, NEW n \in Nat, g[1] \in Nat,
         \A k \in 1..n : f[k] \in Nat /\ g[k + 1] = f[k]
  PROVE  \A k \in 0..n : Total(g, k + 1) = g[1] + Total(f, k)
<1> DEFINE P == {i \in Nat : i <= n => Total(g, i + 1) = g[1] + Total(f, i)}
<1>1. 0 \in P
  <2>1. Total(g, 0) = 0 /\ Total(g, 0 + 1) = Total(g, 0) + g[0 + 1] /\ Total(f, 0) = 0
    BY TotalStep
  <2> QED BY <2>1
<1>2. ASSUME NEW i \in Nat, i \in P PROVE i + 1 \in P
  <2> SUFFICES ASSUME i + 1 <= n PROVE Total(g, (i + 1) + 1) = g[1] + Total(f, i + 1)
    OBVIOUS
  <2>1. i + 1 \in 1..n /\ i \in 0..n
    OBVIOUS
  <2>2. Total(f, i) \in Nat /\ f[i + 1] \in Nat /\ g[(i + 1) + 1] = f[i + 1]
    BY <2>1, TotalNat
  <2>3. Total(g, i + 1) = g[1] + Total(f, i)
    BY <1>2
  <2>4. /\ Total(g, (i + 1) + 1) = Total(g, i + 1) + g[(i + 1) + 1]
        /\ Total(f, i + 1) = Total(f, i) + f[i + 1]
    BY TotalStep
  <2> QED BY <2>2, <2>3, <2>4
<1> HIDE DEF P
<1>3. Nat \subseteq P
  BY <1>1, <1>2, SetInduction
<1> QED BY <1>3 DEF P
-----------------------------------------------------------------------------
(* Runs of bytes.  The bytes of s are the ones after position a; those of    *)
(* the records q are, one record after the other.                            *)
\* What the peer sends, and what carries it.
Byte == 1..PeerBytes
Record == [type : {"data", "hello", "done", "close"}, bytes : Seq(Byte)]

\* Bytes in a row, the sizes of records, and records in a row.
Stretch(s, a) == \A i \in 1..Len(s) : s[i] = a + i
Sizes(q) == [j \in DOMAIN q |-> Len(q[j].bytes)]
Records(q, a) == \A j \in 1..Len(q) : Stretch(q[j].bytes, a + Total(Sizes(q), j - 1))

\* The peer's bytes are numbers.
LEMMA ByteNat == Byte \subseteq Nat /\ PeerBytes \in Nat
  BY SslAssumption DEF Byte, SslAssumption

\* What \o makes of two sequences.
LEMMA JoinSeq ==
  ASSUME NEW X, NEW b \in Seq(X), NEW t \in Seq(X)
  PROVE  /\ b \o t \in Seq(X) /\ Len(b \o t) = Len(b) + Len(t) /\ Len(b) \in Nat /\ Len(t) \in Nat
         /\ \A i \in 1..Len(b) : (b \o t)[i] = b[i]
         /\ \A i \in 1..Len(t) : (b \o t)[Len(b) + i] = t[i]
  OBVIOUS

\* A run goes on where the one before it ends.
LEMMA StretchJoin ==
  ASSUME NEW X, NEW s \in Seq(X), NEW t \in Seq(X), NEW a \in Nat,
         Stretch(s, a), Stretch(t, a + Len(s))
  PROVE  /\ s \o t \in Seq(X) /\ Stretch(s \o t, a)
         /\ Len(s) \in Nat /\ Len(t) \in Nat /\ Len(s \o t) = Len(s) + Len(t)
<1> DEFINE u == s \o t
<1>1. /\ u \in Seq(X) /\ Len(u) = Len(s) + Len(t) /\ Len(s) \in Nat /\ Len(t) \in Nat
      /\ \A i \in 1..Len(s) : u[i] = s[i]
      /\ \A i \in 1..Len(t) : u[Len(s) + i] = t[i]
  BY JoinSeq
<1> HIDE DEF u
<1>2. ASSUME NEW i \in 1..Len(u) PROVE u[i] = a + i
  <2>1. CASE i \in 1..Len(s)
    BY <2>1, <1>1 DEF Stretch
  <2>2. CASE i \notin 1..Len(s)
    <3>1. PICK k \in 1..Len(t) : i = Len(s) + k
      <4>1. i - Len(s) \in 1..Len(t) /\ i = Len(s) + (i - Len(s))
        BY <2>2, <1>1
      <4> QED BY <4>1
    <3>2. u[i] = t[k] /\ t[k] = (a + Len(s)) + k
      BY <3>1, <1>1 DEF Stretch
    <3> QED BY <3>1, <3>2, <1>1
  <2> QED BY <2>1, <2>2
<1> QED BY <1>1, <1>2 DEF u, Stretch

\* A run that is cut in two.
LEMMA StretchSplit ==
  ASSUME NEW X, NEW s \in Seq(X), NEW a \in Nat, Stretch(s, a), NEW n \in Nat, n <= Len(s)
  PROVE  /\ SubSeq(s, 1, n) \in Seq(X) /\ Len(SubSeq(s, 1, n)) = n /\ Stretch(SubSeq(s, 1, n), a)
         /\ SubSeq(s, n + 1, Len(s)) \in Seq(X) /\ Len(SubSeq(s, n + 1, Len(s))) = Len(s) - n
         /\ Stretch(SubSeq(s, n + 1, Len(s)), a + n)
<1> DEFINE t == SubSeq(s, 1, n)
           u == SubSeq(s, n + 1, Len(s))
<1>1. t \in Seq(X) /\ Len(t) = n /\ \A i \in 1..n : t[i] = s[i]
  OBVIOUS
<1>2. /\ u \in Seq(X) /\ Len(u) = Len(s) - n
      /\ \A i \in 1..(Len(s) - n) : u[i] = s[n + i]
  OBVIOUS
<1> HIDE DEF t, u
<1>3. Stretch(t, a)
  BY <1>1 DEF Stretch
<1>4. Stretch(u, a + n)
  <2>1. ASSUME NEW i \in 1..Len(u) PROVE u[i] = (a + n) + i
    <3>1. n + i \in 1..Len(s) /\ u[i] = s[n + i]
      BY <1>2
    <3>2. s[n + i] = a + (n + i)
      BY <3>1 DEF Stretch
    <3> QED BY <3>1, <3>2
  <2> QED BY <2>1 DEF Stretch
<1> QED BY <1>1, <1>2, <1>3, <1>4 DEF t, u

\* The sizes of records, and where each begins.
LEMMA SizesNat ==
  ASSUME NEW q \in Seq(Record)
  PROVE  /\ Len(q) \in Nat
         /\ \A j \in 1..Len(q) : Sizes(q)[j] = Len(q[j].bytes) /\ Sizes(q)[j] \in Nat
         /\ \A k \in 0..Len(q) : Total(Sizes(q), k) \in Nat
<1>1. Len(q) \in Nat /\ DOMAIN q = 1..Len(q)
  OBVIOUS
<1>2. ASSUME NEW j \in 1..Len(q)
      PROVE  Sizes(q)[j] = Len(q[j].bytes) /\ Sizes(q)[j] \in Nat
  <2>1. q[j] \in Record
    OBVIOUS
  <2>2. q[j].bytes \in Seq(Byte)
    BY <2>1 DEF Record
  <2>3. Len(q[j].bytes) \in Nat
    BY <2>2
  <2> QED BY <2>3, <1>1 DEF Sizes
<1> QED BY <1>1, <1>2, TotalNat

\* A record more, at the end of those on the way.
LEMMA RecordsAppend ==
  ASSUME NEW q \in Seq(Record), NEW r \in Record, NEW a \in Nat, Records(q, a),
         Stretch(r.bytes, a + Total(Sizes(q), Len(q)))
  PROVE  /\ Append(q, r) \in Seq(Record) /\ Records(Append(q, r), a)
         /\ Len(Append(q, r)) = Len(q) + 1 /\ Len(r.bytes) \in Nat
         /\ Total(Sizes(Append(q, r)), Len(q) + 1) = Total(Sizes(q), Len(q)) + Len(r.bytes)
<1> DEFINE p == Append(q, r)
<1>1. /\ p \in Seq(Record) /\ Len(p) = Len(q) + 1 /\ p[Len(q) + 1] = r /\ Len(q) \in Nat
      /\ \A j \in 1..Len(q) : p[j] = q[j]
  OBVIOUS
<1>2. Len(r.bytes) \in Nat
  <2>1. r.bytes \in Seq(Byte)
    BY DEF Record
  <2> QED BY <2>1
<1> HIDE DEF p
<1>3. \A j \in 1..Len(q) : Sizes(p)[j] = Sizes(q)[j]
  <2> TAKE j \in 1..Len(q)
  <2>1. j \in 1..Len(p)
    BY <1>1
  <2> QED BY <2>1, <1>1, SizesNat
<1>4. \A k \in 0..Len(q) : Total(Sizes(p), k) = Total(Sizes(q), k)
  <2> TAKE k \in 0..Len(q)
  <2>1. k \in Nat /\ \A i \in 1..k : Sizes(p)[i] = Sizes(q)[i]
    BY <1>1, <1>3
  <2> QED BY <2>1, TotalSame
<1>5. Total(Sizes(p), Len(q) + 1) = Total(Sizes(q), Len(q)) + Len(r.bytes)
  <2>1. Len(q) + 1 \in 1..Len(p) /\ Len(q) \in 0..Len(q)
    BY <1>1
  <2>2. Sizes(p)[Len(q) + 1] = Len(r.bytes)
    BY <2>1, <1>1, SizesNat
  <2> QED BY <2>1, <2>2, <1>1, <1>4, TotalStep
<1>6. Records(p, a)
  <2>1. ASSUME NEW j \in 1..Len(p) PROVE Stretch(p[j].bytes, a + Total(Sizes(p), j - 1))
    <3>1. j - 1 \in 0..Len(q) /\ Total(Sizes(p), j - 1) = Total(Sizes(q), j - 1)
      BY <1>1, <1>4
    <3>2. CASE j \in 1..Len(q)
      BY <3>1, <3>2, <1>1 DEF Records
    <3>3. CASE j = Len(q) + 1
      <4>1. j - 1 = Len(q) /\ p[j] = r
        BY <3>3, <1>1
      <4> QED BY <4>1, <3>1
    <3> QED BY <3>2, <3>3, <1>1
  <2> QED BY <2>1 DEF Records
<1> QED BY <1>1, <1>2, <1>5, <1>6 DEF p

\* The first record taken from those on the way.
LEMMA RecordsTail ==
  ASSUME NEW q \in Seq(Record), q # <<>>, NEW a \in Nat, Records(q, a)
  PROVE  /\ Head(q) \in Record /\ Stretch(Head(q).bytes, a) /\ Len(Head(q).bytes) \in Nat
         /\ Head(q) = q[1]
         /\ Tail(q) \in Seq(Record) /\ Len(Tail(q)) = Len(q) - 1 /\ Len(Tail(q)) \in Nat
         /\ \A j \in 1..Len(Tail(q)) : Tail(q)[j] = q[j + 1]
         /\ Records(Tail(q), a + Len(Head(q).bytes))
         /\ Total(Sizes(q), Len(q)) = Len(Head(q).bytes) + Total(Sizes(Tail(q)), Len(Tail(q)))
<1> DEFINE p == Tail(q)
           h == Head(q)
<1>1. /\ p \in Seq(Record) /\ Len(p) = Len(q) - 1 /\ Len(p) \in Nat /\ 1 \in 1..Len(q)
      /\ h = q[1] /\ h \in Record
      /\ \A j \in 1..Len(p) : p[j] = q[j + 1]
  OBVIOUS
<1>2. Len(h.bytes) \in Nat
  <2>1. h.bytes \in Seq(Byte)
    BY <1>1 DEF Record
  <2> QED BY <2>1
<1> HIDE DEF p, h
<1>3. Sizes(q)[1] = Len(h.bytes)
  BY <1>1, SizesNat
<1>4. \A j \in 1..Len(p) : Sizes(p)[j] \in Nat /\ Sizes(q)[j + 1] = Sizes(p)[j]
  <2> TAKE j \in 1..Len(p)
  <2>1. j + 1 \in 1..Len(q) /\ p[j] = q[j + 1]
    BY <1>1
  <2> QED BY <2>1, <1>1, SizesNat
<1>5. \A k \in 0..Len(p) : Total(Sizes(q), k + 1) = Len(h.bytes) + Total(Sizes(p), k)
  <2>1. Sizes(q)[1] \in Nat /\ Len(p) \in Nat
    BY <1>1, <1>2, <1>3
  <2>2. \A k \in 0..Len(p) : Total(Sizes(q), k + 1) = Sizes(q)[1] + Total(Sizes(p), k)
    BY <2>1, <1>4, TotalShift
  <2> QED BY <2>2, <1>3
<1>6. Total(Sizes(q), Len(q)) = Len(h.bytes) + Total(Sizes(p), Len(p))
  <2>1. Len(p) \in 0..Len(p) /\ Len(p) + 1 = Len(q)
    BY <1>1
  <2> QED BY <2>1, <1>5
<1>7. Stretch(h.bytes, a)
  <2>1. Stretch(q[1].bytes, a + Total(Sizes(q), 1 - 1))
    BY <1>1 DEF Records
  <2>2. a + Total(Sizes(q), 1 - 1) = a
    BY TotalStep
  <2> QED BY <2>1, <2>2, <1>1
<1>8. Records(p, a + Len(h.bytes))
  <2>1. ASSUME NEW j \in 1..Len(p)
        PROVE  Stretch(p[j].bytes, (a + Len(h.bytes)) + Total(Sizes(p), j - 1))
    <3>1. j + 1 \in 1..Len(q) /\ j - 1 \in 0..Len(p) /\ (j + 1) - 1 = (j - 1) + 1
      BY <1>1
    <3>2. Stretch(q[j + 1].bytes, a + Total(Sizes(q), (j + 1) - 1))
      BY <3>1 DEF Records
    <3>3. Total(Sizes(q), (j + 1) - 1) = Len(h.bytes) + Total(Sizes(p), j - 1)
      BY <3>1, <1>5
    <3>4. Total(Sizes(p), j - 1) \in Nat
      BY <3>1, <1>1, SizesNat
    <3>5. a + Total(Sizes(q), (j + 1) - 1) = (a + Len(h.bytes)) + Total(Sizes(p), j - 1)
      BY <3>3, <3>4, <1>2
    <3> QED BY <3>2, <3>5, <1>1
  <2> QED BY <2>1 DEF Records
<1> QED BY <1>1, <1>2, <1>6, <1>7, <1>8 DEF p, h

\* No bytes are a run from anywhere.
LEMMA EmptyStretch == \A a : Stretch(<<>>, a) /\ Len(<<>>) = 0
  BY DEF Stretch
-----------------------------------------------------------------------------
(* The invariant.                                                            *)
\* Where in the peer's bytes the current call began to receive.
Here == From(Len(ret) + 1)

\* What the current call has so far.
CallInv ==
  /\ pc = "idle" => buf = <<>> /\ written = 0
  /\ pc # "idle" => step \in 1..Len(script)
  /\ pc # "idle" /\ Call.op = "CRecv" => Len(buf) < Call.length
  /\ pc # "idle" /\ Call.op = "RecvCLRF" => ~IsLine(buf)
  /\ pc # "idle" /\ Call.op \notin {"CRecv", "RecvCLRF"} => buf = <<>>

\* The bytes of the peer that are read, decrypted and on the way are one run.
BytesInv ==
  /\ Stretch(buf, Here)
  /\ Stretch(decrypted, Here + Len(buf))
  /\ Records(in, Here + Len(buf) + Len(decrypted))
  /\ ~reset => Here + Len(buf) + Len(decrypted) + Total(Carried, Len(in)) = peer_sent

\* A handshake is one hello, its answer or the end of it; and nothing follows the
\* peer's close.
WireInv ==
  /\ reset => in = <<>> /\ out = <<>>
  /\ \A j \in 1..Len(in) : in[j].type # "data" => in[j] \in {Hello, Done, CloseNotify}
  /\ \A j \in 1..Len(in) : in[j] = CloseNotify =>
       j = Len(in) /\ peer_sent = PeerBytes /\ handshake = "none" /\ closed
  /\ \A i, j \in 1..Len(in) : in[i] \in {Hello, Done} =>
       in[j] # CloseNotify /\ (in[j] \in {Hello, Done} => i = j)
  /\ \A j \in 1..Len(in) : in[j] = Hello => handshake = "none"
  /\ \A j \in 1..Len(in) : in[j] = Done => handshake = "done" /\ \A i \in 1..Len(out) : out[i] # Reply
  /\ \A i \in 1..Len(out) : out[i] = Reply =>
       handshake = "done" /\ \A j \in 1..Len(out) : out[j] = Reply => i = j

\* What the finished calls received.
CallPast(k) ==
  /\ Stretch(ret[k], From(k))
  /\ script[k].op = "CRecv" => Len(ret[k]) = script[k].length
  /\ script[k].op = "RecvCLRF" => (From(k) + 2)..From(k + 1) \cap LineEnds = {From(k + 1)}
  /\ script[k].op = "Recv" /\ ret[k] = <<>> => closed /\ From(k) = PeerBytes
PastInv == \A k \in 1..Len(ret) : CallPast(k)

\* SentIntact, of one position at a time.
SentInv ==
  /\ \A i \in 1..Len(received) : received[i] = i
  /\ \A i, j \in 1..Len(out) : i < j /\ out[i] # Reply /\ out[j] # Reply => out[i] < out[j]
  /\ ~reset =>
       /\ Len(received) <= Sent + written
       /\ \A j \in 1..Len(out) : out[j] # Reply => out[j] \in (Len(received) + 1)..(Sent + written)
       /\ \A x \in (Len(received) + 1)..(Sent + written) : \E j \in 1..Len(out) : out[j] = x

IInv == /\ TypeOK /\ CallInv /\ BytesInv /\ WireInv /\ SentInv
        /\ PastInv /\ NoSpuriousThrow
-----------------------------------------------------------------------------
-----------------------------------------------------------------------------
\* The calls of a program, and which of them have returned.
LEMMA ScriptFacts ==
  ASSUME TypeOK
  PROVE  /\ Len(script) \in Nat /\ Len(ret) \in Nat /\ Len(ret) <= Len(script)
         /\ DOMAIN script = 1..Len(script) /\ DOMAIN ret = 1..Len(ret)
         /\ \A k \in 1..Len(script) : /\ script[k].op \in Receiving \cup Sending
                                      /\ script[k].length \in Nat \ {0}
         /\ \A k \in 1..Len(ret) : ret[k] \in Seq(Byte) /\ Len(ret[k]) \in Nat
<1> DEFINE C == [op : Receiving \cup Sending, length : Nat \ {0}]
<1>1. script \in Seq(C)
  BY SslAssumption DEF TypeOK, SslAssumption
<1>2. ASSUME NEW k \in 1..Len(script)
      PROVE  script[k].op \in Receiving \cup Sending /\ script[k].length \in Nat \ {0}
  <2>1. script[k] \in C
    <3> HIDE DEF C
    <3> QED BY <1>1
  <2> QED BY <2>1
<1>3. Len(script) \in Nat /\ DOMAIN script = 1..Len(script)
  BY <1>1
<1>4. ret \in Seq(Seq(Byte)) /\ step \in 0..Len(script)
      /\ (Len(ret) = step \/ Len(ret) = step - 1)
  BY DEF TypeOK, Byte
<1>5. Len(ret) \in Nat /\ DOMAIN ret = 1..Len(ret) /\ Len(ret) <= Len(script)
  BY <1>3, <1>4
<1>6. ASSUME NEW k \in 1..Len(ret) PROVE ret[k] \in Seq(Byte) /\ Len(ret[k]) \in Nat
  <2>1. ret[k] \in Seq(Byte)
    BY <1>4
  <2> QED BY <2>1
<1> QED BY <1>2, <1>3, <1>5, <1>6

\* While a call is made, the calls before it have returned and no other has.
LEMMA CallFacts ==
  ASSUME TypeOK, CallInv, pc # "idle"
  PROVE  /\ step \in 1..Len(script) /\ step = Len(ret) + 1
         /\ Call = script[step] /\ Call.op \in Receiving \cup Sending /\ Call.length \in Nat \ {0}
<1>1. step \in 1..Len(script) /\ Len(ret) = step - 1
  BY DEF CallInv, TypeOK
<1> QED BY <1>1, ScriptFacts DEF Call

\* Where the calls began.
Ending(k) == IF script[k].op = "RecvCLRF" THEN 2 ELSE 0

\* Each call begins where the one before it ended, with the line's end behind it.
LEMMA UsedFacts ==
  ASSUME TypeOK
  PROVE  /\ \A k \in 1..Len(ret) : Used[k] = Len(ret[k]) + Ending(k) /\ Used[k] \in Nat
         /\ From(1) = 0
         /\ \A k \in 1..(Len(ret) + 1) : From(k) \in Nat
         /\ \A k \in 1..Len(ret) : From(k + 1) = From(k) + Len(ret[k]) + Ending(k)
         /\ Here \in Nat
<1>1. ASSUME NEW k \in 1..Len(ret) PROVE Used[k] = Len(ret[k]) + Ending(k) /\ Used[k] \in Nat
  <2>1. Used[k] = Len(ret[k]) + Ending(k)
    BY ScriptFacts DEF Used, Ending
  <2>2. Len(ret[k]) \in Nat /\ Ending(k) \in Nat
    BY ScriptFacts DEF Ending
  <2> QED BY <2>1, <2>2
<1>2. Len(ret) \in Nat
  BY ScriptFacts
<1>3. \A k \in 0..Len(ret) : Total(Used, k) \in Nat
  BY <1>1, <1>2, TotalNat
<1>4. From(1) = 0
  BY TotalStep DEF From
<1>5. ASSUME NEW k \in 1..(Len(ret) + 1) PROVE From(k) \in Nat
  <2>1. k - 1 \in 0..Len(ret)
    BY <1>2
  <2> QED BY <2>1, <1>3 DEF From
<1>6. ASSUME NEW k \in 1..Len(ret) PROVE From(k + 1) = From(k) + Len(ret[k]) + Ending(k)
  <2>1. k - 1 \in Nat /\ (k - 1) + 1 = k /\ (k + 1) - 1 = k
    BY <1>2
  <2>2. Total(Used, (k - 1) + 1) = Total(Used, k - 1) + Used[(k - 1) + 1]
    BY <2>1, TotalStep
  <2>3. From(k + 1) = From(k) + Used[k]
    BY <2>1, <2>2 DEF From
  <2>4. From(k) \in Nat /\ Len(ret[k]) \in Nat /\ Ending(k) \in Nat
    BY <1>5, <1>2, ScriptFacts DEF Ending
  <2> QED BY <2>3, <2>4, <1>1
<1>7. Here \in Nat
  BY <1>2, <1>5 DEF Here
<1> QED BY <1>1, <1>4, <1>5, <1>6, <1>7

\* A call that returns x leaves where the calls before it began, and the next one
\* begins after x.
LEMMA ReturnFrom ==
  ASSUME TypeOK, TypeOK', UNCHANGED script, NEW x, ret' = Append(ret, x)
  PROVE  /\ Len(ret') = Len(ret) + 1 /\ ret'[Len(ret) + 1] = x
         /\ \A k \in 1..Len(ret) : ret'[k] = ret[k]
         /\ \A k \in 1..(Len(ret) + 1) : From(k)' = From(k)
         /\ Here' = Here + Len(x) + Ending(Len(ret) + 1)
<1>1. ret \in Seq(Seq(Byte)) /\ ret' \in Seq(Seq(Byte))
  BY DEF TypeOK, Byte
<1>2. /\ Len(ret') = Len(ret) + 1 /\ ret'[Len(ret) + 1] = x /\ Len(ret) \in Nat
      /\ \A k \in 1..Len(ret) : ret'[k] = ret[k]
  <2>1. Len(ret) \in Nat
    BY <1>1
  <2> QED BY <2>1, <1>1
<1>3. \A k \in 1..Len(ret) : Used'[k] = Used[k]
  <2> TAKE k \in 1..Len(ret)
  <2>1. k \in 1..Len(ret') /\ ret'[k] = ret[k]
    BY <1>2
  <2>2. k \in DOMAIN ret /\ k \in DOMAIN ret'
    BY <2>1, <1>1
  <2> QED BY <2>1, <2>2 DEF Used
<1>4. ASSUME NEW k \in 1..(Len(ret) + 1) PROVE From(k)' = From(k)
  <2>1. k - 1 \in Nat /\ \A i \in 1..(k - 1) : Used'[i] = Used[i]
    BY <1>2, <1>3
  <2>2. Total(Used', k - 1) = Total(Used, k - 1)
    BY <2>1, TotalSame
  <2> QED BY <2>2 DEF From
<1>5. Here' = Here + Len(x) + Ending(Len(ret) + 1)
  <2>1. Here' = Total(Used', Len(ret')) /\ Here = Total(Used, Len(ret))
    <3>1. (Len(ret) + 1) - 1 = Len(ret) /\ (Len(ret') + 1) - 1 = Len(ret')
      BY <1>2
    <3> QED BY <3>1 DEF Here, From
  <2>2. Total(Used', Len(ret) + 1) = Total(Used', Len(ret)) + Used'[Len(ret) + 1]
    BY <1>2, TotalStep
  <2>3. Total(Used', Len(ret)) = Total(Used, Len(ret))
    BY <1>2, <1>3, TotalSame
  <2>4. Used'[Len(ret) + 1] = Len(x) + Ending(Len(ret) + 1)
    <3>1. Len(ret) + 1 \in DOMAIN ret'
      BY <1>1, <1>2
    <3> QED BY <3>1, <1>2 DEF Used, Ending
  <2>5. x \in Seq(Byte)
    <3>1. Len(ret) + 1 \in 1..Len(ret')
      BY <1>2
    <3> QED BY <3>1, <1>1, <1>2
  <2>6. Len(x) \in Nat /\ Here \in Nat /\ Ending(Len(ret) + 1) \in Nat
    BY <2>5, UsedFacts DEF Ending
  <2> QED BY <2>1, <2>2, <2>3, <2>4, <2>6, <1>2
<1> QED BY <1>2, <1>4, <1>5

\* What the finished calls were given to send.
LEMMA SentFacts ==
  ASSUME TypeOK
  PROVE  /\ Sent \in Nat
         /\ \A k \in 1..Len(script) :
              Given[k] = (IF script[k].op \in Sending THEN script[k].length ELSE 0) /\ Given[k] \in Nat
<1>1. ASSUME NEW k \in 1..Len(script)
      PROVE  Given[k] = (IF script[k].op \in Sending THEN script[k].length ELSE 0) /\ Given[k] \in Nat
  BY ScriptFacts DEF Given
<1>2. Len(ret) \in Nat /\ \A k \in 1..Len(ret) : Given[k] \in Nat
  BY <1>1, ScriptFacts
<1>3. Len(ret) \in 0..Len(ret)
  BY <1>2
<1> QED BY <1>1, <1>2, <1>3, TotalNat DEF Sent

\* A sending call that returns adds its length to what is sent.
LEMMA ReturnSent ==
  ASSUME TypeOK, CallInv, pc # "idle", UNCHANGED script, NEW x, ret' = Append(ret, x)
  PROVE  Sent' = Sent + IF Call.op \in Sending THEN Call.length ELSE 0
<1>1. Given' = Given /\ Len(ret) \in Nat /\ Len(ret') = Len(ret) + 1
  <2>1. ret \in Seq(Seq(Byte))
    BY DEF TypeOK, Byte
  <2> QED BY <2>1 DEF Given
<1>2. Total(Given, Len(ret) + 1) = Total(Given, Len(ret)) + Given[Len(ret) + 1]
  BY <1>1, TotalStep
<1>3. Given[Len(ret) + 1] = IF Call.op \in Sending THEN Call.length ELSE 0
  BY CallFacts, SentFacts
<1> QED BY <1>1, <1>2, <1>3 DEF Sent

\* The types of the sequences, by the names used here.
LEMMA TypeFacts ==
  ASSUME TypeOK
  PROVE  /\ buf \in Seq(Byte) /\ decrypted \in Seq(Byte) /\ ret \in Seq(Seq(Byte))
         /\ in \in Seq(Record) /\ out \in Seq(Nat) /\ received \in Seq(Nat)
         /\ Len(buf) \in Nat /\ Len(decrypted) \in Nat /\ Len(in) \in Nat
         /\ Len(out) \in Nat /\ Len(received) \in Nat
<1>1. /\ buf \in Seq(Byte) /\ decrypted \in Seq(Byte) /\ ret \in Seq(Seq(Byte))
      /\ in \in Seq(Record) /\ out \in Seq(Nat) /\ received \in Seq(Nat)
  BY DEF TypeOK, Byte, Record
<1>2. \A s \in Seq(Byte) : Len(s) \in Nat
  OBVIOUS
<1>3. \A s \in Seq(Nat) : Len(s) \in Nat
  OBVIOUS
<1>4. \A s \in Seq(Record) : Len(s) \in Nat
  OBVIOUS
<1> QED BY <1>1, <1>2, <1>3, <1>4

\* Where a line ends, in a run of bytes.
LEMMA LineAtRun ==
  ASSUME NEW s \in Seq(Byte), NEW a \in Nat, Stretch(s, a), NEW j \in 1..Len(s)
  PROVE  LineAt(s, j) <=> j < Len(s) /\ a + (j + 1) \in LineEnds
<1>1. CASE j < Len(s)
  <2>1. j + 1 \in 1..Len(s)
    BY <1>1
  <2>2. s[j] = a + j /\ s[j + 1] = a + (j + 1)
    BY <2>1 DEF Stretch
  <2>3. s[j] + 1 = s[j + 1]
    BY <2>2
  <2> QED BY <1>1, <2>2, <2>3 DEF LineAt
<1>2. CASE ~(j < Len(s))
  BY <1>2 DEF LineAt
<1> QED BY <1>1, <1>2

\* RecvCLRF, which reads byte by byte, has a line when its last byte ends one, and
\* not before.
LEMMA LineRead ==
  ASSUME NEW b \in Seq(Byte), NEW s \in Seq(Byte), NEW a \in Nat, Stretch(b, a), Stretch(s, a),
         Len(s) = Len(b) + 1, ~IsLine(b), IsLine(s)
  PROVE  /\ Len(s) >= 2
         /\ (CHOOSE j \in DOMAIN s : LineAt(s, j)) = Len(s) - 1
         /\ (a + 2)..(a + Len(s)) \cap LineEnds = {a + Len(s)}
<1>1. Len(b) \in Nat /\ Len(s) \in Nat /\ DOMAIN s = 1..Len(s) /\ DOMAIN b = 1..Len(b)
  OBVIOUS
<1>2. \A j \in 1..Len(b) : j < Len(b) => a + (j + 1) \notin LineEnds
  <2> TAKE j \in 1..Len(b)
  <2>1. ~LineAt(b, j)
    BY <1>1 DEF IsLine
  <2> QED BY <2>1, LineAtRun
<1>3. \A j \in 1..Len(s) : LineAt(s, j) <=> j < Len(s) /\ a + (j + 1) \in LineEnds
  BY LineAtRun
<1>4. \A j \in 1..Len(s) : LineAt(s, j) => j = Len(s) - 1
  <2> TAKE j \in 1..Len(s)
  <2> SUFFICES ASSUME LineAt(s, j) PROVE j = Len(s) - 1
    OBVIOUS
  <2>1. j < Len(s) /\ a + (j + 1) \in LineEnds
    BY <1>3
  <2>2. ~(j < Len(b))
    <3> SUFFICES ASSUME j < Len(b) PROVE FALSE
      OBVIOUS
    <3>1. j \in 1..Len(b)
      BY <1>1
    <3> QED BY <3>1, <2>1, <1>2
  <2>3. \A x, y \in Nat : x = y + 1 /\ j < x /\ ~(j < y) => j = x - 1
    BY <1>1
  <2> QED BY <2>1, <2>2, <2>3, <1>1, Zenon
<1>5. PICK j \in 1..Len(s) : LineAt(s, j)
  BY <1>1 DEF IsLine
<1>6. j = Len(s) - 1
  BY <1>4, <1>5
<1>7. Len(s) >= 2 /\ a + Len(s) \in LineEnds
  <2>1. j < Len(s) /\ a + (j + 1) \in LineEnds
    BY <1>3, <1>5
  <2>2. j + 1 = Len(s)
    BY <1>6, <1>1
  <2> QED BY <2>1, <2>2
<1>8. (CHOOSE i \in DOMAIN s : LineAt(s, i)) = Len(s) - 1
  <2>1. (CHOOSE i \in DOMAIN s : LineAt(s, i)) \in DOMAIN s
        /\ LineAt(s, CHOOSE i \in DOMAIN s : LineAt(s, i))
    BY <1>5, <1>1
  <2> QED BY <2>1, <1>1, <1>4
<1>9. ASSUME NEW x \in (a + 2)..(a + Len(s)), x \in LineEnds, x # a + Len(s) PROVE FALSE
  <2>1. /\ (x - a) - 1 \in 1..Len(b) /\ (x - a) - 1 < Len(b)
        /\ a + (((x - a) - 1) + 1) = x
    BY <1>1, <1>9
  <2> QED BY <2>1, <1>2, <1>9
<1>10. a + Len(s) \in (a + 2)..(a + Len(s))
  BY <1>1, <1>7
<1> QED BY <1>7, <1>8, <1>9, <1>10

\* What SSL_read does for a call: it takes n bytes, which go on where those it has
\* end; and what it returns leaves the stream where the next call begins.
LEMMA ReadEffect ==
  ASSUME TypeOK, CallInv, BytesInv, SslRead
  PROVE  /\ pc = "ssl" /\ Call.op \in Receiving
         /\ \E s \in Seq(Byte) :
              /\ Stretch(s, Here) /\ Len(s) \in Nat /\ Len(s) > Len(buf)
              /\ decrypted' \in Seq(Byte) /\ Stretch(decrypted', Here + Len(s))
              /\ Len(decrypted') \in Nat /\ Len(s) + Len(decrypted') = Len(buf) + Len(decrypted)
              /\ Call.op = "CRecv" => Len(s) <= Call.length
              /\ Complete(s) =>
                   /\ pc' = "idle" /\ ret' = Append(ret, Result(s)) /\ buf' = <<>>
                   /\ Result(s) \in Seq(Byte) /\ Len(Result(s)) \in Nat /\ Stretch(Result(s), Here)
                   /\ Len(Result(s)) + Ending(Len(ret) + 1) = Len(s)
                   /\ Call.op # "RecvCLRF" => Result(s) = s
                   /\ Call.op = "RecvCLRF" =>
                        (Here + 2)..(Here + Len(s)) \cap LineEnds = {Here + Len(s)}
              /\ ~Complete(s) => pc' = pc /\ ret' = ret /\ buf' = s
<1>0. /\ buf \in Seq(Byte) /\ decrypted \in Seq(Byte) /\ Len(buf) \in Nat /\ Len(decrypted) \in Nat
      /\ Here \in Nat /\ Stretch(buf, Here) /\ Stretch(decrypted, Here + Len(buf))
  BY TypeFacts, UsedFacts DEF BytesInv
<1>1. pc = "ssl" /\ Call.op \in Receiving
  BY DEF SslRead, InRead
<1>2. /\ Len(ret) + 1 = step /\ Call = script[step] /\ Call.length \in Nat \ {0}
  BY <1>1, CallFacts
<1> DEFINE n == IF Asked < Len(decrypted) THEN Asked ELSE Len(decrypted)
           s == buf \o SubSeq(decrypted, 1, n)
<1>3. Asked \in Nat /\ Asked >= 1 /\ (Call.op = "CRecv" => Asked = Call.length - Len(buf))
      /\ (Call.op = "RecvCLRF" => Asked = 1)
  <2>1. CASE Call.op = "Recv"
    BY <2>1, <1>2 DEF Asked
  <2>2. CASE Call.op = "CRecv"
    BY <2>2, <1>0, <1>1, <1>2 DEF Asked, CallInv
  <2>3. CASE Call.op = "RecvCLRF"
    BY <2>3 DEF Asked
  <2> QED BY <2>1, <2>2, <2>3, <1>1 DEF Receiving
<1>4. decrypted # <<>> /\ Len(decrypted) >= 1
  <2>1. decrypted # <<>>
    BY DEF SslRead
  <2> QED BY <2>1, <1>0
<1>5. n \in Nat /\ n >= 1 /\ n <= Len(decrypted) /\ n <= Asked
  BY <1>0, <1>3, <1>4
<1>6. /\ decrypted' = SubSeq(decrypted, n + 1, Len(decrypted))
      /\ Complete(s) => pc' = "idle" /\ ret' = Append(ret, Result(s)) /\ buf' = <<>>
      /\ ~Complete(s) => buf' = s /\ pc' = pc /\ ret' = ret
  BY DEF SslRead
<1> HIDE DEF n
<1>7. /\ SubSeq(decrypted, 1, n) \in Seq(Byte) /\ Len(SubSeq(decrypted, 1, n)) = n
      /\ Stretch(SubSeq(decrypted, 1, n), Here + Len(buf))
      /\ decrypted' \in Seq(Byte) /\ Len(decrypted') = Len(decrypted) - n
      /\ Stretch(decrypted', (Here + Len(buf)) + n)
  BY <1>0, <1>5, <1>6, StretchSplit
<1>8. s \in Seq(Byte) /\ Stretch(s, Here) /\ Len(s) = Len(buf) + n
  BY <1>0, <1>7, StretchJoin
<1> HIDE DEF s
<1>9. /\ Len(s) \in Nat /\ Len(s) > Len(buf) /\ Len(decrypted') \in Nat
      /\ Len(s) + Len(decrypted') = Len(buf) + Len(decrypted)
      /\ Stretch(decrypted', Here + Len(s))
  <2>1. (Here + Len(buf)) + n = Here + Len(s)
    BY <1>0, <1>5, <1>8
  <2> QED BY <2>1, <1>0, <1>5, <1>7, <1>8
<1>10. Call.op = "CRecv" => Len(s) <= Call.length
  BY <1>0, <1>2, <1>3, <1>5, <1>8
<1>11. ASSUME Complete(s)
       PROVE  /\ Result(s) \in Seq(Byte) /\ Len(Result(s)) \in Nat /\ Stretch(Result(s), Here)
              /\ Len(Result(s)) + Ending(Len(ret) + 1) = Len(s)
              /\ Call.op # "RecvCLRF" => Result(s) = s
              /\ Call.op = "RecvCLRF" =>
                   (Here + 2)..(Here + Len(s)) \cap LineEnds = {Here + Len(s)}
  <2>1. CASE Call.op # "RecvCLRF"
    BY <2>1, <1>2, <1>8, <1>9 DEF Result, Ending
  <2>2. CASE Call.op = "RecvCLRF"
    <3>1. ~IsLine(buf) /\ IsLine(s) /\ n = 1
      BY <2>2, <1>1, <1>3, <1>5, <1>11 DEF CallInv, Complete
    <3>2. /\ Len(s) >= 2
          /\ (CHOOSE j \in DOMAIN s : LineAt(s, j)) = Len(s) - 1
          /\ (Here + 2)..(Here + Len(s)) \cap LineEnds = {Here + Len(s)}
      BY <3>1, <1>0, <1>8, LineRead
    <3>3. Result(s) = SubSeq(s, 1, (Len(s) - 1) - 1)
      BY <3>2, <2>2 DEF Result
    <3>4. (Len(s) - 1) - 1 = Len(s) - 2 /\ Len(s) - 2 \in Nat /\ Len(s) - 2 <= Len(s)
      BY <3>2, <1>9
    <3>5. Result(s) \in Seq(Byte) /\ Len(Result(s)) = Len(s) - 2 /\ Stretch(Result(s), Here)
      <4>1. ASSUME NEW m \in Nat, m <= Len(s)
            PROVE  /\ SubSeq(s, 1, m) \in Seq(Byte) /\ Len(SubSeq(s, 1, m)) = m
                   /\ Stretch(SubSeq(s, 1, m), Here)
        BY <4>1, <1>0, <1>8, StretchSplit
      <4>2. Result(s) = SubSeq(s, 1, Len(s) - 2)
        BY <3>3, <3>4
      <4> QED BY <4>1, <4>2, <3>4
    <3>6. Ending(Len(ret) + 1) = 2
      BY <2>2, <1>2 DEF Ending
    <3> QED BY <3>2, <3>4, <3>5, <3>6, <2>2, <1>9
  <2> QED BY <2>1, <2>2
<1> QED BY <1>1, <1>6, <1>7, <1>8, <1>9, <1>10, <1>11

\* A byte more of a record, a record more or less: appending keeps the types.
LEMMA AppendType ==
  ASSUME NEW X, NEW s \in Seq(X), NEW x \in X
  PROVE  Append(s, x) \in Seq(X) /\ Len(Append(s, x)) = Len(s) + 1 /\ Len(s) \in Nat
  OBVIOUS

\* Taking the first of a sequence.
LEMMA TailType ==
  ASSUME NEW X, NEW s \in Seq(X), s # <<>>
  PROVE  /\ Tail(s) \in Seq(X) /\ Len(Tail(s)) = Len(s) - 1 /\ Len(s) \in Nat /\ Len(s) >= 1
         /\ Head(s) \in X /\ Head(s) = s[1]
         /\ \A j \in 1..Len(Tail(s)) : Tail(s)[j] = s[j + 1]
  OBVIOUS

\* The records of a handshake and of the close carry no bytes and differ.
LEMMA RecordTypes ==
  /\ Hello \in Record /\ Done \in Record /\ CloseNotify \in Record
  /\ Hello # Done /\ Hello # CloseNotify /\ Done # CloseNotify
  /\ Hello.bytes = <<>> /\ Done.bytes = <<>> /\ CloseNotify.bytes = <<>>
  /\ \A b \in Seq(Byte) : Data(b) \in Record /\ Data(b).type = "data" /\ Data(b).bytes = b
  /\ \A r \in {Hello, Done, CloseNotify} : r.type # "data"
<1>1. <<>> \in Seq(Byte)
  OBVIOUS
<1> QED BY <1>1 DEF Hello, Done, CloseNotify, Data, Record
-----------------------------------------------------------------------------
(* The steps.                                                                *)
\* Every step keeps the types.
LEMMA StepType ==
  ASSUME TypeOK, CallInv, BytesInv, [Next]_vars
  PROVE  TypeOK'
<1>t. /\ script \in Scripts /\ step \in 0..Len(script)
      /\ pc \in {"idle", "ssl", "select", "timeout", "failed"} /\ want \in {"read", "write"}
      /\ Len(ret) = IF pc = "idle" THEN step ELSE step - 1
      /\ written \in Nat /\ (written > 0 => Call.op \in Sending /\ written < Call.length)
      /\ handshake \in {"none", "reply", "done"} /\ Len(out) <= Window
      /\ peer_sent \in 0..PeerBytes /\ hellos \in 0..MaxHellos /\ reset \in BOOLEAN
      /\ closed \in BOOLEAN
  BY DEF TypeOK
<1>f. /\ buf \in Seq(Byte) /\ decrypted \in Seq(Byte) /\ ret \in Seq(Seq(Byte))
      /\ in \in Seq(Record) /\ out \in Seq(Nat) /\ received \in Seq(Nat)
      /\ Len(buf) \in Nat /\ Len(decrypted) \in Nat /\ Len(in) \in Nat
      /\ Len(out) \in Nat /\ Len(received) \in Nat
      /\ Len(script) \in Nat /\ Len(ret) \in Nat
  BY TypeFacts, ScriptFacts
<1>w. Window \in Nat \ {0} /\ MaxHellos \in Nat /\ PeerBytes \in Nat /\ MaxRecord \in Nat \ {0}
  BY SslAssumption DEF SslAssumption
<1>e. <<>> \in Seq(Byte) /\ <<>> \in Seq(Seq(Byte)) /\ <<>> \in Seq(Nat) /\ <<>> \in Seq(Record)
      /\ Len(<<>>) = 0
  OBVIOUS
\* What has to be shown, with the names of the types.
<1>g. SUFFICES /\ script' \in Scripts /\ step' \in 0..Len(script')
               /\ pc' \in {"idle", "ssl", "select", "timeout", "failed"}
               /\ want' \in {"read", "write"}
               /\ buf' \in Seq(Byte) /\ ret' \in Seq(Seq(Byte))
               /\ Len(ret') = IF pc' = "idle" THEN step' ELSE step' - 1
               /\ decrypted' \in Seq(Byte)
               /\ written' \in Nat
               /\ written' > 0 => script'[step'].op \in Sending /\ written' < script'[step'].length
               /\ handshake' \in {"none", "reply", "done"}
               /\ in' \in Seq(Record) /\ out' \in Seq(Nat) /\ Len(out') <= Window
               /\ received' \in Seq(Nat) /\ peer_sent' \in 0..PeerBytes
               /\ hellos' \in 0..MaxHellos /\ closed' \in BOOLEAN /\ reset' \in BOOLEAN
  BY DEF TypeOK, Byte, Record, Call
<1>1. CASE CallNext
  <2>1. /\ pc = "idle" /\ step < Len(script) /\ step' = step + 1 /\ pc' = "ssl" /\ buf' = <<>>
        /\ UNCHANGED <<script, want, ret, library, in, out, peer, reset>> /\ written = 0
    BY <1>1 DEF CallNext, CallInv
  <2>2. step' \in 0..Len(script') /\ Len(ret') = step' - 1
    BY <2>1, <1>t, <1>f
  <2> QED BY <2>1, <2>2, <1>t, <1>f, <1>e DEF library, peer
<1>2. CASE TakeRecord
  <2>1. /\ in # <<>> /\ decrypted' = decrypted \o Head(in).bytes /\ in' = Tail(in)
        /\ handshake' \in {"none", "reply", "done"}
        /\ UNCHANGED <<program, written, out, peer, reset>>
    BY <1>2, <1>t DEF TakeRecord
  <2>2. Head(in) \in Record /\ in' \in Seq(Record)
    BY <2>1, <1>f, TailType
  <2>3. Head(in).bytes \in Seq(Byte)
    BY <2>2 DEF Record
  <2>4. decrypted' \in Seq(Byte)
    BY <2>1, <2>3, <1>f, JoinSeq
  <2> QED BY <2>1, <2>2, <2>4, <1>t, <1>f DEF program, peer, Call
<1>3. CASE GiveReply
  <2>1. /\ out' = Append(out, Reply) /\ handshake' = "done" /\ Len(out) < Window
        /\ UNCHANGED <<program, decrypted, written, in, peer, reset>>
    BY <1>3 DEF GiveReply, Room
  <2>2. out' \in Seq(Nat) /\ Len(out') <= Window
    <3>1. Reply \in Nat
      BY DEF Reply
    <3>2. out' \in Seq(Nat) /\ Len(out') = Len(out) + 1
      BY <2>1, <3>1, <1>f, AppendType
    <3> QED BY <3>2, <2>1, <1>f, <1>w
  <2> QED BY <2>1, <2>2, <1>t, <1>f DEF program, peer, Call
<1>4. CASE WantRead \/ WantWrite \/ Select \/ SelectThrows \/ SyscallThrows
  <2>1. /\ pc # "idle" /\ pc' \in {"ssl", "select", "timeout", "failed"} /\ want' \in {"read", "write"}
        /\ UNCHANGED <<script, step, buf, ret, library, in, out, peer, reset>>
    BY <1>4, <1>t DEF WantRead, WantWrite, Select, SelectThrows, SyscallThrows, NeedsRecord,
       NeedsRoom, InRead, InWrite
  <2> QED BY <2>1, <1>t, <1>f DEF library, peer, Call
<1>5. CASE SslRead
  <2>1. PICK s \in Seq(Byte) :
          /\ decrypted' \in Seq(Byte)
          /\ Complete(s) => /\ pc' = "idle" /\ ret' = Append(ret, Result(s)) /\ buf' = <<>>
                            /\ Result(s) \in Seq(Byte)
          /\ ~Complete(s) => pc' = pc /\ ret' = ret /\ buf' = s
    BY <1>5, ReadEffect
  <2>2. /\ pc = "ssl" /\ step = Len(ret) + 1
        /\ UNCHANGED <<script, step, want, written, handshake, in, out, peer, reset>>
    BY <1>5, CallFacts DEF SslRead, InRead
  <2>3. CASE Complete(s)
    <3>1. ret' \in Seq(Seq(Byte)) /\ Len(ret') = Len(ret) + 1
      <4>1. Result(s) \in Seq(Byte) /\ ret' = Append(ret, Result(s))
        BY <2>1, <2>3
      <4>2. /\ Append(ret, Result(s)) \in Seq(Seq(Byte))
            /\ Len(Append(ret, Result(s))) = Len(ret) + 1
        BY <4>1, <1>f, AppendType, Zenon
      <4> QED BY <4>1, <4>2
    <3> QED BY <2>1, <2>2, <2>3, <3>1, <1>t, <1>f, <1>e DEF peer, Call
  <2>4. CASE ~Complete(s)
    BY <2>1, <2>2, <2>4, <1>t, <1>f DEF peer, Call
  <2> QED BY <2>3, <2>4
<1>6. CASE ReadClosed
  <2>1. /\ pc = "ssl" /\ step = Len(ret) + 1
        /\ \/ pc' = "idle" /\ ret' = Append(ret, <<>>)
           \/ pc' = "failed" /\ ret' = ret
        /\ UNCHANGED <<script, step, want, buf, library, in, out, peer, reset>>
    BY <1>6, CallFacts DEF ReadClosed, InRead
  <2>2. Append(ret, <<>>) \in Seq(Seq(Byte)) /\ Len(Append(ret, <<>>)) = Len(ret) + 1
    BY <1>f, <1>e, AppendType
  <2> QED BY <2>1, <2>2, <1>t, <1>f DEF library, peer, Call
<1>7. CASE SslWrite
  <2> DEFINE room == Window - Len(out)
             left == Call.length - written
             n == IF room < left THEN room ELSE left
             data == [i \in 1..n |-> Sent + written + i]
  <2>1. /\ pc = "ssl" /\ Call.op \in Sending /\ Len(out) < Window /\ out' = out \o data
        /\ \/ n = left /\ written' = 0 /\ pc' = "idle" /\ ret' = Append(ret, <<>>)
           \/ n # left /\ written' = written + n /\ pc' = pc /\ ret' = ret
        /\ UNCHANGED <<script, step, want, buf, decrypted, handshake, in, peer, reset>>
    BY <1>7 DEF SslWrite, InWrite, Room
  <2>2. /\ Call.length \in Nat \ {0} /\ step = Len(ret) + 1 /\ Call = script[step]
        /\ Sent \in Nat
    BY <2>1, CallFacts, SentFacts
  <2>3. n \in Nat /\ n <= Window - Len(out) /\ (n # left => written + n < Call.length)
    <3>1. written < Call.length
      BY <2>2, <1>t
    <3>2. room \in Nat /\ left \in Nat /\ written + left = Call.length
      <4>1. Window \in Nat /\ Len(out) \in Nat /\ Len(out) < Window
        BY <2>1, <1>f, <1>w
      <4>2. Call.length \in Nat /\ written \in Nat
        BY <2>2, <1>t
      <4> QED BY <4>1, <4>2, <3>1
    <3>3. n \in Nat /\ n <= room /\ n <= left
      <4> HIDE DEF room, left
      <4> QED BY <3>2
    <3>4. n # left => n < left
      <4> HIDE DEF room, left, n
      <4> QED BY <3>2, <3>3
    <3>5. n # left => written + n < written + left
      <4> HIDE DEF room, left, n
      <4> QED BY <3>2, <3>3, <3>4, <1>t
    <3> QED BY <3>2, <3>3, <3>5
  <2>4. data \in Seq(Nat) /\ Len(data) = n
    <3> HIDE DEF n
    <3> QED BY <2>2, <2>3, <1>t
  <2> HIDE DEF n, data
  <2>5. out' \in Seq(Nat) /\ Len(out') = Len(out) + n
    BY <2>1, <2>4, <1>f, JoinSeq
  <2>6. Len(out') <= Window
    BY <2>3, <2>5, <1>f, <1>w
  <2>7. Append(ret, <<>>) \in Seq(Seq(Byte)) /\ Len(Append(ret, <<>>)) = Len(ret) + 1
    BY <1>f, <1>e, AppendType
  <2>8. CASE n = left
    <3>1. written' = 0 /\ pc' = "idle" /\ ret' = Append(ret, <<>>)
      <4>1. ~(n # left)
        BY <2>8
      <4> QED BY <4>1, <2>1
    <3>2. ret' \in Seq(Seq(Byte)) /\ Len(ret') = step'
      BY <3>1, <2>1, <2>2, <2>7
    <3> QED BY <3>1, <3>2, <2>1, <2>5, <2>6, <1>t, <1>f DEF peer
  <2>9. CASE n # left
    <3>1. /\ written' \in Nat /\ written' < Call.length /\ pc' = "ssl" /\ ret' = ret
          /\ Call' = Call
      BY <2>1, <2>3, <2>9, <1>t DEF Call
    <3> QED BY <3>1, <2>1, <2>5, <2>6, <1>t, <1>f DEF peer, Call
  <2> QED BY <2>8, <2>9
<1>8. CASE PeerSends
  <2>1. PICK n \in 1..MaxRecord : /\ peer_sent + n <= PeerBytes /\ peer_sent' = peer_sent + n
                                  /\ in' = Append(in, Data([i \in 1..n |-> peer_sent + i]))
    BY <1>8 DEF PeerSends
  <2>2. n \in Nat /\ n >= 1 /\ peer_sent \in Nat
    BY <1>t, <1>w
  <2>3. [i \in 1..n |-> peer_sent + i] \in Seq(Byte)
    BY <2>1, <2>2, <1>w DEF Byte
  <2>4. in' \in Seq(Record)
    BY <2>1, <2>3, <1>f, RecordTypes, AppendType
  <2>5. UNCHANGED <<program, library, out, received, hellos, closed, reset>>
    BY <1>8 DEF PeerSends
  <2> QED BY <2>1, <2>2, <2>4, <2>5, <1>t, <1>f, <1>w DEF program, library, Call
<1>9. CASE PeerAsks
  <2>1. /\ hellos < MaxHellos /\ hellos' = hellos + 1 /\ in' = Append(in, Hello)
        /\ UNCHANGED <<program, library, out, received, peer_sent, closed, reset>>
    BY <1>9 DEF PeerAsks
  <2>2. in' \in Seq(Record) /\ hellos' \in 0..MaxHellos
    BY <2>1, <1>t, <1>f, <1>w, RecordTypes, AppendType
  <2> QED BY <2>1, <2>2, <1>t, <1>f DEF program, library, Call
<1>10. CASE PeerReceives
  <2>1. /\ out # <<>> /\ out' = Tail(out)
        /\ \/ in' = Append(in, Done) /\ received' = received
           \/ in' = in /\ received' = Append(received, Head(out))
        /\ UNCHANGED <<program, library, peer_sent, hellos, closed, reset>>
    BY <1>10 DEF PeerReceives
  <2>2. out' \in Seq(Nat) /\ Len(out') = Len(out) - 1 /\ Head(out) \in Nat
    BY <2>1, <1>f, TailType
  <2>3. Append(in, Done) \in Seq(Record) /\ Append(received, Head(out)) \in Seq(Nat)
    BY <2>2, <1>f, RecordTypes, AppendType
  <2>4. Len(out') <= Window
    BY <2>2, <1>t, <1>f, <1>w
  <2> QED BY <2>1, <2>2, <2>3, <2>4, <1>t, <1>f DEF program, library, Call
<1>11. CASE PeerCloses
  <2>1. /\ in' = Append(in, CloseNotify) /\ closed' = TRUE
        /\ UNCHANGED <<program, library, out, received, peer_sent, hellos, reset>>
    BY <1>11 DEF PeerCloses
  <2>2. in' \in Seq(Record)
    BY <2>1, <1>f, RecordTypes, AppendType
  <2> QED BY <2>1, <2>2, <1>t, <1>f DEF program, library, peer, Call
<1>12. CASE Reset
  <2>1. /\ reset' = TRUE /\ in' = <<>> /\ out' = <<>> /\ UNCHANGED <<program, library, peer>>
    BY <1>12 DEF Reset
  <2> QED BY <2>1, <1>t, <1>f, <1>e, <1>w DEF program, library, peer, Call
<1>13. CASE UNCHANGED vars
  BY <1>13, <1>t, <1>f DEF vars, program, library, peer, Call
<1> QED BY <1>1, <1>2, <1>3, <1>4, <1>5, <1>6, <1>7, <1>8, <1>9, <1>10, <1>11, <1>12, <1>13
    DEF Next, Program, Finished

\* Every step keeps what is said of the current call.
LEMMA StepCall ==
  ASSUME TypeOK, CallInv, BytesInv, [Next]_vars
  PROVE  CallInv'
<1>e. <<>> = <<>> /\ Len(<<>>) = 0 /\ DOMAIN <<>> = {}
  OBVIOUS
<1>r. pc # "idle" /\ Call.op \in Receiving => written = 0
  BY DEF TypeOK, Receiving, Sending
<1>1. CASE CallNext
  <2>1. /\ pc = "idle" /\ step < Len(script) /\ step' = step + 1 /\ pc' = "ssl" /\ buf' = <<>>
        /\ script' = script /\ step \in 0..Len(script) /\ Len(script) \in Nat
    BY <1>1, ScriptFacts DEF CallNext, TypeOK
  <2>2. step' \in 1..Len(script)
    BY <2>1
  <2>3. Call' = script[step'] /\ Call'.length \in Nat \ {0}
    BY <2>1, <2>2, ScriptFacts DEF Call
  <2>4. ~IsLine(<<>>)
    BY <1>e DEF IsLine
  <2>5. ~IsLine(buf')
    BY <2>1, <2>4
  <2> QED BY <2>1, <2>2, <2>3, <2>5, <1>e DEF CallInv, IsLine, LineAt
<1>2. CASE WantRead \/ WantWrite \/ Select \/ SelectThrows \/ SyscallThrows
  <2>1. /\ pc # "idle" /\ pc' # "idle"
        /\ UNCHANGED <<script, step, buf, written>>
    BY <1>2 DEF WantRead, WantWrite, Select, SelectThrows, SyscallThrows, NeedsRecord,
       NeedsRoom, InRead, InWrite, library
  <2> QED BY <2>1 DEF CallInv, Call, IsLine, LineAt
<1>3. CASE SslRead
  <2>1. PICK s \in Seq(Byte) :
          /\ Len(s) \in Nat
          /\ Call.op = "CRecv" => Len(s) <= Call.length
          /\ Complete(s) => pc' = "idle" /\ buf' = <<>>
          /\ ~Complete(s) => pc' = pc /\ buf' = s
    BY <1>3, ReadEffect
  <2>2. pc = "ssl" /\ Call.op \in Receiving /\ UNCHANGED <<script, step, written>>
    BY <1>3 DEF SslRead, InRead
  <2>3. CASE Complete(s)
    BY <2>1, <2>2, <2>3, <1>r DEF CallInv
  <2>4. CASE ~Complete(s)
    <3>1. Call.op = "CRecv" => Len(s) < Call.length
      <4>1. Call.length \in Nat
        BY <2>2, CallFacts
      <4> QED BY <4>1, <2>1, <2>4 DEF Complete
    <3>2. Call.op = "RecvCLRF" => ~IsLine(s)
      BY <2>4 DEF Complete
    <3>3. Call.op \in {"CRecv", "RecvCLRF"}
      BY <2>2, <2>4 DEF Complete, Receiving
    <3> QED BY <2>1, <2>2, <2>4, <3>1, <3>2, <3>3 DEF CallInv, Call, IsLine, LineAt
  <2> QED BY <2>3, <2>4
<1>4. CASE ReadClosed
  <2>1. /\ pc = "ssl" /\ Call.op \in Receiving /\ UNCHANGED <<script, step, buf, written>>
        /\ IF Call.op = "Recv" THEN pc' = "idle" ELSE pc' = "failed"
    BY <1>4 DEF ReadClosed, InRead, library
  <2> QED BY <2>1, <1>r DEF CallInv, Call, IsLine, LineAt
<1>5. CASE SslWrite
  <2>1. /\ pc = "ssl" /\ Call.op \in Sending /\ UNCHANGED <<script, step, buf>>
        /\ (pc' = "idle" /\ written' = 0) \/ pc' = pc
    BY <1>5 DEF SslWrite, InWrite
  <2>2. buf = <<>>
    BY <2>1 DEF CallInv, Sending
  <2> QED BY <2>1, <2>2 DEF CallInv, Call, Sending
<1>6. CASE \/ TakeRecord \/ GiveReply \/ PeerSends \/ PeerAsks \/ PeerReceives \/ PeerCloses
           \/ Reset \/ UNCHANGED vars
  <2>1. UNCHANGED <<script, step, pc, buf, written>>
    BY <1>6 DEF TakeRecord, GiveReply, PeerSends, PeerAsks, PeerReceives, PeerCloses, Reset, vars,
       program, library
  <2> QED BY <2>1 DEF CallInv, Call, IsLine, LineAt
<1> QED BY <1>1, <1>2, <1>3, <1>4, <1>5, <1>6 DEF Next, Program, Finished

\* Every step keeps the bytes of the peer one run: what is read goes from the kernel
\* to OpenSSL, from there to the call, and with it out of the stream.
LEMMA StepBytes ==
  ASSUME TypeOK, TypeOK', CallInv, BytesInv, WireInv, [Next]_vars
  PROVE  BytesInv'
<1>f. /\ buf \in Seq(Byte) /\ decrypted \in Seq(Byte) /\ in \in Seq(Record)
      /\ Len(buf) \in Nat /\ Len(decrypted) \in Nat /\ Len(in) \in Nat /\ Here \in Nat
  BY TypeFacts, UsedFacts
<1>c. Carried = Sizes(in) /\ Carried' = Sizes(in')
  BY DEF Carried, Sizes
<1>b. /\ Stretch(buf, Here) /\ Stretch(decrypted, Here + Len(buf))
      /\ Records(in, Here + Len(buf) + Len(decrypted))
      /\ ~reset => Here + Len(buf) + Len(decrypted) + Total(Sizes(in), Len(in)) = peer_sent
  BY <1>c DEF BytesInv
<1>n. Total(Sizes(in), Len(in)) \in Nat
  <2>1. Len(in) \in 0..Len(in)
    BY <1>f
  <2> QED BY <2>1, <1>f, SizesNat
<1>h. UNCHANGED <<script, ret>> => Here' = Here
  BY DEF Here, From, Used
<1> DEFINE wire == Here + Len(buf) + Len(decrypted)
<1>w. wire \in Nat
  BY <1>f
\* An action that leaves all of this alone.
<1>u. ASSUME UNCHANGED <<script, ret, buf, decrypted, in, reset, peer_sent>> PROVE BytesInv'
  <2>1. Here' = Here /\ Sizes(in') = Sizes(in)
    BY <1>u, <1>h
  <2> QED BY <2>1, <1>u, <1>b, <1>c DEF BytesInv
<1>1. CASE CallNext
  <2>1. buf' = buf /\ UNCHANGED <<script, ret, decrypted, in, reset, peer_sent>>
    BY <1>1 DEF CallNext, CallInv, library, peer
  <2> QED BY <2>1, <1>u
<1>2. CASE TakeRecord
  <2>1. /\ in # <<>> /\ decrypted' = decrypted \o Head(in).bytes /\ in' = Tail(in)
        /\ UNCHANGED <<script, ret, buf, reset, peer_sent>>
    BY <1>2 DEF TakeRecord, program, peer
  <2> DEFINE h == Head(in)
  <2>2. /\ h \in Record /\ Stretch(h.bytes, wire) /\ Len(h.bytes) \in Nat
        /\ Records(in', wire + Len(h.bytes))
        /\ Total(Sizes(in), Len(in)) = Len(h.bytes) + Total(Sizes(in'), Len(in'))
        /\ in' \in Seq(Record) /\ Len(in') \in Nat
    <3> HIDE DEF wire
    <3> QED BY <2>1, <1>f, <1>b, <1>w, RecordsTail DEF wire
  <2>3. h.bytes \in Seq(Byte)
    BY <2>2 DEF Record
  <2> HIDE DEF h
  <2>4. /\ Stretch(decrypted', Here + Len(buf)) /\ Len(decrypted') = Len(decrypted) + Len(h.bytes)
    <3>1. Here + Len(buf) \in Nat /\ wire = (Here + Len(buf)) + Len(decrypted)
      BY <1>f
    <3>2. decrypted' = decrypted \o h.bytes
      BY <2>1 DEF h
    <3> HIDE DEF wire
    <3> QED BY <3>1, <3>2, <2>2, <2>3, <1>b, <1>f, StretchJoin
  <2>5. Total(Sizes(in'), Len(in')) \in Nat
    <3>1. Len(in') \in 0..Len(in')
      BY <2>2
    <3> QED BY <3>1, <2>2, SizesNat
  <2>6. Here + Len(buf) + Len(decrypted') = wire + Len(h.bytes)
    <3>1. Here \in Nat /\ Len(buf) \in Nat /\ Len(decrypted) \in Nat /\ Len(h.bytes) \in Nat
      BY <2>2, <1>f
    <3>2. Here + Len(buf) + (Len(decrypted) + Len(h.bytes))
            = (Here + Len(buf) + Len(decrypted)) + Len(h.bytes)
      <4>1. PICK k \in Nat : k = Len(h.bytes)
        BY <3>1
      <4>2. Here + Len(buf) + (Len(decrypted) + k) = (Here + Len(buf) + Len(decrypted)) + k
        BY <3>1
      <4> QED BY <4>1, <4>2, Zenon
    <3> QED BY <2>4, <3>2, Zenon
  <2>7. ~reset => Here + Len(buf) + Len(decrypted') + Total(Sizes(in'), Len(in')) = peer_sent
    <3> SUFFICES ASSUME ~reset
                 PROVE  Here + Len(buf) + Len(decrypted') + Total(Sizes(in'), Len(in')) = peer_sent
      OBVIOUS
    <3>1. wire + Total(Sizes(in), Len(in)) = peer_sent
      BY <1>b
    <3>2. wire + (Len(h.bytes) + Total(Sizes(in'), Len(in'))) = peer_sent
      BY <3>1, <2>2
    <3> HIDE DEF wire
    <3> QED BY <3>2, <2>2, <2>5, <2>6, <1>w
  <2>8. Records(in', Here + Len(buf) + Len(decrypted'))
    BY <2>2, <2>6
  <2> QED BY <2>1, <2>4, <2>7, <2>8, <1>b, <1>c, <1>h DEF BytesInv
<1>3. CASE SslRead
  <2>1. PICK s \in Seq(Byte) :
          /\ Stretch(s, Here) /\ Len(s) \in Nat
          /\ decrypted' \in Seq(Byte) /\ Stretch(decrypted', Here + Len(s))
          /\ Len(decrypted') \in Nat /\ Len(s) + Len(decrypted') = Len(buf) + Len(decrypted)
          /\ Complete(s) =>
               /\ ret' = Append(ret, Result(s)) /\ buf' = <<>>
               /\ Result(s) \in Seq(Byte) /\ Len(Result(s)) \in Nat
               /\ Len(Result(s)) + Ending(Len(ret) + 1) = Len(s)
          /\ ~Complete(s) => ret' = ret /\ buf' = s
    BY <1>3, ReadEffect
  <2>2. UNCHANGED <<script, in, reset, peer_sent>>
    BY <1>3 DEF SslRead, peer
  <2>3. Here + Len(s) + Len(decrypted') = wire
    <3>1. /\ Here \in Nat /\ Len(buf) \in Nat /\ Len(decrypted) \in Nat /\ Len(s) \in Nat
          /\ Len(decrypted') \in Nat /\ Len(s) + Len(decrypted') = Len(buf) + Len(decrypted)
      BY <2>1, <1>f
    <3> QED BY <3>1
  <2>4. CASE Complete(s)
    <3>1. Here' = Here + Len(s)
      <4>1. Here' = Here + Len(Result(s)) + Ending(Len(ret) + 1)
        BY <2>1, <2>2, <2>4, ReturnFrom
      <4>2. Ending(Len(ret) + 1) \in Nat
        BY DEF Ending
      <4> QED BY <4>1, <4>2, <2>1, <2>4, <1>f, SMTT(30)
    <3>2. /\ buf' = <<>> /\ Stretch(buf', Here') /\ Len(buf') = 0
      BY <2>1, <2>4, EmptyStretch
    <3>3. Here' + Len(buf') = Here + Len(s) /\ Here' + Len(buf') + Len(decrypted') = wire
      BY <3>1, <3>2, <2>1, <2>3, <1>f
    <3> HIDE DEF wire
    <3>4. Stretch(decrypted', Here' + Len(buf'))
      BY <3>3, <2>1
    <3> QED BY <3>2, <3>3, <3>4, <2>2, <1>b, <1>c DEF BytesInv, wire
  <2>5. CASE ~Complete(s)
    <3>1. Here' = Here /\ buf' = s
      BY <2>1, <2>2, <2>5, <1>h
    <3>2. Here' + Len(buf') + Len(decrypted') = wire
      BY <3>1, <2>3
    <3> HIDE DEF wire
    <3> QED BY <3>1, <3>2, <2>1, <2>2, <1>b, <1>c DEF BytesInv, wire
  <2> QED BY <2>4, <2>5
<1>4. ASSUME ret' = Append(ret, <<>>), UNCHANGED <<script, buf, decrypted, in, reset, peer_sent>>,
             pc = "ssl", Call.op # "RecvCLRF"
      PROVE  BytesInv'
  <2>1. Here' = Here + Len(<<>>) + Ending(Len(ret) + 1)
    BY <1>4, ReturnFrom
  <2>2. Ending(Len(ret) + 1) = 0 /\ Len(<<>>) = 0
    BY <1>4, CallFacts DEF Ending
  <2>3. Here' = Here /\ Sizes(in') = Sizes(in)
    BY <2>1, <2>2, <1>4, <1>f
  <2> QED BY <2>3, <1>4, <1>b, <1>c DEF BytesInv
<1>5. CASE ReadClosed
  <2>1. /\ pc = "ssl" /\ UNCHANGED <<script, buf, decrypted, in, reset, peer_sent>>
        /\ (Call.op = "Recv" /\ ret' = Append(ret, <<>>)) \/ ret' = ret
    BY <1>5 DEF ReadClosed, InRead, library, peer
  <2> QED BY <2>1, <1>u, <1>4
<1>6. CASE SslWrite
  <2>1. /\ pc = "ssl" /\ Call.op \in Sending
        /\ UNCHANGED <<script, buf, decrypted, in, reset, peer_sent>>
        /\ ret' = Append(ret, <<>>) \/ ret' = ret
    BY <1>6 DEF SslWrite, InWrite, peer
  <2> QED BY <2>1, <1>u, <1>4 DEF Sending
\* A record more.
<1>7. ASSUME NEW r \in Record, in' = Append(in, r), ~reset, peer_sent' = peer_sent + Len(r.bytes),
             Stretch(r.bytes, peer_sent), UNCHANGED <<script, ret, buf, decrypted, reset>>
      PROVE  BytesInv'
  <2>1. wire + Total(Sizes(in), Len(in)) = peer_sent
    BY <1>7, <1>b
  <2>2. /\ Records(in', wire) /\ Len(in') = Len(in) + 1 /\ Len(r.bytes) \in Nat
        /\ Total(Sizes(in'), Len(in) + 1) = Total(Sizes(in), Len(in)) + Len(r.bytes)
    <3> HIDE DEF wire
    <3> QED BY <2>1, <1>7, <1>f, <1>b, <1>w, RecordsAppend DEF wire
  <2>3. wire + Total(Sizes(in'), Len(in')) = peer_sent'
    <3> HIDE DEF wire
    <3> QED BY <2>1, <2>2, <1>7, <1>n, <1>w
  <2> QED BY <2>2, <2>3, <1>7, <1>b, <1>c, <1>h DEF BytesInv
<1>8. CASE PeerSends
  <2>1. PICK n \in 1..MaxRecord : /\ peer_sent + n <= PeerBytes /\ peer_sent' = peer_sent + n
                                  /\ in' = Append(in, Data([i \in 1..n |-> peer_sent + i]))
    BY <1>8 DEF PeerSends
  <2>2. ~reset /\ UNCHANGED <<script, ret, buf, decrypted, reset>> /\ peer_sent \in Nat
        /\ n \in Nat /\ n >= 1
    BY <1>8, SslAssumption DEF PeerSends, program, library, TypeOK, SslAssumption
  <2> DEFINE b == [i \in 1..n |-> peer_sent + i]
  <2>3. b \in Seq(Byte) /\ Len(b) = n /\ Stretch(b, peer_sent)
    <3>1. PeerBytes \in Nat
      BY SslAssumption DEF SslAssumption
    <3>2. b \in Seq(Byte) /\ Len(b) = n
      BY <3>1, <2>1, <2>2 DEF Byte
    <3> QED BY <3>2 DEF Stretch
  <2> HIDE DEF b
  <2>4. Data(b) \in Record /\ Data(b).bytes = b
    BY <2>3, RecordTypes
  <2>5. in' = Append(in, Data(b)) /\ peer_sent' = peer_sent + Len(Data(b).bytes)
    BY <2>1, <2>3, <2>4 DEF b
  <2>6. Stretch(Data(b).bytes, peer_sent)
    BY <2>3, <2>4
  <2> QED BY <2>2, <2>4, <2>5, <2>6, <1>7
\* A record without bytes.
<1>9. ASSUME NEW r \in {Hello, Done, CloseNotify}, in' = Append(in, r), ~reset,
             UNCHANGED <<script, ret, buf, decrypted, reset, peer_sent>>
      PROVE  BytesInv'
  <2>1. r \in Record /\ r.bytes = <<>> /\ Len(r.bytes) = 0 /\ Stretch(r.bytes, peer_sent)
    BY RecordTypes, EmptyStretch
  <2>2. peer_sent' = peer_sent + Len(r.bytes)
    BY <2>1, <1>9 DEF TypeOK
  <2> QED BY <2>1, <2>2, <1>7, <1>9
<1>10. CASE PeerAsks
  <2>1. in' = Append(in, Hello) /\ ~reset /\ UNCHANGED <<script, ret, buf, decrypted, reset, peer_sent>>
    BY <1>10 DEF PeerAsks, program, library
  <2> QED BY <2>1, <1>9
<1>11. CASE PeerCloses
  <2>1. in' = Append(in, CloseNotify) /\ ~reset /\ UNCHANGED <<script, ret, buf, decrypted, reset, peer_sent>>
    BY <1>11 DEF PeerCloses, program, library, peer
  <2> QED BY <2>1, <1>9
<1>12. CASE PeerReceives
  <2>1. /\ out # <<>> /\ (in' = in \/ in' = Append(in, Done))
        /\ UNCHANGED <<script, ret, buf, decrypted, reset, peer_sent>>
    BY <1>12 DEF PeerReceives, program, library
  <2>2. ~reset
    <3>1. reset => out = <<>>
      BY DEF WireInv
    <3> QED BY <3>1, <2>1, Zenon
  <2> QED BY <2>1, <2>2, <1>u, <1>9
<1>13. CASE Reset
  <2>1. reset' = TRUE /\ in' = <<>> /\ UNCHANGED <<script, ret, buf, decrypted>>
    BY <1>13 DEF Reset, program, library
  <2>2. Records(in', Here + Len(buf) + Len(decrypted))
    <3>1. 1..Len(<<>>) = {}
      OBVIOUS
    <3> QED BY <3>1, <2>1 DEF Records
  <2> QED BY <2>1, <2>2, <1>b, <1>h DEF BytesInv
<1>14. CASE \/ GiveReply \/ WantRead \/ WantWrite \/ Select \/ SelectThrows \/ SyscallThrows
            \/ UNCHANGED vars
  <2>1. UNCHANGED <<script, ret, buf, decrypted, in, reset, peer_sent>>
    BY <1>14 DEF GiveReply, WantRead, WantWrite, Select, SelectThrows, SyscallThrows, vars,
       program, library, peer
  <2> QED BY <2>1, <1>u
<1> QED BY <1>1, <1>2, <1>3, <1>5, <1>6, <1>8, <1>10, <1>11, <1>12, <1>13, <1>14
    DEF Next, Program, Finished

\* The members of a sequence are at its positions.
LEMMA Members ==
  ASSUME NEW s \in Seq(Record), NEW x
  PROVE  x \in ToSet(s) <=> \E j \in 1..Len(s) : s[j] = x
<1>1. DOMAIN s = 1..Len(s)
  OBVIOUS
<1> QED BY <1>1 DEF ToSet

\* What SSL_write does: it gives the kernel the next bytes of what it was given, and
\* the call returns with the last of them.
LEMMA WriteEffect ==
  ASSUME TypeOK, CallInv, SslWrite
  PROVE  \E n \in Nat :
           /\ Len(out') = Len(out) + n
           /\ \A i \in 1..Len(out) : out'[i] = out[i]
           /\ \A i \in 1..n : out'[Len(out) + i] = Sent + written + i
           /\ \/ written + n = Call.length /\ written' = 0 /\ ret' = Append(ret, <<>>)
              \/ written' = written + n /\ ret' = ret
<1> DEFINE room == Window - Len(out)
           left == Call.length - written
           n == IF room < left THEN room ELSE left
           data == [i \in 1..n |-> Sent + written + i]
<1>1. /\ out' = out \o data /\ pc = "ssl" /\ Len(out) < Window
      /\ \/ n = left /\ written' = 0 /\ ret' = Append(ret, <<>>)
         \/ written' = written + n /\ ret' = ret
  BY DEF SslWrite, InWrite, Room
<1>2. out \in Seq(Nat) /\ Len(out) \in Nat /\ Sent \in Nat /\ written \in Nat
  BY TypeFacts, SentFacts DEF TypeOK
<1>3. room \in Nat
  BY <1>1, <1>2, SslAssumption DEF SslAssumption
<1>4. left \in Nat /\ written + left = Call.length
  <2>1. Call.length \in Nat \ {0}
    BY <1>1, CallFacts
  <2>2. written > 0 => written < Call.length
    BY DEF TypeOK
  <2> QED BY <2>1, <2>2, <1>2
<1> HIDE DEF room, left
<1>5. n \in Nat
  BY <1>3, <1>4
<1> HIDE DEF n
<1>6. data \in Seq(Nat) /\ Len(data) = n /\ \A i \in 1..n : data[i] = Sent + written + i
  BY <1>2, <1>5
<1> HIDE DEF data
<1>7. /\ Len(out \o data) = Len(out) + Len(data)
      /\ \A i \in 1..Len(out) : (out \o data)[i] = out[i]
      /\ \A i \in 1..Len(data) : (out \o data)[Len(out) + i] = data[i]
  <2>1. out \in Seq(Nat) /\ data \in Seq(Nat)
    BY <1>2, <1>6
  <2> QED BY <2>1, JoinSeq
<1>8. /\ Len(out') = Len(out) + n
      /\ \A i \in 1..Len(out) : out'[i] = out[i]
      /\ \A i \in 1..n : out'[Len(out) + i] = Sent + written + i
  BY <1>1, <1>6, <1>7, Zenon
<1> QED BY <1>1, <1>4, <1>5, <1>8

\* Every step keeps the order of handshakes and of the peer's close.
LEMMA StepWire ==
  ASSUME TypeOK, CallInv, WireInv, [Next]_vars
  PROVE  WireInv'
<1>f. in \in Seq(Record) /\ out \in Seq(Nat) /\ Len(in) \in Nat /\ Len(out) \in Nat
  BY TypeFacts
<1>w1. reset => in = <<>> /\ out = <<>>
  BY DEF WireInv
<1>w2. \A j \in 1..Len(in) : in[j].type # "data" => in[j] \in {Hello, Done, CloseNotify}
  BY DEF WireInv
<1>w3. \A j \in 1..Len(in) : in[j] = CloseNotify =>
         j = Len(in) /\ peer_sent = PeerBytes /\ handshake = "none" /\ closed
  BY DEF WireInv
<1>w4. \A i, j \in 1..Len(in) : in[i] \in {Hello, Done} =>
         in[j] # CloseNotify /\ (in[j] \in {Hello, Done} => i = j)
  BY DEF WireInv
<1>w5. /\ \A j \in 1..Len(in) : in[j] = Hello => handshake = "none"
       /\ \A j \in 1..Len(in) : in[j] = Done =>
            handshake = "done" /\ \A i \in 1..Len(out) : out[i] # Reply
  BY DEF WireInv
<1>w6. \A i \in 1..Len(out) : out[i] = Reply =>
         handshake = "done" /\ \A j \in 1..Len(out) : out[j] = Reply => i = j
  BY DEF WireInv
<1>e. 1..Len(<<>>) = {}
  OBVIOUS
<1>d. Hello # Done /\ Hello # CloseNotify /\ Done # CloseNotify
      /\ \A r \in {Hello, Done, CloseNotify} : r.type # "data"
  BY RecordTypes
<1>1. CASE TakeRecord
  <2>1. /\ in # <<>> /\ Head(in) # CloseNotify /\ in' = Tail(in)
        /\ handshake' = CASE Head(in) = Hello -> "reply" [] Head(in) = Done -> "none" [] OTHER -> handshake
        /\ UNCHANGED <<out, reset, peer_sent, closed>>
    BY <1>1 DEF TakeRecord, peer
  <2>2. /\ 1 \in 1..Len(in) /\ Head(in) = in[1] /\ Len(in') = Len(in) - 1
        /\ \A j \in 1..Len(in') : j + 1 \in 1..Len(in) /\ in'[j] = in[j + 1] /\ j + 1 # 1
    <3>1. Len(in) >= 1 /\ Head(in) = in[1] /\ Len(in') = Len(in) - 1
          /\ \A j \in 1..Len(in') : in'[j] = in[j + 1]
      BY <2>1, <1>f, TailType
    <3> QED BY <3>1, <1>f
  <2>3. ~reset'
    BY <2>1, <1>w1, Zenon
  <2>4. CASE in[1] \in {Hello, Done}
    <3>1. \A j \in 1..Len(in') : in'[j] \notin {Hello, Done, CloseNotify}
      BY <2>2, <2>4, <1>w4
    <3>2. \A i \in 1..Len(out') : out'[i] # Reply
      BY <2>1, <2>2, <2>4, <1>w5, <1>w6
    <3>3. \A j \in 1..Len(in') : in'[j].type # "data" => in'[j] \in {Hello, Done, CloseNotify}
      BY <2>2, <1>w2
    <3> QED BY <3>1, <3>2, <3>3, <2>3, Zenon DEF WireInv
  <2>5. CASE in[1] \notin {Hello, Done}
    <3>1. handshake' = handshake
      BY <2>1, <2>2, <2>5
    <3>2. \A j \in 1..Len(in') : in'[j] = CloseNotify =>
            j = Len(in') /\ peer_sent' = PeerBytes /\ handshake' = "none" /\ closed'
      <4> TAKE j \in 1..Len(in')
      <4>1. in[j + 1] = CloseNotify => j + 1 = Len(in)
        BY <2>2, <1>w3
      <4>2. j + 1 = Len(in) => j = Len(in')
        BY <2>2, <1>f
      <4> QED BY <4>1, <4>2, <3>1, <2>1, <2>2, <1>w3
    <3>3. \A i, j \in 1..Len(in') : in'[i] \in {Hello, Done} =>
            in'[j] # CloseNotify /\ (in'[j] \in {Hello, Done} => i = j)
      <4> TAKE i, j \in 1..Len(in')
      <4>1. i + 1 = j + 1 => i = j
        OBVIOUS
      <4> QED BY <4>1, <2>2, <1>w4
    <3>4. /\ \A j \in 1..Len(in') : in'[j].type # "data" => in'[j] \in {Hello, Done, CloseNotify}
          /\ \A j \in 1..Len(in') : in'[j] = Hello => handshake' = "none"
          /\ \A j \in 1..Len(in') : in'[j] = Done =>
               handshake' = "done" /\ \A i \in 1..Len(out') : out'[i] # Reply
      BY <2>1, <2>2, <3>1, <1>w2, <1>w5
    <3>5. \A i \in 1..Len(out') : out'[i] = Reply =>
            handshake' = "done" /\ \A j \in 1..Len(out') : out'[j] = Reply => i = j
      BY <2>1, <3>1, <1>w6
    <3> QED BY <2>3, <3>2, <3>3, <3>4, <3>5, Zenon DEF WireInv
  <2> QED BY <2>4, <2>5
<1>2. CASE GiveReply
  <2>1. /\ handshake = "reply" /\ ~reset /\ out' = Append(out, Reply) /\ handshake' = "done"
        /\ UNCHANGED <<in, reset, peer_sent, closed>>
    BY <1>2 DEF GiveReply, peer
  <2>2. \A j \in 1..Len(in) : in[j] \notin {Hello, Done, CloseNotify}
    BY <2>1, <1>w3, <1>w5
  <2>3. \A i \in 1..Len(out) : out[i] # Reply
    BY <2>1, <1>w6
  <2>4. \A i \in 1..Len(out') : out'[i] = Reply => i = Len(out) + 1
    BY <2>1, <2>3, <1>f
  <2>5. \A i \in 1..Len(out') : out'[i] = Reply =>
          handshake' = "done" /\ \A j \in 1..Len(out') : out'[j] = Reply => i = j
    BY <2>1, <2>4
  <2> QED BY <2>1, <2>2, <2>5, <1>w2, Zenon DEF WireInv
<1>3. CASE SslWrite
  <2>1. ~reset /\ UNCHANGED <<in, handshake, reset, peer_sent, closed>>
    BY <1>3 DEF SslWrite, peer
  <2>2. PICK n \in Nat : /\ Len(out') = Len(out) + n
                         /\ \A i \in 1..Len(out) : out'[i] = out[i]
                         /\ \A i \in 1..n : out'[Len(out) + i] = Sent + written + i
    BY <1>3, WriteEffect
  <2>3. Sent \in Nat /\ written \in Nat
    BY SentFacts DEF TypeOK
  <2>4. \A i \in 1..Len(out') : out'[i] = Reply => i \in 1..Len(out) /\ out[i] = Reply
    <3> TAKE i \in 1..Len(out')
    <3>1. CASE i \in 1..Len(out)
      BY <3>1, <2>2
    <3>2. CASE i \notin 1..Len(out)
      <4>1. PICK k \in 1..n : i = Len(out) + k
        <5>1. i - Len(out) \in 1..n /\ i = Len(out) + (i - Len(out))
          BY <3>2, <2>2, <1>f
        <5> QED BY <5>1
      <4>2. out'[i] = Sent + written + k
        BY <4>1, <2>2
      <4> QED BY <4>2, <2>3 DEF Reply
    <3> QED BY <3>1, <3>2
  <2>5. \A i \in 1..Len(out') : out'[i] = Reply =>
          handshake' = "done" /\ \A j \in 1..Len(out') : out'[j] = Reply => i = j
    BY <2>1, <2>4, <1>w6
  <2>6. \A j \in 1..Len(in') : in'[j] = Done =>
          handshake' = "done" /\ \A i \in 1..Len(out') : out'[i] # Reply
    BY <2>1, <2>4, <1>w5
  <2> QED BY <2>1, <2>5, <2>6, <1>w2, <1>w3, <1>w4, <1>w5, Zenon DEF WireInv
\* A record more.
<1>a. ASSUME NEW r \in Record, in' = Append(in, r)
      PROVE  /\ Len(in') = Len(in) + 1 /\ Len(in') \in 1..Len(in')
             /\ \A j \in 1..Len(in') : (j \in 1..Len(in) /\ in'[j] = in[j]) \/ (j = Len(in') /\ in'[j] = r)
  BY <1>a, <1>f
<1>4. CASE PeerSends
  <2>1. PICK n \in 1..MaxRecord : in' = Append(in, Data([i \in 1..n |-> peer_sent + i]))
                                  /\ peer_sent + n <= PeerBytes
    BY <1>4 DEF PeerSends
  <2>2. peer_sent < PeerBytes /\ ~reset /\ UNCHANGED <<out, handshake, reset>>
    BY <1>4 DEF PeerSends, library
  <2> DEFINE b == [i \in 1..n |-> peer_sent + i]
  <2>3. b \in Seq(Byte)
    BY <2>1, SslAssumption DEF Byte, SslAssumption, TypeOK
  <2> HIDE DEF b
  <2>4. Data(b) \in Record /\ Data(b).type = "data" /\ in' = Append(in, Data(b))
    BY <2>1, <2>3, RecordTypes DEF b
  <2>5. Data(b) \notin {Hello, Done, CloseNotify}
    BY <2>4, <1>d
  <2>6. \A j \in 1..Len(in) : in[j] # CloseNotify
    BY <2>2, <1>w3, SslAssumption DEF TypeOK, SslAssumption
  <2>7. \A j \in 1..Len(in') :
          \/ j \in 1..Len(in) /\ in'[j] = in[j]
          \/ in'[j].type = "data" /\ in'[j] \notin {Hello, Done, CloseNotify}
    BY <2>4, <2>5, <1>a
  <2> HIDE DEF Data
  <2>8. /\ \A j \in 1..Len(in') : in'[j].type # "data" => in'[j] \in {Hello, Done, CloseNotify}
        /\ \A j \in 1..Len(in') : in'[j] # CloseNotify
        /\ \A i, j \in 1..Len(in') : in'[i] \in {Hello, Done} /\ in'[j] \in {Hello, Done} => i = j
        /\ \A j \in 1..Len(in') : in'[j] \in {Hello, Done} => j \in 1..Len(in) /\ in'[j] = in[j]
    BY <2>6, <2>7, <1>w2, <1>w4
  <2> QED BY <2>2, <2>8, <1>w5, <1>w6, Zenon DEF WireInv
\* A message of a handshake, when there is no other, or the close, when there is none.
<1>5. ASSUME NEW r \in {Hello, Done, CloseNotify}, in' = Append(in, r), ~reset', UNCHANGED <<handshake, peer_sent>>,
             \A j \in 1..Len(in) : in[j] \notin {Hello, Done, CloseNotify},
             r = Hello => handshake = "none",
             r = Done => handshake = "done" /\ \A i \in 1..Len(out') : out'[i] # Reply,
             r = CloseNotify => peer_sent = PeerBytes /\ handshake = "none" /\ closed',
             \A i \in 1..Len(out') : out'[i] = Reply =>
               handshake = "done" /\ \A j \in 1..Len(out') : out'[j] = Reply => i = j
      PROVE  WireInv'
  <2>1. r \in Record
    BY RecordTypes
  <2>2. \A j \in 1..Len(in') : \/ in'[j] \notin {Hello, Done, CloseNotify} /\ in'[j].type = "data"
                               \/ j = Len(in') /\ in'[j] = r
    BY <2>1, <1>5, <1>a, <1>w2
  <2>3. \A i, j \in 1..Len(in') :
          in'[i] \in {Hello, Done, CloseNotify} /\ in'[j] \in {Hello, Done, CloseNotify} =>
            i = j /\ i = Len(in') /\ in'[i] = r
    BY <2>2
  <2>4. \A j \in 1..Len(in') : in'[j] \in {Hello, Done, CloseNotify} => j = Len(in') /\ in'[j] = r
    BY <2>3
  <2>5. \A i, j \in 1..Len(in') : in'[i] \in {Hello, Done} =>
          in'[j] # CloseNotify /\ (in'[j] \in {Hello, Done} => i = j)
    <3> TAKE i, j \in 1..Len(in')
    <3>1. in'[j] = CloseNotify => in'[i] = in'[j] \/ in'[i] \notin {Hello, Done}
      BY <2>4
    <3> QED BY <3>1, <2>3, <1>d
  <2>6. \A j \in 1..Len(in') : in'[j].type # "data" => in'[j] \in {Hello, Done, CloseNotify}
    BY <2>2
  <2> QED BY <2>4, <2>5, <2>6, <1>5, Zenon DEF WireInv
<1>6. Asking \/ \A j \in 1..Len(in) : in[j] \notin {Hello, Done}
  BY <1>f, Members DEF Asking
<1>7. closed \/ \A j \in 1..Len(in) : in[j] # CloseNotify
  BY <1>w3
<1>8. CASE PeerAsks
  <2>1. /\ in' = Append(in, Hello) /\ ~Asking /\ ~closed /\ ~reset'
        /\ UNCHANGED <<handshake, peer_sent, out>>
    BY <1>8 DEF PeerAsks, library
  <2>2. handshake = "none"
    BY <2>1 DEF Asking
  <2> QED BY <2>1, <2>2, <1>5, <1>6, <1>7, <1>d, <1>w6
<1>9. CASE PeerCloses
  <2>1. /\ in' = Append(in, CloseNotify) /\ ~Asking /\ ~closed /\ closed' /\ ~reset' /\ peer_sent = PeerBytes
        /\ UNCHANGED <<handshake, peer_sent, out>>
    BY <1>9 DEF PeerCloses, library, peer
  <2>2. handshake = "none"
    BY <2>1 DEF Asking
  <2> QED BY <2>1, <2>2, <1>5, <1>6, <1>7, <1>d, <1>w6
<1>10. CASE PeerReceives
  <2>1. /\ out # <<>> /\ out' = Tail(out) /\ UNCHANGED <<handshake, reset, peer_sent, closed>>
        /\ IF Head(out) = Reply THEN in' = Append(in, Done) ELSE in' = in
    BY <1>10 DEF PeerReceives, library
  <2>2. ~reset'
    BY <2>1, <1>w1, Zenon
  <2>3. /\ 1 \in 1..Len(out) /\ Head(out) = out[1]
        /\ \A j \in 1..Len(out') : j + 1 \in 1..Len(out) /\ out'[j] = out[j + 1] /\ j + 1 # 1
    <3>1. Len(out) >= 1 /\ Head(out) = out[1] /\ Len(out') = Len(out) - 1
          /\ \A j \in 1..Len(out') : out'[j] = out[j + 1]
      BY <2>1, <1>f, TailType
    <3> QED BY <3>1, <1>f
  <2>4. \A i \in 1..Len(out') : out'[i] = Reply =>
          handshake = "done" /\ \A j \in 1..Len(out') : out'[j] = Reply => i = j
    <3> TAKE i \in 1..Len(out')
    <3>1. \A j \in 1..Len(out') : i + 1 = j + 1 => i = j
      OBVIOUS
    <3> QED BY <3>1, <2>3, <1>w6
  <2>5. CASE Head(out) = Reply
    <3>1. handshake = "done" /\ \A i \in 1..Len(out') : out'[i] # Reply
      BY <2>3, <2>5, <1>w6
    <3>2. \A j \in 1..Len(in) : in[j] \notin {Hello, Done, CloseNotify}
      BY <3>1, <2>3, <2>5, <1>w3, <1>w5
    <3> QED BY <3>1, <3>2, <2>1, <2>2, <2>4, <2>5, <1>5, <1>d
  <2>6. CASE Head(out) # Reply
    <3>1. in' = in
      BY <2>1, <2>6
    <3>2. \A j \in 1..Len(in') : in'[j] = Done =>
            handshake' = "done" /\ \A i \in 1..Len(out') : out'[i] # Reply
      BY <3>1, <2>1, <2>3, <1>w5
    <3> QED BY <3>1, <3>2, <2>1, <2>2, <2>4, <1>w2, <1>w3, <1>w4, <1>w5, Zenon DEF WireInv
  <2> QED BY <2>5, <2>6
<1>11. CASE Reset
  <2>1. in' = <<>> /\ out' = <<>>
    BY <1>11 DEF Reset
  <2> QED BY <2>1, <1>e DEF WireInv
<1>12. CASE \/ CallNext \/ WantRead \/ WantWrite \/ Select \/ SelectThrows \/ SyscallThrows
            \/ SslRead \/ ReadClosed \/ UNCHANGED vars
  <2>1. UNCHANGED <<in, out, handshake, reset, peer_sent, closed>>
    BY <1>12 DEF CallNext, WantRead, WantWrite, Select, SelectThrows, SyscallThrows, SslRead,
       ReadClosed, vars, library, peer
  <2> QED BY <2>1 DEF WireInv
<1> QED BY <1>1, <1>2, <1>3, <1>4, <1>8, <1>9, <1>10, <1>11, <1>12 DEF Next, Program, Finished

\* What the run checks of the bytes sent follows from it.
LEMMA SentIsIntact ==
  ASSUME TypeOK, SentInv
  PROVE  SentIntact
<1>1. /\ DOMAIN out = 1..Len(out) /\ Len(received) \in Nat /\ Sent \in Nat /\ written \in Nat
      /\ received \in Seq(Nat)
  BY TypeFacts, SentFacts DEF TypeOK
<1>2. received = [i \in 1..Len(received) |-> i]
  <2>1. received = [i \in 1..Len(received) |-> received[i]]
    BY <1>1
  <2> QED BY <2>1 DEF SentInv
<1>3. \A i, j \in 1..Len(out) : i < j /\ out[i] # Reply /\ out[j] # Reply => out[i] < out[j]
  BY DEF SentInv
<1>4. \A x \in (Len(received) + 1)..(Sent + written) : x # Reply
  BY <1>1 DEF Reply
<1>5. ASSUME ~reset
      PROVE  /\ Len(received) <= Sent + written
             /\ {out[j] : j \in {j \in DOMAIN out : out[j] # Reply}}
                  = (Len(received) + 1)..(Sent + written)
  <2>1. /\ Len(received) <= Sent + written
        /\ \A j \in 1..Len(out) : out[j] # Reply => out[j] \in (Len(received) + 1)..(Sent + written)
        /\ \A x \in (Len(received) + 1)..(Sent + written) : \E j \in 1..Len(out) : out[j] = x
    BY <1>5 DEF SentInv
  <2> QED BY <2>1, <1>1, <1>4, Zenon
<1> QED BY <1>1, <1>2, <1>3, <1>5 DEF SentIntact

\* Every step keeps what is sent in order and whole.
LEMMA StepSent ==
  ASSUME TypeOK, TypeOK', CallInv, WireInv, SentInv, [Next]_vars
  PROVE  SentInv'
<1>f. /\ out \in Seq(Nat) /\ Len(out) \in Nat /\ received \in Seq(Nat) /\ Len(received) \in Nat
      /\ Sent \in Nat /\ written \in Nat
  BY TypeFacts, SentFacts DEF TypeOK
<1>s1. \A i \in 1..Len(received) : received[i] = i
  BY DEF SentInv
<1>s2. \A i, j \in 1..Len(out) : i < j /\ out[i] # Reply /\ out[j] # Reply => out[i] < out[j]
  BY DEF SentInv
<1>s3. ~reset =>
         /\ Len(received) <= Sent + written
         /\ \A j \in 1..Len(out) : out[j] # Reply => out[j] \in (Len(received) + 1)..(Sent + written)
         /\ \A x \in (Len(received) + 1)..(Sent + written) : \E j \in 1..Len(out) : out[j] = x
  BY DEF SentInv
<1>g. UNCHANGED <<script, ret>> => Sent' = Sent
  BY DEF Sent, Given
<1>u. ASSUME UNCHANGED <<received, out, written, reset>>, Sent' = Sent PROVE SentInv'
  BY <1>u DEF SentInv
<1>1. CASE \/ CallNext \/ TakeRecord \/ WantRead \/ WantWrite \/ Select \/ SelectThrows
           \/ SyscallThrows \/ PeerSends \/ PeerAsks \/ PeerCloses \/ UNCHANGED vars
  <2>1. UNCHANGED <<script, ret, received, out, written, reset>>
    BY <1>1 DEF CallNext, TakeRecord, WantRead, WantWrite, Select, SelectThrows, SyscallThrows,
       PeerSends, PeerAsks, PeerCloses, vars, program, library, peer
  <2> QED BY <2>1, <1>g, <1>u
<1>2. CASE SslRead \/ ReadClosed
  <2>1. /\ UNCHANGED <<script, received, out, written, reset>> /\ pc = "ssl" /\ Call.op \in Receiving
        /\ ret' = ret \/ \E x : ret' = Append(ret, x)
    BY <1>2 DEF SslRead, ReadClosed, InRead, library, peer
  <2>2. CASE ret' = ret
    BY <2>1, <2>2, <1>g, <1>u
  <2>3. ASSUME NEW x, ret' = Append(ret, x) PROVE SentInv'
    <3>1. Call.op \notin Sending
      BY <2>1 DEF Receiving, Sending
    <3>2. Sent' = Sent + 0
      <4>1. Sent' = Sent + IF Call.op \in Sending THEN Call.length ELSE 0
        BY <2>1, <2>3, ReturnSent
      <4> QED BY <4>1, <3>1
    <3> QED BY <3>2, <2>1, <1>f, <1>u
  <2> QED BY <2>1, <2>2, <2>3
<1>3. CASE GiveReply
  <2>1. out' = Append(out, Reply) /\ UNCHANGED <<script, ret, received, written, reset>>
    BY <1>3 DEF GiveReply, program, peer
  <2>2. /\ Len(out') = Len(out) + 1 /\ out'[Len(out) + 1] = Reply
        /\ \A j \in 1..Len(out) : j \in 1..Len(out') /\ out'[j] = out[j]
        /\ \A j \in 1..Len(out') : out'[j] # Reply => j \in 1..Len(out)
    BY <2>1, <1>f
  <2>3. Sent' = Sent
    BY <2>1, <1>g
  <2>4. \A i, j \in 1..Len(out') : i < j /\ out'[i] # Reply /\ out'[j] # Reply => out'[i] < out'[j]
    BY <2>2, <1>s2, Zenon
  <2>5. \A j \in 1..Len(out') : out'[j] # Reply => \E i \in 1..Len(out) : out'[j] = out[i] /\ out[i] # Reply
    <3> SUFFICES ASSUME NEW j \in 1..Len(out'), out'[j] # Reply
                 PROVE  \E i \in 1..Len(out) : out'[j] = out[i] /\ out[i] # Reply
      OBVIOUS
    <3>1. j \in 1..Len(out)
      BY <2>2
    <3>2. out'[j] = out[j]
      BY <3>1, <2>2
    <3> QED BY <3>1, <3>2
  <2>6. \A i \in 1..Len(out) : \E j \in 1..Len(out') : out'[j] = out[i]
    BY <2>2, Zenon
  <2>7. ASSUME ~reset'
        PROVE  /\ Len(received') <= Sent' + written'
               /\ \A j \in 1..Len(out') : out'[j] # Reply => out'[j] \in (Len(received') + 1)..(Sent' + written')
               /\ \A x \in (Len(received') + 1)..(Sent' + written') : \E j \in 1..Len(out') : out'[j] = x
    <3>1. /\ Len(received) <= Sent + written
          /\ \A j \in 1..Len(out) : out[j] # Reply => out[j] \in (Len(received) + 1)..(Sent + written)
          /\ \A x \in (Len(received) + 1)..(Sent + written) : \E j \in 1..Len(out) : out[j] = x
      BY <2>1, <2>7, <1>s3
    <3>2. \A x \in (Len(received) + 1)..(Sent + written) : \E j \in 1..Len(out') : out'[j] = x
      BY <3>1, <2>6, Zenon
    <3>3. \A j \in 1..Len(out') : out'[j] # Reply => out'[j] \in (Len(received) + 1)..(Sent + written)
      BY <3>1, <2>5, Zenon
    <3> QED BY <3>1, <3>2, <3>3, <2>1, <2>3
  <2> QED BY <2>1, <2>4, <2>7, <1>s1 DEF SentInv
<1>4. CASE SslWrite
  <2>1. ~reset /\ ~reset' /\ UNCHANGED <<script, received>> /\ pc = "ssl" /\ Call.op \in Sending
    BY <1>4 DEF SslWrite, peer, InWrite
  <2>2. PICK n \in Nat :
          /\ Len(out') = Len(out) + n
          /\ \A i \in 1..Len(out) : out'[i] = out[i]
          /\ \A i \in 1..n : out'[Len(out) + i] = Sent + written + i
          /\ \/ written + n = Call.length /\ written' = 0 /\ ret' = Append(ret, <<>>)
             \/ written' = written + n /\ ret' = ret
    BY <1>4, WriteEffect
  <2> DEFINE t == Sent + written
  <2>3. Sent' + written' = t + n
    <3>1. CASE written + n = Call.length /\ written' = 0 /\ ret' = Append(ret, <<>>)
      <4>1. Sent' = Sent + Call.length
        BY <3>1, <2>1, ReturnSent
      <4> QED BY <4>1, <3>1, <2>2, <1>f
    <3>2. CASE written' = written + n /\ ret' = ret
      BY <3>2, <2>1, <2>2, <1>g, <1>f
    <3> QED BY <3>1, <3>2, <2>2
  <2>4. /\ t \in Nat /\ Len(received) <= t
        /\ \A j \in 1..Len(out) : out[j] # Reply => out[j] \in (Len(received) + 1)..t
        /\ \A x \in (Len(received) + 1)..t : \E j \in 1..Len(out) : out[j] = x
    BY <2>1, <1>s3, <1>f
  <2>5. \A i \in 1..n : out'[Len(out) + i] = t + i
    BY <2>2
  <2> HIDE DEF t
  <2>6. ASSUME NEW j \in 1..Len(out')
        PROVE  \/ j \in 1..Len(out) /\ out'[j] = out[j]
               \/ \E k \in 1..n : j = Len(out) + k /\ out'[j] = t + k
    <3>1. CASE j \in 1..Len(out)
      BY <3>1, <2>2
    <3>2. CASE j \notin 1..Len(out)
      <4>1. PICK k \in 1..n : j = Len(out) + k
        <5>1. j - Len(out) \in 1..n /\ j = Len(out) + (j - Len(out))
          BY <3>2, <2>2, <1>f
        <5> QED BY <5>1
      <4> QED BY <4>1, <2>5
    <3> QED BY <3>1, <3>2
  <2>7. ASSUME NEW i \in 1..Len(out'), NEW j \in 1..Len(out'), i < j, out'[i] # Reply, out'[j] # Reply
        PROVE  out'[i] < out'[j]
    <3>1. CASE j \in 1..Len(out) /\ out'[j] = out[j]
      <4>1. i \in 1..Len(out)
        BY <3>1, <2>7
      <4> QED BY <4>1, <3>1, <2>2, <2>7, <1>s2
    <3>2. ASSUME NEW k \in 1..n, j = Len(out) + k, out'[j] = t + k PROVE out'[i] < out'[j]
      <4>1. CASE i \in 1..Len(out) /\ out'[i] = out[i]
        <5>1. out[i] \in (Len(received) + 1)..t
          BY <4>1, <2>4, <2>7
        <5>2. PICK x \in Nat : x = out[i] /\ x <= t
          BY <5>1, <2>4, <1>f
        <5>3. x < t + k
          BY <5>2, <2>4
        <5> QED BY <5>2, <5>3, <4>1, <3>2
      <4>2. ASSUME NEW l \in 1..n, i = Len(out) + l, out'[i] = t + l PROVE out'[i] < out'[j]
        <5>1. l < k
          BY <4>2, <3>2, <2>7, <1>f
        <5>2. t + l < t + k
          BY <5>1, <2>4
        <5> QED BY <5>2, <4>2, <3>2
      <4> QED BY <4>1, <4>2, <2>6
    <3> QED BY <3>1, <3>2, <2>6
  <2>8. \A j \in 1..Len(out') : out'[j] # Reply => out'[j] \in (Len(received) + 1)..(t + n)
    <3> SUFFICES ASSUME NEW j \in 1..Len(out'), out'[j] # Reply
                 PROVE  out'[j] \in (Len(received) + 1)..(t + n)
      OBVIOUS
    <3>1. \A x \in (Len(received) + 1)..t : x \in (Len(received) + 1)..(t + n)
      BY <2>4, <1>f
    <3>2. \A k \in 1..n : t + k \in (Len(received) + 1)..(t + n)
      BY <2>4, <1>f
    <3> QED BY <3>1, <3>2, <2>4, <2>6, Zenon
  <2>9. ASSUME NEW x \in (Len(received) + 1)..(t + n) PROVE \E j \in 1..Len(out') : out'[j] = x
    <3>1. CASE x <= t
      <4>1. x \in (Len(received) + 1)..t
        BY <3>1, <2>4, <1>f
      <4>2. PICK j \in 1..Len(out) : out[j] = x
        BY <4>1, <2>4
      <4>3. j \in 1..Len(out') /\ out'[j] = x
        BY <4>2, <2>2, <1>f
      <4> QED BY <4>3
    <3>2. CASE ~(x <= t)
      <4>1. PICK k \in 1..n : x = t + k
        <5>1. x - t \in 1..n /\ x = t + (x - t)
          BY <3>2, <2>4, <1>f
        <5> QED BY <5>1
      <4>2. Len(out) + k \in 1..Len(out')
        BY <2>2, <1>f
      <4> QED BY <4>1, <4>2, <2>5
    <3> QED BY <3>1, <3>2
  <2>10. Len(received) <= t + n
    BY <2>4, <1>f
  <2> QED BY <2>1, <2>3, <2>7, <2>8, <2>9, <2>10, <1>s1 DEF SentInv
<1>5. CASE PeerReceives
  <2>1. /\ out # <<>> /\ out' = Tail(out) /\ UNCHANGED <<script, ret, written, reset>>
        /\ IF Head(out) = Reply THEN received' = received ELSE received' = Append(received, Head(out))
    BY <1>5 DEF PeerReceives, program, library
  <2>2. ~reset
    <3>1. reset => out = <<>>
      BY DEF WireInv
    <3> QED BY <3>1, <2>1
  <2> DEFINE t == Sent + written
  <2>3. /\ Sent' + written' = t /\ t \in Nat /\ Len(received) <= t
        /\ \A j \in 1..Len(out) : out[j] # Reply => out[j] \in (Len(received) + 1)..t
        /\ \A x \in (Len(received) + 1)..t : \E j \in 1..Len(out) : out[j] = x
    BY <2>1, <2>2, <1>g, <1>s3, <1>f
  <2> HIDE DEF t
  <2>4. /\ 1 \in 1..Len(out) /\ Head(out) = out[1] /\ Head(out) \in Nat
        /\ \A j \in 1..Len(out') : j + 1 \in 1..Len(out) /\ out'[j] = out[j + 1] /\ 1 < j + 1
        /\ \A j \in 1..Len(out) : j # 1 => j - 1 \in 1..Len(out') /\ out'[j - 1] = out[j] /\ 1 < j
    <3>1. Len(out) >= 1 /\ Head(out) = out[1] /\ Len(out') = Len(out) - 1 /\ Head(out) \in Nat
          /\ \A j \in 1..Len(out') : out'[j] = out[j + 1]
      BY <2>1, <1>f, TailType
    <3>2. \A j \in 1..Len(out) : j # 1 => j - 1 \in 1..Len(out') /\ out'[j - 1] = out[j] /\ 1 < j
      <4> SUFFICES ASSUME NEW j \in 1..Len(out), j # 1
                   PROVE  j - 1 \in 1..Len(out') /\ out'[j - 1] = out[j] /\ 1 < j
        OBVIOUS
      <4>1. j - 1 \in 1..Len(out') /\ (j - 1) + 1 = j /\ 1 < j
        BY <3>1, <1>f
      <4> QED BY <4>1, <3>1
    <3>3. \A j \in 1..Len(out') : j + 1 \in 1..Len(out) /\ 1 < j + 1
      <4> TAKE j \in 1..Len(out')
      <4>1. \A n \in Nat : j \in 1..(n - 1) => j + 1 \in 1..n /\ 1 < j + 1
        OBVIOUS
      <4>2. j \in 1..(Len(out) - 1)
        BY <3>1
      <4> QED BY <4>1, <4>2, <1>f, Zenon
    <3>4. 1 \in 1..Len(out)
      BY <3>1, <1>f
    <3> QED BY <3>1, <3>2, <3>3, <3>4, Zenon
  <2>5. ASSUME NEW i \in 1..Len(out'), NEW j \in 1..Len(out'), i < j, out'[i] # Reply, out'[j] # Reply
        PROVE  out'[i] < out'[j]
    <3>1. i + 1 < j + 1
      BY <2>5
    <3> QED BY <3>1, <2>4, <2>5, <1>s2
  <2>6. CASE Head(out) = Reply
    <3>1. received' = received
      BY <2>1, <2>6
    <3>2. \A j \in 1..Len(out') : out'[j] # Reply => out'[j] \in (Len(received) + 1)..t
      BY <2>3, <2>4
    <3>3. ASSUME NEW x \in (Len(received) + 1)..t PROVE \E j \in 1..Len(out') : out'[j] = x
      <4>1. PICK j \in 1..Len(out) : out[j] = x
        BY <2>3
      <4>2. x # Reply
        BY <1>f DEF Reply
      <4>3. j # 1
        BY <4>1, <4>2, <2>4, <2>6
      <4> QED BY <4>1, <4>3, <2>4
    <3> QED BY <2>1, <2>2, <2>3, <2>5, <3>1, <3>2, <3>3, <1>s1 DEF SentInv
  <2>7. CASE Head(out) # Reply
    <3>1. out[1] \in (Len(received) + 1)..t /\ Len(received) + 1 <= t
      BY <2>3, <2>4, <2>7, <1>f
    <3>2. PICK j \in 1..Len(out) : out[j] = Len(received) + 1
      <4>1. Len(received) + 1 \in (Len(received) + 1)..t
        BY <3>1, <2>3, <1>f
      <4> QED BY <4>1, <2>3
    <3>3. out[1] = Len(received) + 1
      <4>1. Len(received) + 1 # Reply
        BY <1>f DEF Reply
      <4>2. CASE j # 1
        <5>1. out[1] < out[j]
          BY <4>1, <4>2, <3>2, <2>4, <2>7, <1>s2
        <5>2. PICK x \in Nat : x = out[1] /\ x >= Len(received) + 1
          BY <3>1, <1>f
        <5>3. x < Len(received) + 1
          BY <5>1, <5>2, <3>2
        <5> QED BY <5>2, <5>3, <1>f
      <4> QED BY <4>2, <3>2
    <3>4. /\ Len(received') = Len(received) + 1
          /\ \A i \in 1..Len(received') : received'[i] = i
      <4>1. received' = Append(received, Len(received) + 1)
        BY <2>1, <2>4, <2>7, <3>3
      <4>2. /\ Len(received') = Len(received) + 1 /\ received'[Len(received) + 1] = Len(received) + 1
            /\ \A i \in 1..Len(received) : received'[i] = received[i]
        BY <4>1, <1>f
      <4>3. \A i \in 1..Len(received') : i \in 1..Len(received) \/ i = Len(received) + 1
        BY <4>2, <1>f
      <4> QED BY <4>2, <4>3, <1>s1
    <3>5. ASSUME NEW i \in 1..Len(out'), out'[i] # Reply PROVE out'[i] \in (Len(received) + 2)..t
      <4>1. out[i + 1] \in (Len(received) + 1)..t /\ out'[i] = out[i + 1]
        BY <3>5, <2>3, <2>4
      <4>2. out[1] < out[i + 1]
        BY <3>5, <2>4, <2>7, <1>s2
      <4>3. PICK x \in (Len(received) + 1)..t : x = out[i + 1]
        BY <4>1
      <4>4. Len(received) + 1 < x
        BY <4>2, <4>3, <3>3
      <4>5. x \in (Len(received) + 2)..t
        BY <4>4, <2>3, <1>f
      <4> QED BY <4>1, <4>3, <4>5
    <3>6. ASSUME NEW x \in (Len(received) + 2)..t PROVE \E i \in 1..Len(out') : out'[i] = x
      <4>1. x \in (Len(received) + 1)..t /\ x # Len(received) + 1
        BY <1>f, <2>3
      <4>2. PICK i \in 1..Len(out) : out[i] = x
        BY <4>1, <2>3
      <4>3. i # 1
        BY <4>1, <4>2, <3>3
      <4> QED BY <4>2, <4>3, <2>4
    <3>7. Len(received') + 1 = Len(received) + 2 /\ Len(received') <= t
      BY <3>1, <3>4, <1>f, <2>3
    <3> QED BY <2>1, <2>2, <2>3, <2>5, <3>4, <3>5, <3>6, <3>7 DEF SentInv
  <2> QED BY <2>6, <2>7
<1>6. CASE Reset
  <2>1. reset' = TRUE /\ out' = <<>> /\ received' = received
    BY <1>6 DEF Reset, peer
  <2>2. 1..Len(<<>>) = {}
    OBVIOUS
  <2> QED BY <2>1, <2>2, <1>s1 DEF SentInv
<1> QED BY <1>1, <1>2, <1>3, <1>4, <1>5, <1>6 DEF Next, Program, Finished

\* The peer closes its end after all of its bytes: when SSL_read meets the close, the
\* call has all that is left of them.
LEMMA CloseIsLast ==
  ASSUME TypeOK, CallInv, BytesInv, WireInv, ReadClosed
  PROVE  Here + Len(buf) = PeerBytes /\ closed
<1>f. /\ in \in Seq(Record) /\ Len(in) \in Nat /\ Here \in Nat /\ Len(buf) \in Nat
      /\ Carried = Sizes(in)
  BY TypeFacts, UsedFacts DEF Carried, Sizes
<1>1. decrypted = <<>> /\ in # <<>> /\ Head(in) = CloseNotify /\ pc = "ssl" /\ Call.op \in Receiving
  BY DEF ReadClosed, NeedsRecord, InRead, InWrite, Receiving, Sending
<1>2. 1 \in 1..Len(in) /\ in[1] = CloseNotify
  <2>1. Len(in) >= 1 /\ Head(in) = in[1]
    BY <1>1, <1>f, TailType
  <2> QED BY <2>1, <1>1, <1>f
<1>3. Len(in) = 1 /\ peer_sent = PeerBytes /\ ~reset
  <2>1. 1 = Len(in) /\ peer_sent = PeerBytes
    BY <1>2 DEF WireInv
  <2>2. ~reset
    BY <1>1, Zenon DEF WireInv
  <2> QED BY <2>1, <2>2
<1>4. Total(Sizes(in), 1) = 0
  <2>1. Total(Sizes(in), 0) = 0 /\ Total(Sizes(in), 0 + 1) = Total(Sizes(in), 0) + Sizes(in)[0 + 1]
    BY TotalStep
  <2>2. Sizes(in)[1] = Len(CloseNotify.bytes)
    BY <1>2, <1>f, SizesNat
  <2>3. Len(CloseNotify.bytes) = 0
    BY RecordTypes
  <2>4. 0 + 1 = 1 /\ 0 + 0 = 0
    OBVIOUS
  <2> QED BY <2>1, <2>2, <2>3, <2>4
<1>5. Here + Len(buf) + Len(decrypted) + 0 = PeerBytes
  BY <1>3, <1>4, <1>f DEF BytesInv
<1>6. Len(decrypted) = 0
  BY <1>1
<1>7. Here + Len(buf) = PeerBytes
  BY <1>5, <1>6, <1>f
<1>8. closed
  BY <1>2 DEF WireInv
<1> QED BY <1>7, <1>8

\* Every step keeps what is said of the finished calls; one that ends a call adds
\* what that call received.
LEMMA StepPast ==
  ASSUME TypeOK, TypeOK', CallInv, BytesInv, WireInv, PastInv, [Next]_vars
  PROVE  PastInv'
<1>f. Len(ret) \in Nat /\ Here \in Nat /\ Len(buf) \in Nat
  BY ScriptFacts, UsedFacts, TypeFacts
<1>c. closed => closed'
  BY DEF Next, Program, CallNext, TakeRecord, GiveReply, WantRead, WantWrite, Select, SelectThrows,
     SyscallThrows, SslRead, ReadClosed, SslWrite, PeerSends, PeerAsks, PeerReceives, PeerCloses,
     Reset, Finished, vars, peer
<1>u. ASSUME UNCHANGED <<script, ret>> PROVE PastInv'
  BY <1>u, <1>c DEF PastInv, CallPast, From, Used
<1>a. ASSUME NEW x, ret' = Append(ret, x), script' = script, pc # "idle",
             Stretch(x, Here), Call.op = "CRecv" => Len(x) = Call.length,
             Call.op = "RecvCLRF" => (Here + 2)..Here' \cap LineEnds = {Here'},
             Call.op = "Recv" /\ x = <<>> => closed /\ Here = PeerBytes
      PROVE  PastInv'
  <2>1. /\ Len(ret') = Len(ret) + 1 /\ ret'[Len(ret) + 1] = x
        /\ \A k \in 1..Len(ret) : ret'[k] = ret[k]
        /\ \A k \in 1..(Len(ret) + 1) : From(k)' = From(k)
    BY <1>a, ReturnFrom
  <2>2. ASSUME NEW k \in 1..Len(ret) PROVE CallPast(k)'
    <3>1. ret'[k] = ret[k] /\ From(k)' = From(k)
      BY <2>1, <1>f
    <3>2. From(k + 1)' = From(k + 1)
      <4>1. k + 1 \in 1..(Len(ret) + 1)
        BY <1>f
      <4> QED BY <4>1, <2>1
    <3>3. CallPast(k)
      BY DEF PastInv
    <3> QED BY <3>1, <3>2, <3>3, <1>a, <1>c, Zenon DEF CallPast, Stretch
  <2>3. ASSUME NEW k, k = Len(ret) + 1 PROVE CallPast(k)'
    <3>1. ret'[k] = x
      BY <2>1, <2>3
    <3>2. From(k)' = Here
      <4>1. k \in 1..(Len(ret) + 1)
        BY <2>3, <1>f
      <4>2. From(k)' = From(k)
        BY <4>1, <2>1
      <4> QED BY <4>2, <2>3 DEF Here
    <3>3. From(k + 1)' = Here'
      <4>1. k = Len(ret')
        BY <2>1, <2>3
      <4> QED BY <4>1 DEF Here, From
    <3>4. script'[k] = Call
      <4>1. step = k
        BY <1>a, <2>3, CallFacts
      <4> QED BY <4>1, <1>a DEF Call
    <3> QED BY <3>1, <3>2, <3>3, <3>4, <1>a, <1>c, Zenon DEF CallPast, Stretch
  <2>4. ASSUME NEW k \in 1..Len(ret') PROVE k \in 1..Len(ret) \/ k = Len(ret) + 1
    BY <2>1, <2>4, <1>f
  <2> QED BY <2>2, <2>3, <2>4 DEF PastInv
<1>1. CASE SslRead
  <2>1. PICK s \in Seq(Byte) :
          /\ Len(s) \in Nat /\ Len(s) > Len(buf)
          /\ Complete(s) =>
               /\ ret' = Append(ret, Result(s))
               /\ Len(Result(s)) \in Nat /\ Stretch(Result(s), Here)
               /\ Len(Result(s)) + Ending(Len(ret) + 1) = Len(s)
               /\ Call.op # "RecvCLRF" => Result(s) = s
               /\ Call.op = "RecvCLRF" =>
                    (Here + 2)..(Here + Len(s)) \cap LineEnds = {Here + Len(s)}
          /\ ~Complete(s) => ret' = ret
    BY <1>1, ReadEffect
  <2>2. script' = script /\ pc = "ssl"
    BY <1>1 DEF SslRead, InRead
  <2>3. CASE Complete(s)
    <3>1. Here' = Here + Len(s)
      <4>1. Here' = Here + Len(Result(s)) + Ending(Len(ret) + 1)
        BY <2>1, <2>2, <2>3, ReturnFrom
      <4>2. Ending(Len(ret) + 1) \in Nat
        BY DEF Ending
      <4> QED BY <4>1, <4>2, <2>1, <2>3, <1>f, SMTT(30)
    <3>2. Call.op = "CRecv" => Len(Result(s)) = Call.length
      BY <2>1, <2>3 DEF Complete
    <3>3. Call.op = "Recv" => Result(s) # <<>>
      <4>1. Len(s) # 0
        BY <2>1, <1>f
      <4>2. s # <<>>
        BY <4>1
      <4> QED BY <4>2, <2>1, <2>3
    <3>4. Call.op = "RecvCLRF" => (Here + 2)..Here' \cap LineEnds = {Here'}
      BY <2>1, <2>3, <3>1
    <3> QED BY <2>1, <2>2, <2>3, <3>2, <3>3, <3>4, <1>a
  <2>4. CASE ~Complete(s)
    BY <2>1, <2>2, <2>4, <1>u
  <2> QED BY <2>3, <2>4
<1>2. CASE ReadClosed
  <2>1. /\ pc = "ssl" /\ script' = script
        /\ (Call.op = "Recv" /\ ret' = Append(ret, <<>>)) \/ ret' = ret
    BY <1>2 DEF ReadClosed, InRead
  <2>2. CASE Call.op = "Recv" /\ ret' = Append(ret, <<>>)
    <3>1. Here + Len(buf) = PeerBytes /\ closed
      BY <1>2, CloseIsLast
    <3>2. buf = <<>>
      BY <2>1, <2>2 DEF CallInv
    <3>3. Len(buf) = 0
      BY <3>2
    <3>4. Here = PeerBytes
      BY <3>1, <3>3, <1>f
    <3> QED BY <2>1, <2>2, <3>1, <3>4, <1>a, EmptyStretch
  <2> QED BY <2>1, <2>2, <1>u
<1>3. CASE SslWrite
  <2>1. /\ pc = "ssl" /\ script' = script /\ Call.op \in Sending
        /\ ret' = Append(ret, <<>>) \/ ret' = ret
    BY <1>3 DEF SslWrite, InWrite
  <2>2. Call.op \notin {"CRecv", "RecvCLRF", "Recv"}
    BY <2>1 DEF Sending
  <2> QED BY <2>1, <2>2, <1>a, <1>u, EmptyStretch
<1>4. CASE \/ CallNext \/ TakeRecord \/ GiveReply \/ WantRead \/ WantWrite \/ Select
           \/ SelectThrows \/ SyscallThrows \/ PeerSends \/ PeerAsks \/ PeerReceives
           \/ PeerCloses \/ Reset \/ UNCHANGED vars
  <2>1. UNCHANGED <<script, ret>>
    BY <1>4 DEF CallNext, TakeRecord, GiveReply, WantRead, WantWrite, Select, SelectThrows,
       SyscallThrows, PeerSends, PeerAsks, PeerReceives, PeerCloses, Reset, vars, program
  <2> QED BY <2>1, <1>u
<1> QED BY <1>1, <1>2, <1>3, <1>4 DEF Next, Program, Finished

\* Every step keeps the reason for which a call threw.
LEMMA StepThrow ==
  ASSUME TypeOK, TypeOK', CallInv, BytesInv, WireInv, NoSpuriousThrow, [Next]_vars
  PROVE  NoSpuriousThrow'
<1> SUFFICES ASSUME pc' = "failed"
             PROVE  \/ reset'
                    \/ /\ closed' /\ Call'.op \in {"CRecv", "RecvCLRF"}
                       /\ From(step)' + Len(buf') = PeerBytes
  BY Zenon DEF NoSpuriousThrow
<1>1. CASE SyscallThrows
  <2>1. reset /\ reset' = reset
    BY <1>1 DEF SyscallThrows
  <2> QED BY <2>1, Zenon
<1>2. CASE ReadClosed
  <2>1. /\ pc = "ssl" /\ Call.op \in Receiving /\ Call.op # "Recv"
        /\ UNCHANGED <<script, step, ret, buf, closed>>
    BY <1>2 DEF ReadClosed, InRead, peer
  <2>2. Here + Len(buf) = PeerBytes /\ closed
    BY <1>2, CloseIsLast
  <2>3. step = Len(ret) + 1
    BY <2>1, CallFacts
  <2>4. From(step)' = Here
    BY <2>1, <2>3 DEF From, Here, Used
  <2>5. closed' /\ Call' = Call /\ buf' = buf
    BY <2>1, <2>2 DEF Call
  <2>6. Call.op \in {"CRecv", "RecvCLRF"}
    BY <2>1 DEF Receiving
  <2> QED BY <2>2, <2>4, <2>5, <2>6, Zenon
\* After the throw the peer may go on for a while.
<1>3. ASSUME UNCHANGED program, reset' \/ (reset' = reset /\ (closed => closed'))
      PROVE  \/ reset'
             \/ /\ closed' /\ Call'.op \in {"CRecv", "RecvCLRF"}
                /\ From(step)' + Len(buf') = PeerBytes
  <2>1. UNCHANGED <<script, step, pc, ret, buf>>
    BY <1>3 DEF program
  <2>2. /\ Call' = Call /\ From(step)' = From(step) /\ buf' = buf
    BY <2>1 DEF Call, From, Used
  <2>3. reset \/ (closed /\ Call.op \in {"CRecv", "RecvCLRF"} /\ From(step) + Len(buf) = PeerBytes)
    BY <2>1, Zenon DEF NoSpuriousThrow
  <2>5. CASE reset \/ reset'
    BY <2>5, <1>3, Zenon
  <2>6. CASE ~reset /\ ~reset'
    <3>1. closed'
      BY <2>3, <2>6, <1>3, Zenon
    <3>2. Call'.op \in {"CRecv", "RecvCLRF"} /\ From(step)' + Len(buf') = PeerBytes
      BY <2>2, <2>3, <2>6
    <3> QED BY <3>1, <3>2, Zenon
  <2> QED BY <2>5, <2>6
<1>4. CASE PeerSends \/ PeerAsks \/ PeerReceives \/ PeerCloses
  <2>1. UNCHANGED program /\ reset' = reset /\ (closed => closed')
    BY <1>4 DEF PeerSends, PeerAsks, PeerReceives, PeerCloses
  <2> QED BY <2>1, <1>3
<1>6. CASE Reset
  BY <1>6, <1>3 DEF Reset
<1>7. CASE UNCHANGED vars
  BY <1>7, <1>3 DEF vars, peer
<1>8. CASE \/ CallNext \/ TakeRecord \/ GiveReply \/ WantRead \/ WantWrite \/ Select
           \/ SelectThrows \/ SslRead \/ SslWrite
  <2>1. pc' # "failed"
    BY <1>8, ReadEffect DEF CallNext, TakeRecord, GiveReply, WantRead, WantWrite, Select, SelectThrows,
       SslRead, SslWrite, NeedsRecord, NeedsRoom, InRead, InWrite, program
  <2> QED BY <2>1
<1> QED BY <1>1, <1>2, <1>4, <1>6, <1>7, <1>8 DEF Next, Program, Finished
-----------------------------------------------------------------------------
(* The theorems.                                                             *)
\* The connection at its start.
LEMMA InitInv == Init => IInv
<1> SUFFICES ASSUME Init PROVE IInv
  OBVIOUS
<1>i. /\ script \in Scripts /\ step = 0 /\ pc = "idle" /\ want = "read" /\ buf = <<>> /\ ret = <<>>
      /\ decrypted = <<>> /\ written = 0 /\ handshake = "none" /\ in = <<>> /\ out = <<>>
      /\ received = <<>> /\ peer_sent = 0 /\ hellos = 0 /\ closed = FALSE /\ reset = FALSE
  BY DEF Init
<1>e. /\ Len(<<>>) = 0 /\ 1..Len(<<>>) = {} /\ DOMAIN <<>> = {}
      /\ \A X : <<>> \in Seq(X)
  OBVIOUS
<1>1. TypeOK
  <2>1. /\ PeerBytes \in Nat /\ MaxHellos \in Nat /\ Window \in Nat
        /\ script \in Seq([op : Receiving \cup Sending, length : Nat \ {0}])
    BY <1>i, SslAssumption DEF SslAssumption
  <2>2. Len(script) \in Nat
    BY <2>1
  <2>3. 0 \in 0..Len(script) /\ 0 \in 0..PeerBytes /\ 0 \in 0..MaxHellos /\ 0 <= Window
    BY <2>1, <2>2
  <2>4. /\ buf \in Seq(1..PeerBytes) /\ ret \in Seq(Seq(1..PeerBytes)) /\ decrypted \in Seq(1..PeerBytes)
        /\ in \in Seq([type : {"data", "hello", "done", "close"}, bytes : Seq(1..PeerBytes)])
        /\ out \in Seq(Nat) /\ received \in Seq(Nat)
    BY <1>i, <1>e, Zenon
  <2>5. Len(ret) = 0 /\ Len(out) = 0 /\ ~(0 > 0) /\ 0 \in Nat
    BY <1>i, <1>e
  <2>6. /\ step \in 0..Len(script) /\ peer_sent \in 0..PeerBytes /\ hellos \in 0..MaxHellos
        /\ Len(out) <= Window /\ Len(ret) = step
    BY <1>i, <2>3, <2>5
  <2>7. /\ pc \in {"idle", "ssl", "select", "timeout", "failed"} /\ pc = "idle"
        /\ want \in {"read", "write"} /\ handshake \in {"none", "reply", "done"}
        /\ written \in Nat /\ ~(written > 0) /\ reset \in BOOLEAN /\ closed \in BOOLEAN
    BY <1>i, <2>5
  <2> QED BY <1>i, <2>4, <2>6, <2>7, Zenon DEF TypeOK
<1>2. CallInv
  BY <1>i DEF CallInv
<1>3. Here = 0
  BY <1>i, <1>e, TotalStep DEF Here, From
<1>4. BytesInv
  <2>1. Total(Carried, Len(in)) = 0
    BY <1>i, <1>e, TotalStep
  <2>2. Stretch(buf, Here) /\ Stretch(decrypted, Here + Len(buf))
    BY <1>i, EmptyStretch
  <2>3. Records(in, Here + Len(buf) + Len(decrypted))
    BY <1>i, <1>e DEF Records
  <2>4. Here + Len(buf) + Len(decrypted) + Total(Carried, Len(in)) = peer_sent
    BY <1>i, <1>e, <1>3, <2>1
  <2> QED BY <2>2, <2>3, <2>4 DEF BytesInv
<1>5. WireInv
  BY <1>i, <1>e DEF WireInv
<1>6. Sent = 0
  BY <1>i, <1>e, TotalStep DEF Sent
<1>7. SentInv
  <2>1. (0 + 1)..(0 + 0) = {}
    OBVIOUS
  <2> QED BY <1>i, <1>e, <1>6, <2>1 DEF SentInv
<1>8. PastInv /\ NoSpuriousThrow
  BY <1>i, <1>e DEF PastInv, NoSpuriousThrow
<1> QED BY <1>1, <1>2, <1>4, <1>5, <1>7, <1>8 DEF IInv

\* Every state of a connection has all of this.
THEOREM IInvHolds == Spec => []IInv
<1>1. IInv /\ [Next]_vars => IInv'
  <2> SUFFICES ASSUME IInv, [Next]_vars PROVE IInv'
    OBVIOUS
  <2>1. TypeOK /\ CallInv /\ BytesInv /\ WireInv /\ SentInv /\ PastInv /\ NoSpuriousThrow
    BY DEF IInv
  <2>2. TypeOK'
    BY <2>1, StepType
  <2>3. CallInv' /\ BytesInv' /\ WireInv'
    BY <2>1, <2>2, StepCall, StepBytes, StepWire
  <2>4. SentInv' /\ PastInv' /\ NoSpuriousThrow'
    BY <2>1, <2>2, StepSent, StepPast, StepThrow
  <2> QED BY <2>2, <2>3, <2>4 DEF IInv
<1> QED BY InitInv, <1>1, PTL DEF Spec

\* What the run checks of the bytes received follows from the invariant.
LEMMA StreamIsIntact ==
  ASSUME TypeOK, BytesInv, PastInv
  PROVE  StreamIntact
<1>f. /\ buf \in Seq(Byte) /\ decrypted \in Seq(Byte) /\ Len(buf) \in Nat /\ Len(decrypted) \in Nat
      /\ Here \in Nat /\ in \in Seq(Record) /\ Len(in) \in Nat
  BY TypeFacts, UsedFacts
<1>s. ASSUME NEW s \in Seq(Byte), NEW a \in Nat, Stretch(s, a) PROVE s = [i \in 1..Len(s) |-> a + i]
  <2>1. s = [i \in 1..Len(s) |-> s[i]]
    OBVIOUS
  <2> QED BY <2>1, <1>s DEF Stretch
<1>1. ASSUME NEW k \in 1..Len(ret)
      PROVE  /\ ret[k] = [i \in 1..Len(ret[k]) |-> From(k) + i]
             /\ script[k].op = "CRecv" => Len(ret[k]) = script[k].length
             /\ script[k].op = "RecvCLRF" => (From(k) + 2)..From(k + 1) \cap LineEnds = {From(k + 1)}
  <2>1. CallPast(k)
    BY DEF PastInv
  <2>2. ret[k] \in Seq(Byte) /\ From(k) \in Nat
    <3>1. k \in 1..(Len(ret) + 1)
      BY ScriptFacts
    <3> QED BY <3>1, ScriptFacts, UsedFacts
  <2>3. Stretch(ret[k], From(k))
    BY <2>1 DEF CallPast
  <2>4. ret[k] = [i \in 1..Len(ret[k]) |-> From(k) + i]
    BY <2>2, <2>3, <1>s
  <2> QED BY <2>1, <2>4 DEF CallPast
<1>2. /\ buf \o decrypted \in Seq(Byte) /\ Stretch(buf \o decrypted, Here)
      /\ Len(buf \o decrypted) = Len(buf) + Len(decrypted)
  BY <1>f, StretchJoin DEF BytesInv
<1>3. buf \o decrypted = [i \in 1..Len(buf \o decrypted) |-> Here + i]
  BY <1>2, <1>f, <1>s
<1>4. ~reset => Here + Len(buf \o decrypted) + Total(Carried, Len(in)) = peer_sent
  <2> SUFFICES ASSUME ~reset PROVE Here + Len(buf \o decrypted) + Total(Carried, Len(in)) = peer_sent
    OBVIOUS
  <2>1. Carried = Sizes(in) /\ Len(in) \in 0..Len(in)
    BY <1>f DEF Carried, Sizes
  <2>2. Total(Carried, Len(in)) \in Nat
    BY <2>1, <1>f, SizesNat
  <2>3. Here + Len(buf) + Len(decrypted) + Total(Carried, Len(in)) = peer_sent
    BY DEF BytesInv
  <2>4. Here + (Len(buf) + Len(decrypted)) = Here + Len(buf) + Len(decrypted)
    BY <1>f
  <2> QED BY <2>3, <2>4, <1>2
<1> QED BY <1>1, <1>3, <1>4 DEF StreamIntact, Here

\* Intact: both directions of the connection, whatever handshakes come in between.
\* The receiving calls of SslClient.cpp, of any kind and in any order, each go on
\* where the one before it ended, over every cut into records; and what the peer
\* receives is what the sending calls were given, in order and once, although each
\* SSL_write is begun again after a WANT_READ or WANT_WRITE.
THEOREM IntactHolds == Spec => []Intact
<1>1. IInv => Intact
  BY StreamIsIntact, SentIsIntact DEF IInv, Intact
<1> QED BY <1>1, IInvHolds, PTL

\* ZeroIsClose: Recv returns 0 only when the peer has closed its end and the calls
\* have received all of its bytes, and not for a WANT_READ in between or after them.
THEOREM ZeroIsCloseHolds == Spec => []ZeroIsClose
<1>1. IInv => ZeroIsClose
  BY DEF IInv, PastInv, CallPast, ZeroIsClose
<1> QED BY <1>1, IInvHolds, PTL

\* NoSpuriousThrow: a call throws only after a time-out or a failing select, a
\* reset, or, if it must have more bytes, the peer's close; whatever OpenSSL asks
\* to wait for.
THEOREM NoSpuriousThrowHolds == Spec => []NoSpuriousThrow
<1>1. IInv => NoSpuriousThrow
  BY DEF IInv
<1> QED BY <1>1, IInvHolds, PTL
===========================================================================
